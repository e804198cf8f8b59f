------------------------- MODULE TurnServices_proofs -------------------------
(***************************************************************************)
(* What the services a turn works with promise, proved for any number of   *)
(* tool calls, tools, MCP servers and scopes of them, processes, edits,    *)
(* references, commands, tasks, messages and attempts.                     *)
(* For each there is an invariant that its first states satisfy and its    *)
(* steps keep, and what the invariant says of it; Components_proofs puts   *)
(* them together.                                                          *)
(***************************************************************************)
EXTENDS TurnServices, Sequences, FiniteSetTheorems, WellFoundedInduction, TLAPS

-----------------------------------------------------------------------------
(* ProcessService.                                                         *)

\* What of a run of a process holds in a service that is open or not.  A
\* process that runs and is not given up is in the table that close goes
\* through, and after that only the ones it could not see yet are left.
Reaped(run, open) ==
    /\ run.pc \in {"idle", "spawning"} => run.proc = "none"
    /\ run.pc = "killing" => run.proc # "alive"
    /\ run.cut => run.pc = "over"
    /\ run.proc = "alive" =>
          \/ run.late \/ run.cut
          \/ open /\ run.tracked /\ run.pc # "over"
    /\ open => ~run.late
    /\ ~open /\ run.pc = "spawning" => run.late
    /\ run.proc = "exited" /\ run.child # "none" => run.how # "killed"

RunRecord ==
    [pc : {"idle", "spawning", "held", "waiting", "terminating", "killing", "over"},
     proc : {"none", "alive", "exited"}, child : {"none", "quiet", "holding"},
     tracked : BOOLEAN, how : {"none", "itself", "sigterm", "killed"},
     late : BOOLEAN, cut : BOOLEAN]

ProcessInv ==
    /\ processService \in {"open", "closing", "closed", "gone"}
    /\ processRuns \in [ProcessCalls -> RunRecord]
    /\ \A r \in ProcessCalls : Reaped(processRuns[r], processService = "open")

\* A step of one run keeps the invariant if what becomes of that run does.
LEMMA OneRunChanges ==
    ASSUME ProcessInv, UNCHANGED processService, NEW r \in ProcessCalls,
           NEW new \in RunRecord, X!Change(r, new),
           Reaped(new, processService = "open")
    PROVE  ProcessInv'
BY DEF ProcessInv, X!Change

\* Every step of the process service keeps the invariant.
LEMMA ProcessStep == ProcessInv /\ [X!Next]_X!vars => ProcessInv'
<1> SUFFICES ASSUME ProcessInv, [X!Next]_X!vars PROVE ProcessInv'
  OBVIOUS
<1>1. CASE UNCHANGED X!vars
  BY <1>1 DEF X!vars, ProcessInv
<1>2. ASSUME NEW r \in ProcessCalls,
             \/ X!Ask(r) \/ X!Spawned(r) \/ X!SpawnFails(r) \/ X!Forks(r)
             \/ X!Exits(r) \/ X!ChildExits(r)
             \/ X!Wait(r) \/ X!Result(r) \/ X!GiveUp(r) \/ X!KillReturns(r)
             \/ X!Terminate(r) \/ X!TerminateReturns(r) \/ X!TerminateCut(r)
      PROVE  ProcessInv'
  <2>1. processRuns[r] \in RunRecord /\ Reaped(processRuns[r], processService = "open")
    BY DEF ProcessInv
  <2>2. UNCHANGED processService
    BY <1>2 DEF X!Ask, X!Spawned, X!SpawnFails, X!Forks, X!Exits, X!ChildExits,
       X!Wait, X!Result, X!GiveUp, X!KillReturns, X!Terminate,
       X!TerminateReturns, X!TerminateCut
  <2>3. CASE X!Ask(r)
    <3>1. /\ processRuns[r].pc = "idle" /\ processService = "open"
          /\ X!Change(r, [processRuns[r] EXCEPT !.pc = "spawning"])
      BY <2>3 DEF X!Ask
    <3>2. [processRuns[r] EXCEPT !.pc = "spawning"] \in RunRecord
      BY <2>1 DEF RunRecord
    <3>3. Reaped([processRuns[r] EXCEPT !.pc = "spawning"], processService = "open")
      BY <2>1, <3>1 DEF RunRecord, Reaped
    <3> QED
      BY <2>2, <3>1, <3>2, <3>3, OneRunChanges
  <2>4. CASE X!Spawned(r)
    <3>1. /\ processRuns[r].pc = "spawning"
          /\ \E pc \in {"waiting", "held"} :
                X!Change(r, [processRuns[r] EXCEPT !.pc = pc, !.proc = "alive",
                                                   !.tracked = TRUE])
      BY <2>4 DEF X!Spawned
    <3>2. PICK pc \in {"waiting", "held"} :
             X!Change(r, [processRuns[r] EXCEPT !.pc = pc, !.proc = "alive",
                                                !.tracked = TRUE])
      BY <3>1
    <3> DEFINE new == [processRuns[r] EXCEPT !.pc = pc, !.proc = "alive",
                                             !.tracked = TRUE]
    <3>3. new \in RunRecord /\ Reaped(new, processService = "open")
      BY <2>1, <3>1 DEF RunRecord, Reaped
    <3> QED
      BY <2>2, <3>2, <3>3, OneRunChanges
  <2>5. CASE X!SpawnFails(r)
    <3>1. /\ processRuns[r].pc = "spawning"
          /\ X!Change(r, X!Over(processRuns[r]))
      BY <2>5 DEF X!SpawnFails
    <3>2. /\ X!Over(processRuns[r]) \in RunRecord
          /\ Reaped(X!Over(processRuns[r]), processService = "open")
      BY <2>1, <3>1 DEF RunRecord, Reaped, X!Over
    <3> QED
      BY <2>2, <3>1, <3>2, OneRunChanges
  <2>6. CASE X!Forks(r)
    <3>1. processRuns[r].proc = "alive"
      BY <2>6 DEF X!Forks
    <3>2. PICK child \in {"quiet", "holding"} :
             X!Change(r, [processRuns[r] EXCEPT !.child = child])
      BY <2>6 DEF X!Forks
    <3> DEFINE new == [processRuns[r] EXCEPT !.child = child]
    <3>3. new \in RunRecord /\ Reaped(new, processService = "open")
      BY <2>1, <3>1 DEF RunRecord, Reaped
    <3> QED
      BY <2>2, <3>2, <3>3, OneRunChanges
  <2>7. CASE X!Exits(r)
    <3> DEFINE new == [processRuns[r] EXCEPT !.proc = "exited",
                          !.how = IF processRuns[r].pc = "terminating"
                                  THEN "sigterm" ELSE "itself"]
    <3>1. processRuns[r].proc = "alive" /\ X!Change(r, new)
      BY <2>7 DEF X!Exits
    <3>2. new \in RunRecord /\ Reaped(new, processService = "open")
      BY <2>1, <3>1 DEF RunRecord, Reaped
    <3> QED
      BY <2>2, <3>1, <3>2, OneRunChanges
  <2>8. CASE X!ChildExits(r)
    <3> DEFINE new == [processRuns[r] EXCEPT !.child = "none"]
    <3>1. X!Change(r, new)
      BY <2>8 DEF X!ChildExits
    <3>2. new \in RunRecord /\ Reaped(new, processService = "open")
      BY <2>1 DEF RunRecord, Reaped
    <3> QED
      BY <2>2, <3>1, <3>2, OneRunChanges
  <2>9. CASE X!Wait(r)
    <3> DEFINE new == [processRuns[r] EXCEPT !.pc = "waiting"]
    <3>1. processRuns[r].pc = "held" /\ X!Change(r, new)
      BY <2>9 DEF X!Wait
    <3>2. new \in RunRecord /\ Reaped(new, processService = "open")
      BY <2>1, <3>1 DEF RunRecord, Reaped
    <3> QED
      BY <2>2, <3>1, <3>2, OneRunChanges
  <2>10. CASE X!Result(r) \/ X!KillReturns(r)
              \/ (X!Terminate(r) /\ processRuns[r].proc = "exited")
              \/ (X!TerminateReturns(r) /\ processRuns[r].proc = "exited")
    <3>1. processRuns[r].proc # "alive" /\ X!Change(r, X!Over(processRuns[r]))
      BY <2>1, <2>10
         DEF X!Result, X!KillReturns, X!Terminate, X!TerminateReturns, Reaped
    <3>2. /\ X!Over(processRuns[r]) \in RunRecord
          /\ Reaped(X!Over(processRuns[r]), processService = "open")
      BY <2>1, <3>1 DEF RunRecord, Reaped, X!Over
    <3> QED
      BY <2>2, <3>1, <3>2, OneRunChanges
  <2>11. CASE \/ X!GiveUp(r)
              \/ (X!TerminateReturns(r) /\ processRuns[r].proc # "exited")
    <3> DEFINE new == [X!Killed(processRuns[r]) EXCEPT !.pc = "killing"]
    <3>1. X!Change(r, new) /\ processRuns[r].pc \in {"waiting", "terminating"}
      BY <2>11 DEF X!GiveUp, X!TerminateReturns
    <3>2. new \in RunRecord /\ Reaped(new, processService = "open")
      BY <2>1, <3>1 DEF RunRecord, Reaped, X!Killed
    <3> QED
      BY <2>2, <3>1, <3>2, OneRunChanges
  <2>12. CASE X!Terminate(r) /\ processRuns[r].proc # "exited"
    <3> DEFINE new == [processRuns[r] EXCEPT !.pc = "terminating"]
    <3>1. X!Change(r, new) /\ processRuns[r].pc = "held"
      BY <2>12 DEF X!Terminate
    <3>2. new \in RunRecord /\ Reaped(new, processService = "open")
      BY <2>1, <3>1 DEF RunRecord, Reaped
    <3> QED
      BY <2>2, <3>1, <3>2, OneRunChanges
  <2>13. CASE X!TerminateCut(r)
    <3> DEFINE new == [X!Over(processRuns[r]) EXCEPT !.cut = TRUE]
    <3>1. X!Change(r, new) /\ processRuns[r].pc = "terminating"
      BY <2>13 DEF X!TerminateCut
    <3>2. new \in RunRecord /\ Reaped(new, processService = "open")
      BY <2>1, <3>1 DEF RunRecord, Reaped, X!Over
    <3> QED
      BY <2>2, <3>1, <3>2, OneRunChanges
  <2> QED
    BY <1>2, <2>3, <2>4, <2>5, <2>6, <2>7, <2>8, <2>9, <2>10, <2>11, <2>12, <2>13
\* close kills what is in the table; what is being created is not in it yet.
<1>3. CASE X!Close
  <2> DEFINE new(r) == [IF processRuns[r].tracked THEN X!Killed(processRuns[r])
                                                  ELSE processRuns[r]
                           EXCEPT !.late = processRuns[r].pc = "spawning"]
  <2>1. /\ processService = "open" /\ processService' = "closing"
        /\ processRuns' = [r \in ProcessCalls |-> new(r)]
    BY <1>3 DEF X!Close
  <2>2. ASSUME NEW r \in ProcessCalls
        PROVE  new(r) \in RunRecord /\ Reaped(new(r), FALSE)
    <3>1. processRuns[r] \in RunRecord /\ Reaped(processRuns[r], TRUE)
      BY <2>1 DEF ProcessInv
    <3>2. CASE processRuns[r].tracked
      <4>1. new(r) = [X!Killed(processRuns[r]) EXCEPT
                         !.late = processRuns[r].pc = "spawning"]
        BY <3>2
      <4>2. /\ X!Killed(processRuns[r]) \in RunRecord
            /\ X!Killed(processRuns[r]).pc = processRuns[r].pc
            /\ X!Killed(processRuns[r]).proc # "alive"
            /\ Reaped(X!Killed(processRuns[r]), TRUE)
        BY <3>1 DEF RunRecord, Reaped, X!Killed
      <4> QED
        BY <4>1, <4>2 DEF RunRecord, Reaped
    <3>3. CASE ~processRuns[r].tracked
      <4>1. new(r) = [processRuns[r] EXCEPT
                         !.late = processRuns[r].pc = "spawning"]
        BY <3>3
      <4> QED
        BY <3>1, <3>3, <4>1 DEF RunRecord, Reaped
    <3> QED
      BY <3>2, <3>3
  <2> QED
    BY <2>1, <2>2 DEF ProcessInv
<1>4. CASE X!Closed
  <2> DEFINE new(r) == [processRuns[r] EXCEPT !.tracked = FALSE]
  <2>1. /\ processService = "closing" /\ processService' = "closed"
        /\ processRuns' = [r \in ProcessCalls |-> new(r)]
    BY <1>4 DEF X!Closed
  <2>2. ASSUME NEW r \in ProcessCalls
        PROVE  new(r) \in RunRecord /\ Reaped(new(r), FALSE)
    <3>1. processRuns[r] \in RunRecord /\ Reaped(processRuns[r], FALSE)
      BY <2>1 DEF ProcessInv
    <3> QED
      BY <3>1 DEF RunRecord, Reaped
  <2> QED
    BY <2>1, <2>2 DEF ProcessInv
<1>5. CASE X!Ends
  <2> DEFINE new(r) == IF processRuns[r].pc \in {"idle", "over"} THEN processRuns[r]
                       ELSE [X!Over(processRuns[r])
                                EXCEPT !.cut = processService # "closed"]
  <2>1. /\ processService' = "gone"
        /\ processRuns' = [r \in ProcessCalls |-> new(r)]
    BY <1>5 DEF X!Ends
  <2>2. ASSUME NEW r \in ProcessCalls
        PROVE  new(r) \in RunRecord /\ Reaped(new(r), FALSE)
    <3>1. processRuns[r] \in RunRecord
          /\ Reaped(processRuns[r], processService = "open")
      BY DEF ProcessInv
    <3>2. CASE processRuns[r].pc \in {"idle", "over"}
      BY <3>1, <3>2 DEF RunRecord, Reaped
    <3>3. CASE processRuns[r].pc \notin {"idle", "over"} /\ processService = "closed"
      <4>1. new(r) = [X!Over(processRuns[r]) EXCEPT !.cut = FALSE]
        BY <3>3
      <4> QED
        BY <3>1, <3>3, <4>1 DEF RunRecord, Reaped, X!Over
    <3>4. CASE processRuns[r].pc \notin {"idle", "over"} /\ processService # "closed"
      <4>1. new(r) = [X!Over(processRuns[r]) EXCEPT !.cut = TRUE]
        BY <3>4
      <4> QED
        BY <3>1, <3>4, <4>1 DEF RunRecord, Reaped, X!Over
    <3> QED
      BY <3>2, <3>3, <3>4
  <2> QED
    BY <2>1, <2>2 DEF ProcessInv
<1> QED
  BY <1>1, <1>2, <1>3, <1>4, <1>5 DEF X!Next

-----------------------------------------------------------------------------
(* The inside of a turn.                                                   *)

TurnRun ==
    [iteration : Nat, attempt : Nat, empties : Nat, final : BOOLEAN,
     continued : Nat, done : T!Reasons]

\* What holds of a call: it has run once at most, one that was refused has not
\* run, and one that waits for the user, or has been allowed by him, asks, has
\* not run and is not refused.
CallSound(k) ==
    /\ k.ran <= 1
    /\ k.refused => k.ran = 0
    /\ k.state \in {"asking", "allowed"} => k.ran = 0 /\ k.asks /\ ~k.refused

\* A call of the batch that is about to be executed is a new one.
CallNew(k) == k.state = "pending" /\ k.ran = 0 /\ ~k.refused

Asked == \E c \in Calls : turnCalls[c].state = "asking"

TurnInv ==
    /\ turnCalls \in [Calls -> T!Call]
    /\ turnConfirm \in Calls \cup {T!NoCall}
    /\ turnRun \in TurnRun
    /\ turnBatch \subseteq Calls
    /\ turnBatch # {} => turnPc = "acting"
    /\ turnPc = "recovering" => turnRun.done = "error"
    /\ \A c \in Calls : CallSound(turnCalls[c])
    /\ \A c \in turnBatch : CallNew(turnCalls[c])
    /\ turnPc = "closing" /\ turnRun.done = "paused" => Asked
    /\ turnPc = "idle" /\ turnOutcome = "paused" => Asked

\* What the runner does next is neither a pause nor, without tools, an
\* execution of tools, and it fails only with an error.
LEMMA Decided ==
    ASSUME NEW r \in TurnRun, NEW prev
    PROVE  /\ T!Decide(r, prev).run \in TurnRun
           /\ T!Decide(r, prev).pc \in {"reasoning", "acting", "stopping",
                                        "recovering", "closing"}
           /\ prev # "tools" => T!Decide(r, prev).pc # "acting"
           /\ prev = "tools" => T!Decide(r, prev).pc = "acting"
           /\ T!Decide(r, prev).pc = "recovering" =>
                 T!Decide(r, prev).run.done = "error"
           /\ T!Decide(r, prev).pc = "closing" =>
                 T!Decide(r, prev).run.done # "paused"
<1>1. ASSUME NEW s \in TurnRun
      PROVE  /\ T!Failed(s).run \in TurnRun /\ T!Failed(s).pc = "recovering"
             /\ T!Failed(s).run.done = "error"
  BY DEF T!Failed, TurnRun, T!Reasons
<1>2. ASSUME NEW s \in TurnRun
      PROVE  /\ T!Reasoning(s).run \in TurnRun
             /\ T!Reasoning(s).pc = "reasoning"
  <2> DEFINE n == IF s.iteration < T!IterationCap THEN s.iteration + 1
                                                  ELSE s.iteration
             new == [s EXCEPT !.iteration = n, !.attempt = 1]
  <2>1. n \in Nat
    BY DEF TurnRun
  <2>2. T!Reasoning(s) = [pc |-> "reasoning", run |-> new]
    BY DEF T!Reasoning
  <2> HIDE DEF n
  <2>3. new \in TurnRun
    BY <2>1 DEF TurnRun
  <2> QED
    BY <2>2, <2>3
<1>3. ASSUME NEW s \in TurnRun
      PROVE  /\ T!Exit(s, "exceed_max_iters").run \in TurnRun
             /\ T!Exit(s, "exceed_max_iters").pc = "closing"
             /\ T!Exit(s, "exceed_max_iters").run.done # "paused"
  BY DEF T!Exit, TurnRun, T!Reasons
<1>4. [r EXCEPT !.empties = @ + 1] \in TurnRun
  BY DEF TurnRun
<1>5. [r EXCEPT !.final = TRUE] \in TurnRun
  BY DEF TurnRun
<1>6. CASE prev = "error"
  BY <1>1, <1>6 DEF T!Decide
<1>7. CASE prev = "tools"
  <2>1. T!Decide(r, prev) = [pc |-> "acting", run |-> r]
    BY <1>7 DEF T!Decide
  <2> QED
    BY <1>7, <2>1
<1>8. CASE prev = "text"
  <2>1. T!Decide(r, prev) = [pc |-> "stopping", run |-> r]
    BY <1>8 DEF T!Decide
  <2> QED
    BY <1>8, <2>1
<1>9. CASE prev \notin {"error", "tools", "text"}
  <2>1. \/ T!Decide(r, prev) = T!Failed(r)
        \/ T!Decide(r, prev) = T!Reasoning([r EXCEPT !.empties = @ + 1])
        \/ T!Decide(r, prev) = T!Reasoning([r EXCEPT !.final = TRUE])
        \/ T!Decide(r, prev) = T!Exit(r, "exceed_max_iters")
        \/ T!Decide(r, prev) = T!Reasoning(r)
    <3>1. CASE prev = "empty" /\ r.final
      BY <3>1 DEF T!Decide
    <3>2. CASE prev = "empty" /\ ~r.final
      BY <3>2 DEF T!Decide
    <3>3. CASE prev = "none"
      BY <3>3 DEF T!Decide
    <3>4. CASE prev \notin {"error", "tools", "text", "empty", "none"}
      BY <3>4 DEF T!Decide
    <3> QED
      BY <1>9, <3>1, <3>2, <3>3, <3>4
  <2>2. CASE T!Decide(r, prev) = T!Failed(r)
    BY <1>1, <1>9, <2>2
  <2>3. CASE T!Decide(r, prev) = T!Exit(r, "exceed_max_iters")
    BY <1>3, <1>9, <2>3
  <2>4. CASE \E s \in TurnRun :
                T!Decide(r, prev) = T!Reasoning(s)
    BY <1>2, <1>9, <2>4
  <2> QED
    BY <1>4, <1>5, <2>1, <2>2, <2>3, <2>4
<1> QED
  BY <1>6, <1>7, <1>8, <1>9

\* What an execution of the calls B leaves: new calls and allowed ones run once
\* at most, and those that have asked are asking afterwards.
LEMMA ExecutedSound ==
    ASSUME TurnInv, NEW B, B \subseteq Calls, NEW Askers, Askers \subseteq T!Questions(B),
           NEW Ran, Ran \subseteq B \ T!Questions(B),
           \/ \A c \in B : CallNew(turnCalls[c])
           \/ \A c \in B : turnCalls[c].state = "allowed"
    PROVE  /\ T!Executed(B, Askers, Ran) \in [Calls -> T!Call]
           /\ \A c \in Calls : CallSound(T!Executed(B, Askers, Ran)[c])
           /\ \A c \in Askers : T!Executed(B, Askers, Ran)[c].state = "asking"
           /\ \A c \in Calls \ B : T!Executed(B, Askers, Ran)[c] = turnCalls[c]
<1>1. ASSUME NEW c \in Calls
      PROVE  /\ T!Executed(B, Askers, Ran)[c] \in T!Call
             /\ CallSound(T!Executed(B, Askers, Ran)[c])
             /\ c \in Askers => T!Executed(B, Askers, Ran)[c].state = "asking"
             /\ c \notin B => T!Executed(B, Askers, Ran)[c] = turnCalls[c]
  <2> DEFINE k == turnCalls[c]
             ran == IF c \in Ran /\ k.ran < 2 THEN k.ran + 1 ELSE k.ran
  <2>1. k \in T!Call /\ CallSound(k)
    BY DEF TurnInv
  <2>2. /\ ran \in 0 .. 2 /\ (c \notin Ran => ran = k.ran)
        /\ k.ran = 0 => ran <= 1
    BY <2>1 DEF T!Call
  <2>3. CASE c \notin B
    <3>1. T!Executed(B, Askers, Ran)[c] = k
      BY <2>3 DEF T!Executed
    <3>2. c \notin Askers
      BY <2>3 DEF T!Questions
    <3> QED
      BY <2>1, <2>3, <3>1, <3>2
  <2>4. CASE c \in B /\ Askers = {}
    <3> DEFINE new == [k EXCEPT !.ran = ran, !.state = "finished", !.answered = TRUE]
    <3>1. T!Executed(B, Askers, Ran)[c] = new
      BY <2>4 DEF T!Executed
    <3>2. k.ran = 0 /\ ~k.refused
      BY <2>1, <2>4 DEF CallNew, CallSound
    <3>3. new \in T!Call /\ CallSound(new)
      BY <2>1, <2>2, <3>2 DEF T!Call, T!CallStates, CallSound
    <3> QED
      BY <2>4, <3>1, <3>3
  <2>5. CASE c \in Askers
    <3> DEFINE new == [k EXCEPT !.state = "asking"]
    <3>1. c \in B /\ k.asks
      BY <2>5 DEF T!Questions
    <3>2. T!Executed(B, Askers, Ran)[c] = new
      BY <2>5, <3>1 DEF T!Executed
    <3>3. k.ran = 0 /\ ~k.refused
      BY <2>1, <3>1 DEF CallNew, CallSound
    <3>4. new \in T!Call /\ CallSound(new) /\ new.state = "asking"
      BY <2>1, <3>1, <3>3 DEF T!Call, T!CallStates, CallSound
    <3> QED
      BY <3>1, <3>2, <3>4
  <2>6. CASE c \in B \ Askers /\ Askers # {}
    <3> DEFINE new == [k EXCEPT !.ran = ran]
    <3>1. T!Executed(B, Askers, Ran)[c] = new
      BY <2>6 DEF T!Executed
    <3>2. CASE CallNew(k)
      <4>1. new \in T!Call /\ CallSound(new)
        BY <2>1, <2>2, <3>2 DEF T!Call, T!CallStates, CallSound, CallNew
      <4> QED
        BY <2>6, <3>1, <4>1
    \* All that are allowed ask, so the approval service answers for all or none.
    <3>3. CASE ~CallNew(k)
      <4>1. \A d \in B : turnCalls[d].state = "allowed" /\ turnCalls[d].asks
        BY <2>6, <3>3 DEF TurnInv, CallSound
      <4>2. PICK d \in Askers : TRUE
        BY <2>6
      <4>3. d \in B /\ ~(turnRemembers /\ turnCalls[d].state = "allowed")
        BY <4>2 DEF T!Questions
      <4>4. c \in T!Questions(B)
        BY <2>6, <4>1, <4>3 DEF T!Questions
      <4>5. new = k
        BY <2>1, <2>2, <4>4 DEF T!Call
      <4> QED
        BY <2>1, <2>6, <3>1, <4>5
    <3> QED
      BY <3>2, <3>3
  <2> QED
    BY <2>3, <2>4, <2>5, <2>6
<1>2. \A c \in Askers : c \in Calls
  BY DEF T!Questions
<1>3. T!Executed(B, Askers, Ran) \in [Calls -> T!Call]
  BY <1>1 DEF T!Executed
<1> QED
  BY <1>1, <1>2, <1>3

\* A user's answer that a turn takes: other open questions pause it again.
LEMMA AcceptedSound ==
    ASSUME TurnInv, turnConfirm # T!NoCall, T!Accept
    PROVE  /\ turnCalls' \in [Calls -> T!Call]
           /\ \A c \in Calls : CallSound(turnCalls'[c])
           /\ turnRun' \in TurnRun
           /\ turnPc' \in {"closing", "resuming", "recovering"}
           /\ turnPc' = "recovering" => turnRun'.done = "error"
           /\ turnPc' = "closing" => Asked'
<1> DEFINE k == turnCalls[turnConfirm]
           expected == IF k.refused THEN "finished" ELSE "allowed"
           accepted == IF k.state = "asking" THEN expected ELSE k.state
           new == [k EXCEPT !.state = accepted]
<1>1. turnConfirm \in Calls /\ k \in T!Call /\ CallSound(k) /\ turnRun \in TurnRun
  BY DEF TurnInv
<1>2. turnCalls' = [turnCalls EXCEPT ![turnConfirm].state = accepted]
  BY DEF T!Accept
<1>3. turnCalls' = [turnCalls EXCEPT ![turnConfirm] = new]
  BY <1>2
<1>4. new \in T!Call /\ CallSound(new)
  <2>1. CASE k.state = "asking"
    <3>1. accepted = "allowed"
      BY <1>1, <2>1 DEF CallSound
    <3> HIDE DEF accepted
    <3> QED
      BY <1>1, <2>1, <3>1 DEF T!Call, T!CallStates, CallSound
  <2>2. CASE k.state # "asking"
    <3>1. new = k
      BY <1>1, <2>2 DEF T!Call
    <3> QED
      BY <1>1, <3>1
  <2> QED
    BY <2>1, <2>2
<1>5. \/ turnPc' = "recovering" /\ turnRun' = [turnRun EXCEPT !.done = "error"]
      \/ /\ T!InState("asking") \ {turnConfirm} # {}
         /\ turnPc' = "closing" /\ turnRun' = [turnRun EXCEPT !.done = "paused"]
      \/ turnPc' = "resuming" /\ UNCHANGED turnRun
  BY DEF T!Accept, T!Goto, T!Failed, T!Exit
<1>6. turnRun' \in TurnRun /\ (turnPc' = "recovering" => turnRun'.done = "error")
  BY <1>1, <1>5 DEF TurnRun, T!Reasons
<1>7. turnPc' = "closing" => Asked'
  <2>1. ASSUME T!InState("asking") \ {turnConfirm} # {} PROVE Asked'
    <3>1. PICK c \in Calls : c # turnConfirm /\ turnCalls[c].state = "asking"
      BY <2>1 DEF T!InState
    <3>2. turnCalls'[c] = turnCalls[c]
      BY <1>3, <3>1 DEF TurnInv
    <3> QED
      BY <3>1, <3>2 DEF Asked
  <2> QED
    BY <1>5, <2>1
<1> HIDE DEF new
<1>8. /\ turnCalls' \in [Calls -> T!Call]
      /\ \A c \in Calls : CallSound(turnCalls'[c])
  BY <1>1, <1>3, <1>4 DEF TurnInv
<1> QED
  BY <1>5, <1>6, <1>7, <1>8

\* Steps that leave the calls and the batch alone, and pause nothing.
LEMMA TurnGoesOn ==
    ASSUME TurnInv, UNCHANGED turnCalls, turnBatch' \in {turnBatch, {}},
           turnConfirm' \in Calls \cup {T!NoCall}, turnRun' \in TurnRun,
           turnBatch' # {} => turnPc' = "acting",
           turnPc' = "recovering" => turnRun'.done = "error",
           turnPc' = "closing" => turnRun'.done # "paused" \/ Asked,
           turnPc' = "idle" => turnOutcome' # "paused" \/ Asked
    PROVE  TurnInv'
BY DEF TurnInv, Asked

\* Steps after which no tool is about to be executed.
LEMMA TurnChangesCalls ==
    ASSUME TurnInv, turnCalls' \in [Calls -> T!Call],
           \A c \in Calls : CallSound(turnCalls'[c]),
           turnBatch' = {}, UNCHANGED turnConfirm, turnRun' \in TurnRun,
           turnPc' # "idle",
           turnPc' = "recovering" => turnRun'.done = "error",
           turnPc' = "closing" /\ turnRun'.done = "paused" => Asked'
    PROVE  TurnInv'
BY DEF TurnInv

\* Calls that the model announces are new.
LEMMA AnnouncedSound ==
    ASSUME TurnInv, NEW B \in SUBSET Calls, NEW A, T!Announce(B, A)
    PROVE  /\ turnCalls' \in [Calls -> T!Call]
           /\ \A c \in Calls : CallSound(turnCalls'[c])
           /\ \A c \in B : CallNew(turnCalls'[c])
<1>1. ASSUME NEW c \in Calls
      PROVE  /\ turnCalls'[c] \in T!Call /\ CallSound(turnCalls'[c])
             /\ c \in B => CallNew(turnCalls'[c])
  <2>1. CASE c \notin B
    BY <2>1 DEF T!Announce, TurnInv
  <2>2. CASE c \in B
    <3> DEFINE new(asks) == [T!AbsentCall EXCEPT !.state = "pending", !.asks = asks]
    <3>1. turnCalls'[c] = new(c \in A)
      BY <2>2 DEF T!Announce
    <3>2. ASSUME NEW asks \in BOOLEAN
          PROVE  new(asks) \in T!Call /\ CallSound(new(asks)) /\ CallNew(new(asks))
      <4>1. /\ T!AbsentCall \in T!Call /\ T!AbsentCall.ran = 0
            /\ ~T!AbsentCall.refused
        BY DEF T!AbsentCall, T!Call, T!CallStates
      <4>2. new(asks) \in T!Call
        BY <4>1 DEF T!Call, T!CallStates
      <4>3. new(asks).state = "pending" /\ new(asks).ran = 0
        BY <4>1 DEF T!Call
      <4>4. new(asks).refused = T!AbsentCall.refused
        BY <4>1 DEF T!Call
      <4> HIDE DEF new
      <4> QED
        BY <4>1, <4>2, <4>3, <4>4 DEF CallSound, CallNew
    <3> HIDE DEF new
    <3>3. turnCalls'[c] = new(TRUE) \/ turnCalls'[c] = new(FALSE)
      <4>1. CASE c \in A
        BY <3>1, <4>1, Zenon
      <4>2. CASE c \notin A
        <5>1. (c \in A) = FALSE
          BY <4>2
        <5> QED
          BY <3>1, <5>1, Zenon
      <4> QED
        BY <4>1, <4>2
    <3> QED
      BY <3>2, <3>3
  <2> QED
    BY <2>1, <2>2
<1>2. turnCalls' \in [Calls -> T!Call]
  BY <1>1 DEF T!Announce
<1> QED
  BY <1>1, <1>2

\* An execution of the batch, whose calls are new.
LEMMA BatchExecuted ==
    ASSUME TurnInv, NEW Askers \in SUBSET T!Questions(turnBatch),
           NEW Ran \in SUBSET (turnBatch \ T!Questions(turnBatch)),
           \A c \in turnBatch : CallNew(turnCalls[c]),
           turnCalls' = T!Executed(turnBatch, Askers, Ran)
    PROVE  /\ turnCalls' \in [Calls -> T!Call]
           /\ \A c \in Calls : CallSound(turnCalls'[c])
           /\ \A c \in Askers : turnCalls'[c].state = "asking"
<1>1. PICK B : B = turnBatch
  OBVIOUS
<1>2. /\ B \subseteq Calls /\ \A c \in B : CallNew(turnCalls[c])
      /\ Askers \subseteq T!Questions(B) /\ Ran \subseteq B \ T!Questions(B)
      /\ turnCalls' = T!Executed(B, Askers, Ran)
  BY <1>1 DEF TurnInv
<1>3. T!Executed(B, Askers, Ran) \in [Calls -> T!Call]
  BY <1>2, ExecutedSound
<1>4. \A c \in Calls : CallSound(T!Executed(B, Askers, Ran)[c])
  BY <1>2, ExecutedSound
<1>5. \A c \in Askers : T!Executed(B, Askers, Ran)[c].state = "asking"
  BY <1>2, ExecutedSound
<1> QED
  BY <1>2, <1>3, <1>4, <1>5

\* The calls a resumed turn leaves: the allowed ones are executed.
LEMMA ResumedSound ==
    ASSUME TurnInv, NEW open \in SUBSET Calls, NEW allowed \in SUBSET open,
           \A c \in allowed : turnCalls[c].state = "allowed",
           NEW Askers \in SUBSET T!Questions(allowed),
           NEW Ran \in SUBSET (allowed \ T!Questions(allowed))
    PROVE  /\ T!Resumed(allowed, open, Askers, Ran) \in [Calls -> T!Call]
           /\ \A c \in Calls : CallSound(T!Resumed(allowed, open, Askers, Ran)[c])
<1>1. /\ T!Executed(allowed, Askers, Ran) \in [Calls -> T!Call]
      /\ \A c \in Calls : CallSound(T!Executed(allowed, Askers, Ran)[c])
  BY ExecutedSound
<1>2. ASSUME NEW c \in Calls
      PROVE  /\ T!Resumed(allowed, open, Askers, Ran)[c] \in T!Call
             /\ CallSound(T!Resumed(allowed, open, Askers, Ran)[c])
  <2>1. CASE c \in open \ allowed
    <3> DEFINE new == [turnCalls[c] EXCEPT !.state = "finished", !.answered = TRUE]
    <3>1. T!Resumed(allowed, open, Askers, Ran)[c] = new
      BY <2>1 DEF T!Resumed
    <3>2. turnCalls[c] \in T!Call /\ CallSound(turnCalls[c])
      BY DEF TurnInv
    <3>3. new \in T!Call /\ CallSound(new)
      BY <3>2 DEF T!Call, T!CallStates, CallSound
    <3> QED
      BY <3>1, <3>3
  <2>2. CASE c \notin open \ allowed
    <3>1. T!Resumed(allowed, open, Askers, Ran)[c] = T!Executed(allowed, Askers, Ran)[c]
      BY <2>2 DEF T!Resumed
    <3> QED
      BY <1>1, <3>1
  <2> QED
    BY <2>1, <2>2
<1>3. T!Resumed(allowed, open, Askers, Ran) \in [Calls -> T!Call]
  BY <1>2 DEF T!Resumed
<1> QED
  BY <1>2, <1>3

\* Every step of a turn keeps the invariant.
LEMMA TurnStep == TurnInv /\ [T!Next]_T!vars => TurnInv'
<1> SUFFICES ASSUME TurnInv, [T!Next]_T!vars PROVE TurnInv'
  OBVIOUS
<1>1. /\ turnRun \in TurnRun /\ turnBatch \subseteq Calls
      /\ turnBatch # {} => turnPc = "acting"
      /\ turnConfirm \in Calls \cup {T!NoCall}
      /\ turnCalls \in [Calls -> T!Call]
      /\ \A c \in Calls : CallSound(turnCalls[c])
      /\ turnPc = "recovering" => turnRun.done = "error"
      /\ turnPc = "closing" /\ turnRun.done = "paused" => Asked
      /\ turnPc = "idle" /\ turnOutcome = "paused" => Asked
  BY DEF TurnInv
<1>2. T!NewRun \in TurnRun
  BY DEF T!NewRun, TurnRun, T!Reasons
<1>3. \A reason \in T!Reasons :
         /\ T!Exit(turnRun, reason).run \in TurnRun
         /\ T!Exit(turnRun, reason).run.done = reason
         /\ T!Exit(turnRun, reason).pc = "closing"
  BY <1>1 DEF T!Exit, TurnRun
<1>4. /\ T!Failed(turnRun).run \in TurnRun /\ T!Failed(turnRun).pc = "recovering"
      /\ T!Failed(turnRun).run.done = "error"
  BY <1>1 DEF T!Failed, TurnRun, T!Reasons
<1>5. {"interrupted", "error", "paused", "completed"} \subseteq T!Reasons
  BY DEF T!Reasons
<1>6. CASE UNCHANGED T!vars
  BY <1>6 DEF T!vars, TurnInv, Asked
<1>7. CASE T!Message \/ T!Restart
  BY <1>1, <1>2, <1>7, TurnGoesOn DEF T!Message, T!Restart, T!Begin
\* The answer of the user to an open question.
<1>8. ASSUME NEW c \in Calls, NEW approved \in BOOLEAN, T!Answer(c, approved)
      PROVE  TurnInv'
  <2> DEFINE new == [turnCalls[c] EXCEPT
                        !.state = IF approved THEN "allowed" ELSE "finished",
                        !.refused = ~approved]
  <2>1. /\ turnCalls[c].state = "asking" /\ turnPc' = "building"
        /\ turnBatch' = {} /\ turnConfirm' = c /\ turnRun' = T!NewRun
        /\ turnCalls' = [turnCalls EXCEPT ![c] = new]
    BY <1>1, <1>8 DEF T!Answer, T!Begin
  <2>2. /\ turnCalls[c] \in T!Call /\ turnCalls[c].ran = 0 /\ turnCalls[c].asks
    BY <1>1, <2>1 DEF CallSound
  <2>3. new \in T!Call /\ CallSound(new)
    <3>1. CASE approved
      <4>1. /\ new \in T!Call /\ new.ran = 0 /\ new.asks = turnCalls[c].asks
            /\ new.refused = FALSE
        BY <2>2, <3>1 DEF T!Call, T!CallStates
      <4> QED
        BY <2>2, <4>1 DEF CallSound
    <3>2. CASE ~approved
      <4>1. new \in T!Call /\ new.ran = 0 /\ new.state = "finished"
        BY <2>2, <3>2 DEF T!Call, T!CallStates
      <4> QED
        BY <2>2, <4>1 DEF CallSound
    <3> QED
      BY <3>1, <3>2
  <2> HIDE DEF new
  <2> QED
    BY <1>1, <1>2, <2>1, <2>3 DEF TurnInv
<1>9. CASE T!Build
  <2>1. turnPc = "building" /\ UNCHANGED <<turnBatch, turnConfirm>>
    BY <1>9 DEF T!Build
  <2>2. CASE T!Goto(T!Exit(turnRun, "error")) /\ UNCHANGED turnCalls
    BY <1>1, <1>3, <1>5, <2>1, <2>2, TurnGoesOn DEF T!Goto
  <2>3. CASE T!Goto(T!Decide(turnRun, "none")) /\ UNCHANGED turnCalls
    BY <1>1, <2>1, <2>3, Decided, TurnGoesOn DEF T!Goto
  <2>4. CASE turnConfirm # T!NoCall /\ T!Accept
    BY <1>1, <2>1, <2>4, AcceptedSound, TurnChangesCalls
  <2> QED
    BY <1>9, <2>2, <2>3, <2>4 DEF T!Build
<1>10. CASE T!Respond
  <2>1. /\ UNCHANGED <<turnConfirm, turnOutcome>>
        /\ T!Fresh \subseteq Calls
    BY <1>10 DEF T!Respond, T!Fresh
  <2>2. ASSUME NEW B \in SUBSET T!Fresh, NEW A \in SUBSET Calls,
               T!Announce(B, A), turnBatch' = B, T!Goto(T!Decide(turnRun, "tools"))
        PROVE  TurnInv'
    <3>1. /\ turnRun' \in TurnRun /\ turnPc' = "acting" /\ B \subseteq Calls
      BY <1>1, <2>1, <2>2, Decided DEF T!Goto
    <3>2. /\ turnCalls' \in [Calls -> T!Call]
          /\ \A c \in Calls : CallSound(turnCalls'[c])
          /\ \A c \in B : CallNew(turnCalls'[c])
      BY <2>2, <3>1, AnnouncedSound
    <3> QED
      BY <1>1, <2>1, <2>2, <3>1, <3>2 DEF TurnInv
  <2>3. ASSUME NEW B \in SUBSET T!Fresh, NEW prev \in {"text", "empty"},
               T!Announce(B, {}), turnBatch' = {}, T!Goto(T!Decide(turnRun, prev))
        PROVE  TurnInv'
    <3>1. /\ turnRun' \in TurnRun /\ turnPc' # "idle"
          /\ turnPc' = "recovering" => turnRun'.done = "error"
          /\ turnPc' = "closing" => turnRun'.done # "paused"
      BY <1>1, <2>3, Decided DEF T!Goto
    <3>2. /\ turnCalls' \in [Calls -> T!Call]
          /\ \A c \in Calls : CallSound(turnCalls'[c])
      BY <2>1, <2>3, AnnouncedSound
    <3> QED
      BY <2>1, <2>3, <3>1, <3>2, TurnChangesCalls
  <2> QED
    BY <1>10, <2>2, <2>3 DEF T!Respond
<1>11. ASSUME NEW B \in SUBSET T!Fresh, NEW retry \in BOOLEAN, T!Fail(B, retry)
       PROVE  TurnInv'
  <2>1. /\ UNCHANGED <<turnConfirm, turnOutcome>> /\ turnPc = "reasoning"
        /\ T!Announce(B, {}) /\ turnBatch' = {}
        /\ B \subseteq Calls
    BY <1>11 DEF T!Fail, T!Fresh
  <2>2. /\ turnCalls' \in [Calls -> T!Call]
        /\ \A c \in Calls : CallSound(turnCalls'[c])
    BY <2>1, AnnouncedSound
  <2>3. /\ turnRun' \in TurnRun /\ turnPc' # "idle"
        /\ turnPc' = "recovering" => turnRun'.done = "error"
        /\ turnPc' = "closing" => turnRun'.done # "paused"
    <3>1. CASE turnRun' = [turnRun EXCEPT !.attempt = @ + 1] /\ UNCHANGED turnPc
      BY <1>1, <2>1, <3>1 DEF TurnRun
    <3>2. CASE T!Goto(T!Decide(turnRun, "error"))
      BY <1>1, <3>2, Decided DEF T!Goto
    <3> QED
      BY <1>11, <3>1, <3>2 DEF T!Fail
  <2> QED
    BY <2>1, <2>2, <2>3, TurnChangesCalls
<1>12. CASE T!StopBeforeReasoning \/ T!Raise
  <2>1. /\ UNCHANGED <<turnCalls, turnBatch, turnConfirm, turnOutcome>>
        /\ turnPc \in {"reasoning", "stopping"}
        /\ T!Goto(T!Exit(turnRun, "interrupted")) \/ T!Goto(T!Failed(turnRun))
    BY <1>12 DEF T!StopBeforeReasoning, T!Raise
  <2> QED
    BY <1>1, <1>3, <1>4, <1>5, <2>1, TurnGoesOn DEF T!Goto
\* The calls of the batch are new ones.
<1>13. CASE T!Act
  <2>1. /\ turnPc = "acting" /\ turnBatch' = {} /\ UNCHANGED <<turnConfirm, turnOutcome>>
        /\ \A c \in turnBatch : CallNew(turnCalls[c])
    BY <1>13 DEF T!Act, TurnInv
  <2>2. PICK Ran \in SUBSET (turnBatch \ T!Questions(turnBatch)) :
           turnCalls' = T!Executed(turnBatch, T!Questions(turnBatch), Ran)
    BY <1>13 DEF T!Act
  <2>3. /\ turnCalls' \in [Calls -> T!Call]
        /\ \A c \in Calls : CallSound(turnCalls'[c])
        /\ \A c \in T!Questions(turnBatch) : turnCalls'[c].state = "asking"
    BY <2>1, <2>2, BatchExecuted
  <2>4. T!Questions(turnBatch) # {} => Asked'
    BY <1>1, <2>3 DEF Asked, T!Questions
  <2>5. \/ T!Questions(turnBatch) # {} /\ T!Goto(T!Exit(turnRun, "paused"))
        \/ T!Goto(T!Decide(turnRun, "none"))
    BY <1>13 DEF T!Act
  <2>6. /\ turnRun' \in TurnRun /\ turnPc' # "idle"
        /\ turnPc' = "recovering" => turnRun'.done = "error"
        /\ turnPc' = "closing" /\ turnRun'.done = "paused" => Asked'
    BY <1>1, <1>3, <1>5, <2>4, <2>5, Decided DEF T!Goto
  <2> QED
    BY <2>1, <2>3, <2>6, TurnChangesCalls
<1>14. CASE T!Resume
  <2> DEFINE open == {c \in Calls : T!Open(c)}
             allowed == open \cap T!InState("allowed")
  <2>1. /\ turnPc = "resuming" /\ UNCHANGED <<turnBatch, turnConfirm, turnOutcome>>
        /\ T!Goto(T!Decide(turnRun, "none"))
        /\ \E Ran \in SUBSET (allowed \ T!Questions(allowed)) :
              turnCalls' = T!Resumed(allowed, open, T!Questions(allowed), Ran)
    BY <1>14 DEF T!Resume
  <2>2. /\ open \in SUBSET Calls /\ allowed \in SUBSET open
        /\ \A c \in allowed : turnCalls[c].state = "allowed"
    BY DEF T!InState
  <2> HIDE DEF open, allowed
  <2>3. /\ turnCalls' \in [Calls -> T!Call]
        /\ \A c \in Calls : CallSound(turnCalls'[c])
    BY <2>1, <2>2, ResumedSound
  <2>4. /\ turnRun' \in TurnRun /\ turnPc' # "idle"
        /\ turnPc' = "recovering" => turnRun'.done = "error"
        /\ turnPc' = "closing" => turnRun'.done # "paused"
    BY <1>1, <2>1, Decided DEF T!Goto
  <2> QED
    BY <1>1, <2>1, <2>3, <2>4, TurnChangesCalls
<1>15. CASE T!Stop
  <2>1. /\ turnPc = "stopping"
        /\ UNCHANGED <<turnCalls, turnBatch, turnConfirm, turnOutcome>>
        /\ \/ T!Goto(T!Exit(turnRun, "completed"))
           \/ T!Goto(T!Decide([turnRun EXCEPT !.continued = @ + 1], "none"))
    BY <1>15 DEF T!Stop
  <2>2. [turnRun EXCEPT !.continued = @ + 1] \in TurnRun
    BY <1>1 DEF TurnRun
  <2>3. /\ turnRun' \in TurnRun /\ turnPc' # "idle" /\ turnPc' # "acting"
        /\ turnPc' = "recovering" => turnRun'.done = "error"
        /\ turnPc' = "closing" => turnRun'.done # "paused"
    BY <1>3, <1>5, <2>1, <2>2, Decided DEF T!Goto
  <2> QED
    BY <1>1, <2>1, <2>3, TurnGoesOn
<1>16. CASE T!Recover
  <2>1. turnPc = "recovering" /\ UNCHANGED <<turnBatch, turnConfirm, turnOutcome>>
    BY <1>16 DEF T!Recover
  <2>2. CASE turnPc' = "closing" /\ UNCHANGED <<turnCalls, turnRun>>
    BY <1>1, <2>1, <2>2, TurnGoesOn
  <2>3. CASE UNCHANGED <<turnCalls, turnPc, turnRun>>
    BY <1>1, <2>1, <2>3, TurnGoesOn
  <2>4. CASE turnConfirm # T!NoCall /\ T!Accept
    BY <1>1, <2>1, <2>4, AcceptedSound, TurnChangesCalls
  <2> QED
    BY <1>16, <2>2, <2>3, <2>4 DEF T!Recover
<1>17. CASE T!Cancel
  <2> DEFINE open == {c \in Calls : T!Open(c)}
             allowed == open \cap T!InState("allowed")
  <2>1. UNCHANGED <<turnConfirm, turnOutcome>>
    BY <1>17 DEF T!Cancel
  <2>2. CASE /\ turnPc \notin {"acting", "resuming"}
             /\ T!Goto(T!Exit(turnRun, "interrupted"))
             /\ UNCHANGED <<turnCalls, turnBatch>>
    BY <1>1, <1>3, <1>5, <2>1, <2>2, TurnGoesOn DEF T!Goto
  <2>3. CASE /\ turnPc = "acting" /\ turnBatch' = {}
             /\ \E Askers \in SUBSET T!Questions(turnBatch),
                   Ran \in SUBSET (turnBatch \ T!Questions(turnBatch)) :
                   /\ turnCalls' = T!Executed(turnBatch, Askers, Ran)
                   /\ T!Goto(T!Exit(turnRun, IF Askers = {} THEN "interrupted"
                                                       ELSE "paused"))
    <3> PICK Askers \in SUBSET T!Questions(turnBatch),
             Ran \in SUBSET (turnBatch \ T!Questions(turnBatch)) :
                /\ turnCalls' = T!Executed(turnBatch, Askers, Ran)
                /\ T!Goto(T!Exit(turnRun, IF Askers = {} THEN "interrupted"
                                                    ELSE "paused"))
      BY <2>3
    <3>1. \A c \in turnBatch : CallNew(turnCalls[c])
      BY DEF TurnInv
    <3>2. /\ turnCalls' \in [Calls -> T!Call]
          /\ \A c \in Calls : CallSound(turnCalls'[c])
          /\ \A c \in Askers : turnCalls'[c].state = "asking"
      BY <3>1, BatchExecuted
    <3>3. Askers # {} => Asked'
      BY <1>1, <3>2 DEF Asked, T!Questions
    <3>4. /\ turnRun' \in TurnRun /\ turnPc' = "closing"
          /\ turnRun'.done = "paused" => Asked'
      BY <1>3, <1>5, <2>3, <3>3 DEF T!Goto
    <3> QED
      BY <2>1, <2>3, <3>2, <3>4, TurnChangesCalls
  <2>4. CASE /\ turnPc = "resuming" /\ UNCHANGED turnBatch
             /\ \E Askers \in SUBSET T!Questions(allowed),
                   Ran \in SUBSET (allowed \ T!Questions(allowed)) :
                   \/ /\ turnCalls' = T!Executed(allowed, Askers, Ran)
                      /\ T!Goto(T!Failed(turnRun))
                   \/ /\ turnCalls' = T!Resumed(allowed, open, Askers, Ran)
                      /\ T!Goto(T!Decide(turnRun, "none"))
    <3>1. /\ open \in SUBSET Calls /\ allowed \in SUBSET open
          /\ allowed \in SUBSET Calls
          /\ \A c \in allowed : turnCalls[c].state = "allowed"
      BY DEF T!InState
    <3> HIDE DEF open, allowed
    <3>2. /\ turnCalls' \in [Calls -> T!Call]
          /\ \A c \in Calls : CallSound(turnCalls'[c])
      <4>1. ASSUME NEW Askers \in SUBSET T!Questions(allowed),
                   NEW Ran \in SUBSET (allowed \ T!Questions(allowed)),
                   turnCalls' = T!Executed(allowed, Askers, Ran)
            PROVE  /\ turnCalls' \in [Calls -> T!Call]
                   /\ \A c \in Calls : CallSound(turnCalls'[c])
        BY <3>1, <4>1, ExecutedSound
      <4>2. ASSUME NEW Askers \in SUBSET T!Questions(allowed),
                   NEW Ran \in SUBSET (allowed \ T!Questions(allowed)),
                   turnCalls' = T!Resumed(allowed, open, Askers, Ran)
            PROVE  /\ turnCalls' \in [Calls -> T!Call]
                   /\ \A c \in Calls : CallSound(turnCalls'[c])
        BY <3>1, <4>2, ResumedSound
      <4> QED
        BY <2>4, <4>1, <4>2
    <3>3. /\ turnRun' \in TurnRun /\ turnPc' # "idle"
          /\ turnPc' = "recovering" => turnRun'.done = "error"
          /\ turnPc' = "closing" => turnRun'.done # "paused"
      BY <1>1, <1>4, <2>4, Decided DEF T!Goto
    <3> QED
      BY <1>1, <2>1, <2>4, <3>2, <3>3, TurnChangesCalls
  <2> QED
    BY <1>17, <2>2, <2>3, <2>4 DEF T!Cancel
<1>18. CASE T!Close
  <2>1. /\ turnPc = "closing" /\ UNCHANGED turnCalls /\ turnPc' = "idle"
        /\ turnRun' = T!NewRun /\ turnBatch' = {} /\ turnConfirm' = T!NoCall
        /\ turnOutcome' = T!Outcome
    BY <1>18 DEF T!Close
  <2>2. turnOutcome' = "paused" => turnRun.done = "paused"
    BY <2>1 DEF T!Outcome
  <2> QED
    BY <1>1, <1>2, <2>1, <2>2, TurnGoesOn
<1> QED
  BY <1>6, <1>7, <1>8, <1>9, <1>10, <1>11, <1>12, <1>13, <1>14, <1>15, <1>16,
     <1>17, <1>18 DEF T!Next, T!Drive

-----------------------------------------------------------------------------
(* One call of a tool, with who watches it.                                *)

\* Before the tool runs nobody is told of a result, and of one that has run
\* whoever watches is told before the call is over.
AuditInv ==
    /\ toolCall \in [pc : {"none", "spawned", "before", "running", "after", "done"},
                     name : ToolNames \cup {"none"}, stop : BOOLEAN,
                     denied : BOOLEAN, ran : BOOLEAN, after : BOOLEAN,
                     status : {"none", "completed", "failed", "cancelled"}]
    /\ toolCall.pc \in {"none", "spawned", "before"} => ~toolCall.ran /\ ~toolCall.after
    /\ toolCall.pc # "done" => ~toolCall.denied
    /\ toolCall.pc \in {"after", "done"} /\ toolCall.ran => toolCall.after
    /\ toolCall.denied => ~toolCall.ran /\ ~toolCall.after

\* Every step of the tools keeps the invariant.
LEMMA AuditStep == AuditInv /\ [V!Next]_V!vars => AuditInv'
<1> SUFFICES ASSUME AuditInv, [V!Next]_V!vars PROVE AuditInv'
  OBVIOUS
<1>1. CASE UNCHANGED toolCall
  BY <1>1 DEF AuditInv
<1>2. CASE V!Prepare
  BY <1>2 DEF V!Prepare, V!NoCall, AuditInv
<1>3. CASE V!Spawn
  BY <1>3 DEF V!Spawn, AuditInv
<1>4. CASE V!Enter
  BY <1>4 DEF V!Enter, V!Over, AuditInv
<1>5. CASE V!Before
  BY <1>5 DEF V!Before, V!Over, V!Granted, AuditInv
<1>6. CASE V!Return
  BY <1>6 DEF V!Return, AuditInv
<1>7. CASE V!After
  BY <1>7 DEF V!After, V!Over, AuditInv
<1>8. CASE V!Cancel
  BY <1>8 DEF V!Cancel, AuditInv
<1>9. CASE V!Interrupt
  BY <1>9 DEF V!Interrupt, V!Interrupted, V!Over, AuditInv
<1> QED
  BY <1>1, <1>2, <1>3, <1>4, <1>5, <1>6, <1>7, <1>8, <1>9
     DEF V!Next, V!vars, V!Register, V!Unregister, V!Override, V!Disable, V!Lift

-----------------------------------------------------------------------------
(* File edits: an edit that has begun to read and not yet written holds    *)
(* the lock, so that whoever writes meanwhile is no edit.                  *)

\* What the argument needs of the types: not what the lines are.
EditRecords ==
    /\ DOMAIN editCalls = EditCallIds
    /\ \A c \in EditCallIds : {"pc", "kind", "read", "result", "meanwhile"} \subseteq DOMAIN editCalls[c]

Edits(c, steps) == editCalls[c].kind = "edit" /\ editCalls[c].pc \in steps

LockIsHeld ==
    \A c \in EditCallIds :
        Edits(c, {"reading", "changing", "opening", "writing"}) => editLock = c
NoEditMeanwhile ==
    \A c \in EditCallIds :
        Edits(c, {"changing", "opening", "writing", "done"}) => "edit" \notin editCalls[c].meanwhile
IdleIsNoEdit ==
    \A c \in EditCallIds : editCalls[c].pc = "idle" => editCalls[c].kind = "none"

EditsInv == EditRecords /\ LockIsHeld /\ NoEditMeanwhile /\ IdleIsNoEdit

LEMMA EditsInit == E!Init => EditsInv
BY DEF E!Init, EditsInv, EditRecords, LockIsHeld, NoEditMeanwhile, IdleIsNoEdit, Edits, E!Idle

\* An edit that writes is alone with the file: nobody else who has read is an
\* edit, whoever it was.
LEMMA WroteKeeps ==
    ASSUME EditsInv, NEW c \in EditCallIds, NEW from \in {"opening", "writing"},
           NEW pc \in {"writing", "done", "failed"},
           E!At(c, from), E!Wrote(c, pc),
           from = "opening" => pc = "writing",
           \/ editLock' = editLock /\ pc = "writing"
           \/ E!Release(c) /\ pc \in {"done", "failed"}
    PROVE  EditsInv'
<1> USE DEF EditsInv, E!At
<1>1. EditRecords'
  BY DEF EditRecords, E!Wrote
<1>2. ASSUME NEW d \in EditCallIds, d # c
      PROVE  editCalls'[d].pc = editCalls[d].pc /\ editCalls'[d].kind = editCalls[d].kind
  BY <1>2 DEF EditRecords, E!Wrote
<1>3. editCalls'[c].pc = pc /\ editCalls'[c].kind = editCalls[c].kind
      /\ editCalls'[c].meanwhile = editCalls[c].meanwhile
  BY DEF EditRecords, E!Wrote
<1>4. LockIsHeld'
  BY <1>2, <1>3 DEF LockIsHeld, Edits, E!Release
<1>5. NoEditMeanwhile'
  <2> SUFFICES ASSUME NEW d \in EditCallIds,
                      Edits(d, {"changing", "opening", "writing", "done"})'
               PROVE  "edit" \notin editCalls'[d].meanwhile
    BY DEF NoEditMeanwhile
  <2>1. CASE d = c
    BY <2>1, <1>3 DEF NoEditMeanwhile, Edits
  <2>2. CASE d # c /\ d \notin E!Based
    BY <2>2, <1>2 DEF NoEditMeanwhile, Edits, E!Wrote
  <2>3. CASE d # c /\ d \in E!Based
    <3>1. Edits(d, {"changing", "opening"}) /\ editLock = d
      BY <2>3, <1>2 DEF Edits, E!Based, LockIsHeld
    <3>2. editCalls[c].kind # "edit"
      BY <2>3, <3>1 DEF LockIsHeld, Edits
    <3>3. editCalls'[d].meanwhile = editCalls[d].meanwhile \cup {editCalls[c].kind}
      BY <2>3 DEF EditRecords, E!Wrote
    <3> QED
      BY <3>1, <3>2, <3>3 DEF NoEditMeanwhile, Edits
  <2> QED
    BY <2>1, <2>2, <2>3
<1>6. IdleIsNoEdit'
  BY <1>2, <1>3 DEF IdleIsNoEdit
<1> QED
  BY <1>1, <1>4, <1>5, <1>6

LEMMA EditsStep ==
    ASSUME E!NoCall \notin EditCallIds, EditsInv, [E!Next]_E!vars
    PROVE  EditsInv'
<1> USE DEF EditsInv, E!At, E!Goto
<1>1. CASE UNCHANGED E!vars
  BY <1>1 DEF E!vars, EditRecords, LockIsHeld, NoEditMeanwhile, IdleIsNoEdit, Edits
<1>2. ASSUME NEW c \in EditCallIds, E!Begin(c) PROVE EditsInv'
  BY <1>2 DEF E!Begin, EditRecords, LockIsHeld, NoEditMeanwhile, IdleIsNoEdit, Edits
<1>3. ASSUME NEW c \in EditCallIds, E!Enter(c) PROVE EditsInv'
  BY <1>3 DEF E!Enter, EditRecords, LockIsHeld, NoEditMeanwhile, IdleIsNoEdit, Edits
<1>4. ASSUME NEW c \in EditCallIds, E!Read(c) PROVE EditsInv'
  <2>1. editCalls[c].kind = "edit" => "edit" \notin E!Writing
    BY <1>4 DEF E!Read, E!Writing, LockIsHeld, Edits
  <2> QED
    BY <1>4, <2>1 DEF E!Read, EditRecords, LockIsHeld, NoEditMeanwhile, IdleIsNoEdit, Edits
<1>5. ASSUME NEW c \in EditCallIds, E!Change(c) PROVE EditsInv'
  <2>1. ASSUME NEW new, editLock' = editLock,
               editCalls' = [editCalls EXCEPT ![c].pc = "opening", ![c].result = new]
        PROVE  EditsInv'
    BY <1>5, <2>1 DEF E!Change, EditRecords, LockIsHeld, NoEditMeanwhile, IdleIsNoEdit, Edits
  <2>2. CASE E!Goto(c, "failed") /\ E!Release(c)
    BY <1>5, <2>2 DEF E!Change, E!Release, EditRecords, LockIsHeld, NoEditMeanwhile, IdleIsNoEdit, Edits
  <2> QED
    BY <1>5, <2>1, <2>2 DEF E!Change
<1>6. ASSUME NEW c \in EditCallIds, E!Open(c) PROVE EditsInv'
  BY <1>6, WroteKeeps DEF E!Open
<1>7. ASSUME NEW c \in EditCallIds, E!Put(c) PROVE EditsInv'
  BY <1>7, WroteKeeps DEF E!Put
<1> QED
  BY <1>1, <1>2, <1>3, <1>4, <1>5, <1>6, <1>7 DEF E!Next

LEMMA EditsKept == EditsInv => E!EditsAreKept
BY DEF EditsInv, NoEditMeanwhile, Edits, E!EditsAreKept

-----------------------------------------------------------------------------
(* Commands and skill references: what is asked for again is not done      *)
(* again.                                                                  *)

\* A dispatch has seen what is marked and what it has given; only what is marked
\* or being given is in the Session, once.
ReferencesInv ==
    /\ skillHook \in [pc : {"idle", "resolving", "logging"}, next : Nat,
                      seen : SUBSET I!Refs, given : SUBSET I!Refs]
    /\ skillMarks \subseteq I!Refs /\ skillHints \in [I!Refs -> Nat] /\ skillCut \in BOOLEAN
    /\ skillHook.pc = "idle" => skillHook.given = {}
    /\ skillHook.pc # "idle" => skillHook.seen = skillMarks \cup skillHook.given
    /\ skillHook.pc = "logging" => skillHook.next \in I!Refs \ skillHook.seen
    /\ \A r \in I!Refs :
          /\ r \in skillMarks \cup skillHook.given => skillHints[r] >= 1
          /\ \/ skillCut \/ skillHints[r] = 0
             \/ skillHints[r] = 1 /\ r \in skillMarks \cup skillHook.given

\* Every dispatch keeps the invariant.
LEMMA ReferencesStep == ReferencesInv /\ [I!Next]_I!vars => ReferencesInv'
<1> SUFFICES ASSUME ReferencesInv, [I!Next]_I!vars PROVE ReferencesInv'
  OBVIOUS
<1> USE DEF ReferencesInv
<1>1. CASE UNCHANGED I!vars
  BY <1>1 DEF I!vars
<1>2. ASSUME NEW r \in I!Refs, I!Changes(r) PROVE ReferencesInv'
  BY <1>2 DEF I!Changes
<1>3. CASE I!Dispatch
  <2>1. /\ skillHook' = [pc |-> "resolving", next |-> 1, seen |-> skillMarks, given |-> {}]
        /\ skillHook.given = {} /\ UNCHANGED <<skillMarks, skillHints, skillCut>>
    BY <1>3 DEF I!Dispatch, I!NoHook
  <2> QED BY <2>1
<1>4. CASE I!Resolve
  BY <1>4 DEF I!Resolve, I!Refs
<1>5. CASE I!Log
  <2> DEFINE q == skillHook.next
  <2>1. /\ q \in I!Refs \ skillHook.seen /\ skillHook.seen = skillMarks \cup skillHook.given
        /\ skillHints' = [skillHints EXCEPT ![q] = @ + 1] /\ q \in Nat
        /\ skillHook' = [pc |-> "resolving", next |-> q + 1, seen |-> skillHook.seen \cup {q},
                         given |-> skillHook.given \cup {q}]
        /\ skillMarks' = skillMarks /\ skillCut' = skillCut
    BY <1>5 DEF I!Log, I!Refs
  <2>2. /\ skillHook'.pc = "resolving" /\ skillHook'.next = q + 1
        /\ skillHook'.seen = skillHook.seen \cup {q} /\ skillHook'.given = skillHook.given \cup {q}
    BY <2>1
  <2>3. skillHints' \in [I!Refs -> Nat] /\ skillHints'[q] = skillHints[q] + 1
        /\ \A r \in I!Refs \ {q} : skillHints'[r] = skillHints[r]
    BY <2>1
  <2>4. skillHook' \in [pc : {"idle", "resolving", "logging"}, next : Nat,
                        seen : SUBSET I!Refs, given : SUBSET I!Refs]
    BY <2>1
  <2>5. \A r \in I!Refs :
           /\ r \in skillMarks' \cup skillHook'.given => skillHints'[r] >= 1
           /\ skillCut' \/ skillHints'[r] = 0 \/ (skillHints'[r] = 1
                                  /\ r \in skillMarks' \cup skillHook'.given)
    <3> SUFFICES ASSUME NEW r \in I!Refs
                 PROVE  /\ r \in skillMarks' \cup skillHook'.given => skillHints'[r] >= 1
                        /\ skillCut' \/ skillHints'[r] = 0 \/ (skillHints'[r] = 1
                                  /\ r \in skillMarks' \cup skillHook'.given)
      OBVIOUS
    <3>1. CASE r = q
      BY <2>1, <2>2, <2>3, <3>1
    <3>2. CASE r # q
      BY <2>1, <2>2, <2>3, <3>2
    <3> QED BY <3>1, <3>2
  <2> QED
    BY <2>1, <2>2, <2>3, <2>4, <2>5
<1>6. CASE I!Mark
  BY <1>6 DEF I!Mark, I!NoHook
<1>7. CASE I!Cut
  <2>1. /\ skillHook' = [pc |-> "idle", next |-> 1, seen |-> {}, given |-> {}]
        /\ skillCut' = (skillCut \/ skillHook.given # {}) /\ UNCHANGED <<skillMarks, skillHints>>
    BY <1>7 DEF I!Cut, I!NoHook
  <2>2. CASE skillHook.given = {}
    BY <2>1, <2>2
  <2>3. CASE skillHook.given # {}
    <3>1. skillCut' = TRUE
      BY <2>1, <2>3
    <3>2. skillCut' /\ skillCut' \in BOOLEAN
      BY <3>1
    <3>3. \A r \in I!Refs : r \in skillMarks' \cup skillHook'.given => skillHints'[r] >= 1
      BY <2>1
    <3> QED BY <2>1, <3>2, <3>3
  <2> QED BY <2>2, <2>3
<1> QED
  BY <1>1, <1>2, <1>3, <1>4, <1>5, <1>6, <1>7 DEF I!Next

CommandTask ==
    [pc : {"idle", "created", "announcing", "handling", "recording", "told", "over"},
     request : CommandRequests \cup {Q!NoRequest}, definition : Nat, success : BOOLEAN]
CommandLife ==
    [accepted : BOOLEAN, ran : Nat, answered : BOOLEAN, unwritten : BOOLEAN,
     undefined : BOOLEAN, cut : BOOLEAN]
CommandTypes ==
    /\ commandTasks \in [CommandTaskIds -> CommandTask]
    /\ commandInflight \in [CommandRequests -> CommandTaskIds \cup {Q!NoTask}]
    /\ commandLives \in [CommandRequests -> CommandLife]
    /\ commandDefined \in Nat /\ commandsRegistered \in Nat
Excused(life) == life.answered \/ life.undefined \/ life.cut
\* A task is busy with the request that is in flight with it, and it does not
\* begin what has succeeded.
TaskSound(t) ==
    LET task == commandTasks[t] IN
    /\ task.pc = "idle" => task = Q!Idle
    /\ task.pc # "idle" => task.request \in CommandRequests /\ task.definition # 0
                           /\ commandInflight[task.request] = t
    /\ task.pc \notin {"idle", "over"} => commandsOpen
    /\ task.pc \in {"announcing", "handling"} => task.request \notin commandResults
    /\ task.pc = "over" => Excused(commandLives[task.request])
\* A success is remembered, or about to be.
Recorded(r) ==
    \/ r \in commandResults
    \/ \E t \in CommandTaskIds : /\ commandTasks[t].pc = "recording" /\ commandTasks[t].success
                                 /\ commandTasks[t].request = r
RequestSound(r) ==
    LET life == commandLives[r] IN
    /\ commandInflight[r] # Q!NoTask =>
          commandTasks[commandInflight[r]].pc # "idle"
          /\ commandTasks[commandInflight[r]].request = r
    /\ r \in commandCompleted => life.answered
    /\ life.ran <= 1 \/ life.unwritten
    /\ commandsOpen /\ life.ran >= 1 => life.unwritten \/ Recorded(r)
    /\ life.accepted => commandInflight[r] # Q!NoTask \/ Excused(life)
CommandsInv ==
    /\ CommandTypes
    /\ \A t \in CommandTaskIds : TaskSound(t)
    /\ \A r \in CommandRequests : RequestSound(r)

\* What a step of task t makes of the task and of its request.
TaskBecomes(t, task, life) ==
    /\ commandTasks' = [commandTasks EXCEPT ![t] = task]
    /\ commandLives' = [commandLives EXCEPT ![commandTasks[t].request] = life]
    /\ UNCHANGED <<commandsOpen, commandInflight, commandDefined, commandsRegistered>>

\* Such a step keeps the invariant if it is right about both.
LEMMA TaskMoves ==
    ASSUME CommandsInv, NEW t \in CommandTaskIds, NEW task \in CommandTask,
           NEW life \in CommandLife, TaskBecomes(t, task, life),
           commandTasks[t].pc \notin {"idle", "over"}, task.pc # "idle",
           task.request = commandTasks[t].request, task.definition = commandTasks[t].definition,
           task.pc \in {"announcing", "handling"} => task.request \notin commandResults',
           task.pc = "over" => Excused(life),
           commandResults' \in {commandResults, commandResults \cup {task.request}},
           commandCompleted' \in {commandCompleted, commandCompleted \cup {task.request}},
           task.request \in commandCompleted' => life.answered,
           life.ran <= 1 \/ life.unwritten,
           life.ran >= 1 => \/ life.unwritten \/ task.request \in commandResults'
                            \/ task.pc = "recording" /\ task.success,
           life.accepted = commandLives[task.request].accepted
    PROVE  CommandsInv'
<1> DEFINE r == commandTasks[t].request
<1>0. /\ CommandTypes /\ TaskSound(t) /\ r \in CommandRequests /\ commandInflight[r] = t
      /\ commandsOpen /\ commandsOpen' = commandsOpen /\ commandInflight' = commandInflight
      /\ t # Q!NoTask
  BY TaskAssumption DEF CommandsInv, TaskSound, TaskBecomes, Q!NoTask
<1>1. /\ commandTasks'[t] = task /\ commandTasks' \in [CommandTaskIds -> CommandTask]
      /\ \A u \in CommandTaskIds \ {t} : commandTasks'[u] = commandTasks[u]
  BY <1>0 DEF CommandTypes, TaskBecomes
<1>2. /\ commandLives'[r] = life /\ commandLives' \in [CommandRequests -> CommandLife]
      /\ \A q \in CommandRequests \ {r} : commandLives'[q] = commandLives[q]
  BY <1>0 DEF CommandTypes, TaskBecomes
<1>3. CommandTypes'
  BY <1>0, <1>1, <1>2 DEF CommandTypes, TaskBecomes
<1>4. ASSUME NEW u \in CommandTaskIds PROVE TaskSound(u)'
  <2>1. CASE u = t
    BY <1>0, <1>1, <1>2, <2>1 DEF TaskSound
  <2>2. CASE u # t
    <3>1. TaskSound(u) /\ commandTasks'[u] = commandTasks[u]
      BY <1>1, <2>2 DEF CommandsInv
    <3>2. commandTasks[u].pc # "idle" => commandTasks[u].request # r
      BY <1>0, <2>2, <3>1 DEF TaskSound
    <3> QED BY <1>0, <1>2, <3>1, <3>2 DEF TaskSound
  <2> QED BY <2>1, <2>2
<1>5. ASSUME NEW q \in CommandRequests PROVE RequestSound(q)'
  <2>1. CASE q = r
    <3>1. life.ran >= 1 => life.unwritten \/ Recorded(r)'
      BY <1>1 DEF Recorded
    <3> QED BY <1>0, <1>1, <1>2, <2>1, <3>1 DEF RequestSound
  <2>2. CASE q # r
    <3>1. /\ RequestSound(q) /\ commandLives'[q] = commandLives[q]
          /\ q \in commandCompleted' => q \in commandCompleted
      BY <1>2, <2>2 DEF CommandsInv
    <3>2. Recorded(q) => Recorded(q)'
      BY <1>1, <2>2 DEF Recorded
    <3>3. commandInflight[q] # Q!NoTask => commandInflight[q] # t /\ commandInflight[q] \in CommandTaskIds
      BY <1>0, <2>2, <3>1 DEF RequestSound, CommandTypes
    <3> QED BY <1>0, <1>1, <3>1, <3>2, <3>3 DEF RequestSound
  <2> QED BY <2>1, <2>2
<1> QED
  BY <1>3, <1>4, <1>5 DEF CommandsInv

\* The task of a request is the only one.
LEMMA OneTask ==
    ASSUME CommandsInv, NEW t \in CommandTaskIds, NEW u \in CommandTaskIds,
           commandTasks[t].pc # "idle", commandTasks[u].pc # "idle",
           commandTasks[t].request = commandTasks[u].request
    PROVE  t = u
BY DEF CommandsInv, TaskSound

\* A task as it goes on.
LEMMA TaskGoes ==
    ASSUME NEW task \in CommandTask,
           NEW pc \in {"announcing", "handling", "recording", "told", "over"}
    PROVE  /\ [task EXCEPT !.pc = pc] \in CommandTask
           /\ [task EXCEPT !.pc = pc].pc = pc
           /\ [task EXCEPT !.pc = pc].request = task.request
           /\ [task EXCEPT !.pc = pc].definition = task.definition
           /\ [task EXCEPT !.pc = pc].success = task.success
BY DEF CommandTask
LEMMA TaskTells ==
    ASSUME NEW old \in CommandTask
    PROVE  \A success \in BOOLEAN :
              LET told == [old EXCEPT !.pc = "told", !.success = success]
                  recording == [old EXCEPT !.pc = "recording", !.success = success] IN
              /\ told \in CommandTask /\ told.pc = "told"
              /\ told.request = old.request /\ told.definition = old.definition
              /\ recording \in CommandTask /\ recording.pc = "recording"
              /\ recording.request = old.request /\ recording.definition = old.definition
              /\ recording.success = success
<1> TAKE success \in BOOLEAN
<1>1. ASSUME NEW next \in CommandTask
      PROVE  LET task == [next EXCEPT !.success = success] IN
             /\ task \in CommandTask /\ task.pc = next.pc /\ task.request = next.request
             /\ task.definition = next.definition /\ task.success = success
  BY DEF CommandTask
<1> DEFINE told == [old EXCEPT !.pc = "told"]
           recording == [old EXCEPT !.pc = "recording"]
<1>2. /\ told \in CommandTask /\ told.pc = "told" /\ told.request = old.request
      /\ told.definition = old.definition
  BY TaskGoes
<1>3. /\ recording \in CommandTask /\ recording.pc = "recording"
      /\ recording.request = old.request /\ recording.definition = old.definition
  BY TaskGoes
<1>4. /\ [old EXCEPT !.pc = "told", !.success = success] = [told EXCEPT !.success = success]
      /\ [old EXCEPT !.pc = "recording", !.success = success]
         = [recording EXCEPT !.success = success]
  BY DEF CommandTask
<1> HIDE DEF told, recording
<1> QED
  BY <1>1, <1>2, <1>3, <1>4

\* A task that goes on without touching the rest.
LEMMA TaskGoesOn ==
    ASSUME CommandTypes, NEW t \in CommandTaskIds, commandTasks[t].request \in CommandRequests,
           NEW task \in CommandTask, commandTasks' = [commandTasks EXCEPT ![t] = task],
           UNCHANGED <<commandsOpen, commandInflight, commandDefined, commandsRegistered, commandLives>>
    PROVE  TaskBecomes(t, task, commandLives[commandTasks[t].request])
BY DEF CommandTypes, TaskBecomes

\* What is known of a task under way and of its request.
LEMMA TaskFacts ==
    ASSUME CommandsInv, NEW t \in CommandTaskIds, commandTasks[t].pc # "idle"
    PROVE  LET r == commandTasks[t].request  life == commandLives[r] IN
           /\ CommandTypes /\ commandTasks[t] \in CommandTask /\ r \in CommandRequests
           /\ life \in CommandLife
           /\ commandTasks[t].definition # 0
           /\ r \in commandCompleted => life.answered
           /\ life.ran <= 1 \/ life.unwritten
           /\ commandTasks[t].pc # "over" => commandsOpen
           /\ commandsOpen /\ life.ran >= 1 =>
                 \/ life.unwritten \/ r \in commandResults
                 \/ commandTasks[t].pc = "recording" /\ commandTasks[t].success
           /\ commandTasks[t].pc \in {"announcing", "handling"} => r \notin commandResults
<1> DEFINE r == commandTasks[t].request
           life == commandLives[r]
<1>1. /\ CommandTypes /\ TaskSound(t) /\ r \in CommandRequests /\ commandTasks[t].definition # 0
  BY DEF CommandsInv, TaskSound
<1>2. /\ commandTasks[t] \in CommandTask /\ life \in CommandLife /\ RequestSound(r)
  BY <1>1 DEF CommandTypes, CommandsInv
<1>3. Recorded(r) => \/ r \in commandResults
                     \/ commandTasks[t].pc = "recording" /\ commandTasks[t].success
  BY OneTask DEF Recorded
<1> QED
  BY <1>1, <1>2, <1>3 DEF TaskSound, RequestSound

\* A task as it begins.
LEMMA TaskCreated ==
    ASSUME NEW r \in CommandRequests, NEW n \in Nat
    PROVE  LET task == [Q!Idle EXCEPT !.pc = "created", !.request = r, !.definition = n] IN
           /\ task \in CommandTask /\ task.pc = "created" /\ task.request = r
           /\ task.definition = n
<1> DEFINE one == [Q!Idle EXCEPT !.pc = "created"]
           two == [one EXCEPT !.request = r]
<1>0. Q!Idle \in CommandTask
  BY DEF Q!Idle, CommandTask
<1>1. one \in CommandTask /\ one.pc = "created"
  BY <1>0 DEF CommandTask
<1> HIDE DEF one
<1>2. two \in CommandTask /\ two.pc = "created" /\ two.request = r
  BY <1>1 DEF CommandTask
<1>3. [one EXCEPT !.request = r, !.definition = n] = [two EXCEPT !.definition = n]
  BY <1>1 DEF CommandTask
<1> HIDE DEF two
<1>4. LET task == [two EXCEPT !.definition = n] IN
      /\ task \in CommandTask /\ task.pc = "created" /\ task.request = r /\ task.definition = n
  BY <1>2 DEF CommandTask
<1>5. [Q!Idle EXCEPT !.pc = "created", !.request = r, !.definition = n]
      = [one EXCEPT !.request = r, !.definition = n]
  BY <1>0 DEF one, CommandTask
<1> QED BY <1>3, <1>4, <1>5

\* What a task does keeps the invariant.
LEMMA TasksStep ==
    ASSUME CommandsInv, NEW t \in CommandTaskIds,
           Q!Start(t) \/ Q!Announce(t) \/ Q!Handle(t) \/ Q!Record(t) \/ Q!Publish(t)
    PROVE  CommandsInv'
<1> DEFINE old == commandTasks[t]
           r == old.request
           life == commandLives[r]
           Goal == CommandsInv'
<1>0. old.pc \notin {"idle", "over"}
  BY DEF Q!Start, Q!Announce, Q!Handle, Q!Record, Q!Publish
<1>1. /\ CommandTypes /\ old \in CommandTask /\ r \in CommandRequests /\ life \in CommandLife
      /\ old.definition # 0
      /\ r \in commandCompleted => life.answered
      /\ life.ran <= 1 \/ life.unwritten
      /\ commandsOpen
      /\ life.ran >= 1 => \/ life.unwritten \/ r \in commandResults
                          \/ old.pc = "recording" /\ old.success
      /\ old.pc \in {"announcing", "handling"} => r \notin commandResults
  BY <1>0, TaskFacts
<1>2. ASSUME NEW pc \in {"announcing", "handling", "recording", "told", "over"}, Q!To(t, pc)
      PROVE  commandTasks' = [commandTasks EXCEPT ![t] = [old EXCEPT !.pc = pc]]
  BY <1>1, <1>2 DEF Q!To, CommandTypes
<1>3. ASSUME NEW success \in BOOLEAN, Q!Tell(t, success)
      PROVE  commandTasks' = [commandTasks EXCEPT ![t] = [old EXCEPT !.pc = "told", !.success = success]]
  BY <1>1, <1>3 DEF Q!Tell, CommandTypes
\* A task that goes on without having run anything.
<1>4. ASSUME NEW pc \in {"announcing", "handling"}, Q!To(t, pc), r \notin commandResults,
             old.pc # "recording",
             UNCHANGED <<commandsOpen, commandDefined, commandsRegistered, commandInflight,
                         commandCompleted, commandResults, commandLives>>
      PROVE  Goal
  <2> DEFINE task == [old EXCEPT !.pc = pc]
  <2>1. /\ task \in CommandTask /\ task.pc = pc /\ task.request = r /\ task.definition = old.definition
    <3>1. pc \in {"announcing", "handling", "recording", "told", "over"}
      BY <1>4
    <3> QED BY <1>1, <3>1, TaskGoes, Zenon
  <2>2. commandTasks' = [commandTasks EXCEPT ![t] = task]
    BY <1>2, <1>4
  <2> HIDE DEF task
  <2>3. TaskBecomes(t, task, life)
    BY <1>1, <1>4, <2>1, <2>2, TaskGoesOn
  <2> QED
    BY <1>0, <1>1, <1>4, <2>1, <2>3, TaskMoves
<1>5. ASSUME NEW success \in BOOLEAN, Q!Tell(t, success), old.pc # "recording",
             UNCHANGED <<commandsOpen, commandDefined, commandsRegistered, commandInflight,
                         commandCompleted, commandResults, commandLives>>
      PROVE  Goal
  <2> DEFINE task == [old EXCEPT !.pc = "told", !.success = success]
  <2>1. /\ task \in CommandTask /\ task.pc = "told" /\ task.request = r /\ task.definition = old.definition
    BY <1>1, <1>5, TaskTells
  <2>2. commandTasks' = [commandTasks EXCEPT ![t] = task]
    BY <1>3, <1>5
  <2> HIDE DEF task
  <2>3. TaskBecomes(t, task, life)
    BY <1>1, <1>5, <2>1, <2>2, TaskGoesOn
  <2> QED
    BY <1>0, <1>1, <1>5, <2>1, <2>3, TaskMoves
<1>6. ASSUME Q!Start(t) PROVE Goal
  <2>1. CASE commandDefined = 0
    <3> DEFINE task == [old EXCEPT !.pc = "over"]
               next == [life EXCEPT !.undefined = TRUE]
    <3>1. /\ task \in CommandTask /\ task.pc = "over" /\ task.request = r /\ task.definition = old.definition
      BY <1>1, TaskGoes
    <3>2. /\ next \in CommandLife /\ next.undefined /\ next.ran = life.ran
          /\ next.answered = life.answered /\ next.unwritten = life.unwritten
          /\ next.accepted = life.accepted
      BY <1>1 DEF CommandLife
    <3>3. /\ Q!To(t, "over") /\ commandLives' = [commandLives EXCEPT ![r].undefined = TRUE]
          /\ UNCHANGED <<commandsOpen, commandDefined, commandsRegistered, commandInflight,
                         commandCompleted, commandResults>>
          /\ old.pc = "created"
      BY <1>1, <1>6, <2>1 DEF Q!Start, Q!Request
    <3>4. /\ commandTasks' = [commandTasks EXCEPT ![t] = task]
          /\ commandLives' = [commandLives EXCEPT ![r] = next]
      BY <1>1, <1>2, <3>3 DEF CommandTypes
    <3> HIDE DEF task, next
    <3>5. TaskBecomes(t, task, next)
      BY <3>3, <3>4 DEF TaskBecomes
    <3>6. Excused(next)
      BY <3>2 DEF Excused
    <3> QED
      BY <1>0, <1>1, <3>1, <3>2, <3>3, <3>5, <3>6, TaskMoves
  <2>2. CASE commandDefined # 0
    <3>1. /\ \/ Q!Tell(t, FALSE) \/ Q!Tell(t, TRUE)
             \/ Q!To(t, "announcing") /\ r \notin commandResults
          /\ UNCHANGED <<commandsOpen, commandDefined, commandsRegistered, commandInflight,
                         commandCompleted, commandResults, commandLives>>
          /\ old.pc = "created"
      <4>1. CASE commandDefined = old.definition
        BY <1>6, <2>2, <4>1 DEF Q!Start, Q!Request
      <4>2. CASE commandDefined # old.definition
        BY <1>6, <2>2, <4>2 DEF Q!Start, Q!Request
      <4> QED BY <4>1, <4>2
    <3> HIDE DEF Goal
    <3> QED
      BY <1>4, <1>5, <3>1
  <2> QED BY <2>1, <2>2
<1>7. ASSUME Q!Announce(t) PROVE Goal
  <2>1. /\ Q!To(t, "handling") \/ Q!Tell(t, FALSE)
        /\ UNCHANGED <<commandsOpen, commandDefined, commandsRegistered, commandInflight,
                       commandCompleted, commandResults, commandLives>>
        /\ old.pc = "announcing" /\ r \notin commandResults
    BY <1>1, <1>7 DEF Q!Announce
  <2> HIDE DEF Goal
  <2> QED
    BY <1>4, <1>5, <2>1
<1>8. ASSUME Q!Handle(t) PROVE Goal
  <2>1. PICK success \in BOOLEAN :
           /\ commandTasks' = [commandTasks EXCEPT ![t].pc = "recording", ![t].success = success]
           /\ commandLives' = [commandLives EXCEPT ![r].ran = IF success THEN @ + 1 ELSE @]
    BY <1>8 DEF Q!Handle, Q!Request
  <2> DEFINE task == [old EXCEPT !.pc = "recording", !.success = success]
             ran == IF success THEN life.ran + 1 ELSE life.ran
             next == [life EXCEPT !.ran = ran]
  <2>2. /\ task \in CommandTask /\ task.pc = "recording" /\ task.request = r /\ task.definition = old.definition
        /\ task.success = success
    BY <1>1, <2>1, TaskTells
  <2>3. /\ UNCHANGED <<commandsOpen, commandDefined, commandsRegistered, commandInflight,
                       commandCompleted, commandResults>>
        /\ old.pc = "handling"
    BY <1>8 DEF Q!Handle
  <2>4. ran \in Nat /\ life.ran \in Nat
    BY <1>1 DEF CommandLife
  <2>5. /\ commandTasks' = [commandTasks EXCEPT ![t] = task]
        /\ commandLives' = [commandLives EXCEPT ![r] = next]
    BY <1>1, <2>1 DEF CommandTypes
  <2>6. ran >= 1 => life.unwritten \/ success
    BY <1>1, <2>3, <2>4
  <2>7. ran <= 1 \/ life.unwritten
    BY <1>1, <2>3, <2>4
  <2> HIDE DEF ran
  <2>8. /\ next \in CommandLife /\ next.ran = ran
        /\ next.answered = life.answered /\ next.unwritten = life.unwritten
        /\ next.accepted = life.accepted
    BY <1>1, <2>4 DEF CommandLife
  <2> HIDE DEF task, next
  <2>9. TaskBecomes(t, task, next)
    BY <2>3, <2>5 DEF TaskBecomes
  <2> QED
    BY <1>0, <1>1, <2>2, <2>3, <2>6, <2>7, <2>8, <2>9, TaskMoves
<1>9. ASSUME Q!Record(t) PROVE Goal
  <2>0. /\ UNCHANGED <<commandsOpen, commandDefined, commandsRegistered, commandInflight,
                       commandCompleted>>
        /\ old.pc = "recording" /\ old.success \in BOOLEAN
    BY <1>1, <1>9 DEF Q!Record, CommandTask
  <2>1. CASE /\ Q!Tell(t, old.success)
             /\ commandResults' = (IF old.success THEN commandResults \cup {r} ELSE commandResults)
             /\ UNCHANGED commandLives
    <3> DEFINE task == [old EXCEPT !.pc = "told", !.success = old.success]
    <3>1. /\ task \in CommandTask /\ task.pc = "told" /\ task.request = r /\ task.definition = old.definition
      BY <1>1, <2>0, TaskTells
    <3>2. commandTasks' = [commandTasks EXCEPT ![t] = task]
      BY <1>3, <2>0, <2>1
    <3> HIDE DEF task
    <3>3. TaskBecomes(t, task, life)
      BY <1>1, <2>0, <2>1, <3>1, <3>2, TaskGoesOn
    <3>4. /\ commandResults' \in {commandResults, commandResults \cup {r}}
          /\ life.ran >= 1 => life.unwritten \/ r \in commandResults'
      BY <1>1, <2>1
    <3> QED
      BY <1>0, <1>1, <2>0, <3>1, <3>3, <3>4, TaskMoves
  <2>2. CASE /\ Q!Tell(t, FALSE) /\ UNCHANGED commandResults
             /\ commandLives' = [commandLives EXCEPT ![r].unwritten = old.success \/ @]
    <3> DEFINE task == [old EXCEPT !.pc = "told", !.success = FALSE]
               un == old.success \/ life.unwritten
               next == [life EXCEPT !.unwritten = un]
    <3>1. /\ task \in CommandTask /\ task.pc = "told" /\ task.request = r /\ task.definition = old.definition
      BY <1>1, TaskTells
    <3>2. /\ commandTasks' = [commandTasks EXCEPT ![t] = task]
          /\ commandLives' = [commandLives EXCEPT ![r] = next]
      BY <1>1, <1>3, <2>2 DEF CommandTypes
    <3>3. un \in BOOLEAN
      BY <2>0
    <3>4. /\ life.ran >= 1 => un \/ r \in commandResults
          /\ life.ran <= 1 \/ un
      BY <1>1
    <3> HIDE DEF un
    <3>5. /\ next \in CommandLife /\ next.ran = life.ran
          /\ next.answered = life.answered /\ next.unwritten = un
          /\ next.accepted = life.accepted
      BY <1>1, <3>3 DEF CommandLife
    <3> HIDE DEF task, next
    <3>6. TaskBecomes(t, task, next)
      BY <2>0, <3>2 DEF TaskBecomes
    <3> QED
      BY <1>0, <1>1, <2>0, <2>2, <3>1, <3>4, <3>5, <3>6, TaskMoves
  <2> QED BY <1>9, <2>1, <2>2 DEF Q!Record, Q!Request
<1>10. ASSUME Q!Publish(t) PROVE Goal
  <2> DEFINE task == [old EXCEPT !.pc = "over"]
             next == [life EXCEPT !.answered = TRUE]
  <2>1. /\ task \in CommandTask /\ task.pc = "over" /\ task.request = r /\ task.definition = old.definition
    BY <1>1, TaskGoes
  <2>2. /\ next \in CommandLife /\ next.answered /\ next.ran = life.ran
        /\ next.unwritten = life.unwritten /\ next.accepted = life.accepted
    BY <1>1 DEF CommandLife
  <2>3. /\ Q!To(t, "over") /\ commandLives' = [commandLives EXCEPT ![r].answered = TRUE]
        /\ UNCHANGED <<commandsOpen, commandDefined, commandsRegistered, commandInflight,
                       commandResults>>
        /\ commandCompleted' \in {commandCompleted, commandCompleted \cup {r}}
        /\ old.pc = "told"
    BY <1>10 DEF Q!Publish, Q!Request
  <2>4. /\ commandTasks' = [commandTasks EXCEPT ![t] = task]
        /\ commandLives' = [commandLives EXCEPT ![r] = next]
    BY <1>1, <1>2, <2>3 DEF CommandTypes
  <2> HIDE DEF task, next
  <2>5. TaskBecomes(t, task, next)
    BY <2>3, <2>4 DEF TaskBecomes
  <2>6. Excused(next)
    BY <2>2 DEF Excused
  <2> QED
    BY <1>0, <1>1, <2>1, <2>2, <2>3, <2>5, <2>6, TaskMoves
<1> QED
  BY <1>6, <1>7, <1>8, <1>9, <1>10

\* Every command keeps the invariant.
LEMMA CommandsStep == CommandsInv /\ [Q!Next]_Q!vars => CommandsInv'
<1> SUFFICES ASSUME CommandsInv, [Q!Next]_Q!vars PROVE CommandsInv'
  OBVIOUS
<1> DEFINE Goal == CommandsInv'
<1>1. ASSUME UNCHANGED Q!vars PROVE Goal
  BY <1>1 DEF Q!vars, CommandsInv, CommandTypes, TaskSound, RequestSound, Recorded
<1>2. ASSUME Q!Define \/ Q!Undefine PROVE Goal
  <2>1. /\ commandDefined' \in Nat /\ commandsRegistered' \in Nat
        /\ UNCHANGED <<commandsOpen, commandTasks, commandInflight, commandCompleted,
                       commandResults, commandLives>>
    BY <1>2 DEF Q!Define, Q!Undefine, CommandsInv, CommandTypes
  <2> QED
    BY <2>1 DEF CommandsInv, CommandTypes, TaskSound, RequestSound, Recorded
<1>3. ASSUME NEW r \in CommandRequests, Q!Submit(r) PROVE Goal
  <2> DEFINE life == [commandLives[r] EXCEPT !.accepted = TRUE]
  <2>0. CommandTypes /\ RequestSound(r)
    BY DEF CommandsInv
  <2>1. /\ life \in CommandLife /\ life.ran = commandLives[r].ran
        /\ life.answered = commandLives[r].answered /\ life.unwritten = commandLives[r].unwritten
        /\ Excused(life) = Excused(commandLives[r])
    BY <2>0 DEF CommandTypes, CommandLife, Excused
  <2>2. commandLives' = [commandLives EXCEPT ![r] = life]
    BY <1>3, <2>0 DEF Q!Submit, CommandTypes
  <2> HIDE DEF life
  <2>3. /\ commandLives'[r] = life /\ commandLives' \in [CommandRequests -> CommandLife]
        /\ \A q \in CommandRequests \ {r} : commandLives'[q] = commandLives[q]
    BY <2>0, <2>1, <2>2 DEF CommandTypes
  <2>4. /\ UNCHANGED <<commandsOpen, commandDefined, commandsRegistered, commandCompleted,
                       commandResults>>
        /\ commandsOpen /\ commandDefined \in Nat
    BY <1>3, <2>0 DEF Q!Submit, CommandTypes
  <2>5. CASE Q!Known(r)
    <3>1. UNCHANGED <<commandTasks, commandInflight>>
      BY <1>3, <2>5 DEF Q!Submit
    <3>2. CommandTypes'
      BY <2>0, <2>3, <2>4, <3>1 DEF CommandTypes
    <3>3. ASSUME NEW t \in CommandTaskIds PROVE TaskSound(t)'
      <4>1. TaskSound(t)
        BY DEF CommandsInv
      <4>2. commandTasks[t].request \in CommandRequests =>
               (Excused(commandLives[commandTasks[t].request])
                => Excused(commandLives'[commandTasks[t].request]))
        BY <2>1, <2>3
      <4> QED BY <2>4, <3>1, <4>1, <4>2 DEF TaskSound
    <3>4. ASSUME NEW q \in CommandRequests PROVE RequestSound(q)'
      <4>1. CASE q = r
        <5>1. commandInflight[r] # Q!NoTask \/ Excused(life)
          BY <2>0, <2>1, <2>5 DEF Q!Known, RequestSound, Excused
        <5>2. Recorded(r) => Recorded(r)'
          BY <2>4, <3>1 DEF Recorded
        <5> QED BY <2>0, <2>1, <2>3, <2>4, <3>1, <4>1, <5>1, <5>2 DEF RequestSound
      <4>2. CASE q # r
        <5>1. RequestSound(q) /\ commandLives'[q] = commandLives[q]
          BY <2>3, <4>2 DEF CommandsInv
        <5>2. Recorded(q) => Recorded(q)'
          BY <2>4, <3>1 DEF Recorded
        <5> QED BY <2>4, <3>1, <5>1, <5>2 DEF RequestSound
      <4> QED BY <4>1, <4>2
    <3> QED BY <3>2, <3>3, <3>4 DEF CommandsInv
  <2>6. CASE ~Q!Known(r)
    <3> DEFINE task == [Q!Idle EXCEPT !.pc = "created", !.request = r,
                                       !.definition = commandDefined]
    <3>1. PICK t \in CommandTaskIds :
             /\ commandTasks[t] = Q!Idle
             /\ commandTasks' = [commandTasks EXCEPT ![t] = task]
             /\ commandInflight' = [commandInflight EXCEPT ![r] = t]
      BY <1>3, <2>6 DEF Q!Submit
    <3>2. /\ commandInflight[r] = Q!NoTask /\ commandTasks[t].pc = "idle" /\ t # Q!NoTask
      <4>1. Q!Idle.pc = "idle"
        BY DEF Q!Idle
      <4>2. t # Q!NoTask
        BY TaskAssumption DEF Q!NoTask
      <4> QED BY <2>6, <3>1, <4>1, <4>2 DEF Q!Known
    <3>3. task \in CommandTask
      BY <2>4, TaskCreated
    <3>4. task.pc = "created" /\ task.request = r /\ task.definition # 0
      <4>1. commandDefined # 0
        BY <1>3 DEF Q!Submit
      <4> QED BY <2>4, <4>1, TaskCreated
    <3> HIDE DEF task
    <3>5. /\ commandTasks'[t] = task /\ commandTasks' \in [CommandTaskIds -> CommandTask]
          /\ \A u \in CommandTaskIds \ {t} : commandTasks'[u] = commandTasks[u]
      BY <2>0, <3>1, <3>3 DEF CommandTypes
    <3>6. /\ commandInflight'[r] = t
          /\ commandInflight' \in [CommandRequests -> CommandTaskIds \cup {Q!NoTask}]
          /\ \A q \in CommandRequests \ {r} : commandInflight'[q] = commandInflight[q]
      BY <2>0, <3>1 DEF CommandTypes
    <3>7. CommandTypes'
      BY <2>0, <2>3, <2>4, <3>5, <3>6 DEF CommandTypes
    <3>8. ASSUME NEW u \in CommandTaskIds PROVE TaskSound(u)'
      <4>1. CASE u = t
        BY <2>4, <3>4, <3>5, <3>6, <4>1 DEF TaskSound
      <4>2. CASE u # t
        <5>1. TaskSound(u) /\ commandTasks'[u] = commandTasks[u]
          BY <3>5, <4>2 DEF CommandsInv
        <5>2. commandTasks[u].pc # "idle" => commandTasks[u].request # r
          BY <3>2, <5>1, TaskAssumption DEF TaskSound, Q!NoTask
        <5> QED BY <2>3, <2>4, <3>6, <5>1, <5>2 DEF TaskSound
      <4> QED BY <4>1, <4>2
    <3>9. ASSUME NEW q \in CommandRequests PROVE RequestSound(q)'
      <4>1. Recorded(q) => Recorded(q)'
        BY <2>4, <3>2, <3>5 DEF Recorded
      <4>2. CASE q = r
        BY <2>0, <2>1, <2>3, <2>4, <3>2, <3>4, <3>5, <3>6, <4>1, <4>2 DEF RequestSound
      <4>3. CASE q # r
        <5>1. RequestSound(q) /\ commandLives'[q] = commandLives[q]
              /\ commandInflight'[q] = commandInflight[q]
          BY <2>3, <3>6, <4>3 DEF CommandsInv
        <5>2. commandInflight[q] # Q!NoTask => commandInflight[q] \in CommandTaskIds \ {t}
          BY <2>0, <3>2, <5>1 DEF RequestSound, CommandTypes
        <5> QED BY <2>4, <3>5, <4>1, <5>1, <5>2 DEF RequestSound
      <4> QED BY <4>2, <4>3
    <3> QED BY <3>7, <3>8, <3>9 DEF CommandsInv
  <2> QED BY <2>5, <2>6
<1>4. ASSUME NEW t \in CommandTaskIds, Q!Done(t) PROVE Goal
  <2>0. CommandTypes /\ TaskSound(t) /\ commandTasks[t].pc = "over" /\ t # Q!NoTask
    BY <1>4, TaskAssumption DEF CommandsInv, Q!Done, Q!NoTask
  <2>1. /\ commandTasks' = [commandTasks EXCEPT ![t] = Q!Idle]
        /\ commandInflight' = [r \in CommandRequests |->
                                 IF commandInflight[r] = t THEN Q!NoTask ELSE commandInflight[r]]
        /\ UNCHANGED <<commandsOpen, commandDefined, commandsRegistered, commandCompleted,
                       commandResults, commandLives>>
    BY <1>4 DEF Q!Done
  <2>2. Q!Idle \in CommandTask /\ Q!Idle.pc = "idle"
    BY DEF Q!Idle, CommandTask
  <2>3. /\ commandTasks'[t] = Q!Idle /\ commandTasks' \in [CommandTaskIds -> CommandTask]
        /\ \A u \in CommandTaskIds \ {t} : commandTasks'[u] = commandTasks[u]
    BY <2>0, <2>1, <2>2 DEF CommandTypes
  <2>4. CommandTypes'
    BY <2>0, <2>1, <2>3 DEF CommandTypes
  <2>5. ASSUME NEW u \in CommandTaskIds PROVE TaskSound(u)'
    <3>1. CASE u = t
      BY <2>2, <2>3, <3>1 DEF TaskSound
    <3>2. CASE u # t
      BY <2>1, <2>3, <3>2 DEF CommandsInv, TaskSound
    <3> QED BY <3>1, <3>2
  <2>6. ASSUME NEW q \in CommandRequests PROVE RequestSound(q)'
    <3>0. RequestSound(q) /\ TaskSound(t)
      BY DEF CommandsInv
    <3>1. Recorded(q) => Recorded(q)'
      BY <2>0, <2>1, <2>3 DEF Recorded
    <3>2. CASE commandInflight[q] = t
      <4>1. commandInflight'[q] = Q!NoTask /\ Excused(commandLives[q])
        BY <2>0, <2>1, <3>0, <3>2 DEF RequestSound, TaskSound
      <4> QED BY <2>1, <3>0, <3>1, <4>1 DEF RequestSound
    <3>3. CASE commandInflight[q] # t
      <4>1. commandInflight'[q] = commandInflight[q]
        BY <2>1, <3>3
      <4>2. commandInflight[q] # Q!NoTask => commandInflight[q] \in CommandTaskIds \ {t}
        BY <2>0, <3>3 DEF CommandTypes
      <4> QED BY <2>1, <2>3, <3>0, <3>1, <4>1, <4>2 DEF RequestSound
    <3> QED BY <3>2, <3>3
  <2> QED BY <2>4, <2>5, <2>6 DEF CommandsInv
<1>5. ASSUME Q!Close PROVE Goal
  <2> DEFINE busy(t) == commandTasks[t].pc \notin {"idle", "over"}
             cut(r) == commandLives[r].cut
                       \/ \E t \in CommandTaskIds : commandTasks[t].request = r /\ busy(t)
  <2>0. CommandTypes
    BY DEF CommandsInv
  <2>1. /\ ~commandsOpen' /\ commandsOpen' \in BOOLEAN /\ commandDefined' = 0
        /\ commandTasks' = [t \in CommandTaskIds |-> IF ~busy(t) THEN commandTasks[t]
                                                     ELSE [commandTasks[t] EXCEPT !.pc = "over"]]
        /\ commandLives' = [r \in CommandRequests |-> [commandLives[r] EXCEPT !.cut = cut(r)]]
        /\ UNCHANGED <<commandsRegistered, commandInflight, commandCompleted, commandResults>>
    BY <1>5 DEF Q!Close, Q!Request
  <2>2. ASSUME NEW r \in CommandRequests
        PROVE  /\ commandLives'[r] \in CommandLife /\ commandLives'[r].cut = cut(r)
               /\ commandLives'[r].ran = commandLives[r].ran
               /\ commandLives'[r].answered = commandLives[r].answered
               /\ commandLives'[r].unwritten = commandLives[r].unwritten
               /\ commandLives'[r].undefined = commandLives[r].undefined
               /\ commandLives'[r].accepted = commandLives[r].accepted
    <3>1. cut(r) \in BOOLEAN
      BY <2>0 DEF CommandTypes, CommandLife
    <3>2. commandLives'[r] = [commandLives[r] EXCEPT !.cut = cut(r)] /\ commandLives[r] \in CommandLife
      BY <2>0, <2>1 DEF CommandTypes
    <3> HIDE DEF cut
    <3> QED BY <3>1, <3>2 DEF CommandLife
  <2>3. ASSUME NEW t \in CommandTaskIds
        PROVE  /\ commandTasks'[t] \in CommandTask
               /\ commandTasks'[t].request = commandTasks[t].request
               /\ commandTasks'[t].definition = commandTasks[t].definition
               /\ busy(t) => commandTasks'[t].pc = "over"
               /\ ~busy(t) => commandTasks'[t] = commandTasks[t]
    <3>1. commandTasks[t] \in CommandTask
      BY <2>0 DEF CommandTypes
    <3>2. CASE busy(t)
      <4>1. commandTasks'[t] = [commandTasks[t] EXCEPT !.pc = "over"]
        BY <2>1, <3>2
      <4>2. LET next == [commandTasks[t] EXCEPT !.pc = "over"] IN
            /\ next \in CommandTask /\ next.pc = "over"
            /\ next.request = commandTasks[t].request
            /\ next.definition = commandTasks[t].definition
        BY <3>1, TaskGoes
      <4> QED BY <3>2, <4>1, <4>2
    <3>3. CASE ~busy(t)
      BY <2>1, <3>1, <3>3
    <3> QED BY <3>2, <3>3
  <2>4. CommandTypes'
    <3>1. commandTasks' \in [CommandTaskIds -> CommandTask]
      BY <2>1, <2>3
    <3>2. commandLives' \in [CommandRequests -> CommandLife]
      BY <2>1, <2>2
    <3> QED BY <2>0, <2>1, <3>1, <3>2 DEF CommandTypes
  <2>5. ASSUME NEW r \in CommandRequests, Excused(commandLives[r]) PROVE Excused(commandLives'[r])
    BY <2>2, <2>5 DEF Excused
  <2>6. ASSUME NEW t \in CommandTaskIds PROVE TaskSound(t)'
    <3>0. TaskSound(t)
      BY DEF CommandsInv
    <3>1. CASE busy(t)
      <4>1. commandTasks[t].request \in CommandRequests /\ cut(commandTasks[t].request)
        BY <3>0, <3>1 DEF TaskSound
      <4>2. Excused(commandLives'[commandTasks[t].request])
        BY <2>2, <4>1 DEF Excused
      <4>3. /\ commandTasks'[t].pc = "over" /\ commandTasks'[t].request = commandTasks[t].request
            /\ commandTasks'[t].definition = commandTasks[t].definition
        BY <2>3, <3>1
      <4> HIDE DEF cut
      <4> QED BY <2>1, <3>0, <3>1, <4>1, <4>2, <4>3 DEF TaskSound
    <3>2. CASE ~busy(t)
      <4>1. commandTasks'[t] = commandTasks[t]
        BY <2>3, <3>2
      <4> HIDE DEF cut
      <4> QED BY <2>1, <2>5, <3>0, <3>2, <4>1 DEF TaskSound
    <3> QED BY <3>1, <3>2
  <2>7. ASSUME NEW q \in CommandRequests PROVE RequestSound(q)'
    <3>0. RequestSound(q)
      BY DEF CommandsInv
    <3>1. commandInflight[q] # Q!NoTask =>
             /\ commandTasks'[commandInflight[q]].pc # "idle"
             /\ commandTasks'[commandInflight[q]].request = q
      <4> SUFFICES ASSUME commandInflight[q] # Q!NoTask
                   PROVE  /\ commandTasks'[commandInflight[q]].pc # "idle"
                          /\ commandTasks'[commandInflight[q]].request = q
        OBVIOUS
      <4>1. commandInflight[q] \in CommandTaskIds
        BY <2>0 DEF CommandTypes
      <4> QED BY <2>3, <3>0, <4>1 DEF RequestSound
    <3>2. Excused(commandLives[q]) => Excused(commandLives'[q])
      BY <2>5
    <3> HIDE DEF cut
    <3> QED BY <2>1, <2>2, <3>0, <3>1, <3>2 DEF RequestSound
  <2> QED BY <2>4, <2>6, <2>7 DEF CommandsInv
<1>6. ASSUME Q!Reopen PROVE Goal
  <2>0. CommandTypes
    BY DEF CommandsInv
  <2>1. /\ \A t \in CommandTaskIds : commandTasks'[t] = Q!Idle
        /\ commandTasks' = commandTasks
        /\ commandsOpen' = TRUE
        /\ commandsRegistered' \in Nat /\ commandDefined' \in Nat
        /\ commandInflight' = [r \in CommandRequests |-> Q!NoTask]
        /\ commandCompleted' = {} /\ commandResults' = {}
        /\ commandLives' = [r \in CommandRequests |-> Q!NewLife]
    BY <1>6, <2>0 DEF Q!Reopen, CommandTypes
  <2>2. /\ Q!NewLife \in CommandLife /\ Q!NewLife.ran = 0 /\ ~Q!NewLife.accepted
    BY DEF Q!NewLife, CommandLife
  <2>3. CommandTypes'
    BY <2>0, <2>1, <2>2 DEF CommandTypes
  <2>4. \A t \in CommandTaskIds : TaskSound(t)'
    <3>1. Q!Idle.pc = "idle"
      BY DEF Q!Idle
    <3> QED BY <2>1, <3>1 DEF TaskSound
  <2>5. \A r \in CommandRequests : RequestSound(r)'
    BY <2>1, <2>2 DEF RequestSound
  <2> QED BY <2>3, <2>4, <2>5 DEF CommandsInv
<1> HIDE DEF Goal
<1>7. ASSUME NEW t \in CommandTaskIds,
             Q!Start(t) \/ Q!Announce(t) \/ Q!Handle(t) \/ Q!Record(t) \/ Q!Publish(t)
      PROVE  Goal
  BY <1>7, TasksStep DEF Goal
<1>8. Q!Next \/ UNCHANGED Q!vars
  OBVIOUS
<1>9. Goal
  BY <1>1, <1>2, <1>3, <1>4, <1>5, <1>6, <1>7, <1>8 DEF Q!Next
<1> QED
  BY <1>9 DEF Goal

\* The first states, and what the invariants say.
LEMMA DoneOnceBegins ==
    /\ I!Init => ReferencesInv
    /\ Q!Init => CommandsInv
<1>1. I!Init => ReferencesInv
  <2> SUFFICES ASSUME I!Init PROVE ReferencesInv
    OBVIOUS
  <2>1. /\ skillHook \in [pc : {"idle", "resolving", "logging"}, next : Nat,
                          seen : SUBSET I!Refs, given : SUBSET I!Refs]
        /\ skillHook.pc = "idle" /\ skillHook.given = {}
    BY DEF I!Init, I!NoHook
  <2>2. /\ skillMarks = {} /\ skillHints \in [I!Refs -> Nat] /\ skillCut \in BOOLEAN
        /\ \A r \in I!Refs : skillHints[r] = 0
    BY DEF I!Init
  <2> QED BY <2>1, <2>2 DEF ReferencesInv
<1>2. ASSUME Q!Init PROVE CommandsInv
  <2>1. /\ Q!NewLife \in CommandLife /\ Q!NewLife.ran = 0 /\ ~Q!NewLife.accepted
    BY DEF Q!NewLife, CommandLife
  <2>2. Q!Idle \in CommandTask /\ Q!Idle.pc = "idle"
    BY DEF Q!Idle, CommandTask
  <2>3. CommandTypes
    BY <1>2, <2>1, <2>2 DEF Q!Init, CommandTypes
  <2>4. \A t \in CommandTaskIds : TaskSound(t)
    BY <1>2, <2>2 DEF Q!Init, TaskSound
  <2>5. \A r \in CommandRequests : RequestSound(r)
    BY <1>2, <2>1 DEF Q!Init, RequestSound
  <2> QED BY <2>3, <2>4, <2>5 DEF CommandsInv
<1> QED BY <1>1, <1>2

LEMMA DoneOnceHolds == ReferencesInv /\ CommandsInv => I!InjectedOnce /\ Q!CommandsHold
<1> SUFFICES ASSUME ReferencesInv, CommandsInv PROVE I!InjectedOnce /\ Q!CommandsHold
  OBVIOUS
<1>1. I!InjectedOnce
  BY DEF ReferencesInv, I!InjectedOnce
<1>2. Q!SucceedsOnce
  BY DEF CommandsInv, RequestSound, Q!SucceedsOnce
<1>3. Q!AcceptedIsAnswered
  <2> SUFFICES ASSUME NEW r \in CommandRequests, commandLives[r].accepted,
                      \A t \in CommandTaskIds : commandTasks[t].request # r
               PROVE  Excused(commandLives[r])
    BY DEF Q!AcceptedIsAnswered, Q!Request, Excused
  <2>1. RequestSound(r) /\ CommandTypes
    BY DEF CommandsInv
  <2>2. commandInflight[r] = Q!NoTask
    BY <2>1 DEF RequestSound, CommandTypes
  <2> QED BY <2>1, <2>2 DEF RequestSound
<1> QED
  BY <1>1, <1>2, <1>3 DEF Q!CommandsHold

-----------------------------------------------------------------------------
(* The first states of the others, and what the invariants say.            *)

LEMMA TurnBegins ==
    /\ T!Init => TurnInv
    /\ V!Init => AuditInv
    /\ X!Init => ProcessInv
<1>1. T!Init => TurnInv
  BY DEF T!Init, T!NewRun, T!AbsentCall, T!Call, T!CallStates, T!Reasons,
         TurnInv, TurnRun, CallSound
<1>2. V!Init => AuditInv
  BY DEF V!Init, V!NoCall, AuditInv
<1>3. X!Init => ProcessInv
  BY DEF X!Init, X!NoRun, ProcessInv, RunRecord, Reaped
<1> QED
  BY <1>1, <1>2, <1>3

LEMMA TurnHolds ==
    /\ TurnInv => T!RunsAsAllowed /\ T!PausedHasAQuestion
    /\ AuditInv => V!RunsAreAudited
    /\ ProcessInv => X!CommandsAreReaped
<1>1. TurnInv => T!RunsAsAllowed
  BY DEF TurnInv, CallSound, T!RunsAsAllowed, T!Call
<1>2. TurnInv => T!PausedHasAQuestion
  BY DEF TurnInv, Asked, T!PausedHasAQuestion, T!InState
<1>3. AuditInv => V!RunsAreAudited
  BY DEF AuditInv, V!RunsAreAudited
<1>4. ProcessInv => X!CommandsAreReaped
  BY DEF ProcessInv, Reaped, RunRecord, X!CommandsAreReaped
<1> QED
  BY <1>1, <1>2, <1>3, <1>4

-----------------------------------------------------------------------------
(* The MCP plugin: one prepare_view at a time works on the scopes, and     *)
(* what it disposes of it has taken out of its scope before.               *)

ScopeFields == {"there", "own", "lower", "refs", "tools", "denied"}
McpCallFields == {"pc", "global", "agent", "project", "scope", "todo", "server",
                  "known", "left", "stopping"}
Locking == {"scope", "disposing", "entries", "starting", "listing", "rolling_back"}

McpTypes ==
    /\ mcpScopes = [sc \in P!Scopes |-> mcpScopes[sc]]
    /\ \A sc \in P!Scopes : DOMAIN mcpScopes[sc] = ScopeFields /\ mcpScopes[sc].refs \subseteq P!Keys
    /\ mcpManagers \in [P!Keys -> P!Connection] /\ mcpUsers \in [P!Keys -> SUBSET P!Scopes]
    /\ mcpCalls = [s \in McpSessions |-> mcpCalls[s]]
\* What is known of a call that has the lock.
McpCallSound(k, scopes) ==
    /\ DOMAIN k = McpCallFields /\ k.scope \in P!Scopes
    /\ k.pc \in Locking \cup {"idle", "locking"}
    /\ k.pc \in {"disposing", "rolling_back"} => scopes[k.scope].refs = {}
    /\ k.pc = "starting" => \A m \in k.server : m \in Servers /\ P!Own(k, k.scope)[m] \in Configs
McpInv ==
    /\ McpTypes /\ P!NobodyStopsMyServer
    /\ \A s \in McpSessions : /\ McpCallSound(mcpCalls[s], mcpScopes)
                              /\ mcpCalls[s].pc \in Locking => mcpHolder = s

LEMMA McpInit == P!Init => McpInv
<1> SUFFICES ASSUME P!Init PROVE McpInv
  OBVIOUS
<1>1. mcpScopes = [sc \in P!Scopes |-> P!NoScope] /\ mcpCalls = [s \in McpSessions |-> P!NoCall]
  BY DEF P!Init
<1>2. DOMAIN P!NoScope = ScopeFields /\ P!NoScope.refs = {}
  BY DEF P!NoScope, ScopeFields
<1>3. DOMAIN P!NoCall = McpCallFields /\ P!NoCall.pc = "idle" /\ P!NoCall.scope = "agent"
  BY DEF P!NoCall, McpCallFields
<1>4. mcpManagers \in [P!Keys -> P!Connection] /\ mcpUsers \in [P!Keys -> SUBSET P!Scopes]
  BY DEF P!Init, P!Connection
<1>5. McpTypes
  BY <1>1, <1>2, <1>3, <1>4 DEF McpTypes, P!Scopes
<1> QED
  BY <1>1, <1>2, <1>3, <1>5 DEF McpInv, McpCallSound, Locking, P!NobodyStopsMyServer, P!Scopes

\* A step of the call that has the lock, or that gets it, keeps the invariant if
\* its own part of it holds afterwards, and what the scopes refer to is there.
LEMMA McpMoves ==
    ASSUME McpInv, NEW s \in McpSessions, NEW k,
           mcpCalls' = [mcpCalls EXCEPT ![s] = k],
           McpCallSound(k, mcpScopes'),
           k.pc \in Locking => mcpHolder' = s,
           mcpScopes' = [sc \in P!Scopes |-> mcpScopes'[sc]],
           \A sc \in P!Scopes : DOMAIN mcpScopes'[sc] = ScopeFields /\ mcpScopes'[sc].refs \subseteq P!Keys,
           mcpManagers' \in [P!Keys -> P!Connection], mcpUsers' \in [P!Keys -> SUBSET P!Scopes],
           P!NobodyStopsMyServer',
           \/ UNCHANGED <<mcpScopes, mcpHolder>>
           \/ mcpCalls[s].pc \in Locking
           \/ (mcpHolder = "none" /\ UNCHANGED mcpScopes)
    PROVE  McpInv'
<1>1. mcpCalls' = [d \in McpSessions |-> IF d = s THEN k ELSE mcpCalls[d]]
  BY DEF McpInv, McpTypes
<1>2. McpTypes'
  BY <1>1 DEF McpTypes
<1>3. ASSUME NEW d \in McpSessions, d # s
      PROVE  /\ McpCallSound(mcpCalls'[d], mcpScopes')
             /\ mcpCalls'[d].pc \in Locking => mcpHolder' = d
  <2>1. mcpCalls'[d] = mcpCalls[d] /\ McpCallSound(mcpCalls[d], mcpScopes)
    BY <1>1, <1>3 DEF McpInv
  <2>2. CASE UNCHANGED <<mcpScopes, mcpHolder>>
    BY <2>1, <2>2 DEF McpInv
  <2>3. CASE mcpCalls[s].pc \in Locking \/ (mcpHolder = "none" /\ UNCHANGED mcpScopes)
    <3>1. mcpCalls[d].pc \notin Locking
      BY <1>3, <2>3, McpAssumption DEF McpInv
    <3> QED BY <2>1, <3>1 DEF McpCallSound, Locking
  <2> QED BY <2>2, <2>3
<1> QED
  BY <1>1, <1>2, <1>3 DEF McpInv

\* Steps that leave the scopes and their connections as they are.
LEMMA McpGoesOn ==
    ASSUME McpInv, NEW s \in McpSessions, NEW k,
           mcpCalls' = [mcpCalls EXCEPT ![s] = k],
           UNCHANGED <<mcpScopes, mcpManagers, mcpUsers>>,
           McpCallSound(k, mcpScopes),
           k.pc \in Locking => mcpHolder' = s,
           UNCHANGED mcpHolder \/ mcpCalls[s].pc \in Locking \/ mcpHolder = "none"
    PROVE  McpInv'
<1>1. /\ mcpScopes' = [sc \in P!Scopes |-> mcpScopes'[sc]]
      /\ \A sc \in P!Scopes : DOMAIN mcpScopes'[sc] = ScopeFields /\ mcpScopes'[sc].refs \subseteq P!Keys
      /\ mcpManagers' \in [P!Keys -> P!Connection] /\ mcpUsers' \in [P!Keys -> SUBSET P!Scopes]
      /\ P!NobodyStopsMyServer' /\ McpCallSound(k, mcpScopes')
  BY DEF McpInv, McpTypes, P!NobodyStopsMyServer
<1> QED BY <1>1, McpMoves

\* Steps that set one scope, and stop no connection.
LEMMA McpScopeSet ==
    ASSUME McpInv, NEW s \in McpSessions, NEW k, NEW sc \in P!Scopes, NEW r,
           mcpCalls' = [mcpCalls EXCEPT ![s] = k],
           mcpScopes' = [mcpScopes EXCEPT ![sc] = r],
           DOMAIN r = ScopeFields, r.refs \subseteq P!Keys,
           mcpManagers' \in [P!Keys -> P!Connection], mcpUsers' \in [P!Keys -> SUBSET P!Scopes],
           \A x \in P!Keys : mcpManagers[x] # "none" => mcpManagers'[x] # "none",
           \A x \in P!Keys : mcpUsers[x] \subseteq mcpUsers'[x],
           \A x \in r.refs : mcpManagers'[x] # "none" /\ sc \in mcpUsers'[x],
           McpCallSound(k, mcpScopes'),
           k.pc \in Locking => mcpHolder' = s,
           mcpCalls[s].pc \in Locking
    PROVE  McpInv'
<1>1. mcpScopes' = [t \in P!Scopes |-> IF t = sc THEN r ELSE mcpScopes[t]]
  BY DEF McpInv, McpTypes
<1>2. \A t \in P!Scopes : DOMAIN mcpScopes'[t] = ScopeFields /\ mcpScopes'[t].refs \subseteq P!Keys
  BY <1>1 DEF McpInv, McpTypes
<1>3. P!NobodyStopsMyServer'
  BY <1>1 DEF P!NobodyStopsMyServer, McpInv, McpTypes
<1> QED BY <1>1, <1>2, <1>3, McpMoves

\* A call that is over, with the lock or without it.
LEMMA McpEnds ==
    ASSUME McpInv, NEW s \in McpSessions,
           mcpCalls' = [mcpCalls EXCEPT ![s] = P!NoCall],
           UNCHANGED <<mcpScopes, mcpManagers, mcpUsers>>,
           UNCHANGED mcpHolder \/ mcpCalls[s].pc \in Locking
    PROVE  McpInv'
<1>1. McpCallSound(P!NoCall, mcpScopes) /\ P!NoCall.pc \notin Locking
  BY DEF P!NoCall, McpCallFields, McpCallSound, Locking, P!Scopes
<1> HIDE DEF P!NoCall
<1> QED BY <1>1, McpGoesOn

\* From the Agent's scope to the Session's, and from that one out.
LEMMA McpPasses ==
    ASSUME McpInv, NEW s \in McpSessions, mcpCalls[s].pc \in {"scope", "entries"},
           P!Passes(s), UNCHANGED <<mcpScopes, mcpManagers, mcpUsers>>
    PROVE  McpInv'
<1> DEFINE c == mcpCalls[s]
<1>1. McpCallSound(c, mcpScopes) /\ mcpHolder = s /\ c.pc \in Locking
      /\ mcpCalls = [d \in McpSessions |-> mcpCalls[d]]
  BY DEF McpInv, McpTypes, Locking
<1>2. CASE c.scope = "agent"
  <2> DEFINE k == [c EXCEPT !.pc = "scope", !.scope = s]
  <2>1. McpCallSound(k, mcpScopes)
    BY <1>1 DEF McpCallSound, Locking, McpCallFields, P!Scopes
  <2>2. mcpCalls' = [mcpCalls EXCEPT ![s] = k] /\ UNCHANGED mcpHolder
    BY <1>1, <1>2 DEF P!Passes
  <2> HIDE DEF k
  <2> QED BY <1>1, <2>1, <2>2, McpGoesOn
<1>3. CASE c.scope # "agent"
  BY <1>1, <1>3, McpEnds DEF P!Passes
<1> QED BY <1>2, <1>3

\* The calls' way to the lock and from one scope to the next.
LEMMA McpLocking ==
    ASSUME McpInv, NEW s \in McpSessions,
           \/ P!PrepareView(s) \/ P!Locks(s) \/ P!EntriesDone(s)
    PROVE  McpInv'
<1> DEFINE c == mcpCalls[s]
<1>1. McpCallSound(c, mcpScopes) /\ (c.pc \in Locking => mcpHolder = s)
  BY DEF McpInv
<1>2. DOMAIN P!NoCall = McpCallFields /\ P!NoCall.pc = "idle" /\ P!NoCall.scope = "agent"
      /\ P!NoCall.server = {}
  BY DEF P!NoCall, McpCallFields
<1>3. mcpCalls = [d \in McpSessions |-> mcpCalls[d]]
  BY DEF McpInv, McpTypes
<1>4. CASE P!PrepareView(s)
  <2> DEFINE k == [P!NoCall EXCEPT !.pc = "locking", !.global = mcpSources["global"],
                   !.agent = mcpSources["agent"], !.project = mcpSources["project"]]
  <2>1. McpCallSound(k, mcpScopes) /\ k.pc \notin Locking
    BY <1>2 DEF McpCallSound, Locking, P!Scopes, McpCallFields
  <2>2. mcpCalls' = [mcpCalls EXCEPT ![s] = k] /\ UNCHANGED <<mcpScopes, mcpManagers, mcpUsers, mcpHolder>>
    BY <1>4 DEF P!PrepareView
  <2> HIDE DEF k
  <2> QED BY <2>1, <2>2, McpGoesOn
<1>5. CASE P!Locks(s)
  <2> DEFINE k == [c EXCEPT !.pc = "scope"]
  <2>1. McpCallSound(k, mcpScopes)
    BY <1>1 DEF McpCallSound, Locking, McpCallFields
  <2>2. /\ mcpCalls' = [mcpCalls EXCEPT ![s] = k] /\ UNCHANGED <<mcpScopes, mcpManagers, mcpUsers>>
        /\ mcpHolder = "none" /\ mcpHolder' = s
    BY <1>3, <1>5 DEF P!Locks, P!Goto
  <2> HIDE DEF k
  <2> QED BY <2>1, <2>2, McpGoesOn
<1>6. CASE P!EntriesDone(s)
  <2>1. c.pc = "entries" /\ mcpHolder = s /\ P!Passes(s) /\ UNCHANGED <<mcpScopes, mcpManagers, mcpUsers>>
    BY <1>1, <1>6 DEF P!EntriesDone, Locking
  <2> QED BY <2>1, McpPasses
<1> QED BY <1>4, <1>5, <1>6

\* The scope of a call is published anew, and refers to nothing yet.
LEMMA McpPublishes ==
    ASSUME McpInv, NEW s \in McpSessions, mcpCalls[s].pc \in {"scope", "disposing"},
           P!Publish(s, mcpCalls[s].scope), UNCHANGED <<mcpManagers, mcpUsers, mcpHolder>>
    PROVE  McpInv'
<1> DEFINE c == mcpCalls[s]
           own == P!Own(c, c.scope)
           lower == P!Lower(c, c.scope)
           r == [P!NoScope EXCEPT !.there = TRUE, !.own = own, !.lower = lower]
           todo == {m \in Servers : own[m] # P!Absent /\ own[m] # lower[m]}
           k == [c EXCEPT !.pc = "entries", !.stopping = FALSE, !.todo = todo]
<1> HIDE DEF own, lower, todo
<1>1. /\ McpCallSound(c, mcpScopes) /\ mcpHolder = s /\ c.pc \in Locking
      /\ mcpCalls = [d \in McpSessions |-> mcpCalls[d]]
      /\ mcpManagers \in [P!Keys -> P!Connection] /\ mcpUsers \in [P!Keys -> SUBSET P!Scopes]
  BY DEF McpInv, McpTypes, Locking
<1>2. DOMAIN r = ScopeFields /\ r.refs = {}
  BY DEF P!NoScope, ScopeFields
<1>3. mcpScopes' = [mcpScopes EXCEPT ![c.scope] = r]
  BY DEF P!Publish, own, lower
<1>4. mcpCalls' = [mcpCalls EXCEPT ![s] = k]
  BY <1>1 DEF P!Publish, own, lower, todo, McpCallSound, McpCallFields
<1>5. McpCallSound(k, mcpScopes') /\ c.scope \in P!Scopes
  BY <1>1 DEF McpCallSound, McpCallFields, Locking
<1> HIDE DEF r, k
<1> QED BY <1>1, <1>2, <1>3, <1>4, <1>5, McpScopeSet

\* A scope that is given back: what it referred to is left for the call to release.
LEMMA McpGivesBack ==
    ASSUME McpInv, NEW s \in McpSessions, NEW pc \in {"disposing", "rolling_back"}, NEW left,
           mcpCalls[s].pc \in Locking,
           mcpScopes' = [mcpScopes EXCEPT ![mcpCalls[s].scope] = P!NoScope],
           mcpCalls' = [mcpCalls EXCEPT ![s].pc = pc, ![s].left = left],
           UNCHANGED <<mcpManagers, mcpUsers, mcpHolder>>
    PROVE  McpInv'
<1> DEFINE c == mcpCalls[s]
           k == [c EXCEPT !.pc = pc, !.left = left]
<1>1. /\ McpCallSound(c, mcpScopes) /\ mcpHolder = s
      /\ mcpCalls = [d \in McpSessions |-> mcpCalls[d]] /\ mcpScopes = [t \in P!Scopes |-> mcpScopes[t]]
      /\ mcpManagers \in [P!Keys -> P!Connection] /\ mcpUsers \in [P!Keys -> SUBSET P!Scopes]
  BY DEF McpInv, McpTypes
<1>2. DOMAIN P!NoScope = ScopeFields /\ P!NoScope.refs = {}
  BY DEF P!NoScope, ScopeFields
<1>3. c.scope \in P!Scopes
  BY <1>1 DEF McpCallSound
<1>4. mcpScopes'[c.scope].refs = {}
  BY <1>1, <1>2, <1>3
<1>5. mcpCalls' = [mcpCalls EXCEPT ![s] = k]
  BY <1>1 DEF McpCallSound, McpCallFields
<1>6. DOMAIN k = McpCallFields /\ k.scope = c.scope /\ k.pc = pc /\ k.server = c.server
  BY <1>1 DEF McpCallSound, McpCallFields
<1>7. McpCallSound(k, mcpScopes')
  BY <1>3, <1>4, <1>6 DEF McpCallSound, Locking
<1> HIDE DEF k
<1> QED BY <1>1, <1>2, <1>3, <1>5, <1>6, <1>7, McpScopeSet

LEMMA McpScope == ASSUME McpInv, NEW s \in McpSessions, P!Scope(s) PROVE McpInv'
<1>1. mcpCalls[s].pc = "scope" /\ mcpCalls[s].pc \in Locking /\ UNCHANGED <<mcpManagers, mcpUsers>>
  BY DEF P!Scope, Locking
<1>2. \/ P!Passes(s) /\ UNCHANGED mcpScopes
      \/ /\ mcpScopes' = [mcpScopes EXCEPT ![mcpCalls[s].scope] = P!NoScope]
         /\ mcpCalls' = [mcpCalls EXCEPT ![s].pc = "disposing",
                                         ![s].left = mcpScopes[mcpCalls[s].scope].refs]
         /\ UNCHANGED mcpHolder
      \/ P!Publish(s, mcpCalls[s].scope) /\ UNCHANGED mcpHolder
  BY DEF P!Scope
<1> QED BY <1>1, <1>2, McpPasses, McpGivesBack, McpPublishes

LEMMA McpDisposed == ASSUME McpInv, NEW s \in McpSessions, P!Disposed(s) PROVE McpInv'
BY McpPublishes, McpEnds DEF P!Disposed, Locking

LEMMA McpCancel == ASSUME McpInv, NEW s \in McpSessions, P!Cancel(s) PROVE McpInv'
<1>1. UNCHANGED <<mcpManagers, mcpUsers>>
  BY DEF P!Cancel
<1>2. \/ mcpCalls' = [mcpCalls EXCEPT ![s] = P!NoCall] /\ UNCHANGED <<mcpScopes, mcpHolder>>
      \/ /\ mcpCalls[s].pc \in {"starting", "listing"}
         /\ mcpScopes' = [mcpScopes EXCEPT ![mcpCalls[s].scope] = P!NoScope]
         /\ mcpCalls' = [mcpCalls EXCEPT ![s].pc = "rolling_back",
                                         ![s].left = mcpScopes[mcpCalls[s].scope].refs]
         /\ UNCHANGED mcpHolder
      \/ /\ mcpCalls[s].pc \in {"disposing", "rolling_back"}
         /\ mcpCalls' = [mcpCalls EXCEPT ![s] = P!NoCall] /\ UNCHANGED mcpScopes
  BY DEF P!Cancel
<1>3. {"starting", "listing", "disposing", "rolling_back"} \subseteq Locking
  BY DEF Locking
<1>4. CASE mcpCalls' = [mcpCalls EXCEPT ![s] = P!NoCall] /\ UNCHANGED <<mcpScopes, mcpHolder>>
  BY <1>1, <1>4, McpEnds
<1>5. CASE /\ mcpCalls[s].pc \in {"disposing", "rolling_back"}
           /\ mcpCalls' = [mcpCalls EXCEPT ![s] = P!NoCall] /\ UNCHANGED mcpScopes
  BY <1>1, <1>3, <1>5, McpEnds
<1> QED BY <1>1, <1>2, <1>3, <1>4, <1>5, McpGivesBack

\* A call takes its scope out of the users of a connection, when the scope refers
\* to none any more: nobody else's connection is stopped.
LEMMA McpRelease ==
    ASSUME McpInv, NEW s \in McpSessions, NEW x \in P!Keys, P!Release(s, x)
    PROVE  McpInv'
<1> DEFINE c == mcpCalls[s]
           k == [c EXCEPT !.left = @ \ {x}, !.stopping = mcpUsers[x] \subseteq {c.scope}]
<1>1. /\ McpCallSound(c, mcpScopes) /\ mcpHolder = s /\ c.pc \in {"disposing", "rolling_back"}
      /\ c.pc \in Locking /\ mcpCalls = [d \in McpSessions |-> mcpCalls[d]]
      /\ UNCHANGED <<mcpScopes, mcpHolder>>
  BY DEF McpInv, McpTypes, P!Release, Locking
<1>2. /\ mcpUsers' = [mcpUsers EXCEPT ![x] = @ \ {c.scope}]
      /\ mcpManagers' = [mcpManagers EXCEPT ![x] = IF mcpUsers[x] \ {c.scope} = {} THEN "none" ELSE @]
  BY DEF P!Release, P!Without
<1>3. mcpManagers \in [P!Keys -> P!Connection] /\ mcpUsers \in [P!Keys -> SUBSET P!Scopes]
      /\ P!NobodyStopsMyServer /\ \A sc \in P!Scopes : mcpScopes[sc].refs \subseteq P!Keys
  BY DEF McpInv, McpTypes
<1>4. mcpManagers' \in [P!Keys -> P!Connection] /\ mcpUsers' \in [P!Keys -> SUBSET P!Scopes]
  BY <1>2, <1>3 DEF P!Connection
<1>5. mcpScopes[c.scope].refs = {} /\ c.scope \in P!Scopes
  BY <1>1 DEF McpCallSound
<1>6. P!NobodyStopsMyServer'
  <2> SUFFICES ASSUME NEW sc \in P!Scopes, NEW y \in mcpScopes[sc].refs
               PROVE  mcpManagers'[y] # "none" /\ sc \in mcpUsers'[y]
    BY <1>1 DEF P!NobodyStopsMyServer
  <2>1. sc # c.scope /\ y \in P!Keys /\ mcpManagers[y] # "none" /\ sc \in mcpUsers[y]
    BY <1>3, <1>5 DEF P!NobodyStopsMyServer
  <2> QED BY <1>2, <1>3, <2>1
<1>7. mcpCalls' = [mcpCalls EXCEPT ![s] = k]
  BY <1>1 DEF P!Release, McpCallSound, McpCallFields
<1>8. McpCallSound(k, mcpScopes')
  BY <1>1 DEF McpCallSound, McpCallFields, P!Own
<1>9. mcpScopes' = [sc \in P!Scopes |-> mcpScopes'[sc]]
      /\ \A sc \in P!Scopes : DOMAIN mcpScopes'[sc] = ScopeFields /\ mcpScopes'[sc].refs \subseteq P!Keys
  BY <1>1 DEF McpInv, McpTypes
<1> HIDE DEF k
<1> QED BY <1>1, <1>4, <1>6, <1>7, <1>8, <1>9, McpMoves

\* The scope of a call becomes a user of a connection that is there.
LEMMA McpUses ==
    ASSUME McpInv, NEW s \in McpSessions, NEW k, NEW x \in P!Keys,
           mcpCalls[s].pc \in Locking, k.pc = "listing",
           DOMAIN k = McpCallFields, k.scope = mcpCalls[s].scope,
           mcpCalls' = [mcpCalls EXCEPT ![s] = k],
           P!Uses(mcpCalls[s].scope, x), UNCHANGED mcpHolder,
           mcpManagers' \in [P!Keys -> P!Connection], mcpManagers'[x] # "none",
           \A y \in P!Keys : mcpManagers[y] # "none" => mcpManagers'[y] # "none"
    PROVE  McpInv'
<1> DEFINE sc == mcpCalls[s].scope
           r == [mcpScopes[sc] EXCEPT !.refs = @ \cup {x}]
<1>1. /\ sc \in P!Scopes /\ mcpHolder = s /\ mcpScopes = [t \in P!Scopes |-> mcpScopes[t]]
      /\ DOMAIN mcpScopes[sc] = ScopeFields /\ mcpScopes[sc].refs \subseteq P!Keys
      /\ mcpUsers \in [P!Keys -> SUBSET P!Scopes]
      /\ \A y \in mcpScopes[sc].refs : mcpManagers[y] # "none" /\ sc \in mcpUsers[y]
  BY DEF McpInv, McpTypes, McpCallSound, P!NobodyStopsMyServer
<1>2. mcpScopes' = [mcpScopes EXCEPT ![sc] = r] /\ mcpUsers' = [mcpUsers EXCEPT ![x] = @ \cup {sc}]
  BY <1>1 DEF P!Uses
<1>3. DOMAIN r = ScopeFields /\ r.refs = mcpScopes[sc].refs \cup {x}
  BY <1>1 DEF ScopeFields
<1>4. /\ mcpUsers' \in [P!Keys -> SUBSET P!Scopes] /\ sc \in mcpUsers'[x]
      /\ \A y \in P!Keys : mcpUsers[y] \subseteq mcpUsers'[y]
  BY <1>1, <1>2
<1>5. \A y \in r.refs : y \in P!Keys /\ mcpManagers'[y] # "none" /\ sc \in mcpUsers'[y]
  BY <1>1, <1>3, <1>4
<1>6. McpCallSound(k, mcpScopes')
  BY <1>1 DEF McpCallSound, Locking
<1>7. k.pc \in Locking => mcpHolder' = s
  BY <1>1
<1>8. r.refs \subseteq P!Keys
  BY <1>5
<1> HIDE DEF sc, r
<1> QED BY <1>1, <1>2, <1>3, <1>4, <1>5, <1>6, <1>7, <1>8, McpScopeSet

\* Steps that change a scope, but not what it refers to.
LEMMA McpRegisters ==
    ASSUME McpInv, NEW s \in McpSessions, NEW k, NEW r,
           mcpCalls[s].pc \in Locking, k.pc = "entries",
           DOMAIN k = McpCallFields, k.scope = mcpCalls[s].scope,
           DOMAIN r = ScopeFields, r.refs = mcpScopes[mcpCalls[s].scope].refs,
           mcpCalls' = [mcpCalls EXCEPT ![s] = k],
           mcpScopes' = [mcpScopes EXCEPT ![mcpCalls[s].scope] = r],
           UNCHANGED <<mcpManagers, mcpUsers, mcpHolder>>
    PROVE  McpInv'
<1>1. /\ mcpCalls[s].scope \in P!Scopes /\ mcpHolder = s /\ r.refs \subseteq P!Keys
      /\ mcpManagers \in [P!Keys -> P!Connection] /\ mcpUsers \in [P!Keys -> SUBSET P!Scopes]
      /\ \A y \in r.refs : mcpManagers[y] # "none" /\ mcpCalls[s].scope \in mcpUsers[y]
  BY DEF McpInv, McpTypes, McpCallSound, P!NobodyStopsMyServer
<1>2. McpCallSound(k, mcpScopes')
  BY <1>1 DEF McpCallSound, Locking
<1>3. /\ mcpManagers' \in [P!Keys -> P!Connection] /\ mcpUsers' \in [P!Keys -> SUBSET P!Scopes]
      /\ \A x \in P!Keys : mcpManagers[x] # "none" => mcpManagers'[x] # "none"
      /\ \A x \in P!Keys : mcpUsers[x] \subseteq mcpUsers'[x]
      /\ \A x \in r.refs : mcpManagers'[x] # "none" /\ mcpCalls[s].scope \in mcpUsers'[x]
      /\ (k.pc \in Locking => mcpHolder' = s)
  BY <1>1
<1> QED BY <1>1, <1>2, <1>3, McpScopeSet

LEMMA McpEntry ==
    ASSUME McpInv, NEW s \in McpSessions, NEW m \in Servers, P!Entry(s, m) \/ P!Hides(s, m)
    PROVE  McpInv'
<1> DEFINE c == mcpCalls[s]
           entry == P!Own(c, c.scope)[m]
           known == P!Known(m)
           lists == [c EXCEPT !.pc = "listing", !.todo = @ \ {m}, !.server = {m}, !.known = known]
           starts == [c EXCEPT !.pc = "starting", !.todo = @ \ {m}, !.server = {m}, !.known = known]
<1> HIDE DEF known
<1>1. /\ McpCallSound(c, mcpScopes) /\ c.pc = "entries" /\ c.pc \in Locking /\ mcpHolder = s
      /\ mcpCalls = [d \in McpSessions |-> mcpCalls[d]] /\ mcpManagers \in [P!Keys -> P!Connection]
      /\ DOMAIN c = McpCallFields /\ UNCHANGED <<mcpManagers, mcpHolder>>
  BY DEF McpInv, McpTypes, P!Entry, P!Hides, McpCallSound, Locking
<1>2. /\ DOMAIN lists = McpCallFields /\ lists.pc = "listing" /\ lists.scope = c.scope
      /\ DOMAIN starts = McpCallFields /\ starts.pc = "starting" /\ starts.scope = c.scope
      /\ starts.server = {m} /\ P!Own(starts, starts.scope) = P!Own(c, c.scope)
  BY <1>1 DEF McpCallFields, P!Own
<1>3. McpCallSound(lists, mcpScopes)
  BY <1>1, <1>2 DEF McpCallSound, Locking
<1>4. ASSUME P!Entry(s, m), mcpCalls' = [mcpCalls EXCEPT ![s] = lists], UNCHANGED <<mcpScopes, mcpUsers>>
      PROVE  McpInv'
  <2> HIDE DEF lists
  <2> QED BY <1>1, <1>3, <1>4, McpGoesOn
<1>5. ASSUME P!Entry(s, m), mcpCalls' = [mcpCalls EXCEPT ![s] = starts], UNCHANGED <<mcpScopes, mcpUsers>>
      PROVE  McpInv'
  <2>1. entry \in Configs
    BY <1>5 DEF P!Entry
  <2>2. McpCallSound(starts, mcpScopes)
    BY <1>1, <1>2, <2>1 DEF McpCallSound, Locking
  <2> HIDE DEF starts
  <2> QED BY <1>1, <1>5, <2>2, McpGoesOn
<1>6. ASSUME P!Entry(s, m), mcpCalls' = [mcpCalls EXCEPT ![s] = lists],
             mcpManagers[<<m, entry>>] # "none", P!Uses(c.scope, <<m, entry>>)
      PROVE  McpInv'
  <2>1. <<m, entry>> \in P!Keys
    BY <1>6 DEF P!Entry, P!Keys
  <2> HIDE DEF lists, entry
  <2> QED BY <1>1, <1>2, <1>6, <2>1, McpUses
<1>7. CASE P!Entry(s, m)
  <2>1. mcpCalls' = [mcpCalls EXCEPT ![s].pc = "listing", ![s].todo = @ \ {m}, ![s].server = {m},
                                     ![s].known = known]
           => mcpCalls' = [mcpCalls EXCEPT ![s] = lists]
    BY <1>1 DEF McpCallFields
  <2>2. mcpCalls' = [[mcpCalls EXCEPT ![s].pc = "listing", ![s].todo = @ \ {m}, ![s].server = {m},
                                      ![s].known = known] EXCEPT ![s].pc = "starting"]
           => mcpCalls' = [mcpCalls EXCEPT ![s] = starts]
    <3>1. [mcpCalls EXCEPT ![s].pc = "listing", ![s].todo = @ \ {m}, ![s].server = {m},
                           ![s].known = known] = [mcpCalls EXCEPT ![s] = lists]
      BY <1>1 DEF McpCallFields
    <3>2. [lists EXCEPT !.pc = "starting"] = starts
      BY <1>1 DEF McpCallFields
    <3> HIDE DEF lists, starts
    <3>3. [[mcpCalls EXCEPT ![s] = lists] EXCEPT ![s].pc = "starting"] = [mcpCalls EXCEPT ![s] = starts]
      BY <1>1, <3>2
    <3> QED BY <3>1, <3>3
  <2> HIDE DEF lists, starts
  <2> QED BY <1>4, <1>5, <1>6, <1>7, <2>1, <2>2 DEF P!Entry, known
<1>8. CASE P!Hides(s, m)
  <2> DEFINE k == [c EXCEPT !.todo = @ \ {m}]
             r == [mcpScopes[c.scope] EXCEPT !.denied = @ \cup {m}]
  <2>1. mcpCalls' = [mcpCalls EXCEPT ![s] = k] /\ UNCHANGED mcpUsers
    BY <1>1, <1>8 DEF P!Hides
  <2>2. /\ DOMAIN k = McpCallFields /\ k.pc = "entries" /\ k.scope = c.scope /\ k.server = c.server
        /\ McpCallSound(k, mcpScopes)
    BY <1>1 DEF McpCallFields, McpCallSound, Locking
  <2>3. /\ mcpScopes = [t \in P!Scopes |-> mcpScopes[t]] /\ c.scope \in P!Scopes
        /\ DOMAIN mcpScopes[c.scope] = ScopeFields
    BY <1>1 DEF McpInv, McpTypes, McpCallSound
  <2>4. DOMAIN r = ScopeFields /\ r.refs = mcpScopes[c.scope].refs
    BY <2>3 DEF ScopeFields
  <2>5. mcpScopes' = [mcpScopes EXCEPT ![c.scope] = r] \/ UNCHANGED mcpScopes
    BY <1>8, <2>3 DEF P!Hides
  <2> HIDE DEF k, r
  <2> QED BY <1>1, <2>1, <2>2, <2>4, <2>5, McpRegisters, McpGoesOn
<1> QED BY <1>7, <1>8

LEMMA McpStarted == ASSUME McpInv, NEW s \in McpSessions, P!Started(s) PROVE McpInv'
<1> DEFINE c == mcpCalls[s]
           k == [c EXCEPT !.pc = "listing"]
<1>1. /\ McpCallSound(c, mcpScopes) /\ c.pc = "starting" /\ c.pc \in Locking
      /\ mcpCalls = [d \in McpSessions |-> mcpCalls[d]] /\ mcpManagers \in [P!Keys -> P!Connection]
      /\ DOMAIN c = McpCallFields /\ UNCHANGED mcpHolder
  BY DEF McpInv, McpTypes, P!Started, McpCallSound, Locking
<1>2. PICK m \in c.server, state \in {"up", "down"} :
         /\ mcpManagers' = [mcpManagers EXCEPT ![<<m, P!Own(c, c.scope)[m]>>] = state]
         /\ P!Uses(c.scope, <<m, P!Own(c, c.scope)[m]>>)
  BY DEF P!Started
<1> DEFINE x == <<m, P!Own(c, c.scope)[m]>>
<1>3. x \in P!Keys
  BY <1>1 DEF McpCallSound, P!Keys
<1>4. DOMAIN k = McpCallFields /\ k.pc = "listing" /\ k.scope = c.scope
      /\ mcpCalls' = [mcpCalls EXCEPT ![s] = k]
  BY <1>1 DEF McpCallFields, P!Started, P!Goto
<1> HIDE DEF x, k
<1>5. /\ mcpManagers' \in [P!Keys -> P!Connection] /\ mcpManagers'[x] # "none"
      /\ \A y \in P!Keys : mcpManagers[y] # "none" => mcpManagers'[y] # "none"
  BY <1>1, <1>2, <1>3 DEF x, P!Connection
<1>6. P!Uses(c.scope, x)
  BY <1>2 DEF x
<1> QED BY <1>1, <1>3, <1>4, <1>5, <1>6, McpUses

LEMMA McpListed == ASSUME McpInv, NEW s \in McpSessions, P!Listed(s) PROVE McpInv'
<1> DEFINE c == mcpCalls[s]
           k == [c EXCEPT !.pc = "entries", !.server = {}, !.known = FALSE]
<1>1. /\ McpCallSound(c, mcpScopes) /\ c.pc = "listing" /\ c.pc \in Locking
      /\ mcpCalls = [d \in McpSessions |-> mcpCalls[d]]
      /\ DOMAIN c = McpCallFields /\ UNCHANGED <<mcpManagers, mcpUsers, mcpHolder>>
  BY DEF McpInv, McpTypes, P!Listed, McpCallSound, Locking
<1>2. /\ mcpScopes = [t \in P!Scopes |-> mcpScopes[t]] /\ c.scope \in P!Scopes
      /\ DOMAIN mcpScopes[c.scope] = ScopeFields
  BY <1>1 DEF McpInv, McpTypes, McpCallSound
<1>3. PICK m \in c.server, answers \in BOOLEAN :
         mcpScopes' = [mcpScopes EXCEPT
            ![c.scope].tools = @ \cup {n \in {m} : answers},
            ![c.scope].denied = @ \cup {n \in {m} : c.known /\ P!Lower(c, c.scope)[m] # P!Absent}]
  BY DEF P!Listed
<1> DEFINE listed == {n \in {m} : answers}
           hidden == {n \in {m} : c.known /\ P!Lower(c, c.scope)[m] # P!Absent}
           r == [mcpScopes[c.scope] EXCEPT !.tools = @ \cup listed, !.denied = @ \cup hidden]
<1> HIDE DEF listed, hidden
<1>4. mcpScopes' = [mcpScopes EXCEPT ![c.scope].tools = @ \cup listed, ![c.scope].denied = @ \cup hidden]
  BY <1>3 DEF listed, hidden
<1>5. mcpScopes' = [mcpScopes EXCEPT ![c.scope] = r] /\ DOMAIN r = ScopeFields
      /\ r.refs = mcpScopes[c.scope].refs
  BY <1>2, <1>4 DEF ScopeFields
<1>6. DOMAIN k = McpCallFields /\ k.pc = "entries" /\ k.scope = c.scope
      /\ mcpCalls' = [mcpCalls EXCEPT ![s] = k]
  BY <1>1 DEF McpCallFields, P!Listed
<1> HIDE DEF k, r
<1> QED BY <1>1, <1>5, <1>6, McpRegisters

\* stop finds no call with the lock, and takes every scope and every reference.
LEMMA McpStop == ASSUME McpInv, P!Stop PROVE McpInv'
<1>1. /\ mcpScopes' = [sc \in P!Scopes |-> P!NoScope] /\ mcpHolder = "none"
      /\ mcpUsers' = [x \in P!Keys |-> mcpUsers[x] \ {sc \in P!Scopes : x \in mcpScopes[sc].refs}]
      /\ mcpManagers' = [x \in P!Keys |-> IF mcpUsers'[x] = {} THEN "none" ELSE mcpManagers[x]]
      /\ UNCHANGED <<mcpHolder, mcpCalls>>
  BY DEF P!Stop
<1>2. DOMAIN P!NoScope = ScopeFields /\ P!NoScope.refs = {}
  BY DEF P!NoScope, ScopeFields
<1>3. mcpManagers' \in [P!Keys -> P!Connection] /\ mcpUsers' \in [P!Keys -> SUBSET P!Scopes]
  BY <1>1 DEF McpInv, McpTypes, P!Connection
<1>4. McpTypes' /\ P!NobodyStopsMyServer'
  BY <1>1, <1>2, <1>3 DEF McpInv, McpTypes, P!NobodyStopsMyServer
<1>5. \A s \in McpSessions : mcpCalls[s].pc \notin Locking
  BY <1>1, McpAssumption DEF McpInv
<1>6. \A s \in McpSessions : McpCallSound(mcpCalls[s], mcpScopes')
  BY <1>5 DEF McpInv, McpCallSound, Locking
<1> QED BY <1>1, <1>4, <1>5, <1>6 DEF McpInv

\* Every step of the plugin keeps the invariant.
LEMMA McpStep == McpInv /\ [P!Next]_P!vars => McpInv'
<1> SUFFICES ASSUME McpInv, [P!Next]_P!vars PROVE McpInv'
  OBVIOUS
<1>1. CASE UNCHANGED P!Scoped
  BY <1>1 DEF P!Scoped, McpInv, McpTypes, McpCallSound, P!NobodyStopsMyServer, P!Own
<1>2. UNCHANGED P!vars => UNCHANGED P!Scoped
  BY DEF P!vars, P!Scoped
<1>3. ASSUME \/ \E layer \in P!Layers, m \in Servers, entry \in Configs \cup {P!Absent, P!Off} :
                   P!Write(layer, m, entry)
             \/ P!ReloadBegins \/ P!ReloadConnected \/ P!ReloadRegisters
      PROVE  UNCHANGED P!Scoped
  BY <1>3 DEF P!Write, P!ReloadBegins, P!ReloadConnected, P!ReloadRegisters
<1>4. ASSUME NEW s \in McpSessions,
             \/ P!PrepareView(s) \/ P!Locks(s) \/ P!Scope(s) \/ P!Disposed(s) \/ P!Started(s)
             \/ P!Listed(s) \/ P!EntriesDone(s) \/ P!Cancel(s)
             \/ \E x \in P!Keys : P!Release(s, x)
             \/ \E m \in Servers : P!Entry(s, m) \/ P!Hides(s, m)
      PROVE  McpInv'
  BY <1>4, McpLocking, McpScope, McpDisposed, McpStarted, McpListed, McpCancel, McpRelease, McpEntry
<1> QED BY <1>1, <1>2, <1>3, <1>4, McpStop DEF P!Next

-----------------------------------------------------------------------------
(* The restrictions of the tools.                                          *)

Holds(q, x) == \E i \in DOMAIN q : q[i] = x
Distinct(q) == \A i, j \in DOMAIN q : q[i] = q[j] => i = j

\* What is added to a sequence, and what is taken from one without repetitions.
LEMMA ItemAdded ==
    ASSUME NEW A, NEW q \in Seq(A), Distinct(q), NEW x \in A, ~Holds(q, x)
    PROVE  /\ Append(q, x) \in Seq(A) /\ Distinct(Append(q, x))
           /\ \A y : Holds(Append(q, x), y) <=> Holds(q, y) \/ y = x
<1>1. Append(q, x) \in Seq(A) /\ Len(Append(q, x)) = Len(q) + 1 /\ Append(q, x)[Len(q) + 1] = x
      /\ \A i \in 1 .. Len(q) : Append(q, x)[i] = q[i]
  OBVIOUS
<1>2. DOMAIN q = 1 .. Len(q) /\ Len(q) \in Nat /\ DOMAIN Append(q, x) = 1 .. Len(q) + 1
  BY <1>1
<1>3. Distinct(Append(q, x))
  BY <1>1, <1>2 DEF Distinct, Holds
<1>4. ASSUME NEW y PROVE Holds(Append(q, x), y) <=> Holds(q, y) \/ y = x
  BY <1>1, <1>2 DEF Holds
<1> QED BY <1>1, <1>3, <1>4

LEMMA ItemRemoved ==
    ASSUME NEW A, NEW q \in Seq(A), Distinct(q), NEW i \in DOMAIN q
    PROVE  LET r == V!RemoveAt(q, i)
           IN  r \in Seq(A) /\ Distinct(r) /\ \A y : Holds(r, y) <=> Holds(q, y) /\ y # q[i]
<1> DEFINE r == V!RemoveAt(q, i)
           From(j) == IF j < i THEN j ELSE j + 1
<1>1. Len(q) \in Nat /\ i \in 1 .. Len(q) /\ DOMAIN q = 1 .. Len(q)
  OBVIOUS
<1>2. /\ SubSeq(q, 1, i - 1) \in Seq(A) /\ Len(SubSeq(q, 1, i - 1)) = i - 1
      /\ \A j \in 1 .. i - 1 : SubSeq(q, 1, i - 1)[j] = q[j]
  BY <1>1
<1>3a. /\ SubSeq(q, i + 1, Len(q)) \in Seq(A) /\ Len(SubSeq(q, i + 1, Len(q))) = Len(q) - i
      /\ \A j \in 1 .. Len(q) - i : SubSeq(q, i + 1, Len(q))[j] = q[i + j]
  BY <1>1
<1>3. r \in Seq(A) /\ Len(r) = Len(q) - 1 /\ \A j \in 1 .. Len(q) - 1 : r[j] = q[From(j)]
  <2> DEFINE u == SubSeq(q, 1, i - 1)
             v == SubSeq(q, i + 1, Len(q))
  <2> HIDE DEF u, v
  <2>1. u \in Seq(A) /\ v \in Seq(A) /\ Len(u) = i - 1 /\ Len(v) = Len(q) - i /\ r = u \o v
    BY <1>2, <1>3a DEF u, v, V!RemoveAt
  <2>2. u \o v \in Seq(A)
    BY <2>1
  <2>3. Len(u \o v) = Len(q) - 1
    <3>1. ASSUME NEW a \in Seq(A), NEW c \in Seq(A) PROVE Len(a \o c) = Len(a) + Len(c)
      OBVIOUS
    <3>2. Len(u \o v) = Len(u) + Len(v)
      BY <2>1, <3>1
    <3> QED BY <1>1, <2>1, <3>2
  <2>4. \A j \in 1 .. Len(q) - 1 : (u \o v)[j] = IF j < i THEN u[j] ELSE v[j - (i - 1)]
    BY <1>1, <2>1
  <2>5. ASSUME NEW j \in 1 .. Len(q) - 1 PROVE (u \o v)[j] = q[From(j)]
    <3>1. CASE j < i
      BY <1>1, <1>2, <2>4, <3>1 DEF u
    <3>2. CASE ~(j < i)
      <4>1. j - (i - 1) \in 1 .. Len(q) - i /\ i + (j - (i - 1)) = j + 1
        BY <1>1, <3>2
      <4>2. v[j - (i - 1)] = q[i + (j - (i - 1))]
        BY <1>3a, <4>1 DEF v
      <4> QED BY <2>4, <3>2, <4>1, <4>2
    <3> QED BY <3>1, <3>2
  <2> QED BY <2>1, <2>2, <2>3, <2>5
<1>4. DOMAIN r = 1 .. Len(q) - 1
  BY <1>1, <1>3
<1>5. /\ \A j \in DOMAIN r : From(j) \in DOMAIN q /\ From(j) # i
      /\ \A j, k \in DOMAIN r : From(j) = From(k) => j = k
      /\ \A m \in DOMAIN q : m # i => \E j \in DOMAIN r : From(j) = m
  <2>1. ASSUME NEW m \in DOMAIN q, m # i PROVE \E j \in DOMAIN r : From(j) = m
    <3>1. CASE m < i
      <4>1. m \in DOMAIN r /\ From(m) = m
        BY <1>1, <1>4, <3>1
      <4> QED BY <4>1
    <3>2. CASE m > i
      <4>1. m - 1 \in DOMAIN r /\ From(m - 1) = m
        BY <1>1, <1>4, <3>2
      <4> QED BY <4>1
    <3> QED BY <1>1, <2>1, <3>1, <3>2
  <2> QED BY <1>1, <1>4, <2>1
<1>6. \A j \in DOMAIN r : r[j] = q[From(j)]
  BY <1>3, <1>4
<1> HIDE DEF r, From
<1>7. Distinct(r)
  BY <1>5, <1>6 DEF Distinct
<1>8. ASSUME NEW y PROVE Holds(r, y) <=> Holds(q, y) /\ y # q[i]
  BY <1>5, <1>6 DEF Holds, Distinct
<1> QED BY <1>3, <1>7, <1>8 DEF r

\* A layer denies what it inherits up to the layer below it if it has a tool of
\* its own, and up to itself if it has none.
ToolOf(n, s) == [name |-> n, scope |-> s]
OverridesInv ==
    /\ toolItems \in Seq(V!Item) /\ Distinct(toolItems)
    /\ toolRestrictions \subseteq V!Restriction
    /\ \A r \in toolRestrictions :
          r.max = IF Holds(toolItems, ToolOf(r.name, r.layer)) THEN V!Below(r.layer) ELSE r.layer

LEMMA IsRegistered == ASSUME NEW n, NEW s PROVE V!Registered(n, s) <=> Holds(toolItems, ToolOf(n, s))
BY DEF V!Registered, V!At, Holds, ToolOf

LEMMA OverridesInit == V!Init => OverridesInv
BY DEF V!Init, OverridesInv, Distinct

\* The layer that found something to deny is the last word on its tool.
LEMMA OverridesSaid == OverridesInv => V!OverridesHold
<1> SUFFICES ASSUME OverridesInv, NEW n \in ToolNames, NEW s \in V!Layers,
                    NEW r \in toolRestrictions, r.layer = s, r.name = n,
                    s = "agent" => ~V!Touched(n, "session")
             PROVE  V!Visible(n) = IF V!Registered(n, s) THEN s ELSE "none"
  BY DEF V!OverridesHold
<1> DEFINE Names == DOMAIN V!Rank \ {"none"}
<1>1. Names = {"global", "agent", "session"} /\ V!Rank["global"] = 1 /\ V!Rank["agent"] = 2
      /\ V!Rank["session"] = 3 /\ s \in {"agent", "session"}
  BY DEF V!Rank, V!Layers
<1>2. \A i \in DOMAIN toolItems : toolItems[i] \in V!Item
  BY DEF OverridesInv
<1>3. \A i \in DOMAIN toolItems : toolItems[i].scope \in Names
      /\ (toolItems[i].name = n => toolItems[i] = ToolOf(n, toolItems[i].scope))
  BY <1>2 DEF V!Item, ToolOf
<1>4. \A q \in toolRestrictions : q.layer \in V!Layers /\ q.max \in Names
  BY DEF OverridesInv, V!Restriction
<1>5. s = "agent" => /\ ~V!Registered(n, "session")
                     /\ \A q \in toolRestrictions : q.name = n => q.layer = "agent"
  BY <1>4 DEF V!Touched, V!Layers
<1>6. ASSUME NEW i \in V!Candidates(n)
      PROVE  toolItems[i].scope = s /\ V!Registered(n, s) /\ i \in DOMAIN toolItems
  <2>1. i \in DOMAIN toolItems /\ toolItems[i].name = n /\ ~(V!Rank[toolItems[i].scope] <= V!Rank[r.max])
    BY <1>6 DEF V!Candidates, V!Hides
  <2>2. Holds(toolItems, ToolOf(n, toolItems[i].scope))
    BY <1>3, <2>1 DEF Holds
  <2>3. V!Registered(n, toolItems[i].scope)
    BY <2>2, IsRegistered
  <2>4. r.max = IF V!Registered(n, s) THEN V!Below(s) ELSE s
    BY IsRegistered DEF OverridesInv
  <2>5. toolItems[i].scope \in {"global", "agent", "session"}
    BY <1>1, <1>3, <2>1
  <2>6. CASE s = "session"
    BY <1>1, <2>1, <2>3, <2>4, <2>5, <2>6 DEF V!Below
  <2>7. CASE s = "agent"
    BY <1>1, <1>5, <2>1, <2>3, <2>4, <2>5, <2>7 DEF V!Below
  <2> QED BY <1>1, <2>1, <2>6, <2>7
<1>7. CASE ~V!Registered(n, s)
  BY <1>6, <1>7 DEF V!Visible
<1>8. CASE V!Registered(n, s)
  <2>1. PICK i \in DOMAIN toolItems : toolItems[i] = ToolOf(n, s)
    BY <1>8, IsRegistered DEF Holds
  <2>2. toolItems[i].name = n /\ toolItems[i].scope = s
    BY <2>1 DEF ToolOf
  <2>3. ASSUME NEW q \in toolRestrictions, q.name = n PROVE V!Rank[q.max] < V!Rank[s]
    <3>1. q.max = IF V!Registered(n, q.layer) THEN V!Below(q.layer) ELSE q.layer
      BY <2>3, IsRegistered DEF OverridesInv
    <3>2. q.layer \in {"agent", "session"}
      BY <1>4 DEF V!Layers
    <3> QED BY <1>1, <1>5, <1>8, <2>3, <3>1, <3>2 DEF V!Below
  <2>4. i \in V!Candidates(n)
    <3>1. ASSUME NEW q \in toolRestrictions, V!Hides(q, toolItems[i]) PROVE FALSE
      <4>1. q.name = n /\ V!Rank[s] <= V!Rank[q.max]
        BY <2>2, <3>1 DEF V!Hides
      <4>2. V!Rank[s] \in Nat /\ V!Rank[q.max] \in Nat
        BY <1>1, <1>4
      <4> QED BY <2>3, <4>1, <4>2
    <3> QED BY <2>2, <3>1 DEF V!Candidates
  <2>5. \A j \in V!Candidates(n) : j = i
    <3> SUFFICES ASSUME NEW j \in V!Candidates(n) PROVE j = i
      OBVIOUS
    <3>1. j \in DOMAIN toolItems /\ toolItems[j].scope = s /\ toolItems[j].name = n
      BY <1>6 DEF V!Candidates
    <3>2. toolItems[j] = toolItems[i]
      BY <1>3, <2>1, <3>1
    <3> QED BY <3>1, <3>2 DEF OverridesInv, Distinct
  <2>6. i <= i
    BY DEF OverridesInv
  <2>7. (CHOOSE c \in V!Candidates(n) : \A j \in V!Candidates(n) : j <= c) = i
    BY <2>4, <2>5, <2>6
  <2> QED BY <1>8, <2>2, <2>4, <2>7 DEF V!Visible
<1> QED BY <1>7, <1>8

\* Every step of the tools keeps the invariant.
LEMMA OverridesStep == OverridesInv /\ [V!Next]_V!vars => OverridesInv'
<1> SUFFICES ASSUME OverridesInv, [V!Next]_V!vars PROVE OverridesInv'
  OBVIOUS
<1> DEFINE Scopes == DOMAIN V!Rank \ {"none"}
<1>0. "global" \in Scopes /\ V!Layers \subseteq Scopes /\ "global" \notin V!Layers
      /\ \A s \in V!Layers : V!Below(s) \in Scopes
  BY DEF V!Rank, V!Layers, V!Below
<1> DEFINE Gains(n, s) == V!Registered(n, s) = FALSE /\ toolItems' = V!With(n, s)
           Loses(n, s) == toolItems' = V!Without(n, s)
<1>1. ASSUME NEW n \in ToolNames, NEW s \in Scopes, Gains(n, s)
      PROVE  /\ toolItems' \in Seq(V!Item) /\ Distinct(toolItems')
             /\ \A y : Holds(toolItems', y) <=> Holds(toolItems, y) \/ y = ToolOf(n, s)
  <2>1. ToolOf(n, s) \in V!Item /\ ~Holds(toolItems, ToolOf(n, s)) /\ toolItems' = Append(toolItems, ToolOf(n, s))
    BY <1>1, IsRegistered DEF V!Item, ToolOf, V!With
  <2> QED BY <2>1, ItemAdded DEF OverridesInv
<1>2. ASSUME NEW n \in ToolNames, NEW s \in Scopes, Loses(n, s)
      PROVE  /\ toolItems' \in Seq(V!Item) /\ Distinct(toolItems')
             /\ \A y : Holds(toolItems', y) <=> Holds(toolItems, y) /\ y # ToolOf(n, s)
  <2>1. CASE V!Registered(n, s)
    <3> DEFINE i == CHOOSE i \in V!At(n, s) : TRUE
    <3>1. i \in DOMAIN toolItems /\ toolItems[i] = ToolOf(n, s) /\ toolItems' = V!RemoveAt(toolItems, i)
      BY <1>2, <2>1 DEF V!Registered, V!At, V!Without, ToolOf
    <3> HIDE DEF i
    <3> QED BY <3>1, ItemRemoved DEF OverridesInv
  <2>2. CASE ~V!Registered(n, s)
    BY <1>2, <2>2, IsRegistered DEF OverridesInv, V!Without
  <2> QED BY <2>1, <2>2
<1>3. CASE UNCHANGED <<toolItems, toolRestrictions>>
  BY <1>3 DEF OverridesInv
<1>4. ASSUME NEW n \in ToolNames, V!Register(n) \/ V!Unregister(n) PROVE OverridesInv'
  <2>1. UNCHANGED toolRestrictions /\ (Gains(n, "global") \/ Loses(n, "global"))
    BY <1>4 DEF V!Register, V!Unregister
  <2>2. \A r \in toolRestrictions : r.layer # "global"
    BY <1>0 DEF OverridesInv, V!Restriction
  <2>3. \A r \in toolRestrictions :
           Holds(toolItems', ToolOf(r.name, r.layer)) <=> Holds(toolItems, ToolOf(r.name, r.layer))
    BY <1>0, <1>1, <1>2, <2>1, <2>2 DEF ToolOf
  <2>4. toolItems' \in Seq(V!Item) /\ Distinct(toolItems')
    BY <1>0, <1>1, <1>2, <2>1
  <2> QED BY <2>1, <2>3, <2>4 DEF OverridesInv
<1>5. ASSUME NEW n \in ToolNames, NEW s \in V!Layers, V!Override(n, s) PROVE OverridesInv'
  <2> DEFINE new == [layer |-> s, name |-> n, max |-> V!Below(s)]
  <2>1. Gains(n, s) /\ (\A r \in toolRestrictions : ~(r.layer = s /\ r.name = n))
        /\ toolRestrictions' \in {toolRestrictions, toolRestrictions \cup {new}}
    BY <1>5 DEF V!Override, V!Touched, V!Deny
  <2>2. new \in V!Restriction
    BY <1>0 DEF V!Restriction
  <2>3. /\ toolItems' \in Seq(V!Item) /\ Distinct(toolItems')
        /\ \A y : Holds(toolItems', y) <=> Holds(toolItems, y) \/ y = ToolOf(n, s)
    BY <1>0, <1>1, <2>1
  <2>4. \A r \in toolRestrictions :
           Holds(toolItems', ToolOf(r.name, r.layer)) <=> Holds(toolItems, ToolOf(r.name, r.layer))
    BY <2>1, <2>3 DEF ToolOf
  <2>5. Holds(toolItems', ToolOf(new.name, new.layer))
    BY <2>3
  <2> QED BY <2>1, <2>2, <2>3, <2>4, <2>5 DEF OverridesInv
<1>6. ASSUME NEW n \in ToolNames, NEW s \in V!Layers, V!Disable(n, s) PROVE OverridesInv'
  <2> DEFINE new == [layer |-> s, name |-> n, max |-> s]
  <2>1. UNCHANGED toolItems /\ ~Holds(toolItems, ToolOf(n, s))
        /\ toolRestrictions' \in {toolRestrictions, toolRestrictions \cup {new}}
    BY <1>6, IsRegistered DEF V!Disable, V!Touched, V!Deny
  <2>2. new \in V!Restriction
    BY <1>0 DEF V!Restriction
  <2> QED BY <2>1, <2>2 DEF OverridesInv
<1>7. ASSUME NEW n \in ToolNames, NEW s \in V!Layers, V!Lift(n, s) PROVE OverridesInv'
  <2>1. Loses(n, s) /\ toolRestrictions' = {r \in toolRestrictions : ~(r.layer = s /\ r.name = n)}
    BY <1>7 DEF V!Lift
  <2>2. /\ toolItems' \in Seq(V!Item) /\ Distinct(toolItems')
        /\ \A y : Holds(toolItems', y) <=> Holds(toolItems, y) /\ y # ToolOf(n, s)
    BY <1>0, <1>2, <2>1
  <2>3. \A r \in toolRestrictions' :
           Holds(toolItems', ToolOf(r.name, r.layer)) <=> Holds(toolItems, ToolOf(r.name, r.layer))
    BY <2>1, <2>2 DEF ToolOf
  <2> QED BY <2>1, <2>2, <2>3 DEF OverridesInv
<1>8. CASE \/ V!Prepare \/ V!Spawn \/ V!Enter \/ V!Before \/ V!Return \/ V!After
           \/ V!Cancel \/ V!Interrupt
  BY <1>3, <1>8 DEF V!Prepare, V!Spawn, V!Enter, V!Before, V!Return, V!After, V!Cancel, V!Interrupt
<1>9. CASE UNCHANGED V!vars
  BY <1>3, <1>9 DEF V!vars
<1> QED BY <1>4, <1>5, <1>6, <1>7, <1>8, <1>9 DEF V!Next

-----------------------------------------------------------------------------
(* Compaction: what the newest summary does not have is behind the last    *)
(* message it was made from.                                               *)

Message ==
    [role : {"user", "assistant"}, name : {"default", "compact", "compact_fast"},
     closed : BOOLEAN, result : {"none", "running", "done"}, through : Nat,
     covers : SUBSET Nat, trims : SUBSET Nat, tokens : {1} \cup SummaryTokens]

\* What of a history the argument looks at.
IsSummary(h, i) == i \in DOMAIN h /\ h[i].name = "compact"
IsAnchor(h, a) ==
    \/ a = 0 /\ \A i : ~IsSummary(h, i)
    \/ IsSummary(h, a) /\ \A i : IsSummary(h, i) => i <= a
InView(h, a, i) == a = 0 \/ i = a \/ h[a].through < i
HistorySound(h, a) ==
    /\ h \in Seq(Message) /\ a \in Nat /\ IsAnchor(h, a)
    /\ \A i : IsSummary(h, i) => h[i].through < i
    /\ \A i \in DOMAIN h : h[i].name = "default" =>
          \/ InView(h, a, i)
          \/ \E s \in DOMAIN h : InView(h, a, s) /\ i \in h[s].covers

\* What a compaction has read: up to the last message of its head, every
\* message is in the head, or in a summary it will take over.
TaskFields == {"pc", "previous", "head", "tokens", "work", "round", "cancelled"}
HeadSound(k, h) ==
    /\ k.head \in Seq(DOMAIN h) /\ k.head # <<>> /\ k.previous \in SUBSET Nat
    /\ \A i \in 1 .. k.head[Len(k.head)] : h[i].name = "default" =>
          \/ i \in k.previous
          \/ \E n \in DOMAIN k.head : i = k.head[n] \/ i \in h[k.head[n]].covers
TaskReading(k, h) ==
    /\ DOMAIN k = TaskFields
    /\ k.pc \in {"asking", "storing", "falling_back"} => HeadSound(k, h)

CompactionInv ==
    /\ \E a : HistorySound(derived, a)
    /\ TaskReading(compactTask, derived)

\* Two histories that differ in no more than what the argument does not look at.
Alike(h, g) ==
    \A i \in DOMAIN h : /\ g[i].name = h[i].name /\ g[i].through = h[i].through
                        /\ g[i].covers = h[i].covers

LEMMA HistoryDomain ==
    ASSUME NEW h \in Seq(Message)
    PROVE  DOMAIN h = 1 .. Len(h) /\ Len(h) \in Nat /\ \A i \in 1 .. Len(h) : h[i] \in Message
OBVIOUS

LEMMA HistoryRewritten ==
    ASSUME NEW h, NEW g \in Seq(Message), NEW a, HistorySound(h, a), Len(g) = Len(h), Alike(h, g)
    PROVE  HistorySound(g, a)
<1>1. DOMAIN h = DOMAIN g /\ h \in Seq(Message)
  BY HistoryDomain DEF HistorySound
<1>2. \A i : IsSummary(g, i) <=> IsSummary(h, i)
  BY <1>1 DEF IsSummary, Alike
<1>3. IsAnchor(g, a)
  BY <1>2 DEF HistorySound, IsAnchor
<1>4. \A i \in DOMAIN h : InView(g, a, i) <=> InView(h, a, i)
  <2>1. a = 0 \/ a \in DOMAIN h
    BY DEF HistorySound, IsAnchor, IsSummary
  <2> QED BY <2>1 DEF InView, Alike
<1>5. \A i : IsSummary(g, i) => g[i].through < i
  BY <1>1, <1>2 DEF HistorySound, Alike, IsSummary
<1>6. \A i \in DOMAIN g : g[i].name = "default" =>
          \/ InView(g, a, i)
          \/ \E s \in DOMAIN g : InView(g, a, s) /\ i \in g[s].covers
  BY <1>1, <1>4 DEF HistorySound, Alike
<1> QED BY <1>3, <1>5, <1>6 DEF HistorySound

\* What is appended is in the view.
LEMMA HistoryAppended ==
    ASSUME NEW h, NEW a, HistorySound(h, a), NEW m \in Message, m.name # "compact"
    PROVE  HistorySound(Append(h, m), a)
<1> DEFINE g == Append(h, m)
           n == Len(h) + 1
<1>1. h \in Seq(Message) /\ DOMAIN h = 1 .. Len(h) /\ Len(h) \in Nat
  BY HistoryDomain DEF HistorySound
<1>2. /\ g \in Seq(Message) /\ DOMAIN g = 1 .. n /\ g[n] = m
      /\ \A i \in DOMAIN h : g[i] = h[i]
  BY <1>1
<1> HIDE DEF g
<1>3. \A i : IsSummary(g, i) <=> IsSummary(h, i)
  BY <1>1, <1>2 DEF IsSummary
<1>4. IsAnchor(g, a)
  BY <1>3 DEF HistorySound, IsAnchor
<1>5. a = 0 \/ (a \in DOMAIN h /\ g[a] = h[a] /\ h[a].through < a)
  BY <1>2 DEF HistorySound, IsAnchor, IsSummary
<1>6. \A i : InView(g, a, i) <=> InView(h, a, i)
  BY <1>5 DEF InView
<1>7. InView(g, a, n)
  <2>1. a # 0 => h[a].through \in Nat /\ a \in Nat /\ a < n
    <3>1. \A i \in DOMAIN h : h[i] \in Message
      BY <1>1
    <3> QED BY <1>1, <1>5, <3>1 DEF Message
  <2> QED BY <1>1, <1>5, <2>1 DEF InView
<1>8. \A i : IsSummary(g, i) => g[i].through < i
  BY <1>2, <1>3 DEF HistorySound, IsSummary
<1>9. \A i \in DOMAIN g : g[i].name = "default" =>
          \/ InView(g, a, i)
          \/ \E s \in DOMAIN g : InView(g, a, s) /\ i \in g[s].covers
  <2> SUFFICES ASSUME NEW i \in DOMAIN h, g[i].name = "default", ~InView(g, a, i)
               PROVE  \E s \in DOMAIN g : InView(g, a, s) /\ i \in g[s].covers
    BY <1>1, <1>2, <1>7
  <2>1. PICK s \in DOMAIN h : InView(h, a, s) /\ i \in h[s].covers
    BY <1>2, <1>6 DEF HistorySound
  <2> QED BY <1>1, <1>2, <1>6, <2>1
<1>10. a \in Nat
  BY DEF HistorySound
<1>11. HistorySound(g, a)
  BY <1>2, <1>4, <1>8, <1>9, <1>10 DEF HistorySound
<1> QED BY <1>11 DEF g

\* A summary that has every message up to the one it goes through.
LEMMA HistorySummarised ==
    ASSUME NEW h, NEW a, HistorySound(h, a), NEW m \in Message, m.name = "compact",
           m.through \in DOMAIN h,
           \A i \in 1 .. m.through : h[i].name = "default" => i \in m.covers
    PROVE  HistorySound(Append(h, m), Len(h) + 1)
<1> DEFINE g == Append(h, m)
           n == Len(h) + 1
<1>1. h \in Seq(Message) /\ DOMAIN h = 1 .. Len(h) /\ Len(h) \in Nat
  BY HistoryDomain DEF HistorySound
<1>2. /\ g \in Seq(Message) /\ DOMAIN g = 1 .. n /\ g[n] = m
      /\ \A i \in DOMAIN h : g[i] = h[i]
  BY <1>1
<1> HIDE DEF g
<1>3. IsSummary(g, n) /\ \A i : IsSummary(g, i) => i <= n /\ (i = n \/ IsSummary(h, i))
  BY <1>1, <1>2 DEF IsSummary
<1>4. IsAnchor(g, n)
  BY <1>3 DEF IsAnchor
<1>5. \A i : IsSummary(g, i) => g[i].through < i
  <2>1. m.through < n
    BY <1>1
  <2> QED BY <1>2, <1>3, <2>1 DEF HistorySound, IsSummary
<1>6. \A i \in DOMAIN g : g[i].name = "default" =>
          \/ InView(g, n, i)
          \/ \E s \in DOMAIN g : InView(g, n, s) /\ i \in g[s].covers
  <2> SUFFICES ASSUME NEW i \in DOMAIN g, g[i].name = "default", ~InView(g, n, i)
               PROVE  InView(g, n, n) /\ n \in DOMAIN g /\ i \in g[n].covers
    OBVIOUS
  <2>1. i # n /\ ~(m.through < i)
    BY <1>2 DEF InView
  <2>2. i \in DOMAIN h /\ i \in 1 .. m.through
    BY <1>1, <1>2, <2>1
  <2> QED BY <1>1, <1>2, <2>2 DEF InView
<1>7. HistorySound(g, n)
  BY <1>1, <1>2, <1>4, <1>5, <1>6 DEF HistorySound
<1> QED BY <1>7 DEF g

\* A history that has grown is as good to a compaction that has read it.
Grown(h, g) ==
    /\ Len(h) <= Len(g)
    /\ \A i \in DOMAIN h : g[i].name = h[i].name /\ g[i].covers = h[i].covers

LEMMA ReadStays ==
    ASSUME NEW h \in Seq(Message), NEW g \in Seq(Message), Grown(h, g), NEW k, TaskReading(k, h)
    PROVE  TaskReading(k, g)
<1>1. DOMAIN h = 1 .. Len(h) /\ Len(h) \in Nat /\ DOMAIN g = 1 .. Len(g) /\ Len(g) \in Nat
  OBVIOUS
<1>2. DOMAIN h \subseteq DOMAIN g
  BY <1>1 DEF Grown
<1>3. ASSUME HeadSound(k, h) PROVE HeadSound(k, g)
  <2>1. k.head \in Seq(DOMAIN h) /\ k.head # <<>>
    BY <1>3 DEF HeadSound
  <2>2. Len(k.head) \in DOMAIN k.head /\ \A n \in DOMAIN k.head : k.head[n] \in DOMAIN h
    BY <2>1
  <2>3. k.head \in Seq(DOMAIN g)
    BY <1>2, <2>1
  <2>4. 1 .. k.head[Len(k.head)] \subseteq DOMAIN h
    BY <1>1, <2>2
  <2>5. \A i \in 1 .. k.head[Len(k.head)] : g[i].name = "default" =>
          \/ i \in k.previous
          \/ \E n \in DOMAIN k.head : i = k.head[n] \/ i \in g[k.head[n]].covers
    BY <1>3, <2>2, <2>4 DEF HeadSound, Grown
  <2> QED BY <1>3, <2>3, <2>5 DEF HeadSound
<1> QED BY <1>3 DEF TaskReading

-----------------------------------------------------------------------------
\* The view.

LEMMA BothInOrder ==
    ASSUME NEW S, NEW p \in Seq(S), NEW q \in Seq(S)
    PROVE  /\ p \o q \in Seq(S) /\ Len(p \o q) = Len(p) + Len(q)
           /\ \A i \in 1 .. Len(p) : (p \o q)[i] = p[i]
           /\ \A i \in 1 .. Len(q) : (p \o q)[Len(p) + i] = q[i]
OBVIOUS

LEMMA ThreeInOrder ==
    ASSUME NEW S, NEW o \in Seq(S), NEW p \in Seq(S), NEW q \in Seq(S)
    PROVE  /\ o \o p \o q \in Seq(S) /\ Len(o \o p \o q) = Len(o) + Len(p) + Len(q)
           /\ \A i \in 1 .. Len(o) : (o \o p \o q)[i] = o[i]
           /\ \A i \in 1 .. Len(p) : (o \o p \o q)[Len(o) + i] = p[i]
           /\ \A i \in 1 .. Len(q) : (o \o p \o q)[Len(o) + Len(p) + i] = q[i]
<1>1. PICK front : front = o \o p
  OBVIOUS
<1>2. PICK all : all = front \o q
  OBVIOUS
<1>3. /\ front \in Seq(S) /\ Len(front) = Len(o) + Len(p)
      /\ \A i \in 1 .. Len(o) : front[i] = o[i]
      /\ \A i \in 1 .. Len(p) : front[Len(o) + i] = p[i]
  BY <1>1
<1>4. /\ all \in Seq(S) /\ Len(all) = Len(front) + Len(q)
      /\ \A i \in 1 .. Len(front) : all[i] = front[i]
      /\ \A i \in 1 .. Len(q) : all[Len(front) + i] = q[i]
  <2>1. front \in Seq(S)
    BY <1>3
  <2> QED BY <1>2, <2>1
<1>5. /\ \A i \in 1 .. Len(o) : i \in 1 .. Len(front)
      /\ \A i \in 1 .. Len(p) : Len(o) + i \in 1 .. Len(front)
  BY <1>3
<1>6. o \o p \o q = all
  BY <1>1, <1>2
<1> QED BY <1>3, <1>4, <1>5, <1>6

LEMMA AnchorIs == ASSUME NEW a, HistorySound(derived, a) PROVE C!Anchor = a
<1> DEFINE summaries == {i \in DOMAIN derived : derived[i].name = "compact"}
<1>1. \A i : i \in summaries <=> IsSummary(derived, i)
  BY DEF IsSummary
<1>2. \A i \in summaries : i \in Nat
  BY HistoryDomain DEF HistorySound
<1>3. CASE a = 0 /\ summaries = {}
  BY <1>3 DEF C!Anchor
<1>4. CASE a \in summaries /\ \A i \in summaries : i <= a
  <2>1. \A i \in summaries : (\A j \in summaries : j <= i) => i = a
    BY <1>2, <1>4
  <2>2. C!Anchor = CHOOSE i \in summaries : \A j \in summaries : j <= i
    BY <1>4 DEF C!Anchor
  <2> QED BY <1>4, <2>1, <2>2
<1> QED BY <1>1, <1>3, <1>4 DEF HistorySound, IsAnchor

LEMMA ViewIs ==
    ASSUME NEW a, HistorySound(derived, a)
    PROVE  /\ C!View \in Seq(DOMAIN derived)
           /\ a = 0 => C!View = [i \in DOMAIN derived |-> i]
           /\ a # 0 => C!View # <<>> /\ C!View[1] = a
           /\ \A i \in DOMAIN derived : InView(derived, a, i) => i \in C!ToSet(C!View)
<1> DEFINE n == Len(derived)
           t == derived[a].through
           all == [i \in DOMAIN derived |-> i]
<1>1. derived \in Seq(Message) /\ DOMAIN derived = 1 .. n /\ n \in Nat /\ C!Anchor = a
  BY AnchorIs, HistoryDomain DEF HistorySound
<1>2. all \in Seq(DOMAIN derived) /\ Len(all) = n /\ \A i \in 1 .. n : all[i] = i
  BY <1>1
<1>3. CASE a = 0
  <2>1. C!View = all
    BY <1>1, <1>3 DEF C!View
  <2> QED BY <1>1, <1>2, <1>3, <2>1 DEF C!ToSet
<1>4. CASE a # 0
  <2> DEFINE before == SubSeq(all, t + 1, a - 1)
             after == SubSeq(all, a + 1, n)
             one == <<a>>
  <2>1. a \in 1 .. n /\ t \in Nat /\ t < a
    <3>1. a \in DOMAIN derived /\ derived[a].through < a /\ derived[a] \in Message
      BY <1>1, <1>4 DEF HistorySound, IsAnchor, IsSummary
    <3> QED BY <1>1, <3>1 DEF Message
  <2>2. C!View = one \o before \o after
    BY <1>1, <1>4 DEF C!View
  <2> HIDE DEF n, t, all
  <2>3. /\ before \in Seq(DOMAIN derived) /\ Len(before) = a - 1 - t
        /\ \A i \in 1 .. a - 1 - t : before[i] = t + i
    BY <1>1, <1>2, <2>1
  <2>4. /\ after \in Seq(DOMAIN derived) /\ Len(after) = n - a
        /\ \A i \in 1 .. n - a : after[i] = a + i
    BY <1>1, <1>2, <2>1
  <2>5. Len(one) = 1 /\ one[1] = a
    OBVIOUS
  <2>11. one \in Seq(DOMAIN derived) /\ before \in Seq(DOMAIN derived) /\ after \in Seq(DOMAIN derived)
    BY <1>1, <2>1, <2>3, <2>4
  <2> HIDE DEF before, after, one
  <2> DEFINE view == one \o before \o after
  <2>6. /\ view \in Seq(DOMAIN derived) /\ Len(view) = 1 + (a - 1 - t) + (n - a) /\ view[1] = a
        /\ \A i \in 1 .. a - 1 - t : view[1 + i] = t + i
        /\ \A i \in 1 .. n - a : view[1 + (a - 1 - t) + i] = a + i
    <3>1. /\ view \in Seq(DOMAIN derived) /\ Len(view) = Len(one) + Len(before) + Len(after)
          /\ \A i \in 1 .. Len(one) : view[i] = one[i]
          /\ \A i \in 1 .. Len(before) : view[Len(one) + i] = before[i]
          /\ \A i \in 1 .. Len(after) : view[Len(one) + Len(before) + i] = after[i]
      BY <2>11, ThreeInOrder
    <3> HIDE DEF view
    <3> QED BY <2>3, <2>4, <2>5, <3>1
  <2>7. DOMAIN view = 1 .. 1 + (a - 1 - t) + (n - a)
    BY <2>6
  <2> HIDE DEF view
  <2>8. ASSUME NEW i \in DOMAIN derived, InView(derived, a, i) PROVE \E j \in DOMAIN view : view[j] = i
    <3>1. i \in 1 .. n /\ (i = a \/ t < i)
      BY <1>1, <1>4, <2>8 DEF InView, t
    <3>2. CASE i = a
      BY <1>1, <2>1, <2>6, <2>7, <3>2
    <3>3. CASE t < i /\ i < a
      <4>1. i - t \in 1 .. a - 1 - t /\ t + (i - t) = i /\ 1 + (i - t) \in DOMAIN view
        BY <1>1, <2>1, <2>7, <3>1, <3>3
      <4> QED BY <2>6, <4>1
    <3>4. CASE a < i
      <4>1. i - a \in 1 .. n - a /\ a + (i - a) = i /\ 1 + (a - 1 - t) + (i - a) \in DOMAIN view
        BY <1>1, <2>1, <2>7, <3>1, <3>4
      <4> QED BY <2>6, <4>1
    <3> QED BY <1>1, <2>1, <3>1, <3>2, <3>3, <3>4
  <2>9. C!View = view
    BY <2>2 DEF view
  <2>10. view # <<>>
    BY <1>1, <2>1, <2>7
  <2> QED BY <1>4, <2>6, <2>8, <2>9, <2>10 DEF C!ToSet
<1> QED BY <1>3, <1>4

LEMMA CompactionHolds == CompactionInv => C!NothingFallsOut
<1> SUFFICES ASSUME CompactionInv PROVE C!NothingFallsOut
  OBVIOUS
<1>1. PICK a : HistorySound(derived, a)
  BY DEF CompactionInv
<1>2. \A i \in DOMAIN derived : InView(derived, a, i) => i \in C!ToSet(C!View)
  BY <1>1, ViewIs
<1> QED BY <1>1, <1>2 DEF HistorySound, C!NothingFallsOut

\* What a compaction reads has every message that is not in the summary it
\* takes over, or in one that is in it.
LEMMA HeadIsRead ==
    ASSUME NEW a, HistorySound(derived, a), C!Unsummarised # <<>>,
           NEW k, k.head = C!Unsummarised,
           k.previous = IF C!HasSummary THEN derived[C!View[1]].covers ELSE {}
    PROVE  HeadSound(k, derived)
<1> DEFINE u == C!Unsummarised
           view == C!View
<1>1. derived \in Seq(Message) /\ DOMAIN derived = 1 .. Len(derived) /\ Len(derived) \in Nat
  BY HistoryDomain DEF HistorySound
<1>2. view \in Seq(DOMAIN derived) /\ \A i \in DOMAIN derived : InView(derived, a, i) => i \in C!ToSet(view)
  BY ViewIs
<1>3. /\ u \in Seq(DOMAIN derived)
      /\ \A i \in DOMAIN derived : InView(derived, a, i) => i = a \/ \E n \in DOMAIN u : u[n] = i
      /\ a # 0 => k.previous = derived[a].covers /\ a \in DOMAIN derived /\ derived[a].name = "compact"
      /\ a = 0 => k.previous = {} /\ \A i \in DOMAIN derived : i # a
  <2>1. CASE a = 0
    <3>1. view = [i \in DOMAIN derived |-> i]
      BY <2>1, ViewIs
    <3>2. ~C!HasSummary
      <4> SUFFICES ASSUME view # <<>>, derived[view[1]].name = "compact" PROVE FALSE
        BY DEF C!HasSummary
      <4>1. 1 \in DOMAIN derived /\ view[1] = 1
        BY <1>1, <3>1
      <4> QED BY <2>1, <4>1 DEF HistorySound, IsAnchor, IsSummary
    <3>3. u = view
      BY <3>2 DEF C!Unsummarised
    <3>4. \A i \in DOMAIN derived : i # 0
      BY <1>1
    <3> QED BY <1>2, <2>1, <3>2, <3>3, <3>4 DEF C!ToSet
  <2>2. CASE a # 0
    <3>1. view # <<>> /\ view[1] = a
      BY <2>2, ViewIs
    <3>2. a \in DOMAIN derived /\ derived[a].name = "compact"
      BY <2>2 DEF HistorySound, IsAnchor, IsSummary
    <3>3. C!HasSummary
      BY <3>1, <3>2 DEF C!HasSummary
    <3>4. u = Tail(view)
      BY <3>3 DEF C!Unsummarised
    <3> HIDE DEF u, view
    <3>5. /\ u \in Seq(DOMAIN derived) /\ Len(u) = Len(view) - 1 /\ \A n \in 1 .. Len(u) : u[n] = view[n + 1]
      BY <1>2, <3>1, <3>4
    <3>6. ASSUME NEW n \in DOMAIN view, n # 1 PROVE \E m \in DOMAIN u : u[m] = view[n]
      <4>1. n - 1 \in 1 .. Len(u) /\ (n - 1) + 1 = n
        BY <1>2, <3>5, <3>6
      <4>2. u[n - 1] = view[n]
        BY <3>5, <4>1
      <4>3. DOMAIN u = 1 .. Len(u)
        BY <3>5
      <4> QED BY <4>1, <4>2, <4>3
    <3>7. k.previous = derived[a].covers
      BY <3>1, <3>3 DEF view
    <3> QED BY <1>2, <2>2, <3>1, <3>2, <3>5, <3>6, <3>7 DEF C!ToSet
  <2> QED BY <2>1, <2>2
<1>4. u # <<>>
  OBVIOUS
<1> HIDE DEF u
<1>5. Len(u) \in DOMAIN u /\ DOMAIN u = 1 .. Len(u) /\ \A n \in DOMAIN u : u[n] \in DOMAIN derived
  BY <1>3, <1>4
<1>6. ASSUME NEW i \in 1 .. u[Len(u)], derived[i].name = "default"
      PROVE  i \in k.previous \/ \E n \in DOMAIN u : i = u[n] \/ i \in derived[u[n]].covers
  <2>1. i \in DOMAIN derived
    BY <1>1, <1>5
  <2>2. InView(derived, a, i) \/ \E s \in DOMAIN derived : InView(derived, a, s) /\ i \in derived[s].covers
    BY <1>6, <2>1 DEF HistorySound
  <2>3. CASE InView(derived, a, i)
    <3>1. i # a
      BY <1>3, <1>6, <2>1
    <3> QED BY <1>3, <2>1, <2>3, <3>1
  <2>4. ASSUME NEW s \in DOMAIN derived, InView(derived, a, s), i \in derived[s].covers
        PROVE  i \in k.previous \/ \E n \in DOMAIN u : i = u[n] \/ i \in derived[u[n]].covers
    BY <1>3, <2>4
  <2> QED BY <2>2, <2>3, <2>4
<1>7. k.head = u
  BY DEF u
<1>8. k.previous \in SUBSET Nat
  <2>1. a # 0 => derived[a] \in Message
    BY <1>1, <1>3
  <2> QED BY <1>3, <2>1 DEF Message
<1> QED BY <1>3, <1>4, <1>5, <1>6, <1>7, <1>8 DEF HeadSound

LEMMA TrimsAreMessages ==
    ASSUME NEW a, HistorySound(derived, a), NEW keep
    PROVE  C!Trimmable(keep) \in SUBSET Nat
<1>1. C!View \in Seq(DOMAIN derived) /\ (C!HasSummary => C!View # <<>>)
  BY ViewIs DEF C!HasSummary
<1>2. DOMAIN derived \in SUBSET Nat
  BY HistoryDomain DEF HistorySound
<1>3. C!Unsummarised \in Seq(DOMAIN derived)
  <2>1. CASE C!HasSummary
    <3>1. C!Unsummarised = Tail(C!View) /\ C!View # <<>>
      BY <1>1, <2>1 DEF C!Unsummarised
    <3> QED BY <1>1, <3>1
  <2>2. CASE ~C!HasSummary
    BY <1>1, <2>2 DEF C!Unsummarised
  <2> QED BY <2>1, <2>2
<1>4. \A i \in DOMAIN C!Unsummarised : C!Unsummarised[i] \in Nat
  BY <1>2, <1>3
<1> QED BY <1>4 DEF C!Trimmable

-----------------------------------------------------------------------------
\* The steps.

LEMMA CompactionInit == C!Init => CompactionInv
<1> SUFFICES ASSUME C!Init PROVE CompactionInv
  OBVIOUS
<1>1. HistorySound(derived, 0)
  BY DEF C!Init, HistorySound, IsAnchor, IsSummary, InView
<1>2. TaskReading(compactTask, derived)
  BY DEF C!Init, C!NoTask, TaskReading, TaskFields
<1> QED BY <1>1, <1>2 DEF CompactionInv

\* What happens to an answer after it has begun.
LEMMA ClosedIsAlike ==
    ASSUME NEW h \in Seq(Message), NEW n, NEW v \in BOOLEAN, NEW g,
           g = [h EXCEPT ![n].closed = v]
    PROVE  g \in Seq(Message) /\ Len(g) = Len(h) /\ Alike(h, g)
<1>1. \A i \in DOMAIN h : h[i] \in Message
  OBVIOUS
<1>2. DOMAIN g = DOMAIN h /\ DOMAIN h = 1 .. Len(h) /\ Len(h) \in Nat
  OBVIOUS
<1>3. \A i \in DOMAIN h : g[i] = IF i = n THEN [h[i] EXCEPT !.closed = v] ELSE h[i]
  OBVIOUS
<1>4. \A r \in Message :
         /\ [r EXCEPT !.closed = v] \in Message
         /\ [r EXCEPT !.closed = v].name = r.name
         /\ [r EXCEPT !.closed = v].through = r.through
         /\ [r EXCEPT !.closed = v].covers = r.covers
  BY DEF Message
<1>5. \A i \in DOMAIN h : /\ g[i] \in Message /\ g[i].name = h[i].name
                          /\ g[i].through = h[i].through /\ g[i].covers = h[i].covers
  BY <1>1, <1>3, <1>4
<1>6. g = [i \in 1 .. Len(h) |-> g[i]]
  BY <1>2
<1>7. g \in [1 .. Len(h) -> Message]
  BY <1>2, <1>5, <1>6
<1> QED BY <1>2, <1>5, <1>7 DEF Alike

LEMMA ResultIsAlike ==
    ASSUME NEW h \in Seq(Message), NEW n, NEW v \in {"none", "running", "done"}, NEW g,
           g = [h EXCEPT ![n].result = v]
    PROVE  g \in Seq(Message) /\ Len(g) = Len(h) /\ Alike(h, g)
<1>1. \A i \in DOMAIN h : h[i] \in Message
  OBVIOUS
<1>2. DOMAIN g = DOMAIN h /\ DOMAIN h = 1 .. Len(h) /\ Len(h) \in Nat
  OBVIOUS
<1>3. \A i \in DOMAIN h : g[i] = IF i = n THEN [h[i] EXCEPT !.result = v] ELSE h[i]
  OBVIOUS
<1>4. \A r \in Message :
         /\ [r EXCEPT !.result = v] \in Message
         /\ [r EXCEPT !.result = v].name = r.name
         /\ [r EXCEPT !.result = v].through = r.through
         /\ [r EXCEPT !.result = v].covers = r.covers
  BY DEF Message
<1>5. \A i \in DOMAIN h : /\ g[i] \in Message /\ g[i].name = h[i].name
                          /\ g[i].through = h[i].through /\ g[i].covers = h[i].covers
  BY <1>1, <1>3, <1>4
<1>6. g = [i \in 1 .. Len(h) |-> g[i]]
  BY <1>2
<1>7. g \in [1 .. Len(h) -> Message]
  BY <1>2, <1>5, <1>6
<1> QED BY <1>2, <1>5, <1>7 DEF Alike

LEMMA SealedIsAlike ==
    ASSUME NEW a, HistorySound(derived, a)
    PROVE  /\ C!Sealed \in Seq(Message) /\ Len(C!Sealed) = Len(derived) /\ Alike(derived, C!Sealed)
           /\ HistorySound(C!Sealed, a)
<1>1. derived \in Seq(Message)
  BY DEF HistorySound
<1>2. C!Sealed \in Seq(Message) /\ Len(C!Sealed) = Len(derived) /\ Alike(derived, C!Sealed)
  <2> DEFINE n == Len(derived)
  <2>1. CASE C!Sealed = derived
    BY <1>1, <2>1 DEF Alike
  <2>2. CASE C!Sealed = [derived EXCEPT ![n].closed = TRUE]
    <3>1. PICK g : g = C!Sealed
      OBVIOUS
    <3>2. g = [derived EXCEPT ![n].closed = TRUE]
      BY <2>2, <3>1
    <3>3. g \in Seq(Message) /\ Len(g) = Len(derived) /\ Alike(derived, g)
      <4> HIDE DEF n
      <4> QED BY <1>1, <3>2, ClosedIsAlike
    <3> QED BY <3>1, <3>3
  <2> QED BY <2>1, <2>2 DEF C!Sealed
<1> QED BY <1>2, HistoryRewritten

\* A message that is no summary is logged, behind an answer that it may seal.
LEMMA MessageLogged ==
    ASSUME NEW a, HistorySound(derived, a), NEW m \in Message, m.name # "compact",
           derived' = Append(derived, m) \/ derived' = Append(C!Sealed, m)
    PROVE  HistorySound(derived', a) /\ Grown(derived, derived')
<1>1. derived \in Seq(Message) /\ DOMAIN derived = 1 .. Len(derived) /\ Len(derived) \in Nat
  BY HistoryDomain DEF HistorySound
<1>2. ASSUME NEW g \in Seq(Message), Len(g) = Len(derived), Alike(derived, g), HistorySound(g, a),
             derived' = Append(g, m)
      PROVE  HistorySound(derived', a) /\ Grown(derived, derived')
  <2>1. HistorySound(derived', a)
    BY <1>2, HistoryAppended
  <2>2. Len(derived') = Len(g) + 1 /\ \A i \in 1 .. Len(g) : derived'[i] = g[i]
    BY <1>2
  <2> QED BY <1>1, <1>2, <2>1, <2>2 DEF Grown, Alike
<1>3. Alike(derived, derived)
  BY DEF Alike
<1> QED BY <1>1, <1>2, <1>3, SealedIsAlike

LEMMA SummaryIs ==
    ASSUME NEW covers, NEW through, NEW tokens, NEW m, m = C!SummaryMessage(covers, through, tokens)
    PROVE  m = [role |-> "user", name |-> "compact", closed |-> TRUE, result |-> "none",
                through |-> through, covers |-> covers, trims |-> {}, tokens |-> tokens]
BY DEF C!SummaryMessage, C!NewMessage

LEMMA MarkerIs ==
    ASSUME NEW ids \in SUBSET Nat
    PROVE  C!FastMarker(ids) \in Message /\ C!FastMarker(ids).name # "compact"
<1>1. PICK m : m = C!FastMarker(ids)
  OBVIOUS
<1>2. m = [role |-> "assistant", name |-> "compact_fast", closed |-> TRUE, result |-> "none",
           through |-> 0, covers |-> {}, trims |-> ids, tokens |-> 1]
  BY <1>1 DEF C!FastMarker, C!NewMessage
<1>3. m \in Message /\ m.name # "compact"
  BY <1>2 DEF Message
<1> QED BY <1>1, <1>3

\* The summary of what has been read.
LEMMA SummaryLogged ==
    ASSUME NEW a, HistorySound(derived, a), HeadSound(compactTask, derived),
           NEW tokens \in SummaryTokens, C!Summarised(tokens)
    PROVE  \E b : HistorySound(derived', b)
<1> DEFINE g == C!Sealed
           m == C!SummaryMessage(C!Covered, C!Last(compactTask.head), tokens)
           head == compactTask.head
<1>1. derived \in Seq(Message) /\ DOMAIN derived = 1 .. Len(derived) /\ Len(derived) \in Nat
  BY HistoryDomain DEF HistorySound
<1>2. g \in Seq(Message) /\ Len(g) = Len(derived) /\ Alike(derived, g) /\ HistorySound(g, a)
  BY SealedIsAlike
<1>3. derived' = Append(g, m)
  BY DEF C!Summarised, C!Log
<1>4. head \in Seq(DOMAIN derived) /\ head # <<>> /\ compactTask.previous \in SUBSET Nat
  BY DEF HeadSound
<1>5. Len(head) \in DOMAIN head /\ \A n \in DOMAIN head : head[n] \in DOMAIN derived
  BY <1>4
<1>6. C!Covered = compactTask.previous \cup {head[n] : n \in DOMAIN head}
                     \cup UNION {derived[i].covers : i \in {head[n] : n \in DOMAIN head}}
  BY DEF C!Covered, C!ToSet
<1>7. C!Covered \in SUBSET Nat
  <2>1. \A i \in DOMAIN derived : derived[i] \in Message /\ i \in Nat
    BY <1>1
  <2>2. \A i \in DOMAIN derived : derived[i].covers \in SUBSET Nat
    BY <2>1 DEF Message
  <2>3. \A i \in {head[n] : n \in DOMAIN head} : derived[i].covers \in SUBSET Nat /\ i \in Nat
    BY <1>5, <2>1, <2>2
  <2> QED BY <1>4, <1>6, <2>3
<1>8. /\ m \in Message /\ m.name = "compact" /\ m.through = head[Len(head)] /\ m.covers = C!Covered
  <2>1. C!Last(head) = head[Len(head)] /\ head[Len(head)] \in Nat
    BY <1>1, <1>5 DEF C!Last
  <2>2. m = [role |-> "user", name |-> "compact", closed |-> TRUE, result |-> "none",
             through |-> head[Len(head)], covers |-> C!Covered, trims |-> {}, tokens |-> tokens]
    <3>1. PICK l : l = m
      OBVIOUS
    <3>2. PICK t : t = C!Last(head)
      OBVIOUS
    <3>3. l = C!SummaryMessage(C!Covered, t, tokens)
      BY <3>1, <3>2
    <3>4. l = [role |-> "user", name |-> "compact", closed |-> TRUE, result |-> "none",
               through |-> t, covers |-> C!Covered, trims |-> {}, tokens |-> tokens]
      BY <3>3, SummaryIs
    <3> QED BY <2>1, <3>1, <3>2, <3>4
  <2> HIDE DEF m
  <2> QED BY <1>7, <2>1, <2>2 DEF Message
<1>9. \A i \in 1 .. m.through : g[i].name = "default" => i \in m.covers
  <2> SUFFICES ASSUME NEW i \in 1 .. head[Len(head)], g[i].name = "default" PROVE i \in C!Covered
    BY <1>8
  <2>1. i \in DOMAIN derived
    BY <1>1, <1>5
  <2>2. derived[i].name = "default"
    BY <1>2, <2>1 DEF Alike
  <2>3. i \in compactTask.previous \/ \E n \in DOMAIN head : i = head[n] \/ i \in derived[head[n]].covers
    BY <2>2 DEF HeadSound
  <2> QED BY <1>6, <2>3
<1>10. m.through \in DOMAIN g
  BY <1>1, <1>2, <1>5, <1>8
<1> HIDE DEF m, g
<1>11. HistorySound(Append(g, m), Len(g) + 1)
  BY <1>2, <1>8, <1>9, <1>10, HistorySummarised
<1> QED BY <1>3, <1>11

\* The history grows or is marked; the compaction goes on.
LEMMA HistoryGoesOn ==
    ASSUME CompactionInv, UNCHANGED compactTask,
           \/ C!UserMessage \/ C!AssistantBegins \/ C!ToolResultStarts \/ C!ToolResult \/ C!TurnEnd
           \/ \E keep \in 0 .. 1 : C!CompressFast(keep)
    PROVE  CompactionInv'
<1>1. PICK a : HistorySound(derived, a)
  BY DEF CompactionInv
<1>2. derived \in Seq(Message)
  BY <1>1 DEF HistorySound
<1>3. SUFFICES HistorySound(derived', a) /\ Grown(derived, derived')
  <2>1. derived' \in Seq(Message)
    BY <1>3 DEF HistorySound
  <2>2. TaskReading(compactTask, derived')
    BY <1>2, <1>3, <2>1, ReadStays DEF CompactionInv
  <2> QED BY <1>3, <2>2 DEF CompactionInv
<1>4. ASSUME derived' \in Seq(Message), Len(derived') = Len(derived), Alike(derived, derived')
      PROVE  HistorySound(derived', a) /\ Grown(derived, derived')
  <2>1. Len(derived) <= Len(derived')
    BY <1>2, <1>4
  <2> QED BY <1>1, <1>4, <2>1, HistoryRewritten DEF Grown, Alike
<1>5. CASE C!UserMessage
  <2>1. PICK m : m = C!NewMessage
    OBVIOUS
  <2>2. m \in Message /\ m.name # "compact"
    BY <2>1 DEF C!NewMessage, Message
  <2> QED BY <1>1, <1>5, <2>1, <2>2, MessageLogged DEF C!UserMessage, C!Log
<1>6. CASE C!AssistantBegins
  <2>1. PICK m : m = [C!NewMessage EXCEPT !.role = "assistant", !.closed = FALSE]
    OBVIOUS
  <2>2. m \in Message /\ m.name # "compact"
    BY <2>1 DEF C!NewMessage, Message
  <2> QED BY <1>1, <1>6, <2>1, <2>2, MessageLogged DEF C!AssistantBegins, C!Log
<1>7. CASE C!ToolResultStarts
  <2>1. derived' = [derived EXCEPT ![answering].result = "running"]
    BY <1>7 DEF C!ToolResultStarts
  <2>2. PICK v \in {"none", "running", "done"} : v = "running"
    OBVIOUS
  <2>3. derived' = [derived EXCEPT ![answering].result = v]
    BY <2>1, <2>2
  <2>4. PICK h, n, g : h = derived /\ n = answering /\ g = derived'
    OBVIOUS
  <2>5. h \in Seq(Message) /\ g = [h EXCEPT ![n].result = v]
    BY <1>2, <2>3, <2>4
  <2>6. g \in Seq(Message) /\ Len(g) = Len(h) /\ Alike(h, g)
    BY <2>2, <2>5, ResultIsAlike
  <2>7. derived' \in Seq(Message) /\ Len(derived') = Len(derived) /\ Alike(derived, derived')
    BY <2>4, <2>6
  <2> QED BY <1>4, <2>7
<1>8. CASE C!ToolResult
  <2>1. derived' = [derived EXCEPT ![answering].result = "done"]
    BY <1>8 DEF C!ToolResult
  <2>2. PICK v \in {"none", "running", "done"} : v = "done"
    OBVIOUS
  <2>3. derived' = [derived EXCEPT ![answering].result = v]
    BY <2>1, <2>2
  <2>4. PICK h, n, g : h = derived /\ n = answering /\ g = derived'
    OBVIOUS
  <2>5. h \in Seq(Message) /\ g = [h EXCEPT ![n].result = v]
    BY <1>2, <2>3, <2>4
  <2>6. g \in Seq(Message) /\ Len(g) = Len(h) /\ Alike(h, g)
    BY <2>2, <2>5, ResultIsAlike
  <2>7. derived' \in Seq(Message) /\ Len(derived') = Len(derived) /\ Alike(derived, derived')
    BY <2>4, <2>6
  <2> QED BY <1>4, <2>7
<1>9. CASE C!TurnEnd
  <2>1. derived' = [derived EXCEPT ![answering].closed = TRUE]
    BY <1>9 DEF C!TurnEnd
  <2> QED BY <1>2, <1>4, <2>1, ClosedIsAlike
<1>10. ASSUME NEW keep \in 0 .. 1, C!CompressFast(keep)
       PROVE  HistorySound(derived', a) /\ Grown(derived, derived')
  <2>1. derived' = Append(C!Sealed, C!FastMarker(C!Trimmable(keep)))
    BY <1>10 DEF C!CompressFast, C!Log
  <2> QED BY <1>1, <2>1, MarkerIs, TrimsAreMessages, MessageLogged
<1> QED BY <1>5, <1>6, <1>7, <1>8, <1>9, <1>10

\* The compaction goes on; the history stays.
LEMMA MakingGoesOn ==
    ASSUME CompactionInv, UNCHANGED derived,
           /\ DOMAIN compactTask' = TaskFields
           /\ \/ compactTask'.pc = "reading" \/ compactTask'.pc = "none"
              \/ /\ compactTask.pc \in {"asking", "storing", "falling_back"}
                 /\ compactTask'.head = compactTask.head
                 /\ compactTask'.previous = compactTask.previous
    PROVE  CompactionInv'
<1>1. compactTask'.pc \in {"asking", "storing", "falling_back"} => HeadSound(compactTask', derived)
  BY DEF CompactionInv, TaskReading, HeadSound
<1> QED BY <1>1 DEF CompactionInv, TaskReading

\* It ends, with a summary, a marker or nothing.
LEMMA TaskEnds ==
    ASSUME CompactionInv, compactTask' = C!NoTask,
           \/ UNCHANGED derived
           \/ derived' = Append(C!Sealed, C!FastMarker(C!Trimmable(0)))
           \/ compactTask.pc = "storing" /\ \E tokens \in SummaryTokens : C!Summarised(tokens)
    PROVE  CompactionInv'
<1>1. PICK a : HistorySound(derived, a)
  BY DEF CompactionInv
<1>2. TaskReading(compactTask', derived')
  BY DEF C!NoTask, TaskReading, TaskFields
<1>3. CASE UNCHANGED derived
  BY <1>1, <1>2, <1>3 DEF CompactionInv
<1>4. CASE derived' = Append(C!Sealed, C!FastMarker(C!Trimmable(0)))
  <2>1. HistorySound(derived', a)
    BY <1>1, <1>4, MarkerIs, TrimsAreMessages, MessageLogged
  <2> QED BY <1>2, <2>1 DEF CompactionInv
<1>5. ASSUME compactTask.pc = "storing", NEW tokens \in SummaryTokens, C!Summarised(tokens)
      PROVE  CompactionInv'
  <2>1. HeadSound(compactTask, derived)
    BY <1>5 DEF CompactionInv, TaskReading
  <2>2. \E b : HistorySound(derived', b)
    BY <1>1, <1>5, <2>1, SummaryLogged
  <2> QED BY <1>2, <2>2 DEF CompactionInv
<1> QED BY <1>3, <1>4, <1>5

LEMMA CompactionStep == CompactionInv /\ [C!Next]_C!vars => CompactionInv'
<1> SUFFICES ASSUME CompactionInv, [C!Next]_C!vars PROVE CompactionInv'
  OBVIOUS
<1>1. DOMAIN compactTask = TaskFields
  BY DEF CompactionInv, TaskReading
<1>2. CASE UNCHANGED <<derived, compactTask>>
  BY <1>2 DEF CompactionInv
<1>3. CASE C!TaskReads
  <2>1. CASE C!Unsummarised = <<>>
    BY <1>3, <2>1, TaskEnds DEF C!TaskReads, C!Ends
  <2>2. CASE C!Unsummarised # <<>>
    <3>1. PICK a : HistorySound(derived, a)
      BY DEF CompactionInv
    <3>2. /\ DOMAIN compactTask' = TaskFields
          /\ compactTask'.head = C!Unsummarised
          /\ compactTask'.previous = IF C!HasSummary THEN derived[C!View[1]].covers ELSE {}
          /\ UNCHANGED derived
      BY <1>1, <1>3, <2>2 DEF C!TaskReads, TaskFields
    <3>3. HeadSound(compactTask', derived)
      BY <2>2, <3>1, <3>2, HeadIsRead
    <3> QED BY <3>1, <3>2, <3>3 DEF CompactionInv, TaskReading
  <2> QED BY <2>1, <2>2
<1>4. CASE C!RoundEnds
  <2>1. /\ DOMAIN compactTask' = TaskFields /\ compactTask.pc = "asking" /\ UNCHANGED derived
        /\ compactTask'.head = compactTask.head /\ compactTask'.previous = compactTask.previous
    BY <1>1, <1>4 DEF C!RoundEnds, TaskFields
  <2> QED BY <2>1, MakingGoesOn
<1>5. ASSUME NEW k \in DOMAIN compactTask.work, C!ChunkBegins(k) \/ C!ChunkReturns(k) PROVE CompactionInv'
  <2>1. /\ DOMAIN compactTask' = TaskFields /\ compactTask.pc = "asking" /\ UNCHANGED derived
        /\ compactTask'.head = compactTask.head /\ compactTask'.previous = compactTask.previous
    BY <1>1, <1>5 DEF C!ChunkBegins, C!ChunkReturns, TaskFields
  <2> QED BY <2>1, MakingGoesOn
<1>6. CASE C!TaskStores
  BY <1>6, TaskEnds DEF C!TaskStores, C!Ends
<1>7. CASE C!TaskFallsBack
  BY <1>7, TaskEnds DEF C!TaskFallsBack, C!Ends, C!Log
<1>8. CASE C!TaskRaises
  BY <1>8, TaskEnds DEF C!TaskRaises, C!Ends
<1>9. CASE C!TaskIsCancelled
  BY <1>9, TaskEnds DEF C!TaskIsCancelled, C!Ends
<1>10. ASSUME UNCHANGED derived, compactTask' = [compactTask EXCEPT !.cancelled = TRUE],
              compactTask.pc # "none"
       PROVE  CompactionInv'
  <2>1. /\ DOMAIN compactTask' = TaskFields /\ compactTask'.pc = compactTask.pc
        /\ compactTask'.head = compactTask.head /\ compactTask'.previous = compactTask.previous
    BY <1>1, <1>10 DEF TaskFields
  <2>2. TaskReading(compactTask', derived)
    BY <2>1 DEF CompactionInv, TaskReading, HeadSound
  <2> QED BY <1>10, <2>2 DEF CompactionInv
<1>11. CASE C!CancelAll
  BY <1>10, <1>11 DEF C!CancelAll
<1>12. ASSUME NEW c \in CompactCallers, C!Check(c) \/ C!Join(c) \/ C!Returns(c) \/ C!Cancelled(c)
       PROVE  CompactionInv'
  <2>1. CASE C!Check(c) \/ C!Returns(c)
    BY <1>2, <2>1 DEF C!Check, C!Returns
  <2>2. CASE C!Join(c)
    <3>1. CASE compactTask.pc = "none"
      <4>1. compactTask' = [C!NoTask EXCEPT !.pc = "reading"] /\ UNCHANGED derived
        BY <2>2, <3>1 DEF C!Join
      <4>2. DOMAIN compactTask' = TaskFields /\ compactTask'.pc = "reading"
        BY <4>1 DEF C!NoTask, TaskFields
      <4> QED BY <4>1, <4>2, MakingGoesOn
    <3>2. CASE compactTask.pc # "none"
      BY <1>2, <2>2, <3>2 DEF C!Join
    <3> QED BY <3>1, <3>2
  <2>3. CASE C!Cancelled(c)
    BY <1>2, <1>10, <2>3 DEF C!Cancelled
  <2> QED BY <1>12, <2>1, <2>2, <2>3
<1>13. CASE UNCHANGED C!vars
  BY <1>2, <1>13 DEF C!vars
<1>14. ASSUME \/ C!UserMessage \/ C!AssistantBegins \/ C!ToolResultStarts \/ C!ToolResult \/ C!TurnEnd
              \/ \E keep \in 0 .. 1 : C!CompressFast(keep)
       PROVE  CompactionInv'
  <2>1. UNCHANGED compactTask
    BY <1>14 DEF C!UserMessage, C!AssistantBegins, C!ToolResultStarts, C!ToolResult, C!TurnEnd, C!CompressFast
  <2> QED BY <1>14, <2>1, HistoryGoesOn
<1> QED
  BY <1>3, <1>4, <1>5, <1>6, <1>7, <1>8, <1>9, <1>11, <1>12, <1>13, <1>14 DEF C!Next

-----------------------------------------------------------------------------
(* LlmStream: what an attempt has been fed is of one model, and is as many *)
(* calls as there are closed blocks of tools.                              *)

\* A set of numbers has a smallest one.
LEMMA LeastOf == ASSUME NEW A \in SUBSET Nat, A # {} PROVE \E x \in A : \A y \in A : x <= y
<1>1. PICK x \in A : \A y \in A : ~ (<<y, x>> \in OpToRel(<, Nat))
  BY NatLessThanWellFounded, WFMin
<1>2. \A y \in A : ~ (y < x)
  BY <1>1 DEF OpToRel
<1> QED BY <1>2

\* The values FeedAll goes through, up to the n-th chunk.
FedThrough(f, n, r, chunks) ==
    f = [i \in 0 .. n |-> IF i = 0 THEN r ELSE L!Feed(f[i - 1], chunks[i])]

LEMMA FedThroughIs ==
    ASSUME NEW r, NEW chunks, NEW n \in Nat
    PROVE  \E f : FedThrough(f, n, r, chunks)
<1> DEFINE Bad == {m \in Nat : ~ \E f : FedThrough(f, m, r, chunks)}
<1>1. Bad = {}
  <2> SUFFICES ASSUME Bad # {} PROVE FALSE
    OBVIOUS
  <2>1. PICK m \in Bad : \A y \in Bad : m <= y
    BY LeastOf
  <2>2. m # 0
    <3> SUFFICES \E f : FedThrough(f, 0, r, chunks)
      BY <2>1
    <3>1. PICK f : f = [i \in 0 .. 0 |-> r]
      OBVIOUS
    <3>2. \A i \in 0 .. 0 : i = 0
      OBVIOUS
    <3>3. FedThrough(f, 0, r, chunks)
      BY <3>1, <3>2 DEF FedThrough
    <3> QED BY <3>3
  <2>3. m \in Nat /\ m - 1 \in Nat /\ m - 1 \notin Bad
    BY <2>1, <2>2
  <2>4. PICK f : FedThrough(f, m - 1, r, chunks)
    BY <2>3
  <2>5. PICK g : g = [i \in 0 .. m |-> IF i = m THEN L!Feed(f[m - 1], chunks[m]) ELSE f[i]]
    OBVIOUS
  <2>6. \A i \in 0 .. m : g[i] = IF i = 0 THEN r ELSE L!Feed(g[i - 1], chunks[i])
    <3> SUFFICES ASSUME NEW i \in 0 .. m
                 PROVE  g[i] = IF i = 0 THEN r ELSE L!Feed(g[i - 1], chunks[i])
      OBVIOUS
    <3>1. CASE i = m
      BY <2>2, <2>3, <2>5, <3>1
    <3>2. CASE i # m
      <4>1. i \in 0 .. m - 1 /\ (i # 0 => i - 1 \in 0 .. m /\ i - 1 # m)
        BY <2>3, <3>2
      <4>2. g[i] = f[i] /\ (i # 0 => g[i - 1] = f[i - 1])
        BY <2>5, <3>2, <4>1
      <4> QED BY <2>4, <4>1, <4>2 DEF FedThrough
    <3> QED BY <3>1, <3>2
  <2>7. FedThrough(g, m, r, chunks)
    BY <2>5, <2>6 DEF FedThrough
  <2> QED BY <2>1, <2>7
<1> QED BY <1>1

LEMMA FeedAllIs ==
    ASSUME NEW r, NEW chunks, Len(chunks) \in Nat
    PROVE  \E f : /\ FedThrough(f, Len(chunks), r, chunks)
                  /\ L!FeedAll(r, chunks) = f[Len(chunks)]
<1>1. PICK g : FedThrough(g, Len(chunks), r, chunks)
  BY FedThroughIs
<1> DEFINE f == CHOOSE h : h = [i \in 0 .. Len(chunks) |-> IF i = 0 THEN r ELSE L!Feed(h[i - 1], chunks[i])]
<1>2. f = [i \in 0 .. Len(chunks) |-> IF i = 0 THEN r ELSE L!Feed(f[i - 1], chunks[i])]
  BY <1>1 DEF FedThrough
<1>3. L!FeedAll(r, chunks) = f[Len(chunks)]
  BY DEF L!FeedAll
<1> HIDE DEF f
<1>4. FedThrough(f, Len(chunks), r, chunks)
  BY <1>2 DEF FedThrough
<1> QED BY <1>3, <1>4

LEMMA StreamCardinality == ASSUME NEW s PROVE L!Cardinality(s) = Cardinality(s)
BY DEF L!Cardinality, Cardinality

\* What an adapter sends: an index or arguments may be anything.
IsChunk(c) ==
    /\ c.type \in {"start", "delta", "end", "finish"}
    /\ c.type = "start" => c.kind \in {"text", "tool"}
BlockRecord == [kind : {"text", "tool"}, open : BOOLEAN]
RunFields == {"pc", "attempt", "fed", "parts", "calls", "finish", "error", "primary", "answer"}
IsSequence(s) == \E S : s \in Seq(S)
Sendable(chunks) == IsSequence(chunks) /\ \A n \in DOMAIN chunks : IsChunk(chunks[n])

\* The blocks of tools of an attempt; the closed ones have their call.
ToolBlocks(blocks) == {i \in DOMAIN blocks : blocks[i].kind = "tool"}
ClosedTools(blocks) == {i \in ToolBlocks(blocks) : ~blocks[i].open}
Fed(r, source, pc) ==
    /\ DOMAIN r = RunFields /\ r.pc = pc /\ r.attempt = source[2] /\ r.answer = L!NoAnswer
    /\ r.fed \in Seq(BlockRecord)
    /\ r.parts \subseteq {source}
    /\ IsSequence(r.calls) /\ \A k \in DOMAIN r.calls : r.calls[k].from = source
    /\ Len(r.calls) = Cardinality(ClosedTools(r.fed))
    /\ r.fed = <<>> => r.parts = {}
    /\ r.finish \in L!Finishes \cup {"none"}

\* Blocks that are started, and blocks that are closed.
LEMMA BlockStarted ==
    ASSUME NEW h \in Seq(BlockRecord), NEW kind \in {"text", "tool"}, NEW g,
           g = Append(h, [kind |-> kind, open |-> TRUE])
    PROVE  g \in Seq(BlockRecord) /\ ClosedTools(g) = ClosedTools(h) /\ g # <<>>
<1> DEFINE b == [kind |-> kind, open |-> TRUE]
<1>1. b \in BlockRecord /\ b.open = TRUE
  BY DEF BlockRecord
<1> HIDE DEF b
<1>2. /\ g \in Seq(BlockRecord) /\ DOMAIN g = DOMAIN h \cup {Len(h) + 1} /\ g # <<>>
      /\ \A i \in DOMAIN h : g[i] = h[i]
      /\ g[Len(h) + 1] = b
  BY <1>1 DEF b
<1>3. ClosedTools(g) = ClosedTools(h)
  BY <1>1, <1>2 DEF ClosedTools, ToolBlocks
<1> QED BY <1>2, <1>3

LEMMA ClosedAreFinite ==
    ASSUME NEW h \in Seq(BlockRecord)
    PROVE  /\ IsFiniteSet(ToolBlocks(h)) /\ IsFiniteSet(ClosedTools(h))
           /\ Cardinality(ClosedTools(h)) \in Nat
           /\ h = <<>> => ClosedTools(h) = {}
<1>1. IsFiniteSet(1 .. Len(h)) /\ DOMAIN h = 1 .. Len(h)
  BY FS_Interval
<1>2. ToolBlocks(h) \subseteq 1 .. Len(h) /\ ClosedTools(h) \subseteq 1 .. Len(h)
  BY <1>1 DEF ToolBlocks, ClosedTools
<1>3. IsFiniteSet(ToolBlocks(h)) /\ IsFiniteSet(ClosedTools(h))
  BY <1>1, <1>2, FS_Subset
<1>4. Cardinality(ClosedTools(h)) \in Nat
  BY <1>3, FS_CardinalityType
<1> QED BY <1>2, <1>3, <1>4

LEMMA BlockClosed ==
    ASSUME NEW h \in Seq(BlockRecord), NEW n \in DOMAIN h, h[n].open, NEW g,
           g = [h EXCEPT ![n].open = FALSE]
    PROVE  /\ g \in Seq(BlockRecord) /\ g # <<>>
           /\ Cardinality(ClosedTools(g)) = Cardinality(ClosedTools(h)) + (IF h[n].kind = "tool" THEN 1 ELSE 0)
<1>1. \A b \in BlockRecord : /\ [b EXCEPT !.open = FALSE] \in BlockRecord
                             /\ [b EXCEPT !.open = FALSE].kind = b.kind
                             /\ [b EXCEPT !.open = FALSE].open = FALSE
  BY DEF BlockRecord
<1>2. \A i \in DOMAIN h : h[i] \in BlockRecord
  OBVIOUS
<1>3. DOMAIN g = DOMAIN h /\ \A i \in DOMAIN h : g[i] = IF i = n THEN [h[i] EXCEPT !.open = FALSE] ELSE h[i]
  OBVIOUS
<1>4. DOMAIN h = 1 .. Len(h) /\ Len(h) \in Nat
  OBVIOUS
<1>5. g \in Seq(BlockRecord) /\ g # <<>>
  <2>1. g \in [1 .. Len(h) -> BlockRecord]
    BY <1>1, <1>2, <1>3, <1>4
  <2> QED BY <1>4, <2>1
<1>6. ToolBlocks(g) = ToolBlocks(h)
  BY <1>1, <1>2, <1>3 DEF ToolBlocks
<1>7. ClosedTools(g) = ClosedTools(h) \cup (IF h[n].kind = "tool" THEN {n} ELSE {})
  BY <1>1, <1>2, <1>3, <1>6 DEF ClosedTools, ToolBlocks
<1>8. n \notin ClosedTools(h)
  BY DEF ClosedTools
<1>9. Cardinality(ClosedTools(h) \cup {n}) = Cardinality(ClosedTools(h)) + 1
  BY <1>8, ClosedAreFinite, FS_AddElement
<1>10. Cardinality(ClosedTools(g)) = Cardinality(ClosedTools(h)) + (IF h[n].kind = "tool" THEN 1 ELSE 0)
  <2>1. Cardinality(ClosedTools(h)) \in Nat
    BY ClosedAreFinite
  <2>2. CASE h[n].kind = "tool"
    BY <1>7, <1>9, <2>2
  <2>3. CASE h[n].kind # "tool"
    <3>1. ClosedTools(g) = ClosedTools(h)
      BY <1>7, <2>3
    <3> QED BY <2>1, <2>3, <3>1
  <2> QED BY <2>2, <2>3
<1> QED BY <1>5, <1>10

LEMMA OneMore ==
    ASSUME NEW S, NEW s \in Seq(S), NEW e, NEW t, t = Append(s, e)
    PROVE  /\ IsSequence(t) /\ Len(t) = Len(s) + 1
           /\ \A k \in DOMAIN t : t[k] = e \/ (k \in DOMAIN s /\ t[k] = s[k])
<1>2. s \in Seq(S \cup {e}) /\ e \in S \cup {e}
  OBVIOUS
<1>3. t \in Seq(S \cup {e})
  BY <1>2
<1> QED BY <1>2, <1>3 DEF IsSequence

LEMMA FeedKeeps ==
    ASSUME NEW r, NEW c, IsChunk(c), NEW pc, Fed(r, L!Source, pc)
    PROVE  Fed(L!Feed(r, c), L!Source, pc)
<1> DEFINE source == L!Source
<1>0. PICK q : q = L!Feed(r, c)
  OBVIOUS
<1> SUFFICES Fed(q, source, pc)
  BY <1>0
<1>1. CASE r.error # "none"
  BY <1>0, <1>1 DEF L!Feed
<1>2. CASE r.error = "none" /\ c.type = "start" /\ c.index = Len(r.fed) + 1
  <2>0. c.kind \in {"text", "tool"}
    BY <1>2 DEF IsChunk
  <2>1. q = [r EXCEPT !.fed = Append(@, [kind |-> c.kind, open |-> TRUE])]
    BY <1>0, <1>2 DEF L!Feed
  <2>2. /\ DOMAIN q = RunFields /\ q.pc = r.pc /\ q.attempt = r.attempt /\ q.answer = r.answer /\ q.parts = r.parts
        /\ q.calls = r.calls /\ q.finish = r.finish
        /\ q.fed = Append(r.fed, [kind |-> c.kind, open |-> TRUE])
    BY <2>1 DEF Fed, RunFields
  <2>3. q.fed \in Seq(BlockRecord) /\ ClosedTools(q.fed) = ClosedTools(r.fed) /\ q.fed # <<>>
    BY <2>0, <2>2, BlockStarted DEF Fed
  <2> QED BY <2>2, <2>3 DEF Fed
<1>3. ASSUME q = [r EXCEPT !.error = "unknown"] \/ q = [r EXCEPT !.error = c.kind] \/ q = r
      PROVE  Fed(q, source, pc)
  <2>1. /\ DOMAIN q = RunFields /\ q.pc = r.pc /\ q.attempt = r.attempt /\ q.answer = r.answer /\ q.parts = r.parts
        /\ q.calls = r.calls /\ q.finish = r.finish /\ q.fed = r.fed
    BY <1>3 DEF Fed, RunFields
  <2> QED BY <2>1 DEF Fed
<1>4. CASE r.error = "none" /\ c.type = "start" /\ c.index # Len(r.fed) + 1
  BY <1>0, <1>3, <1>4 DEF L!Feed, L!Violates
<1>5. CASE r.error = "none" /\ c.type = "delta"
  <2>1. CASE ~ (L!IsOpen(r, c.index, c.kind) /\ c.kind = "text")
    BY <1>0, <1>3, <1>5, <2>1 DEF L!Feed, L!Violates
  <2>2. CASE L!IsOpen(r, c.index, c.kind) /\ c.kind = "text"
    <3>1. q = [r EXCEPT !.parts = @ \cup {L!Source}]
      BY <1>0, <1>5, <2>2 DEF L!Feed
    <3>2. /\ DOMAIN q = RunFields /\ q.pc = r.pc /\ q.attempt = r.attempt /\ q.answer = r.answer
          /\ q.calls = r.calls /\ q.finish = r.finish /\ q.fed = r.fed
          /\ q.parts = r.parts \cup {source}
      BY <3>1 DEF Fed, RunFields
    <3>3. r.fed # <<>>
      BY <2>2 DEF L!IsOpen
    <3> QED BY <3>2, <3>3 DEF Fed
  <2> QED BY <2>1, <2>2
<1>6. CASE r.error = "none" /\ c.type = "end"
  <2>1. CASE ~ L!IsOpen(r, c.index, c.kind)
    BY <1>0, <1>3, <1>6, <2>1 DEF L!Feed, L!Violates
  <2>2. CASE L!IsOpen(r, c.index, c.kind)
    <3> DEFINE call == [from |-> L!Source, input |-> L!Input(c.args)]
    <3>1. q = [r EXCEPT !.fed[c.index].open = FALSE,
                 !.calls = IF c.kind = "text" THEN @ ELSE Append(@, call)]
      BY <1>0, <1>6, <2>2 DEF L!Feed
    <3>2. call.from = source
      OBVIOUS
    <3> HIDE DEF call
    <3>3. /\ DOMAIN q = RunFields /\ q.pc = r.pc /\ q.attempt = r.attempt /\ q.answer = r.answer
          /\ q.finish = r.finish /\ q.parts = r.parts
          /\ q.fed = [r.fed EXCEPT ![c.index].open = FALSE]
          /\ q.calls = IF c.kind = "text" THEN r.calls ELSE Append(r.calls, call)
      BY <3>1 DEF Fed, RunFields
    <3>4. /\ c.index \in DOMAIN r.fed /\ r.fed[c.index].open /\ r.fed[c.index].kind = c.kind
          /\ c.kind \in {"text", "tool"}
      <4>1. c.index \in DOMAIN r.fed /\ r.fed[c.index].open /\ r.fed[c.index].kind = c.kind
        BY <2>2 DEF L!IsOpen
      <4>2. r.fed[c.index] \in BlockRecord
        BY <4>1 DEF Fed
      <4> QED BY <4>1, <4>2 DEF BlockRecord
    <3>5. /\ q.fed \in Seq(BlockRecord) /\ q.fed # <<>>
          /\ Cardinality(ClosedTools(q.fed))
               = Cardinality(ClosedTools(r.fed)) + (IF r.fed[c.index].kind = "tool" THEN 1 ELSE 0)
      <4>1. PICK h, g, n : h = r.fed /\ g = q.fed /\ n = c.index
        OBVIOUS
      <4>2. h \in Seq(BlockRecord) /\ n \in DOMAIN h /\ h[n].open /\ g = [h EXCEPT ![n].open = FALSE]
        BY <3>3, <3>4, <4>1 DEF Fed
      <4>3. /\ g \in Seq(BlockRecord) /\ g # <<>>
            /\ Cardinality(ClosedTools(g)) = Cardinality(ClosedTools(h)) + (IF h[n].kind = "tool" THEN 1 ELSE 0)
        BY <4>2, BlockClosed
      <4> QED BY <4>1, <4>3
    <3>6. Cardinality(ClosedTools(r.fed)) \in Nat
      BY ClosedAreFinite DEF Fed
    <3>7. CASE c.kind = "text"
      BY <3>3, <3>4, <3>5, <3>6, <3>7 DEF Fed
    <3>8. CASE c.kind = "tool"
      <4>1. q.calls = Append(r.calls, call)
        BY <3>3, <3>8
      <4>2. /\ IsSequence(q.calls) /\ Len(q.calls) = Len(r.calls) + 1
            /\ \A k \in DOMAIN q.calls : q.calls[k] = call \/ (k \in DOMAIN r.calls /\ q.calls[k] = r.calls[k])
        <5>1. PICK t : t = q.calls
          OBVIOUS
        <5>2. PICK u, e : u = r.calls /\ e = call
          OBVIOUS
        <5>3. PICK S : u \in Seq(S) /\ t = Append(u, e)
          BY <4>1, <5>1, <5>2 DEF Fed, IsSequence
        <5>4. /\ IsSequence(t) /\ Len(t) = Len(u) + 1
              /\ \A k \in DOMAIN t : t[k] = e \/ (k \in DOMAIN u /\ t[k] = u[k])
          <6>1. \A v : v = Append(u, e) =>
                  /\ IsSequence(v) /\ Len(v) = Len(u) + 1
                  /\ \A k \in DOMAIN v : v[k] = e \/ (k \in DOMAIN u /\ v[k] = u[k])
            BY <5>3, OneMore
          <6> QED BY <5>3, <6>1
        <5> QED BY <5>1, <5>2, <5>4
      <4>3. \A k \in DOMAIN q.calls : q.calls[k].from = source
        BY <3>2, <4>2 DEF Fed
      <4> QED BY <3>3, <3>4, <3>5, <3>8, <4>2, <4>3 DEF Fed
    <3> QED BY <3>4, <3>7, <3>8
  <2> QED BY <2>1, <2>2
<1>7. CASE r.error = "none" /\ c.type = "finish"
  <2>1. CASE c.kind \notin L!Finishes
    BY <1>0, <1>3, <1>7, <2>1 DEF L!Feed
  <2>2. CASE c.kind \in L!Finishes
    <3>1. q = [r EXCEPT !.finish = c.kind]
      BY <1>0, <1>7, <2>2 DEF L!Feed
    <3>2. /\ DOMAIN q = RunFields /\ q.pc = r.pc /\ q.attempt = r.attempt /\ q.answer = r.answer /\ q.parts = r.parts
          /\ q.calls = r.calls /\ q.fed = r.fed /\ q.finish = c.kind
      BY <3>1 DEF Fed, RunFields
    <3> QED BY <2>2, <3>2 DEF Fed
  <2> QED BY <2>1, <2>2
<1>8. c.type \in {"start", "delta", "end", "finish"}
  BY DEF IsChunk
<1> QED BY <1>0, <1>1, <1>2, <1>4, <1>5, <1>6, <1>7, <1>8

LEMMA FeedAllKeeps ==
    ASSUME NEW r, NEW chunks, Sendable(chunks), NEW pc, Fed(r, L!Source, pc)
    PROVE  Fed(L!FeedAll(r, chunks), L!Source, pc)
<1>1. Len(chunks) \in Nat /\ DOMAIN chunks = 1 .. Len(chunks)
  BY DEF Sendable, IsSequence
<1>2. PICK f : FedThrough(f, Len(chunks), r, chunks) /\ L!FeedAll(r, chunks) = f[Len(chunks)]
  BY <1>1, FeedAllIs
<1> DEFINE Bad == {m \in 0 .. Len(chunks) : ~ Fed(f[m], L!Source, pc)}
<1>3. Bad = {}
  <2> SUFFICES ASSUME Bad # {} PROVE FALSE
    OBVIOUS
  <2>1. PICK m \in Bad : \A y \in Bad : m <= y
    <3>1. Bad \in SUBSET Nat
      BY <1>1
    <3> QED BY <3>1, LeastOf
  <2>2. f[0] = r /\ \A i \in 1 .. Len(chunks) : f[i] = L!Feed(f[i - 1], chunks[i])
    BY <1>1, <1>2 DEF FedThrough
  <2>3. m \in 1 .. Len(chunks) /\ m - 1 \in 0 .. Len(chunks) /\ m - 1 \notin Bad
    BY <1>1, <2>1, <2>2
  <2>4. Fed(f[m - 1], L!Source, pc)
    BY <2>3
  <2>5. PICK g, c : g = f[m - 1] /\ c = chunks[m]
    OBVIOUS
  <2>6. Fed(g, L!Source, pc) /\ IsChunk(c)
    BY <1>1, <2>3, <2>4, <2>5 DEF Sendable
  <2>7. Fed(L!Feed(g, c), L!Source, pc)
    BY <2>6, FeedKeeps
  <2>8. Fed(f[m], L!Source, pc)
    BY <2>2, <2>3, <2>5, <2>7
  <2> QED BY <2>1, <2>8
<1> QED BY <1>1, <1>2, <1>3

LEMMA OneChunk == ASSUME NEW c, IsChunk(c) PROVE Sendable(<<c>>)
<1>1. PICK s : s = <<c>>
  OBVIOUS
<1>2. s \in Seq({c}) /\ \A n \in DOMAIN s : s[n] = c
  BY <1>1
<1> QED BY <1>1, <1>2 DEF Sendable, IsSequence

LEMMA ChunksTogether ==
    ASSUME NEW a, NEW b, Sendable(a), Sendable(b)
    PROVE  Sendable(a \o b)
<1>0. PICK S, U : a \in Seq(S \cup U) /\ b \in Seq(S \cup U)
  <2>1. PICK S : a \in Seq(S)
    BY DEF Sendable, IsSequence
  <2>2. PICK U : b \in Seq(U)
    BY DEF Sendable, IsSequence
  <2>3. a \in Seq(S \cup U) /\ b \in Seq(S \cup U)
    BY <2>1, <2>2
  <2> QED BY <2>3
<1>1. PICK c : c = a \o b
  OBVIOUS
<1>2. c \in Seq(S \cup U) /\ Len(c) = Len(a) + Len(b) /\ Len(a) \in Nat /\ Len(b) \in Nat
  BY <1>0, <1>1
<1>3. \A n \in DOMAIN c : (n \in DOMAIN a /\ c[n] = a[n]) \/ (n - Len(a) \in DOMAIN b /\ c[n] = b[n - Len(a)])
  BY <1>0, <1>1, <1>2
<1> QED BY <1>1, <1>2, <1>3 DEF Sendable, IsSequence

LEMMA ChunksAre ==
    ASSUME NEW i, NEW kind \in {"text", "tool"}, NEW args
    PROVE  /\ Sendable(<<L!Start(i, kind)>>) /\ Sendable(<<L!Delta(i, kind)>>)
           /\ Sendable(<<L!Start(i, kind), L!Delta(i, kind)>>)
           /\ Sendable(<<L!End(i, kind, args)>>) /\ IsChunk(L!End(i, kind, args))
<1>1. IsChunk(L!Start(i, kind)) /\ IsChunk(L!Delta(i, kind)) /\ IsChunk(L!End(i, kind, args))
  BY DEF L!Start, L!Delta, L!End, IsChunk
<1>2. PICK d, e : d = L!Start(i, kind) /\ e = L!Delta(i, kind)
  OBVIOUS
<1>3. PICK s : s = <<d, e>>
  OBVIOUS
<1>4. Sendable(<<d, e>>)
  <2>1. s \in Seq({d, e}) /\ \A n \in DOMAIN s : s[n] \in {d, e}
    BY <1>3
  <2> QED BY <1>1, <1>2, <1>3, <2>1 DEF Sendable, IsSequence
<1> QED BY <1>1, <1>2, <1>4, OneChunk

LEMMA FinishIs == ASSUME NEW kind PROVE Sendable(<<L!Finish(kind)>>)
<1>1. IsChunk(L!Finish(kind))
  BY DEF L!Finish, L!Start, IsChunk
<1> QED BY <1>1, OneChunk

LEMMA NoChunks == Sendable(<<>>)
BY DEF Sendable, IsSequence

\* The ends of the text and of the tools.
LEMMA EndsAre ==
    ASSUME IsSequence(llmStream.tools)
    PROVE  Sendable(L!TextEnd) /\ Sendable(L!ToolEnds)
<1>1. Sendable(L!TextEnd)
  BY NoChunks, ChunksAre DEF L!TextEnd
<1>2. PICK n \in Nat : n = Cardinality(L!Named)
  <2>1. PICK m \in Nat : DOMAIN llmStream.tools = 1 .. m
    BY DEF IsSequence
  <2>2. IsFiniteSet(1 .. m)
    BY FS_Interval
  <2>3. IsFiniteSet(L!Named)
    BY <2>1, <2>2, FS_Subset DEF L!Named
  <2> QED BY <2>3, FS_CardinalityType
<1>3. PICK s : s = L!ToolEnds
  OBVIOUS
<1>4. s = [j \in 1 .. n |-> s[j]] /\ \A j \in 1 .. n : \E i, args : s[j] = L!End(i, "tool", args)
  <2> DEFINE place(j) == CHOOSE k \in L!Named : L!Cardinality({m \in L!Named : m <= k}) = j
  <2>1. s = [j \in 1 .. L!Cardinality(L!Named) |->
               L!End(llmStream.tools[place(j)].index, "tool", llmStream.tools[place(j)].args)]
    BY <1>3 DEF L!ToolEnds
  <2>2. L!Cardinality(L!Named) = n
    BY <1>2, StreamCardinality
  <2> HIDE DEF place
  <2> QED BY <2>1, <2>2
<1>5. \A j \in 1 .. n : IsChunk(s[j])
  BY <1>4, ChunksAre
<1>6. s \in Seq({s[j] : j \in 1 .. n}) /\ DOMAIN s = 1 .. n
  BY <1>4
<1> QED BY <1>1, <1>3, <1>5, <1>6 DEF Sendable, IsSequence

-----------------------------------------------------------------------------
StreamFields == {"pc", "model", "protocol", "text", "tools", "finish", "cancelled"}

\* What is kept of a response, and which response it is.
OneStream(r) ==
    /\ \E m : /\ r.answer.parts \subseteq {<<m, r.attempt>>}
              /\ \A k \in DOMAIN r.answer.calls : r.answer.calls[k].from = <<m, r.attempt>>
    /\ r.answer.finish \in {"stop", "tool-calls"} =>
          Len(r.answer.calls) = Cardinality(ToolBlocks(r.fed))
    /\ r.answer.finish \in {"max-tokens", "error", "cancelled"} => r.answer.calls = <<>>

RunSound(st, r) ==
    /\ DOMAIN r = RunFields
    /\ st.pc # "off" => r.pc = "streaming"
    /\ r.pc \in {"requesting", "streaming"} => Fed(r, <<st.model, r.attempt>>, r.pc)
    /\ r.pc = "requesting" \/ st.pc = "closing" => r.fed = <<>>
    /\ r.pc \in {"failed", "sleeping"} =>
          r.answer = L!NoAnswer /\ \E m : r.parts \subseteq {<<m, r.attempt>>}
    /\ OneStream(r)

StreamSound(st) == DOMAIN st = StreamFields /\ IsSequence(st.tools)
StreamInv == StreamSound(llmStream) /\ RunSound(llmStream, llmRun)

LEMMA StreamHolds == StreamInv => L!AnswerIsOneStream
<1> SUFFICES ASSUME StreamInv PROVE L!AnswerIsOneStream
  OBVIOUS
<1>1. OneStream(llmRun)
  BY DEF StreamInv, RunSound
<1>2. PICK m : /\ llmRun.answer.parts \subseteq {<<m, llmRun.attempt>>}
               /\ \A k \in DOMAIN llmRun.answer.calls : llmRun.answer.calls[k].from = <<m, llmRun.attempt>>
  BY <1>1 DEF OneStream
<1>3. <<m, llmRun.attempt>>[2] = llmRun.attempt
  OBVIOUS
<1> QED BY <1>1, <1>2, <1>3, StreamCardinality DEF OneStream, ToolBlocks, L!AnswerIsOneStream

LEMMA NothingIsOneStream == ASSUME NEW r, r.answer = L!NoAnswer PROVE OneStream(r)
BY DEF OneStream, L!NoAnswer

LEMMA EmptyIsFed ==
    ASSUME NEW r, DOMAIN r = RunFields, r.answer = L!NoAnswer, r.fed = <<>>, r.parts = {},
           r.calls = <<>>, r.finish \in L!Finishes \cup {"none"}, NEW m
    PROVE  Fed(r, <<m, r.attempt>>, r.pc)
<1>1. ClosedTools(<<>>) = {} /\ Cardinality({}) = 0
  BY FS_EmptySet DEF ClosedTools, ToolBlocks
<1>2. IsSequence(<<>>) /\ Len(<<>>) = 0 /\ <<>> \in Seq(BlockRecord) /\ <<m, r.attempt>>[2] = r.attempt
  BY DEF IsSequence
<1>3. \A k \in DOMAIN <<>> : FALSE
  OBVIOUS
<1>4. \A k \in DOMAIN r.calls : r.calls[k].from = <<m, r.attempt>>
  BY <1>3
<1>5. Len(r.calls) = Cardinality(ClosedTools(r.fed))
  BY <1>1, <1>2
<1> QED BY <1>2, <1>4, <1>5 DEF Fed

LEMMA NewRunIsSound ==
    ASSUME NEW st, st.pc = "off", NEW r,
           DOMAIN r = RunFields, r.answer = L!NoAnswer, r.fed = <<>>, r.parts = {},
           r.calls = <<>>, r.finish = "none", r.pc = "requesting"
    PROVE  RunSound(st, r)
<1> QED BY EmptyIsFed, NothingIsOneStream DEF RunSound

LEMMA StreamBegins == L!Init => StreamInv
<1> SUFFICES ASSUME L!Init PROVE StreamInv
  OBVIOUS
<1>1. StreamSound(llmStream) /\ llmStream.pc = "off"
  BY DEF L!Init, L!NoStream, StreamSound, StreamFields, IsSequence
<1>2. /\ DOMAIN llmRun = RunFields /\ llmRun.answer = L!NoAnswer /\ llmRun.fed = <<>> /\ llmRun.parts = {}
      /\ llmRun.calls = <<>> /\ llmRun.finish = "none" /\ llmRun.pc = "requesting"
  BY DEF L!Init, L!NewRun, RunFields
<1> QED BY <1>1, <1>2, NewRunIsSound DEF StreamInv

\* The end of an attempt.
LEMMA SettledIsSound ==
    ASSUME NEW r, NEW pc, Fed(r, L!Source, pc), L!Settled(r)
    PROVE  StreamInv'
<1> DEFINE m == llmStream.model
<1>1. L!Source = <<m, r.attempt>>
  BY DEF Fed, L!Source
<1>2. StreamSound(llmStream') /\ llmStream'.pc = "off"
  BY DEF L!Settled, L!NoStream, StreamSound, StreamFields, IsSequence
<1>3. PICK v : v = L!Validated(r)
  OBVIOUS
<1>4. /\ DOMAIN v = RunFields /\ v.attempt = r.attempt /\ v.answer = L!NoAnswer
      /\ v.parts = r.parts /\ v.fed = r.fed
  BY <1>3 DEF L!Validated, L!Violates, Fed, RunFields
<1>5. CASE v.error # "none"
  <2>1. llmRun' = [v EXCEPT !.pc = "failed"]
    BY <1>3, <1>5 DEF L!Settled
  <2>2. PICK q : q = llmRun'
    OBVIOUS
  <2>3. /\ DOMAIN q = RunFields /\ q.attempt = r.attempt /\ q.answer = L!NoAnswer
        /\ q.parts = r.parts /\ q.pc = "failed"
    BY <1>4, <2>1, <2>2 DEF RunFields
  <2>4. q.parts \subseteq {<<m, q.attempt>>}
    BY <1>1, <2>3 DEF Fed
  <2>5. RunSound(llmStream', q)
    BY <1>2, <2>3, <2>4, NothingIsOneStream DEF RunSound
  <2> QED BY <1>2, <2>2, <2>5 DEF StreamInv
<1>6. CASE v.error = "none"
  <2>1. r.error = "none" /\ \A i \in DOMAIN r.fed : ~ r.fed[i].open
    BY <1>3, <1>6 DEF L!Validated, L!Violates, Fed, RunFields
  <2>2. PICK a : a = [finish |-> r.finish, parts |-> r.parts,
                      calls |-> IF r.finish = "max-tokens" THEN <<>> ELSE r.calls]
    OBVIOUS
  <2>3. llmRun' = [r EXCEPT !.pc = "done", !.answer = a]
    BY <1>3, <1>6, <2>2 DEF L!Settled
  <2>4. PICK q : q = llmRun'
    OBVIOUS
  <2>5. /\ DOMAIN q = RunFields /\ q.attempt = r.attempt /\ q.answer = a /\ q.pc = "done" /\ q.fed = r.fed
    BY <2>3, <2>4 DEF Fed, RunFields
  <2>6. ClosedTools(r.fed) = ToolBlocks(r.fed)
    BY <2>1 DEF ClosedTools, ToolBlocks
  <2>7. OneStream(q)
    <3>1. a.parts \subseteq {<<m, q.attempt>>}
      BY <1>1, <2>2, <2>5 DEF Fed
    <3>2. \A k \in DOMAIN a.calls : a.calls[k].from = <<m, q.attempt>>
      BY <1>1, <2>2, <2>5 DEF Fed
    <3>3. a.finish \in {"stop", "tool-calls"} => Len(a.calls) = Cardinality(ToolBlocks(r.fed))
      BY <2>2, <2>6 DEF Fed
    <3>4. a.finish \in {"max-tokens", "error", "cancelled"} => a.calls = <<>>
      BY <2>2 DEF Fed, L!Finishes
    <3> QED BY <2>5, <3>1, <3>2, <3>3, <3>4 DEF OneStream
  <2>8. RunSound(llmStream', q)
    BY <1>2, <2>5, <2>7 DEF RunSound
  <2> QED BY <1>2, <2>4, <2>8 DEF StreamInv
<1> QED BY <1>5, <1>6

\* A run that is asked for more.
LEMMA Asking ==
    ASSUME StreamInv, llmRun.pc \in {"requesting", "streaming"}
    PROVE  Fed(llmRun, L!Source, llmRun.pc)
BY DEF StreamInv, RunSound, L!Source

LEMMA AskedIsSound ==
    ASSUME StreamInv, llmRun.pc \in {"requesting", "streaming"}, llmRun.fed = <<>>,
           NEW st, st.pc # "off", StreamSound(st), NEW primary,
           llmStream' = st,
           \/ llmRun' = [llmRun EXCEPT !.pc = "streaming"]
           \/ llmRun' = [llmRun EXCEPT !.pc = "streaming", !.primary = primary]
    PROVE  StreamInv'
<1>1. Fed(llmRun, L!Source, llmRun.pc)
  BY Asking
<1>2. PICK q : q = llmRun'
  OBVIOUS
<1>3. /\ DOMAIN q = RunFields /\ q.attempt = llmRun.attempt /\ q.answer = llmRun.answer
      /\ q.parts = llmRun.parts /\ q.pc = "streaming" /\ q.fed = llmRun.fed /\ q.calls = llmRun.calls
      /\ q.finish = llmRun.finish
  BY <1>1, <1>2 DEF Fed, RunFields
<1>4. q.answer = L!NoAnswer /\ q.parts = {} /\ q.calls = <<>> /\ q.finish \in L!Finishes \cup {"none"}
  <2>1. Len(llmRun.calls) = 0
    <3>1. ClosedTools(<<>>) = {} /\ Cardinality({}) = 0
      BY FS_EmptySet DEF ClosedTools, ToolBlocks
    <3> QED BY <1>1, <3>1 DEF Fed
  <2>2. llmRun.calls = <<>>
    BY <1>1, <2>1 DEF Fed, IsSequence
  <2> QED BY <1>1, <1>3, <2>2 DEF Fed
<1>5. Fed(q, <<st.model, q.attempt>>, q.pc)
  BY <1>3, <1>4, EmptyIsFed
<1>6. RunSound(st, q)
  BY <1>3, <1>4, <1>5, NothingIsOneStream DEF RunSound
<1> QED BY <1>2, <1>6 DEF StreamInv

\* An error of the stream: the backup is asked, or the attempt ends.
LEMMA ErrsIsSound ==
    ASSUME StreamInv, llmRun.pc \in {"requesting", "streaming"},
           NEW chunks, Sendable(chunks), NEW code, L!Errs(chunks, code)
    PROVE  StreamInv'
<1>1. Fed(llmRun, L!Source, llmRun.pc)
  BY Asking
<1>2. CASE chunks = <<>> /\ L!CanFallback(code)
  <2>1. llmStream' = [L!NoStream EXCEPT !.pc = "closing"]
        /\ llmRun' = [llmRun EXCEPT !.pc = "streaming", !.primary = code]
    BY <1>2 DEF L!Errs
  <2>2. PICK st : st = llmStream'
    OBVIOUS
  <2>3. st.pc # "off" /\ StreamSound(st)
    BY <2>1, <2>2 DEF L!NoStream, StreamSound, StreamFields, IsSequence
  <2>4. llmRun.fed = <<>>
    BY <1>2 DEF L!CanFallback
  <2> QED BY <2>1, <2>2, <2>3, <2>4, AskedIsSound
<1>3. CASE ~ (chunks = <<>> /\ L!CanFallback(code))
  <2>1. PICK r, kind : r = L!FeedAll(llmRun, chunks) /\ L!Settled(L!FeedAll(r, <<L!Finish(kind)>>))
    BY <1>3 DEF L!Errs
  <2>2. Fed(r, L!Source, llmRun.pc)
    BY <1>1, <2>1, FeedAllKeeps
  <2>3. PICK q : q = L!FeedAll(r, <<L!Finish(kind)>>)
    OBVIOUS
  <2>4. Fed(q, L!Source, llmRun.pc)
    BY <2>2, <2>3, FinishIs, FeedAllKeeps
  <2> QED BY <2>1, <2>3, <2>4, SettledIsSound
<1> QED BY <1>2, <1>3

LEMMA AskedKeeps ==
    ASSUME StreamInv, llmRun.pc \in {"requesting", "streaming"}, llmRun.fed = <<>>,
           NEW model, L!Asked(model)
    PROVE  StreamInv'
<1>1. PICK protocol : /\ llmStream' = [L!NoStream EXCEPT !.pc = "open", !.model = model, !.protocol = protocol]
                      /\ llmRun' = [llmRun EXCEPT !.pc = "streaming"]
  BY DEF L!Asked
<1>2. PICK st : st = llmStream'
  OBVIOUS
<1>3. st.pc # "off" /\ StreamSound(st)
  BY <1>1, <1>2 DEF L!NoStream, StreamSound, StreamFields, IsSequence
<1> QED BY <1>1, <1>2, <1>3, AskedIsSound

\* The response goes on.
GoesOn(st) == StreamSound(st) /\ st.pc = "open" /\ st.model = llmStream.model

LEMMA OpenRun ==
    ASSUME StreamInv, llmStream.pc = "open"
    PROVE  GoesOn(llmStream) /\ llmRun.pc = "streaming" /\ Fed(llmRun, L!Source, "streaming")
<1>1. llmRun.pc = "streaming" /\ GoesOn(llmStream)
  BY DEF StreamInv, RunSound, GoesOn
<1> QED BY <1>1, Asking

LEMMA SendsIsSound ==
    ASSUME StreamInv, llmStream.pc = "open", NEW st, GoesOn(st), NEW chunks, Sendable(chunks),
           L!Sends(st, chunks)
    PROVE  StreamInv'
<1>1. PICK r : r = L!FeedAll(llmRun, chunks)
  OBVIOUS
<1>2. Fed(r, L!Source, "streaming")
  BY <1>1, OpenRun, FeedAllKeeps
<1>3. CASE r.error # "none"
  BY <1>1, <1>2, <1>3, SettledIsSound DEF L!Sends
<1>4. CASE r.error = "none"
  <2>1. llmStream' = st /\ llmRun' = r
    BY <1>1, <1>4 DEF L!Sends
  <2>2. L!Source = <<st.model, r.attempt>>
    BY <1>2 DEF Fed, L!Source, GoesOn
  <2>3. RunSound(st, r)
    BY <1>2, <2>2, NothingIsOneStream DEF Fed, RunSound, GoesOn
  <2> QED BY <2>1, <2>3 DEF StreamInv, GoesOn
<1> QED BY <1>3, <1>4

LEMMA IsSequenceOf == ASSUME NEW n \in Nat, NEW t, t = [j \in 1 .. n |-> t[j]] PROVE IsSequence(t)
<1>1. t \in Seq({t[j] : j \in 1 .. n})
  OBVIOUS
<1> QED BY <1>1 DEF IsSequence

LEMMA ToolChanged ==
    ASSUME NEW st, GoesOn(st), NEW k, NEW v, NEW st2, st2 = [st EXCEPT !.tools[k] = v]
    PROVE  GoesOn(st2)
<1>1. PICK t : t = [st.tools EXCEPT ![k] = v]
  OBVIOUS
<1>2. PICK n \in Nat : DOMAIN st.tools = 1 .. n
  BY DEF GoesOn, StreamSound, IsSequence
<1>3. t = [j \in 1 .. n |-> t[j]]
  BY <1>1, <1>2
<1>4. IsSequence(t)
  BY <1>3, IsSequenceOf
<1>5. /\ DOMAIN st2 = StreamFields /\ st2.pc = "open" /\ st2.model = llmStream.model /\ st2.tools = t
  BY <1>1 DEF GoesOn, StreamSound, StreamFields
<1> QED BY <1>4, <1>5 DEF GoesOn, StreamSound

LEMMA TouchedGoesOn == ASSUME NEW k, GoesOn(llmStream) PROVE GoesOn(L!Touched(k))
<1>1. CASE k \in DOMAIN llmStream.tools
  BY <1>1 DEF L!Touched
<1>2. CASE k \notin DOMAIN llmStream.tools
  <2>1. PICK st, t, s, e : /\ st = L!Touched(k) /\ s = llmStream.tools /\ e = L!NoTool /\ t = Append(s, e)
    OBVIOUS
  <2>2. st = [llmStream EXCEPT !.tools = t]
    BY <1>2, <2>1 DEF L!Touched
  <2>3. /\ DOMAIN st = StreamFields /\ st.pc = "open" /\ st.model = llmStream.model /\ st.tools = t
    BY <2>2 DEF GoesOn, StreamSound, StreamFields
  <2>4. PICK S : s \in Seq(S)
    BY <2>1 DEF GoesOn, StreamSound, IsSequence
  <2>5. \A v : v = Append(s, e) => IsSequence(v)
    BY <2>4, OneMore
  <2> QED BY <2>1, <2>3, <2>5 DEF GoesOn, StreamSound
<1> QED BY <1>1, <1>2

LEMMA WithDeltaIsSound ==
    ASSUME StreamInv, llmStream.pc = "open", NEW st, GoesOn(st), NEW k, L!WithDelta(st, k)
    PROVE  StreamInv'
<1>1. CASE st.tools[k].index > 0
  BY <1>1, ChunksAre, SendsIsSound DEF L!WithDelta
<1>2. CASE ~ (st.tools[k].index > 0)
  <2>1. PICK i : L!Sends([st EXCEPT !.tools[k].index = i], <<L!Start(i, "tool"), L!Delta(i, "tool")>>)
    BY <1>2 DEF L!WithDelta
  <2>2. PICK st2 : st2 = [st EXCEPT !.tools[k].index = i]
    OBVIOUS
  <2>3. GoesOn(st2)
    BY <2>2, ToolChanged
  <2> QED BY <2>1, <2>2, <2>3, ChunksAre, SendsIsSound
<1> QED BY <1>1, <1>2

\* The events of a response.
LEMMA EventsAreSound ==
    ASSUME StreamInv,
           \/ L!TextDelta
           \/ \E k \in L!Places : L!ToolDelta(k) \/ L!ItemAdded(k) \/ L!ArgumentsDelta(k) \/ L!ItemDone(k)
    PROVE  StreamInv'
<1>1. llmStream.pc = "open"
  BY DEF L!TextDelta, L!ToolDelta, L!ItemAdded, L!ArgumentsDelta, L!ItemDone, L!Reads
<1>2. GoesOn(llmStream)
  BY <1>1, OpenRun
<1>3. CASE L!TextDelta
  <2>1. CASE llmStream.text > 0
    BY <1>1, <1>2, <1>3, <2>1, ChunksAre, SendsIsSound DEF L!TextDelta
  <2>2. CASE ~ (llmStream.text > 0)
    <3>1. PICK i : L!Sends([llmStream EXCEPT !.text = i], <<L!Start(i, "text"), L!Delta(i, "text")>>)
      BY <1>3, <2>2 DEF L!TextDelta
    <3>2. PICK st : st = [llmStream EXCEPT !.text = i]
      OBVIOUS
    <3>3. GoesOn(st)
      BY <1>2, <3>2 DEF GoesOn, StreamSound, StreamFields
    <3> QED BY <1>1, <3>1, <3>2, <3>3, ChunksAre, SendsIsSound
  <2> QED BY <2>1, <2>2
<1>4. ASSUME NEW k \in L!Places, L!ToolDelta(k) PROVE StreamInv'
  <2>1. PICK new : LET st == [L!Touched(k) EXCEPT !.tools[k] = new]
                   IN  L!WithDelta(st, k) \/ L!Sends(st, <<>>)
    BY <1>4 DEF L!ToolDelta
  <2>2. PICK touched, st : touched = L!Touched(k) /\ st = [touched EXCEPT !.tools[k] = new]
    OBVIOUS
  <2>3. GoesOn(st)
    BY <1>2, <2>2, TouchedGoesOn, ToolChanged
  <2>4. L!WithDelta(st, k) \/ L!Sends(st, <<>>)
    BY <2>1, <2>2
  <2> QED BY <1>1, <2>3, <2>4, NoChunks, SendsIsSound, WithDeltaIsSound
<1>5. ASSUME NEW k \in L!Places, L!ItemAdded(k) PROVE StreamInv'
  <2>1. PICK touched : touched = L!Touched(k)
    OBVIOUS
  <2>2. PICK once : once = [touched EXCEPT !.tools[k].id = TRUE]
    OBVIOUS
  <2>3. PICK st : st = [once EXCEPT !.tools[k].name = TRUE]
    OBVIOUS
  <2>4. st = [touched EXCEPT !.tools[k].id = TRUE, !.tools[k].name = TRUE]
    BY <2>2, <2>3
  <2>5. L!Sends(st, <<>>)
    BY <1>5, <2>1, <2>4 DEF L!ItemAdded
  <2>6. GoesOn(once)
    BY <1>2, <2>1, <2>2, TouchedGoesOn, ToolChanged
  <2>7. GoesOn(st)
    BY <2>3, <2>6, ToolChanged
  <2> QED BY <1>1, <2>5, <2>7, NoChunks, SendsIsSound
<1>6. ASSUME NEW k \in L!Places, L!ArgumentsDelta(k) PROVE StreamInv'
  <2>1. PICK args : L!WithDelta([L!Touched(k) EXCEPT !.tools[k].args = args], k)
    BY <1>6 DEF L!ArgumentsDelta
  <2>2. PICK touched, st : touched = L!Touched(k) /\ st = [touched EXCEPT !.tools[k].args = args]
    OBVIOUS
  <2>3. GoesOn(st)
    BY <1>2, <2>2, TouchedGoesOn, ToolChanged
  <2> QED BY <1>1, <2>1, <2>2, <2>3, WithDeltaIsSound
<1>7. ASSUME NEW k \in L!Places, L!ItemDone(k) PROVE StreamInv'
  <2>1. PICK new, finish, i, args, old :
          /\ L!Sends([L!Touched(k) EXCEPT !.tools[k] = new, !.finish = IF @ = "none" THEN finish ELSE @],
                     (IF old THEN <<>> ELSE <<L!Start(i, "tool")>>) \o <<L!End(i, "tool", args)>>)
    BY <1>7 DEF L!ItemDone
  <2>2. PICK touched, once, st :
          /\ touched = L!Touched(k) /\ once = [touched EXCEPT !.tools[k] = new]
          /\ st = [touched EXCEPT !.tools[k] = new, !.finish = IF @ = "none" THEN finish ELSE @]
    OBVIOUS
  <2>3. GoesOn(once)
    BY <1>2, <2>2, TouchedGoesOn, ToolChanged
  <2>4. GoesOn(st)
    BY <2>2, <2>3 DEF GoesOn, StreamSound, StreamFields
  <2>5. PICK chunks : chunks = (IF old THEN <<>> ELSE <<L!Start(i, "tool")>>) \o <<L!End(i, "tool", args)>>
    OBVIOUS
  <2>6. Sendable(chunks)
    BY <2>5, ChunksAre, NoChunks, ChunksTogether
  <2> QED BY <1>1, <2>1, <2>2, <2>4, <2>5, <2>6, SendsIsSound
<1> QED BY <1>3, <1>4, <1>5, <1>6, <1>7

\* The response ends.
LEMMA EndsIsSound == ASSUME StreamInv, L!Ends PROVE StreamInv'
<1>1. llmStream.pc = "open" /\ Fed(llmRun, L!Source, "streaming") /\ llmRun.pc = "streaming"
  BY OpenRun DEF L!Ends
<1>2. Sendable(L!TextEnd) /\ Sendable(L!ToolEnds)
  BY EndsAre DEF StreamInv, StreamSound
<1>3. ASSUME NEW chunks, Sendable(chunks), L!Settled(L!FeedAll(llmRun, chunks)) PROVE StreamInv'
  <2>1. PICK q : q = L!FeedAll(llmRun, chunks)
    OBVIOUS
  <2>2. Fed(q, L!Source, "streaming")
    BY <1>1, <1>3, <2>1, FeedAllKeeps
  <2> QED BY <1>3, <2>1, <2>2, SettledIsSound
<1>4. ASSUME NEW chunks, Sendable(chunks), NEW code, L!Errs(chunks, code) PROVE StreamInv'
  BY <1>1, <1>4, ErrsIsSound
<1>5. \A kind : /\ Sendable(L!TextEnd \o L!ToolEnds \o <<L!Finish(kind)>>)
                /\ Sendable(L!TextEnd \o <<L!Finish(kind)>>)
  BY <1>2, FinishIs, ChunksTogether
<1>6. CASE L!EndOfCompletions
  BY <1>2, <1>3, <1>4, <1>5, <1>6, NoChunks DEF L!EndOfCompletions
<1>7. CASE L!EndOfResponses
  BY <1>2, <1>3, <1>4, <1>5, <1>7 DEF L!EndOfResponses
<1> QED BY <1>6, <1>7 DEF L!Ends

\* A stream that is left as it is, but for what the adapter has noted.
LEMMA NotedIsSound ==
    ASSUME StreamInv, UNCHANGED llmRun, NEW finish, NEW cancelled,
           llmStream' = [llmStream EXCEPT !.finish = finish] \/ llmStream' = [llmStream EXCEPT !.cancelled = cancelled]
    PROVE  StreamInv'
<1>1. PICK st : st = llmStream'
  OBVIOUS
<1>2. StreamSound(st) /\ st.pc = llmStream.pc /\ st.model = llmStream.model
  BY <1>1 DEF StreamInv, StreamSound, StreamFields
<1>3. RunSound(st, llmRun)
  BY <1>2 DEF StreamInv, RunSound
<1> QED BY <1>1, <1>2, <1>3 DEF StreamInv

\* The run is given up, put off or begun again while no response is read.
LEMMA RunIsOver ==
    ASSUME NEW q, DOMAIN q = RunFields, q.pc = "done", OneStream(q),
           llmRun' = q, llmStream' = L!NoStream \/ (StreamSound(llmStream) /\ llmStream.pc = "off" /\ UNCHANGED llmStream)
    PROVE  StreamInv'
<1>1. PICK st : st = llmStream'
  OBVIOUS
<1>2. StreamSound(st) /\ st.pc = "off"
  <2>1. CASE llmStream' = L!NoStream
    BY <1>1, <2>1 DEF L!NoStream, StreamSound, StreamFields, IsSequence
  <2>2. CASE StreamSound(llmStream) /\ llmStream.pc = "off" /\ UNCHANGED llmStream
    BY <1>1, <2>2
  <2> QED BY <2>1, <2>2
<1>3. RunSound(st, q)
  BY <1>2 DEF RunSound
<1> QED BY <1>1, <1>2, <1>3 DEF StreamInv

LEMMA StreamStep == StreamInv /\ [L!Next]_L!vars => StreamInv'
<1> SUFFICES ASSUME StreamInv, [L!Next]_L!vars PROVE StreamInv'
  OBVIOUS
<1>0. StreamSound(llmStream) /\ RunSound(llmStream, llmRun)
  BY DEF StreamInv
<1>1. CASE UNCHANGED <<llmStream, llmRun>>
  BY <1>1 DEF StreamInv
<1>2. CASE L!ChangeRoutes \/ UNCHANGED L!vars
  BY <1>1, <1>2 DEF L!ChangeRoutes, L!vars
<1>3. CASE L!CloseService
  BY <1>3, NotedIsSound DEF L!CloseService
<1>4. CASE L!Request
  <2>1. llmRun.pc = "requesting" /\ llmRun.fed = <<>>
    BY <1>0, <1>4 DEF L!Request, RunSound
  <2> QED BY <1>4, <2>1, NoChunks, AskedKeeps, ErrsIsSound DEF L!Request
<1>5. CASE L!RequestBackup
  <2>1. llmRun.pc = "streaming" /\ llmRun.fed = <<>> /\ Fed(llmRun, L!Source, "streaming")
    BY <1>0, <1>5, Asking DEF L!RequestBackup, RunSound
  <2>2. CASE L!Asked("backup")
    BY <2>1, <2>2, AskedKeeps
  <2>3. CASE L!Settled(L!Feed(llmRun, L!Finish(llmRun.primary)))
    <3>1. PICK c, q : c = L!Finish(llmRun.primary) /\ q = L!Feed(llmRun, c)
      OBVIOUS
    <3>2. IsChunk(c)
      BY <3>1 DEF L!Finish, L!Start, IsChunk
    <3>3. Fed(q, L!Source, "streaming")
      BY <2>1, <3>1, <3>2, FeedKeeps
    <3> QED BY <2>3, <3>1, <3>3, SettledIsSound
  <2> QED BY <1>5, <2>2, <2>3 DEF L!RequestBackup
<1>6. CASE L!TextDelta \/ \E k \in L!Places : L!ToolDelta(k) \/ L!ItemAdded(k) \/ L!ArgumentsDelta(k) \/ L!ItemDone(k)
  BY <1>6, EventsAreSound
<1>7. CASE L!Completed
  <2>1. PICK finish : llmStream' = [llmStream EXCEPT !.finish = finish]
    BY <1>7 DEF L!Completed
  <2> QED BY <1>7, <2>1, NotedIsSound DEF L!Completed
<1>8. CASE L!Ends
  BY <1>8, EndsIsSound
<1>9. ASSUME NEW code \in L!Codes, L!Breaks(code) PROVE StreamInv'
  <2>1. llmRun.pc = "streaming" /\ L!Errs(<<>>, code)
    BY <1>9, OpenRun DEF L!Breaks, L!Reads
  <2> QED BY <2>1, NoChunks, ErrsIsSound
<1>10. ASSUME NEW retry \in BOOLEAN, L!Decide(retry) PROVE StreamInv'
  <2>1. /\ llmRun.answer = L!NoAnswer /\ llmStream.pc = "off" /\ DOMAIN llmRun = RunFields
        /\ llmRun.pc = "failed"
    BY <1>0, <1>10 DEF L!Decide, RunSound
  <2>2. PICK m : llmRun.parts \subseteq {<<m, llmRun.attempt>>}
    BY <1>0, <1>10 DEF L!Decide, RunSound
  <2>3. PICK q : q = llmRun'
    OBVIOUS
  <2>4. CASE llmRun' = [llmRun EXCEPT !.pc = "sleeping"]
    <3>1. /\ DOMAIN q = RunFields /\ q.pc = "sleeping" /\ q.answer = llmRun.answer
          /\ q.parts = llmRun.parts /\ q.attempt = llmRun.attempt
      BY <2>1, <2>3, <2>4 DEF RunFields
    <3>2. RunSound(llmStream, q)
      BY <2>1, <2>2, <3>1, NothingIsOneStream DEF RunSound
    <3> QED BY <1>0, <1>10, <2>3, <3>2 DEF L!Decide, StreamInv
  <2>5. ASSUME NEW a, a = [finish |-> "error", parts |-> llmRun.parts, calls |-> <<>>],
               llmRun' = [llmRun EXCEPT !.pc = "done", !.answer = a]
        PROVE  StreamInv'
    <3>1. DOMAIN q = RunFields /\ q.pc = "done" /\ q.answer = a /\ q.attempt = llmRun.attempt
      BY <2>1, <2>3, <2>5 DEF RunFields
    <3>2. OneStream(q)
      BY <2>2, <2>5, <3>1 DEF OneStream
    <3> QED BY <1>0, <1>10, <2>1, <2>3, <3>1, <3>2, RunIsOver DEF L!Decide
  <2> QED BY <1>10, <2>4, <2>5 DEF L!Decide
<1>11. CASE L!Retry
  <2>1. llmStream.pc = "off"
    BY <1>0, <1>11 DEF L!Retry, RunSound
  <2>2. PICK q : q = llmRun'
    OBVIOUS
  <2>3. /\ DOMAIN q = RunFields /\ q.answer = L!NoAnswer /\ q.fed = <<>> /\ q.parts = {}
        /\ q.calls = <<>> /\ q.finish = "none" /\ q.pc = "requesting"
    BY <1>11, <2>2 DEF L!Retry, L!NextAttempt, L!NewRun, RunFields
  <2>4. RunSound(llmStream, q)
    BY <2>1, <2>3, NewRunIsSound
  <2> QED BY <1>0, <1>11, <2>2, <2>4 DEF L!Retry, StreamInv
<1>12. CASE L!Cancel
  <2>1. PICK a : a = [finish |-> "cancelled", parts |-> IF llmRun.pc = "streaming" THEN llmRun.parts ELSE {},
                      calls |-> <<>>]
    OBVIOUS
  <2>2. PICK q : q = llmRun'
    OBVIOUS
  <2>3. DOMAIN q = RunFields /\ q.pc = "done" /\ q.answer = a /\ q.attempt = llmRun.attempt
    BY <1>0, <1>12, <2>1, <2>2 DEF L!Cancel, RunSound, RunFields
  <2>4. a.parts \subseteq {<<llmStream.model, llmRun.attempt>>}
    BY <1>0, <2>1 DEF RunSound, Fed
  <2>5. a.calls = <<>> /\ a.finish = "cancelled" /\ \A k \in DOMAIN <<>> : FALSE
    BY <2>1
  <2>6. \A k \in DOMAIN q.answer.calls : FALSE
    BY <2>3, <2>5
  <2>7. OneStream(q)
    BY <2>3, <2>4, <2>5, <2>6 DEF OneStream
  <2> QED BY <1>12, <2>2, <2>3, <2>7, RunIsOver DEF L!Cancel
<1> QED BY <1>2, <1>3, <1>4, <1>5, <1>6, <1>7, <1>8, <1>9, <1>10, <1>11, <1>12 DEF L!Next

-----------------------------------------------------------------------------
(* The requests to the model.  What a message of the context becomes, what *)
(* is left of it when the pairs are complete and the items of the result   *)
(* are sequences; the lemmas say where each element comes from, so that a  *)
(* call and a result that are once in the context are once in each.        *)

LEMMA RequestCardinality == ASSUME NEW s PROVE R!Cardinality(s) = Cardinality(s)
BY DEF R!Cardinality, Cardinality

\* InOrder numbers the indices of a set from the first on.
LEMMA IndicesInOrder ==
    ASSUME NEW n \in Nat, NEW S \in SUBSET (1 .. n)
    PROVE  /\ IsFiniteSet(S) /\ Cardinality(S) \in Nat
           /\ R!InOrder(S) \in [1 .. Cardinality(S) -> S]
           /\ \A k, l \in 1 .. Cardinality(S) : k < l => R!InOrder(S)[k] < R!InOrder(S)[l]
           /\ \A i \in S : \E k \in 1 .. Cardinality(S) : R!InOrder(S)[k] = i
<1> DEFINE UpTo(i) == {j \in S : j <= i}
           o == R!InOrder(S)
<1>0. \A i \in S : i \in 1 .. n /\ i \in Nat
  OBVIOUS
<1>1. IsFiniteSet(S) /\ Cardinality(S) \in Nat
  <2>1. IsFiniteSet(1 .. n)
    BY FS_Interval
  <2> QED BY <2>1, FS_Subset, FS_CardinalityType
<1>2. \A i : IsFiniteSet(UpTo(i)) /\ Cardinality(UpTo(i)) \in Nat /\ Cardinality(UpTo(i)) <= Cardinality(S)
  BY <1>1, FS_Subset, FS_CardinalityType
<1>3. ASSUME NEW i \in S, NEW j \in S, i < j
      PROVE  Cardinality(UpTo(i)) < Cardinality(UpTo(j))
  <2>1. UpTo(i) \subseteq UpTo(j) /\ UpTo(i) # UpTo(j)
    <3>1. \A x \in UpTo(i) : x \in UpTo(j)
      BY <1>0, <1>3
    <3>2. j \in UpTo(j) /\ j \notin UpTo(i)
      BY <1>0, <1>3
    <3> HIDE DEF UpTo
    <3> QED BY <3>1, <3>2
  <2> QED BY <1>2, <2>1, FS_Subset, FS_CardinalityType
<1>4. ASSUME NEW i \in S PROVE Cardinality(UpTo(i)) \in 1 .. Cardinality(S)
  <2>1. UpTo(i) # {}
    OBVIOUS
  <2> HIDE DEF UpTo
  <2> QED BY <1>2, <2>1, FS_EmptySet
<1>5. ASSUME NEW k \in 1 .. Cardinality(S) PROVE \E i \in S : Cardinality(UpTo(i)) = k
  <2> DEFINE A == {i \in 1 .. n : k <= Cardinality(UpTo(i))}
  <2>1. n \in A
    <3>1. UpTo(n) = S
      <4>1. \A j \in S : j <= n
        BY <1>0
      <4> QED BY <4>1
    <3>2. n # 0
      <4> SUFFICES ASSUME n = 0 PROVE FALSE
        OBVIOUS
      <4>1. S = {}
        OBVIOUS
      <4> QED BY <4>1, FS_EmptySet
    <3> QED BY <3>1, <3>2, <1>1
  <2>2. PICK i \in A : \A j \in A : i <= j
    <3>1. A \in SUBSET Nat
      OBVIOUS
    <3> HIDE DEF A
    <3> QED BY <2>1, <3>1, LeastOf
  <2>3. Cardinality(UpTo(i - 1)) < k
    <3>1. CASE i = 1
      <4>1. UpTo(i - 1) = {}
        <5>1. \A j \in S : ~ j <= i - 1
          BY <1>0, <3>1
        <5> QED BY <5>1
      <4> QED BY <4>1, FS_EmptySet
    <3>2. CASE i # 1
      <4>1. i - 1 \in 1 .. n
        BY <2>2, <3>2
      <4>2. i - 1 \notin A
        <5> HIDE DEF A
        <5>1. i \in 1 .. n
          BY <2>2 DEF A
        <5> QED BY <2>2, <4>1, <5>1
      <4> HIDE DEF UpTo
      <4> QED BY <4>1, <4>2, <1>2
    <3> QED BY <3>1, <3>2
  <2>4. i \in S /\ UpTo(i) = UpTo(i - 1) \cup {i} /\ i \notin UpTo(i - 1)
    <3>1. i \in S
      <4> SUFFICES ASSUME i \notin S PROVE FALSE
        OBVIOUS
      <4>1. UpTo(i) = UpTo(i - 1)
        <5>1. \A j \in S : j <= i <=> j <= i - 1
          BY <1>0, <2>2
        <5> QED BY <5>1
      <4> HIDE DEF UpTo
      <4> QED BY <2>2, <2>3, <4>1, <1>2
    <3>2. \A j \in S : j <= i <=> j <= i - 1 \/ j = i
      BY <1>0, <2>2
    <3>3. ~ i <= i - 1
      BY <2>2
    <3>4. UpTo(i) = UpTo(i - 1) \cup {i}
      BY <3>1, <3>2
    <3> QED BY <3>1, <3>3, <3>4
  <2>5. Cardinality(UpTo(i)) = Cardinality(UpTo(i - 1)) + 1
    <3> HIDE DEF UpTo
    <3> QED BY <1>2, <2>4, FS_AddElement
  <2>6. k <= Cardinality(UpTo(i)) /\ k \in Nat
    BY <2>2
  <2> HIDE DEF UpTo, A
  <2> QED BY <1>2, <2>3, <2>4, <2>5, <2>6
<1>6. o = [k \in 1 .. Cardinality(S) |-> CHOOSE i \in S : Cardinality(UpTo(i)) = k]
  BY DEF R!InOrder, R!Cardinality, Cardinality
<1> HIDE DEF UpTo, o
<1>7. \A k \in 1 .. Cardinality(S) : o[k] \in S /\ Cardinality(UpTo(o[k])) = k
  BY <1>5, <1>6
<1>8. o \in [1 .. Cardinality(S) -> S]
  BY <1>6, <1>7
<1>9. ASSUME NEW i \in S, NEW j \in S, Cardinality(UpTo(i)) = Cardinality(UpTo(j)) PROVE i = j
  BY <1>3, <1>4, <1>9
<1>10. \A k, l \in 1 .. Cardinality(S) : k < l => o[k] < o[l]
  <2> SUFFICES ASSUME NEW k \in 1 .. Cardinality(S), NEW l \in 1 .. Cardinality(S), k < l, ~ o[k] < o[l]
               PROVE  FALSE
    OBVIOUS
  <2>1. o[k] # o[l]
    BY <1>7, <1>1
  <2>2. o[l] \in S /\ o[k] \in S /\ o[l] \in Nat /\ o[k] \in Nat
    BY <1>0, <1>7
  <2>3. o[l] < o[k]
    BY <2>1, <2>2
  <2>4. Cardinality(UpTo(o[l])) < Cardinality(UpTo(o[k]))
    BY <1>3, <2>2, <2>3
  <2> QED BY <1>7, <2>4
<1>11. \A i \in S : \E k \in 1 .. Cardinality(S) : o[k] = i
  BY <1>4, <1>7, <1>9
<1> QED BY <1>1, <1>8, <1>10, <1>11 DEF o

\* Neighbours stay neighbours.
LEMMA NeighboursInOrder ==
    ASSUME NEW n \in Nat, NEW S \in SUBSET (1 .. n), NEW k \in 1 .. Cardinality(S),
           R!InOrder(S)[k] + 1 \in S
    PROVE  k + 1 \in 1 .. Cardinality(S) /\ R!InOrder(S)[k + 1] = R!InOrder(S)[k] + 1
<1> DEFINE o == R!InOrder(S)
<1> HIDE DEF o
<1>0. \A i \in S : i \in Nat
  OBVIOUS
<1>1. /\ Cardinality(S) \in Nat /\ o \in [1 .. Cardinality(S) -> S]
      /\ \A i, l \in 1 .. Cardinality(S) : i < l => o[i] < o[l]
      /\ o[k] + 1 \in S
  BY IndicesInOrder DEF o
<1>2. PICK l \in 1 .. Cardinality(S) : o[l] = o[k] + 1
  BY <1>1, IndicesInOrder DEF o
<1>3. k < l
  <2>1. o[k] \in Nat /\ o[l] \in Nat
    BY <1>0, <1>1
  <2> QED BY <1>1, <1>2, <2>1
<1>4. k + 1 \in 1 .. Cardinality(S) /\ o[k] < o[k + 1]
  BY <1>1, <1>3
<1>5. l = k + 1
  <2> SUFFICES ASSUME k + 1 < l PROVE FALSE
    BY <1>1, <1>3
  <2>1. o[k + 1] < o[l]
    BY <1>1, <1>4
  <2>2. o[k] \in Nat /\ o[k + 1] \in Nat
    BY <1>0, <1>1, <1>4
  <2> QED BY <1>2, <1>4, <2>1, <2>2
<1> QED BY <1>2, <1>4, <1>5 DEF o

\* What FlattenSeq puts where: the elements of the n-th sequence after
\* those of the ones before it.
FlatAt(flat, at, seqs) ==
    /\ at \in [1 .. Len(seqs) -> Nat]
    /\ \A m \in DOMAIN seqs : \A k \in DOMAIN seqs[m] :
          at[m] + k \in DOMAIN flat /\ flat[at[m] + k] = seqs[m][k]
    /\ \A p \in DOMAIN flat : \E m \in DOMAIN seqs : \E k \in DOMAIN seqs[m] : p = at[m] + k
    /\ \A m, l \in DOMAIN seqs : m < l => at[m] + Len(seqs[m]) <= at[l]

LEMMA PlaceBehind ==
    ASSUME NEW a \in Nat, NEW w \in Nat
    PROVE  /\ \A k \in 1 .. w : a + k \in 1 .. a + w
           /\ \A p \in 1 .. a : p \in 1 .. a + w
           /\ \A p \in 1 .. a + w : p \in 1 .. a \/ (p - a \in 1 .. w /\ p = a + (p - a))
OBVIOUS

LEMMA FlatSequence ==
    ASSUME NEW Elements, NEW seqs \in Seq(Seq(Elements))
    PROVE  R!FlattenSeq(seqs) \in Seq(Elements) /\ \E at : FlatAt(R!FlattenSeq(seqs), at, seqs)
<1> DEFINE n == Len(seqs)
           flat == R!FlattenSeq(seqs)
<1>1. n \in Nat /\ DOMAIN seqs = 1 .. n /\ \A m \in 1 .. n : seqs[m] \in Seq(Elements)
  OBVIOUS
<1>2. CASE n = 0
  <2>1. flat = <<>> /\ seqs = <<>>
    BY <1>2 DEF R!FlattenSeq
  <2>2. FlatAt(<<>>, <<>>, <<>>)
    BY DEF FlatAt
  <2> QED BY <2>1, <2>2
<1>3. CASE n # 0
  <2> DEFINE Through(f, m) == f = [i \in 1 .. m |-> IF i = 1 THEN seqs[i] ELSE f[i - 1] \o seqs[i]]
  <2>1. \A m \in Nat : \E f : Through(f, m)
    <3> DEFINE Bad == {m \in Nat : ~ \E f : Through(f, m)}
    <3> SUFFICES ASSUME Bad # {} PROVE FALSE
      OBVIOUS
    <3>1. PICK m \in Bad : \A y \in Bad : m <= y
      BY LeastOf
    <3>0. \E f : Through(f, 0)
      <4>1. PICK f : f = [i \in 1 .. 0 |-> 0]
        OBVIOUS
      <4>2. \A i \in 1 .. 0 : FALSE
        OBVIOUS
      <4>3. Through(f, 0)
        BY <4>1, <4>2
      <4> QED BY <4>3
    <3>2. m # 0
      <4> HIDE DEF Through
      <4> QED BY <3>0, <3>1
    <3>3. m \in Nat /\ m - 1 \in Nat /\ m - 1 \notin Bad
      <4>1. m \in Nat
        BY <3>1
      <4>2. m - 1 \in Nat /\ ~ m <= m - 1
        BY <3>2, <4>1
      <4> HIDE DEF Bad
      <4> QED BY <3>1, <4>1, <4>2
    <3>4. PICK f : Through(f, m - 1)
      BY <3>3
    <3>5. PICK g : g = [i \in 1 .. m |-> IF i = m THEN (IF m = 1 THEN seqs[m] ELSE f[m - 1] \o seqs[m]) ELSE f[i]]
      OBVIOUS
    <3>6. \A i \in 1 .. m : g[i] = IF i = 1 THEN seqs[i] ELSE g[i - 1] \o seqs[i]
      <4> SUFFICES ASSUME NEW i \in 1 .. m
                   PROVE  g[i] = IF i = 1 THEN seqs[i] ELSE g[i - 1] \o seqs[i]
        OBVIOUS
      <4>1. CASE i = m
        <5>1. i # 1 => i - 1 \in 1 .. m /\ i - 1 # m
          BY <3>3
        <5> QED BY <3>5, <4>1, <5>1
      <4>2. CASE i # m
        <5>1. i \in 1 .. m - 1 /\ (i # 1 => i - 1 \in 1 .. m /\ i - 1 # m)
          BY <3>3, <4>2
        <5>2. g[i] = f[i] /\ (i # 1 => g[i - 1] = f[i - 1])
          BY <3>5, <4>2, <5>1
        <5> QED BY <3>4, <5>1, <5>2
      <4> QED BY <4>1, <4>2
    <3>7. Through(g, m)
      BY <3>5, <3>6
    <3> QED BY <3>1, <3>7
  <2> DEFINE f == CHOOSE h : h = [i \in 1 .. n |-> IF i = 1 THEN seqs[i] ELSE h[i - 1] \o seqs[i]]
  <2>2. f = [i \in 1 .. n |-> IF i = 1 THEN seqs[i] ELSE f[i - 1] \o seqs[i]]
    <3>1. \E h : h = [i \in 1 .. n |-> IF i = 1 THEN seqs[i] ELSE h[i - 1] \o seqs[i]]
      BY <1>1, <2>1
    <3> QED BY <3>1
  <2>3. flat = f[n]
    BY <1>3 DEF R!FlattenSeq
  <2> HIDE DEF f
  <2>4. /\ f[1] = seqs[1]
        /\ \A i \in 2 .. n : i \in 1 .. n /\ i - 1 \in 1 .. n /\ f[i] = f[i - 1] \o seqs[i]
    <3>1. \A i \in 1 .. n : f[i] = IF i = 1 THEN seqs[i] ELSE f[i - 1] \o seqs[i]
      BY <2>2
    <3>2. 1 \in 1 .. n
      BY <1>1, <1>3
    <3>3. \A i \in 2 .. n : i \in 1 .. n /\ i - 1 \in 1 .. n /\ i # 1
      BY <1>1
    <3> QED BY <3>1, <3>2, <3>3
  <2> DEFINE at == [i \in 1 .. n |-> IF i = 1 THEN 0 ELSE Len(f[i - 1])]
             Good(m) ==
               /\ f[m] \in Seq(Elements)
               /\ \A l \in 1 .. m : \A k \in DOMAIN seqs[l] :
                     at[l] + k \in DOMAIN f[m] /\ f[m][at[l] + k] = seqs[l][k]
               /\ \A p \in DOMAIN f[m] : \E l \in 1 .. m : \E k \in DOMAIN seqs[l] : p = at[l] + k
               /\ \A l \in 1 .. m : at[l] \in Nat /\ at[l] + Len(seqs[l]) <= Len(f[m])
               /\ \A j, l \in 1 .. m : j < l => at[j] + Len(seqs[j]) <= at[l]
  <2>5. at[1] = 0 /\ \A i \in 2 .. n : at[i] = Len(f[i - 1])
    <3>1. 1 \in 1 .. n /\ \A i \in 2 .. n : i \in 1 .. n /\ i # 1
      BY <1>1, <1>3
    <3> QED BY <3>1
  <2>6. DOMAIN at = 1 .. n
    OBVIOUS
  <2> HIDE DEF at
  <2>7. Good(1)
    <3>1. \A l \in 1 .. 1 : l = 1
      OBVIOUS
    <3>2. seqs[1] \in Seq(Elements) /\ 1 \in 1 .. 1
      BY <1>1, <1>3
    <3>3. \A k \in DOMAIN seqs[1] : 0 + k = k
      BY <3>2
    <3>4. Len(seqs[1]) \in Nat /\ 0 + Len(seqs[1]) <= Len(seqs[1])
      BY <3>2
    <3> QED BY <2>4, <2>5, <3>1, <3>2, <3>3, <3>4
  <2>8. ASSUME NEW m \in 2 .. n, Good(m - 1) PROVE Good(m)
    <3>1. /\ f[m - 1] \in Seq(Elements) /\ seqs[m] \in Seq(Elements) /\ f[m] = f[m - 1] \o seqs[m]
          /\ at[m] = Len(f[m - 1]) /\ m \in Nat
      <4>1. f[m - 1] \in Seq(Elements)
        BY <2>8
      <4>2. m \in Nat /\ m \in 1 .. n
        BY <1>1
      <4> QED BY <1>1, <2>4, <2>5, <4>1, <4>2
    <3>2. /\ f[m] \in Seq(Elements) /\ Len(f[m]) = at[m] + Len(seqs[m]) /\ at[m] \in Nat
          /\ DOMAIN f[m] = 1 .. at[m] + Len(seqs[m])
          /\ \A p \in 1 .. at[m] : f[m][p] = f[m - 1][p]
          /\ \A k \in DOMAIN seqs[m] : f[m][at[m] + k] = seqs[m][k]
          /\ DOMAIN seqs[m] = 1 .. Len(seqs[m]) /\ DOMAIN f[m - 1] = 1 .. at[m]
          /\ Len(seqs[m]) \in Nat
      <4> DEFINE s == f[m - 1]
                 t == seqs[m]
                 a == at[m]
      <4>1. s \in Seq(Elements) /\ t \in Seq(Elements) /\ a = Len(s) /\ f[m] = s \o t
        BY <3>1
      <4> HIDE DEF s, t, a
      <4>2. /\ s \o t \in Seq(Elements) /\ Len(s \o t) = a + Len(t)
            /\ a \in Nat /\ Len(t) \in Nat
            /\ DOMAIN s = 1 .. a /\ DOMAIN t = 1 .. Len(t) /\ DOMAIN (s \o t) = 1 .. a + Len(t)
            /\ \A p \in 1 .. a : (s \o t)[p] = s[p]
            /\ \A k \in 1 .. Len(t) : (s \o t)[a + k] = t[k]
        BY <4>1
      <4>3. /\ f[m] \in Seq(Elements) /\ Len(f[m]) = a + Len(t) /\ a \in Nat
            /\ DOMAIN f[m] = 1 .. a + Len(t)
            /\ \A p \in 1 .. a : f[m][p] = s[p]
            /\ \A k \in DOMAIN t : f[m][a + k] = t[k]
            /\ DOMAIN t = 1 .. Len(t) /\ DOMAIN s = 1 .. a
            /\ Len(t) \in Nat
        BY <4>1, <4>2
      <4> QED BY <4>3 DEF s, t, a
    <3>10. /\ \A k \in 1 .. Len(seqs[m]) : at[m] + k \in 1 .. at[m] + Len(seqs[m])
           /\ \A p \in 1 .. at[m] : p \in 1 .. at[m] + Len(seqs[m])
           /\ \A p \in 1 .. at[m] + Len(seqs[m]) :
                 p \in 1 .. at[m] \/ (p - at[m] \in 1 .. Len(seqs[m]) /\ p = at[m] + (p - at[m]))
      <4> DEFINE a == at[m]
                 w == Len(seqs[m])
      <4>1. a \in Nat /\ w \in Nat
        BY <3>2
      <4> HIDE DEF a, w
      <4>2. /\ \A k \in 1 .. w : a + k \in 1 .. a + w
            /\ \A p \in 1 .. a : p \in 1 .. a + w
            /\ \A p \in 1 .. a + w : p \in 1 .. a \/ (p - a \in 1 .. w /\ p = a + (p - a))
        BY <4>1, PlaceBehind
      <4> QED BY <4>2 DEF a, w
    <3>3. \A l \in 1 .. m : l = m \/ (l \in 1 .. m - 1 /\ l \in 1 .. n)
      OBVIOUS
    <3>4. \A l \in 1 .. m - 1 : l \in 1 .. m
      BY <3>1
    <3>5. \A l \in 1 .. n : Len(seqs[l]) \in Nat
      BY <1>1
    <3> HIDE <2>8
    <3>6. ASSUME NEW l \in 1 .. m, NEW k \in DOMAIN seqs[l]
          PROVE  at[l] + k \in DOMAIN f[m] /\ f[m][at[l] + k] = seqs[l][k]
      <4>1. CASE l = m
        <5>1. k \in 1 .. Len(seqs[m])
          BY <3>2, <4>1
        <5>2. at[m] + k \in 1 .. at[m] + Len(seqs[m])
          BY <3>10, <5>1
        <5> QED BY <3>2, <4>1, <5>1, <5>2
      <4>2. CASE l \in 1 .. m - 1
        <5>1. at[l] + k \in 1 .. at[m] /\ f[m - 1][at[l] + k] = seqs[l][k]
          BY <2>8, <3>2, <4>2
        <5>2. at[l] + k \in 1 .. at[m] + Len(seqs[m])
          BY <3>10, <5>1
        <5> QED BY <3>2, <5>1, <5>2
      <4> QED BY <3>3, <4>1, <4>2
    <3>7. ASSUME NEW p \in DOMAIN f[m]
          PROVE  \E l \in 1 .. m : \E k \in DOMAIN seqs[l] : p = at[l] + k
      <4>1. CASE p \in 1 .. at[m]
        <5>1. \E l \in 1 .. m - 1 : \E k \in DOMAIN seqs[l] : p = at[l] + k
          <6>1. \A q \in DOMAIN f[m - 1] : \E l \in 1 .. m - 1 : \E k \in DOMAIN seqs[l] : q = at[l] + k
            BY <2>8
          <6>2. p \in DOMAIN f[m - 1]
            BY <3>2, <4>1
          <6> QED BY <6>1, <6>2
        <5> QED BY <3>4, <5>1
      <4>2. CASE p \notin 1 .. at[m]
        <5>1. p - at[m] \in DOMAIN seqs[m] /\ p = at[m] + (p - at[m])
          <6>1. p \in 1 .. at[m] + Len(seqs[m]) /\ DOMAIN seqs[m] = 1 .. Len(seqs[m])
            BY <3>2
          <6> QED BY <3>10, <4>2, <6>1
        <5>2. m \in 1 .. m
          BY <3>1
        <5> QED BY <5>1, <5>2
      <4> QED BY <4>1, <4>2
    <3>8. \A l \in 1 .. m : at[l] \in Nat /\ at[l] + Len(seqs[l]) <= Len(f[m])
      <4> SUFFICES ASSUME NEW l \in 1 .. m PROVE at[l] \in Nat /\ at[l] + Len(seqs[l]) <= Len(f[m])
        OBVIOUS
      <4>1. CASE l = m
        BY <3>2, <4>1
      <4>2. CASE l \in 1 .. m - 1 /\ l \in 1 .. n
        <5>1. at[l] \in Nat /\ at[l] + Len(seqs[l]) <= at[m] /\ Len(seqs[l]) \in Nat
          BY <2>8, <3>1, <3>5, <4>2
        <5>2. at[m] \in Nat /\ Len(f[m]) = at[m] + Len(seqs[m]) /\ Len(seqs[m]) \in Nat
          BY <3>2
        <5> DEFINE a == at[l]
                   b == at[m]
                   v == Len(seqs[l])
                   w == Len(seqs[m])
        <5>3. a \in Nat /\ b \in Nat /\ v \in Nat /\ w \in Nat /\ a + v <= b /\ Len(f[m]) = b + w
          BY <5>1, <5>2
        <5> HIDE DEF a, b, v, w
        <5>4. a + v <= b + w
          BY <5>3
        <5> QED BY <5>3, <5>4 DEF a, v
      <4> QED BY <3>3, <4>1, <4>2
    <3>9. \A j, l \in 1 .. m : j < l => at[j] + Len(seqs[j]) <= at[l]
      <4> SUFFICES ASSUME NEW j \in 1 .. m, NEW l \in 1 .. m, j < l
                   PROVE  at[j] + Len(seqs[j]) <= at[l]
        OBVIOUS
      <4>1. j \in 1 .. m - 1
        BY <3>1
      <4>2. CASE l = m
        BY <2>8, <3>1, <4>1, <4>2
      <4>3. CASE l \in 1 .. m - 1
        BY <2>8, <4>1, <4>3
      <4> QED BY <3>3, <4>2, <4>3
    <3> QED BY <3>2, <3>6, <3>7, <3>8, <3>9
  <2> HIDE DEF Good
  <2>9. \A m \in 1 .. n : Good(m)
    <3> DEFINE Bad == {m \in 1 .. n : ~ Good(m)}
    <3> SUFFICES ASSUME Bad # {} PROVE FALSE
      OBVIOUS
    <3>1. Bad \in SUBSET Nat
      BY <1>1
    <3>2. PICK m \in Bad : \A y \in Bad : m <= y
      <4> HIDE DEF Bad
      <4> QED BY <3>1, LeastOf
    <3>3. m \in 1 .. n /\ ~ Good(m)
      OBVIOUS
    <3>4. m # 1 => m \in 2 .. n /\ m - 1 \in 1 .. n /\ ~ m <= m - 1
      BY <1>1, <3>3
    <3>5. m # 1 => Good(m - 1)
      BY <3>2, <3>4
    <3> HIDE DEF Bad
    <3> QED BY <2>7, <2>8, <3>3, <3>4, <3>5
  <2>10. Good(n)
    BY <1>1, <1>3, <2>9
  <2>11. at \in [1 .. n -> Nat]
    <3>1. \A i \in 1 .. n : at[i] \in Nat
      BY <2>10 DEF Good
    <3>2. at = [i \in 1 .. n |-> at[i]]
      BY DEF at
    <3> QED BY <3>1, <3>2
  <2>12. FlatAt(f[n], at, seqs) /\ f[n] \in Seq(Elements)
    <3>1. at \in [1 .. Len(seqs) -> Nat]
      BY <2>11
    <3>2. /\ f[n] \in Seq(Elements)
          /\ \A l \in 1 .. n : \A k \in DOMAIN seqs[l] :
                at[l] + k \in DOMAIN f[n] /\ f[n][at[l] + k] = seqs[l][k]
          /\ \A p \in DOMAIN f[n] : \E l \in 1 .. n : \E k \in DOMAIN seqs[l] : p = at[l] + k
          /\ \A j, l \in 1 .. n : j < l => at[j] + Len(seqs[j]) <= at[l]
      BY <2>10 DEF Good
    <3>3. DOMAIN seqs = 1 .. n
      BY <1>1
    <3> HIDE DEF n
    <3>4. \A l \in DOMAIN seqs : \A k \in DOMAIN seqs[l] :
             at[l] + k \in DOMAIN f[n] /\ f[n][at[l] + k] = seqs[l][k]
      BY <3>2, <3>3
    <3>6. \A p \in DOMAIN f[n] : \E l \in DOMAIN seqs : \E k \in DOMAIN seqs[l] : p = at[l] + k
      <4> SUFFICES ASSUME NEW p \in DOMAIN f[n]
                   PROVE  \E l \in DOMAIN seqs : \E k \in DOMAIN seqs[l] : p = at[l] + k
        OBVIOUS
      <4>1. PICK l \in 1 .. n : \E k \in DOMAIN seqs[l] : p = at[l] + k
        BY <3>2
      <4>2. l \in DOMAIN seqs
        BY <3>3
      <4> QED BY <4>1, <4>2
    <3>5. \A j, l \in DOMAIN seqs : j < l => at[j] + Len(seqs[j]) <= at[l]
      BY <3>2, <3>3
    <3> QED BY <3>1, <3>2, <3>4, <3>5, <3>6 DEF FlatAt
  <2> QED BY <2>3, <2>12
<1> QED BY <1>2, <1>3

\* The blocks of a context, of which a call and a result are there once.
RequestBlock == [kind : {"text", "thinking", "hint", "call", "result"}, call : ToolCalls \cup {"none"}]
ContextMessage == [role : {"user", "assistant"}, blocks : Seq(RequestBlock)]
Paired(b) == b.kind \in {"call", "result"}
RequestInv ==
    /\ llmContext \in Seq(ContextMessage)
    /\ \A m \in DOMAIN llmContext : \A i \in DOMAIN llmContext[m].blocks :
          /\ llmContext[m].role = "user" => llmContext[m].blocks[i].kind = "text"
          /\ Paired(llmContext[m].blocks[i]) => llmContext[m].blocks[i].call \in ToolCalls
    /\ \A m, l \in DOMAIN llmContext :
          \A i \in DOMAIN llmContext[m].blocks : \A j \in DOMAIN llmContext[l].blocks :
             Paired(llmContext[m].blocks[i]) /\ llmContext[m].blocks[i] = llmContext[l].blocks[j]
             => m = l /\ i = j

\* A block that may be added to a message of this role.
Addable(b, role) ==
    /\ b \in RequestBlock
    /\ role = "user" => b.kind = "text"
    /\ Paired(b) => b.call \in ToolCalls /\ R!Holds(b) = {}

LEMMA NotHeld ==
    ASSUME NEW b, R!Holds(b) = {}, NEW m \in DOMAIN llmContext, NEW i \in DOMAIN llmContext[m].blocks
    PROVE  llmContext[m].blocks[i] # b
<1>1. m \notin R!Holds(b)
  OBVIOUS
<1> QED BY <1>1 DEF R!Holds, R!ToSet

LEMMA MessageAdded ==
    ASSUME RequestInv, NEW role \in {"user", "assistant"}, NEW b, Addable(b, role),
           llmContext' = Append(llmContext, R!Said(role, <<b>>))
    PROVE  RequestInv'
<1> DEFINE n == Len(llmContext)
           new == R!Said(role, <<b>>)
<1>1. llmContext \in Seq(ContextMessage) /\ n \in Nat /\ DOMAIN llmContext = 1 .. n
  BY DEF RequestInv
<1>2. new \in ContextMessage /\ new.role = role /\ new.blocks = <<b>> /\ DOMAIN new.blocks = {1}
  BY DEF Addable, R!Said, ContextMessage
<1> HIDE DEF new
<1>3. /\ llmContext' \in Seq(ContextMessage) /\ DOMAIN llmContext' = 1 .. n + 1
      /\ \A m \in 1 .. n : llmContext'[m] = llmContext[m]
      /\ llmContext'[n + 1] = new
  BY <1>1, <1>2 DEF new
<1>4. \A m \in DOMAIN llmContext' : m \in DOMAIN llmContext \/ m = n + 1
  BY <1>1, <1>3
<1>5. \A m \in DOMAIN llmContext' : \A i \in DOMAIN llmContext'[m].blocks :
         \/ /\ m \in DOMAIN llmContext /\ i \in DOMAIN llmContext[m].blocks
            /\ llmContext'[m] = llmContext[m]
         \/ m = n + 1 /\ i = 1 /\ llmContext'[m].role = role /\ llmContext'[m].blocks[i] = b
  BY <1>1, <1>2, <1>3, <1>4
<1>6. \A m \in DOMAIN llmContext : \A i \in DOMAIN llmContext[m].blocks :
         Paired(b) => llmContext[m].blocks[i] # b
  BY NotHeld DEF Addable
<1>7. \A m \in DOMAIN llmContext' : \A i \in DOMAIN llmContext'[m].blocks :
          /\ llmContext'[m].role = "user" => llmContext'[m].blocks[i].kind = "text"
          /\ Paired(llmContext'[m].blocks[i]) => llmContext'[m].blocks[i].call \in ToolCalls
  BY <1>5 DEF RequestInv, Addable
<1>8. ASSUME NEW m \in DOMAIN llmContext', NEW l \in DOMAIN llmContext',
             NEW i \in DOMAIN llmContext'[m].blocks, NEW j \in DOMAIN llmContext'[l].blocks,
             Paired(llmContext'[m].blocks[i]), llmContext'[m].blocks[i] = llmContext'[l].blocks[j]
      PROVE  m = l /\ i = j
  <2>1. CASE m \in DOMAIN llmContext /\ l \in DOMAIN llmContext
    BY <1>1, <1>3, <1>8, <2>1 DEF RequestInv
  <2>2. CASE m = n + 1 /\ l = n + 1
    BY <1>2, <1>3, <1>8, <2>2
  <2>3. CASE m \in DOMAIN llmContext /\ l = n + 1
    BY <1>1, <1>2, <1>3, <1>6, <1>8, <2>3
  <2>4. CASE l \in DOMAIN llmContext /\ m = n + 1
    BY <1>1, <1>2, <1>3, <1>6, <1>8, <2>4
  <2> QED BY <1>4, <2>1, <2>2, <2>3, <2>4
<1>9. llmContext' \in Seq(ContextMessage)
  BY <1>3
<1>10. \A m, l \in DOMAIN llmContext' :
          \A i \in DOMAIN llmContext'[m].blocks : \A j \in DOMAIN llmContext'[l].blocks :
             Paired(llmContext'[m].blocks[i]) /\ llmContext'[m].blocks[i] = llmContext'[l].blocks[j]
             => m = l /\ i = j
  BY <1>8
<1> HIDE DEF n
<1> QED BY <1>7, <1>9, <1>10 DEF RequestInv, Paired

LEMMA BlockAdded ==
    ASSUME RequestInv, NEW w \in DOMAIN llmContext, NEW b, Addable(b, llmContext[w].role),
           llmContext' = [llmContext EXCEPT ![w].blocks = Append(@, b)]
    PROVE  RequestInv'
<1> DEFINE n == Len(llmContext)
           old == llmContext[w].blocks
           new == Append(old, b)
<1>1. llmContext \in Seq(ContextMessage) /\ n \in Nat /\ DOMAIN llmContext = 1 .. n
  BY DEF RequestInv
<1>2. llmContext[w] \in ContextMessage /\ old \in Seq(RequestBlock) /\ b \in RequestBlock
  <2>1. llmContext[w] \in ContextMessage
    BY <1>1
  <2> QED BY <2>1 DEF Addable, ContextMessage
<1>3. /\ new \in Seq(RequestBlock) /\ Len(old) \in Nat /\ DOMAIN old = 1 .. Len(old)
      /\ DOMAIN new = 1 .. Len(old) + 1
      /\ \A i \in 1 .. Len(old) : new[i] = old[i]
      /\ new[Len(old) + 1] = b
  BY <1>2
<1> HIDE DEF new
<1>4. [llmContext[w] EXCEPT !.blocks = new] \in ContextMessage
  BY <1>2, <1>3 DEF ContextMessage
<1>5. /\ llmContext' = [llmContext EXCEPT ![w] = [llmContext[w] EXCEPT !.blocks = new]]
      /\ [llmContext[w] EXCEPT !.blocks = new].blocks = new
      /\ [llmContext[w] EXCEPT !.blocks = new].role = llmContext[w].role
  BY <1>2 DEF new, ContextMessage
<1>6. /\ llmContext' \in Seq(ContextMessage) /\ DOMAIN llmContext' = DOMAIN llmContext
      /\ \A m \in DOMAIN llmContext : m # w => llmContext'[m] = llmContext[m]
      /\ llmContext'[w].blocks = new /\ llmContext'[w].role = llmContext[w].role
  <2> DEFINE whole == [llmContext[w] EXCEPT !.blocks = new]
  <2> HIDE DEF whole
  <2>1. /\ whole \in ContextMessage /\ llmContext' = [llmContext EXCEPT ![w] = whole]
        /\ whole.blocks = new /\ whole.role = llmContext[w].role
    BY <1>4, <1>5 DEF whole
  <2>2. DOMAIN llmContext' = DOMAIN llmContext /\ Len(llmContext') = n
    BY <1>1, <2>1
  <2>3. \A m \in DOMAIN llmContext : llmContext'[m] = IF m = w THEN whole ELSE llmContext[m]
    BY <2>1
  <2>4. llmContext' \in Seq(ContextMessage)
    <3>1. \A m \in 1 .. n : llmContext[m] \in ContextMessage
      BY <1>1
    <3>2. llmContext' \in [1 .. n -> ContextMessage]
      BY <1>1, <2>1, <3>1
    <3> HIDE DEF n
    <3> QED BY <1>1, <3>2
  <2> QED BY <2>1, <2>2, <2>3, <2>4
<1>7. \A m \in DOMAIN llmContext' : \A i \in DOMAIN llmContext'[m].blocks :
         /\ llmContext'[m].role = llmContext[m].role
         /\ \/ /\ i \in DOMAIN llmContext[m].blocks
               /\ llmContext'[m].blocks[i] = llmContext[m].blocks[i]
            \/ m = w /\ i = Len(old) + 1 /\ llmContext'[m].blocks[i] = b
  <2> SUFFICES ASSUME NEW m \in DOMAIN llmContext', NEW i \in DOMAIN llmContext'[m].blocks
               PROVE  /\ llmContext'[m].role = llmContext[m].role
                      /\ \/ /\ i \in DOMAIN llmContext[m].blocks
                            /\ llmContext'[m].blocks[i] = llmContext[m].blocks[i]
                         \/ m = w /\ i = Len(old) + 1 /\ llmContext'[m].blocks[i] = b
    OBVIOUS
  <2>1. CASE m # w
    BY <1>6, <2>1
  <2>2. CASE m = w
    <3>1. i \in 1 .. Len(old) + 1
      BY <1>3, <1>6, <2>2
    <3>2. i \in 1 .. Len(old) \/ i = Len(old) + 1
      BY <1>3, <3>1
    <3> QED BY <1>3, <1>6, <2>2, <3>2
  <2> QED BY <2>1, <2>2
<1>8. \A m \in DOMAIN llmContext : \A i \in DOMAIN llmContext[m].blocks :
         Paired(b) => llmContext[m].blocks[i] # b
  BY NotHeld DEF Addable
<1>9. \A m \in DOMAIN llmContext' : \A i \in DOMAIN llmContext'[m].blocks :
          /\ llmContext'[m].role = "user" => llmContext'[m].blocks[i].kind = "text"
          /\ Paired(llmContext'[m].blocks[i]) => llmContext'[m].blocks[i].call \in ToolCalls
  BY <1>6, <1>7 DEF RequestInv, Addable
<1>10. ASSUME NEW m \in DOMAIN llmContext', NEW l \in DOMAIN llmContext',
              NEW i \in DOMAIN llmContext'[m].blocks, NEW j \in DOMAIN llmContext'[l].blocks,
              Paired(llmContext'[m].blocks[i]), llmContext'[m].blocks[i] = llmContext'[l].blocks[j]
       PROVE  m = l /\ i = j
  <2>1. CASE /\ i \in DOMAIN llmContext[m].blocks /\ llmContext'[m].blocks[i] = llmContext[m].blocks[i]
             /\ j \in DOMAIN llmContext[l].blocks /\ llmContext'[l].blocks[j] = llmContext[l].blocks[j]
    BY <1>6, <1>10, <2>1 DEF RequestInv
  <2>2. CASE /\ m = w /\ i = Len(old) + 1 /\ llmContext'[m].blocks[i] = b
             /\ l = w /\ j = Len(old) + 1
    BY <2>2
  <2>3. CASE /\ i \in DOMAIN llmContext[m].blocks /\ llmContext'[m].blocks[i] = llmContext[m].blocks[i]
             /\ llmContext'[l].blocks[j] = b
    BY <1>6, <1>8, <1>10, <2>3
  <2>4. CASE /\ j \in DOMAIN llmContext[l].blocks /\ llmContext'[l].blocks[j] = llmContext[l].blocks[j]
             /\ llmContext'[m].blocks[i] = b
    BY <1>6, <1>8, <1>10, <2>4
  <2> QED BY <1>7, <2>1, <2>2, <2>3, <2>4
<1>11. llmContext' \in Seq(ContextMessage)
  BY <1>6
<1>12. \A m, l \in DOMAIN llmContext' :
          \A i \in DOMAIN llmContext'[m].blocks : \A j \in DOMAIN llmContext'[l].blocks :
             Paired(llmContext'[m].blocks[i]) /\ llmContext'[m].blocks[i] = llmContext'[l].blocks[j]
             => m = l /\ i = j
  BY <1>10
<1> HIDE DEF old, n
<1> QED BY <1>9, <1>11, <1>12 DEF RequestInv, Paired

LEMMA RequestStep == RequestInv /\ [R!Next]_R!vars => RequestInv'
<1> SUFFICES ASSUME RequestInv, [R!Next]_R!vars PROVE RequestInv'
  OBVIOUS
<1>1. CASE UNCHANGED R!vars
  BY <1>1 DEF R!vars, RequestInv, Paired
<1>2. CASE R!AddUser
  <2>1. Addable(R!Text, "user")
    BY DEF Addable, Paired, R!Text, R!Block, RequestBlock
  <2> QED BY <1>2, <2>1, MessageAdded DEF R!AddUser
<1>3. ASSUME NEW b, NEW fresh, Addable(b, "assistant"), R!AppendBlock(b, fresh)
      PROVE  RequestInv'
  <2>1. CASE llmContext' = Append(llmContext, R!Said("assistant", <<b>>))
    BY <1>3, <2>1, MessageAdded
  <2>2. CASE /\ llmContext # <<>> /\ R!Last(llmContext).role = "assistant"
             /\ llmContext' = [llmContext EXCEPT ![Len(llmContext)].blocks = Append(@, b)]
    <3>1. llmContext \in Seq(ContextMessage)
      BY DEF RequestInv
    <3>2. Len(llmContext) \in DOMAIN llmContext /\ llmContext[Len(llmContext)].role = "assistant"
      BY <2>2, <3>1 DEF R!Last
    <3> QED BY <1>3, <2>2, <3>2, BlockAdded
  <2> QED BY <1>3, <2>1, <2>2 DEF R!AppendBlock
<1>4. ASSUME NEW fresh, NEW kind \in {"text", "thinking", "hint"}, R!AddReply(kind, fresh)
      PROVE  RequestInv'
  <2>1. Addable(R!Block(kind, "none"), "assistant")
    BY DEF Addable, Paired, R!Block, RequestBlock
  <2> QED BY <1>3, <1>4, <2>1 DEF R!AddReply
<1>5. ASSUME NEW fresh, NEW c \in ToolCalls, R!AddCall(c, fresh)
      PROVE  RequestInv'
  <2>1. Addable(R!Block("call", c), "assistant")
    BY <1>5 DEF Addable, Paired, R!Block, RequestBlock, R!AddCall
  <2> QED BY <1>3, <1>5, <2>1 DEF R!AddCall
<1>6. ASSUME NEW c \in ToolCalls, R!AddToolResult(c)
      PROVE  RequestInv'
  <2>1. PICK m \in R!Holds(R!Block("call", c)) :
           llmContext' = [llmContext EXCEPT ![m].blocks = Append(@, R!Block("result", c))]
    BY <1>6 DEF R!AddToolResult
  <2>2. PICK i \in DOMAIN llmContext[m].blocks : llmContext[m].blocks[i] = R!Block("call", c)
    BY <2>1 DEF R!Holds, R!ToSet
  <2>3. m \in DOMAIN llmContext /\ llmContext[m].role = "assistant"
    <3>1. m \in DOMAIN llmContext
      BY <2>1 DEF R!Holds
    <3>2. llmContext[m].role # "user"
      BY <2>2, <3>1 DEF RequestInv, R!Block
    <3>3. llmContext[m] \in ContextMessage
      BY <3>1 DEF RequestInv
    <3> QED BY <3>1, <3>2, <3>3 DEF ContextMessage
  <2>4. Addable(R!Block("result", c), llmContext[m].role)
    BY <1>6, <2>3 DEF Addable, Paired, R!Block, RequestBlock, R!AddToolResult
  <2> QED BY <2>1, <2>3, <2>4, BlockAdded
<1> QED BY <1>1, <1>2, <1>4, <1>5, <1>6 DEF R!Next

LEMMA RequestBegins == R!Init => RequestInv
<1> SUFFICES ASSUME R!Init PROVE RequestInv
  OBVIOUS
<1>1. llmContext = <<>> /\ DOMAIN llmContext = {}
  BY DEF R!Init
<1> QED BY <1>1 DEF RequestInv

\* Messages of the chat protocol of which a call and a result are there once.
ChatMessage == [role : {"user", "assistant", "tool"}, text : BOOLEAN, thinking : BOOLEAN,
                calls : Seq(ToolCalls), call : ToolCalls \cup {"none"}]
EachOnce(ms) ==
    /\ ms \in Seq(ChatMessage)
    /\ \A h \in DOMAIN ms : /\ ms[h].role # "assistant" => ms[h].calls = <<>>
                            /\ ms[h].role = "tool" => ms[h].call \in ToolCalls
    /\ \A h, g \in DOMAIN ms : \A x \in DOMAIN ms[h].calls : \A y \in DOMAIN ms[g].calls :
          ms[h].calls[x] = ms[g].calls[y] => h = g /\ x = y
    /\ \A h, g \in DOMAIN ms :
          ms[h].role = "tool" /\ ms[g].role = "tool" /\ ms[h].call = ms[g].call => h = g

\* A block is part of one message.
LEMMA PartsApart ==
    ASSUME NEW blocks \in Seq(RequestBlock), NEW i \in R!Beginnings(blocks),
           NEW k \in R!Beginnings(blocks), NEW j \in R!Part(blocks, i) \cap R!Part(blocks, k)
    PROVE  i = k
<1>1. ASSUME NEW a \in R!Beginnings(blocks), NEW b \in R!Beginnings(blocks), a < b,
             j \in R!Part(blocks, a), j \in R!Part(blocks, b)
      PROVE  FALSE
  <2>1. a \in Nat /\ b \in Nat /\ Len(blocks) \in Nat /\ b # 1
    BY <1>1 DEF R!Beginnings
  <2>2. {b - 1, b} \cap R!Alone(blocks) # {}
    BY <2>1 DEF R!Beginnings
  <2>3. j \in Nat /\ b <= j
    BY <1>1, <2>1 DEF R!Part
  <2>4. b - 1 \in a .. j /\ b \in a .. j
    BY <1>1, <2>1, <2>3
  <2>5. a .. j \cap R!Alone(blocks) = {}
    BY <1>1 DEF R!Part
  <2> QED BY <2>2, <2>4, <2>5
<1>2. i \in Nat /\ k \in Nat
  BY DEF R!Beginnings
<1> QED BY <1>1, <1>2

LEMMA BeginningIs ==
    ASSUME RequestInv, NEW m \in DOMAIN llmContext, NEW i \in DOMAIN llmContext[m].blocks,
           NEW w, w = R!Beginning(llmContext[m], i)
    PROVE  /\ w \in ChatMessage
           /\ w.role # "assistant" => w.calls = <<>>
           /\ w.role = "tool" => llmContext[m].blocks[i] = R!Block("result", w.call) /\ w.call \in ToolCalls
           /\ \A x \in DOMAIN w.calls :
                 \E j \in R!Part(llmContext[m].blocks, i) : llmContext[m].blocks[j] = R!Block("call", w.calls[x])
           /\ \A x, y \in DOMAIN w.calls : w.calls[x] = w.calls[y] => x = y
<1> DEFINE blocks == llmContext[m].blocks
           role == llmContext[m].role
           part == R!Part(blocks, i)
           S == {j \in part : blocks[j].kind = "call"}
           o == R!InOrder(S)
           n == Cardinality(S)
<1>1. role \in {"user", "assistant"} /\ blocks \in Seq(RequestBlock)
  <2>1. llmContext[m] \in ContextMessage
    BY DEF RequestInv
  <2> QED BY <2>1 DEF ContextMessage
<1>2. Len(blocks) \in Nat /\ DOMAIN blocks = 1 .. Len(blocks) /\ i \in 1 .. Len(blocks)
  BY <1>1
<1>3. \A j \in DOMAIN blocks : blocks[j] \in RequestBlock
  BY <1>1
<1>4. \A j \in DOMAIN blocks : /\ blocks[j].kind = "call" => blocks[j] = R!Block("call", blocks[j].call) /\ blocks[j].call \in ToolCalls
                               /\ blocks[j].kind = "result" => blocks[j] = R!Block("result", blocks[j].call) /\ blocks[j].call \in ToolCalls
                               /\ role = "user" => blocks[j].kind = "text"
  BY <1>3 DEF RequestInv, Paired, R!Block, RequestBlock
<1>5. CASE blocks[i].kind = "hint"
  <2>1. w = R!UserMessage
    BY <1>5 DEF R!Beginning
  <2> QED BY <2>1 DEF R!UserMessage, R!Wire, ChatMessage
<1>6. CASE blocks[i].kind = "result"
  <2>1. w = R!ToolMessage(blocks[i].call) /\ blocks[i].call \in ToolCalls
    BY <1>2, <1>4, <1>6 DEF R!Beginning
  <2>2. w.role = "tool" /\ w.calls = <<>> /\ w.call = blocks[i].call /\ w \in ChatMessage
    BY <2>1 DEF R!ToolMessage, R!Wire, ChatMessage
  <2> QED BY <1>2, <1>4, <1>6, <2>2
<1>7. CASE blocks[i].kind \notin {"hint", "result"}
  <2>1. w = R!Merged(role, blocks, part)
    BY <1>7 DEF R!Beginning
  <2>2. S \in SUBSET (1 .. Len(blocks)) /\ part \subseteq DOMAIN blocks
    BY <1>2 DEF R!Part
  <2>3. /\ n \in Nat /\ o \in [1 .. n -> S]
        /\ \A k, l \in 1 .. n : k < l => o[k] < o[l]
    BY <1>2, <2>2, IndicesInOrder
  <2>4. DOMAIN o = 1 .. n /\ \A k \in 1 .. n : o[k] \in part /\ blocks[o[k]].kind = "call" /\ o[k] \in DOMAIN blocks
    BY <2>2, <2>3
  <2> DEFINE text == \E j \in part : blocks[j].kind = "text"
             thinking == \E j \in part : blocks[j].kind = "thinking"
             calls == [k \in DOMAIN o |-> blocks[o[k]].call]
  <2>5. w = R!Wire(role, text, thinking, calls, "none")
    BY <2>1 DEF R!Merged
  <2>6. calls \in Seq(ToolCalls) /\ DOMAIN calls = 1 .. n /\ \A k \in 1 .. n : calls[k] = blocks[o[k]].call
    <3>1. calls \in [1 .. n -> ToolCalls]
      BY <1>4, <2>4
    <3> HIDE DEF n, o
    <3> QED BY <2>3, <2>4, <3>1
  <2>7. role = "user" => calls = <<>>
    <3> SUFFICES ASSUME role = "user" PROVE calls = <<>>
      OBVIOUS
    <3>1. S = {}
      BY <1>4, <2>2
    <3>2. n = 0
      BY <3>1, FS_EmptySet
    <3> HIDE DEF calls, n
    <3> QED BY <2>6, <3>2
  <2> HIDE DEF text, thinking, calls, n, o
  <2>8. text \in BOOLEAN /\ thinking \in BOOLEAN
    BY DEF text, thinking
  <2>9. /\ w = [role |-> role, text |-> text, thinking |-> thinking, calls |-> calls, call |-> "none"]
        /\ w.role = role /\ w.calls = calls
    BY <2>5 DEF R!Wire
  <2>10. w \in ChatMessage
    BY <1>1, <2>6, <2>8, <2>9 DEF ChatMessage
  <2>11. \A x \in DOMAIN calls : \E j \in part : blocks[j] = R!Block("call", calls[x])
    BY <1>4, <2>4, <2>6
  <2>12. ASSUME NEW x \in DOMAIN calls, NEW y \in DOMAIN calls, calls[x] = calls[y]
         PROVE  x = y
    <3>1. x \in 1 .. n /\ y \in 1 .. n
      BY <2>6
    <3>2. blocks[o[x]] = blocks[o[y]] /\ Paired(blocks[o[x]]) /\ o[x] \in DOMAIN blocks /\ o[y] \in DOMAIN blocks
      BY <1>4, <2>4, <2>6, <2>12, <3>1 DEF Paired
    <3>3. o[x] = o[y]
      BY <3>2 DEF RequestInv
    <3>4. o[x] \in Nat
      BY <1>2, <3>2
    <3>5. ~ x < y /\ ~ y < x
      BY <2>3, <3>1, <3>3, <3>4
    <3> QED BY <2>3, <3>1, <3>5
  <2> QED BY <1>1, <2>7, <2>9, <2>10, <2>11, <2>12
<1> QED BY <1>5, <1>6, <1>7

\* The messages of one of the context, and of all of them.
LEMMA UnfoldedOnce ==
    ASSUME RequestInv, NEW m \in DOMAIN llmContext, NEW u, u = R!Unfolded(llmContext[m])
    PROVE  /\ EachOnce(u)
           /\ \A k \in DOMAIN u :
                 /\ u[k].role = "tool" =>
                       \E j \in DOMAIN llmContext[m].blocks : llmContext[m].blocks[j] = R!Block("result", u[k].call)
                 /\ \A x \in DOMAIN u[k].calls :
                       \E j \in DOMAIN llmContext[m].blocks : llmContext[m].blocks[j] = R!Block("call", u[k].calls[x])
<1> DEFINE blocks == llmContext[m].blocks
           B == R!Beginnings(blocks)
           o == R!InOrder(B)
           n == Cardinality(B)
<1>1. blocks \in Seq(RequestBlock)
  <2>1. llmContext[m] \in ContextMessage
    BY DEF RequestInv
  <2> QED BY <2>1 DEF ContextMessage
<1>2. Len(blocks) \in Nat /\ DOMAIN blocks = 1 .. Len(blocks) /\ B \in SUBSET (1 .. Len(blocks))
  BY <1>1 DEF R!Beginnings
<1>3. /\ n \in Nat /\ o \in [1 .. n -> B]
      /\ \A k, l \in 1 .. n : k < l => o[k] < o[l]
  BY <1>2, IndicesInOrder
<1>4. \A k \in 1 .. n : o[k] \in B /\ o[k] \in DOMAIN blocks /\ o[k] \in Nat
  BY <1>2, <1>3
<1>5. u = [k \in 1 .. n |-> R!Beginning(llmContext[m], o[k])]
  BY <1>3 DEF R!Unfolded
<1>6. DOMAIN u = 1 .. n /\ \A k \in 1 .. n : u[k] = R!Beginning(llmContext[m], o[k])
  BY <1>5
<1>7. \A k \in 1 .. n :
         /\ u[k] \in ChatMessage
         /\ u[k].role # "assistant" => u[k].calls = <<>>
         /\ u[k].role = "tool" => blocks[o[k]] = R!Block("result", u[k].call) /\ u[k].call \in ToolCalls
         /\ \A x \in DOMAIN u[k].calls :
               \E j \in R!Part(blocks, o[k]) : blocks[j] = R!Block("call", u[k].calls[x])
         /\ \A x, y \in DOMAIN u[k].calls : u[k].calls[x] = u[k].calls[y] => x = y
  BY <1>4, <1>6, BeginningIs
<1> HIDE DEF n, o
<1>8. u \in Seq(ChatMessage)
  <2>1. u \in [1 .. n -> ChatMessage]
    BY <1>5, <1>6, <1>7
  <2> QED BY <1>3, <2>1
<1>9. ASSUME NEW k \in 1 .. n, NEW l \in 1 .. n, o[k] = o[l] PROVE k = l
  BY <1>3, <1>4, <1>9
<1>10. ASSUME NEW k \in 1 .. n, NEW l \in 1 .. n, NEW x \in DOMAIN u[k].calls, NEW y \in DOMAIN u[l].calls,
              u[k].calls[x] = u[l].calls[y]
       PROVE  k = l /\ x = y
  <2>1. PICK i \in R!Part(blocks, o[k]) : blocks[i] = R!Block("call", u[k].calls[x])
    BY <1>7
  <2>2. PICK j \in R!Part(blocks, o[l]) : blocks[j] = R!Block("call", u[l].calls[y])
    BY <1>7
  <2>3. i \in DOMAIN blocks /\ j \in DOMAIN blocks
    BY <1>2, <1>4 DEF R!Part
  <2>4. Paired(blocks[i]) /\ blocks[i] = blocks[j]
    BY <1>10, <2>1, <2>2 DEF Paired, R!Block
  <2>5. i = j
    BY <2>3, <2>4 DEF RequestInv
  <2>6. o[k] = o[l]
    BY <1>1, <1>4, <2>1, <2>2, <2>5, PartsApart
  <2> QED BY <1>7, <1>9, <1>10, <2>6
<1>11. ASSUME NEW k \in 1 .. n, NEW l \in 1 .. n, u[k].role = "tool", u[l].role = "tool", u[k].call = u[l].call
       PROVE  k = l
  <2>1. blocks[o[k]] = blocks[o[l]] /\ Paired(blocks[o[k]])
    <3>1. blocks[o[k]] = R!Block("result", u[k].call) /\ blocks[o[l]] = R!Block("result", u[k].call)
      BY <1>7, <1>11
    <3> QED BY <3>1 DEF Paired, R!Block
  <2>2. o[k] = o[l]
    BY <1>4, <2>1 DEF RequestInv
  <2> QED BY <1>9, <2>2
<1>12. EachOnce(u)
  BY <1>6, <1>7, <1>8, <1>10, <1>11 DEF EachOnce
<1>13. \A k \in 1 .. n : R!Part(blocks, o[k]) \subseteq DOMAIN blocks
  BY <1>2, <1>4 DEF R!Part
<1> QED BY <1>4, <1>6, <1>7, <1>12, <1>13

LEMMA ChatOnce == ASSUME RequestInv PROVE EachOnce(R!ChatMessages)
<1> DEFINE n == Len(llmContext)
           us == [m \in DOMAIN llmContext |-> R!Unfolded(llmContext[m])]
           ms == R!ChatMessages
<1>1. n \in Nat /\ DOMAIN llmContext = 1 .. n
  BY DEF RequestInv
<1>2. \A m \in DOMAIN llmContext : us[m] = R!Unfolded(llmContext[m]) /\ EachOnce(us[m]) /\ us[m] \in Seq(ChatMessage)
  BY UnfoldedOnce DEF EachOnce
<1>3. us \in Seq(Seq(ChatMessage)) /\ DOMAIN us = DOMAIN llmContext
  <2>1. us \in [1 .. n -> Seq(ChatMessage)]
    BY <1>1, <1>2
  <2> QED BY <1>1, <2>1
<1>4. ms = R!FlattenSeq(us)
  BY DEF R!ChatMessages
<1> HIDE DEF ms, us
<1>5. ms \in Seq(ChatMessage) /\ \E at : FlatAt(ms, at, us)
  BY <1>3, <1>4, FlatSequence
<1>6. PICK at : FlatAt(ms, at, us)
  BY <1>5
<1>7. \A h \in DOMAIN ms : \E m \in DOMAIN llmContext : \E k \in DOMAIN us[m] : h = at[m] + k /\ ms[h] = us[m][k]
  <2>1. ASSUME NEW h \in DOMAIN ms
        PROVE  \E m \in DOMAIN us : \E k \in DOMAIN us[m] : h = at[m] + k /\ ms[h] = us[m][k]
    <3>1. PICK m \in DOMAIN us : \E k \in DOMAIN us[m] : h = at[m] + k
      BY <1>6 DEF FlatAt
    <3>2. PICK k \in DOMAIN us[m] : h = at[m] + k
      BY <3>1
    <3>3. ms[at[m] + k] = us[m][k]
      BY <1>6 DEF FlatAt
    <3> QED BY <3>2, <3>3
  <2> QED BY <1>3, <2>1
<1>8. \A h \in DOMAIN ms : /\ ms[h].role # "assistant" => ms[h].calls = <<>>
                           /\ ms[h].role = "tool" => ms[h].call \in ToolCalls
  BY <1>2, <1>7 DEF EachOnce
<1>9. ASSUME NEW h \in DOMAIN ms, NEW g \in DOMAIN ms,
             NEW x \in DOMAIN ms[h].calls, NEW y \in DOMAIN ms[g].calls, ms[h].calls[x] = ms[g].calls[y]
      PROVE  h = g /\ x = y
  <2>1. PICK m \in DOMAIN llmContext : \E k \in DOMAIN us[m] : h = at[m] + k /\ ms[h] = us[m][k]
    BY <1>7
  <2>2. PICK k \in DOMAIN us[m] : h = at[m] + k /\ ms[h] = us[m][k]
    BY <2>1
  <2>3. PICK l \in DOMAIN llmContext : \E q \in DOMAIN us[l] : g = at[l] + q /\ ms[g] = us[l][q]
    BY <1>7
  <2>4. PICK q \in DOMAIN us[l] : g = at[l] + q /\ ms[g] = us[l][q]
    BY <2>3
  <2>5. PICK i \in DOMAIN llmContext[m].blocks : llmContext[m].blocks[i] = R!Block("call", ms[h].calls[x])
    BY <1>2, <2>2, UnfoldedOnce
  <2>6. PICK j \in DOMAIN llmContext[l].blocks : llmContext[l].blocks[j] = R!Block("call", ms[g].calls[y])
    BY <1>2, <2>4, UnfoldedOnce
  <2>7. m = l
    BY <1>9, <2>5, <2>6 DEF RequestInv, Paired, R!Block
  <2>8. k = q /\ x = y
    BY <1>2, <1>9, <2>2, <2>4, <2>7 DEF EachOnce
  <2> QED BY <2>2, <2>4, <2>7, <2>8
<1>10. ASSUME NEW h \in DOMAIN ms, NEW g \in DOMAIN ms, ms[h].role = "tool", ms[g].role = "tool",
              ms[h].call = ms[g].call
       PROVE  h = g
  <2>1. PICK m \in DOMAIN llmContext : \E k \in DOMAIN us[m] : h = at[m] + k /\ ms[h] = us[m][k]
    BY <1>7
  <2>2. PICK k \in DOMAIN us[m] : h = at[m] + k /\ ms[h] = us[m][k]
    BY <2>1
  <2>3. PICK l \in DOMAIN llmContext : \E q \in DOMAIN us[l] : g = at[l] + q /\ ms[g] = us[l][q]
    BY <1>7
  <2>4. PICK q \in DOMAIN us[l] : g = at[l] + q /\ ms[g] = us[l][q]
    BY <2>3
  <2>5. PICK i \in DOMAIN llmContext[m].blocks : llmContext[m].blocks[i] = R!Block("result", ms[h].call)
    BY <1>2, <1>10, <2>2, UnfoldedOnce
  <2>6. PICK j \in DOMAIN llmContext[l].blocks : llmContext[l].blocks[j] = R!Block("result", ms[g].call)
    BY <1>2, <1>10, <2>4, UnfoldedOnce
  <2>7. m = l
    BY <1>10, <2>5, <2>6 DEF RequestInv, Paired, R!Block
  <2>8. k = q
    BY <1>2, <1>10, <2>2, <2>4, <2>7 DEF EachOnce
  <2> QED BY <2>2, <2>4, <2>7, <2>8
<1> QED BY <1>5, <1>8, <1>9, <1>10 DEF EachOnce, ms

\* A run of neighbours is a run in their order.
LEMMA RunInOrder ==
    ASSUME NEW n \in Nat, NEW S \in SUBSET (1 .. n), NEW k \in 1 .. Cardinality(S), NEW r \in Nat,
           \A y \in 1 .. r : R!InOrder(S)[k] + y \in S
    PROVE  \A y \in 0 .. r : k + y \in 1 .. Cardinality(S) /\ R!InOrder(S)[k + y] = R!InOrder(S)[k] + y
<1> DEFINE o == R!InOrder(S)
           c == Cardinality(S)
           Bad == {y \in 0 .. r : ~ (k + y \in 1 .. c /\ o[k + y] = o[k] + y)}
<1> SUFFICES ASSUME Bad # {} PROVE FALSE
  OBVIOUS
<1>1. /\ c \in Nat /\ k \in Nat /\ k \in 1 .. c /\ o[k] \in Nat
      /\ \A i \in 1 .. c : o[i] \in Nat
  <2>1. c \in Nat /\ o \in [1 .. c -> S]
    BY IndicesInOrder
  <2>2. \A i \in S : i \in Nat
    OBVIOUS
  <2> HIDE DEF o, c
  <2>3. k \in 1 .. c
    BY DEF c
  <2>4. \A i \in 1 .. c : o[i] \in Nat
    BY <2>1, <2>2
  <2> QED BY <2>1, <2>3, <2>4
<1>2. PICK y \in Bad : \A z \in Bad : y <= z
  <2>1. Bad \in SUBSET Nat
    OBVIOUS
  <2> HIDE DEF Bad
  <2> QED BY <2>1, LeastOf
<1>3. y \in 0 .. r /\ ~ (k + y \in 1 .. c /\ o[k + y] = o[k] + y)
  BY <1>2
<1> HIDE DEF o, c
<1>4. y # 0
  BY <1>1, <1>3
<1>5. y - 1 \in 0 .. r /\ ~ y <= y - 1 /\ y \in 1 .. r
  BY <1>3, <1>4
<1>6. k + (y - 1) \in 1 .. c /\ o[k + (y - 1)] = o[k] + (y - 1)
  BY <1>2, <1>5
<1>7. o[k + (y - 1)] + 1 = o[k] + y /\ k + (y - 1) + 1 = k + y
  BY <1>1, <1>5, <1>6
<1>8. o[k] + y \in S
  BY <1>5 DEF o
<1>9. k + (y - 1) + 1 \in 1 .. c /\ o[k + (y - 1) + 1] = o[k + (y - 1)] + 1
  BY <1>6, <1>7, <1>8, NeighboursInOrder DEF o, c
<1> QED BY <1>3, <1>7, <1>9

\* The results of a complete pair come right after its calls.
LEMMA CompleteIs ==
    ASSUME NEW ms, EachOnce(ms), NEW h \in DOMAIN ms, R!Complete(ms, h)
    PROVE  /\ R!Following(ms, h) = h + 1 .. h + Len(ms[h].calls)
           /\ h + Len(ms[h].calls) <= Len(ms)
           /\ \A i \in R!Following(ms, h) : i \in DOMAIN ms /\ ms[i].role = "tool"
<1> DEFINE last == Len(ms)
           F == R!Following(ms, h)
           n == Len(ms[h].calls)
<1>1. /\ last \in Nat /\ DOMAIN ms = 1 .. last /\ h \in 1 .. last /\ ms[h] \in ChatMessage /\ n \in Nat
  <2>1. ms \in Seq(ChatMessage)
    BY DEF EachOnce
  <2>2. last \in Nat /\ DOMAIN ms = 1 .. last /\ h \in 1 .. last /\ ms[h] \in ChatMessage
    BY <2>1
  <2>3. ms[h].calls \in Seq(ToolCalls)
    BY <2>2 DEF ChatMessage
  <2> QED BY <2>2, <2>3
<1>2. F \subseteq h + 1 .. last /\ \A i \in F : ms[i].role = "tool" /\ \A j \in h + 1 .. i : j \in F
  <2>1. F = {i \in h + 1 .. last : \A j \in h + 1 .. i : ms[j].role = "tool"}
    BY DEF R!Following
  <2> HIDE DEF F, last
  <2>2. \A i \in F : i \in h + 1 .. last /\ \A j \in h + 1 .. i : ms[j].role = "tool"
    BY <2>1
  <2>3. ASSUME NEW i \in F, NEW j \in h + 1 .. i PROVE j \in F
    <3>1. j \in h + 1 .. last /\ \A g \in h + 1 .. j : g \in h + 1 .. i
      BY <1>1, <2>2
    <3> QED BY <2>1, <2>2, <3>1
  <2>4. \A i \in F : i \in h + 1 .. i
    BY <1>1, <2>2
  <2> QED BY <2>2, <2>3, <2>4
<1>3. Cardinality(F) = n
  BY RequestCardinality DEF R!Complete
<1> HIDE DEF F, last, n
<1>4. PICK j \in (h + 1 .. last + 1) \ F : \A y \in (h + 1 .. last + 1) \ F : j <= y
  <2> DEFINE A == (h + 1 .. last + 1) \ F
  <2>1. A \in SUBSET Nat
    BY <1>1
  <2>2. last + 1 \in A
    <3>1. last + 1 \in h + 1 .. last + 1 /\ last + 1 \notin h + 1 .. last
      BY <1>1
    <3> QED BY <1>2, <3>1
  <2> HIDE DEF A
  <2>3. \E x \in A : \A y \in A : x <= y
    BY <2>1, <2>2, LeastOf
  <2> QED BY <2>3 DEF A
<1>5. F = h + 1 .. j - 1
  <2>1. ASSUME NEW i \in h + 1 .. j - 1 PROVE i \in F
    <3>1. i \in h + 1 .. last + 1 /\ ~ j <= i
      BY <1>1, <1>4
    <3> QED BY <1>4, <3>1
  <2>2. ASSUME NEW i \in F PROVE i \in h + 1 .. j - 1
    <3>1. j \notin h + 1 .. i
      BY <1>2, <1>4
    <3>2. i \in h + 1 .. last /\ j \in h + 1 .. last + 1
      BY <1>2, <1>4
    <3> QED BY <1>1, <3>1, <3>2
  <2> QED BY <2>1, <2>2
<1>6. h + n = j - 1
  <2>1. h + 1 \in Int /\ j - 1 \in Int /\ j \in Nat /\ h + 1 <= j
    BY <1>1, <1>4
  <2>2. Cardinality(h + 1 .. j - 1) = IF h + 1 > j - 1 THEN 0 ELSE (j - 1) - (h + 1) + 1
    BY <2>1, FS_Interval
  <2> QED BY <1>1, <1>3, <1>5, <2>1, <2>2
<1>7. j <= last + 1 /\ j \in Nat
  BY <1>1, <1>4
<1>8. h + n <= last
  BY <1>1, <1>6, <1>7
<1>9. \A i \in F : i \in DOMAIN ms
  BY <1>1, <1>2
<1> QED BY <1>2, <1>5, <1>6, <1>8, <1>9 DEF F, last, n

\* What a provider accepts: results follow their calls, and no message of the
\* assistant is empty.
Accepted(ms, keeps) ==
    /\ EachOnce(ms)
    /\ \A h \in DOMAIN ms :
          /\ h + Len(ms[h].calls) <= Len(ms)
          /\ R!ToSet(ms[h].calls) = {ms[h + k].call : k \in 1 .. Len(ms[h].calls)}
          /\ \A k \in 1 .. Len(ms[h].calls) : ms[h + k].role = "tool"
          /\ ms[h].role = "tool" => \E a \in 1 .. h - 1 : ms[h].call \in R!ToSet(ms[a].calls)
          /\ ms[h].role = "assistant" => ms[h].text \/ ms[h].calls # <<>> \/ (keeps /\ ms[h].thinking)

OfUser(ms) == {i \in DOMAIN ms : ms[i].role = "user"}

LEMMA NormalisedIs ==
    ASSUME NEW ms, EachOnce(ms), NEW keeps \in BOOLEAN, NEW chat, chat = R!Normalised(ms, keeps)
    PROVE  Accepted(chat, keeps) /\ Cardinality(OfUser(chat)) = Cardinality(OfUser(ms))
<1> DEFINE last == Len(ms)
           stripped == [h \in DOMAIN ms |-> IF R!Complete(ms, h) THEN ms[h] ELSE [ms[h] EXCEPT !.calls = <<>>]]
           payload(m) == m.text \/ m.calls # <<>> \/ (keeps /\ m.thinking)
           paired(i) == \E h \in 1 .. i - 1 : i \in R!Following(ms, h) /\ R!Complete(ms, h)
           kept(i) == CASE ms[i].role = "tool"      -> paired(i)
                        [] ms[i].role = "assistant" -> payload(stripped[i])
                        [] OTHER                    -> TRUE
           K == {i \in DOMAIN ms : kept(i)}
           o == R!InOrder(K)
           c == Cardinality(K)
<1>1. chat = [k \in DOMAIN o |-> stripped[o[k]]]
  BY DEF R!Normalised
<1>2. /\ ms \in Seq(ChatMessage) /\ last \in Nat /\ DOMAIN ms = 1 .. last
      /\ \A i \in DOMAIN ms : ms[i] \in ChatMessage
  <2>1. ms \in Seq(ChatMessage)
    BY DEF EachOnce
  <2> QED BY <2>1
<1>3. \A i \in DOMAIN ms :
         /\ stripped[i] \in ChatMessage
         /\ stripped[i].role = ms[i].role /\ stripped[i].text = ms[i].text
         /\ stripped[i].thinking = ms[i].thinking /\ stripped[i].call = ms[i].call
         /\ \/ R!Complete(ms, i) /\ stripped[i] = ms[i] /\ stripped[i].calls = ms[i].calls
            \/ ~ R!Complete(ms, i) /\ stripped[i].calls = <<>>
  <2> SUFFICES ASSUME NEW i \in DOMAIN ms
               PROVE  /\ stripped[i] \in ChatMessage
                      /\ stripped[i].role = ms[i].role /\ stripped[i].text = ms[i].text
                      /\ stripped[i].thinking = ms[i].thinking /\ stripped[i].call = ms[i].call
                      /\ \/ R!Complete(ms, i) /\ stripped[i] = ms[i] /\ stripped[i].calls = ms[i].calls
                         \/ ~ R!Complete(ms, i) /\ stripped[i].calls = <<>>
    OBVIOUS
  <2>1. ms[i] \in ChatMessage
    BY <1>2
  <2>2. CASE R!Complete(ms, i)
    BY <2>1, <2>2
  <2>3. CASE ~ R!Complete(ms, i)
    <3>1. stripped[i] = [ms[i] EXCEPT !.calls = <<>>] /\ <<>> \in Seq(ToolCalls)
      BY <2>3
    <3> HIDE DEF stripped
    <3> QED BY <2>1, <2>3, <3>1 DEF ChatMessage
  <2> QED BY <2>2, <2>3
<1>4. \A i \in DOMAIN ms : R!Complete(ms, i) => ms[i].role = "assistant" /\ ms[i].calls # <<>>
  BY DEF R!Complete
<1>5. \A i \in DOMAIN ms :
         /\ R!Complete(ms, i) => i \in K
         /\ ms[i].role = "tool" => (i \in K <=> paired(i))
         /\ ms[i].role = "user" => i \in K
         /\ i \in K /\ ms[i].role = "assistant" => payload(stripped[i])
  <2>1. \A i \in DOMAIN ms : R!Complete(ms, i) => payload(stripped[i])
    BY <1>3, <1>4
  <2> HIDE DEF stripped, payload, paired
  <2> QED BY <1>4, <2>1
<1>6. K \in SUBSET (1 .. last)
  BY <1>2
<1> HIDE DEF stripped, K
<1>7. /\ c \in Nat /\ o \in [1 .. c -> K] /\ DOMAIN o = 1 .. c
      /\ \A k, l \in 1 .. c : k < l => o[k] < o[l]
      /\ \A i \in K : \E k \in 1 .. c : o[k] = i
  BY <1>2, <1>6, IndicesInOrder
<1>8. \A k \in 1 .. c : o[k] \in K /\ o[k] \in DOMAIN ms /\ o[k] \in Nat
  <2>1. \A i \in K : i \in DOMAIN ms /\ i \in Nat
    BY <1>2, <1>6
  <2> QED BY <1>7, <2>1
<1>9. DOMAIN chat = 1 .. c /\ \A k \in 1 .. c : chat[k] = stripped[o[k]]
  BY <1>1, <1>7
<1> HIDE DEF o, c
<1>10. chat \in Seq(ChatMessage) /\ Len(chat) = c
  <2>1. chat \in [1 .. c -> ChatMessage]
    BY <1>1, <1>3, <1>7, <1>8, <1>9
  <2> QED BY <1>7, <2>1
<1>11. \A k, l \in 1 .. c : o[k] = o[l] => k = l
  BY <1>7, <1>8
<1>12. EachOnce(chat)
  <2>1. \A k \in 1 .. c : /\ chat[k].role = ms[o[k]].role /\ chat[k].call = ms[o[k]].call
                          /\ chat[k].calls = ms[o[k]].calls \/ chat[k].calls = <<>>
    BY <1>3, <1>8, <1>9
  <2>2. \A k \in 1 .. c : /\ chat[k].role # "assistant" => chat[k].calls = <<>>
                          /\ chat[k].role = "tool" => chat[k].call \in ToolCalls
    BY <1>8, <2>1 DEF EachOnce
  <2>3. ASSUME NEW h \in 1 .. c, NEW g \in 1 .. c,
               NEW x \in DOMAIN chat[h].calls, NEW y \in DOMAIN chat[g].calls,
               chat[h].calls[x] = chat[g].calls[y]
        PROVE  h = g /\ x = y
    <3>1. chat[h].calls = ms[o[h]].calls /\ chat[g].calls = ms[o[g]].calls
      BY <2>1
    <3>2. o[h] = o[g] /\ x = y
      BY <1>8, <2>3, <3>1 DEF EachOnce
    <3> QED BY <1>11, <3>2
  <2>4. ASSUME NEW h \in 1 .. c, NEW g \in 1 .. c, chat[h].role = "tool", chat[g].role = "tool",
               chat[h].call = chat[g].call
        PROVE  h = g
    <3>1. o[h] = o[g]
      BY <1>8, <2>1, <2>4 DEF EachOnce
    <3> QED BY <1>11, <3>1
  <2> QED BY <1>9, <1>10, <2>2, <2>3, <2>4 DEF EachOnce
<1>13. ASSUME NEW h \in 1 .. c
       PROVE  /\ h + Len(chat[h].calls) <= c
              /\ R!ToSet(chat[h].calls) = {chat[h + k].call : k \in 1 .. Len(chat[h].calls)}
              /\ \A k \in 1 .. Len(chat[h].calls) : chat[h + k].role = "tool"
  <2>1. CASE chat[h].calls = <<>>
    <3>1. R!ToSet(chat[h].calls) = {} /\ Len(chat[h].calls) = 0
      BY <2>1 DEF R!ToSet
    <3>2. 1 .. 0 = {} /\ h + 0 = h /\ h <= c
      BY <1>7
    <3> QED BY <3>1, <3>2
  <2>2. CASE chat[h].calls # <<>>
    <3> DEFINE i == o[h]
               n == Len(ms[o[h]].calls)
    <3>1. R!Complete(ms, i) /\ chat[h].calls = ms[i].calls /\ i \in DOMAIN ms
      BY <1>3, <1>8, <1>9, <2>2
    <3>2. /\ R!Following(ms, i) = i + 1 .. i + n
          /\ \A j \in R!Following(ms, i) : j \in DOMAIN ms /\ ms[j].role = "tool"
      BY <3>1, CompleteIs
    <3>3. i \in Nat /\ n \in Nat
      <4>1. ms[i].calls \in Seq(ToolCalls)
        BY <1>2, <3>1 DEF ChatMessage
      <4> QED BY <1>8, <4>1
    <3> HIDE DEF i, n
    <3>4. ASSUME NEW y \in 1 .. n PROVE i + y \in K /\ i + y \in DOMAIN ms /\ ms[i + y].role = "tool"
      <4>1. i + y \in i + 1 .. i + n
        BY <3>3
      <4>2. i + y \in DOMAIN ms /\ ms[i + y].role = "tool" /\ i + y \in R!Following(ms, i)
        BY <3>2, <4>1
      <4>3. i \in 1 .. (i + y) - 1
        BY <1>2, <3>1, <3>3
      <4>4. paired(i + y)
        BY <3>1, <4>2, <4>3
      <4> HIDE DEF paired
      <4> QED BY <1>5, <4>2, <4>4
    <3>5. \A y \in 0 .. n : h + y \in 1 .. c /\ o[h + y] = i + y
      <4>1. \A y \in 1 .. n : o[h] + y \in K
        BY <3>4 DEF i
      <4> QED BY <1>2, <1>6, <3>3, <4>1, RunInOrder DEF o, c, i
    <3>6. \A y \in 1 .. n : h + y \in 1 .. c /\ chat[h + y].role = "tool" /\ chat[h + y].call = ms[i + y].call
      <4>1. \A y \in 1 .. n : y \in 0 .. n
        BY <3>3
      <4> QED BY <1>3, <1>9, <3>4, <3>5, <4>1
    <3>7. h + n <= c
      <4>1. n \in 0 .. n /\ h \in Nat
        BY <1>7, <3>3
      <4>2. h + n \in 1 .. c
        BY <3>5, <4>1
      <4> QED BY <1>7, <4>2
    <3>8. {ms[j].call : j \in R!Following(ms, i)} = R!ToSet(ms[i].calls)
      BY <3>1 DEF R!Complete
    <3>9. {chat[h + k].call : k \in 1 .. n} = {ms[j].call : j \in i + 1 .. i + n}
      <4>1. \A j \in i + 1 .. i + n : j - i \in 1 .. n /\ i + (j - i) = j
        BY <3>3
      <4>2. \A k \in 1 .. n : i + k \in i + 1 .. i + n
        BY <3>3
      <4>3. \A j \in i + 1 .. i + n : \E k \in 1 .. n : ms[j].call = chat[h + k].call
        BY <3>6, <4>1
      <4>4. \A k \in 1 .. n : \E j \in i + 1 .. i + n : ms[j].call = chat[h + k].call
        BY <3>6, <4>2
      <4> QED BY <4>3, <4>4
    <3>10. n = Len(chat[h].calls)
      BY <3>1 DEF n, i
    <3> QED BY <3>1, <3>2, <3>6, <3>7, <3>8, <3>9, <3>10
  <2> QED BY <2>1, <2>2
<1>14. ASSUME NEW h \in 1 .. c, chat[h].role = "tool"
       PROVE  \E a \in 1 .. h - 1 : chat[h].call \in R!ToSet(chat[a].calls)
  <2>1. ms[o[h]].role = "tool" /\ chat[h].call = ms[o[h]].call
    BY <1>3, <1>8, <1>9, <1>14
  <2>2. paired(o[h])
    <3> HIDE DEF paired
    <3> QED BY <1>5, <1>8, <2>1
  <2>3. PICK g \in 1 .. o[h] - 1 : o[h] \in R!Following(ms, g) /\ R!Complete(ms, g)
    BY <2>2
  <2>4. g \in DOMAIN ms /\ g < o[h] /\ g \in K
    <3>1. g \in DOMAIN ms /\ g < o[h]
      BY <1>2, <1>8, <2>3
    <3> QED BY <1>5, <2>3, <3>1
  <2>5. PICK a \in 1 .. c : o[a] = g
    BY <1>7, <2>4
  <2>6. a \in 1 .. h - 1
    <3>1. a \in Nat /\ h \in Nat /\ o[a] < o[h] /\ o[a] \in Nat /\ o[h] \in Nat
      BY <1>7, <1>8, <2>4, <2>5
    <3>2. a # h /\ ~ h < a
      BY <1>7, <3>1
    <3>3. 1 <= a
      BY <1>7
    <3> QED BY <3>1, <3>2, <3>3
  <2>7. chat[a].calls = ms[g].calls
    BY <1>3, <1>9, <2>3, <2>4, <2>5
  <2>8. ms[o[h]].call \in R!ToSet(ms[g].calls)
    BY <2>3 DEF R!Complete
  <2> QED BY <2>1, <2>6, <2>7, <2>8
<1>15. \A h \in 1 .. c : chat[h].role = "assistant" => payload(chat[h])
  <2> HIDE DEF payload
  <2> QED BY <1>3, <1>5, <1>8, <1>9
<1>16. Accepted(chat, keeps)
  <2> HIDE DEF stripped, paired, kept, K, o
  <2>1. \A h \in DOMAIN chat :
          /\ h + Len(chat[h].calls) <= Len(chat)
          /\ R!ToSet(chat[h].calls) = {chat[h + k].call : k \in 1 .. Len(chat[h].calls)}
          /\ \A k \in 1 .. Len(chat[h].calls) : chat[h + k].role = "tool"
    <3> SUFFICES ASSUME NEW h \in DOMAIN chat
                 PROVE  /\ h + Len(chat[h].calls) <= Len(chat)
                        /\ R!ToSet(chat[h].calls) = {chat[h + k].call : k \in 1 .. Len(chat[h].calls)}
                        /\ \A k \in 1 .. Len(chat[h].calls) : chat[h + k].role = "tool"
      OBVIOUS
    <3>1. h \in 1 .. c /\ Len(chat) = c
      BY <1>9, <1>10
    <3> QED BY <1>13, <3>1
  <2>2. \A h \in DOMAIN chat :
          /\ chat[h].role = "tool" => \E a \in 1 .. h - 1 : chat[h].call \in R!ToSet(chat[a].calls)
          /\ chat[h].role = "assistant" => chat[h].text \/ chat[h].calls # <<>> \/ (keeps /\ chat[h].thinking)
    BY <1>9, <1>14, <1>15
  <2> QED BY <1>12, <2>1, <2>2 DEF Accepted
<1>17. Cardinality(OfUser(chat)) = Cardinality(OfUser(ms))
  <2> DEFINE U == OfUser(chat)
             f == [k \in U |-> o[k]]
  <2>1. U \subseteq 1 .. c /\ \A k \in 1 .. c : k \in U <=> o[k] \in OfUser(ms)
    BY <1>3, <1>8, <1>9 DEF OfUser
  <2>2. \A i \in OfUser(ms) : \E k \in U : o[k] = i
    <3>1. \A i \in OfUser(ms) : i \in K
      BY <1>5 DEF OfUser
    <3> QED BY <1>7, <2>1, <3>1
  <2> HIDE DEF U
  <2>3. f \in Bijection(U, OfUser(ms))
    <3>1. f \in [U -> OfUser(ms)]
      BY <2>1
    <3>2. \A a, b \in U : f[a] = f[b] => a = b
      BY <1>11, <2>1
    <3>3. \A t \in OfUser(ms) : \E s \in U : f[s] = t
      BY <2>2
    <3> HIDE DEF f
    <3> QED BY <3>1, <3>2, <3>3 DEF Bijection, Injection, Surjection, IsInjective
  <2>4. IsFiniteSet(U)
    <3>1. IsFiniteSet(1 .. c)
      BY <1>7, FS_Interval
    <3> QED BY <2>1, <3>1, FS_Subset
  <2>5. ExistsBijection(U, OfUser(ms))
    BY <2>3 DEF ExistsBijection
  <2> QED BY <2>4, <2>5, FS_Bijection DEF U
<1> QED BY <1>16, <1>17

\* The items of one message.
RequestItem == [kind : {"user", "output", "reasoning", "assistant", "function_call"}, call : ToolCalls \cup {"none"}]

LEMMA ItemsOfMessage ==
    ASSUME NEW m \in ChatMessage, m.role # "assistant" => m.calls = <<>>,
           m.role = "tool" => m.call \in ToolCalls,
           \A x, y \in DOMAIN m.calls : m.calls[x] = m.calls[y] => x = y,
           NEW reasoning \in BOOLEAN, NEW items, items = R!Items(m, reasoning), NEW c \in ToolCalls
    PROVE  /\ items \in Seq(RequestItem)
           /\ \A k \in DOMAIN items : items[k] = R!Item("output", c) => k = 1 /\ m.role = "tool" /\ m.call = c
           /\ m.role = "tool" /\ m.call = c => \E k \in DOMAIN items : items[k] = R!Item("output", c)
           /\ \A k \in DOMAIN items : items[k] = R!Item("function_call", c) =>
                                         \E x \in DOMAIN m.calls : m.calls[x] = c
           /\ \A k, l \in DOMAIN items :
                 items[k] = R!Item("function_call", c) /\ items[l] = R!Item("function_call", c) => k = l
           /\ (\E x \in DOMAIN m.calls : m.calls[x] = c) =>
                 \E k \in DOMAIN items : items[k] = R!Item("function_call", c)
<1> USE DEF R!Item, R!Block
<1>1. CASE m.role = "user"
  <2>1. items = <<R!Item("user", "none")>> /\ m.calls = <<>>
    BY <1>1 DEF R!Items
  <2> QED BY <1>1, <2>1 DEF RequestItem
<1>2. CASE m.role = "tool"
  <2>1. items = <<R!Item("output", m.call)>> /\ m.calls = <<>> /\ m.call \in ToolCalls
    BY <1>2 DEF R!Items
  <2>2. R!Item("output", m.call) \in RequestItem
    BY <2>1 DEF RequestItem
  <2> QED BY <1>2, <2>1, <2>2
<1>3. CASE m.role = "assistant"
  <2> DEFINE said == (IF reasoning /\ m.thinking THEN <<R!Item("reasoning", "none")>> ELSE <<>>)
                     \o (IF m.text \/ (m.calls = <<>> /\ ~(reasoning /\ m.thinking))
                         THEN <<R!Item("assistant", "none")>> ELSE <<>>)
             made == [k \in DOMAIN m.calls |-> R!Item("function_call", m.calls[k])]
             n == Len(m.calls)
             a == Len(said)
  <2>1. items = said \o made
    BY <1>3 DEF R!Items
  <2>2. said \in Seq(RequestItem) /\ \A k \in DOMAIN said : said[k].kind \in {"reasoning", "assistant"}
    <3>1. R!Item("reasoning", "none") \in RequestItem /\ R!Item("assistant", "none") \in RequestItem
      BY DEF RequestItem
    <3>2. PICK s : s = IF reasoning /\ m.thinking THEN <<R!Item("reasoning", "none")>> ELSE <<>>
      OBVIOUS
    <3>3. PICK t : t = IF m.text \/ (m.calls = <<>> /\ ~(reasoning /\ m.thinking))
                       THEN <<R!Item("assistant", "none")>> ELSE <<>>
      OBVIOUS
    <3>4. s \in Seq(RequestItem) /\ \A k \in DOMAIN s : s[k].kind \in {"reasoning", "assistant"}
      BY <3>1, <3>2
    <3>5. t \in Seq(RequestItem) /\ \A k \in DOMAIN t : t[k].kind \in {"reasoning", "assistant"}
      BY <3>1, <3>3
    <3>6. said = s \o t
      BY <3>2, <3>3
    <3> HIDE DEF said
    <3> QED BY <3>4, <3>5, <3>6
  <2>3. m.calls \in Seq(ToolCalls) /\ n \in Nat /\ DOMAIN m.calls = 1 .. n
    BY DEF ChatMessage
  <2>4. \A x \in 1 .. n : m.calls[x] \in ToolCalls /\ made[x] = R!Item("function_call", m.calls[x])
    BY <2>3
  <2>5. made \in Seq(RequestItem) /\ DOMAIN made = 1 .. n /\ Len(made) = n
    <3>1. made \in [1 .. n -> RequestItem]
      BY <2>3, <2>4 DEF RequestItem
    <3> HIDE DEF made, n
    <3> QED BY <2>3, <3>1
  <2> HIDE DEF said, made, n
  <2>6. /\ items \in Seq(RequestItem) /\ a \in Nat /\ DOMAIN items = 1 .. a + n
        /\ DOMAIN said = 1 .. a
        /\ \A k \in 1 .. a : items[k] = said[k]
        /\ \A x \in 1 .. n : items[a + x] = made[x]
    BY <2>1, <2>2, <2>3, <2>5
  <2> HIDE DEF a
  <2>7. \A k \in DOMAIN items : \/ items[k].kind \in {"reasoning", "assistant"}
                                \/ k - a \in 1 .. n /\ items[k] = R!Item("function_call", m.calls[k - a])
    <3> SUFFICES ASSUME NEW k \in DOMAIN items
                 PROVE  \/ items[k].kind \in {"reasoning", "assistant"}
                        \/ k - a \in 1 .. n /\ items[k] = R!Item("function_call", m.calls[k - a])
      OBVIOUS
    <3>1. k \in 1 .. a \/ (k - a \in 1 .. n /\ a + (k - a) = k)
      BY <2>3, <2>6
    <3> QED BY <2>2, <2>4, <2>6, <3>1
  <2>8. \A x \in 1 .. n : a + x \in DOMAIN items /\ items[a + x] = R!Item("function_call", m.calls[x])
    <3>1. \A x \in 1 .. n : a + x \in 1 .. a + n
      BY <2>3, <2>6
    <3> QED BY <2>4, <2>6, <3>1
  <2>9. \A k \in DOMAIN items : items[k] # R!Item("output", c)
    BY <2>7
  <2>10. \A k \in DOMAIN items : items[k] = R!Item("function_call", c) => k - a \in 1 .. n /\ m.calls[k - a] = c
    BY <2>7
  <2>11. ASSUME NEW k \in DOMAIN items, NEW l \in DOMAIN items,
                items[k] = R!Item("function_call", c), items[l] = R!Item("function_call", c)
         PROVE  k = l
    <3>1. k - a \in 1 .. n /\ l - a \in 1 .. n /\ k - a = l - a
      BY <2>3, <2>10, <2>11
    <3>2. k \in Nat /\ l \in Nat
      BY <2>6
    <3> QED BY <2>6, <3>1, <3>2
  <2>12. (\E x \in DOMAIN m.calls : m.calls[x] = c) =>
            \E k \in DOMAIN items : items[k] = R!Item("function_call", c)
    BY <2>3, <2>8
  <2>13. \A k \in DOMAIN items : items[k] = R!Item("function_call", c) =>
                                      \E x \in DOMAIN m.calls : m.calls[x] = c
    BY <2>3, <2>10
  <2>14. items \in Seq(RequestItem) /\ m.role # "tool"
    BY <1>3, <2>6
  <2> QED BY <2>9, <2>11, <2>12, <2>13, <2>14
<1> QED BY <1>1, <1>2, <1>3 DEF ChatMessage

LEMMA OneElement == ASSUME NEW s, s # {}, \A a, b \in s : a = b PROVE \E a : s = {a}
<1>1. PICK a : a \in s
  OBVIOUS
<1>2. s = {a}
  BY <1>1
<1> QED BY <1>2

\* The items of messages that are accepted: each call once with its output
\* after it, and no other output.
LEMMA ItemsArePaired ==
    ASSUME NEW ms, NEW keeps, Accepted(ms, keeps), NEW reasoning \in BOOLEAN, NEW c \in ToolCalls, NEW items,
           items = R!FlattenSeq([k \in DOMAIN ms |-> R!Items(ms[k], reasoning)]),
           NEW made, made = {i \in DOMAIN items : items[i] = R!Item("function_call", c)},
           NEW given, given = {i \in DOMAIN items : items[i] = R!Item("output", c)}
    PROVE  /\ Cardinality(made) = Cardinality(given)
           /\ \A i \in made, j \in given : i < j
           /\ Cardinality(given) <= 1
<1> DEFINE its == [k \in DOMAIN ms |-> R!Items(ms[k], reasoning)]
           call == R!Item("function_call", c)
           output == R!Item("output", c)
<1>1. /\ EachOnce(ms) /\ ms \in Seq(ChatMessage) /\ Len(ms) \in Nat /\ DOMAIN ms = 1 .. Len(ms)
      /\ \A h \in DOMAIN ms : ms[h] \in ChatMessage
  <2>1. EachOnce(ms) /\ ms \in Seq(ChatMessage)
    BY DEF Accepted, EachOnce
  <2> QED BY <2>1
<1>2. \A h \in DOMAIN ms :
         /\ its[h] \in Seq(RequestItem)
         /\ \A k \in DOMAIN its[h] : its[h][k] = output => k = 1 /\ ms[h].role = "tool" /\ ms[h].call = c
         /\ ms[h].role = "tool" /\ ms[h].call = c => \E k \in DOMAIN its[h] : its[h][k] = output
         /\ \A k \in DOMAIN its[h] : its[h][k] = call => \E x \in DOMAIN ms[h].calls : ms[h].calls[x] = c
         /\ \A k, l \in DOMAIN its[h] : its[h][k] = call /\ its[h][l] = call => k = l
         /\ (\E x \in DOMAIN ms[h].calls : ms[h].calls[x] = c) => \E k \in DOMAIN its[h] : its[h][k] = call
  <2> SUFFICES ASSUME NEW h \in DOMAIN ms, NEW it, it = R!Items(ms[h], reasoning)
               PROVE  /\ it \in Seq(RequestItem)
                      /\ \A k \in DOMAIN it : it[k] = output => k = 1 /\ ms[h].role = "tool" /\ ms[h].call = c
                      /\ ms[h].role = "tool" /\ ms[h].call = c => \E k \in DOMAIN it : it[k] = output
                      /\ \A k \in DOMAIN it : it[k] = call => \E x \in DOMAIN ms[h].calls : ms[h].calls[x] = c
                      /\ \A k, l \in DOMAIN it : it[k] = call /\ it[l] = call => k = l
                      /\ (\E x \in DOMAIN ms[h].calls : ms[h].calls[x] = c) => \E k \in DOMAIN it : it[k] = call
    OBVIOUS
  <2>1. /\ ms[h] \in ChatMessage
        /\ ms[h].role # "assistant" => ms[h].calls = <<>>
        /\ ms[h].role = "tool" => ms[h].call \in ToolCalls
        /\ \A x, y \in DOMAIN ms[h].calls : ms[h].calls[x] = ms[h].calls[y] => x = y
    BY <1>1 DEF EachOnce
  <2> HIDE DEF call, output
  <2> QED BY <2>1, ItemsOfMessage DEF call, output
<1>3. its \in Seq(Seq(RequestItem)) /\ DOMAIN its = DOMAIN ms
  <2>1. its \in [1 .. Len(ms) -> Seq(RequestItem)]
    BY <1>1, <1>2
  <2> QED BY <1>1, <2>1
<1> HIDE DEF its, call, output
<1>4. items \in Seq(RequestItem) /\ \E at : FlatAt(items, at, its)
  BY <1>3, FlatSequence DEF its
<1>5. PICK at : FlatAt(items, at, its)
  BY <1>4
<1>6. ASSUME NEW i \in DOMAIN items
      PROVE  \E h \in DOMAIN ms : \E k \in DOMAIN its[h] : i = at[h] + k /\ items[i] = its[h][k]
  <2>1. PICK h \in DOMAIN its : \E k \in DOMAIN its[h] : i = at[h] + k
    BY <1>5 DEF FlatAt
  <2>2. PICK k \in DOMAIN its[h] : i = at[h] + k
    BY <2>1
  <2>3. items[at[h] + k] = its[h][k]
    BY <1>5 DEF FlatAt
  <2> QED BY <1>3, <2>2, <2>3
<1>7. \A h \in DOMAIN ms : \A k \in DOMAIN its[h] : at[h] + k \in DOMAIN items /\ items[at[h] + k] = its[h][k]
  <2>1. \A h \in DOMAIN its : \A k \in DOMAIN its[h] : at[h] + k \in DOMAIN items /\ items[at[h] + k] = its[h][k]
    BY <1>5 DEF FlatAt
  <2> QED BY <1>3, <2>1
<1>8. /\ \A h \in DOMAIN ms : at[h] \in Nat /\ Len(its[h]) \in Nat /\ DOMAIN its[h] = 1 .. Len(its[h])
      /\ \A h, g \in DOMAIN ms : h < g => at[h] + Len(its[h]) <= at[g]
  <2>1. Len(its) = Len(ms) /\ DOMAIN its = 1 .. Len(its)
    BY <1>1, <1>3
  <2>2. at \in [1 .. Len(its) -> Nat] /\ \A h, g \in DOMAIN its : h < g => at[h] + Len(its[h]) <= at[g]
    BY <1>5 DEF FlatAt
  <2>3. \A h \in DOMAIN ms : at[h] \in Nat
    BY <1>1, <2>1, <2>2
  <2>4. \A h \in DOMAIN ms : Len(its[h]) \in Nat /\ DOMAIN its[h] = 1 .. Len(its[h])
    BY <1>2
  <2> QED BY <1>3, <2>2, <2>3, <2>4
<1>9. ASSUME NEW i \in made
      PROVE  \E h \in DOMAIN ms : \E k \in DOMAIN its[h] :
                /\ i = at[h] + k /\ its[h][k] = call
                /\ \E x \in DOMAIN ms[h].calls : ms[h].calls[x] = c
  <2>1. i \in DOMAIN items /\ items[i] = call
    BY DEF call
  <2> QED BY <1>2, <1>6, <2>1
<1>10. ASSUME NEW j \in given
       PROVE  \E h \in DOMAIN ms : \E k \in DOMAIN its[h] :
                 j = at[h] + k /\ k = 1 /\ ms[h].role = "tool" /\ ms[h].call = c
  <2>1. j \in DOMAIN items /\ items[j] = output
    BY DEF output
  <2> QED BY <1>2, <1>6, <2>1
<1>11. ASSUME NEW i \in made, NEW j \in made PROVE i = j
  <2>1. PICK h \in DOMAIN ms : \E k \in DOMAIN its[h] :
           /\ i = at[h] + k /\ its[h][k] = call
           /\ \E x \in DOMAIN ms[h].calls : ms[h].calls[x] = c
    BY <1>9
  <2>2. PICK g \in DOMAIN ms : \E l \in DOMAIN its[g] :
           /\ j = at[g] + l /\ its[g][l] = call
           /\ \E x \in DOMAIN ms[g].calls : ms[g].calls[x] = c
    BY <1>9
  <2>3. h = g
    BY <1>1, <2>1, <2>2 DEF EachOnce
  <2>4. \A k, l \in DOMAIN its[h] : its[h][k] = call /\ its[h][l] = call => k = l
    BY <1>2
  <2> QED BY <2>1, <2>2, <2>3, <2>4
<1>12. ASSUME NEW i \in given, NEW j \in given PROVE i = j
  <2>1. PICK h \in DOMAIN ms : i = at[h] + 1 /\ ms[h].role = "tool" /\ ms[h].call = c
    BY <1>10
  <2>2. PICK g \in DOMAIN ms : j = at[g] + 1 /\ ms[g].role = "tool" /\ ms[g].call = c
    BY <1>10
  <2>3. h = g
    BY <1>1, <2>1, <2>2 DEF EachOnce
  <2> QED BY <2>1, <2>2, <2>3
<1>13. ASSUME NEW h \in DOMAIN ms, NEW x \in DOMAIN ms[h].calls, ms[h].calls[x] = c
       PROVE  \E g \in DOMAIN ms : h < g /\ ms[g].role = "tool" /\ ms[g].call = c
  <2>1. c \in R!ToSet(ms[h].calls)
    BY <1>13 DEF R!ToSet
  <2>2. PICK k \in 1 .. Len(ms[h].calls) : ms[h + k].call = c
    BY <2>1 DEF Accepted
  <2>3. ms[h + k].role = "tool" /\ h + Len(ms[h].calls) <= Len(ms)
    BY DEF Accepted
  <2>4. Len(ms[h].calls) \in Nat
    BY <1>1 DEF ChatMessage
  <2>5. h + k \in DOMAIN ms /\ h < h + k
    BY <1>1, <2>3, <2>4
  <2> QED BY <2>2, <2>3, <2>5
<1>14. ASSUME NEW i \in made, NEW j \in given PROVE i < j
  <2>1. PICK h \in DOMAIN ms : /\ \E k \in DOMAIN its[h] : i = at[h] + k
                               /\ \E x \in DOMAIN ms[h].calls : ms[h].calls[x] = c
    BY <1>9
  <2>6. PICK k \in 1 .. Len(its[h]) : i = at[h] + k
    BY <1>8, <2>1
  <2>2. PICK g \in DOMAIN ms : j = at[g] + 1 /\ ms[g].role = "tool" /\ ms[g].call = c
    BY <1>10
  <2>3. PICK f \in DOMAIN ms : h < f /\ ms[f].role = "tool" /\ ms[f].call = c
    BY <1>13, <2>1
  <2>4. f = g
    BY <1>1, <2>2, <2>3 DEF EachOnce
  <2>5. at[h] + Len(its[h]) <= at[g] /\ at[h] \in Nat /\ at[g] \in Nat /\ Len(its[h]) \in Nat
    BY <1>8, <2>3, <2>4
  <2> QED BY <2>6, <2>2, <2>5
<1>15. ASSUME NEW i \in made PROVE given # {}
  <2>1. PICK h \in DOMAIN ms : \E x \in DOMAIN ms[h].calls : ms[h].calls[x] = c
    BY <1>9
  <2>2. PICK g \in DOMAIN ms : ms[g].role = "tool" /\ ms[g].call = c
    BY <1>13, <2>1
  <2>3. PICK k \in DOMAIN its[g] : its[g][k] = output
    BY <1>2, <2>2
  <2>4. at[g] + k \in DOMAIN items /\ items[at[g] + k] = R!Item("output", c)
    BY <1>7, <2>3 DEF output
  <2> QED BY <2>4
<1>16. ASSUME NEW j \in given PROVE made # {}
  <2>1. PICK g \in DOMAIN ms : ms[g].role = "tool" /\ ms[g].call = c
    BY <1>10
  <2>2. PICK h \in 1 .. g - 1 : ms[g].call \in R!ToSet(ms[h].calls)
    BY <2>1 DEF Accepted
  <2>3. h \in DOMAIN ms /\ \E x \in DOMAIN ms[h].calls : ms[h].calls[x] = c
    BY <1>1, <2>1, <2>2 DEF R!ToSet
  <2>4. PICK k \in DOMAIN its[h] : its[h][k] = call
    BY <1>2, <2>3
  <2>5. at[h] + k \in DOMAIN items /\ items[at[h] + k] = R!Item("function_call", c)
    BY <1>7, <2>3, <2>4 DEF call
  <2> QED BY <2>5
<1>17. CASE made = {}
  <2>1. given = {}
    BY <1>16, <1>17
  <2> QED BY <1>17, <2>1, FS_EmptySet
<1>18. CASE made # {}
  <2>1. \E a : made = {a}
    BY <1>11, <1>18, OneElement
  <2>2. \E a : given = {a}
    BY <1>12, <1>15, <1>18, OneElement
  <2>3. Cardinality(made) = 1 /\ Cardinality(given) = 1
    BY <2>1, <2>2, FS_Singleton
  <2> QED BY <1>14, <2>3
<1> QED BY <1>17, <1>18

LEMMA RequestHolds == RequestInv => R!RequestsAreWellFormed
<1> SUFFICES ASSUME RequestInv PROVE R!RequestsAreWellFormed
  OBVIOUS
<1> DEFINE chat == R!Normalised(R!ChatMessages, FALSE)
<1>1. EachOnce(R!ChatMessages)
  BY ChatOnce
<1>2. Accepted(chat, FALSE) /\ Cardinality(OfUser(chat)) = Cardinality(OfUser(R!ChatMessages))
  BY <1>1, NormalisedIs
<1> HIDE DEF chat
<1>3. \A h \in DOMAIN chat :
         /\ h + Len(chat[h].calls) <= Len(chat)
         /\ R!ToSet(chat[h].calls) = {chat[h + k].call : k \in 1 .. Len(chat[h].calls)}
         /\ chat[h].role = "tool" => \E a \in 1 .. h - 1 : chat[h].call \in R!ToSet(chat[a].calls)
         /\ chat[h].role = "assistant" => chat[h].text \/ chat[h].calls # <<>>
  BY <1>2 DEF Accepted
<1>4. R!Cardinality({i \in DOMAIN chat : chat[i].role = "user"})
      = R!Cardinality({i \in DOMAIN R!ChatMessages : R!ChatMessages[i].role = "user"})
  BY <1>2, RequestCardinality DEF OfUser
<1>5. ASSUME NEW reasoning \in BOOLEAN, NEW c \in ToolCalls
      PROVE  LET items == R!ResponsesInput(reasoning)
                 at(kind, call) == {i \in DOMAIN items : items[i] = R!Item(kind, call)}
             IN  /\ R!Cardinality(at("function_call", c)) = R!Cardinality(at("output", c))
                 /\ \A i \in at("function_call", c), j \in at("output", c) : i < j
                 /\ R!Cardinality(at("output", c)) <= 1
  <2> DEFINE ms == R!Normalised(R!ChatMessages, reasoning)
             items == R!ResponsesInput(reasoning)
             made == {i \in DOMAIN items : items[i] = R!Item("function_call", c)}
             given == {i \in DOMAIN items : items[i] = R!Item("output", c)}
  <2>1. Accepted(ms, reasoning)
    BY <1>1, NormalisedIs
  <2>2. items = R!FlattenSeq([k \in DOMAIN ms |-> R!Items(ms[k], reasoning)])
    BY DEF R!ResponsesInput
  <2> HIDE DEF ms, items
  <2>3. /\ Cardinality(made) = Cardinality(given)
        /\ \A i \in made, j \in given : i < j
        /\ Cardinality(given) <= 1
    BY <2>1, <2>2, ItemsArePaired
  <2>4. /\ R!Cardinality(made) = R!Cardinality(given)
        /\ \A i \in made, j \in given : i < j
        /\ R!Cardinality(given) <= 1
    <3> HIDE DEF made, given
    <3> QED BY <2>3, RequestCardinality
  <2> QED BY <2>4 DEF items
<1> QED BY <1>3, <1>4, <1>5 DEF R!RequestsAreWellFormed, chat
=============================================================================

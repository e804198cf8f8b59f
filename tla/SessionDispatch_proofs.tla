----------------------- MODULE SessionDispatch_proofs -----------------------
(***************************************************************************)
(* A Session has at most one active turn, and the dispatch task agrees     *)
(* with the run it waits for: for any number of requests and confirmation  *)
(* commands, whatever ends, fails, is cancelled, withdrawn or crashes.     *)
(***************************************************************************)
EXTENDS SessionDispatch, PendingQueues_proofs

\* What a new position of one turn does to the positions of all of them.
LEMMA NewPosition ==
    ASSUME turn \in [Turns -> TurnState], NEW t \in Turns, NEW pc, At(t, pc)
    PROVE  \A u \in Turns : turn'[u].pc = IF u = t THEN pc ELSE turn[u].pc
BY DEF TurnState, At

\* Every step keeps the place of the direct task exclusive.
LEMMA OneStarterInductive ==
    TypeOK /\ OneStarter /\ [Next]_vars => OneStarter'
<1> SUFFICES ASSUME TypeOK, OneStarter, [Next]_vars PROVE OneStarter'
  OBVIOUS
<1> USE DEF OneStarter
<1>1. turn \in [Turns -> TurnState] /\ direct \in Turns \cup {"none"}
  BY DEF TypeOK
<1>2. "run" \in Turns /\ "none" \notin Turns
  BY DispatchAssumption DEF Turns
<1>3. ASSUME UNCHANGED <<turn, reserved, direct>> PROVE OneStarter'
  BY <1>3
<1>4. ASSUME NEW r \in Requests,
             Followup(r) \/ Steer(r) \/ Remove(r) \/ Promote(r)
      PROVE  OneStarter'
  BY <1>3, <1>4 DEF Followup, Steer, Remove, Promote, loop
<1>5. ASSUME NEW r, NEW b, FollowupReturns(r, b) PROVE OneStarter'
  BY <1>3, <1>5 DEF FollowupReturns, loop
<1>6. CASE Cancel
  BY <1>1, <1>2, <1>6 DEF Cancel
<1>7. CASE ManualCompact
  BY <1>3, <1>7 DEF ManualCompact, loop
<1>8. ASSUME NEW c \in Confirms, Confirm(c) PROVE OneStarter'
  <2>1. c \in Turns /\ c # "run"
    BY <1>8, DispatchAssumption DEF Turns
  <2>2. CASE IsActiveSession
    BY <1>3, <1>8, <2>2 DEF Confirm
  <2>3. CASE ~IsActiveSession
    <3>1. direct = "none" /\ ~reserved
      BY <2>3 DEF IsActiveSession
    <3>2. \A t \in Turns : turn[t].pc \notin Active
      BY <1>2, <3>1
    <3>3. At(c, "resuming") /\ direct' = c /\ UNCHANGED reserved
      BY <1>8, <2>3 DEF Confirm
    <3>4. \A u \in Turns :
             turn'[u].pc = IF u = c THEN "resuming" ELSE turn[u].pc
      BY <1>1, <2>1, <3>3, NewPosition
    <3> QED
      BY <1>2, <2>1, <3>1, <3>2, <3>3, <3>4
  <2> QED
    BY <2>2, <2>3
<1>9. CASE DispatchStep
  <2>1. CASE DispatchDeliver
    <3>1. UNCHANGED <<reserved, direct>>
      BY <2>1 DEF DispatchDeliver
    <3>2. UNCHANGED turn \/ \E r :
             turn' = [turn EXCEPT !["run"] =
                         [NoTurn EXCEPT !.pc = "admitted", !.request = r]]
      BY <2>1 DEF DispatchDeliver
    <3>3. \A u \in Turns : turn'[u].pc = turn[u].pc
             \/ (u = "run" /\ turn'[u].pc = "admitted")
      BY <1>1, <3>2 DEF NoTurn
    <3> QED
      BY <1>2, <3>1, <3>3 DEF Active
  <2>2. CASE DispatchStart \/ DispatchWaits \/ DispatchPeek \/ DispatchClaim
               \/ DispatchFinishes
    BY <1>3, <2>2 DEF DispatchStart, DispatchWaits, DispatchPeek,
       DispatchClaim, DispatchFinishes, DispatchUnchanged, loop
  <2> QED
    BY <1>9, <2>1, <2>2 DEF DispatchStep
<1>10. ASSUME NEW t \in Turns, TurnStep(t) PROVE OneStarter'
  <2>1. CASE TurnClaims(t)
    <3>1. \A u \in Turns : turn'[u].pc = IF u = t THEN "active" ELSE turn[u].pc
      BY <1>1, <2>1 DEF TurnClaims, TurnState
    <3>2. turn[t].pc = "gate" /\ UNCHANGED <<reserved, direct>>
      BY <2>1 DEF TurnClaims
    <3> QED
      BY <1>2, <3>1, <3>2 DEF Active
  <2>2. ASSUME NEW status, TurnEnds(t, status) PROVE OneStarter'
    <3>1. turn[t].pc \in Active /\ direct = t
      BY <2>2 DEF TurnEnds, Active
    <3>2. turn["run"].pc # "reserved"
      BY <1>2, <3>1
    <3>3. \A u \in Turns : turn'[u].pc = IF u = t THEN "after-run" ELSE turn[u].pc
      BY <1>1, <2>2 DEF TurnEnds, TurnState
    <3> QED
      BY <1>2, <3>1, <3>2, <3>3 DEF Active
  <2>3. CASE AfterRunPasses(t)
    <3>1. At(t, "returning") /\ UNCHANGED <<reserved, direct>>
      BY <2>3 DEF AfterRunPasses
    <3>2. \A u \in Turns :
             turn'[u].pc = IF u = t THEN "returning" ELSE turn[u].pc
      BY <1>1, <3>1, NewPosition
    <3> QED
      BY <1>2, <3>1, <3>2 DEF Active
  <2>4. CASE AfterRunCompacts(t)
    <3>1. At(t, "compacting") /\ UNCHANGED <<reserved, direct>>
      BY <2>4 DEF AfterRunCompacts
    <3>2. \A u \in Turns :
             turn'[u].pc = IF u = t THEN "compacting" ELSE turn[u].pc
      BY <1>1, <3>1, NewPosition
    <3> QED
      BY <1>2, <3>1, <3>2 DEF Active
  <2> QED
    BY <1>10, <2>1, <2>2, <2>3, <2>4 DEF TurnStep
<1>11. CASE RunStep
  <2>1. CASE RunAdmits
    <3>1. CASE IsActiveSession \/ turn["run"].request \in executed
      <4>1. UNCHANGED <<reserved, direct>>
        BY <2>1, <3>1 DEF RunAdmits
      <4>2. PICK status :
               turn' = [turn EXCEPT !["run"].pc = "returning",
                                    !["run"].status = status]
        BY <2>1, <3>1 DEF RunAdmits
      <4>3. \A u \in Turns :
               turn'[u].pc = IF u = "run" THEN "returning" ELSE turn[u].pc
        BY <1>1, <1>2, <4>2 DEF TurnState
      <4> QED
        BY <1>2, <4>1, <4>3 DEF Active
    <3>2. CASE ~IsActiveSession /\ turn["run"].request \notin executed
      <4>1. At("run", "reserved") /\ reserved' /\ UNCHANGED direct
        BY <2>1, <3>2 DEF RunAdmits
      <4>2. direct = "none"
        BY <3>2 DEF IsActiveSession
      <4>3. \A u \in Turns :
               turn'[u].pc = IF u = "run" THEN "reserved" ELSE turn[u].pc
        BY <1>1, <1>2, <4>1, NewPosition
      <4> QED
        BY <1>2, <4>1, <4>2, <4>3 DEF Active
    <3> QED
      BY <3>1, <3>2
  <2>2. CASE RunRefused
    <3>1. \A u \in Turns :
             turn'[u].pc = IF u = "run" THEN "returning" ELSE turn[u].pc
      BY <1>1, <1>2, <2>2 DEF RunRefused, TurnState
    <3>2. UNCHANGED direct
      BY <2>2 DEF RunRefused
    <3> QED
      BY <1>2, <3>1, <3>2 DEF Active
  <2>3. CASE RunStarts
    <3>1. direct = "none" /\ At("run", "active") /\ direct' = "run"
      BY <2>3 DEF RunStarts
    <3>2. \A t \in Turns : turn[t].pc \notin Active
      BY <1>2, <3>1
    <3> QED
      BY <1>1, <1>2, <3>1, <3>2, NewPosition
  <2>4. CASE RunReturns
    <3>1. \A u \in Turns :
             turn'[u].pc = IF u = "run" THEN "none" ELSE turn[u].pc
      BY <1>1, <1>2, <2>4 DEF RunReturns, NoTurn
    <3>2. UNCHANGED <<reserved, direct>>
      BY <2>4 DEF RunReturns
    <3> QED
      BY <1>2, <3>1, <3>2 DEF Active
  <2> QED
    BY <1>2, <1>10, <1>11, <2>1, <2>2, <2>3, <2>4 DEF RunStep
<1>12. ASSUME NEW c \in Confirms, ConfirmStep(c) PROVE OneStarter'
  <2>1. c \in Turns /\ c # "run"
    BY <1>12, DispatchAssumption DEF Turns
  <2>2. CASE Resume(c)
    <3>1. /\ turn[c].pc = "resuming" /\ At(c, "active")
          /\ UNCHANGED <<reserved, direct>>
      BY <2>2 DEF Resume
    <3> QED
      BY <1>1, <1>2, <2>1, <3>1, NewPosition DEF Active
  <2>3. CASE ConfirmReturns(c)
    <3>1. \A u \in Turns : turn'[u].pc = IF u = c THEN "none" ELSE turn[u].pc
      BY <1>1, <2>1, <2>3 DEF ConfirmReturns, NoTurn
    <3>2. UNCHANGED <<reserved, direct>>
      BY <2>3 DEF ConfirmReturns
    <3> QED
      BY <1>2, <2>1, <3>1, <3>2 DEF Active
  <2> QED
    BY <1>10, <1>12, <2>1, <2>2, <2>3 DEF ConfirmStep
<1>13. ASSUME NEW t \in Turns, TurnPeeks(t) PROVE OneStarter'
  <2>1. PICK compact \in {FALSE, AutoCompact} :
           turn' = [turn EXCEPT
                ![t].pc = IF compact THEN "gate compacting" ELSE "gate",
                ![t].batch = Ids(Contents(box.next_step))]
    BY <1>13 DEF TurnPeeks
  <2>2. turn[t].pc = "active" /\ UNCHANGED <<reserved, direct>>
    BY <1>13 DEF TurnPeeks
  <2>3. \A u \in Turns : turn'[u].pc =
           IF u = t THEN (IF compact THEN "gate compacting" ELSE "gate")
           ELSE turn[u].pc
    BY <1>1, <2>1 DEF TurnState
  <2> QED
    BY <1>2, <2>2, <2>3 DEF Active
<1>14. ASSUME NEW ok, CompactionEnds(ok) PROVE OneStarter'
  <2>1. \A t \in Turns :
           /\ turn'[t].pc \in Active => turn[t].pc \in Active
           /\ turn'[t].pc = "reserved" => turn[t].pc = "reserved"
    BY <1>1, <1>14 DEF CompactionEnds, TurnState, Active
  <2>2. UNCHANGED <<reserved, direct>>
    BY <1>14 DEF CompactionEnds
  <2> QED
    BY <1>2, <2>1, <2>2
<1>15. CASE Crash
  BY <1>2, <1>15 DEF Crash, NoTurn, Active
<1>16. CASE Restart \/ IndexForgets
  BY <1>3, <1>16 DEF Restart, IndexForgets, loop
<1>17. CASE UNCHANGED vars
  BY <1>3, <1>17 DEF vars, loop
<1> QED
  BY <1>4, <1>5, <1>6, <1>7, <1>8, <1>9, <1>11, <1>12, <1>13, <1>14, <1>15,
     <1>16, <1>17 DEF Next

-----------------------------------------------------------------------------
(* Types.  The queues come first: the request ids that turns and the       *)
(* dispatch task carry are taken from them.                                *)

\* Every step leaves the queues well formed.
LEMMA QueuesInductive ==
    box \in Inbox /\ Sound(box) /\ [Next]_vars => box' \in Inbox /\ Sound(box')
<1> SUFFICES ASSUME box \in Inbox, Sound(box), [Next]_vars
             PROVE  box' \in Inbox /\ Sound(box')
  OBVIOUS
<1>1. ASSUME NEW ids, box' = Without(box, ids)
      PROVE  box' \in Inbox /\ Sound(box')
  BY <1>1, WithoutSound
<1>2. ASSUME NEW r \in Requests, NEW target \in Targets, Admissible(r),
             box' = Admitted(box, r, target)
      PROVE  box' \in Inbox /\ Sound(box')
  BY <1>2, AdmittedSound DEF Admissible, PendingIds
<1>3. "next_turn" \in Targets /\ "next_step" \in Targets
  BY DEF Targets
<1>4. ASSUME NEW r \in Requests, Followup(r) \/ Steer(r) \/ Remove(r) \/ Promote(r)
      PROVE  box' \in Inbox /\ Sound(box')
  <2>1. CASE Promote(r)
    <3>1. r \in Ids(Contents(box.next_turn)) /\ box' = Promoted(box, r)
      BY <2>1 DEF Promote, QueuedIds
    <3> QED
      BY <3>1, PromotedSound
  <2> QED
    BY <1>1, <1>2, <1>3, <1>4, <2>1 DEF Followup, Steer, Remove
<1>5. ASSUME NEW t \in Turns, TurnStep(t) PROVE box' \in Inbox /\ Sound(box')
  <2>1. CASE TurnClaims(t)
    BY <1>1, <2>1 DEF TurnClaims
  <2> QED
    BY <1>5, <2>1 DEF TurnStep, TurnEnds, AfterRunPasses, AfterRunCompacts, inbox
<1>6. CASE DispatchStep
  <2>1. CASE DispatchClaim
    BY <1>1, <2>1 DEF DispatchClaim
  <2> QED
    BY <1>6, <2>1 DEF DispatchStep, DispatchStart, DispatchWaits, DispatchPeek,
       DispatchDeliver, DispatchFinishes, inbox
<1>7. CASE RunStep
  BY <1>5, <1>7 DEF RunStep, RunAdmits, RunRefused, RunStarts, RunReturns,
     inbox, Turns
<1>8. ASSUME NEW c \in Confirms, Confirm(c) \/ ConfirmStep(c)
      PROVE  box' \in Inbox /\ Sound(box')
  BY <1>5, <1>8 DEF Confirm, ConfirmStep, Resume, ConfirmReturns, inbox, Turns
<1>9. ASSUME NEW r, NEW b, FollowupReturns(r, b) PROVE box' \in Inbox /\ Sound(box')
  BY <1>9 DEF FollowupReturns
<1>10. ASSUME NEW t \in Turns, TurnPeeks(t) PROVE box' \in Inbox /\ Sound(box')
  BY <1>10 DEF TurnPeeks, inbox
<1>11. ASSUME NEW ok, CompactionEnds(ok) PROVE box' \in Inbox /\ Sound(box')
  BY <1>11 DEF CompactionEnds
<1>12. CASE Cancel \/ ManualCompact \/ Crash \/ Restart \/ IndexForgets
            \/ UNCHANGED vars
  BY <1>12 DEF Cancel, ManualCompact, Crash, Restart, IndexForgets, vars, inbox
<1> QED
  BY <1>4, <1>6, <1>7, <1>8, <1>9, <1>10, <1>11, <1>12 DEF Next

\* The ids of what is pending are request ids.
LEMMA PendingRequests ==
    ASSUME box \in Inbox
    PROVE  /\ PendingIds \subseteq Requests /\ QueuedIds \subseteq Requests
           /\ Ids(Contents(box.next_step)) \subseteq Requests
           /\ box.next_turn # << >> => Head(box.next_turn).request_id \in Requests
<1>1. Pending(box) \subseteq Item
  BY PendingItems
<1>2. PendingIds \subseteq Requests
  BY <1>1 DEF PendingIds, Ids, Item
<1>3. /\ QueuedIds \subseteq PendingIds
      /\ Ids(Contents(box.next_step)) \subseteq PendingIds
  BY DEF QueuedIds, PendingIds, Ids, Pending
<1>4. ASSUME box.next_turn # << >>
      PROVE  Head(box.next_turn).request_id \in Requests
  <2>1. box.next_turn \in Seq(Item)
    BY DEF Inbox
  <2>2. Head(box.next_turn) \in Item
    BY <1>4, <2>1, HeadTailProperties
  <2> QED
    BY <2>2 DEF Item
<1> QED
  BY <1>2, <1>3, <1>4

\* The requests for a delivery and the end of the dispatch task keep its type.
LEMMA DispatchTypes ==
    ASSUME dispatch \in DispatchState, requested \in BOOLEAN, waitIdle \in BOOLEAN
    PROVE  /\ \A wait \in BOOLEAN : Schedule(wait) =>
                 /\ dispatch' \in DispatchState
                 /\ requested' \in BOOLEAN /\ waitIdle' \in BOOLEAN
           /\ NotScheduled =>
                 /\ dispatch' \in DispatchState
                 /\ requested' \in BOOLEAN /\ waitIdle' \in BOOLEAN
           /\ Finish => dispatch' \in DispatchState
<1>1. [NoDispatch EXCEPT !.pc = "created"] \in DispatchState
      /\ NoDispatch \in DispatchState
  BY DEF NoDispatch, DispatchState
<1> QED
  BY <1>1 DEF Schedule, NotScheduled, Finish

\* A move to another position keeps the type of the turns.
LEMMA TurnTypes ==
    ASSUME turn \in [Turns -> TurnState], NEW t \in Turns
    PROVE  /\ NoTurn \in TurnState
           /\ [turn EXCEPT ![t] = NoTurn] \in [Turns -> TurnState]
           /\ \A s \in TurnState : [turn EXCEPT ![t] = s] \in [Turns -> TurnState]
           /\ \A pc \in Active \cup {"none", "admitted", "reserved", "after-run",
                                      "compacting", "returning"} :
                 At(t, pc) => turn' \in [Turns -> TurnState]
<1>1. NoTurn \in TurnState
  BY DEF NoTurn, TurnState
<1>2. ASSUME NEW pc \in Active \cup {"none", "admitted", "reserved", "after-run",
                                      "compacting", "returning"}, At(t, pc)
      PROVE  turn' \in [Turns -> TurnState]
  <2>1. turn' = [turn EXCEPT ![t] = [turn[t] EXCEPT !.pc = pc]]
    BY <1>2 DEF At
  <2>2. [turn[t] EXCEPT !.pc = pc] \in TurnState
    BY DEF TurnState
  <2> QED
    BY <2>1, <2>2
<1> QED
  BY <1>1, <1>2

\* From the peek on, the dispatch task has a request in hand.
HasCandidate ==
    dispatch.pc \notin {"none", "created", "waiting", "peek"} =>
        dispatch.request # NoRequest

\* A turn that has ended has a status.
HasStatus ==
    \A t \in Turns :
        turn[t].pc \in {"after-run", "compacting", "returning"} =>
            turn[t].status # "none"

\* Every step keeps the types, given that it keeps those of the queues.
LEMMA TypeInductive ==
    /\ TypeOK /\ RunHasItsDispatcher /\ HasCandidate /\ HasStatus
    /\ [Next]_vars /\ box' \in Inbox
    => TypeOK'
<1> SUFFICES ASSUME TypeOK, RunHasItsDispatcher, HasCandidate, HasStatus,
                    [Next]_vars, box' \in Inbox
             PROVE  TypeOK'
  OBVIOUS
<1> DEFINE
      D == dispatch \in DispatchState /\ requested \in BOOLEAN /\ waitIdle \in BOOLEAN
      A == /\ entry \in {"absent", "idle", "running", "paused", "cancelled", "failed"}
           /\ inflight \in BOOLEAN /\ results \subseteq Requests
      T == turn \in [Turns -> TurnState]
      L == /\ reserved \in BOOLEAN /\ direct \in Turns \cup {"none"}
           /\ maintenance \in BOOLEAN /\ compaction \in {"none", "running"}
      G == asks \in 0 .. MaxAsks /\ executed \subseteq Requests
      O == /\ admitting \subseteq Requests \X BOOLEAN /\ receipts \subseteq Requests
           /\ up \in BOOLEAN /\ lost \subseteq Requests
<1>a. box \in Inbox /\ D /\ A /\ T /\ L /\ G /\ O
  BY DEF TypeOK
<1>b. ASSUME D', A', T', L', G', O' PROVE TypeOK'
  BY <1>b DEF TypeOK
<1>c. /\ "run" \in Turns /\ Confirms \subseteq Turns
      /\ Outcomes \subseteq {"completed", "paused", "failed"} /\ MaxAsks \in Nat
      /\ NoRequest \notin Requests
      /\ AutoCompact \in BOOLEAN /\ TRUE \in BOOLEAN /\ FALSE \in BOOLEAN
  BY DispatchAssumption DEF Turns
<1>d. AgentBusy \in BOOLEAN
  BY <1>a DEF AgentBusy
<1>e. ASSUME UNCHANGED dispatch, UNCHANGED requested, UNCHANGED waitIdle PROVE D'
  BY <1>a, <1>e
<1>f. ASSUME NEW t \in Turns, turn[t].pc = "returning"
      PROVE  StateOf(turn[t].status) \in {"idle", "paused", "cancelled", "failed"}
  <2>1. turn[t].status \in {"completed", "paused", "failed", "cancelled"}
    BY <1>a, <1>f DEF HasStatus, TurnState
  <2> QED
    BY <2>1 DEF StateOf
<1>1. ASSUME NEW r \in Requests,
             Followup(r) \/ Steer(r) \/ Remove(r) \/ Promote(r)
      PROVE  TypeOK'
  <2>1. /\ NotScheduled /\ UNCHANGED <<agents, loop, compaction, log, up, lost>>
        /\ UNCHANGED receipts
        /\ admitting' \subseteq admitting \cup {<<r, AgentBusy>>}
    BY <1>1 DEF Followup, Steer, Remove, Promote
  <2>2. D' /\ A' /\ T' /\ L' /\ G' /\ O'
    BY <1>a, <1>d, <2>1 DEF NotScheduled, agents, loop, log
  <2> QED
    BY <1>b, <2>2
<1>2. ASSUME NEW r, NEW b, FollowupReturns(r, b) PROVE TypeOK'
  <2>1. /\ <<r, b>> \in admitting /\ admitting' = admitting \ {<<r, b>>}
        /\ receipts' = receipts \cup {r}
        /\ UNCHANGED <<agents, loop, compaction, log, up, lost>>
        /\ Schedule(FALSE) \/ NotScheduled
    BY <1>2 DEF FollowupReturns
  <2>2. D'
    BY <1>a, <1>c, <2>1, DispatchTypes
  <2>3. A' /\ T' /\ L' /\ G' /\ O'
    BY <1>a, <2>1 DEF agents, loop, log
  <2> QED
    BY <1>b, <2>2, <2>3
<1>3. CASE Cancel
  <2>1. direct \in Turns /\ turn' = [turn EXCEPT ![direct].cancelled = TRUE]
    BY <1>3, <1>a DEF Cancel
  <2>2. [turn[direct] EXCEPT !.cancelled = TRUE] \in TurnState
    BY <1>a, <2>1 DEF TurnState
  <2>3. turn' = [turn EXCEPT ![direct] = [turn[direct] EXCEPT !.cancelled = TRUE]]
    BY <2>1
  <2>4. T'
    BY <1>a, <2>1, <2>2, <2>3, TurnTypes
  <2>5. D' /\ A' /\ L' /\ G' /\ O'
    BY <1>3, <1>a DEF Cancel, inbox, agents, log
  <2> QED
    BY <1>b, <2>4, <2>5
<1>4. CASE ManualCompact
  <2>1. D' /\ A' /\ T' /\ L' /\ G' /\ O'
    BY <1>4, <1>a DEF ManualCompact, inbox, agents, loop, log
  <2> QED
    BY <1>b, <2>1
<1>5. ASSUME NEW c \in Confirms, Confirm(c) PROVE TypeOK'
  <2>1. c \in Turns
    BY <1>5, <1>c
  <2>2. UNCHANGED <<inbox, dispatch, inflight, results, reserved, maintenance,
                    compaction, log, up, lost>>
    BY <1>5 DEF Confirm
  <2>3. (UNCHANGED <<turn, direct>>
           /\ entry' = IF entry = "absent" THEN "absent" ELSE "failed")
        \/ (At(c, "resuming") /\ direct' = c /\ UNCHANGED entry)
    BY <1>5 DEF Confirm
  <2>4. T'
    <3>1. CASE At(c, "resuming")
      BY <1>a, <2>1, <3>1, TurnTypes DEF Active
    <3> QED
      BY <1>a, <2>3, <3>1
  <2>5. D' /\ A' /\ L' /\ G' /\ O'
    BY <1>a, <2>1, <2>2, <2>3 DEF inbox, log
  <2> QED
    BY <1>b, <2>4, <2>5
<1>6. ASSUME NEW t \in Turns, TurnStep(t) PROVE TypeOK'
  <2>1. CASE TurnClaims(t)
    <3>1. turn' = [turn EXCEPT ![t] = [turn[t] EXCEPT !.pc = "active", !.batch = {}]]
      BY <2>1, <1>a DEF TurnClaims
    <3>2. [turn[t] EXCEPT !.pc = "active", !.batch = {}] \in TurnState
      BY <1>a DEF TurnState, Active
    <3>3. T'
      BY <1>a, <3>1, <3>2, TurnTypes
    <3>4. D' /\ A' /\ L' /\ G' /\ O'
      BY <2>1, <1>a DEF TurnClaims, agents, log
    <3> QED
      BY <1>b, <3>3, <3>4
  <2>2. ASSUME NEW status \in Outcomes \cup {"cancelled"}, TurnEnds(t, status)
        PROVE  TypeOK'
    <3>1. turn' = [turn EXCEPT ![t] = [turn[t] EXCEPT !.pc = "after-run",
                                             !.status = status, !.batch = {}]]
      BY <2>2, <1>a DEF TurnEnds
    <3>2. [turn[t] EXCEPT !.pc = "after-run", !.status = status, !.batch = {}]
             \in TurnState
      BY <1>a, <1>c, <2>2 DEF TurnState
    <3>3. T'
      BY <1>a, <3>1, <3>2, TurnTypes
    <3>4. asks' \in 0 .. MaxAsks
      <4>1. status = "paused" => asks' \in (IF asks > 0 THEN {asks} ELSE 1 .. MaxAsks)
        BY <2>2 DEF TurnEnds
      <4>2. status # "paused" => UNCHANGED asks
        BY <2>2 DEF TurnEnds
      <4> QED
        BY <1>a, <1>c, <4>1, <4>2
    <3>5. executed' \subseteq Requests
      <4>1. executed' = executed \cup ({turn[t].request} \ {NoRequest})
        BY <2>2 DEF TurnEnds
      <4>2. turn[t].request \in Requests \cup {NoRequest}
        BY <1>a DEF TurnState
      <4> QED
        BY <1>a, <4>1, <4>2
    <3>6. /\ direct' = "none"
          /\ reserved' = IF t = "run" THEN FALSE ELSE reserved
          /\ UNCHANGED <<inbox, dispatch, agents, maintenance, compaction, up, lost>>
      BY <2>2 DEF TurnEnds
    <3>7. D' /\ A' /\ L' /\ O'
      BY <1>a, <3>6 DEF inbox, agents
    <3> QED
      BY <1>b, <3>3, <3>4, <3>5, <3>7
  <2>3. CASE AfterRunPasses(t)
    <3>1. T'
      BY <1>a, <2>3, TurnTypes DEF AfterRunPasses
    <3>2. Schedule(TRUE) \/ NotScheduled
      BY <2>3 DEF AfterRunPasses, AfterRun
    <3>3. D'
      BY <1>a, <1>c, <3>2, DispatchTypes
    <3>4. A' /\ L' /\ G' /\ O'
      BY <2>3, <1>a DEF AfterRunPasses, agents, log
    <3> QED
      BY <1>b, <3>1, <3>3, <3>4
  <2>4. CASE AfterRunCompacts(t)
    <3>1. T'
      BY <1>a, <2>4, TurnTypes DEF AfterRunCompacts
    <3>2. D' /\ A' /\ L' /\ G' /\ O'
      BY <2>4, <1>a DEF AfterRunCompacts, inbox, agents, log
    <3> QED
      BY <1>b, <3>1, <3>2
  <2> QED
    BY <1>6, <2>1, <2>2, <2>3, <2>4 DEF TurnStep
<1>7. CASE DispatchStep
  <2> USE DEF DispatchUnchanged
  <2>1. CASE DispatchStart \/ DispatchWaits \/ DispatchPeek \/ DispatchClaim
               \/ DispatchFinishes
    <3>1. /\ UNCHANGED <<admitting, turn, reserved, direct, maintenance, up, lost,
                         asks, executed, entry, inflight, results>>
          /\ receipts' \subseteq receipts
          /\ compaction' \in {compaction, "running"}
      BY <2>1 DEF DispatchStart, DispatchWaits, DispatchPeek, DispatchClaim,
         DispatchFinishes, loop, log, agents
    <3>2. /\ requested' \in {requested, FALSE} /\ waitIdle' \in {waitIdle, FALSE}
      BY <2>1 DEF DispatchStart, DispatchWaits, DispatchPeek, DispatchClaim,
         DispatchFinishes
    <3>3. dispatch' \in DispatchState
      <4>1. \A pc \in {"waiting", "peek", "claimed"} :
               [dispatch EXCEPT !.pc = pc] \in DispatchState
        BY <1>a DEF DispatchState
      <4>2. NoDispatch \in DispatchState
        BY DEF NoDispatch, DispatchState
      <4>3. CASE DispatchStart
        BY <4>1, <4>2, <4>3 DEF DispatchStart
      <4>4. CASE DispatchWaits
        BY <4>1, <4>4 DEF DispatchWaits
      <4>5. CASE DispatchPeek
        <5>1. CASE Finish
          BY <1>a, <5>1, DispatchTypes
        <5>2. CASE ~Finish
          <6>1. box.next_turn # << >>
            BY <4>5, <5>2 DEF DispatchPeek
          <6>2. Head(box.next_turn).request_id \in Requests
            BY <1>a, <6>1, PendingRequests
          <6>3. \E pc \in {"compacting", "hooked"} :
                   dispatch' = [request |-> Head(box.next_turn).request_id, pc |-> pc]
            BY <4>5, <5>2 DEF DispatchPeek
          <6> QED
            BY <6>2, <6>3 DEF DispatchState
        <5> QED
          BY <5>1, <5>2
      <4>6. CASE DispatchClaim
        <5>1. CASE Finish
          BY <1>a, <5>1, DispatchTypes
        <5> QED
          BY <4>1, <4>6, <5>1 DEF DispatchClaim
      <4>7. CASE DispatchFinishes
        BY <1>a, <4>7, DispatchTypes DEF DispatchFinishes
      <4> QED
        BY <2>1, <4>3, <4>4, <4>5, <4>6, <4>7
    <3>4. D'
      BY <1>a, <3>2, <3>3
    <3>5. A' /\ T' /\ G'
      BY <1>a, <3>1
    <3>6. L' /\ O'
      BY <1>a, <3>1
    <3> QED
      BY <1>b, <3>4, <3>5, <3>6
  <2>2. CASE DispatchDeliver
    <3> DEFINE r == dispatch.request
    <3>1. r \in Requests
      BY <1>a, <2>2 DEF DispatchDeliver, DispatchState, HasCandidate
    <3>2. /\ UNCHANGED <<inbox, reserved, direct, maintenance, compaction, log, up>>
          /\ dispatch' = [dispatch EXCEPT !.pc = "finishing"]
               \/ dispatch' = [dispatch EXCEPT !.pc = "running"]
          /\ lost' \subseteq lost \cup {r}
          /\ entry' \in {entry, "idle", "running"}
          /\ inflight' \in {inflight, TRUE} /\ UNCHANGED results
          /\ UNCHANGED turn
               \/ turn' = [turn EXCEPT !["run"] =
                             [NoTurn EXCEPT !.pc = "admitted", !.request = r]]
      BY <2>2 DEF DispatchDeliver, agents
    <3>3. T'
      <4>1. [NoTurn EXCEPT !.pc = "admitted", !.request = r] \in TurnState
        BY <3>1 DEF NoTurn, TurnState
      <4> QED
        BY <1>a, <1>c, <3>2, <4>1, TurnTypes
    <3>4. D'
      BY <1>a, <3>2 DEF DispatchState, inbox
    <3>5. lost' \subseteq Requests
      BY <1>a, <3>1, <3>2, <2>2
    <3>6. A' /\ L' /\ G' /\ O'
      BY <1>a, <3>2, <3>5 DEF inbox, log
    <3> QED
      BY <1>b, <3>3, <3>4, <3>6
  <2> QED
    BY <1>7, <2>1, <2>2 DEF DispatchStep
<1>8. CASE RunStep
  <2>1. ASSUME turn["run"].pc # "none" PROVE turn["run"].request \in Requests
    BY <1>a, <2>1 DEF RunHasItsDispatcher, HasCandidate, DispatchState
  <2>2. CASE RunAdmits
    <3> DEFINE r == turn["run"].request
    <3>1. r \in Requests
      BY <2>1, <2>2 DEF RunAdmits
    <3>2. /\ UNCHANGED <<inbox, dispatch, agents, direct, maintenance, compaction,
                         log, up>>
          /\ lost' \subseteq lost \cup {r} /\ reserved' \in {reserved, TRUE}
      BY <2>2 DEF RunAdmits
    <3>3. At("run", "reserved")
             \/ \E status \in {"completed", "failed"} :
                   turn' = [turn EXCEPT !["run"].pc = "returning",
                                        !["run"].status = status]
      BY <2>2 DEF RunAdmits
    <3>4. T'
      <4>1. ASSUME NEW status \in {"completed", "failed"},
                   turn' = [turn EXCEPT !["run"].pc = "returning",
                                        !["run"].status = status]
            PROVE  T'
        <5>1. turn' = [turn EXCEPT !["run"] =
                 [turn["run"] EXCEPT !.pc = "returning", !.status = status]]
          BY <4>1, <1>a, <1>c
        <5>2. [turn["run"] EXCEPT !.pc = "returning", !.status = status]
                 \in TurnState
          BY <1>a, <1>c DEF TurnState
        <5> QED
          BY <1>a, <1>c, <5>1, <5>2, TurnTypes
      <4>2. At("run", "reserved") => T'
        BY <1>a, <1>c, TurnTypes
      <4> QED
        BY <3>3, <4>1, <4>2
    <3>5. D' /\ A' /\ L' /\ G' /\ O'
      BY <1>a, <3>1, <3>2 DEF inbox, agents, log
    <3> QED
      BY <1>b, <3>4, <3>5
  <2>3. CASE RunRefused
    <3>1. turn' = [turn EXCEPT !["run"] =
             [turn["run"] EXCEPT !.pc = "returning", !.status = "failed"]]
      BY <2>3, <1>a, <1>c DEF RunRefused
    <3>2. [turn["run"] EXCEPT !.pc = "returning", !.status = "failed"]
             \in TurnState
      BY <1>a, <1>c DEF TurnState
    <3>3. T'
      BY <1>a, <1>c, <3>1, <3>2, TurnTypes
    <3>4. D' /\ A' /\ L' /\ G' /\ O'
      BY <2>3, <1>a DEF RunRefused, inbox, agents, log
    <3> QED
      BY <1>b, <3>3, <3>4
  <2>4. CASE RunStarts
    <3>1. T'
      BY <2>4, <1>a, <1>c, TurnTypes DEF RunStarts, Active
    <3>2. D' /\ A' /\ L' /\ G' /\ O'
      BY <2>4, <1>a, <1>c DEF RunStarts, inbox, agents, log
    <3> QED
      BY <1>b, <3>1, <3>2
  <2>5. CASE RunReturns
    <3>1. turn["run"].request \in Requests
      BY <2>1, <2>5 DEF RunReturns
    <3>2. StateOf(turn["run"].status) \in {"idle", "paused", "cancelled", "failed"}
      BY <1>f, <1>c, <2>5 DEF RunReturns
    <3>3. turn' = [turn EXCEPT !["run"] = NoTurn]
      BY <2>5 DEF RunReturns
    <3>4. T'
      BY <1>a, <1>c, <3>3, TurnTypes
    <3>5. dispatch' = [dispatch EXCEPT !.pc = "finishing"]
          /\ UNCHANGED <<requested, waitIdle>>
      BY <2>5 DEF RunReturns, inbox
    <3>6. D'
      BY <1>a, <3>5 DEF DispatchState
    <3>7. A' /\ L' /\ G' /\ O'
      BY <2>5, <1>a, <3>1, <3>2 DEF RunReturns, inbox, log
    <3> QED
      BY <1>b, <3>4, <3>6, <3>7
  <2> QED
    BY <1>c, <1>6, <1>8, <2>2, <2>3, <2>4, <2>5 DEF RunStep
<1>9. ASSUME NEW c \in Confirms, ConfirmStep(c) PROVE TypeOK'
  <2>1. c \in Turns
    BY <1>9, <1>c
  <2>2. CASE Resume(c)
    <3>1. T'
      BY <2>1, <2>2, <1>a, TurnTypes DEF Resume, Active
    <3>2. asks' = IF asks > 0 THEN asks - 1 ELSE 0
      BY <2>2 DEF Resume
    <3>3. asks' \in 0 .. MaxAsks
      BY <1>a, <1>c, <3>2
    <3>4. D' /\ A' /\ L' /\ G' /\ O'
      BY <2>2, <1>a, <3>3 DEF Resume, inbox, agents
    <3> QED
      BY <1>b, <3>1, <3>4
  <2>3. CASE ConfirmReturns(c)
    <3>1. StateOf(turn[c].status) \in {"idle", "paused", "cancelled", "failed"}
      BY <1>f, <2>1, <2>3 DEF ConfirmReturns
    <3>2. turn' = [turn EXCEPT ![c] = NoTurn]
      BY <2>3 DEF ConfirmReturns
    <3>3. T'
      BY <1>a, <2>1, <3>2, TurnTypes
    <3>4. D' /\ A' /\ L' /\ G' /\ O'
      BY <2>3, <1>a, <3>1 DEF ConfirmReturns, inbox, log
    <3> QED
      BY <1>b, <3>3, <3>4
  <2> QED
    BY <1>6, <1>9, <2>1, <2>2, <2>3 DEF ConfirmStep
<1>10. ASSUME NEW t \in Turns, TurnPeeks(t) PROVE TypeOK'
  <2>1. PICK compact \in {FALSE, AutoCompact} :
           /\ turn' = [turn EXCEPT
                ![t].pc = IF compact THEN "gate compacting" ELSE "gate",
                ![t].batch = Ids(Contents(box.next_step))]
           /\ compaction' = IF compact THEN "running" ELSE compaction
    BY <1>10 DEF TurnPeeks
  <2> DEFINE s == [turn[t] EXCEPT
                      !.pc = IF compact THEN "gate compacting" ELSE "gate",
                      !.batch = Ids(Contents(box.next_step))]
  <2>2. turn' = [turn EXCEPT ![t] = s]
    BY <2>1, <1>a
  <2>3. Ids(Contents(box.next_step)) \subseteq Requests
    BY <1>a, PendingRequests
  <2>4. s \in TurnState
    BY <1>a, <2>3 DEF TurnState, Active
  <2>5. T'
    BY <1>a, <2>2, <2>4, TurnTypes
  <2>6. D' /\ A' /\ L' /\ G' /\ O'
    BY <1>10, <1>a, <2>1 DEF TurnPeeks, inbox, agents, log
  <2> QED
    BY <1>b, <2>5, <2>6
<1>11. ASSUME NEW ok \in BOOLEAN, CompactionEnds(ok) PROVE TypeOK'
  <2> DEFINE waiting == {t \in Turns : turn[t].pc = "compacting"}
             schedule == ok /\ \E t \in waiting : turn[t].status = "completed"
             next(t) == CASE t \in waiting -> [turn[t] EXCEPT !.pc = "returning"]
                          [] turn[t].pc = "gate compacting" /\ ok ->
                                [turn[t] EXCEPT !.pc = "gate"]
                          [] turn[t].pc = "gate compacting" /\ ~ok ->
                                [turn[t] EXCEPT !.pc = "active", !.batch = {}]
                          [] OTHER -> turn[t]
  <2>1. turn' = [t \in Turns |-> next(t)]
    BY <1>11 DEF CompactionEnds
  <2>2. ASSUME NEW t \in Turns PROVE next(t) \in TurnState
    <3>1. turn[t] \in TurnState
      BY <1>a
    <3>2. /\ [turn[t] EXCEPT !.pc = "returning"] \in TurnState
          /\ [turn[t] EXCEPT !.pc = "gate"] \in TurnState
          /\ [turn[t] EXCEPT !.pc = "active", !.batch = {}] \in TurnState
      BY <3>1 DEF TurnState, Active
    <3>3. t \in waiting <=> turn[t].pc = "compacting"
      OBVIOUS
    <3> QED
      BY <1>11, <3>1, <3>2, <3>3
  <2>3. T'
    BY <2>1, <2>2
  <2>4. IF dispatch.pc = "compacting"
          THEN /\ IF ok THEN dispatch' = [dispatch EXCEPT !.pc = "hooked"]
                        ELSE Finish
               /\ requested' = (requested \/ schedule)
               /\ waitIdle' = (waitIdle \/ schedule)
          ELSE IF schedule THEN Schedule(TRUE) ELSE NotScheduled
    BY <1>11 DEF CompactionEnds
  <2>5. [dispatch EXCEPT !.pc = "hooked"] \in DispatchState
    BY <1>a DEF DispatchState
  <2>6. schedule \in BOOLEAN
    OBVIOUS
  <2>7. D'
    <3> HIDE DEF schedule
    <3>1. CASE dispatch.pc = "compacting"
      BY <1>a, <2>4, <2>5, <2>6, <3>1, DispatchTypes
    <3>2. CASE dispatch.pc # "compacting"
      BY <1>a, <1>c, <2>4, <3>2, DispatchTypes
    <3> QED
      BY <3>1, <3>2
  <2>8. A' /\ L' /\ G' /\ O'
    BY <1>11, <1>a DEF CompactionEnds, agents, log
  <2> QED
    BY <1>b, <2>3, <2>7, <2>8
<1>12. CASE Crash
  <2>1. turn' = [t \in Turns |-> NoTurn] /\ dispatch' = NoDispatch
    BY <1>12 DEF Crash
  <2>2. T'
    BY <2>1 DEF NoTurn, TurnState
  <2>3. D'
    <3>1. NoDispatch \in DispatchState
      BY DEF NoDispatch, DispatchState
    <3>2. requested' = FALSE /\ waitIdle' = FALSE
      BY <1>12 DEF Crash
    <3> QED
      BY <2>1, <3>1, <3>2
  <2>4. executed' \subseteq Requests
    <3>1. turn["run"].request \in Requests \cup {NoRequest}
      BY <1>a, <1>c DEF TurnState
    <3> QED
      BY <1>12, <1>a, <3>1 DEF Crash
  <2>5. A' /\ L' /\ G' /\ O'
    BY <1>12, <1>a, <2>4 DEF Crash
  <2> QED
    BY <1>b, <2>2, <2>3, <2>5
<1>13. CASE Restart \/ IndexForgets
  <2>1. D' /\ A' /\ T' /\ L' /\ G' /\ O'
    BY <1>13, <1>a DEF Restart, IndexForgets, inbox, agents, loop, log
  <2> QED
    BY <1>b, <2>1
<1>14. CASE UNCHANGED vars
  <2>1. D' /\ A' /\ T' /\ L' /\ G' /\ O'
    BY <1>14, <1>a DEF vars, inbox, agents, loop, log
  <2> QED
    BY <1>b, <2>1
<1> QED
  BY <1>1, <1>2, <1>3, <1>4, <1>5, <1>7, <1>8, <1>9, <1>10, <1>11, <1>12, <1>13,
     <1>14 DEF Next

-----------------------------------------------------------------------------
(* The dispatch task and the run it waits for.                             *)

Bookkeeping == RunHasItsDispatcher /\ HasCandidate /\ HasStatus

\* A step that neither begins nor ends a delivery ...
DispatchAside ==
    /\ HasCandidate'
    /\ dispatch'.pc = "running" <=> dispatch.pc = "running"
    /\ dispatch.pc = "running" => dispatch'.request = dispatch.request

\* ... and one that neither begins nor ends a run.
RunAside ==
    /\ HasStatus'
    /\ turn'["run"].pc = "none" <=> turn["run"].pc = "none"
    /\ turn'["run"].request = turn["run"].request
    /\ UNCHANGED inflight

\* Such steps keep the dispatch task and the run together.
LEMMA AsideKeeps ==
    RunHasItsDispatcher /\ DispatchAside /\ RunAside => Bookkeeping'
BY DEF RunHasItsDispatcher, DispatchAside, RunAside, Bookkeeping

\* Requests for a delivery, and the end of a task that delivers nothing, are
\* steps of the first kind.
LEMMA SchedulesAside ==
    ASSUME dispatch \in DispatchState, HasCandidate, NEW wait,
           Schedule(wait) \/ NotScheduled \/ (Finish /\ dispatch.pc # "running")
    PROVE  DispatchAside
<1>1. /\ NoDispatch.pc = "none"
      /\ [NoDispatch EXCEPT !.pc = "created"].pc = "created"
  BY DEF NoDispatch
<1>2. \/ UNCHANGED dispatch
      \/ /\ dispatch.pc # "running"
         /\ dispatch' = NoDispatch \/ dispatch' = [NoDispatch EXCEPT !.pc = "created"]
  BY DEF Schedule, NotScheduled, Finish
<1>3. \/ dispatch'.pc \in {"none", "created"} /\ dispatch.pc # "running"
      \/ UNCHANGED dispatch
  BY <1>1, <1>2
<1> QED
  BY <1>3 DEF DispatchAside, HasCandidate

\* A move of one turn is a step of the second kind unless the run begins or
\* ends with it.
LEMMA MovesAside ==
    ASSUME turn \in [Turns -> TurnState], HasStatus, UNCHANGED inflight,
           NEW t \in Turns, NEW s, turn' = [turn EXCEPT ![t] = s],
           t = "run" => /\ s.request = turn[t].request
                        /\ s.pc = "none" <=> turn[t].pc = "none",
           s.pc \in {"after-run", "compacting", "returning"} => s.status # "none"
    PROVE  RunAside
<1>1. "run" \in Turns
  BY DEF Turns
<1>2. \A u \in Turns : turn'[u] = IF u = t THEN s ELSE turn[u]
  OBVIOUS
<1> QED
  BY <1>1, <1>2 DEF RunAside, HasStatus

\* So are the changes of position, ...
LEMMA PositionsAside ==
    ASSUME turn \in [Turns -> TurnState], HasStatus, UNCHANGED inflight,
           NEW t \in Turns, NEW pc, At(t, pc), pc # "none",
           t = "run" => turn[t].pc # "none",
           pc \in {"after-run", "compacting", "returning"} =>
              turn[t].pc \in {"after-run", "compacting", "returning"}
    PROVE  RunAside
<1> DEFINE s == [turn[t] EXCEPT !.pc = pc]
<1>1. turn' = [turn EXCEPT ![t] = s]
  BY DEF At
<1>2. s.pc = pc /\ s.request = turn[t].request /\ s.status = turn[t].status
  BY DEF TurnState
<1>3. s.pc \in {"after-run", "compacting", "returning"} => s.status # "none"
  BY <1>2 DEF HasStatus
<1> HIDE DEF s
<1> QED
  BY <1>1, <1>2, <1>3, MovesAside

\* ... and the steps that move no turn.
LEMMA NoMoveAside ==
    ASSUME HasStatus, UNCHANGED <<turn, inflight>>
    PROVE  RunAside
BY DEF HasStatus, RunAside

\* Every step keeps the books of the dispatch task.
LEMMA BookkeepingInductive ==
    TypeOK /\ Bookkeeping /\ [Next]_vars => Bookkeeping'
<1> SUFFICES ASSUME TypeOK, Bookkeeping, [Next]_vars PROVE Bookkeeping'
  OBVIOUS
<1>1. RunHasItsDispatcher /\ HasCandidate /\ HasStatus
  BY DEF Bookkeeping
<1>2. /\ turn \in [Turns -> TurnState] /\ dispatch \in DispatchState
      /\ direct \in Turns \cup {"none"}
  BY DEF TypeOK
<1>3. /\ "run" \in Turns /\ Confirms \subseteq Turns
      /\ Outcomes \subseteq {"completed", "paused", "failed"}
      /\ \A c \in Confirms : c # "run"
  BY DispatchAssumption DEF Turns
<1>4. ASSUME UNCHANGED dispatch PROVE DispatchAside
  BY <1>1, <1>4 DEF DispatchAside, HasCandidate
<1>5. ASSUME UNCHANGED dispatch, RunAside PROVE Bookkeeping'
  BY <1>1, <1>4, <1>5, AsideKeeps
<1>6. ASSUME UNCHANGED dispatch, UNCHANGED <<turn, inflight>> PROVE Bookkeeping'
  BY <1>1, <1>5, <1>6, NoMoveAside
<1>7. ASSUME NEW wait, Schedule(wait) \/ NotScheduled, RunAside PROVE Bookkeeping'
  BY <1>1, <1>2, <1>7, SchedulesAside, AsideKeeps
<1>8. ASSUME NEW r \in Requests,
             Followup(r) \/ Steer(r) \/ Remove(r) \/ Promote(r)
      PROVE  Bookkeeping'
  BY <1>6, <1>8 DEF Followup, Steer, Remove, Promote, NotScheduled, agents, loop
<1>9. ASSUME NEW r, NEW b, FollowupReturns(r, b) PROVE Bookkeeping'
  <2>1. UNCHANGED <<turn, inflight>> /\ (Schedule(FALSE) \/ NotScheduled)
    BY <1>9 DEF FollowupReturns, agents, loop
  <2> QED
    BY <1>1, <1>7, <2>1, NoMoveAside
<1>10. CASE Cancel
  <2>1. /\ direct \in Turns /\ UNCHANGED <<dispatch, inflight>>
        /\ turn' = [turn EXCEPT ![direct].cancelled = TRUE]
    BY <1>2, <1>10 DEF Cancel, agents
  <2> DEFINE s == [turn[direct] EXCEPT !.cancelled = TRUE]
  <2>2. turn' = [turn EXCEPT ![direct] = s]
    BY <2>1
  <2>3. /\ s.pc = turn[direct].pc /\ s.request = turn[direct].request
        /\ s.status = turn[direct].status
    BY <1>2, <2>1 DEF TurnState
  <2>4. s.pc \in {"after-run", "compacting", "returning"} => s.status # "none"
    BY <1>1, <2>1, <2>3 DEF HasStatus
  <2> HIDE DEF s
  <2> QED
    BY <1>1, <1>2, <1>5, <2>1, <2>2, <2>3, <2>4, MovesAside
<1>11. CASE ManualCompact
  BY <1>6, <1>11 DEF ManualCompact, agents, loop
<1>12. ASSUME NEW c \in Confirms, Confirm(c) PROVE Bookkeeping'
  <2>1. c \in Turns /\ c # "run" /\ UNCHANGED <<dispatch, inflight>>
    BY <1>3, <1>12 DEF Confirm
  <2>2. UNCHANGED turn \/ At(c, "resuming")
    BY <1>12 DEF Confirm
  <2>3. CASE At(c, "resuming")
    BY <1>1, <1>2, <1>5, <2>1, <2>3, PositionsAside
  <2> QED
    BY <1>6, <2>1, <2>2, <2>3
<1>13. ASSUME NEW t \in Turns, TurnStep(t) PROVE Bookkeeping'
  <2>1. CASE TurnClaims(t)
    <3> DEFINE s == [turn[t] EXCEPT !.pc = "active", !.batch = {}]
    <3>1. turn' = [turn EXCEPT ![t] = s] /\ UNCHANGED <<dispatch, inflight>>
          /\ turn[t].pc = "gate"
      BY <1>2, <2>1 DEF TurnClaims, agents
    <3>2. s.pc = "active" /\ s.request = turn[t].request
      BY <1>2 DEF TurnState
    <3> HIDE DEF s
    <3> QED
      BY <1>1, <1>2, <1>5, <3>1, <3>2, MovesAside
  <2>2. ASSUME NEW status \in Outcomes \cup {"cancelled"}, TurnEnds(t, status)
        PROVE  Bookkeeping'
    <3> DEFINE s == [turn[t] EXCEPT !.pc = "after-run", !.status = status,
                                    !.batch = {}]
    <3>1. turn' = [turn EXCEPT ![t] = s] /\ UNCHANGED <<dispatch, inflight>>
          /\ turn[t].pc \in Active
      BY <1>2, <2>2 DEF TurnEnds, agents, Active
    <3>2. s.pc = "after-run" /\ s.request = turn[t].request /\ s.status = status
      BY <1>2 DEF TurnState
    <3>3. status # "none" /\ turn[t].pc # "none"
      BY <1>3, <3>1 DEF Active
    <3> HIDE DEF s
    <3> QED
      BY <1>1, <1>2, <1>5, <3>1, <3>2, <3>3, MovesAside
  <2>3. CASE AfterRunPasses(t)
    <3>1. /\ turn[t].pc = "after-run" /\ At(t, "returning") /\ UNCHANGED inflight
          /\ Schedule(TRUE) \/ NotScheduled
      BY <2>3 DEF AfterRunPasses, AfterRun, agents
    <3>2. RunAside
      BY <1>1, <1>2, <3>1, PositionsAside
    <3> QED
      BY <1>7, <3>1, <3>2
  <2>4. CASE AfterRunCompacts(t)
    <3>1. /\ turn[t].pc = "after-run" /\ At(t, "compacting")
          /\ UNCHANGED <<dispatch, inflight>>
      BY <2>4 DEF AfterRunCompacts, agents
    <3> QED
      BY <1>1, <1>2, <1>5, <3>1, PositionsAside
  <2> QED
    BY <1>13, <2>1, <2>2, <2>3, <2>4 DEF TurnStep
<1>14. CASE DispatchStep
  <2> USE DEF DispatchUnchanged
  <2>1. CASE DispatchDeliver
    <3>1. dispatch.pc = "claimed" /\ dispatch.request # NoRequest
          /\ turn["run"].pc = "none"
      BY <1>1, <2>1 DEF DispatchDeliver, HasCandidate, RunHasItsDispatcher
    <3>2. \/ /\ dispatch' = [dispatch EXCEPT !.pc = "finishing"]
             /\ UNCHANGED <<turn, inflight>>
          \/ /\ dispatch' = [dispatch EXCEPT !.pc = "running"] /\ inflight' = TRUE
             /\ turn' = [turn EXCEPT !["run"] =
                   [NoTurn EXCEPT !.pc = "admitted", !.request = dispatch.request]]
      BY <2>1 DEF DispatchDeliver, agents
    <3>3. CASE dispatch' = [dispatch EXCEPT !.pc = "finishing"]
               /\ UNCHANGED <<turn, inflight>>
      <4>1. dispatch'.pc = "finishing" /\ dispatch'.request = dispatch.request
        BY <1>2, <3>3 DEF DispatchState
      <4>2. DispatchAside
        BY <3>1, <4>1 DEF DispatchAside, HasCandidate
      <4> QED
        BY <1>1, <3>3, <4>2, NoMoveAside, AsideKeeps
    <3>4. CASE /\ dispatch' = [dispatch EXCEPT !.pc = "running"] /\ inflight' = TRUE
               /\ turn' = [turn EXCEPT !["run"] =
                   [NoTurn EXCEPT !.pc = "admitted", !.request = dispatch.request]]
      <4>1. dispatch'.pc = "running" /\ dispatch'.request = dispatch.request
        BY <1>2, <3>4 DEF DispatchState
      <4>2. /\ turn'["run"].pc = "admitted"
            /\ turn'["run"].request = dispatch.request
            /\ \A u \in Turns : u # "run" => turn'[u] = turn[u]
        BY <1>2, <1>3, <3>4 DEF NoTurn
      <4>3. HasStatus'
        BY <1>1, <4>2 DEF HasStatus
      <4>4. RunHasItsDispatcher'
        BY <3>4, <4>1, <4>2 DEF RunHasItsDispatcher
      <4>5. HasCandidate'
        BY <3>1, <4>1 DEF HasCandidate
      <4> QED
        BY <4>3, <4>4, <4>5 DEF Bookkeeping
    <3> QED
      BY <3>2, <3>3, <3>4
  <2>2. CASE DispatchStart \/ DispatchWaits \/ DispatchPeek \/ DispatchClaim
               \/ DispatchFinishes
    <3>1. RunAside
      BY <1>1, <2>2, NoMoveAside DEF DispatchStart, DispatchWaits, DispatchPeek,
         DispatchClaim, DispatchFinishes, agents, loop
    <3>2. dispatch.pc # "running"
      BY <2>2 DEF DispatchStart, DispatchWaits, DispatchPeek, DispatchClaim,
         DispatchFinishes
    <3>3. dispatch'.pc # "running" /\ HasCandidate' => DispatchAside
      BY <3>2 DEF DispatchAside
    <3>4. Finish => DispatchAside
      BY <1>1, <1>2, <3>2, SchedulesAside
    <3>5. ASSUME NEW pc \in {"waiting", "peek"},
                 dispatch' = [dispatch EXCEPT !.pc = pc]
          PROVE  DispatchAside
      <4>1. dispatch'.pc = pc
        BY <1>2, <3>5 DEF DispatchState
      <4> QED
        BY <3>3, <4>1 DEF HasCandidate
    <3>6. CASE DispatchStart
      <4>1. dispatch' = NoDispatch => dispatch'.pc = "none"
        BY DEF NoDispatch
      <4>2. dispatch' = NoDispatch => DispatchAside
        BY <3>3, <4>1 DEF HasCandidate
      <4> QED
        BY <1>1, <3>1, <3>5, <3>6, <4>2, AsideKeeps DEF DispatchStart
    <3>7. CASE DispatchWaits
      BY <1>1, <3>1, <3>5, <3>7, AsideKeeps DEF DispatchWaits
    <3>8. CASE DispatchPeek
      <4>1. CASE Finish
        BY <1>1, <3>1, <3>4, <4>1, AsideKeeps
      <4>2. CASE ~Finish
        <5>1. box.next_turn # << >>
          BY <3>8, <4>2 DEF DispatchPeek
        <5>2. PICK pc \in {"compacting", "hooked"} :
                 dispatch' = [request |-> Head(box.next_turn).request_id, pc |-> pc]
          BY <3>8, <4>2 DEF DispatchPeek
        <5>3. Head(box.next_turn).request_id \in Requests
          BY <5>1, PendingRequests DEF TypeOK
        <5>4. dispatch'.pc = pc /\ dispatch'.request # NoRequest
          BY <5>2, <5>3, DispatchAssumption
        <5> QED
          BY <1>1, <3>1, <3>3, <5>4, AsideKeeps DEF HasCandidate
      <4> QED
        BY <4>1, <4>2
    <3>9. CASE DispatchClaim
      <4>1. CASE Finish
        BY <1>1, <3>1, <3>4, <4>1, AsideKeeps
      <4>2. CASE ~Finish
        <5>1. dispatch' = [dispatch EXCEPT !.pc = "claimed"] /\ dispatch.pc = "hooked"
          BY <3>9, <4>2 DEF DispatchClaim
        <5>2. dispatch'.pc = "claimed" /\ dispatch'.request = dispatch.request
          BY <1>2, <5>1 DEF DispatchState
        <5>3. HasCandidate'
          BY <1>1, <5>1, <5>2 DEF HasCandidate
        <5> QED
          BY <1>1, <3>1, <3>3, <5>2, <5>3, AsideKeeps
      <4> QED
        BY <4>1, <4>2
    <3>10. CASE DispatchFinishes
      BY <1>1, <3>1, <3>4, <3>10, AsideKeeps DEF DispatchFinishes
    <3> QED
      BY <2>2, <3>6, <3>7, <3>8, <3>9, <3>10
  <2> QED
    BY <1>14, <2>1, <2>2 DEF DispatchStep
<1>15. CASE RunStep
  <2>1. CASE RunAdmits
    <3>1. turn["run"].pc = "admitted" /\ UNCHANGED <<dispatch, inflight>>
      BY <2>1 DEF RunAdmits, agents
    <3>2. At("run", "reserved") \/ \E status \in {"completed", "failed"} :
             turn' = [turn EXCEPT !["run"].pc = "returning",
                                  !["run"].status = status]
      BY <2>1 DEF RunAdmits
    <3>3. ASSUME NEW status \in {"completed", "failed"},
                 turn' = [turn EXCEPT !["run"].pc = "returning",
                                      !["run"].status = status]
          PROVE  RunAside
      <4> DEFINE s == [turn["run"] EXCEPT !.pc = "returning", !.status = status]
      <4>1. turn' = [turn EXCEPT !["run"] = s]
        BY <1>2, <1>3, <3>3
      <4>2. s.pc = "returning" /\ s.request = turn["run"].request /\ s.status # "none"
        BY <1>2, <1>3, <3>3 DEF TurnState
      <4> HIDE DEF s
      <4> QED
        BY <1>1, <1>2, <1>3, <3>1, <4>1, <4>2, MovesAside
    <3>4. At("run", "reserved") => RunAside
      BY <1>1, <1>2, <1>3, <3>1, PositionsAside
    <3> QED
      BY <1>5, <3>1, <3>2, <3>3, <3>4
  <2>2. CASE RunRefused
    <3> DEFINE s == [turn["run"] EXCEPT !.pc = "returning", !.status = "failed"]
    <3>1. turn' = [turn EXCEPT !["run"] = s] /\ turn["run"].pc = "reserved"
          /\ UNCHANGED <<dispatch, inflight>>
      BY <1>2, <1>3, <2>2 DEF RunRefused, agents
    <3>2. s.pc = "returning" /\ s.request = turn["run"].request /\ s.status = "failed"
      BY <1>2, <1>3 DEF TurnState
    <3> HIDE DEF s
    <3> QED
      BY <1>1, <1>2, <1>3, <1>5, <3>1, <3>2, MovesAside
  <2>3. CASE RunStarts
    <3>1. /\ turn["run"].pc = "reserved" /\ At("run", "active")
          /\ UNCHANGED <<dispatch, inflight>>
      BY <2>3 DEF RunStarts, agents
    <3> QED
      BY <1>1, <1>2, <1>3, <1>5, <3>1, PositionsAside
  <2>4. CASE RunReturns
    <3>1. /\ turn' = [turn EXCEPT !["run"] = NoTurn]
          /\ dispatch' = [dispatch EXCEPT !.pc = "finishing"]
          /\ turn["run"].pc = "returning"
      BY <2>4 DEF RunReturns
    <3>2. dispatch.pc = "running"
      BY <1>1, <3>1 DEF RunHasItsDispatcher
    <3>3. dispatch'.pc = "finishing" /\ dispatch'.request = dispatch.request
      BY <1>2, <3>1 DEF DispatchState
    <3>4. turn'["run"].pc = "none" /\ \A u \in Turns : u # "run" => turn'[u] = turn[u]
      BY <1>2, <1>3, <3>1 DEF NoTurn
    <3>5. HasStatus'
      BY <1>1, <3>4 DEF HasStatus
    <3>6. RunHasItsDispatcher' /\ HasCandidate'
      BY <1>1, <3>2, <3>3, <3>4 DEF RunHasItsDispatcher, HasCandidate
    <3> QED
      BY <3>5, <3>6 DEF Bookkeeping
  <2> QED
    BY <1>3, <1>13, <1>15, <2>1, <2>2, <2>3, <2>4 DEF RunStep
<1>16. ASSUME NEW c \in Confirms, ConfirmStep(c) PROVE Bookkeeping'
  <2>1. c \in Turns /\ c # "run"
    BY <1>3, <1>16
  <2>2. CASE Resume(c)
    <3>1. At(c, "active") /\ UNCHANGED <<dispatch, inflight>>
      BY <2>2 DEF Resume, agents
    <3> QED
      BY <1>1, <1>2, <1>5, <2>1, <3>1, PositionsAside
  <2>3. CASE ConfirmReturns(c)
    <3>1. turn' = [turn EXCEPT ![c] = NoTurn] /\ UNCHANGED <<dispatch, inflight>>
      BY <2>3 DEF ConfirmReturns
    <3>2. NoTurn.pc = "none"
      BY DEF NoTurn
    <3> QED
      BY <1>1, <1>2, <1>5, <2>1, <3>1, <3>2, MovesAside
  <2> QED
    BY <1>13, <1>16, <2>1, <2>2, <2>3 DEF ConfirmStep
<1>17. ASSUME NEW t \in Turns, TurnPeeks(t) PROVE Bookkeeping'
  <2>1. PICK compact \in {FALSE, AutoCompact} :
           turn' = [turn EXCEPT
                ![t].pc = IF compact THEN "gate compacting" ELSE "gate",
                ![t].batch = Ids(Contents(box.next_step))]
    BY <1>17 DEF TurnPeeks
  <2> DEFINE s == [turn[t] EXCEPT
                      !.pc = IF compact THEN "gate compacting" ELSE "gate",
                      !.batch = Ids(Contents(box.next_step))]
  <2>2. turn' = [turn EXCEPT ![t] = s]
    BY <1>2, <2>1
  <2>3. s.pc \in {"gate", "gate compacting"} /\ s.request = turn[t].request
    BY <1>2 DEF TurnState
  <2>4. turn[t].pc = "active" /\ UNCHANGED <<dispatch, inflight>>
    BY <1>17 DEF TurnPeeks, agents
  <2> HIDE DEF s
  <2> QED
    BY <1>1, <1>2, <1>5, <2>2, <2>3, <2>4, MovesAside
<1>18. ASSUME NEW ok \in BOOLEAN, CompactionEnds(ok) PROVE Bookkeeping'
  <2>1. \A t \in Turns :
           /\ turn'[t].pc = "none" <=> turn[t].pc = "none"
           /\ turn'[t].request = turn[t].request
           /\ turn'[t].status = turn[t].status
           /\ turn'[t].pc \in {"after-run", "compacting", "returning"} =>
                 turn[t].pc \in {"after-run", "compacting", "returning"}
    BY <1>2, <1>18 DEF CompactionEnds, TurnState
  <2>2. RunAside
    <3>1. UNCHANGED inflight
      BY <1>18 DEF CompactionEnds, agents
    <3> QED
      BY <1>1, <1>3, <2>1, <3>1 DEF RunAside, HasStatus
  <2>3. DispatchAside
    <3>1. IF dispatch.pc = "compacting"
            THEN (ok /\ dispatch' = [dispatch EXCEPT !.pc = "hooked"]) \/ Finish
            ELSE Schedule(TRUE) \/ NotScheduled
      BY <1>18 DEF CompactionEnds
    <3>2. CASE dispatch.pc = "compacting" /\ dispatch' = [dispatch EXCEPT !.pc = "hooked"]
      <4>1. dispatch'.pc = "hooked" /\ dispatch'.request = dispatch.request
        BY <1>2, <3>2 DEF DispatchState
      <4> QED
        BY <1>1, <3>2, <4>1 DEF DispatchAside, HasCandidate
    <3>3. CASE dispatch.pc = "compacting" /\ Finish
      BY <1>1, <1>2, <3>3, SchedulesAside
    <3> QED
      BY <1>1, <1>2, <3>1, <3>2, <3>3, SchedulesAside
  <2> QED
    BY <1>1, <2>2, <2>3, AsideKeeps
<1>19. CASE Crash
  <2>1. turn' = [t \in Turns |-> NoTurn] /\ dispatch' = NoDispatch
    BY <1>19 DEF Crash
  <2>2. (\A t \in Turns : turn'[t].pc = "none") /\ dispatch'.pc = "none"
    BY <2>1 DEF NoTurn, NoDispatch
  <2> QED
    BY <1>3, <2>2 DEF Bookkeeping, RunHasItsDispatcher, HasCandidate, HasStatus
<1>20. CASE Restart \/ IndexForgets
  BY <1>6, <1>20 DEF Restart, IndexForgets, agents, loop
<1>21. CASE UNCHANGED vars
  BY <1>6, <1>21 DEF vars, agents, loop
<1> QED
  BY <1>8, <1>9, <1>10, <1>11, <1>12, <1>14, <1>15, <1>16, <1>17, <1>18, <1>19,
     <1>20, <1>21 DEF Next

-----------------------------------------------------------------------------
(* The theorems.                                                           *)

\* The inductive invariant: with the types go the well-formed queues, from
\* which request ids are taken, and the books of the dispatch task, without
\* which a run could be refused, or end, for no request at all.
Inductive == TypeOK /\ Sound(box) /\ Bookkeeping /\ OneStarter

\* It holds at the start and every step keeps it.
THEOREM InductiveHolds == Spec => []Inductive
<1>1. Init => Inductive
  <2> SUFFICES ASSUME Init PROVE Inductive
    OBVIOUS
  <2>1. box \in Inbox /\ Sound(box)
    BY EmptySound DEF Init
  <2>2. turn = [t \in Turns |-> NoTurn] /\ dispatch = NoDispatch
    BY DEF Init
  <2>3. NoTurn \in TurnState /\ NoDispatch \in DispatchState
    BY DEF NoTurn, NoDispatch, TurnState, DispatchState
  <2>4. turn \in [Turns -> TurnState] /\ dispatch \in DispatchState
    BY <2>2, <2>3
  <2>5. TypeOK
    <3>1. asks \in 0 .. MaxAsks
      BY DispatchAssumption DEF Init
    <3>2. /\ admitting \subseteq Requests \X BOOLEAN /\ receipts \subseteq Requests
          /\ results \subseteq Requests /\ executed \subseteq Requests
          /\ lost \subseteq Requests
      BY DEF Init
    <3> QED
      BY <2>1, <2>4, <3>1, <3>2 DEF Init, TypeOK
  <2>6. (\A t \in Turns : turn[t].pc = "none") /\ dispatch.pc = "none"
    BY <2>2 DEF NoTurn, NoDispatch
  <2>7. "run" \in Turns
    BY DEF Turns
  <2>8. Bookkeeping
    BY <2>6, <2>7
       DEF Bookkeeping, RunHasItsDispatcher, HasCandidate, HasStatus
  <2>9. OneStarter
    BY <2>6, <2>7 DEF OneStarter, Active
  <2> QED
    BY <2>1, <2>5, <2>8, <2>9 DEF Inductive
<1>2. Inductive /\ [Next]_vars => Inductive'
  <2> SUFFICES ASSUME Inductive, [Next]_vars PROVE Inductive'
    OBVIOUS
  <2>1. TypeOK /\ Sound(box) /\ Bookkeeping /\ OneStarter /\ box \in Inbox
    BY DEF Inductive, TypeOK
  <2>2. box' \in Inbox /\ Sound(box')
    BY <2>1, QueuesInductive
  <2>3. TypeOK'
    BY <2>1, <2>2, TypeInductive DEF Bookkeeping
  <2>4. Bookkeeping' /\ OneStarter'
    BY <2>1, BookkeepingInductive, OneStarterInductive
  <2> QED
    BY <2>2, <2>3, <2>4 DEF Inductive
<1> QED
  BY <1>1, <1>2, PTL DEF Spec

\* Every variable of the dispatch model keeps its type, whatever interleaving
\* of admissions, deliveries, confirmations, compactions and crashes occurs.
THEOREM DispatchTyping == Spec => []TypeOK
<1>1. Inductive => TypeOK
  BY DEF Inductive
<1> QED
  BY <1>1, InductiveHolds, PTL

\* "A session has at most one active turn" (README): whatever the dispatch
\* task and any number of confirmation commands do, at most one turn executes
\* and it is the direct task, the one that a cancellation reaches.
THEOREM OneActiveTurn == Spec => []AtMostOneActiveTurn
<1>1. Inductive => AtMostOneActiveTurn
  <2> SUFFICES ASSUME Inductive PROVE AtMostOneActiveTurn
    OBVIOUS
  <2>1. \A t \in Running : direct = t
    BY DEF Inductive, OneStarter, Running
  <2>2. Running = {} \/ Running = {direct}
    BY <2>1
  <2>3. Cardinality({}) = 0 /\ Cardinality({direct}) = 1
    BY FS_EmptySet, FS_Singleton
  <2>4. Cardinality(Running) <= 1
    BY <2>2, <2>3
  <2> QED
    BY <2>1, <2>4 DEF AtMostOneActiveTurn
<1> QED
  BY <1>1, InductiveHolds, PTL

\* A run exists exactly while the dispatch task waits for it, with the same
\* request and with its admission in flight: no turn is left without the task
\* that resolves its receipt.
THEOREM RunsAreAwaited == Spec => []RunHasItsDispatcher
<1>1. Inductive => RunHasItsDispatcher
  BY DEF Inductive, Bookkeeping
<1> QED
  BY <1>1, InductiveHolds, PTL

-----------------------------------------------------------------------------
(* Who holds the Session.  A claimed request is refused, and lost, when    *)
(* something holds the Session at that moment: it is to be shown that      *)
(* nothing can.  With confirmation commands this is true only as long as   *)
(* they come one at a time and nothing fails, is cancelled or crashes.     *)

\* Every mark by which a Session is held is held by a turn that will clear it.
Places ==
    /\ inflight => turn["run"].pc # "none"
    /\ reserved => turn["run"].pc \in Active \cup {"reserved"}
    /\ direct # "none" => turn[direct].pc \in Active
    /\ maintenance => \E t \in Turns : turn[t].pc = "compacting"

\* Nobody confirms, or one tool call asks at a time, one command answers it,
\* and the turns are left to complete or to pause.
ConfirmedInTurn ==
    \/ Confirms = {}
    \/ /\ \E c : Confirms = {c}
       /\ MaxAsks <= 1
       /\ "failed" \notin Outcomes
       /\ ~MayCancel /\ ~MayCrash

\* The dispatch task has found the Session free and not delivered yet.
Choosing == {"peek", "compacting", "hooked", "claimed"}
\* A turn has ended and has not returned.
Ending == {"after-run", "compacting", "returning"}

\* No delivery is under way to an agent that waits for a confirmation.
Unpaused == dispatch.pc \in Choosing => entry # "paused"

\* Where a question is open, or a confirmed turn is on its way, the next turn
\* waits: the agent is paused, or a run that has paused is about to make it so.
InTurn(c) ==
    LET R == turn["run"]
        C == turn[c]
        open == C.pc # "none" \/ asks > 0
    IN  /\ dispatch.pc \in Choosing => ~open
        /\ R.pc \in Active \cup {"admitted", "reserved"} => ~open
        /\ R.pc \in Ending /\ open => R.status = "paused"
        /\ R.pc = "none" /\ open => entry = "paused"
        /\ C.pc \in Ending /\ asks > 0 => C.status = "paused"
        /\ C.pc \in Active \ {"resuming"} => asks = 0
        /\ ~R.cancelled /\ ~C.cancelled

Turnwise ==
    /\ Places /\ Unpaused /\ NoClaimIsLost
    /\ \A c \in Confirms : InTurn(c)

\* The turns' positions and statuses after a step that moves only turn t.
Turned(t, pc, status) ==
    \A u \in Turns :
        /\ turn'[u].pc = (IF u = t THEN pc ELSE turn[u].pc)
        /\ turn'[u].status = (IF u = t THEN status ELSE turn[u].status)
        /\ turn'[u].cancelled => turn[u].cancelled

\* The dispatch task gets no further.
Aside == dispatch'.pc \in Choosing => dispatch'.pc = dispatch.pc

\* Requests for a delivery, and the end of a task, are of that kind.
LEMMA AsideSteps ==
    ASSUME NEW wait,
           Schedule(wait) \/ NotScheduled \/ Finish \/ dispatch' = NoDispatch
              \/ UNCHANGED dispatch
    PROVE  Aside
<1>1. /\ NoDispatch.pc = "none"
      /\ [NoDispatch EXCEPT !.pc = "created"].pc = "created"
  BY DEF NoDispatch
<1>2. \/ UNCHANGED dispatch
      \/ dispatch' = NoDispatch \/ dispatch' = [NoDispatch EXCEPT !.pc = "created"]
  BY DEF Schedule, NotScheduled, Finish
<1>3. UNCHANGED dispatch \/ dispatch'.pc \in {"none", "created"}
  BY <1>1, <1>2
<1> QED
  BY <1>3 DEF Aside, Choosing

\* What is not about turns or deliveries disturbs nothing.
LEMMA OutsideKeeps ==
    ASSUME Turnwise, Aside,
           UNCHANGED <<turn, entry, inflight, reserved, direct, maintenance,
                       asks, lost>>
    PROVE  Turnwise'
BY DEF Turnwise, Places, Unpaused, NoClaimIsLost, InTurn, Aside

\* So does a turn that moves on, and stays active or goes on ending.
LEMMA MovesOn ==
    ASSUME Turnwise, Aside, NEW t \in Turns, NEW pc,
           Turned(t, pc, turn[t].status),
           \/ /\ turn[t].pc \in Active \ {"resuming"} /\ pc \in Active \ {"resuming"}
              /\ UNCHANGED maintenance
           \/ /\ turn[t].pc = "after-run" /\ pc \in {"compacting", "returning"}
              /\ maintenance' => maintenance \/ pc = "compacting",
           UNCHANGED <<entry, inflight, reserved, direct, asks, lost>>,
           direct \in Turns \cup {"none"}
    PROVE  Turnwise'
<1>1. Places'
  <2>1. /\ Places /\ "run" \in Turns
        /\ \A u \in Turns : turn'[u].pc = (IF u = t THEN pc ELSE turn[u].pc)
    BY DEF Turnwise, Turned, Turns
  <2>2. /\ reserved => turn'["run"].pc \in Active \cup {"reserved"}
        /\ direct # "none" => turn'[direct].pc \in Active
        /\ inflight => turn'["run"].pc # "none"
    BY <2>1 DEF Places, Active
  <2>3. maintenance' => \E u \in Turns : turn'[u].pc = "compacting"
    BY <2>1 DEF Places, Active
  <2> QED
    BY <2>2, <2>3 DEF Places
<1>2. Unpaused'
  BY DEF Turnwise, Unpaused, Aside
<1>3. ASSUME NEW c \in Confirms PROVE InTurn(c)'
  <2>1. InTurn(c) /\ c \in Turns /\ "run" \in Turns /\ c # "run"
    BY <1>3, DispatchAssumption DEF Turnwise, Turns
  <2> QED
    BY <2>1 DEF InTurn, Turned, Aside, Active, Ending
<1> QED
  BY <1>1, <1>2, <1>3 DEF Turnwise, NoClaimIsLost

\* Every step keeps this, if nobody confirms or confirmations come in turn.
LEMMA TurnwiseInductive ==
    ConfirmedInTurn /\ Inductive /\ Turnwise /\ [Next]_vars => Turnwise'
<1> SUFFICES ASSUME ConfirmedInTurn, Inductive, Turnwise, [Next]_vars
             PROVE  Turnwise'
  OBVIOUS
<1>1. /\ Places /\ Unpaused /\ lost = {}
      /\ \A c \in Confirms : InTurn(c)
  BY DEF Turnwise, NoClaimIsLost
<1>2. /\ turn \in [Turns -> TurnState] /\ dispatch \in DispatchState
      /\ direct \in Turns \cup {"none"} /\ asks \in 0 .. MaxAsks
      /\ RunHasItsDispatcher /\ OneStarter
  BY DEF Inductive, TypeOK, Bookkeeping
<1>3. /\ "run" \in Turns /\ "none" \notin Turns /\ "run" \notin Confirms
      /\ \A c \in Confirms : c \in Turns /\ c # "run"
      /\ \A t \in Turns : t = "run" \/ t \in Confirms
  BY DispatchAssumption DEF Turns
<1>4. Confirms # {} => /\ \A c, d \in Confirms : c = d
                       /\ MaxAsks <= 1 /\ "failed" \notin Outcomes
                       /\ ~MayCancel /\ ~MayCrash
  BY DEF ConfirmedInTurn
<1>5. ASSUME UNCHANGED <<turn, entry, inflight, reserved, direct, maintenance,
                         asks, lost>>, Aside
      PROVE  Turnwise'
  BY <1>5, OutsideKeeps
<1>6. ASSUME UNCHANGED dispatch PROVE Aside
  BY <1>6 DEF Aside
<1>7. ASSUME NEW r \in Requests, Followup(r) \/ Steer(r) \/ Remove(r) \/ Promote(r)
      PROVE  Turnwise'
  BY <1>5, <1>6, <1>7
     DEF Followup, Steer, Remove, Promote, NotScheduled, agents, loop, log
<1>8. ASSUME NEW r, NEW b, FollowupReturns(r, b) PROVE Turnwise'
  BY <1>5, <1>8, AsideSteps DEF FollowupReturns, agents, loop, log
<1>9. CASE Cancel
  <2>1. Confirms = {}
    BY <1>4, <1>9 DEF Cancel
  <2>2. \A t \in Turns : turn'[t].pc = turn[t].pc
    BY <1>2, <1>9 DEF Cancel, TurnState
  <2>3. UNCHANGED <<dispatch, entry, inflight, reserved, direct, maintenance, lost>>
    BY <1>9 DEF Cancel, agents
  <2>4. Places'
    BY <1>1, <1>2, <1>3, <2>2, <2>3 DEF Places
  <2> QED
    BY <1>1, <2>1, <2>3, <2>4 DEF Turnwise, Unpaused, NoClaimIsLost
<1>10. CASE ManualCompact
  BY <1>5, <1>6, <1>10 DEF ManualCompact, agents, loop, log
\* While a tool call asks, only the run that paused for it may be under way.
<1>11. ASSUME NEW c \in Confirms, Confirm(c) PROVE Turnwise'
  <2>1. /\ turn[c].pc = "none" /\ asks > 0 /\ InTurn(c)
        /\ UNCHANGED <<dispatch, inflight, reserved, maintenance, asks, lost>>
    BY <1>1, <1>11 DEF Confirm, log
  <2>2. /\ turn["run"].pc = "none" => entry = "paused"
        /\ turn["run"].pc \notin Active \cup {"admitted", "reserved"}
        /\ dispatch.pc \notin Choosing
    BY <2>1 DEF InTurn
  <2>3. direct = "none" /\ ~reserved
    BY <1>1, <1>2, <1>3, <1>4, <2>1, <2>2 DEF Places, Active
  <2>4. Unpaused'
    BY <2>1, <2>2 DEF Unpaused
  <2>5. CASE IsActiveSession
    <3>1. UNCHANGED <<turn, direct>>
      BY <1>11, <2>5 DEF Confirm
    <3>2. maintenance
      BY <2>3, <2>5 DEF IsActiveSession
    <3>3. turn["run"].pc = "compacting"
      BY <1>1, <1>3, <1>4, <2>1, <3>2 DEF Places
    <3>4. Places'
      BY <1>1, <2>1, <3>1 DEF Places
    <3>5. InTurn(c)'
      BY <2>1, <2>2, <3>1, <3>3 DEF InTurn
    <3>6. \A d \in Confirms : InTurn(d)'
      BY <1>4, <3>5
    <3> QED
      BY <1>1, <2>1, <2>4, <3>4, <3>6 DEF Turnwise, NoClaimIsLost
  <2>6. CASE ~IsActiveSession
    <3>1. At(c, "resuming") /\ direct' = c /\ UNCHANGED entry
      BY <1>11, <2>6 DEF Confirm
    <3>2. Turned(c, "resuming", turn[c].status)
      BY <1>2, <1>3, <3>1 DEF At, Turned, TurnState
    <3>3. c \in Turns /\ c # "run" /\ ~maintenance
      BY <1>3, <2>6 DEF IsActiveSession
    <3>4. Places'
      BY <1>1, <1>3, <2>1, <2>3, <3>1, <3>2, <3>3 DEF Places, Turned, Active
    <3>5. InTurn(c)'
      BY <1>3, <2>1, <2>2, <3>1, <3>2, <3>3 DEF InTurn, Turned, Active, Ending
    <3>6. \A d \in Confirms : InTurn(d)'
      BY <1>4, <3>5
    <3> QED
      BY <1>1, <2>1, <2>4, <3>4, <3>6 DEF Turnwise, NoClaimIsLost
  <2> QED
    BY <2>5, <2>6
\* A delivery begins only when nothing holds the Session.
<1>12. CASE DispatchStep
  <2>1. CASE DispatchDeliver
    <3>1. /\ dispatch.pc = "claimed" /\ entry # "paused"
          /\ UNCHANGED <<reserved, direct, maintenance, asks>>
      BY <1>1, <2>1 DEF DispatchDeliver, Unpaused, Choosing, log
    <3>2. /\ turn["run"].pc = "none"
          /\ \A c \in Confirms : turn[c].pc = "none" /\ asks = 0
      BY <1>1, <1>2, <3>1, DispatchAssumption DEF RunHasItsDispatcher, InTurn, Choosing
    <3>3. \A t \in Turns : turn[t].pc = "none"
      BY <1>3, <3>2
    <3>4. ~(entry = "paused" \/ inflight \/ IsActiveSession)
      BY <1>1, <1>2, <1>3, <3>1, <3>2, <3>3 DEF Places, IsActiveSession, Active
    <3>5. CASE dispatch.request \in results
      <4>1. /\ dispatch' = [dispatch EXCEPT !.pc = "finishing"]
            /\ UNCHANGED <<agents, turn, lost>>
        BY <2>1, <3>5 DEF DispatchDeliver
      <4>2. Aside
        BY <1>2, <4>1 DEF DispatchState, Aside, Choosing
      <4> QED
        BY <1>5, <3>1, <4>1, <4>2 DEF agents
    <3>6. CASE dispatch.request \notin results
      <4>1. /\ dispatch' = [dispatch EXCEPT !.pc = "running"]
            /\ turn' = [turn EXCEPT !["run"] =
                  [NoTurn EXCEPT !.pc = "admitted", !.request = dispatch.request]]
            /\ UNCHANGED lost
        BY <2>1, <3>4, <3>6 DEF DispatchDeliver
      <4>2. dispatch'.pc = "running"
        BY <1>2, <4>1 DEF DispatchState
      <4>3. /\ turn'["run"].pc = "admitted" /\ ~turn'["run"].cancelled
            /\ \A t \in Turns : t # "run" => turn'[t] = turn[t]
        BY <1>2, <1>3, <4>1 DEF NoTurn
      <4>4. Places' /\ Unpaused'
        BY <1>1, <1>2, <1>3, <3>1, <3>3, <3>4, <4>2, <4>3
           DEF Places, Unpaused, Choosing, Active, IsActiveSession
      <4>5. ASSUME NEW c \in Confirms PROVE InTurn(c)'
        <5>1. InTurn(c) /\ turn'[c] = turn[c] /\ turn[c].pc = "none" /\ asks = 0
          BY <1>1, <1>3, <3>2, <4>3
        <5> QED
          BY <3>1, <4>2, <4>3, <5>1 DEF InTurn, Choosing, Ending, Active
      <4> QED
        BY <1>1, <4>1, <4>4, <4>5 DEF Turnwise, NoClaimIsLost
    <3> QED
      BY <3>5, <3>6
  <2>2. CASE ~DispatchDeliver
    <3>1. UNCHANGED <<turn, entry, inflight, reserved, direct, maintenance,
                      asks, lost>>
      BY <1>12, <2>2 DEF DispatchStep, DispatchStart, DispatchWaits, DispatchPeek,
         DispatchClaim, DispatchFinishes, DispatchUnchanged, agents, loop, log
    <3>2. ASSUME Aside \/ dispatch.pc \in Choosing
                 \/ (dispatch.pc \in {"created", "waiting"} /\ ~AgentBusy)
          PROVE  Turnwise'
      <4>1. CASE Aside
        BY <1>5, <3>1, <4>1
      <4>2. CASE dispatch.pc \in Choosing
        BY <1>1, <3>1, <4>2 DEF Turnwise, Places, Unpaused, InTurn, NoClaimIsLost
      <4>3. CASE dispatch.pc \in {"created", "waiting"} /\ ~AgentBusy
        <5>1. entry # "paused" /\ turn["run"].pc = "none"
          BY <1>2, <4>3, DispatchAssumption DEF AgentBusy, RunHasItsDispatcher
        <5> QED
          BY <1>1, <3>1, <5>1
             DEF Turnwise, Places, Unpaused, InTurn, NoClaimIsLost, Active, Ending
      <4> QED
        BY <3>2, <4>1, <4>2, <4>3
    <3>3. CASE DispatchStart \/ DispatchWaits
      <4>1. \/ dispatch' = NoDispatch
            \/ dispatch.pc = "waiting" /\ ~AgentBusy
            \/ dispatch.pc = "created" /\ ~AgentBusy
            \/ dispatch' = [dispatch EXCEPT !.pc = "waiting"]
        BY <3>3 DEF DispatchStart, DispatchWaits
      <4>2. dispatch' = [dispatch EXCEPT !.pc = "waiting"] => Aside
        BY <1>2 DEF DispatchState, Aside, Choosing
      <4> QED
        BY <3>2, <4>1, <4>2, AsideSteps
    <3>4. CASE DispatchPeek \/ DispatchClaim
      BY <3>2, <3>4 DEF DispatchPeek, DispatchClaim, Choosing
    <3>5. CASE DispatchFinishes
      BY <3>2, <3>5, AsideSteps DEF DispatchFinishes
    <3> QED
      BY <1>12, <2>2, <3>3, <3>4, <3>5 DEF DispatchStep
  <2> QED
    BY <2>1, <2>2
<1>13. ASSUME NEW t \in Turns, TurnStep(t) PROVE Turnwise'
  <2>1. CASE TurnClaims(t)
    <3>1. /\ turn[t].pc = "gate"
          /\ UNCHANGED <<dispatch, entry, inflight, reserved, direct,
                         maintenance, asks, lost>>
      BY <2>1 DEF TurnClaims, agents, log
    <3>2. Turned(t, "active", turn[t].status)
      BY <1>2, <2>1 DEF TurnClaims, Turned, TurnState
    <3> QED
      BY <1>2, <1>6, <3>1, <3>2, MovesOn DEF Active
  <2>2. ASSUME NEW status \in Outcomes \cup {"cancelled"}, TurnEnds(t, status)
        PROVE  Turnwise'
    <3>1. /\ turn[t].pc \in Active /\ direct = t /\ direct' = "none"
          /\ reserved' = (IF t = "run" THEN FALSE ELSE reserved)
          /\ UNCHANGED <<dispatch, entry, inflight, maintenance, lost>>
      BY <1>2, <2>2 DEF TurnEnds, agents, OneStarter, Active
    <3>2. Turned(t, "after-run", status)
      BY <1>2, <2>2 DEF TurnEnds, Turned, TurnState
    <3>3. Places'
      BY <1>1, <1>2, <1>3, <3>1, <3>2 DEF Places, Turned, Active
    <3>4. ASSUME NEW c \in Confirms PROVE InTurn(c)'
      <4>1. InTurn(c) /\ (t = "run" \/ t = c) /\ c \in Turns /\ c # "run"
        BY <1>1, <1>3, <1>4, <3>4
      <4>2. /\ status \in Outcomes /\ status # "failed" /\ turn[t].pc = "active"
            /\ ~turn[t].cancelled
        BY <1>4, <2>2, <3>4, <4>1 DEF TurnEnds, InTurn
      <4>3. asks = 0 /\ (status # "paused" => asks' = 0)
        <5>1. ASSUME t = "run" PROVE ~(asks > 0)
          BY <4>1, <4>2, <5>1 DEF InTurn, Active
        <5>2. ASSUME t = c PROVE asks = 0
          BY <4>1, <4>2, <5>2 DEF InTurn, Active
        <5>3. asks = 0
          BY <1>2, <4>1, <5>1, <5>2, DispatchAssumption
        <5> QED
          BY <2>2, <5>3 DEF TurnEnds
      <4>4. dispatch.pc \notin Choosing
        BY <1>2, <4>1, <4>2, DispatchAssumption
           DEF InTurn, RunHasItsDispatcher, Choosing
      <4>5. CASE t = "run"
        <5>1. turn[c].pc = "none"
          BY <4>1, <4>2, <4>5 DEF InTurn, Active
        <5> QED
          BY <1>3, <3>1, <3>2, <4>1, <4>3, <4>4, <4>5, <5>1
             DEF InTurn, Turned, Active, Ending
      <4>6. CASE t = c
        <5>1. /\ turn["run"].pc \in Ending => turn["run"].status = "paused"
              /\ turn["run"].pc \notin Active \cup {"admitted", "reserved"}
              /\ turn["run"].pc = "none" => entry = "paused"
              /\ ~turn["run"].cancelled
          BY <4>1, <4>2, <4>6 DEF InTurn
        <5>2. /\ turn'[c].pc = "after-run" /\ turn'[c].status = status
              /\ turn'["run"].pc = turn["run"].pc
              /\ turn'["run"].status = turn["run"].status
              /\ ~turn'["run"].cancelled /\ ~turn'[c].cancelled
          BY <1>3, <3>2, <4>1, <4>2, <4>6, <5>1 DEF Turned
        <5>3. asks' > 0 => status = "paused"
          BY <4>3
        <5> QED
          BY <3>1, <4>4, <5>1, <5>2, <5>3 DEF InTurn, Active, Ending
      <4> QED
        BY <4>1, <4>5, <4>6
    <3> QED
      BY <1>1, <3>1, <3>3, <3>4 DEF Turnwise, Unpaused, NoClaimIsLost
  <2>3. CASE AfterRunPasses(t)
    <3>1. /\ turn[t].pc = "after-run"
          /\ maintenance' => maintenance
          /\ UNCHANGED <<entry, inflight, reserved, direct, asks, lost>>
      BY <2>3 DEF AfterRunPasses, agents, log
    <3>2. Turned(t, "returning", turn[t].status)
      BY <1>2, <2>3 DEF AfterRunPasses, At, Turned, TurnState
    <3>3. Aside
      BY <2>3, AsideSteps DEF AfterRunPasses, AfterRun
    <3> QED
      BY <1>2, <3>1, <3>2, <3>3, MovesOn
  <2>4. CASE AfterRunCompacts(t)
    <3>1. /\ turn[t].pc = "after-run" /\ maintenance'
          /\ UNCHANGED <<dispatch, entry, inflight, reserved, direct, asks, lost>>
      BY <2>4 DEF AfterRunCompacts, agents, log
    <3>2. Turned(t, "compacting", turn[t].status)
      BY <1>2, <2>4 DEF AfterRunCompacts, At, Turned, TurnState
    <3> QED
      BY <1>2, <1>6, <3>1, <3>2, MovesOn
  <2> QED
    BY <1>13, <2>1, <2>2, <2>3, <2>4 DEF TurnStep
<1>14. CASE RunStep
  <2>1. CASE RunAdmits
    <3>1. /\ turn["run"].pc = "admitted"
          /\ UNCHANGED <<dispatch, entry, inflight, direct, maintenance, asks>>
      BY <2>1 DEF RunAdmits, agents, log
    <3>2. \A c \in Confirms : turn[c].pc = "none"
      BY <1>1, <3>1 DEF InTurn
    <3>3. ~IsActiveSession
      BY <1>1, <1>2, <1>3, <3>1, <3>2 DEF Places, IsActiveSession, Active
    <3>4. UNCHANGED lost
      BY <2>1, <3>3 DEF RunAdmits
    <3>5. CASE turn["run"].request \in executed
      <4>1. PICK status \in {"completed", "failed"} :
               turn' = [turn EXCEPT !["run"].pc = "returning",
                                    !["run"].status = status]
        BY <2>1, <3>5 DEF RunAdmits
      <4>2. Turned("run", "returning", status) /\ UNCHANGED reserved
        BY <1>2, <1>3, <2>1, <3>5, <4>1 DEF RunAdmits, Turned, TurnState
      <4>3. ~reserved /\ direct = "none" /\ ~maintenance
        BY <3>3 DEF IsActiveSession
      <4>4. Places' /\ Unpaused'
        BY <1>1, <1>3, <3>1, <4>2, <4>3 DEF Places, Unpaused, Turned
      <4>5. ASSUME NEW c \in Confirms PROVE InTurn(c)'
        BY <1>1, <1>3, <3>1, <4>2, <4>5 DEF InTurn, Turned, Active, Ending
      <4> QED
        BY <1>1, <3>4, <4>4, <4>5 DEF Turnwise, NoClaimIsLost
    <3>6. CASE turn["run"].request \notin executed
      <4>1. At("run", "reserved") /\ reserved'
        BY <2>1, <3>3, <3>6 DEF RunAdmits
      <4>2. Turned("run", "reserved", turn["run"].status)
        BY <1>2, <1>3, <4>1 DEF At, Turned, TurnState
      <4>3. direct = "none" /\ ~maintenance
        BY <3>3 DEF IsActiveSession
      <4>4. Places' /\ Unpaused'
        BY <1>1, <1>3, <3>1, <4>2, <4>3 DEF Places, Unpaused, Turned
      <4>5. ASSUME NEW c \in Confirms PROVE InTurn(c)'
        BY <1>1, <1>3, <3>1, <4>2, <4>5 DEF InTurn, Turned, Active, Ending
      <4> QED
        BY <1>1, <3>4, <4>4, <4>5 DEF Turnwise, NoClaimIsLost
    <3> QED
      BY <3>5, <3>6
  <2>2. CASE RunRefused
    <3>1. /\ turn["run"].pc = "reserved" /\ ~reserved' /\ ~maintenance' /\ Confirms = {}
          /\ UNCHANGED <<dispatch, entry, inflight, direct, asks, lost>>
      BY <1>4, <2>2 DEF RunRefused, agents, log
    <3>2. Turned("run", "returning", "failed")
      BY <1>2, <1>3, <2>2 DEF RunRefused, Turned, TurnState
    <3>3. direct = "none"
      BY <1>2, <3>1 DEF OneStarter
    <3> QED
      BY <1>1, <1>3, <3>1, <3>2, <3>3
         DEF Turnwise, Places, Unpaused, Turned, NoClaimIsLost
  <2>3. CASE RunStarts
    <3>1. /\ turn["run"].pc = "reserved" /\ direct' = "run"
          /\ UNCHANGED <<dispatch, entry, inflight, reserved, maintenance, asks, lost>>
      BY <2>3 DEF RunStarts, agents, log
    <3>2. Turned("run", "active", turn["run"].status)
      BY <1>2, <1>3, <2>3 DEF RunStarts, At, Turned, TurnState
    <3>3. Places' /\ Unpaused'
      BY <1>1, <1>3, <3>1, <3>2 DEF Places, Unpaused, Turned, Active
    <3>4. ASSUME NEW c \in Confirms PROVE InTurn(c)'
      BY <1>1, <1>3, <3>1, <3>2, <3>4 DEF InTurn, Turned, Active, Ending
    <3> QED
      BY <1>1, <3>1, <3>3, <3>4 DEF Turnwise, NoClaimIsLost
  \* The agent is paused if a question is open, or a confirmed turn under way.
  <2>4. CASE RunReturns
    <3>1. /\ turn["run"].pc = "returning" /\ ~inflight'
          /\ entry' = StateOf(turn["run"].status)
          /\ UNCHANGED <<reserved, direct, maintenance, asks, lost>>
      BY <2>4 DEF RunReturns, log
    <3>2. dispatch'.pc = "finishing"
      BY <1>2, <2>4 DEF RunReturns, DispatchState
    <3>3. Turned("run", "none", "none")
      BY <1>2, <1>3, <2>4 DEF RunReturns, Turned, NoTurn
    <3>4. ~reserved /\ direct # "run"
      BY <1>1, <3>1 DEF Places, Active
    <3>5. Places' /\ Unpaused'
      BY <1>1, <1>2, <3>1, <3>2, <3>3, <3>4 DEF Places, Unpaused, Choosing, Turned
    <3>6. ASSUME NEW c \in Confirms PROVE InTurn(c)'
      BY <1>1, <1>3, <3>1, <3>2, <3>3, <3>6
         DEF InTurn, Turned, Active, Ending, Choosing, StateOf
    <3> QED
      BY <1>1, <3>1, <3>5, <3>6 DEF Turnwise, NoClaimIsLost
  <2> QED
    BY <1>3, <1>13, <1>14, <2>1, <2>2, <2>3, <2>4 DEF RunStep
<1>15. ASSUME NEW c \in Confirms, ConfirmStep(c) PROVE Turnwise'
  <2>1. c \in Turns /\ c # "run" /\ InTurn(c) /\ MaxAsks <= 1
    BY <1>1, <1>3, <1>4, <1>15
  <2>2. CASE Resume(c)
    <3>1. /\ turn[c].pc = "resuming"
          /\ UNCHANGED <<dispatch, entry, inflight, reserved, direct,
                         maintenance, lost>>
      BY <2>2 DEF Resume, agents
    <3>2. Turned(c, "active", turn[c].status)
      BY <1>2, <2>1, <2>2 DEF Resume, At, Turned, TurnState
    <3>3. asks' = 0
      BY <1>2, <2>1, <2>2, DispatchAssumption DEF Resume
    <3>4. Places' /\ Unpaused'
      BY <1>1, <1>2, <1>3, <2>1, <3>1, <3>2 DEF Places, Unpaused, Turned, Active
    <3>5. InTurn(c)'
      BY <1>3, <2>1, <3>1, <3>2, <3>3 DEF InTurn, Turned, Active, Ending
    <3> QED
      BY <1>1, <1>4, <3>1, <3>4, <3>5 DEF Turnwise, NoClaimIsLost
  <2>3. CASE ConfirmReturns(c)
    <3>1. /\ turn[c].pc = "returning"
          /\ entry' = (IF entry = "absent" THEN "absent" ELSE StateOf(turn[c].status))
          /\ UNCHANGED <<dispatch, inflight, reserved, direct, maintenance,
                         asks, lost>>
      BY <2>3 DEF ConfirmReturns, log
    <3>2. Turned(c, "none", "none")
      BY <1>2, <2>1, <2>3 DEF ConfirmReturns, Turned, NoTurn
    <3>3. dispatch.pc \notin Choosing
      BY <2>1, <3>1 DEF InTurn
    <3>4. Places' /\ Unpaused'
      BY <1>1, <1>2, <1>3, <2>1, <3>1, <3>2, <3>3
         DEF Places, Unpaused, Turned, Active
    <3>5. InTurn(c)'
      BY <1>3, <2>1, <3>1, <3>2, <3>3 DEF InTurn, Turned, Active, Ending, StateOf
    <3> QED
      BY <1>1, <1>4, <3>1, <3>4, <3>5 DEF Turnwise, NoClaimIsLost
  <2> QED
    BY <1>13, <1>15, <2>1, <2>2, <2>3 DEF ConfirmStep
<1>16. ASSUME NEW t \in Turns, TurnPeeks(t) PROVE Turnwise'
  <2>1. /\ turn[t].pc = "active"
        /\ UNCHANGED <<dispatch, entry, inflight, reserved, direct, maintenance,
                       asks, lost>>
    BY <1>16 DEF TurnPeeks, agents, log
  <2>2. PICK pc \in {"gate", "gate compacting"} :
           turn' = [turn EXCEPT ![t].pc = pc,
                                ![t].batch = Ids(Contents(box.next_step))]
    BY <1>16 DEF TurnPeeks
  <2>3. Turned(t, pc, turn[t].status)
    BY <1>2, <2>2 DEF Turned, TurnState
  <2> QED
    BY <1>2, <1>6, <2>1, <2>3, MovesOn DEF Active
<1>17. ASSUME NEW ok \in BOOLEAN, CompactionEnds(ok) PROVE Turnwise'
  <2>1. /\ \A t \in Turns :
              /\ turn'[t].pc # turn[t].pc =>
                    \/ turn[t].pc = "compacting" /\ turn'[t].pc = "returning"
                    \/ /\ turn[t].pc = "gate compacting"
                       /\ turn'[t].pc \in {"gate", "active"}
              /\ turn'[t].status = turn[t].status
              /\ turn'[t].cancelled = turn[t].cancelled
        /\ maintenance' => \A t \in Turns : turn[t].pc # "compacting"
        /\ maintenance' => maintenance
        /\ UNCHANGED <<entry, inflight, reserved, direct, asks, lost>>
    BY <1>2, <1>17 DEF CompactionEnds, TurnState, agents, log
  <2>2. ~maintenance'
    BY <1>1, <2>1 DEF Places
  <2>3. Aside \/ dispatch.pc \in Choosing
    BY <1>17, AsideSteps DEF CompactionEnds, Choosing
  <2>4. Places'
    BY <1>1, <1>2, <1>3, <2>1, <2>2 DEF Places, Active
  <2>5. Unpaused'
    BY <1>1, <2>1, <2>3 DEF Unpaused, Aside
  <2>6. ASSUME NEW c \in Confirms PROVE InTurn(c)'
    BY <1>1, <1>3, <2>1, <2>3, <2>6 DEF InTurn, Active, Ending, Aside
  <2> QED
    BY <1>1, <2>1, <2>4, <2>5, <2>6 DEF Turnwise, NoClaimIsLost
<1>18. CASE Crash
  <2>1. Confirms = {}
    BY <1>4, <1>18 DEF Crash
  <2>2. /\ dispatch' = NoDispatch /\ entry' = "absent" /\ ~inflight' /\ ~reserved'
        /\ direct' = "none" /\ ~maintenance' /\ UNCHANGED lost
    BY <1>18 DEF Crash
  <2> QED
    BY <1>1, <2>1, <2>2 DEF Turnwise, Places, Unpaused, NoClaimIsLost
<1>19. CASE Restart \/ IndexForgets
  BY <1>5, <1>6, <1>19 DEF Restart, IndexForgets, agents, loop, log
<1>20. CASE UNCHANGED vars
  BY <1>5, <1>6, <1>20 DEF vars, agents, loop, log
<1> QED
  BY <1>7, <1>8, <1>9, <1>10, <1>11, <1>12, <1>14, <1>15, <1>16, <1>17, <1>18,
     <1>19, <1>20 DEF Next

\* A turn begins to execute by two steps only.
LEMMA Begins ==
    ASSUME turn \in [Turns -> TurnState], [Next]_vars, NEW t \in Turns,
           turn[t].pc \notin Active, turn'[t].pc \in Active
    PROVE  RunStarts \/ ~IsActiveSession
<1>1. UNCHANGED turn => FALSE
  OBVIOUS
<1>2. "run" \in Turns /\ Confirms \subseteq Turns
  BY DEF Turns
<1>3. ASSUME NEW u \in Turns, NEW pc, pc \notin Active, At(u, pc) PROVE FALSE
  BY <1>3 DEF At, TurnState
<1>4. ASSUME NEW u \in Turns, TurnStep(u) PROVE FALSE
  <2>1. CASE TurnClaims(u)
    BY <2>1 DEF TurnClaims, TurnState, Active
  <2>2. ASSUME NEW status, TurnEnds(u, status) PROVE FALSE
    BY <2>2 DEF TurnEnds, TurnState, Active
  <2>3. CASE AfterRunPasses(u) \/ AfterRunCompacts(u)
    BY <1>3, <2>3 DEF AfterRunPasses, AfterRunCompacts, Active
  <2> QED
    BY <1>4, <2>1, <2>2, <2>3 DEF TurnStep
<1>5. ASSUME DispatchStep PROVE FALSE
  <2>1. UNCHANGED turn \/ \E r :
           turn' = [turn EXCEPT !["run"] =
                       [NoTurn EXCEPT !.pc = "admitted", !.request = r]]
    BY <1>5 DEF DispatchStep, DispatchStart, DispatchWaits, DispatchPeek,
       DispatchClaim, DispatchFinishes, DispatchUnchanged, DispatchDeliver, loop
  <2> QED
    BY <1>1, <1>2, <2>1 DEF NoTurn, Active
<1>6. ASSUME RunStep, ~RunStarts, IsActiveSession PROVE FALSE
  <2>1. \/ \E status : turn' = [turn EXCEPT !["run"].pc = "returning",
                                            !["run"].status = status]
        \/ turn' = [turn EXCEPT !["run"] = NoTurn]
    BY <1>2, <1>4, <1>6
       DEF RunStep, RunAdmits, RunRefused, RunReturns
  <2>2. ASSUME NEW status, turn' = [turn EXCEPT !["run"].pc = "returning",
                                                !["run"].status = status]
        PROVE  FALSE
    BY <1>2, <2>2 DEF TurnState, Active
  <2>3. ASSUME turn' = [turn EXCEPT !["run"] = NoTurn] PROVE FALSE
    BY <1>2, <2>3 DEF NoTurn, Active
  <2> QED
    BY <2>1, <2>2, <2>3
<1>7. ASSUME NEW c \in Confirms, ConfirmStep(c) PROVE FALSE
  <2>1. CASE Resume(c)
    BY <1>2, <2>1 DEF Resume, At, TurnState, Active
  <2>2. CASE ConfirmReturns(c)
    BY <1>2, <2>2 DEF ConfirmReturns, NoTurn, Active
  <2> QED
    BY <1>2, <1>4, <1>7, <2>1, <2>2 DEF ConfirmStep
<1>8. ASSUME NEW c \in Confirms, Confirm(c), IsActiveSession PROVE FALSE
  BY <1>1, <1>8 DEF Confirm
<1>9. ASSUME NEW u \in Turns, TurnPeeks(u) PROVE FALSE
  BY <1>9 DEF TurnPeeks, TurnState, Active
<1>10. ASSUME NEW ok, CompactionEnds(ok) PROVE FALSE
  BY <1>10 DEF CompactionEnds, TurnState, Active
<1>11. ASSUME Cancel \/ Crash PROVE FALSE
  <2>1. CASE Cancel
    BY <2>1 DEF Cancel, TurnState
  <2>2. CASE Crash
    BY <2>2 DEF Crash, NoTurn, Active
  <2> QED
    BY <1>11, <2>1, <2>2
<1>12. ASSUME ManualCompact \/ Restart \/ IndexForgets \/ UNCHANGED vars PROVE FALSE
  BY <1>1, <1>12 DEF ManualCompact, Restart, IndexForgets, vars, loop
<1>13. ASSUME NEW r, Followup(r) \/ Steer(r) \/ Remove(r) \/ Promote(r) PROVE FALSE
  BY <1>1, <1>13 DEF Followup, Steer, Remove, Promote, loop
<1>14. ASSUME NEW r, NEW b, FollowupReturns(r, b) PROVE FALSE
  BY <1>1, <1>14 DEF FollowupReturns, loop
<1> QED
  BY <1>5, <1>6, <1>7, <1>8, <1>9, <1>10, <1>11, <1>12, <1>13, <1>14 DEF Next

\* The marks are set only by a turn, and nothing that was claimed is lost,
\* as long as nobody confirms or confirmations come in turn.
THEOREM TurnwiseHolds == ASSUME ConfirmedInTurn PROVE Spec => [](Inductive /\ Turnwise)
<1>1. Init => Turnwise
  <2> SUFFICES ASSUME Init PROVE Turnwise
    OBVIOUS
  <2>1. /\ \A t \in Turns : turn[t].pc = "none" /\ ~turn[t].cancelled
        /\ dispatch.pc = "none"
    BY DEF Init, NoTurn, NoDispatch
  <2>2. "run" \in Turns /\ Confirms \subseteq Turns
    BY DEF Turns
  <2>3. Places /\ Unpaused /\ NoClaimIsLost
    BY <2>1 DEF Init, Places, Unpaused, Choosing, NoClaimIsLost
  <2>4. ASSUME NEW c \in Confirms PROVE InTurn(c)
    <3>1. ~(asks > 0) /\ asks = 0
      BY DEF Init
    <3>2. /\ turn["run"].pc = "none" /\ ~turn["run"].cancelled
          /\ turn[c].pc = "none" /\ ~turn[c].cancelled
      BY <2>1, <2>2
    <3> QED
      BY <2>1, <3>1, <3>2 DEF InTurn, Choosing, Active, Ending
  <2> QED
    BY <2>3, <2>4 DEF Turnwise
<1>2. Inductive /\ Turnwise /\ [Next]_vars => Turnwise'
  BY TurnwiseInductive
<1> QED
  BY <1>1, <1>2, InductiveHolds, PTL DEF Spec

\* A claimed request is not refused for being busy: AgentService and AgentLoop
\* check once more what the dispatch task has checked, and find it unchanged.
\* For any number of requests, whatever fails, is cancelled or crashes, if
\* nobody confirms; and with confirmations, if they come in turn.
THEOREM NoClaimedRequestIsLost ==
    ASSUME ConfirmedInTurn PROVE Spec => []NoClaimIsLost
<1>1. Turnwise => NoClaimIsLost
  BY DEF Turnwise
<1> QED
  BY <1>1, TurnwiseHolds, PTL

\* The maintenance mark keeps turns out: neither a run nor a confirmation that
\* was admitted before the mark begins to execute behind it.
THEOREM MarkKeepsTurnsOut ==
    ASSUME ConfirmedInTurn PROVE Spec => NoTurnBehindTheMark
<1>1. Inductive /\ Turnwise /\ [Next]_vars =>
         [\A t \in Turns :
             turn[t].pc \notin Active /\ turn'[t].pc \in Active => ~maintenance]_vars
  <2> SUFFICES ASSUME Inductive, Turnwise, [Next]_vars, NEW t \in Turns,
                      turn[t].pc \notin Active, turn'[t].pc \in Active
               PROVE  ~maintenance
    OBVIOUS
  <2>1. turn \in [Turns -> TurnState]
    BY DEF Inductive, TypeOK
  <2>2. CASE RunStarts
    <3>1. turn["run"].pc = "reserved"
      BY <2>2 DEF RunStarts
    <3>2. \A c \in Confirms : turn[c].pc = "none"
      BY <3>1 DEF Turnwise, InTurn
    <3> QED
      BY <3>1, <3>2 DEF Turnwise, Places, Turns
  <2>3. CASE ~IsActiveSession
    BY <2>3 DEF IsActiveSession
  <2> QED
    BY <2>1, <2>2, <2>3, Begins
<1> QED
  BY <1>1, TurnwiseHolds, PTL DEF Spec, NoTurnBehindTheMark

\* "paused 不消费队列": with confirmations that come in turn, the dispatch task
\* claims nothing while a tool call asks.
THEOREM QuestionsHoldTheQueue ==
    ASSUME ConfirmedInTurn, Confirms # {} PROVE Spec => PausedHoldsTheQueue
<1>1. Inductive /\ Turnwise =>
         [DispatchClaim /\ dispatch'.pc = "claimed" => asks = 0 \/ Running # {}]_vars
  <2> SUFFICES ASSUME Inductive, Turnwise, DispatchClaim PROVE asks = 0
    OBVIOUS
  <2>1. dispatch.pc \in Choosing
    BY DEF DispatchClaim, Choosing
  <2>2. ~(asks > 0)
    BY <2>1 DEF Turnwise, InTurn
  <2> QED
    BY <2>2, DispatchAssumption DEF Inductive, TypeOK
<1> QED
  BY <1>1, TurnwiseHolds, PTL DEF Spec, PausedHoldsTheQueue

-----------------------------------------------------------------------------
(* Turns and compactions.                                                  *)

\* Nobody types /compact, cancels or confirms: every compaction is one that
\* the dispatch task or a turn asked for.
Undisturbed == Confirms = {} /\ ~Manual /\ ~MayCancel

\* A compaction has somebody who waits for it: no turn is cancelled out of the
\* wait, and the dispatch task has no turn running meanwhile.
Wanted ==
    /\ ~turn["run"].cancelled
    /\ compaction = "running" =>
          \/ dispatch.pc = "compacting"
          \/ turn["run"].pc \in {"gate compacting", "compacting"}

\* Only the end of the compaction releases those who wait for it.
LEMMA WantedInductive ==
    Undisturbed /\ Inductive /\ Wanted /\ [Next]_vars => Wanted'
<1> SUFFICES ASSUME Undisturbed, Inductive, Wanted, [Next]_vars PROVE Wanted'
  OBVIOUS
<1>1. /\ Turns = {"run"} /\ Confirms = {} /\ "run" \in Turns
      /\ turn \in [Turns -> TurnState] /\ dispatch \in DispatchState
      /\ MaxAsks \in Nat
  BY DispatchAssumption DEF Undisturbed, Turns, Inductive, TypeOK
\* A step that starts no compaction and moves neither of the two that may wait.
<1>2. ASSUME UNCHANGED <<turn, compaction>>,
             dispatch.pc = "compacting" => dispatch'.pc = "compacting"
      PROVE  Wanted'
  BY <1>2 DEF Wanted
<1>3. ASSUME NEW wait, Schedule(wait) \/ NotScheduled
      PROVE  dispatch.pc = "compacting" => dispatch'.pc = "compacting"
  BY <1>3 DEF Schedule, NotScheduled
<1>4. ASSUME UNCHANGED <<dispatch, compaction>>, NEW pc,
             turn["run"].pc \notin {"gate compacting", "compacting"},
             turn' = [turn EXCEPT !["run"].pc = pc] \/
             (\E x : turn' = [turn EXCEPT !["run"].pc = pc, !["run"].status = x]) \/
             (\E x : turn' = [turn EXCEPT !["run"].pc = pc, !["run"].batch = x]) \/
             (\E x, y : turn' = [turn EXCEPT !["run"].pc = pc,
                                   !["run"].status = x, !["run"].batch = y])
      PROVE  Wanted'
  <2>1. turn'["run"].cancelled = turn["run"].cancelled
    <3>1. ASSUME turn' = [turn EXCEPT !["run"].pc = pc]
          PROVE  turn'["run"].cancelled = turn["run"].cancelled
      BY <1>1, <3>1 DEF TurnState
    <3>2. ASSUME NEW x, turn' = [turn EXCEPT !["run"].pc = pc, !["run"].status = x]
          PROVE  turn'["run"].cancelled = turn["run"].cancelled
      BY <1>1, <3>2 DEF TurnState
    <3>3. ASSUME NEW x, turn' = [turn EXCEPT !["run"].pc = pc, !["run"].batch = x]
          PROVE  turn'["run"].cancelled = turn["run"].cancelled
      BY <1>1, <3>3 DEF TurnState
    <3>4. ASSUME NEW x, NEW y,
                 turn' = [turn EXCEPT !["run"].pc = pc, !["run"].status = x,
                                      !["run"].batch = y]
          PROVE  turn'["run"].cancelled = turn["run"].cancelled
      BY <1>1, <3>4 DEF TurnState
    <3> QED
      BY <1>4, <3>1, <3>2, <3>3, <3>4
  <2>2. compaction' = "running" => dispatch'.pc = "compacting"
    BY <1>4 DEF Wanted
  <2>3. ~turn["run"].cancelled
    BY DEF Wanted
  <2> QED
    BY <2>1, <2>2, <2>3 DEF Wanted
<1>5. ASSUME NEW r \in Requests, Followup(r) \/ Steer(r) \/ Remove(r) \/ Promote(r)
      PROVE  Wanted'
  BY <1>2, <1>3, <1>5 DEF Followup, Steer, Remove, Promote, loop
<1>6. ASSUME NEW r, NEW b, FollowupReturns(r, b) PROVE Wanted'
  BY <1>2, <1>3, <1>6 DEF FollowupReturns, loop
<1>7. CASE Cancel \/ ManualCompact
  BY <1>7 DEF Cancel, ManualCompact, Undisturbed
<1>8. CASE DispatchStep
  <2>1. CASE DispatchPeek
    <3>1. UNCHANGED turn /\ dispatch.pc = "peek"
      BY <2>1 DEF DispatchPeek, DispatchUnchanged, loop
    <3>2. CASE compaction' = compaction
      BY <3>1, <3>2 DEF Wanted
    <3>3. CASE compaction' # compaction
      <4>1. PICK request :
               dispatch' = [request |-> request, pc |-> "compacting"]
        BY <2>1, <3>3 DEF DispatchPeek
      <4> QED
        BY <3>1, <4>1 DEF Wanted
    <3> QED
      BY <3>2, <3>3
  <2>2. CASE DispatchDeliver
    <3>1. /\ dispatch.pc = "claimed" /\ UNCHANGED compaction
          /\ UNCHANGED turn \/ \E r :
                turn' = [turn EXCEPT !["run"] =
                            [NoTurn EXCEPT !.pc = "admitted", !.request = r]]
      BY <2>2 DEF DispatchDeliver
    <3>2. turn["run"].pc = "none"
      BY <3>1, DispatchAssumption DEF Inductive, Bookkeeping, RunHasItsDispatcher
    <3>3. ~turn'["run"].cancelled
      BY <1>1, <3>1 DEF Wanted, NoTurn
    <3> QED
      BY <3>1, <3>2, <3>3 DEF Wanted
  <2>3. CASE DispatchStart \/ DispatchWaits \/ DispatchClaim \/ DispatchFinishes
    BY <1>2, <2>3 DEF DispatchStart, DispatchWaits, DispatchClaim,
       DispatchFinishes, DispatchUnchanged, loop
  <2> QED
    BY <1>8, <2>1, <2>2, <2>3 DEF DispatchStep
<1>9. CASE RunStep
  <2>1. CASE RunAdmits
    <3>1. /\ turn["run"].pc = "admitted" /\ UNCHANGED <<dispatch, compaction>>
          /\ \/ At("run", "reserved")
             \/ \E status : turn' = [turn EXCEPT !["run"].pc = "returning",
                                                 !["run"].status = status]
      BY <2>1 DEF RunAdmits
    <3> QED
      BY <1>4, <3>1 DEF At
  <2>2. CASE RunRefused \/ RunStarts
    BY <1>4, <2>2 DEF RunRefused, RunStarts, At
  <2>3. CASE RunReturns
    <3>1. /\ turn["run"].pc = "returning" /\ UNCHANGED compaction
          /\ turn' = [turn EXCEPT !["run"] = NoTurn]
      BY <2>3 DEF RunReturns
    <3>2. dispatch.pc = "running"
      BY <3>1 DEF Inductive, Bookkeeping, RunHasItsDispatcher
    <3> QED
      BY <1>1, <3>1, <3>2 DEF Wanted, NoTurn
  <2>4. CASE TurnClaims("run")
    BY <1>4, <2>4 DEF TurnClaims
  \* A turn that is not cancelled does not end out of the wait.
  <2>5. ASSUME NEW status, TurnEnds("run", status) PROVE Wanted'
    <3>1. turn["run"].pc \in {"active", "resuming"}
      BY <2>5 DEF TurnEnds, Wanted
    <3> QED
      BY <1>4, <2>5, <3>1 DEF TurnEnds
  <2>6. CASE AfterRunPasses("run")
    <3>1. /\ turn["run"].pc = "after-run" /\ UNCHANGED compaction
          /\ turn' = [turn EXCEPT !["run"].pc = "returning"]
      BY <2>6 DEF AfterRunPasses, At
    <3>2. dispatch.pc = "running"
      BY <3>1 DEF Inductive, Bookkeeping, RunHasItsDispatcher
    <3> QED
      BY <1>1, <3>1, <3>2 DEF Wanted, TurnState
  <2>7. CASE AfterRunCompacts("run")
    BY <1>1, <2>7 DEF AfterRunCompacts, At, Wanted, TurnState
  <2> QED
    BY <1>9, <2>1, <2>2, <2>3, <2>4, <2>5, <2>6, <2>7 DEF RunStep, TurnStep
<1>10. ASSUME TurnPeeks("run") PROVE Wanted'
  <2>1. PICK compact \in {FALSE, AutoCompact} :
          /\ turn' = [turn EXCEPT
                !["run"].pc = IF compact THEN "gate compacting" ELSE "gate",
                !["run"].batch = Ids(Contents(box.next_step))]
          /\ compaction' = IF compact THEN "running" ELSE compaction
    BY <1>10 DEF TurnPeeks
  <2>2. /\ turn'["run"].pc = IF compact THEN "gate compacting" ELSE "gate"
        /\ turn'["run"].cancelled = turn["run"].cancelled
    BY <1>1, <2>1 DEF TurnState
  <2>3. turn["run"].pc = "active" /\ UNCHANGED dispatch
    BY <1>10 DEF TurnPeeks
  <2> QED
    BY <2>1, <2>2, <2>3 DEF Wanted
<1>11. ASSUME NEW ok, CompactionEnds(ok) PROVE Wanted'
  <2>1. compaction' = "none" /\ turn'["run"].cancelled = turn["run"].cancelled
    BY <1>1, <1>11 DEF CompactionEnds, TurnState
  <2> QED
    BY <2>1 DEF Wanted
<1>12. CASE Crash
  BY <1>1, <1>12 DEF Crash, NoTurn, Wanted
<1>13. CASE Restart \/ IndexForgets \/ UNCHANGED vars
  BY <1>2, <1>13 DEF Restart, IndexForgets, vars, loop
<1> QED
  BY <1>1, <1>5, <1>6, <1>7, <1>8, <1>9, <1>10, <1>11, <1>12, <1>13 DEF Next

\* "turn and compaction never overlap" (README): whatever fails, pauses or
\* crashes, a turn that executes waits for the compaction it asked for, and
\* the dispatch task and agent/after-run compact only between turns.
THEOREM TurnsAndCompactionsAlternate ==
    ASSUME Undisturbed PROVE Spec => []TurnAndCompactionNeverOverlap
<1>1. Init => Wanted
  BY DEF Init, Wanted, NoTurn, Turns
<1>2. Inductive /\ Wanted /\ [Next]_vars => Wanted'
  BY WantedInductive
<1>3. Inductive /\ Wanted => TurnAndCompactionNeverOverlap
  <2> SUFFICES ASSUME Inductive, Wanted, compaction = "running", NEW t \in Running
               PROVE  turn[t].pc = "gate compacting"
    BY DEF TurnAndCompactionNeverOverlap
  <2>1. t = "run" /\ turn["run"].pc \in Active
    BY DEF Running, Turns, Undisturbed
  <2>2. dispatch.pc = "running"
    BY <2>1 DEF Inductive, Bookkeeping, RunHasItsDispatcher, Active
  <2> QED
    BY <2>1, <2>2 DEF Wanted, Active
<1> QED
  BY <1>1, <1>2, <1>3, InductiveHolds, PTL DEF Spec
=============================================================================

--------------------------- MODULE SessionSnapshot --------------------------
(***************************************************************************)
(* The history of one Session between memory and disk: SessionLog (the     *)
(* live events), SessionService (the baseline of messages, the snapshot,   *)
(* the request index, attach, rollback), SnapshotCoordinator (the task     *)
(* that writes snapshots and the flush barrier) and SessionRepository (the *)
(* lock and the file).                                                     *)
(*                                                                         *)
(* Data is abstracted to requests.  An event is the user message of a      *)
(* request, the start of its turn, or the end of its turn; what a turn     *)
(* logs in between is left out, because only these three kinds reach the   *)
(* request index.  A message is the user message of a request.             *)
(*                                                                         *)
(* Everything runs in one asyncio loop; a step is what happens between two *)
(* awaits that suspend.  SessionRepository keeps what it has written in    *)
(* memory, so "file" is both.                                              *)
(***************************************************************************)
EXTENDS Integers, Sequences, FiniteSets

CONSTANTS
    Requests,
    MaxSeq,         \* bound on the event numbers
    Outcomes,       \* how a turn may end
    MayFail,        \* whether a write of the file may raise
    MayRollback,    \* whether a user may roll the Session back
    MayAttach,      \* whether a client follows the Session
    MayCrash

NoRequest == "no request"
Kinds == {"user", "start", "completed", "error", "paused"}

ASSUME SnapshotAssumption ==
    /\ MaxSeq \in Nat
    /\ Outcomes \subseteq {"completed", "error", "paused"}
    /\ {MayFail, MayRollback, MayAttach, MayCrash} \subseteq BOOLEAN
    /\ NoRequest \notin Requests

VARIABLES
    file,       \* session.json: seq, messages, requests
    baseline,   \* _baseline_messages
    base,       \* the number of the first live event
    live,       \* SessionLog._events
    dirty,      \* _PendingSnapshot.dirty
    newer,      \* generation has changed since the task read it
    snap,       \* the task of SnapshotCoordinator, with what it captured
    flushes,    \* waiters: who called flush, and the number they wait for
    flushed,    \* what became of the flushes: a barrier, or an exception
    lock,       \* SessionRepository.lock_for
    turn,       \* the run of one request
    roll,       \* rollback_session
    up,
    timeline,   \* [history] the events in the order of their numbers
    seen,       \* the events a client has applied
    answered    \* [history] requests the file has listed as completed

store    == <<file, lock>>
memory   == <<baseline, base, live>>
pending  == <<dirty, newer, snap, flushes, flushed>>
client   == <<timeline, seen>>
vars == <<store, memory, pending, turn, roll, up, client, answered>>

Statuses == {"none", "pending", "running", "completed", "failed"}
Event == [kind : Kinds, request : Requests]
Index == [Requests -> Statuses]
NoIndex == [r \in Requests |-> "none"]
NoSnap == [pc |-> "off", seq |-> -1, messages |-> << >>, index |-> NoIndex]
NoTurn == [pc |-> "none", request |-> NoRequest]
NoRoll == [pc |-> "none", target |-> NoRequest, seq |-> -1, kept |-> << >>]

\* SessionLog.seq
Seq_ == base + Len(live) - 1

TypeOK ==
    /\ file \in [seq : -1 .. MaxSeq, messages : Seq(Requests), index : Index]
    /\ baseline \in Seq(Requests)
    /\ base \in 0 .. MaxSeq + 1
    /\ live \in Seq(Event)
    /\ dirty \in BOOLEAN /\ newer \in BOOLEAN
    /\ snap \in [pc : {"off", "top", "sleeping", "captured", "writing"},
                 seq : -1 .. MaxSeq, messages : Seq(Requests), index : Index]
    /\ flushes \subseteq {"turn", "rollback"} \X (-1 .. MaxSeq)
    /\ flushed \subseteq {"turn", "rollback"} \X {"done", "failed"}
    /\ lock \in {"free", "snapshot", "rollback"}
    /\ turn \in [pc : {"none", "accepted", "started", "ending"},
                 request : Requests \cup {NoRequest}]
    /\ roll \in [pc : {"none", "flushing", "writing"},
                 target : Requests \cup {NoRequest},
                 seq : -1 .. MaxSeq, kept : Seq(Requests)]
    /\ up \in BOOLEAN
    /\ timeline \in Seq(Event) /\ seen \in Seq(Event)
    /\ answered \subseteq Requests

Init ==
    /\ file = [seq |-> -1, messages |-> << >>, index |-> NoIndex]
    /\ baseline = << >> /\ base = 0 /\ live = << >>
    /\ dirty = FALSE /\ newer = FALSE /\ snap = NoSnap
    /\ flushes = {} /\ flushed = {}
    /\ lock = "free"
    /\ turn = NoTurn /\ roll = NoRoll
    /\ up = TRUE
    /\ timeline = << >> /\ seen = << >>
    /\ answered = {}

-----------------------------------------------------------------------------
(* What is derived from events.                                            *)

Elements(q) == {q[i] : i \in DOMAIN q}

\* The events of a timeline up to a number.
Upto(events, seq) ==
    SubSeq(events, 1, IF seq < Len(events) THEN seq + 1 ELSE Len(events))

\* The user messages among the events, in their order (derive_messages).
Derived(events) ==
    LET user[i \in 0 .. Len(events)] ==
          IF i = 0 THEN << >>
          ELSE IF events[i].kind = "user"
                 THEN Append(user[i - 1], events[i].request)
                 ELSE user[i - 1]
    IN  user[Len(events)]

\* _merge_messages: the baseline, and what the events add to it.
Merged(old, events) ==
    LET added == Derived(events)
        fresh[i \in 0 .. Len(added)] ==
          IF i = 0 THEN old
          ELSE IF added[i] \in Elements(fresh[i - 1])
                 THEN fresh[i - 1] ELSE Append(fresh[i - 1], added[i])
    IN  fresh[Len(added)]

\* The events of the turns of a request: starts and ends.
TurnEvents(events, r) ==
    {i \in DOMAIN events : events[i].request = r /\ events[i].kind # "user"}
LastOf(S) == CHOOSE i \in S : \A j \in S : j <= i

\* _request_index_from_events: the last event of a request decides.
StatusIn(events, r) ==
    LET I == TurnEvents(events, r)
    IN  IF I # {}
          THEN CASE events[LastOf(I)].kind = "start" -> "running"
                 [] events[LastOf(I)].kind = "completed" -> "completed"
                 [] OTHER -> "failed"
        ELSE IF \E i \in DOMAIN events : events[i].request = r
          THEN "pending" ELSE "none"

\* ... to which _write_snapshot adds, as "pending", every message whose
\* request the live events do not name.
Captured(events, messages) ==
    [r \in Requests |->
        IF StatusIn(events, r) # "none" THEN StatusIn(events, r)
        ELSE IF r \in Elements(messages) THEN "pending" ELSE "none"]

\* requests.update(event_requests)
Updated(index, captured) ==
    [r \in Requests |-> IF captured[r] = "none" THEN index[r] ELSE captured[r]]

\* SessionService.request_state: the file, then the log.
RequestState(r) ==
    IF file.index[r] \in {"completed", "failed", "running"} THEN file.index[r]
    ELSE LET ends == {i \in TurnEvents(live, r) : live[i].kind # "start"}
         IN  IF ends = {} \/ live[LastOf(ends)].kind = "paused" THEN "none"
             ELSE live[LastOf(ends)].kind

\* append_user_message_if_absent: whether the history has the message.
Known(r) ==
    \/ file.index[r] # "none"
    \/ r \in Elements(baseline)
    \/ \E i \in DOMAIN live : live[i] = [kind |-> "user", request |-> r]

-----------------------------------------------------------------------------
(* SnapshotCoordinator, as its callers see it.                             *)

\* Mutation: the task is left to whoever flushes.
MarkDirtyOnly ==
    /\ dirty' = TRUE /\ newer' = TRUE
    /\ UNCHANGED snap

\* mark_dirty
MarkDirty ==
    /\ dirty' = TRUE /\ newer' = TRUE
    /\ snap' = IF snap.pc = "off" THEN [snap EXCEPT !.pc = "top"] ELSE snap

\* SessionLog.append, and _on_event.
Log(kind, r) ==
    LET e == [kind |-> kind, request |-> r]
    IN  /\ Seq_ < MaxSeq
        /\ live' = Append(live, e)
        /\ timeline' = Append(timeline, e)
        /\ UNCHANGED <<baseline, base, seen>>
        /\ MarkDirty

-----------------------------------------------------------------------------
(* The run of a request, as far as it concerns the history.                *)

\* InboxService persists the user message, claims the item and runs it.
Accept(r) ==
    /\ up /\ turn.pc = "none"
    /\ IF Known(r) THEN UNCHANGED <<memory, client, dirty, newer, snap>>
                   ELSE Log("user", r)
    /\ turn' = [pc |-> "accepted", request |-> r]
    /\ UNCHANGED <<store, flushes, flushed, roll, up, answered>>

\* run_input: a request that has been run is not run again.
Refuse ==
    /\ turn.pc = "accepted"
    /\ RequestState(turn.request) # "none"
    /\ turn' = NoTurn
    /\ UNCHANGED <<store, memory, pending, roll, up, client, answered>>

Start ==
    /\ turn.pc = "accepted"
    /\ RequestState(turn.request) = "none"
    /\ Log("start", turn.request)
    /\ turn' = [turn EXCEPT !.pc = "started"]
    /\ UNCHANGED <<store, flushes, flushed, roll, up, answered>>

\* turn/end, then flush_log: the turn returns when its flush does.
End(outcome) ==
    /\ turn.pc = "started"
    /\ Log(outcome, turn.request)
    /\ flushes' = flushes \cup {<<"turn", Seq_ + 1>>}
    /\ turn' = [turn EXCEPT !.pc = "ending"]
    /\ UNCHANGED <<store, flushed, roll, up, answered>>

\* A flush that failed is only logged.
Returns ==
    /\ turn.pc = "ending"
    /\ \E result \in {"done", "failed"} :
          /\ <<"turn", result>> \in flushed
          /\ flushed' = flushed \ {<<"turn", result>>}
    /\ turn' = NoTurn
    /\ UNCHANGED <<store, memory, dirty, newer, snap, flushes, roll, up, client,
                   answered>>

-----------------------------------------------------------------------------
(* The task of SnapshotCoordinator.                                        *)

\* The top of the loop: the generation is read, and the window opens.
SnapTop ==
    /\ snap.pc = "top"
    /\ newer' = FALSE
    /\ snap' = [snap EXCEPT !.pc = "sleeping"]
    /\ UNCHANGED <<store, memory, dirty, flushes, flushed, turn, roll, up,
                   client, answered>>

\* Mutation: the baseline is forgotten.
SnapCapturesTail ==
    /\ snap.pc = "sleeping"
    /\ snap' = [pc |-> "captured", seq |-> Seq_, messages |-> Derived(live),
                index |-> Captured(live, Derived(live))]
    /\ UNCHANGED <<store, memory, dirty, newer, flushes, flushed, turn, roll, up,
                   client, answered>>

\* _write_snapshot captures events, messages and number together.
SnapCaptures ==
    /\ snap.pc = "sleeping"
    /\ LET messages == Merged(baseline, live)
       IN  snap' = [pc |-> "captured", seq |-> Seq_, messages |-> messages,
                    index |-> Captured(live, messages)]
    /\ UNCHANGED <<store, memory, dirty, newer, flushes, flushed, turn, roll, up,
                   client, answered>>

\* Mutation: the number is read when the file is written.
SnapLocksRenumbers ==
    /\ snap.pc = "captured" /\ lock = "free"
    /\ lock' = "snapshot"
    /\ snap' = [snap EXCEPT !.pc = "writing", !.seq = Seq_]
    /\ UNCHANGED <<file, memory, dirty, newer, flushes, flushed, turn, roll, up,
                   client, answered>>

SnapLocks ==
    /\ snap.pc = "captured" /\ lock = "free"
    /\ lock' = "snapshot"
    /\ snap' = [snap EXCEPT !.pc = "writing"]
    /\ UNCHANGED <<file, memory, dirty, newer, flushes, flushed, turn, roll, up,
                   client, answered>>

\* Mutation: news ends the loop without an answer to the waiters.
RoundSilent ==
    /\ snap' = NoSnap
    /\ dirty' = FALSE
    /\ UNCHANGED <<flushes, flushed>>

\* Mutation: the waiters are resolved by whatever snapshot ends.
RoundHasty ==
    /\ snap' = IF newer THEN [NoSnap EXCEPT !.pc = "top"] ELSE NoSnap
    /\ dirty' = newer
    /\ flushes' = {}
    /\ flushed' = flushed \cup {<<f[1], "done">> : f \in flushes}

\* What the loop does after a snapshot: go on if there is news, otherwise
\* resolve the waiters and end.
Round ==
    IF newer
      THEN /\ snap' = [NoSnap EXCEPT !.pc = "top"]
           /\ UNCHANGED <<dirty, flushes, flushed>>
      ELSE /\ snap' = NoSnap
           /\ dirty' = FALSE
           /\ flushes' = {}
           /\ flushed' = flushed \cup {<<f[1], "done">> : f \in flushes}

\* A file that covers a higher number is not overwritten.
SnapWritten ==
    /\ snap.pc = "writing"
    /\ IF file.seq > snap.seq
         THEN UNCHANGED <<file, answered>>
         ELSE LET index == Updated(file.index, snap.index)
              IN  /\ file' = [seq |-> snap.seq, messages |-> snap.messages,
                              index |-> index]
                  /\ answered' = answered \cup
                        {r \in Requests : index[r] = "completed"}
    /\ lock' = "free"
    /\ Round
    /\ UNCHANGED <<memory, newer, turn, roll, up, client>>

\* The waiters get the exception; "dirty" stays, and the loop tries again.
SnapFails ==
    /\ MayFail
    /\ snap.pc = "writing"
    /\ lock' = "free"
    /\ snap' = [NoSnap EXCEPT !.pc = "top"]
    /\ flushes' = {}
    /\ flushed' = flushed \cup {<<f[1], "failed">> : f \in flushes}
    /\ UNCHANGED <<file, memory, dirty, newer, turn, roll, up, client, answered>>

-----------------------------------------------------------------------------
(* rollback_session.  The route asks once whether the Session is busy.     *)

Rollback(target) ==
    /\ MayRollback /\ up
    /\ roll.pc = "none" /\ turn.pc = "none"
    /\ target \in Elements(Merged(baseline, live))
    /\ roll' = [NoRoll EXCEPT !.pc = "flushing", !.target = target]
    /\ MarkDirty
    /\ flushes' = flushes \cup {<<"rollback", Seq_>>}
    /\ UNCHANGED <<store, memory, flushed, turn, up, client, answered>>

\* It gives up if the flush failed or events have been added since.
RollbackGivesUp ==
    /\ roll.pc = "flushing"
    /\ \/ /\ <<"rollback", "failed">> \in flushed
          /\ flushed' = flushed \ {<<"rollback", "failed">>}
       \/ /\ <<"rollback", "done">> \in flushed
          /\ lock = "free"
          /\ file.seq < Seq_
          /\ flushed' = flushed \ {<<"rollback", "done">>}
    /\ roll' = NoRoll
    /\ UNCHANGED <<store, memory, dirty, newer, snap, flushes, turn, up, client,
                   answered>>

RollbackLocks ==
    /\ roll.pc = "flushing"
    /\ <<"rollback", "done">> \in flushed
    /\ flushed' = flushed \ {<<"rollback", "done">>}
    /\ lock = "free" /\ file.seq >= Seq_
    /\ lock' = "rollback"
    /\ LET messages == Merged(baseline, live)
           cut == CHOOSE i \in DOMAIN messages : messages[i] = roll.target
       IN  roll' = [roll EXCEPT !.pc = "writing", !.seq = file.seq,
                                !.kept = SubSeq(messages, 1, cut - 1)]
    /\ UNCHANGED <<file, memory, dirty, newer, snap, flushes, turn, up, client,
                   answered>>

\* Mutation: the numbers begin again with the messages that are kept.
KeptSeqRenumbered == Len(roll.kept) - 1

\* The number the file has after a rollback: that of the flush before it.
KeptSeq == roll.seq

\* The file is written, and then the memory is switched: the live events are
\* dropped, and the numbers go on from the file.
RollbackCommits ==
    /\ roll.pc = "writing"
    /\ file' = [seq |-> KeptSeq, messages |-> roll.kept,
                index |-> [r \in Requests |->
                    IF r \in Elements(roll.kept) THEN file.index[r] ELSE "none"]]
    /\ lock' = "free"
    /\ baseline' = roll.kept /\ live' = << >> /\ base' = KeptSeq + 1
    /\ timeline' = Upto(timeline, KeptSeq)
    /\ answered' = answered \cap Elements(roll.kept)
    /\ roll' = NoRoll
    /\ UNCHANGED <<pending, turn, up, seen>>

RollbackFails ==
    /\ MayFail
    /\ roll.pc = "writing"
    /\ lock' = "free"
    /\ roll' = NoRoll
    /\ UNCHANGED <<file, memory, pending, turn, up, client, answered>>

-----------------------------------------------------------------------------
(* A client that comes back with the number of its last event.             *)

\* Mutation: off by one.
TailFrom(after) == SubSeq(live, IF after < base THEN 1 ELSE after - base + 1,
                          Len(live))

\* SessionLog.tail.  Its limit, after which a client asks again for the rest, is
\* in WebSocketWire; no behaviour here has as many events.
Tail_(after) == SubSeq(live, IF after < base THEN 1 ELSE after - base + 2,
                       Len(live))

\* events_after: older than the file, or ahead of the Session, the client has
\* to fetch the messages again.
Attach ==
    /\ MayAttach /\ up
    /\ LET after == Len(seen) - 1
       IN  seen' = IF after < file.seq \/ after > Seq_
                     THEN timeline ELSE seen \o Tail_(after)
    /\ UNCHANGED <<store, memory, pending, turn, roll, up, timeline, answered>>

-----------------------------------------------------------------------------
(* The process.  log() loads the baseline and numbers on from the file.    *)

Crash ==
    /\ MayCrash /\ up
    /\ up' = FALSE
    /\ baseline' = file.messages /\ base' = file.seq + 1 /\ live' = << >>
    /\ dirty' = FALSE /\ newer' = FALSE /\ snap' = NoSnap
    /\ flushes' = {} /\ flushed' = {}
    /\ lock' = "free"
    /\ turn' = NoTurn /\ roll' = NoRoll
    /\ timeline' = Upto(timeline, file.seq)
    /\ UNCHANGED <<file, seen, answered>>

Restart ==
    /\ ~up
    /\ up' = TRUE
    /\ UNCHANGED <<store, memory, pending, turn, roll, client, answered>>

-----------------------------------------------------------------------------
SnapStep ==
    \/ SnapTop
    \/ SnapCaptures
    \/ SnapLocks
    \/ SnapWritten
    \/ SnapFails

RollbackStep ==
    \/ RollbackGivesUp
    \/ RollbackLocks
    \/ RollbackCommits
    \/ RollbackFails

Next ==
    \/ \E r \in Requests : Accept(r) \/ Rollback(r)
    \/ Refuse
    \/ Start
    \/ \E outcome \in Outcomes : End(outcome)
    \/ Returns
    \/ SnapStep
    \/ RollbackStep
    \/ Attach
    \/ Crash
    \/ Restart

\* The loop runs the tasks it has; a write that may fail does not always.
Fairness ==
    /\ WF_vars(SnapTop \/ SnapCaptures \/ SnapLocks)
    /\ SF_vars(SnapWritten)
    /\ WF_vars(RollbackStep)
    /\ WF_vars(Returns)

Spec == Init /\ [][Next]_vars
FairSpec == Spec /\ Fairness

-----------------------------------------------------------------------------
(* What is promised.                                                       *)

\* "seq": the snapshot covers the events up to its number, no more and no
\* less, so a client that goes on from it misses nothing and a restart finds
\* the messages the memory had at that number.
SnapshotMatchesItsSeq ==
    /\ base - 1 <= file.seq /\ file.seq <= Seq_
    /\ file.messages = Merged(baseline, SubSeq(live, 1, file.seq - base + 1))

\* Neither a rollback nor a stale snapshot takes the number of the file back:
\* a client that was at a number of this life cannot be sent other events
\* under it.
SeqNeverGoesBack == [][file'.seq >= file.seq]_vars

\* The history a life of the Session began with, or a rollback left, stays in
\* the file, in its order and in front of what is added.
HistoryIsKept ==
    /\ Len(file.messages) >= Len(baseline)
    /\ SubSeq(file.messages, 1, Len(baseline)) = baseline

\* flush_log is a barrier: when a flush is told "done", everything that was
\* logged when it was called is in the file.
FlushIsABarrier ==
    [][\A f \in flushes :
          <<f[1], "done">> \in flushed' \ flushed => file'.seq >= f[2]]_vars

\* A request the file once listed as completed is not run again, unless the
\* user has rolled it back.
CompletedIsNotRunAgain ==
    [][Start => turn.request \notin answered]_vars

\* An attach leaves a client whose events are still part of the history with
\* the events of the Session, whether it follows the live events or fetches
\* the messages again.
ClientCatchesUp ==
    [][Attach /\ seen = Upto(timeline, Len(seen) - 1) => seen' = timeline]_vars

\* Every event reaches the file, and every flush returns.
EventsReachTheFile == dirty ~> ~dirty
FlushReturns == turn.pc = "ending" ~> turn.pc # "ending"
=============================================================================

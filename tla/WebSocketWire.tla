---------------------------- MODULE WebSocketWire ----------------------------
(***************************************************************************)
(* What connected clients are told.  Downwards: an event that was logged   *)
(* waits in the forward queue of SessionService, then in the outbound      *)
(* queue of the bus, until the one dispatcher of ChannelManager sends it   *)
(* to the sockets attached to its Session; a change of the inbox publishes *)
(* a frame with the queue as it is when it is read.  A client that         *)
(* attaches gets a baseline: the events after the ones it has, and the     *)
(* queue.  The output lock of a Session keeps baseline and frames apart.   *)
(* Upwards: a socket handles one frame at a time; a prompt waits for the   *)
(* one consumer of the inbound queue.                                      *)
(*                                                                         *)
(* An event is its seq; the queue of a Session is its revision.  The bus   *)
(* is stopped only when the server has stopped and every socket has been   *)
(* answered, so its stop is left out.                                      *)
(***************************************************************************)
EXTENDS Naturals, Sequences, FiniteSets

CONSTANTS
    Sockets,        \* WebSockets
    Sessions,
    MaxEvents,      \* bound on the events of a Session
    MaxRevisions,   \* bound on the changes of its queue
    PageLimit       \* limit of events_after (500)

Nobody == "nobody"
Manager == "manager"

VARIABLES
    logged,     \* the events of each Session
    folded,     \* how many of them are in its snapshot and no longer events
    revision,   \* of its inbox
    changed,    \* publish_snapshot calls under way
    forward,    \* SessionService._forward_queue
    outbound,   \* EventBus._outbound_queue
    sending,    \* the frame the dispatcher sends and the sockets left
    locks,      \* _session_output_locks
    connected,  \* _connections
    sockets,    \* each socket and what it is handling
    inbound,    \* EventBus._inbound_queue, the request being consumed first
    views       \* what each client knows of each Session

queues == <<forward, outbound>>
state == <<logged, folded, revision>>
vars == <<state, changed, queues, sending, locks, connected, sockets, inbound, views>>

Frame == [kind : {"event", "queue"}, session : Sessions, n : Nat]
Idle == [frame |-> [kind |-> "none"], targets |-> {}]
NoWork == [pc |-> "idle"]
\* held: its last event; current: whether it has a complete baseline; gap:
\* whether an event came after one it has not seen; queue: the revision.
View == [held : 0 .. MaxEvents, current : BOOLEAN, gap : BOOLEAN,
         queue : 0 .. MaxRevisions]
NewView == [held |-> 0, current |-> FALSE, gap |-> FALSE, queue |-> 0]

TypeOK ==
    /\ logged \in [Sessions -> 0 .. MaxEvents] /\ folded \in [Sessions -> 0 .. MaxEvents]
    /\ revision \in [Sessions -> 0 .. MaxRevisions]
    /\ changed \in [Sessions -> 0 .. MaxRevisions]
    /\ forward \in Seq(Frame) /\ outbound \in Seq(Frame)
    /\ sending = Idle \/ (sending.frame \in Frame /\ sending.targets \subseteq Sockets)
    /\ locks \in [Sessions -> Sockets \cup {Nobody, Manager}]
    /\ connected \in [Sessions -> SUBSET Sockets]
    /\ \A w \in Sockets : sockets[w].open \in BOOLEAN /\ sockets[w].known \in BOOLEAN
    /\ inbound \in Seq(Sockets)
    /\ views \in [Sockets -> [Sessions -> View]]

Init ==
    /\ logged = [s \in Sessions |-> 0] /\ folded = [s \in Sessions |-> 0]
    /\ revision = [s \in Sessions |-> 0] /\ changed = [s \in Sessions |-> 0]
    /\ forward = << >> /\ outbound = << >> /\ sending = Idle
    /\ locks = [s \in Sessions |-> Nobody]
    /\ connected = [s \in Sessions |-> {}]
    /\ sockets = [w \in Sockets |-> [open |-> FALSE, known |-> FALSE, work |-> NoWork]]
    /\ inbound = << >>
    /\ views = [w \in Sockets |-> [s \in Sessions |-> NewView]]

Work(w) == sockets[w].work
Does(w, work) == sockets' = [sockets EXCEPT ![w].work = work]
Free(w) == sockets[w].open /\ sockets[w].known /\ Work(w) = NoWork
Attached(w, s) == [connected EXCEPT ![s] = @ \cup {w}]

\* An inbox changes; its changed hook publishes the queue.  Its write succeeds
\* here: one that fails, or a claim that is cancelled, may change the queue in
\* memory and publish nothing.
Changes(s) ==
    /\ revision' = [revision EXCEPT ![s] = @ + 1]
    /\ changed' = [changed EXCEPT ![s] = @ + 1]
MayChange(s) == revision[s] < MaxRevisions

-----------------------------------------------------------------------------
(* Downwards.                                                              *)

\* _on_event enqueues as the event is logged.
Log(s) ==
    /\ logged[s] < MaxEvents
    /\ logged' = [logged EXCEPT ![s] = @ + 1]
    /\ forward' = Append(forward, [kind |-> "event", session |-> s, n |-> logged[s] + 1])
    /\ UNCHANGED <<folded, revision, changed, outbound, sending, locks, connected,
                   sockets, inbound, views>>

\* A snapshot folds the events into messages.
Fold(s) ==
    /\ folded[s] < logged[s]
    /\ folded' = [folded EXCEPT ![s] = logged[s]]
    /\ UNCHANGED <<logged, revision, changed, queues, sending, locks, connected,
                   sockets, inbound, views>>

\* _forward_loop.
Forward ==
    /\ forward # << >>
    /\ outbound' = Append(outbound, Head(forward)) /\ forward' = Tail(forward)
    /\ UNCHANGED <<state, changed, sending, locks, connected, sockets, inbound, views>>

\* The agent takes messages from the inbox.
Claim(s) ==
    /\ MayChange(s) /\ Changes(s)
    /\ UNCHANGED <<logged, folded, queues, sending, locks, connected, sockets,
                   inbound, views>>

\* publish_snapshot reads the queue and publishes what it has read.
PublishQueue(s) ==
    /\ changed[s] > 0
    /\ changed' = [changed EXCEPT ![s] = @ - 1]
    /\ outbound' = Append(outbound, [kind |-> "queue", session |-> s, n |-> revision[s]])
    /\ UNCHANGED <<state, forward, sending, locks, connected, sockets, inbound, views>>

\* _dispatch_loop and send: the targets are read under the lock.
Dispatch ==
    /\ sending = Idle /\ outbound # << >>
    /\ LET s == Head(outbound).session IN
       /\ locks[s] = Nobody
       /\ locks' = [locks EXCEPT ![s] = Manager]
       /\ sending' = [frame |-> Head(outbound), targets |-> connected[s]]
    /\ outbound' = Tail(outbound)
    /\ UNCHANGED <<state, changed, forward, connected, sockets, inbound, views>>

\* A client keeps the queue of the last frame, and an event it does not have.
Received(view, f) ==
    IF f.kind = "queue" THEN [view EXCEPT !.queue = f.n]
    ELSE IF f.n <= view.held THEN view
    ELSE [view EXCEPT !.gap = @ \/ (view.current /\ f.n > view.held + 1), !.held = f.n]

\* _send_to_targets: a socket that is gone is skipped; sending fails, and the
\* socket is closed, when the client has left without a word.
SendTo(w) ==
    LET f == sending.frame IN
    /\ sending # Idle /\ w \in sending.targets
    /\ sending' = [sending EXCEPT !.targets = @ \ {w}]
    /\ IF sockets[w].open
       THEN \/ /\ views' = [views EXCEPT ![w][f.session] = Received(@, f)]
               /\ UNCHANGED sockets
            \/ sockets' = [sockets EXCEPT ![w].open = FALSE] /\ UNCHANGED views
       ELSE UNCHANGED <<sockets, views>>
    /\ UNCHANGED <<state, changed, queues, locks, connected, inbound>>

Sent ==
    /\ sending # Idle /\ sending.targets = {}
    /\ locks' = [locks EXCEPT ![sending.frame.session] = Nobody]
    /\ sending' = Idle
    /\ UNCHANGED <<state, changed, queues, connected, sockets, inbound, views>>

-----------------------------------------------------------------------------
(* Connecting, attaching.                                                  *)

Connect(w) ==
    /\ ~sockets[w].open /\ ~sockets[w].known
    /\ sockets' = [sockets EXCEPT ![w].open = TRUE, ![w].known = TRUE]
    /\ views' = [views EXCEPT ![w] = [s \in Sessions |-> [@[s] EXCEPT !.current = FALSE]]]
    /\ UNCHANGED <<state, changed, queues, sending, locks, connected, inbound>>

Disconnect(w) ==
    /\ sockets[w].open
    /\ sockets' = [sockets EXCEPT ![w].open = FALSE]
    /\ UNCHANGED <<state, changed, queues, sending, locks, connected, inbound, views>>

\* The endpoint notices between two frames: _detach_all.
DetachAll(w) ==
    /\ ~sockets[w].open /\ sockets[w].known /\ Work(w) = NoWork
    /\ sockets' = [sockets EXCEPT ![w].known = FALSE]
    /\ connected' = [s \in Sessions |-> connected[s] \ {w}]
    /\ UNCHANGED <<state, changed, queues, sending, locks, inbound, views>>

\* The client sends the seq it has.
Attach(w, s) ==
    /\ Free(w)
    /\ Does(w, [pc |-> "attach", session |-> s, after |-> views[w][s].held])
    /\ UNCHANGED <<state, changed, queues, sending, locks, connected, inbound, views>>

\* Mutation: the socket is attached without the lock.
AttachUnlocked(w) ==
    LET s == Work(w).session IN
    /\ Work(w).pc = "attach"
    /\ connected' = Attached(w, s)
    /\ Does(w, [Work(w) EXCEPT !.pc = "baseline"])
    /\ UNCHANGED <<state, changed, queues, sending, locks, inbound, views>>
AttachLocked(w) ==
    LET s == Work(w).session IN
    /\ Work(w).pc = "attach" /\ locks[s] = Nobody
    /\ locks' = [locks EXCEPT ![s] = w]
    /\ connected' = Attached(w, s)
    /\ Does(w, [Work(w) EXCEPT !.pc = "baseline"])
    /\ UNCHANGED <<state, changed, queues, sending, inbound, views>>

\* events_after: nothing for a client behind the snapshot or ahead of the
\* Session, which has to load the messages anew; at most a page.
Baseline(w) ==
    LET s == Work(w).session
        after == Work(w).after
        resync == after < folded[s] \/ after > logged[s]
        more == logged[s] - after > PageLimit IN
    /\ Work(w).pc = "baseline"
    /\ Does(w, [pc |-> "queue", session |-> s,
                upto |-> IF resync THEN after
                         ELSE IF more THEN after + PageLimit ELSE logged[s],
                current |-> ~resync /\ ~more, resync |-> resync])
    /\ UNCHANGED <<state, changed, queues, sending, locks, connected, inbound, views>>

\* The read raises: the client is told that there is nothing after what it has,
\* and cannot tell that this is no baseline.
BaselineFails(w) ==
    /\ Work(w).pc = "baseline"
    /\ Does(w, [pc |-> "queue", session |-> Work(w).session, upto |-> Work(w).after,
                current |-> FALSE, resync |-> FALSE])
    /\ UNCHANGED <<state, changed, queues, sending, locks, connected, inbound, views>>

BaselineQueue(w) ==
    /\ Work(w).pc = "queue"
    /\ Does(w, [pc |-> "subscribed", session |-> Work(w).session, upto |-> Work(w).upto,
                current |-> Work(w).current, resync |-> Work(w).resync,
                queue |-> revision[Work(w).session]])
    /\ UNCHANGED <<state, changed, queues, sending, locks, connected, inbound, views>>

\* _send_baseline: two frames.  A client told to resync loads the messages by
\* HTTP before it attaches again.
Subscribed(w) ==
    LET s == Work(w).session IN
    /\ Work(w).pc = "subscribed"
    /\ Does(w, [pc |-> "last", session |-> s, queue |-> Work(w).queue])
    /\ views' = IF ~sockets[w].open THEN views
                ELSE [views EXCEPT ![w][s].current = Work(w).current,
                         ![w][s].held = IF Work(w).resync THEN folded[s] ELSE Work(w).upto,
                         ![w][s].gap = FALSE]
    /\ UNCHANGED <<state, changed, queues, sending, locks, connected, inbound>>

\* The queue frame ends the baseline; so does an error of sending, when the
\* client has left.
Based(w) ==
    LET s == Work(w).session IN
    /\ Work(w).pc = "last" \/ (~sockets[w].open /\ Work(w).pc \in {"baseline", "queue", "subscribed"})
    /\ Does(w, NoWork)
    /\ locks' = [locks EXCEPT ![s] = IF @ = w THEN Nobody ELSE @]
    /\ views' = IF sockets[w].open
                THEN [views EXCEPT ![w][s].queue = Work(w).queue] ELSE views
    /\ UNCHANGED <<state, changed, queues, sending, connected, inbound>>

Detach(w, s) ==
    /\ Free(w) /\ w \in connected[s]
    /\ connected' = [connected EXCEPT ![s] = @ \ {w}]
    /\ views' = [views EXCEPT ![w][s].current = FALSE]
    /\ UNCHANGED <<state, changed, queues, sending, locks, sockets, inbound>>

-----------------------------------------------------------------------------
(* Upwards.                                                                *)

\* request_inbound.
Ask(w, s, pc) ==
    /\ Does(w, [pc |-> pc, session |-> s])
    /\ inbound' = Append(inbound, w)

\* _on_prompt, _on_cancel: a malformed frame is answered at once; any other
\* attaches the socket, with no baseline, and asks the bus.
Prompt(w, s) ==
    /\ Free(w) /\ MayChange(s)
    /\ connected' = Attached(w, s) /\ Ask(w, s, "asked")
    /\ UNCHANGED <<state, changed, queues, sending, locks, views>>
Cancel(w, s) ==
    /\ Free(w)
    /\ connected' = Attached(w, s) /\ Ask(w, s, "cancelling")
    /\ UNCHANGED <<state, changed, queues, sending, locks, views>>

\* resolve_inbound, reject_inbound.
Settles(w, work) == Does(w, work)

\* _consume_inbound: the route hook admits the message, refuses it or raises.
Consume ==
    /\ inbound # << >>
    /\ LET w == Head(inbound) IN
       \/ \E s \in Sessions :
             /\ Work(w) = [pc |-> "asked", session |-> s] /\ MayChange(s) /\ Changes(s)
             /\ Settles(w, [pc |-> "admitted", session |-> s])
       \/ Settles(w, NoWork) /\ UNCHANGED <<revision, changed>>
    /\ inbound' = Tail(inbound)
    /\ UNCHANGED <<logged, folded, queues, sending, locks, connected, views>>

\* _send_snapshot_rpc: the answer holds the queue as it is now.
Reply(w) ==
    LET s == Work(w).session IN
    /\ Work(w).pc = "admitted"
    /\ Does(w, NoWork)
    /\ views' = IF sockets[w].open THEN [views EXCEPT ![w][s].queue = revision[s]] ELSE views
    /\ UNCHANGED <<state, changed, queues, sending, locks, connected, inbound>>

\* handle_control: edit, remove or steer, answered with the queue.
Control(w, s) ==
    /\ Free(w)
    /\ \/ MayChange(s) /\ Changes(s) /\ Does(w, [pc |-> "admitted", session |-> s])
       \/ UNCHANGED <<revision, changed, sockets>>
    /\ UNCHANGED <<logged, folded, queues, sending, locks, connected, inbound, views>>

Next ==
    \/ Forward \/ Dispatch \/ Sent \/ Consume
    \/ \E s \in Sessions : Log(s) \/ Fold(s) \/ Claim(s) \/ PublishQueue(s)
    \/ \E w \in Sockets :
          \/ SendTo(w) \/ Connect(w) \/ Disconnect(w) \/ DetachAll(w)
          \/ AttachLocked(w) \/ Baseline(w) \/ BaselineFails(w) \/ BaselineQueue(w)
          \/ Subscribed(w) \/ Based(w) \/ Reply(w)
          \/ \E s \in Sessions : Attach(w, s) \/ Detach(w, s) \/ Prompt(w, s)
                                 \/ Cancel(w, s) \/ Control(w, s)
Spec == Init /\ [][Next]_vars

-----------------------------------------------------------------------------
(* Properties.                                                             *)

Delivered(s) == changed[s] = 0 /\ sending = Idle
                /\ \A q \in {forward, outbound} :
                      \A i \in DOMAIN q : q[i].session # s

\* A client with a complete baseline, read without an error, sees every later
\* event, each after the one before it, and once everything is delivered it has
\* them all and the newest queue: however attaching, prompting, logging and the
\* three queues interleave.
NothingIsMissed ==
    \A w \in Sockets : \A s \in Sessions :
        sockets[w].open /\ w \in connected[s] /\ views[w][s].current =>
            /\ ~views[w][s].gap
            /\ Delivered(s) /\ Work(w) = NoWork =>
                  views[w][s].held = logged[s] /\ views[w][s].queue = revision[s]
=============================================================================

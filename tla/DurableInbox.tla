---------------------------- MODULE DurableInbox ----------------------------
(***************************************************************************)
(* What ftre-inbox promises of the pending inputs of one Session, without  *)
(* memory, file, lock or thread: a set of items that each operation        *)
(* changes in one step and that a crash of the Gateway does not touch.     *)
(*                                                                         *)
(* The order of a queue is the order of the sequences of its items, so a   *)
(* set of items is enough.                                                 *)
(***************************************************************************)
EXTENDS Integers, FiniteSets

CONSTANT Requests

Targets == {"next_turn", "next_step"}

Entry == [request_id : Requests, sequence : Nat \ {0}, edited : BOOLEAN,
          target : Targets]
Admission == [request_id : Requests, sequence : Nat \ {0}]

VARIABLES
    box,            \* the pending items
    next_sequence,
    owed,           \* admissions the client was told are accepted
    taken,          \* what a claim has removed and not handed over yet
    delivered       \* what claims have handed over

vars == <<box, next_sequence, owed, taken, delivered>>

Named(entries) ==
    {[request_id |-> e.request_id, sequence |-> e.sequence] : e \in entries}

Init ==
    /\ box = {} /\ next_sequence = 1
    /\ owed = {} /\ taken = {} /\ delivered = {}

Admit(r, t) ==
    /\ \A e \in box : e.request_id # r
    /\ box' = box \cup {[request_id |-> r, sequence |-> next_sequence,
                         edited |-> FALSE, target |-> t]}
    /\ next_sequence' = next_sequence + 1
    /\ UNCHANGED <<owed, taken, delivered>>

\* Only what is pending is acknowledged.
Acknowledge(entries) ==
    /\ entries \subseteq box
    /\ owed' = owed \cup Named(entries)
    /\ UNCHANGED <<box, next_sequence, taken, delivered>>

\* A claim or a removal is under way: it may still be undone by a crash.
Release(admissions) ==
    /\ owed' = owed \ admissions
    /\ UNCHANGED <<box, next_sequence, taken, delivered>>

\* Only what has been released leaves the box, and it leaves it for good.
Take(entries) ==
    /\ entries \subseteq box /\ Named(entries) \cap owed = {}
    /\ box' = box \ entries
    /\ taken' \in {{}, Named(entries)}
    /\ UNCHANGED <<next_sequence, owed, delivered>>

HandOver ==
    /\ delivered' = delivered \cup taken
    /\ taken' = {}
    /\ UNCHANGED <<box, next_sequence, owed>>

\* The Gateway stops between the removal and the hand-over: at most once.
LoseTaken ==
    /\ taken' = {}
    /\ UNCHANGED <<box, next_sequence, owed, delivered>>

Change(e, f) ==
    /\ e \in box /\ f \in Entry
    /\ f.request_id = e.request_id /\ f.sequence = e.sequence
    /\ \/ f = [e EXCEPT !.edited = TRUE]
       \/ e.target = "next_turn" /\ f = [e EXCEPT !.target = "next_step"]
    /\ box' = (box \ {e}) \cup {f}
    /\ UNCHANGED <<next_sequence, owed, taken, delivered>>

\* The Session is deleted.
Dispose ==
    /\ owed' = {} /\ delivered' = {}
    /\ UNCHANGED <<box, next_sequence, taken>>

Clear ==
    /\ owed = {}
    /\ box' = {} /\ next_sequence' = 1 /\ taken' = {}
    /\ UNCHANGED <<owed, delivered>>

Next ==
    \/ \E r \in Requests, t \in Targets : Admit(r, t)
    \/ \E entries \in SUBSET box : Acknowledge(entries) \/ Take(entries)
    \/ \E admissions \in SUBSET owed : Release(admissions)
    \/ HandOver
    \/ LoseTaken
    \/ \E e \in box : \/ Change(e, [e EXCEPT !.edited = TRUE])
                      \/ Change(e, [e EXCEPT !.target = "next_step"])
    \/ Dispose
    \/ Clear

Spec == Init /\ [][Next]_vars
=============================================================================

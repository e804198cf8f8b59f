--------------------------- MODULE PendingQueues ---------------------------
(***************************************************************************)
(* The pure part of ftre-inbox: what an Inbox of one Session holds and     *)
(* what each operation of the repository computes from it.                 *)
(*                                                                         *)
(* An Inbox is two lists of items: next_turn, each of which opens a turn   *)
(* of its own, and next_step, which the running turn takes in before its   *)
(* next reasoning step.  Every item carries the request id of the client   *)
(* and the sequence number of its admission.  The text, the attachments    *)
(* and the source of an item are abstracted to one bit, "edited": whether  *)
(* the client replaced its content.  The revision counter is left out:     *)
(* no operation reads it.                                                  *)
(***************************************************************************)
EXTENDS Integers, Sequences, FiniteSets

CONSTANT Requests    \* the request ids clients use

Item == [request_id : Requests, sequence : Nat \ {0}, edited : BOOLEAN]

Inbox == [next_turn : Seq(Item), next_step : Seq(Item),
          next_sequence : Nat \ {0}]

Targets == {"next_turn", "next_step"}

\* _MutableInbox(session_id) with its defaults.
EmptyInbox == [next_turn |-> << >>, next_step |-> << >>, next_sequence |-> 1]

-----------------------------------------------------------------------------
(* Reading.                                                                *)

Contents(q) == {q[i] : i \in DOMAIN q}

Pending(box) == Contents(box.next_turn) \cup Contents(box.next_step)

Ids(items) == {item.request_id : item \in items}

Size(box) == Len(box.next_turn) + Len(box.next_step)

ItemOf(box, r) == CHOOSE item \in Pending(box) : item.request_id = r

-----------------------------------------------------------------------------
(* validate(): ids and sequences are unique over both queues, and each     *)
(* queue is in the order of the sequences.                                 *)

InOrder(q) == \A i, j \in DOMAIN q : i < j => q[i].sequence <= q[j].sequence

Validate(box) ==
    LET all == box.next_turn \o box.next_step
    IN  /\ \A i, j \in DOMAIN all :
              i # j => /\ all[i].request_id # all[j].request_id
                       /\ all[i].sequence # all[j].sequence
        /\ InOrder(box.next_turn)
        /\ InOrder(box.next_step)

\* ... and the next admission has a sequence of its own.
WellFormed(box) ==
    /\ Validate(box)
    /\ \A item \in Pending(box) : item.sequence < box.next_sequence

-----------------------------------------------------------------------------
(* Mutation.                                                               *)

\* The position among the survivors S of the index i.
Rank(S, i) == Cardinality({j \in S : j <= i})

\* The items of q whose ids are not in ids, in their order: the pops of
\* claim and remove.
Kept(q, ids) ==
    LET S == {i \in DOMAIN q : q[i].request_id \notin ids}
    IN  [k \in 1 .. Cardinality(S) |->
            q[CHOOSE i \in S : Rank(S, i) = k]]

\* Mutation: the sort is forgotten.
InsertedLast(q, item) == Append(q, item)

\* append followed by a stable sort on the sequence, q being sorted.
Inserted(q, item) ==
    LET n == Cardinality({i \in DOMAIN q : q[i].sequence < item.sequence})
    IN  SubSeq(q, 1, n) \o <<item>> \o SubSeq(q, n + 1, Len(q))

Rewritten(q, r) ==
    [i \in DOMAIN q |->
        IF q[i].request_id = r THEN [q[i] EXCEPT !.edited = TRUE] ELSE q[i]]

Admitted(box, r, target) ==
    LET item == [request_id |-> r, sequence |-> box.next_sequence,
                 edited |-> FALSE]
    IN  IF target = "next_turn"
          THEN [box EXCEPT !.next_turn = Append(@, item), !.next_sequence = @ + 1]
          ELSE [box EXCEPT !.next_step = Append(@, item), !.next_sequence = @ + 1]

Without(box, ids) ==
    [box EXCEPT !.next_turn = Kept(@, ids), !.next_step = Kept(@, ids)]

Edited(box, r) ==
    [box EXCEPT !.next_turn = Rewritten(@, r), !.next_step = Rewritten(@, r)]

\* An item that waits for a turn of its own moves to the running turn.
Promoted(box, r) ==
    [box EXCEPT !.next_turn = Kept(@, {r}),
                !.next_step = Inserted(@, ItemOf(box, r))]
=============================================================================

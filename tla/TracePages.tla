------------------------------ MODULE TracePages ------------------------------
(***************************************************************************)
(* The traces of agent runs: a tree of runs per trace, each written to     *)
(* SQLite when it starts and when it ends, purged by age in a thread, and  *)
(* listed in pages by a client that follows next_offset.  A page is read   *)
(* in three statements, each of which sees the database of its moment.     *)
(*                                                                         *)
(* Runs are numbered by their start_time; a trace is named by its root.    *)
(* What a run holds, its payload row, which lives and dies with it, the    *)
(* filter by Session and the reading of one trace are left out.            *)
(***************************************************************************)
EXTENDS Naturals, Sequences, FiniteSets

CONSTANTS
    MaxRuns,  \* bound on the runs that are started
    Limit     \* the size of a page, above 0

VARIABLES
    spans,   \* the runs that were started: their trace, whether they may still end
    db,      \* the runs that have a row in trace_runs
    purging, \* whether a purge thread is under way
    client   \* a client that pages through the list

vars == <<spans, db, purging, client>>

Ids == 1 .. MaxRuns
Span == [trace : Ids, open : BOOLEAN]
NoClient == [pc |-> "idle", offset |-> 0, total |-> 0, page |-> {},
             owed |-> {}, overtaken |-> FALSE]

TypeOK ==
    /\ Len(spans) <= MaxRuns /\ \A i \in DOMAIN spans : spans[i] \in Span
    /\ db \subseteq DOMAIN spans
    /\ purging \in BOOLEAN
    /\ client.pc \in {"idle", "counting", "selecting", "summing", "done"}
    /\ client.offset \in Nat /\ client.total \in Nat
    /\ client.page \subseteq Ids /\ client.owed \subseteq Ids
    /\ client.overtaken \in BOOLEAN

\* The exporter purging once as it is made; the schema is there.
Init ==
    /\ spans = << >> /\ db = {}
    /\ purging = TRUE /\ client = NoClient

Roots == {i \in db : spans[i].trace = i}
\* ORDER BY start_time DESC: the rows that come before the one of a run.
Ahead(i) == Cardinality({j \in Roots : j > i})

\* _upsert_run in a transaction of its own; an error is logged and forgotten.
Upsert(i) ==
    \/ /\ db' = db \cup {i}
       /\ client' = [client EXCEPT !.overtaken = @ \/ /\ client.pc = "selecting"
                                                      /\ spans'[i].trace = i /\ i \notin db]
    \/ UNCHANGED <<db, client>>

-----------------------------------------------------------------------------
(* Tracer and SQLiteTraceExporter, on the event loop.                      *)

\* start_run and child: a purge may be due before the row is written.
Start ==
    LET i == Len(spans) + 1 IN
    /\ Len(spans) < MaxRuns
    /\ \E trace \in {i} \cup {j \in DOMAIN spans : spans[j].trace = j /\ spans[j].open} :
          spans' = Append(spans, [trace |-> trace, open |-> TRUE])
    /\ purging' \in {purging, TRUE}
    /\ Upsert(i)

\* end: once for each run.
End(i) ==
    /\ spans[i].open /\ spans' = [spans EXCEPT ![i].open = FALSE]
    /\ Upsert(i)
    /\ UNCHANGED purging

\* A crash, and the next start of the gateway: what was running never ends.
Crash ==
    /\ spans' = [i \in DOMAIN spans |-> [spans[i] EXCEPT !.open = FALSE]]
    /\ purging' = TRUE /\ client' = NoClient
    /\ UNCHANGED db

\* purge_old_traces, or an error that is logged: the runs up to some start_time
\* go, whatever their trace.
Purge ==
    /\ purging /\ purging' = FALSE
    /\ \/ /\ \E cutoff \in DOMAIN spans : db' = {i \in db : i > cutoff}
          /\ client' = [client EXCEPT !.owed = @ \cap db']
       \/ UNCHANGED <<db, client>>
    /\ UNCHANGED spans

-----------------------------------------------------------------------------
(* list_trace_summaries, in a thread.                                      *)

\* The client begins; it is owed the traces that are there, and each
\* that it sees is no longer owed.
Open ==
    /\ client.pc \in {"idle", "done"}
    /\ client' = [NoClient EXCEPT !.pc = "counting", !.owed = Roots]
    /\ UNCHANGED <<spans, db, purging>>

CountRoots ==
    /\ client.pc = "counting"
    /\ client' = [client EXCEPT !.pc = "selecting", !.total = Cardinality(Roots)]
    /\ UNCHANGED <<spans, db, purging>>

PageAt(offset) == {i \in Roots : offset <= Ahead(i) /\ Ahead(i) < offset + Limit}
SelectRoots ==
    /\ client.pc = "selecting"
    /\ client' = [client EXCEPT !.pc = "summing", !.page = PageAt(client.offset)]
    /\ UNCHANGED <<spans, db, purging>>

\* Mutation: the last page is taken for gone.
HasMoreEarly(next, total) == next + 1 < total
HasMore(next, total) == next < total
\* The runs of the traces are summed up, those purged meanwhile as one run; an
\* empty page is the last.
Summarise ==
    /\ client.pc = "summing"
    /\ LET next == client.offset + Cardinality(client.page)
           owed == client.owed \ client.page IN
       client' = IF client.page # {} /\ HasMore(next, client.total)
                 THEN [NoClient EXCEPT !.pc = "counting", !.offset = next, !.owed = owed]
                 ELSE [NoClient EXCEPT !.pc = "done", !.owed = owed, !.overtaken = client.overtaken]
    /\ UNCHANGED <<spans, db, purging>>

Next ==
    \/ Start \/ Crash \/ Purge \/ Open \/ CountRoots \/ SelectRoots \/ Summarise
    \/ \E i \in DOMAIN spans : End(i)
Spec == Init /\ [][Next]_vars

-----------------------------------------------------------------------------
(* Properties.                                                             *)

\* A client that has followed next_offset to the end has seen every trace that
\* was there when it began and has not been purged, though traces are added in
\* front of its pages and taken away behind them, and purged ones come back when
\* they end.  One that was added between the count and the rows of the last page
\* makes that page believe itself to be the last; such a listing is excepted.
EveryTraceIsListed ==
    client.pc = "done" /\ ~client.overtaken => client.owed = {}
=============================================================================

------------------------------ MODULE FileEdits ------------------------------
(***************************************************************************)
(* The edit and write tools on one file.  The calls of one batch run in    *)
(* threads of their own.  An edit reads, changes and writes the file under *)
(* the lock of its resolved path; a write takes no lock.  Writing empties  *)
(* the file first.                                                         *)
(*                                                                         *)
(* A file is a sequence of lines.  Encodings, line ends and the texts of   *)
(* the answers are left out; an edit replaces whole lines, by their text   *)
(* or by their numbers, with at most one line.                             *)
(***************************************************************************)
EXTENDS Naturals, Sequences, FiniteSets

CONSTANTS
    Lines,    \* the texts of lines
    MaxLines, \* bound on the lines of what is there at first or written
    ToolCalls \* calls of the two tools

VARIABLES
    there, \* whether the file exists
    text,  \* its lines
    lock,  \* the call that holds the lock of the file
    calls  \* the calls

vars == <<there, text, lock, calls>>

NoCall == "no call"
Idle == [pc |-> "idle", kind |-> "none", read |-> <<>>, result |-> <<>>, meanwhile |-> {}]
Texts == UNION {[1 .. n -> Lines] : n \in 0 .. MaxLines}

TypeOK ==
    /\ there \in BOOLEAN /\ text \in Texts
    /\ lock \in ToolCalls \cup {NoCall}
    /\ calls \in [ToolCalls ->
          [pc : {"idle", "waiting", "reading", "changing", "opening", "writing", "done", "failed"},
           kind : {"none", "edit", "write"}, read : Texts, result : Texts,
           meanwhile : SUBSET {"edit", "write"}]]   \* who wrote as it read or since

Init ==
    /\ there \in BOOLEAN /\ text \in IF there THEN Texts ELSE {<<>>}
    /\ lock = NoCall /\ calls = [c \in ToolCalls |-> Idle]

-----------------------------------------------------------------------------
(* What an edit makes of the lines.                                        *)

Spliced(lines, first, last, new) ==
    SubSeq(lines, 1, first - 1) \o new \o SubSeq(lines, last + 1, Len(lines))

Matches(lines, old) == {i \in DOMAIN lines : lines[i] = old}
\* _edit_by_string: the text must be there once.
ByString(lines) ==
    {Spliced(lines, i, i, new) : i \in {k \in DOMAIN lines : Matches(lines, lines[k]) = {k}},
                                 new \in {<<>>} \cup {<<l>> : l \in Lines}}
\* _edit_by_line: the last line is cut to the lines there are.
ByLine(lines) ==
    {Spliced(lines, r[1], r[2], new) :
        r \in {p \in (DOMAIN lines) \X (DOMAIN lines) : p[1] <= p[2]},
        new \in {<<>>} \cup {<<l>> : l \in Lines}}

-----------------------------------------------------------------------------
At(c, pc) == calls[c].pc = pc
Goto(c, pc) == calls' = [calls EXCEPT ![c].pc = pc]
Release(c) == lock' = IF lock = c THEN NoCall ELSE lock
\* Whoever has just emptied the file.
Writing == {calls[d].kind : d \in {e \in ToolCalls : At(e, "writing")}}

\* An edit wants the file; a write may create it.
Begin(c) ==
    /\ At(c, "idle")
    /\ \/ calls' = [calls EXCEPT ![c].kind = "edit", ![c].pc = IF there THEN "waiting" ELSE "failed"]
       \/ calls' = [calls EXCEPT ![c].kind = "write", ![c].pc = IF there THEN "reading" ELSE "changing"]
    /\ UNCHANGED <<there, text, lock>>

\* Mutation: an edit reads before it holds the lock.
EnterHastily(c) ==
    /\ At(c, "waiting")
    /\ calls' = [calls EXCEPT ![c].pc = "changing", ![c].read = text, ![c].meanwhile = Writing]
    /\ UNCHANGED <<there, text, lock>>
\* with lock
Enter(c) ==
    /\ At(c, "waiting") /\ lock = NoCall
    /\ lock' = c /\ Goto(c, "reading")
    /\ UNCHANGED <<there, text>>

\* read_text
Read(c) ==
    /\ At(c, "reading")
    /\ calls' = [calls EXCEPT ![c].pc = "changing", ![c].read = text, ![c].meanwhile = Writing]
    /\ UNCHANGED <<there, text, lock>>

\* What is to be written; an edit that does not fit, or a text that cannot be
\* encoded, is refused with the file as it is.
Change(c) ==
    /\ At(c, "changing")
    /\ \/ /\ \E new \in IF calls[c].kind = "write" THEN Texts
                        ELSE ByString(calls[c].read) \cup ByLine(calls[c].read) :
                calls' = [calls EXCEPT ![c].pc = "opening", ![c].result = new]
          /\ UNCHANGED lock
       \/ Goto(c, "failed") /\ Release(c)
    /\ UNCHANGED <<there, text>>

\* The calls that have read and not yet written.
Based == {c \in ToolCalls : calls[c].pc \in {"changing", "opening"}}
Wrote(c, pc) ==
    calls' = [d \in ToolCalls |->
        IF d = c THEN [calls[c] EXCEPT !.pc = pc]
        ELSE IF d \in Based THEN [calls[d] EXCEPT !.meanwhile = @ \cup {calls[c].kind}]
        ELSE calls[d]]

\* write_bytes: the file is opened, which empties it ...
Open(c) ==
    /\ At(c, "opening")
    /\ there' = TRUE /\ text' = <<>>
    /\ Wrote(c, "writing") /\ UNCHANGED lock
\* ... and filled, or stays empty when the disk is full.
Put(c) ==
    /\ At(c, "writing")
    /\ \/ text' = calls[c].result /\ Wrote(c, "done")
       \/ UNCHANGED text /\ Wrote(c, "failed")
    /\ Release(c) /\ UNCHANGED there

Next == \E c \in ToolCalls : Begin(c) \/ Enter(c) \/ Read(c) \/ Change(c) \/ Open(c) \/ Put(c)
Spec == Init /\ [][Next]_vars

-----------------------------------------------------------------------------
(* Properties.                                                             *)

\* An edit never writes over what another edit has written since it read, so
\* that parallel edits of a file are as good as edits one after another; and it
\* works on a whole file, never on one that another edit has just emptied.
EditsAreKept ==
    \A c \in ToolCalls :
        calls[c].kind = "edit" /\ calls[c].pc \in {"opening", "writing", "done"}
        => "edit" \notin calls[c].meanwhile
=============================================================================

----------------------------- MODULE ConfigFiles ------------------------------
(***************************************************************************)
(* ConfigService, its file ~/.ftre/config.json, which users edit too, its  *)
(* watchers, and the cache of the configuration that is built from it and  *)
(* from the default agent's file (load_config).                            *)
(*                                                                         *)
(* What the service does it does on the event loop without a pause, but    *)
(* other processes may write the files between any two of its accesses.    *)
(* A value has two entries, of which update replaces one; a content hash   *)
(* is the content; a signature or a modification time is a stamp no two    *)
(* writes share.  system_prompt.md, which a build reads too but the        *)
(* signature does not cover, and a forced load are left out.               *)
(***************************************************************************)
EXTENDS Naturals, Sequences

CONSTANTS
    Values,     \* of an entry of the configuration
    MaxStamp,   \* bound on the writes of config.json ...
    AgentStamps \* ... and of the agent's file

VARIABLES
    file,       \* config.json: content and stamp
    agent,      \* agents/default/agent.config.json
    service,    \* ConfigService
    op,         \* the operation of the service under way
    tasks,      \* revisions scheduled for the watchers
    told,       \* the revision the watchers were told of last
    cache,      \* _last_config and _last_sig
    missed,     \* whether somebody wrote config.json while the service was
                \* between its own write, or first read, and the stamp it kept
    overtaken   \* whether a commit told the watchers before a scheduled task

vars == <<file, agent, service, op, tasks, told, cache, missed, overtaken>>

Value == Values \X Values
Empty == <<>>           \* {}: no file; also the hash of what cannot be read
Bad == <<"not an object">>
Gone == 0               \* the signature of a missing file
NoOp == [pc |-> "idle", stamp |-> Gone, load |-> FALSE]

TypeOK ==
    /\ file.content \in Value \cup {Empty, Bad} /\ file.stamp \in 0 .. MaxStamp
    /\ agent.content \in Values /\ agent.stamp \in 0 .. AgentStamps
    /\ service.value \in Value \cup {Empty} /\ service.hash \in Value \cup {Empty}
    /\ service.stamp \in 0 .. MaxStamp /\ service.revision \in Nat
    /\ op \in [pc : {"closed", "opening", "idle", "reload", "readback", "sign", "stat", "build"},
               stamp : Nat, load : BOOLEAN]
    /\ told \in 0 .. service.revision /\ \A i \in DOMAIN tasks : tasks[i] \in 1 .. service.revision
    /\ missed \in BOOLEAN /\ overtaken \in BOOLEAN

Init ==
    /\ \E c \in {<<v, v>> : v \in {CHOOSE w \in Values : TRUE}} \cup {Bad} :
          file = [content |-> c, stamp |-> 1, last |-> 1]
    /\ agent = [content |-> CHOOSE v \in Values : TRUE, stamp |-> 1]
    /\ service = [value |-> Empty, hash |-> Empty, stamp |-> Gone, revision |-> 0]
    /\ op = [NoOp EXCEPT !.pc = "closed"]
    /\ tasks = <<>> /\ told = 0
    /\ cache = [sig |-> <<>>, config |-> <<>>]
    /\ missed = FALSE /\ overtaken = FALSE

-----------------------------------------------------------------------------
(* Others.                                                                 *)

Written(content) == [content |-> content, stamp |-> file.last + 1, last |-> file.last + 1]

EditsFile ==
    /\ file.last < MaxStamp
    /\ \E c \in Value \cup {Empty, Bad} :
          /\ c # file.content
          /\ file' = IF c = Empty THEN [file EXCEPT !.content = Empty, !.stamp = Gone]
                                  ELSE Written(c)
    /\ missed' = (missed \/ op.pc \in {"opening", "readback", "sign"})
    /\ UNCHANGED <<agent, service, op, tasks, told, cache, overtaken>>

\* The user, or update_agent, which replaces the file in one step.
EditsAgent ==
    /\ agent.stamp < AgentStamps
    /\ \E v \in Values \ {agent.content} : agent' = [content |-> v, stamp |-> agent.stamp + 1]
    /\ UNCHANGED <<file, service, op, tasks, told, cache, missed, overtaken>>

-----------------------------------------------------------------------------
(* ConfigService.                                                          *)

\* __init__: a file that is no object fails the plugin; the signature is taken
\* after the content.
Open ==
    /\ op.pc = "closed" /\ file.content # Bad
    /\ service' = [service EXCEPT !.value = file.content, !.hash = file.content]
    /\ op' = [op EXCEPT !.pc = "opening"]
    /\ UNCHANGED <<file, agent, tasks, told, cache, missed, overtaken>>
Opened ==
    /\ op.pc = "opening"
    /\ service' = [service EXCEPT !.stamp = file.stamp]
    /\ op' = NoOp
    /\ UNCHANGED <<file, agent, tasks, told, cache, missed, overtaken>>

\* What follows a look at the file: load_config goes on with the agent's.
After == [NoOp EXCEPT !.pc = IF op.load THEN "stat" ELSE "idle"]

\* reload_if_changed, by the watcher, by a reader or in load_config: the
\* signature; a file that is gone changes nothing.
Poll ==
    /\ op.pc = "idle"
    /\ \E load \in BOOLEAN :
          IF file.stamp \in {service.stamp, Gone}
          THEN /\ op' = [NoOp EXCEPT !.pc = IF load THEN "stat" ELSE "idle"]
               /\ service' = [service EXCEPT !.stamp = file.stamp]
          ELSE /\ op' = [pc |-> "reload", stamp |-> file.stamp, load |-> load]
               /\ UNCHANGED service
    /\ UNCHANGED <<file, agent, tasks, told, cache, missed, overtaken>>

\* The content: what is no object is skipped, what is the same is no revision.
Reload ==
    LET service1 == [service EXCEPT !.stamp = op.stamp] IN
    /\ op.pc = "reload"
    /\ IF file.content \in {Bad, service.hash}
       THEN service' = service1 /\ UNCHANGED tasks
       ELSE /\ service' = [service1 EXCEPT !.value = file.content, !.hash = file.content,
                                           !.revision = @ + 1]
            /\ tasks' = Append(tasks, service'.revision)
    /\ op' = After
    /\ UNCHANGED <<file, agent, told, cache, missed, overtaken>>

\* A scheduled task tells the watchers.
Notify ==
    /\ tasks # <<>> /\ op.pc = "idle"
    /\ told' = Head(tasks) /\ tasks' = Tail(tasks)
    /\ UNCHANGED <<file, agent, service, op, cache, missed, overtaken>>

\* update and replace, at the revision they expect, start from the value in
\* memory and replace the file in one step ...
Commit ==
    /\ op.pc = "idle" /\ file.last < MaxStamp
    /\ \E v \in Value :
          /\ \/ service.value # Empty /\ v[2] = service.value[2]    \* update
             \/ v[1] = v[2]                                         \* replace
          /\ file' = Written(v) /\ service' = [service EXCEPT !.value = v]
    /\ op' = [NoOp EXCEPT !.pc = "readback"]
    /\ UNCHANGED <<agent, tasks, told, cache, missed, overtaken>>
\* ... read it back for its hash ...
ReadBack ==
    /\ op.pc = "readback"
    /\ service' = [service EXCEPT !.hash = IF file.content = Bad THEN Empty ELSE file.content]
    /\ op' = [op EXCEPT !.pc = "sign"]
    /\ UNCHANGED <<file, agent, tasks, told, cache, missed, overtaken>>
\* ... and tell the watchers themselves.
Sign ==
    /\ op.pc = "sign"
    /\ service' = [service EXCEPT !.stamp = file.stamp, !.revision = @ + 1]
    /\ told' = service'.revision
    /\ overtaken' = (overtaken \/ tasks # <<>>)
    /\ op' = NoOp
    /\ UNCHANGED <<file, agent, tasks, cache, missed>>

-----------------------------------------------------------------------------
(* load_config.                                                            *)

\* The agent file's time is looked up before its content is.
Stat ==
    /\ op.pc = "stat"
    /\ op' = [op EXCEPT !.pc = "build", !.stamp = agent.stamp]
    /\ UNCHANGED <<file, agent, service, tasks, told, cache, missed, overtaken>>

\* Mutation: the cache goes by the service alone.
Revision(stamp) == <<service.revision, service.hash>>
Signature(stamp) == <<service.revision, service.hash, stamp>>

\* A hit leaves the cache as it is; an empty configuration is not cached.
Build ==
    /\ op.pc = "build"
    /\ cache' = IF cache.sig = Signature(op.stamp) \/ service.value = Empty THEN cache
                ELSE [sig |-> Signature(op.stamp), config |-> <<service.value, agent.content>>]
    /\ op' = NoOp
    /\ UNCHANGED <<file, agent, service, tasks, told, missed, overtaken>>

Next ==
    \/ EditsFile \/ EditsAgent
    \/ Open \/ Opened \/ Poll \/ Reload \/ Notify \/ Commit \/ ReadBack \/ Sign
    \/ Stat \/ Build
Spec == Init /\ [][Next]_vars

-----------------------------------------------------------------------------
(* Properties.                                                             *)

Idle == op.pc = "idle"

\* Between operations the service has what is in the file, or will look at the
\* file again; and a cached configuration that will be used again is the one
\* that would be built now.  Writes of others that fall into a commit of the
\* service's own, or into its start, are the exception: they are never seen.
\* The watchers are told of every revision, the newest last, unless a commit
\* overtook the task of a reload.
ConfigFollowsFile ==
    Idle =>
      /\ service.stamp = file.stamp /\ file.content \in Value /\ ~missed
         => service.value = file.content
      /\ cache.sig = Signature(agent.stamp)
         => cache.config = <<service.value, agent.content>>
      /\ tasks = <<>> /\ ~overtaken => told = service.revision
=============================================================================

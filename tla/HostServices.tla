---------------------------- MODULE HostServices -----------------------------
(***************************************************************************)
(* What the host runs beside the turns, side by side: its plugins, the     *)
(* scheduled jobs, the gateway's process, the configuration, the files of  *)
(* the skills, the traces, the teams and what connected clients are told.  *)
(* They share no state here; Components puts them beside the others and    *)
(* gives them their steps.                                                 *)
(***************************************************************************)
EXTENDS Naturals, FiniteSets

CONSTANTS
    \* HookPlugins
    Plugins, Required, MaxCalls, MaxRegistrations,
    \* ScheduledJobs
    Jobs, Editors, MaxTime, MaxRuns,
    \* GatewayProcess
    GatewayPids, GatewayCommands,
    \* ConfigFiles
    ConfigValues, MaxStamp, AgentStamps,
    \* SkillFiles
    MaxSkills, MaxSkillWrites,
    \* TracePages
    MaxTraceRuns, TracePageSize,
    \* TeamMembers
    MaxMembers, TeamCalls,
    \* WebSocketWire
    Sockets, WireSessions, MaxEvents, MaxRevisions, PageLimit

\* An identifier of a process is never what stands for none.
ASSUME PidAssumption == "none" \notin GatewayPids
\* Members and skills are numbered, and a page of traces has one at least.
ASSUME TeamAssumption == MaxMembers \in Nat
ASSUME SkillAssumption == MaxSkills \in Nat /\ MaxSkillWrites \in Nat
ASSUME TraceAssumption == TracePageSize \in Nat \ {0}

VARIABLES
    boot, fibers, tracked, regs, hookCalls,
    scheduleUp, now, jobFiles, scan, edits, jobRuns, clobbered,
    windows, gatewayProcs, gatewayFile, gatewayCmds, gatewayDisturbed,
    configFile, agentFile, configService, configOp, configTasks,
    configTold, configCache, configMissed, configOvertaken,
    skillRoot, skillOp, skillSaid, skillOutside, skillWrites,
    traceSpans, traceRows, tracePurging, traceClient,
    leader, teamExists, registered, created, memberSessions, bound,
    profiles, mail, teamCalls,
    logged, folded, revision, queueChanged, forward, outbound, sending,
    outputLocks, connected, sockets, inbound, views

hooks == <<boot, fibers, tracked, regs, hookCalls>>
schedule == <<scheduleUp, now, jobFiles, scan, edits, jobRuns, clobbered>>
gateway == <<windows, gatewayProcs, gatewayFile, gatewayCmds,
             gatewayDisturbed>>
config == <<configFile, agentFile, configService, configOp, configTasks,
            configTold, configCache, configMissed, configOvertaken>>
skillfiles == <<skillRoot, skillOp, skillSaid, skillOutside, skillWrites>>
traces == <<traceSpans, traceRows, tracePurging, traceClient>>
team == <<leader, teamExists, registered, created, memberSessions, bound,
          profiles, mail, teamCalls>>
wire == <<logged, folded, revision, queueChanged, forward, outbound, sending,
          outputLocks, connected, sockets, inbound, views>>

H == INSTANCE HookPlugins WITH calls <- hookCalls
S == INSTANCE ScheduledJobs WITH up <- scheduleUp, files <- jobFiles, runs <-
        jobRuns
G == INSTANCE GatewayProcess WITH procs <- gatewayProcs, state <- gatewayFile,
        cmds <- gatewayCmds, disturbed <- gatewayDisturbed, Pids <-
        GatewayPids, Commands <- GatewayCommands
F == INSTANCE ConfigFiles WITH file <- configFile, agent <- agentFile, service
        <- configService, op <- configOp, tasks <- configTasks, told <-
        configTold, cache <- configCache, missed <- configMissed, overtaken <-
        configOvertaken, Values <- ConfigValues
K == INSTANCE SkillFiles WITH root <- skillRoot, op <- skillOp, said <-
        skillSaid, outside <- skillOutside, writes <- skillWrites, MaxNames <-
        MaxSkills, MaxWrites <- MaxSkillWrites
J == INSTANCE TracePages WITH spans <- traceSpans, db <- traceRows, purging <-
        tracePurging, client <- traceClient, MaxRuns <- MaxTraceRuns, Limit <-
        TracePageSize
M == INSTANCE TeamMembers WITH team <- teamExists, sessions <- memberSessions,
        calls <- teamCalls, Calls <- TeamCalls
W == INSTANCE WebSocketWire WITH changed <- queueChanged, locks <-
        outputLocks, Sessions <- WireSessions
\* A socket is neither of the other holders of an output lock.
ASSUME WireAssumption == W!Nobody \notin Sockets /\ W!Manager \notin Sockets
=============================================================================

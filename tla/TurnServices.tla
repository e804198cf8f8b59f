---------------------------- MODULE TurnServices -----------------------------
(***************************************************************************)
(* What a turn of an Agent works with, side by side: its own loop, the     *)
(* requests to the model and what comes back, the compaction of what is    *)
(* said, the views of its tools, the MCP servers of its Session, the       *)
(* processes and the edits its tools make, the skills its messages refer   *)
(* to and the commands that are sent in place of a message.  They share    *)
(* no state here; Components puts them beside the others and gives them    *)
(* their steps.                                                            *)
(***************************************************************************)
EXTENDS Naturals, FiniteSets

CONSTANTS
    \* ReActTurn
    Calls, MaxIterations, MaxAttempts, EmptyRetries, MaxContinuations,
    MaxRecoveries,
    \* LlmRequests
    ToolCalls, MaxBlocks,
    \* LlmStream
    LlmAttempts, MaxTools, MaxChanges,
    \* Compaction
    CompactCallers, Precompact, Full, ChunkTokens, ChunkParallelism,
    ChunkRetries, SummaryTokens, MaxMessages, MaxCallers,
    \* ToolViews
    ToolNames,
    \* McpScopes
    Servers, McpSessions, Configs, FirstLayers, MaxEdits,
    \* ProcessRuns
    ProcessCalls,
    \* FileEdits
    EditLines, MaxEditLines, EditCallIds,
    \* SkillReferences
    References, MaxDispatches,
    \* Commands
    CommandRequests, CommandTaskIds, MaxDefinitions, MaxSuccesses

\* A task of a command is never what stands for none.
ASSUME TaskAssumption == "no task" \notin CommandTaskIds
\* A Session is never what stands for no holder of the MCP plugin's lock.
ASSUME McpAssumption == "none" \notin McpSessions

VARIABLES
    turnCalls, turnPc, turnRun, turnBatch, turnConfirm, turnRecoveries,
    turnCancel, turnOutcome, turnRemembers,
    llmContext,
    llmRoutes, llmChanges, llmStream, llmRun,
    derived, answering, compactTask, compactCallers,
    toolItems, toolRestrictions, toolView, toolCall,
    mcpSources, mcpEdits, mcpPool, mcpOffered, mcpReload, mcpScopes,
    mcpManagers, mcpUsers, mcpHolder, mcpCalls,
    processService, processRuns,
    editedThere, editedText, editLock, editCalls,
    skillUsable, skillHook, skillDispatches, skillMarks, skillHints,
    skillCut,
    commandsOpen, commandDefined, commandsRegistered, commandTasks,
    commandInflight, commandCompleted, commandResults, commandLives

turn == <<turnCalls, turnPc, turnRun, turnBatch, turnConfirm, turnRecoveries,
          turnCancel, turnOutcome, turnRemembers>>
request == <<llmContext>>
stream == <<llmRoutes, llmChanges, llmStream, llmRun>>
compaction == <<derived, answering, compactTask, compactCallers>>
tools == <<toolItems, toolRestrictions, toolView, toolCall>>
mcp == <<mcpSources, mcpEdits, mcpPool, mcpOffered, mcpReload, mcpScopes,
         mcpManagers, mcpUsers, mcpHolder, mcpCalls>>
process == <<processService, processRuns>>
fileedits == <<editedThere, editedText, editLock, editCalls>>
references == <<skillUsable, skillHook, skillDispatches, skillMarks,
                skillHints, skillCut>>
command == <<commandsOpen, commandDefined, commandsRegistered, commandTasks,
             commandInflight, commandCompleted, commandResults, commandLives>>

T == INSTANCE ReActTurn WITH calls <- turnCalls, pc <- turnPc, run <- turnRun,
        batch <- turnBatch, confirm <- turnConfirm, recoveries <-
        turnRecoveries, cancel <- turnCancel, outcome <- turnOutcome,
        remembers <- turnRemembers
R == INSTANCE LlmRequests WITH context <- llmContext
L == INSTANCE LlmStream WITH routes <- llmRoutes, changes <- llmChanges,
        stream <- llmStream, run <- llmRun, MaxAttempts <- LlmAttempts
C == INSTANCE Compaction WITH history <- derived, turn <- answering, task <-
        compactTask, callers <- compactCallers, MaxCalls <- MaxCallers,
        Callers <- CompactCallers
V == INSTANCE ToolViews WITH items <- toolItems, restrictions <-
        toolRestrictions, view <- toolView, call <- toolCall, Names <-
        ToolNames
P == INSTANCE McpScopes WITH sources <- mcpSources, edits <- mcpEdits, pool <-
        mcpPool, offered <- mcpOffered, reload <- mcpReload, scopes <-
        mcpScopes, managers <- mcpManagers, users <- mcpUsers, holder <-
        mcpHolder, calls <- mcpCalls, Sessions <- McpSessions, First <-
        FirstLayers
X == INSTANCE ProcessRuns WITH service <- processService, runs <- processRuns,
        Runs <- ProcessCalls
E == INSTANCE FileEdits WITH there <- editedThere, text <- editedText, lock <-
        editLock, calls <- editCalls, ToolCalls <- EditCallIds, Lines <-
        EditLines, MaxLines <- MaxEditLines
\* An edit is never what stands for no holder of a file's lock.
ASSUME EditAssumption == E!NoCall \notin EditCallIds
I == INSTANCE SkillReferences WITH usable <- skillUsable, hook <- skillHook,
        dispatches <- skillDispatches, marks <- skillMarks, hints <-
        skillHints, cut <- skillCut
Q == INSTANCE Commands WITH open <- commandsOpen, defined <- commandDefined,
        registered <- commandsRegistered, tasks <- commandTasks, inflight <-
        commandInflight, completed <- commandCompleted, results <-
        commandResults, lives <- commandLives, Requests <- CommandRequests,
        Tasks <- CommandTaskIds
=============================================================================

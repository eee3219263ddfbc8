------------------------------- MODULE Subagents -------------------------------
(* One restricted subagent: a loop of model calls with a budget, the tool calls    *)
(* an answer asks for, the checks of the restricted tool registry in front of each, *)
(* and an interruption by the parent's thread at any moment.                        *)
EXTENDS Naturals, Sequences

CONSTANTS
    AllowedFiles,  \* allowed_files of the context
    OtherFiles,    \* the rest of the file system
    MaxLlmCalls,   \* max_llm_calls
    MaxToolCalls   \* bound on the tool calls one answer asks for

\* The budget and the bound are counts.
ASSUME SubagentsAssumption == MaxLlmCalls \in Nat /\ MaxToolCalls \in Nat

VARIABLES
    role,
    agent,         \* place of run(): the loop, a tool call, or the result it returned
    llm_call_count,
    tool_calls,    \* the calls of the last answer that are still to be executed
    interrupted,
    late           \* tools that started after the interruption

agentVars == <<role, agent, llm_call_count, tool_calls, interrupted, late>>

Roles == {"implementer", "reviewer"}
RoleTools(r) == IF r = "implementer" THEN {"file_read", "file_write", "execute_command"}
                ELSE {"file_read"}
Tools == {"file_read", "file_write", "execute_command", "other"}
FileTools == {"file_read", "file_write"}
NoFile == "none"
ToolCall == [tool : Tools, file : AllowedFiles \cup OtherFiles \cup {NoFile}]
Results == {"completed", "approved", "rejected", "failed", "timeout"}

SubagentInit ==
    /\ role \in Roles
    /\ agent = "loop"
    /\ llm_call_count = 0
    /\ tool_calls = <<>>
    /\ interrupted = FALSE
    /\ late = 0

\* The parent sets the flag of the context.
Interrupt ==
    /\ ~interrupted
    /\ interrupted' = TRUE
    /\ UNCHANGED <<role, agent, llm_call_count, tool_calls, late>>

Finish(result) ==
    /\ agent' = result
    /\ UNCHANGED <<role, tool_calls, interrupted, late>>

StopLoop ==
    /\ agent = "loop"
    /\ \/ llm_call_count < MaxLlmCalls /\ interrupted /\ Finish("failed")
       \/ llm_call_count = MaxLlmCalls /\ Finish("timeout")
    /\ UNCHANGED llm_call_count

CallModel ==
    /\ agent = "loop"
    /\ llm_call_count < MaxLlmCalls
    /\ ~interrupted
    /\ llm_call_count' = llm_call_count + 1
    /\ agent' = "route"
    /\ UNCHANGED <<role, tool_calls, interrupted, late>>

RouteFails ==
    /\ agent = "route"
    /\ Finish("failed")
    /\ UNCHANGED llm_call_count

\* An answer without tool calls ends the run.  A reviewer's must parse as a verdict:
\* what does not parse is a rejection.
FinalAnswer ==
    /\ agent = "route"
    /\ \/ interrupted /\ Finish("failed")
       \/ ~interrupted /\ role = "implementer" /\ Finish("completed")
       \/ ~interrupted /\ role = "reviewer" /\ \E v \in {"approved", "rejected"} : Finish(v)
    /\ UNCHANGED llm_call_count

AskTools ==
    /\ agent = "route"
    /\ \E n \in 1..MaxToolCalls : tool_calls' \in [1..n -> ToolCall]
    /\ agent' = "tools"
    /\ UNCHANGED <<role, llm_call_count, interrupted, late>>

NextTool ==
    /\ tool_calls' = Tail(tool_calls)
    /\ agent' = IF Len(tool_calls) = 1 THEN "loop" ELSE "tools"

\* Mutant: only the loop looks at it.
StopsNoTool == FALSE

\* _execute_tool_call looks at the flag before each tool.
StopsTool == interrupted

Permitted(d) ==
    /\ d.tool \in RoleTools(role)
    /\ d.tool \in FileTools => d.file \in AllowedFiles

RefuseTool ==
    /\ agent = "tools"
    /\ StopsTool \/ ~Permitted(Head(tool_calls))
    /\ NextTool
    /\ UNCHANGED <<role, llm_call_count, interrupted, late>>

\* A command waits for the gateway's answer; the other tools run at once.
AdmitTool ==
    /\ agent = "tools"
    /\ ~StopsTool
    /\ Permitted(Head(tool_calls))
    /\ agent' = IF Head(tool_calls).tool = "execute_command" THEN "consent" ELSE "invoke"
    /\ UNCHANGED <<role, llm_call_count, tool_calls, interrupted, late>>

Decide ==
    /\ agent = "consent"
    /\ \/ /\ agent' = "invoke"
          /\ UNCHANGED tool_calls
       \/ NextTool
    /\ UNCHANGED <<role, llm_call_count, interrupted, late>>

InvokeTool ==
    /\ agent = "invoke"
    /\ late' = IF interrupted THEN late + 1 ELSE late
    /\ NextTool
    /\ UNCHANGED <<role, llm_call_count, interrupted>>

SubagentNext ==
    \/ Interrupt \/ StopLoop \/ CallModel \/ RouteFails \/ FinalAnswer \/ AskTools
    \/ RefuseTool \/ AdmitTool \/ Decide \/ InvokeTool

SubagentSpec == SubagentInit /\ [][SubagentNext]_agentVars

SubagentTypeOK ==
    /\ role \in Roles
    /\ agent \in {"loop", "route", "tools", "consent", "invoke"} \cup Results
    /\ llm_call_count \in 0..MaxLlmCalls
    /\ tool_calls \in Seq(ToolCall)
    /\ interrupted \in BOOLEAN

\* After the parent interrupts, at most the one tool that was already admitted still
\* runs, however many the answer asked for and however long consent took.
InterruptStopsTools == late <= 1
=============================================================================

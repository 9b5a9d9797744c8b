------------------------------ MODULE ToolHost ------------------------------
(* What a tool registry keeps running in other programs: the servers of the *)
(* MCP manager and the background processes of the process manager. They    *)
(* share no state, and their steps interleave in any order.                 *)
EXTENDS McpClient, ProcessManager

HostInit == McpInit /\ ProcInit

HostNext ==
    \/ McpNext /\ UNCHANGED procVars
    \/ ProcNext /\ UNCHANGED mcpVars

HostSpec == HostInit /\ [][HostNext]_<<mcpVars, procVars>>

(* No server process and no background process is lost, whatever fails half *)
(* way, and no server's answer can block the client's reader                *)
(* (tools/mcp/client.go, tools/process.go).                                 *)
HostsSound == SendsNeverBlock /\ NoServerLeftBehind /\ ProcessesAccountedFor
=============================================================================

------------------------------ MODULE MCChildren ----------------------------
(* Work that is shared with child processes and threads: the MCP server,    *)
(* the process of a skill, the reloads of the registry, on small instances. *)
(* They have no state in common; a behaviour moves one of them only.        *)
EXTENDS McpClient, SkillRegistry, SkillRun

VARIABLE part    \* the component that moves

vars == <<part, mcpVars, registryVars, runVars>>

Only(p) ==
  /\ part = p
  /\ UNCHANGED part
  /\ p # "mcp"      => UNCHANGED mcpVars
  /\ p # "registry" => UNCHANGED registryVars
  /\ p # "run"      => UNCHANGED runVars

Init ==
  /\ part \in {"mcp", "registry", "run"}
  /\ McpInit
  /\ RegistryInit
  /\ RunInit

Next ==
  \/ Only("mcp") /\ McpNext
  \/ Only("registry") /\ RegistryNext
  \/ Only("run") /\ RunNext

\* The fairness of FairMcp and FairRun.
Spec ==
  /\ Init
  /\ [][Next]_vars
  /\ \A c \in Callers : WF_vars(Only("mcp") /\ CallerStep(c))
  /\ WF_vars(Only("run") /\ Runtime)
  /\ WF_vars(Only("run") /\ ReadLimited)
=============================================================================

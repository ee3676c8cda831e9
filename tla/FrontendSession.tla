---------------------------- MODULE FrontendSession ----------------------------
(***************************************************************************)
(* The frontend Session: its constructor makes the terminal for the engine  *)
(* the saved session names, an ssh connection or a local shell, and what    *)
(* follows is that engine's.                                                *)
(***************************************************************************)
EXTENDS SshTerminal, LocalTerminal

VARIABLE kind  \* engine: "ssh" or "executing"

frontendVars == <<kind, sshVars, localVars>>

FrontendInit ==
    /\ kind \in {"ssh", "executing"} /\ SshInit /\ LocalInit
    /\ kind = "executing" => file = None

\* SshTerminalEngine.
SshEngine(A) == kind = "ssh" /\ A /\ UNCHANGED <<kind, localVars>>

\* ExecutingTerminalEngine.
ExecutingEngine(A) == kind = "executing" /\ A /\ UNCHANGED <<kind, sshVars>>

FrontendNext == SshEngine(SshNext) \/ ExecutingEngine(LocalNext)

FrontendFairness ==
    /\ WF_frontendVars(SshEngine(Strand)) /\ WF_frontendVars(SshEngine(Page))
    /\ WF_frontendVars(ExecutingEngine(SignalHandler)) /\ WF_frontendVars(ExecutingEngine(ChildSignalTimer))
    /\ WF_frontendVars(ExecutingEngine(HandleNotice)) /\ WF_frontendVars(ExecutingEngine(WindowThread))
    /\ WF_frontendVars(ExecutingEngine(LocalPage))

FrontendSpec == FrontendInit /\ [][FrontendNext]_frontendVars /\ FrontendFairness
=============================================================================

----------------------------- MODULE MCEditLock -----------------------------
(***************************************************************************)
(* EditLock for TLC.                                                       *)
(***************************************************************************)
EXTENDS EditLock

\* A bound on the search: while an MCP tool is between its check and its write
\* no call is in flight.  The tool only reads the locks, and no property of the
\* passing run is about it.
AgentsAlone == agentChecks # {} => calls = {}
=============================================================================

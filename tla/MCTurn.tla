------------------------------- MODULE MCTurn -------------------------------
(* Small instances of Turn.                                                 *)
EXTENDS Turn

Plain == [cred |-> None, diagnostic |-> FALSE, tools |-> TRUE, stream |-> FALSE,
          review |-> FALSE, web |-> FALSE, depth |-> 0, lanes |-> Tools]

\* Turns that meet on a session, consult an agent, or look for a credential: one that
\* names its own, an agent of the orchestrator that must stay on this machine, and one
\* that names a remote one and reads a page in its message.
RunLists == {<<"local">>, <<"cloud", "local">>}
RunBatches == {<<"fetch">>, <<"consult", "write">>}
RunAsks ==
  {[Plain EXCEPT !.cred = "local"],
   [Plain EXCEPT !.cred = "local", !.diagnostic = TRUE, !.depth = 1, !.lanes = {"fetch"}],
   [Plain EXCEPT !.cred = "cloud", !.tools = FALSE, !.stream = TRUE, !.review = TRUE, !.web = TRUE]}

\* An agent that reads what an MCP server or the web has.
ConsultBatches == {<<"fetch">>, <<"search">>, <<"consult", "write">>}
=============================================================================

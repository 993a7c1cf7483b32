------------------------------- MODULE MCPty -------------------------------
(* Instance of Pty for TLC: harmless output, output with the prompt or the *)
(* command in it, and output that looks like the rest of a session.        *)
EXTENDS Pty

MCOutputs == {<<"other">>, <<"show", "prompt">>, <<"prompt", "prompt">>, <<"prompt", "show">>}
=============================================================================

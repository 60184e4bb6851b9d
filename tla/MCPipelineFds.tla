---------------------------- MODULE MCPipelineFds ----------------------------
(* PipelineFds on a small instance: pipelines of up to three stages, pipes  *)
(* that hold one unit and programs that write two.                          *)
EXTENDS PipelineFds

Cmd(kind) == [kind |-> kind, redirs |-> <<>>]

MCPipelines == {
    <<Cmd("gen"), Cmd("cat"), Cmd("cat")>>,
    <<Cmd("gen"), Cmd("cat"), Cmd("head")>>,
    <<Cmd("gen"), Cmd("true"), Cmd("missing")>>,
    <<Cmd("gen"), Cmd("missing"), Cmd("cat")>>,
    <<Cmd("history"), Cmd("cat")>>,
    <<Cmd("gen"), Cmd("history"), Cmd("head")>>,
    <<Cmd("cat"), Cmd("cd"), Cmd("cat")>>,
    <<[kind |-> "gen", redirs |-> <<"out">>],
      [kind |-> "cat", redirs |-> <<"in", "out">>]>>,
    <<[kind |-> "history", redirs |-> <<"out">>]>> }

\* Three descriptors besides the standard ones are what three stages need.
MCLimits == {4, 5, 6}

\* A builtin before a stage that does not read.
MCBuiltinFirst == {<<Cmd("history"), Cmd("true")>>}

=============================================================================

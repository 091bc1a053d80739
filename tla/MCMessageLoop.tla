--------------------------- MODULE MCMessageLoop ---------------------------
(***************************************************************************)
(* Instances of MessageLoop for TLC.                                       *)
(***************************************************************************)
EXTENDS MessageLoopInvariant

Msg(t, s) == [type |-> t, stmts |-> s]

\* Simple queries of up to two statements, and the empty one.
SimpleLists ==
  {<<>>, <<"query">>, <<"begin">>, <<"commit">>, <<"rollback">>,
   <<"query", "query">>, <<"begin", "query">>, <<"query", "commit">>,
   <<"query", "rollback">>}

SimpleMessages == {Msg("Q", s) : s \in SimpleLists}

ParseMessages == {Msg("P", s) : s \in {<<>>, <<"query">>, <<"begin">>, <<"commit">>, <<"rollback">>}}

\* Every message type, simple queries reduced.
AllTypes ==
  {Msg("Q", s) : s \in {<<>>, <<"query">>, <<"begin">>}}
    \cup ParseMessages
    \cup {Msg(t, <<>>) : t \in MsgTypes \ {"Q", "P"}}

\* The extended protocol and a simple query.
PipelineMessages ==
  {Msg("Q", <<"query">>), Msg("P", <<"query">>), Msg("P", <<"begin">>), Msg("P", <<"commit">>)}
    \cup {Msg(t, <<>>) : t \in {"B", "E", "S"}}
=============================================================================

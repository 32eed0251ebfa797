---------------------------- MODULE MCReplyStream ----------------------------
(***************************************************************************)
(* Three messages and four deltas: text, tool, text and tool again, with   *)
(* the silent token whole, split, padded and begun but not finished.       *)
(***************************************************************************)
EXTENDS ReplyStream

\* Nothing, a text, and the silent token, brought only at the end of a message.
WholesV == {<<>>, <<"hi">>, <<"no", "reply">>}
=============================================================================

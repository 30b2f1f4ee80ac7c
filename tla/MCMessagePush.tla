---------------------------- MODULE MCMessagePush ----------------------------
(* Instances of MessagePush for TLC.                                       *)
EXTENDS MessagePush

\* One retry, and an alert when it fails.
OneTimeout == [retry : {1}, timeout : Timeouts, alert : {TRUE}]
=============================================================================

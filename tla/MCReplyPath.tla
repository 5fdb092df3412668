---------------------------- MODULE MCReplyPath ----------------------------
(* ReplyPath over the responses and setups of MCIsoTpTransfer.             *)
EXTENDS ReplyPath, MCIsoTpTransfer
=============================================================================

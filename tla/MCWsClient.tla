----------------------------- MODULE MCWsClient -----------------------------
(* WsClient on the instances of MCWsClient.cfg and MCWsDangling.cfg.          *)
EXTENDS WsClient
=============================================================================

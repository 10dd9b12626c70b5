---------------------------- MODULE MCPayloadCodec ----------------------------
(* Model-checking instance of PayloadCodec. *)
EXTENDS PayloadCodec
===============================================================================

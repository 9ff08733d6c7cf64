------------------------------ MODULE MCProxy ------------------------------
(***************************************************************************)
(* Proxy for TLC: chunks of one or two bytes through a two-byte queue, so  *)
(* that the producer parks behind one chunk and behind two.                *)
(***************************************************************************)
EXTENDS Proxy
=============================================================================

----------------------------- MODULE MCStreams ------------------------------
(* Two writers, of three bytes and one, a pipe that holds two, one signal.  *)
EXTENDS Streams

MCQuota == <<3, 1>>
=============================================================================

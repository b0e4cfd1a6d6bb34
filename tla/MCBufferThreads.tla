--------------------------- MODULE MCBufferThreads ---------------------------
(* BufferThreads on small instances. *)
EXTENDS BufferThreads
=============================================================================

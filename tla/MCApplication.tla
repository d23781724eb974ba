--------------------------- MODULE MCApplication ---------------------------
(* Instances of Application for TLC. *)
EXTENDS Application

\* Each worker may block on the one before it: capture, decode, stream.
Upstream(i) == {i - 1} \ {0}
=============================================================================

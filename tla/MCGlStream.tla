------------------------------ MODULE MCGlStream ------------------------------
(***************************************************************************)
(* Instances of GlStream for TLC, and what the sources claim of it.        *)
(***************************************************************************)
EXTENDS GlStream

\* buffer_queue.cpp, in close_locked: "Wake any potential waiters." After the
\* last forceStop the writer thread leaves pop_locked and can be joined.
StreamStops == (net = "join_writer") ~> (net = "gone")
=============================================================================

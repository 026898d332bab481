---------------------------- MODULE MCWatchScope ----------------------------
EXTENDS ScopeTimeline, TLC

(* The streams of a graph have the same sample rate and are handled alike. *)
Streams == Permutations(StreamIds)
=============================================================================

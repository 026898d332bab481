---------------------------- MODULE MCWatchSystem ----------------------------
(* Small instances of WatchSystem. *)
EXTENDS WatchSystem, TLC

CONSTANTS csoundA, csoundB, light, dark

(* Sessions are interchangeable, and so are the themes. *)
Symmetry == Permutations(Senders) \union Permutations(Themes)
==============================================================================

----------------------------- MODULE MCPlayback -----------------------------
(* Small instances of PlaybackLoop for TLC. *)
EXTENDS PlaybackLoop

=============================================================================

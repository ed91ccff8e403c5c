---------------------------- MODULE MCMediaSession ----------------------------
(* Constants of MediaSession for TLC. *)
EXTENDS MediaSession

MCKeys == {"audio", "music", "attempts"}
=============================================================================

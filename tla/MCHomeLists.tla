----------------------------- MODULE MCHomeLists ------------------------------
(* Two categories, two documents, three topics. *)
EXTENDS HomeLists
=============================================================================

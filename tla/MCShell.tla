------------------------------ MODULE MCShell ------------------------------
(* Small instances of Shell: a limit of three bytes read in chunks of two. *)
EXTENDS Shell
=============================================================================

----------------------------- MODULE MCShutdown -----------------------------
(* Two signals, two requests, two jobs, one compensation nobody awaits.    *)
EXTENDS Shutdown
=============================================================================

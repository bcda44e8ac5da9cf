---------------------------- MODULE MCAsyncLogging ----------------------------
(* Instance of AsyncLogging for TLC.                                       *)
EXTENDS AsyncLogging
=============================================================================

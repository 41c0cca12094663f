------------------------ MODULE MCBackgroundWorkers ------------------------
(* Small instances of BackgroundWorkers for TLC. *)
EXTENDS BackgroundWorkers
=============================================================================

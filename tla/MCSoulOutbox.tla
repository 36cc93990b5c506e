---------------------------- MODULE MCSoulOutbox ----------------------------
(***************************************************************************)
(* SoulOutbox with one worker and the supervisor: a message (keyed) the    *)
(* worker records and an error (no unique key) the supervisor records.     *)
(***************************************************************************)
EXTENDS SoulOutbox, TLC

CONSTANTS worker, supervisor, message, error

MCWriter == (message :> worker) @@ (error :> supervisor)
=============================================================================

-------------------------- MODULE MCLinearExecutor --------------------------
(* Small instances of LinearExecutor for TLC. *)
EXTENDS LinearExecutor, TLC

(* Store the mail, notify, post-process on every delivery. *)
WriteThenEffects == <<"write", "effect", "rerun">>

WriteThenNotify == <<"write", "effect">>
=============================================================================

----------------------------- MODULE MCMailbox -----------------------------
(***************************************************************************)
(* Mailbox for TLC.  A capacity of three and a compaction threshold of one *)
(* let the slice fill up, empty, and be compacted with live messages in it *)
(* within six messages; a batch limit of zero is raised to one by the      *)
(* code.                                                                   *)
(***************************************************************************)
EXTENDS Mailbox

MCMessage == 1..6
MCZero == 0
MCBatchSizes == 0..2
=============================================================================

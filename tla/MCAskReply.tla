----------------------------- MODULE MCAskReply -----------------------------
(* Two requests and two replies: duplicates, replies to both, and an       *)
(* envelope for the other request.                                         *)
EXTENDS AskReply
=============================================================================

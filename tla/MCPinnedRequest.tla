-------------------------- MODULE MCPinnedRequest ---------------------------
(***************************************************************************)
(* Instances of PinnedRequest for TLC.                                     *)
(***************************************************************************)
EXTENDS PinnedRequest
=============================================================================

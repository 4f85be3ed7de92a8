------------------------- MODULE MCEncryptedSession -------------------------
(***************************************************************************)
(* Instances of EncryptedSession for TLC: connections c1.., users u1, u2.  *)
(***************************************************************************)
EXTENDS EncryptedSession

CONSTANTS c1, c2, c3, u1, u2
=============================================================================

---------------------------- MODULE MCSimpleSocket ---------------------------
(* The instance of SimpleSocket for TLC; SimpleSocket.cfg has the bounds.  *)
EXTENDS SimpleSocket, TLC

MCQuota == <<2, 1, 0>>
=============================================================================

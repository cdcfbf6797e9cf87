-------------------------- MODULE MCSigmaRequests --------------------------
(* Three tokens: the gateway's, Sigma's, and one announced in between; the  *)
(* gateway may also start without any.                                      *)
EXTENDS SigmaRequests

MCTokens == {"t1", "t2", "t3"}
=============================================================================

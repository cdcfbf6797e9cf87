---------------------------- MODULE RequestProofs ----------------------------
(***************************************************************************)
(* However often Sigma changes its token and whatever it answers, a request*)
(* of the gateway is sent twice at most.                                   *)
(***************************************************************************)
EXTENDS SigmaRequests, TLAPS

\* A request has been sent once for each attempt before this one, and once
\* more when this attempt is on its way.
AttemptsInv ==
    /\ sends \in 0 .. 2
    /\ call = "ready" => sends = 0 \/ (sends = 1 /\ retried = TRUE)
    /\ call \in {"sent", "answered"} => sends = 1 \/ (sends = 2 /\ retried = TRUE)
    /\ call \in {"none", "ready", "sent", "answered"}

LEMMA AttemptsInit == Init => AttemptsInv
  BY DEF Init, AttemptsInv

LEMMA AttemptsNext == AttemptsInv /\ [Next]_vars => AttemptsInv'
<1> SUFFICES ASSUME AttemptsInv, [Next]_vars
             PROVE  AttemptsInv'
  OBVIOUS
<1> USE DEF AttemptsInv
<1>1. CASE Load
  <2>1. call' \in {"none", "ready"} /\ sends' = 0
    BY <1>1 DEF Load
  <2> QED
    BY <2>1
<1>2. CASE Send
  BY <1>2 DEF Send
<1>3. CASE Refresh
  <2>1. retried # TRUE
    BY <1>3, Zenon DEF Refresh, Refreshed
  <2>2. sends = 1 /\ retried' = TRUE /\ call' = "ready" /\ sends' = sends
    BY <1>3, <2>1 DEF Refresh
  <2> QED
    BY <2>2
<1>4. CASE Accept
  <2>1. call' \in {"none", "ready"} /\ sends' = 0
    BY <1>4 DEF Accept
  <2> QED
    BY <2>1
<1>5. CASE Fail
  BY <1>5 DEF Fail
<1>6. CASE Reply
  BY <1>6 DEF Reply
<1>7. CASE Rotate \/ Disturb \/ UNCHANGED vars
  BY <1>7 DEF Rotate, Disturb, vars, gateway, sigma
<1> QED
  BY <1>1, <1>2, <1>3, <1>4, <1>5, <1>6, <1>7 DEF Next, Gateway

\* With any tokens and loads of any size, the gateway sends a request at most
\* twice (_json_request, allow_refresh).
THEOREM TwoAttemptsCorrect == Spec => []TwoAttempts
<1>1. AttemptsInv => TwoAttempts
  BY DEF AttemptsInv, TwoAttempts
<1> QED
  BY <1>1, AttemptsInit, AttemptsNext, PTL DEF Spec
=============================================================================

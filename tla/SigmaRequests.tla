--------------------------- MODULE SigmaRequests ---------------------------
(***************************************************************************)
(* HttpSigmaGateway._json_request: the requests one load makes of Sigma,   *)
(* one after the other and each blocking the process, the token they are   *)
(* sent with, and its refresh.  Sigma, which is not part of the code, may  *)
(* change the token it accepts at any time and may be out of order.        *)
(***************************************************************************)
EXTENDS Naturals

CONSTANTS
    Tokens,     \* the tokens Sigma may give
    NoToken,    \* the gateway's when none is configured
    Sizes       \* how many requests a load may make

ASSUME RequestsAssumption == Sizes \subseteq Nat /\ NoToken \notin Tokens

VARIABLES
    token,      \* HttpSigmaGateway._token
    left,       \* requests the load has still to make
    call,       \* the request that is made: "none", "ready", "sent", "answered"
    retried,    \* is it the repeated one?            (allow_refresh = False)
    answer,     \* Sigma's answer to it
    outcome,    \* of the last load: "none", "ok", "failed"
    accepted,   \* Sigma: the token it accepts
    up,         \* Sigma: it answers as it should
    sends       \* history: how often this request was sent

gateway == <<token, left, call, retried, answer, outcome, sends>>
sigma == <<accepted, up>>
vars == <<gateway, sigma>>

\* An answer: data (code absent, 0 or 200), a refresh (code 1001 with a
\* token), another code (1001 without a token among them), or none that can be
\* read (no connection, a timeout, an HTTP error, no JSON).
NoAnswer == [kind |-> "none", token |-> NoToken]

Answered(kind, k) == [NoAnswer EXCEPT !.kind = kind, !.token = k]

Answers ==
    IF up THEN {IF token = accepted THEN Answered("data", token)
                ELSE Answered("refresh", accepted)}
    ELSE {Answered(kind, accepted) : kind \in {"data", "refresh", "code", "unreadable"}}

Init ==
    /\ token \in Tokens \cup {NoToken} /\ left = 0 /\ call = "none" /\ retried = FALSE
    /\ answer = NoAnswer /\ outcome = "none" /\ sends = 0
    /\ accepted \in Tokens /\ up \in BOOLEAN

----------------------------------------------------------------------------
(* The gateway.                                                            *)

\* A turn asks for something: a request without dataset needs no call.
Load ==
    /\ call = "none"
    /\ \E n \in Sizes : /\ left' = n
                        /\ call' = IF n = 0 THEN "none" ELSE "ready"
                        /\ outcome' = IF n = 0 THEN "ok" ELSE "none"
    /\ retried' = FALSE /\ sends' = 0
    /\ UNCHANGED <<token, answer, sigma>>

Send ==
    /\ call = "ready"
    /\ call' = "sent" /\ sends' = sends + 1
    /\ UNCHANGED <<token, left, retried, answer, outcome, sigma>>

Refreshed == answer.kind = "refresh" /\ ~retried

\* Seeded bug: the request is repeated with the token that was refused.
RefreshUnstored ==
    /\ call = "answered" /\ Refreshed
    /\ retried' = TRUE /\ call' = "ready"
    /\ UNCHANGED <<token, left, answer, outcome, sends, sigma>>

\* Seeded bug: a repeated request may be refreshed again.
RefreshAgain ==
    /\ call = "answered" /\ answer.kind = "refresh"
    /\ token' = answer.token
    /\ retried' = TRUE /\ call' = "ready"
    /\ UNCHANGED <<left, answer, outcome, sends, sigma>>

Refresh ==
    /\ call = "answered" /\ Refreshed
    /\ token' = answer.token
    /\ retried' = TRUE /\ call' = "ready"
    /\ UNCHANGED <<left, answer, outcome, sends, sigma>>

\* The payload goes to the caller, which makes its next request.
Accept ==
    /\ call = "answered" /\ answer.kind = "data"
    /\ left' = left - 1
    /\ IF left = 1 THEN call' = "none" /\ outcome' = "ok"
       ELSE call' = "ready" /\ outcome' = outcome
    /\ retried' = FALSE /\ sends' = 0
    /\ UNCHANGED <<token, answer, sigma>>

\* Seeded bug: a refresh that comes too late is neither data nor an error.
FailButForRefresh ==
    /\ call = "answered" /\ answer.kind \in {"code", "unreadable"}
    /\ left' = 0 /\ call' = "none" /\ outcome' = "failed"
    /\ UNCHANGED <<token, retried, answer, sends, sigma>>

\* SigmaGatewayError ends the load, its earlier requests notwithstanding.
Fail ==
    /\ call = "answered" /\ ~Refreshed /\ answer.kind # "data"
    /\ left' = 0 /\ call' = "none" /\ outcome' = "failed"
    /\ UNCHANGED <<token, retried, answer, sends, sigma>>

----------------------------------------------------------------------------
(* Sigma.                                                                  *)

Reply ==
    /\ call = "sent"
    /\ answer' \in Answers /\ call' = "answered"
    /\ UNCHANGED <<token, left, retried, outcome, sends, sigma>>

\* Another client logs in, or the token expires.
Rotate ==
    /\ accepted' \in Tokens \ {accepted}
    /\ UNCHANGED <<gateway, up>>

Disturb ==
    /\ up' = ~up
    /\ UNCHANGED <<gateway, accepted>>

----------------------------------------------------------------------------
Gateway == Send \/ Refresh \/ Accept \/ Fail

Next == Load \/ Gateway \/ Reply \/ Rotate \/ Disturb

Spec == Init /\ [][Next]_vars

\* The gateway goes on, and a request is answered or times out.  Nothing is
\* assumed of loads, and nothing of Sigma.
FairSpec == Spec /\ WF_vars(Gateway) /\ WF_vars(Reply)

----------------------------------------------------------------------------
\* No request is sent more than twice, so that a load blocks the other turns
\* for a bounded time whatever Sigma answers, and it always ends
\* (allow_refresh, the timeout of urlopen).
TwoAttempts == sends <= 2

LoadsEnd == call # "none" ~> call = "none"

\* Once Sigma keeps its token and answers as it should, loads stop failing:
\* a refused token is replaced for good, also the ones announced too late to
\* be used (the token kept in the gateway).
LoadsRecover ==
    <>[]up /\ <>[][accepted' = accepted]_vars
        => <>[][~(call = "answered" /\ outcome' = "failed")]_vars
=============================================================================

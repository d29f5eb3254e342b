--------------------------- MODULE GatewayReplay ---------------------------
(***************************************************************************)
(* VerifyGatewaySignature: a request that the gateway signed once and that *)
(* reaches the instances of the service more than once (a retry of the     *)
(* gateway or of a proxy, whose first attempt did arrive).                 *)
(*                                                                         *)
(* The age of the signature is checked when the headers are in, the nonce  *)
(* is stored when the body is in: two instants, up to the server's         *)
(* ReadTimeout apart.  The nonce then lives for its TTL.                   *)
(***************************************************************************)
EXTENDS Integers, FiniteSets

CONSTANTS
    Delivery,        \* the times the same signed request is delivered
    SignedAt,        \* X-Gateway-Ts, on the gateway's clock
    Lead,            \* how far the gateway's clock may be ahead
    MaxGatewaySkew,  \* maxGatewaySkew
    ReadTimeout,     \* http.Server.ReadTimeout: the body is in, or the request is over
    NonceTTL,        \* TTL that storeNonce gives the key
    MaxTime          \* bound on the clock

VARIABLES
    now,     \* the clock of the services and of Redis
    nonce,   \* last instant of the key of this X-Request-ID, -1 when never set
    req      \* by delivery: where it is in the middleware

vars == <<now, nonce, req>>

\* body: the skew was accepted, the body must be in no later than "by".
Req == [pc: {"sent", "accepted", "rejected"}] \cup [pc: {"body"}, by: Nat]

TypeOK ==
    /\ now \in 0..MaxTime
    /\ nonce \in Int
    /\ req \in [Delivery -> Req]

Init ==
    /\ now = 0
    /\ nonce = -1
    /\ req = [d \in Delivery |-> [pc |-> "sent"]]

Tick ==
    /\ now < MaxTime
    /\ \A d \in Delivery : req[d].pc = "body" => now < req[d].by
    /\ now' = now + 1
    /\ UNCHANGED <<nonce, req>>

\* withinSkew: |now - ts| =< maxGatewaySkew.
WithinSkew ==
    LET delta == now - SignedAt IN delta =< MaxGatewaySkew /\ -delta =< MaxGatewaySkew

\* The headers of a delivery arrive.
Headers(d) ==
    /\ req[d].pc = "sent"
    /\ now >= SignedAt - Lead
    /\ req' = [req EXCEPT ![d] = IF WithinSkew THEN [pc |-> "body", by |-> now + ReadTimeout]
                                 ELSE [pc |-> "rejected"]]
    /\ UNCHANGED <<now, nonce>>

\* The body fails to arrive, is too large or does not match the signature.
BodyRejected(d) ==
    /\ req[d].pc = "body"
    /\ req' = [req EXCEPT ![d] = [pc |-> "rejected"]]
    /\ UNCHANGED <<now, nonce>>

Stored == now =< nonce

\* The body is in and the signature is right; storeNonce runs SETNX.
StoreNonce(d) ==
    /\ req[d].pc = "body"
    /\ \/ /\ ~Stored
          /\ nonce' = now + NonceTTL
          /\ req' = [req EXCEPT ![d] = [pc |-> "accepted"]]
       \/ /\ Stored
          /\ nonce' = nonce
          /\ req' = [req EXCEPT ![d] = [pc |-> "rejected"]]
    /\ now' = now

\* SETNX returns an error, before or after Redis ran it: rejected.
NonceError(d) ==
    /\ req[d].pc = "body"
    /\ \/ nonce' = nonce
       \/ ~Stored /\ nonce' = now + NonceTTL
    /\ req' = [req EXCEPT ![d] = [pc |-> "rejected"]]
    /\ now' = now

Next ==
    \/ Tick
    \/ \E d \in Delivery : Headers(d) \/ BodyRejected(d) \/ StoreNonce(d) \/ NonceError(d)

Spec == Init /\ [][Next]_vars

-----------------------------------------------------------------------------
(* Properties.                                                             *)

\* A signed request is accepted at most once, however often it is delivered while
\* its timestamp is within the skew (the promise of the nonce cache).
AcceptedOnce ==
    \A c, d \in Delivery : req[c].pc = "accepted" /\ req[d].pc = "accepted" => c = d

-----------------------------------------------------------------------------
(* What it takes to keep the promise.                                      *)

\* The TTL that covers the whole time between the earliest nonce of a request and
\* the last instant at which a delivery of it can still get as far as storeNonce.
TTLCoversBody ==
    /\ SignedAt \in Nat /\ Lead \in Nat /\ MaxGatewaySkew \in Nat /\ ReadTimeout \in Nat
    /\ NonceTTL \in Nat /\ MaxTime \in Nat
    /\ Lead + MaxGatewaySkew + ReadTimeout =< NonceTTL

LastBody == SignedAt + MaxGatewaySkew + ReadTimeout

\* A delivery that waits for its body came neither too early nor too late.
BodiesInTime ==
    \A d \in Delivery : req[d].pc = "body" =>
        now >= SignedAt - Lead /\ now =< req[d].by /\ req[d].by =< LastBody

\* Under TTLCoversBody: the nonce, once stored, is there until the last body is in.
NonceLasts ==
    /\ nonce # -1 => nonce >= LastBody
    /\ (\E d \in Delivery : req[d].pc = "accepted") => nonce # -1

IInv == TypeOK /\ BodiesInTime /\ NonceLasts /\ AcceptedOnce
=============================================================================

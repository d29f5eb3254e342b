------------------------ MODULE GatewayReplayProofs ------------------------
(* Which TTL of the nonce would keep the promise of VerifyGatewaySignature,*)
(* for every number of deliveries, every skew and every time-out.          *)
EXTENDS GatewayReplay, TLAPS

\* Nothing delivered, nothing stored.
LEMMA InitInv == TTLCoversBody /\ Init => IInv
  <1> SUFFICES ASSUME TTLCoversBody, Init PROVE IInv
    OBVIOUS
  <1>1. TypeOK
    BY DEF TTLCoversBody, Init, TypeOK, Req
  <1> QED
    BY <1>1 DEF Init, IInv, BodiesInTime, NonceLasts, AcceptedOnce

\* A delivery that waits has a deadline.
LEMMA ReqTyped ==
    ASSUME TypeOK, NEW d \in Delivery
    PROVE  req[d].pc = "body" => req[d].by \in Nat
  <1>1. req[d] \in Req
    BY DEF TypeOK
  <1> QED
    BY <1>1 DEF Req

\* What one delivery becomes, for the invariants that look at all of them.
LEMMA OneDelivery ==
    ASSUME TypeOK, NEW d \in Delivery, NEW x \in Req, req' = [req EXCEPT ![d] = x]
    PROVE  /\ req' \in [Delivery -> Req]
           /\ req'[d] = x
           /\ \A c \in Delivery : c # d => req'[c] = req[c]
  BY DEF TypeOK

\* Outcomes of a delivery.
LEMMA Outcomes ==
    /\ [pc |-> "accepted"] \in Req /\ [pc |-> "accepted"].pc = "accepted"
    /\ [pc |-> "rejected"] \in Req /\ [pc |-> "rejected"].pc = "rejected"
  BY DEF Req

\* SETNX stores the nonce only if there never was one, and then for long enough.
LEMMA NonceStored ==
    ASSUME TTLCoversBody, IInv, NEW d \in Delivery, req[d].pc = "body", ~Stored
    PROVE  /\ nonce = -1
           /\ now + NonceTTL \in Nat /\ now + NonceTTL >= LastBody
  <1>1. now \in Nat /\ nonce \in Int /\ req[d].by \in Nat
    BY ReqTyped DEF IInv, TypeOK
  <1>2. now >= SignedAt - Lead /\ now =< req[d].by /\ req[d].by =< LastBody
    BY DEF IInv, BodiesInTime
  <1>3. nonce < now
    BY <1>1 DEF Stored
  <1>4. nonce # -1 => nonce >= LastBody
    BY DEF IInv, NonceLasts
  <1> QED
    BY <1>1, <1>2, <1>3, <1>4 DEF TTLCoversBody, LastBody

\* Every step keeps the invariant.
LEMMA IInvStep == TTLCoversBody /\ IInv /\ [Next]_vars => IInv'
  <1> SUFFICES ASSUME TTLCoversBody, IInv, [Next]_vars PROVE IInv'
    OBVIOUS
  <1>1. CASE Tick
    <2>1. /\ now \in Nat /\ now' = now + 1 /\ now' \in 0..MaxTime
          /\ UNCHANGED <<nonce, req>>
          /\ \A d \in Delivery : req[d].pc = "body" => now < req[d].by
      BY <1>1 DEF Tick, IInv, TypeOK, TTLCoversBody
    <2>2. TypeOK'
      BY <2>1 DEF IInv, TypeOK
    <2>3. BodiesInTime'
      <3> SUFFICES ASSUME NEW d \in Delivery, req[d].pc = "body"
                   PROVE  now + 1 >= SignedAt - Lead /\ now + 1 =< req[d].by /\ req[d].by =< LastBody
        BY <2>1 DEF BodiesInTime, LastBody
      <3>1. req[d].by \in Nat
        BY ReqTyped DEF IInv
      <3> QED
        BY <2>1, <3>1 DEF IInv, BodiesInTime, TTLCoversBody
    <2>4. NonceLasts' /\ AcceptedOnce'
      BY <2>1 DEF IInv, NonceLasts, LastBody, AcceptedOnce
    <2> QED
      BY <2>2, <2>3, <2>4 DEF IInv
  <1>2. ASSUME NEW d \in Delivery, Headers(d) PROVE IInv'
    <2>1. UNCHANGED <<now, nonce>> /\ now >= SignedAt - Lead /\ now \in Nat
      BY <1>2 DEF Headers, IInv, TypeOK
    <2> DEFINE body == [pc |-> "body", by |-> now + ReadTimeout]
    <2>2. body \in Req /\ body.pc = "body" /\ body.by = now + ReadTimeout
      BY <2>1 DEF Req, TTLCoversBody
    <2> HIDE DEF body
    <2>3. PICK x \in Req :
              /\ req' = [req EXCEPT ![d] = x]
              /\ (x = body /\ WithinSkew) \/ x = [pc |-> "rejected"]
      BY <1>2, <2>2, Outcomes DEF Headers, body
    <2>4. /\ req' \in [Delivery -> Req] /\ req'[d] = x
          /\ \A c \in Delivery : c # d => req'[c] = req[c]
      BY <2>3, OneDelivery DEF IInv
    <2>5. x.pc # "accepted"
      BY <2>2, <2>3, Outcomes
    <2>6. BodiesInTime'
      <3> SUFFICES ASSUME NEW c \in Delivery, req'[c].pc = "body"
                   PROVE  now >= SignedAt - Lead /\ now =< req'[c].by /\ req'[c].by =< LastBody
        BY <2>1 DEF BodiesInTime, LastBody
      <3>1. CASE c = d
        <4>1. req'[c].by = now + ReadTimeout /\ WithinSkew
          BY <2>2, <2>3, <2>4, <3>1, Outcomes
        <4>2. now - SignedAt =< MaxGatewaySkew
          BY <4>1 DEF WithinSkew
        <4> QED
          BY <2>1, <4>1, <4>2 DEF LastBody, TTLCoversBody
      <3>2. CASE c # d
        BY <2>4, <3>2 DEF IInv, BodiesInTime
      <3> QED BY <3>1, <3>2
    <2>7. NonceLasts' /\ AcceptedOnce'
      BY <2>1, <2>4, <2>5 DEF IInv, NonceLasts, LastBody, AcceptedOnce
    <2> QED
      BY <2>1, <2>4, <2>6, <2>7 DEF IInv, TypeOK
  <1>3. ASSUME NEW d \in Delivery, BodyRejected(d) \/ StoreNonce(d) \/ NonceError(d) PROVE IInv'
    <2>1. now' = now /\ req[d].pc = "body"
      BY <1>3 DEF BodyRejected, StoreNonce, NonceError
    <2>2. PICK x \in Req :
              /\ req' = [req EXCEPT ![d] = x]
              /\ \/ x.pc = "rejected" /\ nonce' = nonce
                 \/ x.pc \in {"rejected", "accepted"} /\ ~Stored /\ nonce' = now + NonceTTL
      <3>1. CASE BodyRejected(d) \/ NonceError(d)
        BY <3>1, Outcomes DEF BodyRejected, NonceError
      <3>2. CASE StoreNonce(d)
        BY <3>2, Outcomes DEF StoreNonce
      <3> QED BY <1>3, <3>1, <3>2
    <2>3. /\ req' \in [Delivery -> Req] /\ req'[d] = x
          /\ \A c \in Delivery : c # d => req'[c] = req[c]
      BY <2>2, OneDelivery DEF IInv
    <2>4. ~Stored => /\ nonce = -1
                     /\ now + NonceTTL \in Nat /\ now + NonceTTL >= LastBody
      BY <2>1, NonceStored
    <2>5. TypeOK'
      BY <2>1, <2>2, <2>3, <2>4 DEF IInv, TypeOK
    <2>6. BodiesInTime'
      BY <2>1, <2>2, <2>3 DEF IInv, BodiesInTime, LastBody
    <2>7. NonceLasts' /\ AcceptedOnce'
      <3>1. CASE x.pc = "rejected" /\ nonce' = nonce
        BY <2>3, <3>1 DEF IInv, NonceLasts, LastBody, AcceptedOnce
      <3>2. CASE x.pc \in {"rejected", "accepted"} /\ ~Stored /\ nonce' = now + NonceTTL
        <4>1. nonce' # -1 /\ nonce' >= LastBody
          BY <2>4, <3>2
        <4>2. \A c \in Delivery : req[c].pc # "accepted"
          BY <2>4, <3>2 DEF IInv, NonceLasts
        <4>3. \A c \in Delivery : req'[c].pc = "accepted" => c = d
          BY <2>3, <4>2
        <4> QED
          BY <4>1, <4>3 DEF NonceLasts, LastBody, AcceptedOnce
      <3> QED BY <2>2, <3>1, <3>2
    <2> QED
      BY <2>5, <2>6, <2>7 DEF IInv
  <1>4. CASE UNCHANGED vars
    BY <1>4 DEF vars, IInv, TypeOK, BodiesInTime, NonceLasts, LastBody, AcceptedOnce
  <1> QED
    BY <1>1, <1>2, <1>3, <1>4 DEF Next

\* A nonce whose TTL covers the clock lead, the skew and the time a body may take would
\* keep the promise, however often a request is delivered.  storeNonce's maxGatewaySkew
\* + 5 s covers a body that takes 5 s and not the 10 s of ReadTimeout.
THEOREM LongEnoughTTLTheorem == TTLCoversBody /\ Spec => []AcceptedOnce
  <1> SUFFICES ASSUME TTLCoversBody PROVE Spec => []AcceptedOnce
    OBVIOUS
  <1>1. Init => IInv
    BY InitInv
  <1>2. IInv /\ [Next]_vars => IInv'
    BY IInvStep
  <1>3. IInv => AcceptedOnce
    BY DEF IInv
  <1> QED
    BY <1>1, <1>2, <1>3, PTL DEF Spec
=============================================================================

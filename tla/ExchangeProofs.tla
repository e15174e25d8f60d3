--------------------------- MODULE ExchangeProofs ---------------------------
(***************************************************************************)
(* Proofs about Exchange, for every set of exchanges, every cap and every  *)
(* length of an answer.                                                    *)
(***************************************************************************)
EXTENDS Exchange, FiniteSetTheorems, TLAPS

\* The strengthening has two halves.  Local relates the promise, the request, the
\* socket and the response of one exchange; SlotInv counts the slots of all.
Unsettled(e) ==
  /\ listening[e] <=> promise[e] = "pending"
  /\ request[e] = "open" => promise[e] = "pending"
  /\ socket[e] \in {"connecting", "connected"} => promise[e] = "pending"
  /\ response[e] = "streaming" => promise[e] = "pending"
  /\ signal[e] = "aborted" => promise[e] # "pending"

Held(e) ==
  /\ SocketAlive(e) \/ request[e] = "open" => ~released[e]
  /\ socket[e] = "destroyed" => request[e] # "open"
  /\ promise[e] = "idle" => released[e] /\ socket[e] = "none"

Genuine(e) ==
  /\ socket[e] \in {"none", "connecting"} => ~verified[e]
  /\ verified[e] => Trusted(e, peer[e])
  /\ response[e] = "none" => bytes[e] = 0
  /\ response[e] = "streaming" => verified[e] /\ bytes[e] <= DohBytes
  /\ promise[e] = "resolved" =>
       /\ Trusted(e, peer[e])
       /\ kind[e] = "doh" => response[e] = "ended" /\ bytes[e] <= DohBytes

Local(e) == Unsettled(e) /\ Held(e) /\ Genuine(e)

LocalInv == \A e \in Exchanges : Local(e)

SlotInv ==
  /\ IsFiniteSet(Holding)
  /\ active = Cardinality(Holding)
  /\ active <= OutboundConnections

IInv == TypeOK /\ LocalInv /\ SlotInv

-----------------------------------------------------------------------------
(* What the shared closures do.                                            *)

\* The variables that fail() and succeed() assign, and their types.
SettleType ==
  /\ listening \in [Exchanges -> BOOLEAN]
  /\ promise \in [Exchanges -> {"idle", "pending", "resolved", "rejected"}]
  /\ request \in [Exchanges -> {"none", "open", "destroyed", "closed"}]
  /\ socket \in [Exchanges -> {"none", "connecting", "connected", "destroyed", "closed"}]
  /\ response \in [Exchanges -> {"none", "streaming", "ended", "cut", "destroyed"}]

LEMMA SettleTypes ==
  ASSUME TypeOK, NEW e \in Exchanges, NEW outcome \in {"resolved", "rejected"},
         Settle(e, outcome)
  PROVE  SettleType'
  <1>1. CASE promise[e] # "pending"
    BY <1>1 DEF Settle, SettleType, TypeOK
  <1>2. CASE promise[e] = "pending"
    <2>1. listening' \in [Exchanges -> BOOLEAN]
      BY <1>2 DEF Settle, TypeOK
    <2>2. promise' \in [Exchanges -> {"idle", "pending", "resolved", "rejected"}]
      BY <1>2 DEF Settle, TypeOK
    <2>3. request' \in [Exchanges -> {"none", "open", "destroyed", "closed"}]
      BY <1>2 DEF Settle, TypeOK
    <2>4. socket' \in [Exchanges -> {"none", "connecting", "connected", "destroyed", "closed"}]
      BY <1>2 DEF Settle, TypeOK
    <2>5. response' \in [Exchanges -> {"none", "streaming", "ended", "cut", "destroyed"}]
      BY <1>2 DEF Settle, TypeOK
    <2>6. QED
      BY <2>1, <2>2, <2>3, <2>4, <2>5 DEF SettleType
  <1>3. QED
    BY <1>1, <1>2

LEMMA ReleaseTypes ==
  ASSUME TypeOK, NEW e \in Exchanges, Release(e)
  PROVE  active' \in Int /\ released' \in [Exchanges -> BOOLEAN]
  <1>1. CASE released[e]
    BY <1>1 DEF Release, TypeOK
  <1>2. CASE ~released[e]
    <2>1. active' = active - 1 /\ released' = [released EXCEPT ![e] = TRUE]
      BY <1>2 DEF Release
    <2>2. QED
      BY <2>1 DEF TypeOK
  <1>3. QED
    BY <1>1, <1>2

\* Nothing of another exchange moves.
Elsewhere(e) ==
  \A f \in Exchanges \ {e} :
    /\ released'[f] = released[f] /\ kind'[f] = kind[f] /\ signal'[f] = signal[f]
    /\ listening'[f] = listening[f] /\ promise'[f] = promise[f] /\ request'[f] = request[f]
    /\ socket'[f] = socket[f] /\ peer'[f] = peer[f] /\ verified'[f] = verified[f]
    /\ response'[f] = response[f] /\ bytes'[f] = bytes[f]

LEMMA SettleElsewhere ==
  ASSUME TypeOK, NEW e \in Exchanges, NEW outcome, Settle(e, outcome),
         NEW f \in Exchanges \ {e}
  PROVE  /\ listening'[f] = listening[f] /\ promise'[f] = promise[f]
         /\ request'[f] = request[f] /\ socket'[f] = socket[f] /\ response'[f] = response[f]
  BY DEF Settle, TypeOK

LEMMA ReleaseElsewhere ==
  ASSUME TypeOK, NEW e \in Exchanges, Release(e), NEW f \in Exchanges \ {e}
  PROVE  released'[f] = released[f]
  <1>1. CASE released[e]
    BY <1>1 DEF Release
  <1>2. CASE ~released[e]
    <2>1. released' = [released EXCEPT ![e] = TRUE]
      BY <1>2 DEF Release
    <2>2. QED
      BY <2>1 DEF TypeOK
  <1>3. QED
    BY <1>1, <1>2

-----------------------------------------------------------------------------
LEMMA TypeInit == Init => TypeOK
  BY ExchangeAssumption DEF Init, TypeOK, Peers, Nobody

LEMMA TypeStep ==
  ASSUME TypeOK, LocalInv, [Next]_exchangeVars
  PROVE  TypeOK'
  <1> USE DEF SettleType
  <1>1. ASSUME NEW e \in Exchanges, Call(e)
        PROVE  TypeOK'
    <2>1. CASE Refuse(e)
      BY <2>1 DEF Refuse, TypeOK
    <2>2. CASE Start(e)
      BY <2>2 DEF Start, TypeOK
    <2>3. QED
      BY <1>1, <2>1, <2>2 DEF Call
  <1>2. ASSUME NEW e \in Exchanges, Peer(e)
        PROVE  TypeOK'
    <2>1. CASE SocketAssigned(e)
      BY <2>1 DEF SocketAssigned, TypeOK
    <2>2. ASSUME NEW p \in Peers, Connected(e, p)
          PROVE  TypeOK'
      <3>1. CASE signal[e] = "live" /\ Trusted(e, p)
        BY <2>2, <3>1 DEF Connected, TypeOK
      <3>2. CASE ~(signal[e] = "live" /\ Trusted(e, p))
        BY <2>2, <3>2, SettleTypes DEF Connected, Fail, TypeOK
      <3>3. QED
        BY <3>1, <3>2
    <2>3. CASE RequestError(e)
      BY <2>3, SettleTypes DEF RequestError, Fail, TypeOK
    <2>4. ASSUME NEW sameSocket \in BOOLEAN, NEW acceptable \in BOOLEAN,
                 Response(e, sameSocket, acceptable)
          PROVE  TypeOK'
      <3>1. SettleType'
        BY <2>4, SettleTypes DEF Response, Fail, Succeed, TypeOK
      <3>2. QED
        BY <2>4, <3>1 DEF Response, TypeOK
    <2>5. CASE Data(e)
      <3>1. bytes[e] \in 0..DohBytes
        BY <2>5, ExchangeAssumption DEF Data, LocalInv, Local, Genuine, TypeOK
      <3>2. bytes' \in [Exchanges -> 0..DohBytes + 1]
        BY <2>5, <3>1, ExchangeAssumption DEF Data, TypeOK
      <3>3. SettleType'
        BY <2>5, SettleTypes DEF Data, Fail, TypeOK
      <3>4. QED
        BY <2>5, <3>2, <3>3 DEF Data, TypeOK
    <2>6. CASE End(e)
      BY <2>6, SettleTypes DEF End, Succeed, TypeOK
    <2>7. CASE Cut(e)
      BY <2>7, ReleaseTypes DEF Cut, TypeOK
    <2>8. QED
      BY <1>2, <2>1, <2>2, <2>3, <2>4, <2>5, <2>6, <2>7 DEF Peer
  <1>3. ASSUME NEW e \in Exchanges, Node(e)
        PROVE  TypeOK'
    <2>1. CASE Aborted(e)
      BY <2>1, SettleTypes DEF Aborted, Fail, TypeOK
    <2>2. CASE SocketClosed(e)
      BY <2>2, ReleaseTypes DEF SocketClosed, TypeOK
    <2>3. CASE RequestClosed(e)
      BY <2>3, ReleaseTypes DEF RequestClosed, TypeOK
    <2>4. QED
      BY <1>3, <2>1, <2>2, <2>3 DEF Node
  <1>4. ASSUME NEW e \in Exchanges, Abort(e)
        PROVE  TypeOK'
    <2>1. SettleType'
      BY <1>4, SettleTypes DEF Abort, Fail, TypeOK
    <2>2. signal' \in [Exchanges -> {"live", "aborted"}]
      BY <1>4 DEF Abort, TypeOK
    <2>3. QED
      BY <1>4, <2>1, <2>2 DEF Abort, TypeOK
  <1>5. CASE UNCHANGED exchangeVars
    BY <1>5 DEF exchangeVars, TypeOK
  <1>6. QED
    BY <1>1, <1>2, <1>3, <1>4, <1>5 DEF Next

-----------------------------------------------------------------------------
(* Each exchange by itself.                                                *)

LEMMA LocalFrame ==
  ASSUME NEW e \in Exchanges, Elsewhere(e), NEW f \in Exchanges \ {e}, Local(f)
  PROVE  Local(f)'
  BY DEF Elsewhere, Local, Unsettled, Held, Genuine, SocketAlive, Trusted

\* Settling a pending promise lets go of request, socket and response.
LEMMA SettleSelf ==
  ASSUME TypeOK, NEW e \in Exchanges, NEW outcome \in {"resolved", "rejected"},
         Settle(e, outcome), promise[e] = "pending"
  PROVE  /\ promise'[e] = outcome
         /\ ~listening'[e]
         /\ request'[e] # "open"
         /\ socket'[e] \notin {"connecting", "connected"}
         /\ socket'[e] = "destroyed" => SocketAlive(e)
         /\ socket'[e] # "destroyed" => socket'[e] = socket[e]
         /\ response'[e] # "streaming"
         /\ response[e] = "streaming" /\ outcome = "resolved" => response'[e] = "ended"
         /\ response'[e] = "none" => response[e] = "none"
  BY DEF Settle, TypeOK, SocketAlive

LEMMA SettleLocal ==
  ASSUME TypeOK, NEW e \in Exchanges, Local(e),
         NEW outcome \in {"resolved", "rejected"},
         Settle(e, outcome), promise[e] = "pending",
         released'[e] = released[e],
         verified'[e] = verified[e],
         verified'[e] => Trusted(e, peer[e])',
         response[e] = "none" => bytes'[e] = 0,
         outcome = "resolved" =>
           /\ verified[e]
           /\ kind'[e] = "doh" => response[e] = "streaming" /\ bytes'[e] <= DohBytes
  PROVE  Local(e)'
  <1>1. Unsettled(e)'
    BY SettleSelf DEF Unsettled
  <1>2. Held(e)'
    BY SettleSelf DEF Local, Held, SocketAlive
  <1>3. Genuine(e)'
    BY SettleSelf DEF Local, Genuine
  <1>4. QED
    BY <1>1, <1>2, <1>3 DEF Local

LEMMA LocalInit == Init => LocalInv
  BY DEF Init, LocalInv, Local, Unsettled, Held, Genuine, SocketAlive

LEMMA CallLocal ==
  ASSUME TypeOK, LocalInv, NEW e \in Exchanges, Call(e)
  PROVE  Local(e)' /\ Elsewhere(e)
  <1> USE DEF LocalInv, Local, Unsettled, Held, Genuine, SocketAlive, Trusted
  <1>1. CASE Refuse(e)
    <2>1. Elsewhere(e)
      BY <1>1 DEF Refuse, Elsewhere, TypeOK
    <2>2. promise[e] = "idle" /\ promise'[e] = "rejected"
      BY <1>1 DEF Refuse, TypeOK
    <2>3. Local(e)'
      BY <1>1, <2>2 DEF Refuse
    <2>4. QED
      BY <2>1, <2>3
  <1>2. CASE Start(e)
    <2>1. Elsewhere(e)
      BY <1>2 DEF Start, Elsewhere, TypeOK
    <2>2. /\ promise[e] = "idle" /\ promise'[e] = "pending"
          /\ listening'[e] /\ ~released'[e]
      BY <1>2 DEF Start, TypeOK
    <2>3. signal[e] = "live"
      BY <1>2 DEF Start, CanAcquire
    <2>4. Local(e)'
      BY <1>2, <2>2, <2>3 DEF Start
    <2>5. QED
      BY <2>1, <2>4
  <1>3. QED
    BY <1>1, <1>2 DEF Call

LEMMA PeerLocal ==
  ASSUME TypeOK, LocalInv, NEW e \in Exchanges, Peer(e)
  PROVE  Local(e)' /\ Elsewhere(e)
  <1>0. Local(e)
    BY DEF LocalInv
  <1>1. CASE SocketAssigned(e)
    <2>1. Elsewhere(e)
      BY <1>1 DEF SocketAssigned, Elsewhere, TypeOK
    <2>2. request[e] = "open" /\ socket[e] = "none" /\ socket'[e] = "connecting"
      BY <1>1 DEF SocketAssigned, TypeOK
    <2>3. Local(e)'
      BY <1>0, <1>1, <2>2
      DEF SocketAssigned, Local, Unsettled, Held, Genuine, SocketAlive, Trusted
    <2>4. QED
      BY <2>1, <2>3
  <1>2. ASSUME NEW p \in Peers, Connected(e, p)
        PROVE  Local(e)' /\ Elsewhere(e)
    <2>1. /\ socket[e] = "connecting" /\ peer'[e] = p /\ ~verified[e]
          /\ promise[e] = "pending"
      BY <1>0, <1>2 DEF Connected, Local, Unsettled, Genuine, TypeOK
    <2>2. Elsewhere(e)
      BY <1>2, SettleElsewhere DEF Connected, Fail, Elsewhere, TypeOK
    <2>3. CASE signal[e] = "live" /\ Trusted(e, p)
      <3>1. /\ verified'[e] /\ socket'[e] = "connected"
            /\ UNCHANGED <<promise, listening, request, response>>
        BY <1>2, <2>3 DEF Connected, TypeOK
      <3>2. Trusted(e, peer[e])'
        BY <1>2, <2>1, <2>3 DEF Connected, Trusted
      <3>3. response[e] # "streaming" /\ response'[e] = response[e]
        BY <1>0, <2>1, <3>1 DEF Local, Genuine
      <3>4. Local(e)'
        BY <1>0, <1>2, <2>1, <3>1, <3>2, <3>3
        DEF Connected, Local, Unsettled, Held, Genuine, SocketAlive
      <3>5. QED
        BY <2>2, <3>4
    <2>4. CASE ~(signal[e] = "live" /\ Trusted(e, p))
      <3>1. Settle(e, "rejected") /\ UNCHANGED <<released, verified, bytes, kind>>
        BY <1>2, <2>4 DEF Connected, Fail
      <3>2. Local(e)'
        BY <1>0, <2>1, <3>1, SettleLocal DEF Local, Genuine
      <3>3. QED
        BY <2>2, <3>2
    <2>5. QED
      BY <2>3, <2>4
  <1>3. CASE RequestError(e)
    <2>1. Elsewhere(e)
      BY <1>3, SettleElsewhere DEF RequestError, Fail, Elsewhere
    <2>2. CASE promise[e] = "pending"
      BY <1>0, <1>3, <2>1, <2>2, SettleLocal DEF RequestError, Fail, Local, Genuine, Trusted
    <2>3. CASE promise[e] # "pending"
      BY <1>0, <1>3, <2>1, <2>3
      DEF RequestError, Fail, Settle, Local, Unsettled, Held, Genuine, SocketAlive, Trusted
    <2>4. QED
      BY <2>2, <2>3
  <1>4. ASSUME NEW sameSocket \in BOOLEAN, NEW acceptable \in BOOLEAN,
               Response(e, sameSocket, acceptable)
        PROVE  Local(e)' /\ Elsewhere(e)
    <2>1. /\ request[e] = "open" /\ socket[e] = "connected" /\ response[e] = "none"
          /\ promise[e] = "pending" /\ bytes[e] = 0
          /\ UNCHANGED <<active, released, kind, signal, peer, verified, bytes>>
      BY <1>0, <1>4 DEF Response, Local, Unsettled, Genuine
    <2>2. Elsewhere(e)
      BY <1>4, SettleElsewhere DEF Response, Fail, Succeed, Elsewhere, TypeOK
    <2>3. CASE ~(signal[e] = "live" /\ verified[e] /\ sameSocket /\ acceptable)
      <3>1. Settle(e, "rejected")
        BY <1>4, <2>3 DEF Response, Fail
      <3>2. QED
        BY <1>0, <2>1, <2>2, <3>1, SettleLocal DEF Local, Genuine, Trusted
    <2>4. CASE /\ signal[e] = "live" /\ verified[e] /\ sameSocket /\ acceptable
               /\ kind[e] # "doh"
      <3>1. Settle(e, "resolved")
        BY <1>4, <2>4 DEF Response, Succeed
      <3>2. QED
        BY <1>0, <2>1, <2>2, <2>4, <3>1, SettleLocal DEF Local, Genuine, Trusted
    <2>5. CASE /\ signal[e] = "live" /\ verified[e] /\ sameSocket /\ acceptable
               /\ kind[e] = "doh"
      <3>1. /\ response'[e] = "streaming"
            /\ UNCHANGED <<promise, listening, request, socket>>
        BY <1>4, <2>5 DEF Response, TypeOK
      <3>2. QED
        BY <1>0, <2>1, <2>2, <2>5, <3>1, ExchangeAssumption
        DEF Local, Unsettled, Held, Genuine, SocketAlive, Trusted
    <2>6. QED
      BY <2>3, <2>4, <2>5
  <1>5. CASE Data(e)
    <2>1. /\ response[e] = "streaming" /\ promise[e] = "pending" /\ verified[e]
          /\ bytes'[e] = bytes[e] + 1
          /\ UNCHANGED <<active, released, kind, signal, peer, verified>>
      BY <1>0, <1>5 DEF Data, Local, Unsettled, Genuine, TypeOK
    <2>2. Elsewhere(e)
      BY <1>5, SettleElsewhere DEF Data, Fail, Elsewhere, TypeOK
    <2>3. CASE bytes[e] + 1 > DohBytes
      <3>1. Settle(e, "rejected")
        BY <1>5, <2>3 DEF Data, Fail
      <3>2. QED
        BY <1>0, <2>1, <2>2, <3>1, SettleLocal DEF Local, Genuine, Trusted
    <2>4. CASE ~(bytes[e] + 1 > DohBytes)
      <3>1. UNCHANGED <<promise, listening, request, socket, response>>
        BY <1>5, <2>4 DEF Data
      <3>2. bytes'[e] <= DohBytes
        BY <2>1, <2>4, ExchangeAssumption DEF TypeOK
      <3>3. QED
        BY <1>0, <2>1, <2>2, <3>1, <3>2
        DEF Local, Unsettled, Held, Genuine, SocketAlive, Trusted
    <2>5. QED
      BY <2>3, <2>4
  <1>6. CASE End(e)
    <2>1. /\ response[e] = "streaming" /\ promise[e] = "pending" /\ verified[e]
          /\ bytes[e] <= DohBytes /\ Settle(e, "resolved")
          /\ UNCHANGED <<active, released, kind, signal, peer, verified, bytes>>
      BY <1>0, <1>6 DEF End, Succeed, Local, Unsettled, Genuine
    <2>2. Elsewhere(e)
      BY <2>1, SettleElsewhere DEF Elsewhere
    <2>3. QED
      BY <1>0, <2>1, <2>2, SettleLocal DEF Local, Genuine, Trusted
  <1>7. CASE Cut(e)
    <2>1. /\ response[e] = "streaming" /\ response'[e] = "cut"
          /\ socket'[e] = "closed" /\ request'[e] = "closed"
          /\ UNCHANGED <<kind, signal, listening, promise, peer, verified, bytes>>
          /\ promise[e] = "pending"
      BY <1>0, <1>7 DEF Cut, Local, Unsettled, TypeOK
    <2>2. Elsewhere(e)
      BY <1>7, ReleaseElsewhere DEF Cut, Elsewhere, TypeOK
    <2>3. QED
      BY <1>0, <2>1, <2>2 DEF Local, Unsettled, Held, Genuine, SocketAlive, Trusted
  <1>8. QED
    BY <1>1, <1>2, <1>3, <1>4, <1>5, <1>6, <1>7 DEF Peer

LEMMA NodeLocal ==
  ASSUME TypeOK, LocalInv, NEW e \in Exchanges, Node(e) \/ Abort(e)
  PROVE  Local(e)' /\ Elsewhere(e)
  <1>0. Local(e)
    BY DEF LocalInv
  <1>1. CASE Aborted(e)
    <2>1. /\ promise[e] = "pending" /\ Settle(e, "rejected")
          /\ UNCHANGED <<active, released, kind, signal, peer, verified, bytes>>
      BY <1>1 DEF Aborted, Fail
    <2>2. Elsewhere(e)
      BY <2>1, SettleElsewhere DEF Elsewhere
    <2>3. QED
      BY <1>0, <2>1, <2>2, SettleLocal DEF Local, Genuine, Trusted
  <1>2. CASE SocketClosed(e)
    <2>1. /\ socket[e] = "destroyed" /\ socket'[e] = "closed" /\ request[e] # "open"
          /\ UNCHANGED <<kind, signal, listening, promise, request, peer, verified, response, bytes>>
      BY <1>0, <1>2 DEF SocketClosed, Local, Held, TypeOK
    <2>2. Elsewhere(e)
      BY <1>2, ReleaseElsewhere DEF SocketClosed, Elsewhere, TypeOK
    <2>3. promise[e] # "idle"
      BY <1>0, <2>1 DEF Local, Held
    <2>4. QED
      BY <1>0, <2>1, <2>2, <2>3 DEF Local, Unsettled, Held, Genuine, SocketAlive, Trusted
  <1>3. CASE RequestClosed(e)
    <2>1. /\ request'[e] = "closed"
          /\ UNCHANGED <<kind, signal, listening, promise, socket, peer, verified, response, bytes>>
      BY <1>3 DEF RequestClosed, TypeOK
    <2>2. Elsewhere(e)
      BY <1>3, ReleaseElsewhere DEF RequestClosed, Elsewhere, TypeOK
    <2>3. promise[e] = "idle" => released'[e]
      <3>1. CASE socket[e] = "none"
        <4>1. Release(e)
          BY <1>3, <3>1 DEF RequestClosed
        <4>2. CASE released[e]
          BY <4>1, <4>2 DEF Release
        <4>3. CASE ~released[e]
          BY <1>0, <4>3 DEF Local, Held
        <4>4. QED
          BY <4>2, <4>3
      <3>2. CASE socket[e] # "none"
        BY <1>0, <3>2 DEF Local, Held
      <3>3. QED
        BY <3>1, <3>2
    <2>4. SocketAlive(e) => released'[e] = released[e]
      BY <1>3 DEF RequestClosed, SocketAlive
    <2>5. QED
      BY <1>0, <2>1, <2>2, <2>3, <2>4
      DEF Local, Unsettled, Held, Genuine, SocketAlive, Trusted
  <1>4. CASE Abort(e)
    <2>1. /\ signal'[e] = "aborted"
          /\ UNCHANGED <<active, released, kind, peer, verified, bytes>>
      BY <1>4 DEF Abort, TypeOK
    <2>2. CASE listening[e]
      <3>1. Settle(e, "rejected") /\ promise[e] = "pending"
        BY <1>0, <1>4, <2>2 DEF Abort, Fail, Local, Unsettled
      <3>2. Elsewhere(e)
        BY <1>4, <2>1, <3>1, SettleElsewhere DEF Abort, Elsewhere, TypeOK
      <3>3. QED
        BY <1>0, <2>1, <3>1, <3>2, SettleLocal DEF Local, Genuine, Trusted
    <2>3. CASE ~listening[e]
      <3>1. /\ promise[e] # "pending"
            /\ UNCHANGED <<promise, listening, request, socket, response>>
        BY <1>0, <1>4, <2>3 DEF Abort, Local, Unsettled
      <3>2. Elsewhere(e)
        BY <1>4, <2>1, <3>1 DEF Abort, Elsewhere, TypeOK
      <3>3. QED
        BY <1>0, <2>1, <3>1, <3>2
        DEF Local, Unsettled, Held, Genuine, SocketAlive, Trusted
    <2>4. QED
      BY <2>2, <2>3
  <1>5. QED
    BY <1>1, <1>2, <1>3, <1>4 DEF Node

LEMMA LocalStep == TypeOK /\ LocalInv /\ [Next]_exchangeVars => LocalInv'
  <1> SUFFICES ASSUME TypeOK, LocalInv, [Next]_exchangeVars
               PROVE  LocalInv'
    OBVIOUS
  <1>1. ASSUME NEW e \in Exchanges, Call(e) \/ Peer(e) \/ Node(e) \/ Abort(e)
        PROVE  LocalInv'
    <2>1. Local(e)' /\ Elsewhere(e)
      BY <1>1, CallLocal, PeerLocal, NodeLocal
    <2>2. ASSUME NEW f \in Exchanges \ {e}
          PROVE  Local(f)'
      BY <2>1, LocalFrame DEF LocalInv
    <2>3. QED
      BY <2>1, <2>2 DEF LocalInv
  <1>2. CASE UNCHANGED exchangeVars
    BY <1>2
    DEF exchangeVars, LocalInv, Local, Unsettled, Held, Genuine, SocketAlive, Trusted
  <1>3. QED
    BY <1>1, <1>2 DEF Next

LEMMA StateStep ==
  TypeOK /\ LocalInv /\ [Next]_exchangeVars => (TypeOK /\ LocalInv)'
  BY TypeStep, LocalStep

\* Type correctness of Exchange: a body is never read beyond one chunk over its cap.
THEOREM TypeCorrect == Spec => []TypeOK
  BY TypeInit, LocalInit, StateStep, PTL DEF Spec

-----------------------------------------------------------------------------
(* What Local is there for.                                                *)

\* An aborted exchange is settled: none outlives its signal.
THEOREM AbortsSettle == Spec => []AbortSettles
  <1>1. LocalInv => AbortSettles
    BY DEF LocalInv, Local, Unsettled, AbortSettles
  <1>2. QED
    BY <1>1, TypeInit, LocalInit, StateStep, PTL DEF Spec

\* A settled exchange keeps no open request, no body, no listener.
THEOREM SettledAreQuiet == Spec => []QuietOnceSettled
  <1>1. LocalInv => QuietOnceSettled
    BY DEF LocalInv, Local, Unsettled, QuietOnceSettled, Settled
  <1>2. QED
    BY <1>1, TypeInit, LocalInit, StateStep, PTL DEF Spec

\* Whatever the peer does, a result comes from the pinned, verified address, and a
\* DNS answer is whole and within its cap.
THEOREM ResultsAreGenuine == Spec => []ResultIsGenuine
  <1>1. LocalInv => ResultIsGenuine
    BY DEF LocalInv, Local, Genuine, ResultIsGenuine
  <1>2. QED
    BY <1>1, TypeInit, LocalInit, StateStep, PTL DEF Spec

LEMMA SettleFinal ==
  ASSUME NEW e \in Exchanges, NEW outcome, Settle(e, outcome),
         NEW f \in Exchanges, Settled(f), TypeOK
  PROVE  promise'[f] = promise[f]
  BY DEF Settle, Settled, TypeOK

LEMMA FinalStep ==
  ASSUME TypeOK, [Next]_exchangeVars, NEW f \in Exchanges, Settled(f)
  PROVE  promise'[f] = promise[f]
  <1>1. ASSUME NEW e \in Exchanges, Call(e)
        PROVE  promise'[f] = promise[f]
    BY <1>1 DEF Call, Refuse, Start, Settled, TypeOK
  <1>2. ASSUME NEW e \in Exchanges, Peer(e)
        PROVE  promise'[f] = promise[f]
    <2>1. (\E outcome : Settle(e, outcome)) \/ UNCHANGED promise
      <3>1. CASE SocketAssigned(e) \/ Cut(e)
        BY <3>1 DEF SocketAssigned, Cut
      <3>2. CASE \E p \in Peers : Connected(e, p)
        BY <3>2 DEF Connected, Fail
      <3>3. CASE RequestError(e) \/ End(e)
        BY <3>3 DEF RequestError, End, Fail, Succeed
      <3>4. CASE \E sameSocket, acceptable \in BOOLEAN : Response(e, sameSocket, acceptable)
        BY <3>4 DEF Response, Fail, Succeed
      <3>5. CASE Data(e)
        BY <3>5 DEF Data, Fail
      <3>6. QED
        BY <1>2, <3>1, <3>2, <3>3, <3>4, <3>5 DEF Peer
    <2>2. QED
      BY <2>1, SettleFinal
  <1>3. ASSUME NEW e \in Exchanges, Node(e) \/ Abort(e)
        PROVE  promise'[f] = promise[f]
    <2>1. (\E outcome : Settle(e, outcome)) \/ UNCHANGED promise
      BY <1>3 DEF Node, Aborted, SocketClosed, RequestClosed, Abort, Fail
    <2>2. QED
      BY <2>1, SettleFinal
  <1>4. CASE UNCHANGED exchangeVars
    BY <1>4 DEF exchangeVars
  <1>5. QED
    BY <1>1, <1>2, <1>3, <1>4 DEF Next

\* The outcome of an exchange is final.
THEOREM OutcomesAreFinal == Spec => OutcomeIsFinal
  <1>1. TypeOK /\ [Next]_exchangeVars =>
          [\A e \in Exchanges : Settled(e) => promise'[e] = promise[e]]_exchangeVars
    BY FinalStep
  <1>2. QED
    BY <1>1, TypeCorrect, PTL DEF Spec, OutcomeIsFinal

-----------------------------------------------------------------------------
(* The slots of all exchanges.                                             *)

\* A step moves the slot of one exchange: taken at the call, given back at a close.
LEMMA SlotMoves ==
  ASSUME TypeOK, LocalInv, SlotInv, NEW e \in Exchanges,
         Call(e) \/ Peer(e) \/ Node(e) \/ Abort(e)
  PROVE  \/ UNCHANGED <<active, released>>
         \/ /\ active' = active + 1 /\ released' = [released EXCEPT ![e] = FALSE]
            /\ e \notin Holding /\ active < OutboundConnections
         \/ /\ active' = active - 1 /\ released' = [released EXCEPT ![e] = TRUE]
            /\ e \in Holding
  <1>1. CASE Refuse(e)
    BY <1>1 DEF Refuse
  <1>2. CASE Start(e)
    <2>1. /\ active' = active + 1 /\ released' = [released EXCEPT ![e] = FALSE]
          /\ promise[e] = "idle" /\ active < OutboundConnections
      BY <1>2 DEF Start, CanAcquire
    <2>2. e \notin Holding
      BY <2>1 DEF LocalInv, Local, Held, Holding
    <2>3. QED
      BY <2>1, <2>2
  <1>3. CASE Peer(e)
    <2>1. UNCHANGED <<active, released>> \/ Release(e)
      <3>1. CASE SocketAssigned(e) \/ Cut(e)
        BY <3>1 DEF SocketAssigned, Cut
      <3>2. CASE \E p \in Peers : Connected(e, p)
        BY <3>2 DEF Connected
      <3>3. CASE RequestError(e) \/ Data(e) \/ End(e)
        BY <3>3 DEF RequestError, Data, End
      <3>4. CASE \E sameSocket, acceptable \in BOOLEAN : Response(e, sameSocket, acceptable)
        BY <3>4 DEF Response
      <3>5. QED
        BY <1>3, <3>1, <3>2, <3>3, <3>4 DEF Peer
    <2>2. QED
      BY <2>1 DEF Release, Holding
  <1>4. CASE Node(e) \/ Abort(e)
    <2>1. UNCHANGED <<active, released>> \/ Release(e)
      BY <1>4 DEF Node, Aborted, SocketClosed, RequestClosed, Abort
    <2>2. QED
      BY <2>1 DEF Release, Holding
  <1>5. QED
    BY <1>1, <1>2, <1>3, <1>4 DEF Call

\* The same, of the set of holders.
LEMMA HoldingMoves ==
  ASSUME TypeOK, LocalInv, SlotInv, NEW e \in Exchanges,
         Call(e) \/ Peer(e) \/ Node(e) \/ Abort(e)
  PROVE  \/ Holding' = Holding /\ active' = active
         \/ /\ Holding' = Holding \cup {e} /\ active' = active + 1
            /\ e \notin Holding /\ active < OutboundConnections
         \/ /\ Holding' = Holding \ {e} /\ active' = active - 1
            /\ e \in Holding
  <1>1. CASE UNCHANGED <<active, released>>
    BY <1>1 DEF Holding
  <1>2. ASSUME released' = [released EXCEPT ![e] = FALSE]
        PROVE  Holding' = Holding \cup {e}
    BY <1>2 DEF Holding, TypeOK
  <1>3. ASSUME released' = [released EXCEPT ![e] = TRUE]
        PROVE  Holding' = Holding \ {e}
    BY <1>3 DEF Holding, TypeOK
  <1>4. QED
    BY <1>1, <1>2, <1>3, SlotMoves

LEMMA SlotInit == Init => SlotInv
  <1> SUFFICES ASSUME Init PROVE SlotInv
    OBVIOUS
  <1>1. Holding = {}
    BY DEF Init, Holding
  <1>2. QED
    BY <1>1, FS_EmptySet, ExchangeAssumption DEF Init, SlotInv

LEMMA SlotStep == TypeOK /\ LocalInv /\ SlotInv /\ [Next]_exchangeVars => SlotInv'
  <1> SUFFICES ASSUME TypeOK, LocalInv, SlotInv, [Next]_exchangeVars
               PROVE  SlotInv'
    OBVIOUS
  <1>1. ASSUME NEW e \in Exchanges, Call(e) \/ Peer(e) \/ Node(e) \/ Abort(e)
        PROVE  SlotInv'
    <2>1. CASE Holding' = Holding /\ active' = active
      BY <2>1 DEF SlotInv
    <2>2. CASE /\ Holding' = Holding \cup {e} /\ active' = active + 1
               /\ e \notin Holding /\ active < OutboundConnections
      <3>1. IsFiniteSet(Holding') /\ Cardinality(Holding') = Cardinality(Holding) + 1
        BY <2>2, FS_AddElement DEF SlotInv
      <3>2. QED
        BY <2>2, <3>1, ExchangeAssumption DEF SlotInv, TypeOK
    <2>3. CASE /\ Holding' = Holding \ {e} /\ active' = active - 1 /\ e \in Holding
      <3>1. IsFiniteSet(Holding') /\ Cardinality(Holding') = Cardinality(Holding) - 1
        BY <2>3, FS_RemoveElement DEF SlotInv
      <3>2. QED
        BY <2>3, <3>1, ExchangeAssumption DEF SlotInv, TypeOK
    <2>4. QED
      BY <1>1, <2>1, <2>2, <2>3, HoldingMoves
  <1>2. CASE UNCHANGED exchangeVars
    BY <1>2 DEF exchangeVars, SlotInv, Holding
  <1>3. QED
    BY <1>1, <1>2 DEF Next

LEMMA Inductive == IInv /\ [Next]_exchangeVars => IInv'
  BY StateStep, SlotStep DEF IInv

LEMMA IInvInit == Init => IInv
  BY TypeInit, LocalInit, SlotInit DEF IInv

\* Every exchange whose socket has not closed is counted by the limiter.
THEOREM SlotsCorrect == Spec => []LiveSocketsHoldSlots
  <1>1. IInv => LiveSocketsHoldSlots
    BY DEF IInv, SlotInv, LocalInv, Local, Held, Holding, LiveSocketsHoldSlots
  <1>2. QED
    BY <1>1, Inductive, IInvInit, PTL DEF Spec

-----------------------------------------------------------------------------
\* Instances carry their own copy of Cardinality.
LEMMA PoolCardinality ==
  ASSUME NEW S
  PROVE  Pool!Cardinality(S) = Cardinality(S)
  BY DEF Cardinality, Pool!Cardinality

LEMMA PoolStep == IInv /\ [Next]_exchangeVars => [Pool!Next]_Holding
  <1> SUFFICES ASSUME IInv, [Next]_exchangeVars, Holding' # Holding
               PROVE  \E e \in Exchanges : Pool!Acquire(e) \/ Pool!Release(e)
    BY DEF Pool!Next
  <1>1. PICK e \in Exchanges : Call(e) \/ Peer(e) \/ Node(e) \/ Abort(e)
    BY DEF Next, exchangeVars, Holding
  <1>2. CASE Holding' = Holding \cup {e} /\ e \notin Holding /\ active < OutboundConnections
    BY <1>2, PoolCardinality DEF IInv, SlotInv, Pool!Acquire
  <1>3. CASE Holding' = Holding \ {e} /\ e \in Holding
    BY <1>3 DEF Pool!Release
  <1>4. QED
    BY <1>1, <1>2, <1>3, HoldingMoves DEF IInv

\* The exchanges implement a pool of OutboundConnections slots.
THEOREM ExchangesImplementPool == Spec => ImplementsPool
  <1>1. Init => Pool!Init
    BY DEF Init, Pool!Init, Holding
  <1>2. QED
    BY <1>1, Inductive, IInvInit, PoolStep, PTL DEF Spec, ImplementsPool, Pool!Spec
=============================================================================

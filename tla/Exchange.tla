------------------------------ MODULE Exchange ------------------------------
(***************************************************************************)
(* The outbound HTTP exchanges of the diagnostics service                  *)
(* (apps/diagnostics/src/network.ts, exchange()) and the connection        *)
(* limiter they share (limits.ts, ConnectionLimiter).                      *)
(*                                                                         *)
(* One exchange is one call of exchange(): a promise, a ClientRequest, its *)
(* socket and its response, driven by Node's events in whatever order they *)
(* arrive.  A handler runs to its end before the next event, so each event *)
(* is one step.  What the peer sends is a choice of the environment.       *)
(***************************************************************************)
EXTENDS Integers, FiniteSets

CONSTANTS
  Exchanges,            \* calls of exchange()
  OutboundConnections,  \* SERVICE_LIMITS.outboundConnections
  DohBytes              \* SERVICE_LIMITS.dohBytes, counted in chunks

ASSUME ExchangeAssumption ==
  /\ OutboundConnections \in Nat \ {0}
  /\ DohBytes \in Nat

VARIABLES
  active,     \* ConnectionLimiter.active
  released,   \* [Exchanges -> BOOLEAN]: flag of the release closure; TRUE when there is none
  kind,       \* "doh" POSTs a query and reads the answer, "plain" and "secure" read headers only
  signal,     \* options.signal: "live" or "aborted"
  listening,  \* the abort listener is attached
  promise,    \* "idle" before the call, then "pending", "resolved" or "rejected"
  request,    \* ClientRequest: "none", "open", "destroyed" or "closed"
  socket,     \* "none", "connecting", "connected", "destroyed" or "closed"
  peer,       \* what is at the other end of the socket, once connected
  verified,   \* verifiedAddress is set
  response,   \* "none", "streaming", "ended", "cut" (by the peer) or "destroyed"
  bytes       \* body chunks read

exchangeVars == <<active, released, kind, signal, listening, promise, request, socket,
                  peer, verified, response, bytes>>

\* A peer has the pinned address or another, and a certificate that verifies or not.
Peers == [pinned : BOOLEAN, certified : BOOLEAN]
Nobody == [pinned |-> FALSE, certified |-> FALSE]

Init ==
  /\ active = 0
  /\ released = [e \in Exchanges |-> TRUE]
  /\ kind \in [Exchanges -> {"doh", "plain", "secure"}]
  /\ signal = [e \in Exchanges |-> "live"]
  /\ listening = [e \in Exchanges |-> FALSE]
  /\ promise = [e \in Exchanges |-> "idle"]
  /\ request = [e \in Exchanges |-> "none"]
  /\ socket = [e \in Exchanges |-> "none"]
  /\ peer = [e \in Exchanges |-> Nobody]
  /\ verified = [e \in Exchanges |-> FALSE]
  /\ response = [e \in Exchanges |-> "none"]
  /\ bytes = [e \in Exchanges |-> 0]

-----------------------------------------------------------------------------
(* The closures shared by the handlers.                                    *)

Release(e) ==
  IF released[e]
  THEN UNCHANGED <<active, released>>
  ELSE /\ active' = active - 1
       /\ released' = [released EXCEPT ![e] = TRUE]

\* Mutant of Settle: the request is not destroyed.
SettleWithoutDestroy(e, outcome) ==
  IF promise[e] # "pending"
  THEN UNCHANGED <<promise, listening, request, socket, response>>
  ELSE /\ promise' = [promise EXCEPT ![e] = outcome]
       /\ listening' = [listening EXCEPT ![e] = FALSE]
       /\ UNCHANGED <<request, socket, response>>

(* fail() and succeed(): the first call settles the promise, detaches the  *)
(* abort listener and destroys response and request; later calls return.   *)
Settle(e, outcome) ==
  IF promise[e] # "pending"
  THEN UNCHANGED <<promise, listening, request, socket, response>>
  ELSE /\ promise' = [promise EXCEPT ![e] = outcome]
       /\ listening' = [listening EXCEPT ![e] = FALSE]
       /\ request' = [request EXCEPT ![e] = IF @ = "open" THEN "destroyed" ELSE @]
       /\ socket' = [socket EXCEPT ![e] =
                       IF @ \in {"connecting", "connected"} THEN "destroyed" ELSE @]
       /\ response' = [response EXCEPT ![e] =
                         IF @ # "streaming" THEN @
                         ELSE IF outcome = "resolved" THEN "ended" ELSE "destroyed"]

Fail(e) == Settle(e, "rejected")
Succeed(e) == Settle(e, "resolved")

-----------------------------------------------------------------------------
(* exchange(): the call.                                                   *)

\* Mutant of CanAcquire: one connection too many.
CanAcquireOffByOne(e) == signal[e] = "live" /\ active <= OutboundConnections

CanAcquire(e) == signal[e] = "live" /\ active < OutboundConnections

(* The address is not public, the signal is aborted or the limiter is full: *)
(* the call throws before it holds anything.  Or Node throws at the request *)
(* options, and the slot just taken goes back in the same call.            *)
Refuse(e) ==
  /\ promise[e] = "idle"
  /\ promise' = [promise EXCEPT ![e] = "rejected"]
  /\ UNCHANGED <<active, released, kind, signal, listening, request, socket, peer,
                 verified, response, bytes>>

\* Mutant of Start: the abort listener is not attached.
StartDeaf(e) ==
  /\ promise[e] = "idle"
  /\ CanAcquire(e)
  /\ active' = active + 1
  /\ released' = [released EXCEPT ![e] = FALSE]
  /\ promise' = [promise EXCEPT ![e] = "pending"]
  /\ request' = [request EXCEPT ![e] = "open"]
  /\ UNCHANGED <<kind, signal, listening, socket, peer, verified, response, bytes>>

Start(e) ==
  /\ promise[e] = "idle"
  /\ CanAcquire(e)
  /\ active' = active + 1
  /\ released' = [released EXCEPT ![e] = FALSE]
  /\ promise' = [promise EXCEPT ![e] = "pending"]
  /\ listening' = [listening EXCEPT ![e] = TRUE]
  /\ request' = [request EXCEPT ![e] = "open"]
  /\ UNCHANGED <<kind, signal, socket, peer, verified, response, bytes>>

-----------------------------------------------------------------------------
(* Events of the request and its socket.                                   *)

(* 'socket': a connection is under way; the slot now belongs to it.        *)
SocketAssigned(e) ==
  /\ request[e] = "open"
  /\ socket[e] = "none"
  /\ socket' = [socket EXCEPT ![e] = "connecting"]
  /\ UNCHANGED <<active, released, kind, signal, listening, promise, request, peer,
                 verified, response, bytes>>

Trusted(e, p) == p.pinned /\ (kind[e] # "plain" => p.certified)

(* 'connect' or 'secureConnect': verify() accepts the peer or fails.       *)
Connected(e, p) ==
  /\ socket[e] = "connecting"
  /\ peer' = [peer EXCEPT ![e] = p]
  /\ IF signal[e] = "live" /\ Trusted(e, p)
     THEN /\ verified' = [verified EXCEPT ![e] = TRUE]
          /\ socket' = [socket EXCEPT ![e] = "connected"]
          /\ UNCHANGED <<promise, listening, request, response>>
     ELSE /\ Fail(e)
          /\ UNCHANGED verified
  /\ UNCHANGED <<active, released, kind, signal, bytes>>

(* 'error', 'upgrade', or one informational response too many.  Destroying *)
(* a request makes Node emit a late 'error' too.                           *)
RequestError(e) ==
  /\ request[e] \in {"open", "destroyed"}
  /\ Fail(e)
  /\ UNCHANGED <<active, released, kind, signal, peer, verified, bytes>>

(* 'response' with its headers.  The socket may have lost its address, and *)
(* status or headers may be unacceptable.                                  *)
Response(e, sameSocket, acceptable) ==
  /\ request[e] = "open"
  /\ socket[e] = "connected"
  /\ response[e] = "none"
  /\ IF signal[e] = "live" /\ verified[e] /\ sameSocket /\ acceptable
     THEN IF kind[e] = "doh"
          THEN /\ response' = [response EXCEPT ![e] = "streaming"]
               /\ UNCHANGED <<promise, listening, request, socket>>
          ELSE Succeed(e)
     ELSE Fail(e)
  /\ UNCHANGED <<active, released, kind, signal, peer, verified, bytes>>

-----------------------------------------------------------------------------
(* Events of the body of a DNS answer.                                     *)

Data(e) ==
  /\ response[e] = "streaming"
  /\ bytes' = [bytes EXCEPT ![e] = @ + 1]
  /\ IF bytes[e] + 1 > DohBytes
     THEN Fail(e)
     ELSE UNCHANGED <<promise, listening, request, socket, response>>
  /\ UNCHANGED <<active, released, kind, signal, peer, verified>>

End(e) ==
  /\ response[e] = "streaming"
  /\ Succeed(e)
  /\ UNCHANGED <<active, released, kind, signal, peer, verified, bytes>>

(* The peer drops the connection inside the body: Node closes the socket,  *)
(* whose 'close' releases, and only then tells the response.               *)
Cut(e) ==
  /\ response[e] = "streaming"
  /\ response' = [response EXCEPT ![e] = "cut"]
  /\ socket' = [socket EXCEPT ![e] = "closed"]
  /\ request' = [request EXCEPT ![e] = "closed"]
  /\ Release(e)
  /\ UNCHANGED <<kind, signal, listening, promise, peer, verified, bytes>>

\* Mutant of Aborted: what was read of a cut body is taken for the answer.
AbortedAccepted(e) ==
  /\ response[e] = "cut"
  /\ promise[e] = "pending"
  /\ Succeed(e)
  /\ UNCHANGED <<active, released, kind, signal, peer, verified, bytes>>

(* 'aborted' of the response.                                              *)
Aborted(e) ==
  /\ response[e] = "cut"
  /\ promise[e] = "pending"
  /\ Fail(e)
  /\ UNCHANGED <<active, released, kind, signal, peer, verified, bytes>>

-----------------------------------------------------------------------------
(* Closing, and the deadline.                                              *)

SocketClosed(e) ==
  /\ socket[e] = "destroyed"
  /\ socket' = [socket EXCEPT ![e] = "closed"]
  /\ Release(e)
  /\ UNCHANGED <<kind, signal, listening, promise, request, peer, verified, response, bytes>>

\* Mutant of RequestClosed: it releases although a socket is still there.
RequestClosedReleases(e) ==
  /\ request[e] = "destroyed"
  /\ request' = [request EXCEPT ![e] = "closed"]
  /\ Release(e)
  /\ UNCHANGED <<kind, signal, listening, promise, socket, peer, verified, response, bytes>>

\* Mutant of RequestClosed: a slot is left to its socket, even if there is none.
RequestClosedForgets(e) ==
  /\ request[e] = "destroyed"
  /\ request' = [request EXCEPT ![e] = "closed"]
  /\ UNCHANGED <<kind, signal, active, released, listening, promise, socket, peer,
                 verified, response, bytes>>

(* 'close' of the request releases only when no socket was ever assigned;  *)
(* Node may emit it before the socket has closed.                          *)
RequestClosed(e) ==
  /\ request[e] = "destroyed"
  /\ request' = [request EXCEPT ![e] = "closed"]
  /\ IF socket[e] = "none" THEN Release(e) ELSE UNCHANGED <<active, released>>
  /\ UNCHANGED <<kind, signal, listening, promise, socket, peer, verified, response, bytes>>

(* The signal aborts: query timeout, request deadline or a lost client.    *)
Abort(e) ==
  /\ signal[e] = "live"
  /\ signal' = [signal EXCEPT ![e] = "aborted"]
  /\ IF listening[e]
     THEN Fail(e)
     ELSE UNCHANGED <<promise, listening, request, socket, response>>
  /\ UNCHANGED <<active, released, kind, peer, verified, bytes>>

Call(e) == Refuse(e) \/ Start(e)

Peer(e) ==
  \/ SocketAssigned(e)
  \/ \E p \in Peers : Connected(e, p)
  \/ RequestError(e)
  \/ \E sameSocket, acceptable \in BOOLEAN : Response(e, sameSocket, acceptable)
  \/ Data(e) \/ End(e) \/ Cut(e)

Node(e) == Aborted(e) \/ SocketClosed(e) \/ RequestClosed(e)

Next == \E e \in Exchanges : Call(e) \/ Peer(e) \/ Node(e) \/ Abort(e)

(* Every signal has a deadline (AbortSignal.timeout(3000) in dns.ts, the   *)
(* timer of app.ts), and Node finishes what destroy() began.  Nothing is   *)
(* assumed of the peer.                                                    *)
Fairness ==
  \A e \in Exchanges :
    /\ WF_exchangeVars(promise[e] = "pending" /\ Abort(e))
    /\ WF_exchangeVars(Aborted(e))
    /\ WF_exchangeVars(SocketClosed(e))
    /\ WF_exchangeVars(RequestClosed(e))

Spec == Init /\ [][Next]_exchangeVars

FairSpec == Spec /\ Fairness

-----------------------------------------------------------------------------
(* Properties.                                                             *)

\* Every variable has its type.
TypeOK ==
  /\ active \in Int
  /\ released \in [Exchanges -> BOOLEAN]
  /\ kind \in [Exchanges -> {"doh", "plain", "secure"}]
  /\ signal \in [Exchanges -> {"live", "aborted"}]
  /\ listening \in [Exchanges -> BOOLEAN]
  /\ promise \in [Exchanges -> {"idle", "pending", "resolved", "rejected"}]
  /\ request \in [Exchanges -> {"none", "open", "destroyed", "closed"}]
  /\ socket \in [Exchanges -> {"none", "connecting", "connected", "destroyed", "closed"}]
  /\ peer \in [Exchanges -> Peers]
  /\ verified \in [Exchanges -> BOOLEAN]
  /\ response \in [Exchanges -> {"none", "streaming", "ended", "cut", "destroyed"}]
  /\ bytes \in [Exchanges -> 0..DohBytes + 1]

Holding == {e \in Exchanges : ~released[e]}

Settled(e) == promise[e] \in {"resolved", "rejected"}

SocketAlive(e) == socket[e] \in {"connecting", "connected", "destroyed"}

\* Hard capacity: the limiter counts every exchange whose socket has not closed,
\* settled or not, so sockets on their way down still hold their slot
\* (network.ts:128-130, 157, limits.ts:12-23).
LiveSocketsHoldSlots ==
  /\ active = Cardinality(Holding)
  /\ \A e \in Exchanges : SocketAlive(e) \/ request[e] = "open" => e \in Holding

\* No exchange outlives its signal: an abort settles it in the same turn, also
\* while its body is read or cut (network.ts:73, 218-219).
AbortSettles ==
  \A e \in Exchanges : signal[e] = "aborted" => promise[e] # "pending"

\* A settled exchange has let go of everything but a closing socket: no open
\* request, no body being read, no listener left on a signal that lives longer
\* than the exchange (network.ts:74-90).
QuietOnceSettled ==
  \A e \in Exchanges :
    Settled(e) => /\ request[e] # "open"
                  /\ socket[e] \notin {"connecting", "connected"}
                  /\ response[e] # "streaming"
                  /\ ~listening[e]

\* A result was observed from the pinned address, over TLS only with a verified
\* certificate, and a DNS answer is whole and within its cap, whatever the peer
\* does and whenever it stops (network.ts:131-150, 176-216).
ResultIsGenuine ==
  \A e \in Exchanges :
    promise[e] = "resolved" =>
      /\ Trusted(e, peer[e])
      /\ kind[e] = "doh" => response[e] = "ended" /\ bytes[e] <= DohBytes

\* The outcome of an exchange is final: late errors, aborts and closes, which
\* Node does deliver after destroy(), change nothing (network.ts:75-90).
OutcomeIsFinal ==
  [][\A e \in Exchanges : Settled(e) => promise'[e] = promise[e]]_exchangeVars

\* Every slot comes back (network.ts:128-130, 157).
EverySlotReturns ==
  \A e \in Exchanges : e \in Holding ~> e \notin Holding

\* The limiter as its callers see it.
Pool == INSTANCE CapacityPool
          WITH Holders <- Exchanges, Capacity <- OutboundConnections, held <- Holding

\* The exchanges together implement a pool of OutboundConnections slots
\* (limits.ts:4-24, network.ts:63-226).
ImplementsPool == Pool!Spec
=============================================================================

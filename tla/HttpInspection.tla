--------------------------- MODULE HttpInspection ---------------------------
(***************************************************************************)
(* One HTTP inspection (inspectHttp in http.ts) with the resolution of its *)
(* targets (DnsResolver.addresses in dns.ts) and the budget of queries all *)
(* of its hops share (RequestBudget in limits.ts).                         *)
(*                                                                         *)
(* The names' owners and the web servers answer anything, and something    *)
(* else the next time.  A step is one turn: what follows an answer, up to  *)
(* the next lookup or connection.                                          *)
(***************************************************************************)
EXTENDS Naturals, Sequences, SequencesExt

CONSTANTS Hosts,            \* names that occur in URLs and answers
          Denied,           \* those that are denied or not public
          Public,           \* addresses publicAddress() lets pass
          Private,          \* addresses it does not
          HttpHops,         \* LIMITS.httpHops
          HttpAddresses,    \* LIMITS.httpAddresses
          DnsQueries        \* LIMITS.dnsQueries

ASSUME HttpAssumption ==
    /\ Denied \subseteq Hosts
    /\ Public \cap Private = {} /\ (Public \cup Private) \cap Hosts = {}
    /\ "none" \notin Hosts \cup Public \cup Private
    /\ HttpHops \in Nat \ {0} /\ HttpAddresses \in Nat \ {0} /\ DnsQueries \in Nat

VARIABLES
    aborted,        \* the request's signal
    phase,          \* "idle", "resolving", "contacting" or "done"
    target,         \* the URL that is looked at
    seen,           \* URLs looked at so far
    hops,           \* data.hops
    shown,          \* all addresses in the answers for the target (history)
    lookup,         \* the lookup of addresses() that is under way
    values,         \* addresses found so far for the target
    queries,        \* budget.queries
    pinned,         \* the address that is contacted
    termination,    \* data.termination, "none" when there is no data
    error           \* the code of the error

vars == <<aborted, phase, target, seen, hops, shown, lookup, values, queries, pinned,
          termination, error>>
chain == <<target, seen, hops, shown>>
resolution == <<lookup, values, queries>>
outcome == <<termination, error>>

None == "none"
Literals == Public \cup Private
Urls == [secure : BOOLEAN, host : Hosts \cup Literals]
NoUrl == [secure |-> FALSE, host |-> None]
Unusable == [secure |-> FALSE, host |-> "unusable"]
Locations == Urls \cup {NoUrl, Unusable}
NoLookup == [type |-> None, name |-> None, asked |-> {}]
Codes == {"TARGET_BLOCKED", "RATE_LIMITED", "UPSTREAM_ERROR", "TIMEOUT", "LIMIT_EXCEEDED"}

Init ==
    /\ aborted = FALSE /\ phase = "idle"
    /\ target = NoUrl /\ seen = {} /\ hops = <<>> /\ shown = {}
    /\ lookup = NoLookup /\ values = <<>> /\ queries = 0
    /\ pinned = None /\ termination = None /\ error = None

-----------------------------------------------------------------------------
(* The end of an inspection.  An error before the first hop is the reply   *)
(* of the request; later it completes a partial report.                    *)

TerminationFor(code) ==
    CASE code = "TIMEOUT" -> "timeout"
      [] code = "TARGET_BLOCKED" -> "blocked"
      [] code = "LIMIT_EXCEEDED" -> "limit-exceeded"
      [] OTHER -> "upstream-error"

EndAs(reason, code) ==
    /\ phase' = "done"
    /\ error' = code
    /\ termination' = IF hops' = <<>> THEN None ELSE reason
    /\ UNCHANGED <<resolution, pinned>>

Fail(code) == EndAs(TerminationFor(code), code)

-----------------------------------------------------------------------------
(* addresses(): two types of lookup, through any aliases.                  *)

Contact(address) ==
    /\ phase' = "contacting" /\ pinned' = address
    /\ UNCHANGED outcome

Ask(type, name, asked, found) ==
    \/ /\ queries < DnsQueries
       /\ phase' = "resolving" /\ queries' = queries + 1
       /\ lookup' = [type |-> type, name |-> name, asked |-> asked \cup {name}]
       /\ values' = found
       /\ UNCHANGED <<pinned, outcome>>
    \/ queries >= DnsQueries /\ Fail("LIMIT_EXCEEDED")

Resolved(found) ==
    \/ found = <<>> /\ Fail("UPSTREAM_ERROR")
    \/ Len(found) > HttpAddresses /\ Fail("LIMIT_EXCEEDED")
    \/ /\ Len(found) \in 1..HttpAddresses
       /\ Contact(found[1])
       /\ values' = found
       /\ UNCHANGED <<lookup, queries>>

TypeDone(found) ==
    \/ lookup.type = "A" /\ Ask("AAAA", target.host, {}, found)
    \/ lookup.type = "AAAA" /\ Resolved(found)

Follow(alias) ==
    \/ alias \in Denied /\ Fail("TARGET_BLOCKED")
    \/ alias \in lookup.asked \ Denied /\ Fail("UPSTREAM_ERROR")
    \/ /\ alias \notin lookup.asked \cup Denied
       /\ Ask(lookup.type, alias, lookup.asked, values)

LookupFails(code) ==
    /\ phase = "resolving"
    /\ aborted => code = "TIMEOUT"
    /\ UNCHANGED <<chain, aborted>>
    /\ Fail(code)

NameUnknown ==
    /\ phase = "resolving" /\ ~aborted
    /\ UNCHANGED <<chain, aborted>>
    /\ Fail("UPSTREAM_ERROR")

NoData ==
    /\ phase = "resolving" /\ ~aborted
    /\ UNCHANGED <<chain, aborted>>
    /\ TypeDone(values)

Used(found, aliases) ==
    \/ (Len(aliases) > 1 \/ (aliases # <<>> <=> found # <<>>)) /\ Fail("UPSTREAM_ERROR")
    \/ found # <<>> /\ aliases = <<>> /\ TypeDone(values \o found)
    \/ found = <<>> /\ Len(aliases) = 1 /\ Follow(aliases[1])

\* Mutant of Answered: only the addresses that will be used are checked.
AnsweredSelectively(found, stray, aliases) ==
    /\ phase = "resolving" /\ ~aborted
    /\ shown' = shown \cup Range(found) \cup stray
    /\ UNCHANGED <<target, seen, hops, aborted>>
    /\ IF Range(found) \cap Private # {} THEN Fail("TARGET_BLOCKED")
                                         ELSE Used(found, aliases)

\* An answer has addresses of the asked name and type, other addresses, and
\* aliases of the asked name.
Answered(found, stray, aliases) ==
    /\ phase = "resolving" /\ ~aborted
    /\ shown' = shown \cup Range(found) \cup stray
    /\ UNCHANGED <<target, seen, hops, aborted>>
    /\ IF (Range(found) \cup stray) \cap Private # {} THEN Fail("TARGET_BLOCKED")
                                                      ELSE Used(found, aliases)

-----------------------------------------------------------------------------
(* The loop over the hops                                                  *)

\* httpTarget(), for a URL.
Acceptable(url) == url.host \in Public \cup (Hosts \ Denied)

\* Mutant of Visit: URLs seen are not remembered.
VisitAgain(url) ==
    /\ target' = url /\ shown' = {}
    /\ UNCHANGED seen
    /\ \/ url.host \in Literals /\ Contact(url.host) /\ UNCHANGED resolution
       \/ url.host \in Hosts /\ Ask("A", url.host, {}, <<>>)

Visit(url) ==
    /\ target' = url /\ shown' = {}
    /\ \/ /\ url \in seen
          /\ EndAs("redirect-loop", "TARGET_BLOCKED")
          /\ UNCHANGED seen
       \/ /\ url \notin seen
          /\ seen' = seen \cup {url}
          /\ \/ url.host \in Literals /\ Contact(url.host) /\ UNCHANGED resolution
             \/ url.host \in Hosts /\ Ask("A", url.host, {}, <<>>)

Start(url) ==
    /\ phase = "idle"
    /\ UNCHANGED <<hops, aborted>>
    /\ \/ Acceptable(url) /\ Visit(url)
       \/ ~Acceptable(url) /\ Fail("TARGET_BLOCKED") /\ UNCHANGED <<target, seen, shown>>

\* redirectTarget()
MayRedirect(from, to) == to \in Urls /\ Acceptable(to) /\ (from.secure => to.secure)

\* The connection fails, or its headers do not pass.
ConnectionFails(code) ==
    /\ phase = "contacting"
    /\ aborted => code = "TIMEOUT"
    /\ UNCHANGED <<chain, aborted>>
    /\ Fail(code)

\* A response from the peer's address, with a location perhaps, which counts
\* only when the status is that of a redirect.
Responds(address, redirects, location) ==
    /\ phase = "contacting" /\ ~aborted
    /\ address = pinned
    /\ hops' = Append(hops, [url |-> target, address |-> address,
                             next |-> IF redirects THEN location ELSE NoUrl])
    /\ UNCHANGED aborted
    /\ IF ~redirects \/ location = NoUrl THEN
            /\ EndAs("complete", None)
            /\ UNCHANGED <<target, seen, shown>>
       ELSE IF Len(hops') >= HttpHops THEN
            /\ EndAs("redirect-limit", "LIMIT_EXCEEDED")
            /\ UNCHANGED <<target, seen, shown>>
       ELSE IF MayRedirect(target, location) THEN Visit(location)
       ELSE /\ \/ Fail("TARGET_BLOCKED")
               \/ location = Unusable /\ Fail("UPSTREAM_ERROR")
            /\ UNCHANGED <<target, seen, shown>>

\* The connected peer is not the one that was checked.
WrongPeer(address) ==
    /\ phase = "contacting" /\ ~aborted
    /\ address # pinned
    /\ UNCHANGED <<chain, aborted>>
    /\ Fail("TARGET_BLOCKED")

\* The deadline, or the client leaves.
Abort ==
    /\ phase \in {"resolving", "contacting"} /\ ~aborted
    /\ aborted' = TRUE
    /\ UNCHANGED <<phase, chain, resolution, pinned, outcome>>

UpTo(n, S) == UNION {[1..k -> S] : k \in 0..n}

Next ==
    \/ \E url \in Urls : Start(url)
    \/ \E code \in Codes : LookupFails(code) \/ ConnectionFails(code)
    \/ NameUnknown \/ NoData
    \/ \E found \in UpTo(2, Literals), stray \in {{}, Private}, aliases \in UpTo(2, Hosts) :
          Answered(found, stray, aliases)
    \/ \E address \in Literals, redirects \in BOOLEAN, location \in Locations :
          Responds(address, redirects, location)
    \/ \E address \in Literals : WrongPeer(address)
    \/ Abort

Spec == Init /\ [][Next]_vars

-----------------------------------------------------------------------------
(* Properties                                                              *)

\* A connection goes only where the checks of this very hop allow: to a public
\* address, written in the URL or found by the lookups made for this target since
\* the last hop, of which no answer held a private one ("Never select a 'good'
\* subset", dns.ts:103); of a host that is not denied, and never from https down
\* to http; a name that is asked for is never denied either, and the lookups of
\* all hops together keep to one budget (limits.ts:31).
HopsAreChecked ==
    /\ phase # "idle" => queries <= DnsQueries
    /\ phase = "contacting" =>
          /\ pinned \in Public /\ shown \cap Private = {}
          /\ IF target.host \in Hosts THEN values # <<>> /\ pinned = Head(values)
                                      ELSE pinned = target.host
    /\ phase = "resolving" => lookup.name \notin Denied
    /\ phase \in {"resolving", "contacting"} =>
          /\ target.host \notin Denied
          /\ \A i \in DOMAIN hops : hops[i].url.secure => target.secure

LastHop == hops[Len(hops)]

\* The report tells the chain as it was and how it ended: every hop is where the
\* one before pointed, no URL is visited twice, the chain is no longer than the
\* cap, and it is called complete, looping or too long exactly when it is.
ReportIsTrue ==
    /\ \A i \in 1..(Len(hops) - 1) : hops[i + 1].url = hops[i].next
    /\ \A i, j \in DOMAIN hops : hops[i].url = hops[j].url => i = j
    /\ Len(hops) <= HttpHops
    /\ phase = "done" =>
          /\ hops = <<>> => error # None
          /\ aborted => error = "TIMEOUT"
          /\ hops # <<>> =>
                /\ termination = "complete" <=> LastHop.next = NoUrl
                /\ termination = "complete" <=> error = None
                /\ termination = "redirect-limit" <=>
                      Len(hops) = HttpHops /\ LastHop.next # NoUrl
                /\ termination = "redirect-loop" <=>
                      /\ Len(hops) < HttpHops
                      /\ \E i \in DOMAIN hops : hops[i].url = LastHop.next
                      /\ MayRedirect(LastHop.url, LastHop.next)

=============================================================================

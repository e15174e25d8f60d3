-------------------------- MODULE InspectionProofs --------------------------
(***************************************************************************)
(* Proofs about HttpInspection and Inspections, for any names, addresses   *)
(* and limits: which addresses a web inspection contacts and what it       *)
(* reports; what an e-mail inspection reports, whatever the records say    *)
(* and however they refer to each other.                                   *)
(***************************************************************************)
EXTENDS Inspections, SequenceTheorems, TLAPS

-----------------------------------------------------------------------------
(* Web inspections                                                         *)

Active == phase \in {"resolving", "contacting"}

\* The target of an inspection that is under way has passed its checks, and no
\* answer for it so far held a private address.
Targeted ==
    Active =>
        /\ target \in Urls /\ Acceptable(target)
        /\ shown \cap Private = {}
        /\ \A i \in DOMAIN hops : hops[i].url.secure => target.secure

\* A lookup is for a name that may be asked, on behalf of a target that has one.
Asking ==
    phase = "resolving" => /\ target.host \in Hosts /\ lookup.type \in {"A", "AAAA"}
                           /\ lookup.name \in Hosts \ Denied

\* The address that is contacted is the target's own or the first that was found.
Pinned ==
    phase = "contacting" =>
        /\ pinned \in Public
        /\ IF target.host \in Hosts THEN values # <<>> /\ pinned = Head(values)
                                    ELSE pinned = target.host

Typed ==
    /\ phase \in {"idle", "resolving", "contacting", "done"}
    /\ hops \in Seq([url : Urls, address : Literals, next : Locations])
    /\ phase = "idle" => hops = <<>>
    /\ values \in Seq(Public)
    /\ queries \in Nat /\ queries <= DnsQueries

IInv == Typed /\ Targeted /\ Asking /\ Pinned

-----------------------------------------------------------------------------

LEMMA SomeAreSequences ==
    ASSUME NEW S, NEW found \in UpTo(2, S)
    PROVE  found \in Seq(S) /\ Range(found) \subseteq S
<1>1. PICK k \in 0..2 : found \in [1..k -> S]
  BY DEF UpTo
<1>2. found \in Seq(S)
  BY <1>1, SeqDef
<1> QED  BY <1>1, <1>2 DEF Range

LEMMA OfPublic ==
    ASSUME NEW found \in Seq(Literals), Range(found) \cap Private = {}
    PROVE  found \in Seq(Public)
<1>1. \A i \in 1..Len(found) : found[i] \in Public
  BY DEF Range, Literals
<1> QED  BY <1>1, SeqDef

-----------------------------------------------------------------------------
(* The two ways a turn goes on, and the one it ends in.                    *)

LEMMA EndKeeps ==
    ASSUME IInv, NEW reason, NEW code, EndAs(reason, code),
           hops' \in Seq([url : Urls, address : Literals, next : Locations])
    PROVE  IInv'
BY DEF IInv, Typed, Targeted, Asking, Pinned, Active, EndAs, resolution

LEMMA FailKeeps ==
    ASSUME IInv, NEW code, Fail(code),
           hops' \in Seq([url : Urls, address : Literals, next : Locations])
    PROVE  IInv'
BY EndKeeps DEF Fail

\* What is needed of the target when a turn waits for a lookup or a connection.
OnTarget ==
    /\ target' \in Urls /\ Acceptable(target')
    /\ shown' \cap Private = {}
    /\ hops' \in Seq([url : Urls, address : Literals, next : Locations])
    /\ \A i \in DOMAIN hops' : hops'[i].url.secure => target'.secure

LEMMA AskKeeps ==
    ASSUME IInv, OnTarget, target'.host \in Hosts,
           NEW type \in {"A", "AAAA"}, NEW name \in Hosts \ Denied, NEW asked,
           NEW found \in Seq(Public), Ask(type, name, asked, found)
    PROVE  IInv'
<1>1. CASE Fail("LIMIT_EXCEEDED")
  BY <1>1, FailKeeps DEF OnTarget
<1>2. CASE ~Fail("LIMIT_EXCEEDED")
  BY <1>2, HttpAssumption
     DEF Ask, OnTarget, IInv, Typed, Targeted, Asking, Pinned, Active, Acceptable
<1> QED  BY <1>1, <1>2

LEMMA ResolvedKeeps ==
    ASSUME IInv, OnTarget, target'.host \in Hosts,
           NEW found \in Seq(Public), Resolved(found)
    PROVE  IInv'
<1>1. CASE \E code \in Codes : Fail(code)
  BY <1>1, FailKeeps DEF OnTarget
<1>2. CASE /\ Len(found) \in 1..HttpAddresses
           /\ Contact(found[1]) /\ values' = found /\ UNCHANGED <<lookup, queries>>
  <2>1. found # <<>> /\ Head(found) = found[1] /\ found[1] \in Public
    BY <1>2, HttpAssumption
  <2> QED  BY <1>2, <2>1
           DEF Contact, OnTarget, IInv, Typed, Targeted, Asking, Pinned, Active
<1> QED  BY <1>1, <1>2 DEF Resolved, Codes

-----------------------------------------------------------------------------
(* The steps                                                               *)

\* A lookup's answer is used only for a target that is kept.
Resolving ==
    /\ phase = "resolving" /\ UNCHANGED <<target, hops>>
    /\ shown' \cap Private = {}

LEMMA ResolvingOnTarget ==
    ASSUME IInv, Resolving
    PROVE  OnTarget /\ target'.host = target.host /\ target.host \in Hosts
BY DEF IInv, Typed, Targeted, Asking, Active, Resolving, OnTarget, Acceptable

LEMMA TypeDoneKeeps ==
    ASSUME IInv, Resolving, NEW found \in Seq(Public), TypeDone(found)
    PROVE  IInv'
<1>1. target.host \in Hosts \ Denied
  <2>1. target.host \in Hosts /\ Acceptable(target)
    BY DEF IInv, Targeted, Asking, Resolving, Active
  <2> QED  BY <2>1, HttpAssumption DEF Acceptable
<1>2. CASE Ask("AAAA", target.host, {}, found)
  BY <1>1, <1>2, AskKeeps, ResolvingOnTarget
<1>3. CASE Resolved(found)
  BY <1>3, ResolvedKeeps, ResolvingOnTarget
<1> QED  BY <1>2, <1>3 DEF TypeDone

LEMMA FollowKeeps ==
    ASSUME IInv, Resolving, NEW alias \in Hosts, Follow(alias)
    PROVE  IInv'
<1>1. CASE \E code \in Codes : Fail(code)
  BY <1>1, FailKeeps DEF Resolving, IInv, Typed
<1>2. CASE alias \notin Denied /\ Ask(lookup.type, alias, lookup.asked, values)
  BY <1>2, AskKeeps, ResolvingOnTarget DEF IInv, Typed, Asking, Resolving
<1> QED  BY <1>1, <1>2 DEF Follow, Codes

LEMMA AnsweredKeeps ==
    ASSUME IInv, NEW found \in UpTo(2, Literals), NEW stray \in {{}, Private},
           NEW aliases \in UpTo(2, Hosts), Answered(found, stray, aliases)
    PROVE  IInv'
<1>1. CASE \E code \in Codes : Fail(code)
  BY <1>1, FailKeeps DEF Answered, IInv, Typed
<1>2. CASE (Range(found) \cup stray) \cap Private = {}
           /\ \A code \in Codes : ~Fail(code)
  <2>1. found \in Seq(Public) /\ Range(found) \cap Private = {}
    BY <1>2, SomeAreSequences, OfPublic
  <2>2. Resolving
    BY <1>2 DEF Answered, Resolving, IInv, Targeted, Active
  <2>3. values \o found \in Seq(Public)
    BY <2>1 DEF IInv, Typed
  <2>4. aliases \in Seq(Hosts)
    BY SomeAreSequences
  <2>5. \/ TypeDone(values \o found)
        \/ Len(aliases) = 1 /\ Follow(aliases[1])
    BY <1>2 DEF Answered, Used, Codes
  <2>6. CASE TypeDone(values \o found)
    BY <2>2, <2>3, <2>6, TypeDoneKeeps
  <2>7. CASE Len(aliases) = 1 /\ Follow(aliases[1])
    <3>1. aliases[1] \in Hosts
      BY <2>4, <2>7
    <3> QED  BY <2>2, <2>7, <3>1, FollowKeeps
  <2> QED  BY <2>5, <2>6, <2>7
<1> QED  BY <1>1, <1>2 DEF Answered, Codes

LEMMA NoDataKeeps ==
    ASSUME IInv, NoData
    PROVE  IInv'
<1>1. Resolving /\ values \in Seq(Public) /\ TypeDone(values)
  BY DEF NoData, chain, Resolving, IInv, Targeted, Typed, Active
<1> QED  BY <1>1, TypeDoneKeeps

\* A hop to a URL that passed its checks, from hops that allow it.
LEMMA VisitKeeps ==
    ASSUME IInv, NEW url \in Urls, Acceptable(url), Visit(url),
           hops' \in Seq([url : Urls, address : Literals, next : Locations]),
           \A i \in DOMAIN hops' : hops'[i].url.secure => url.secure
    PROVE  IInv'
<1>1. OnTarget /\ target' = url
  BY DEF Visit, OnTarget
<1>2. CASE EndAs("redirect-loop", "TARGET_BLOCKED")
  BY <1>2, EndKeeps
<1>3. CASE url.host \in Literals /\ Contact(url.host) /\ UNCHANGED resolution
  <2>1. url.host \in Public /\ url.host \notin Hosts
    BY <1>3, HttpAssumption DEF Acceptable, Literals
  <2> QED  BY <1>1, <1>3, <2>1
           DEF Contact, OnTarget, resolution, IInv, Typed, Targeted, Asking, Pinned, Active
<1>4. CASE url.host \in Hosts /\ Ask("A", url.host, {}, <<>>)
  <2>1. url.host \in Hosts \ Denied /\ <<>> \in Seq(Public)
    BY <1>4, HttpAssumption DEF Acceptable
  <2> QED  BY <1>1, <1>4, <2>1, AskKeeps
<1> QED  BY <1>2, <1>3, <1>4 DEF Visit

LEMMA StartKeeps ==
    ASSUME IInv, NEW url \in Urls, Start(url)
    PROVE  IInv'
<1>1. hops' = <<>> /\ hops' \in Seq([url : Urls, address : Literals, next : Locations])
  BY DEF Start, IInv, Typed
<1>2. CASE Fail("TARGET_BLOCKED")
  BY <1>1, <1>2, FailKeeps
<1>3. CASE Acceptable(url) /\ Visit(url)
  BY <1>1, <1>3, VisitKeeps
<1> QED  BY <1>2, <1>3 DEF Start

\* The next hop is looked at only after the one that answered was noted.
LEMMA RespondsKeeps ==
    ASSUME IInv, NEW address \in Literals, NEW redirects \in BOOLEAN,
           NEW location \in Locations, Responds(address, redirects, location)
    PROVE  IInv'
<1> DEFINE hop == [url |-> target, address |-> address,
                   next |-> IF redirects THEN location ELSE NoUrl]
<1>1. hop \in [url : Urls, address : Literals, next : Locations] /\ hops' = Append(hops, hop)
  BY DEF Responds, IInv, Targeted, Active, Locations
<1>2. /\ hops' \in Seq([url : Urls, address : Literals, next : Locations])
      /\ DOMAIN hops' = DOMAIN hops \cup {Len(hops) + 1}
      /\ hops'[Len(hops) + 1] = hop /\ \A i \in DOMAIN hops : hops'[i] = hops[i]
  BY <1>1 DEF IInv, Typed
<1>3. CASE \E reason, code : EndAs(reason, code)
  BY <1>2, <1>3, EndKeeps
<1>4. CASE MayRedirect(target, location) /\ Visit(location)
  <2>1. \A i \in DOMAIN hops' : hops'[i].url.secure => location.secure
    BY <1>2, <1>4 DEF MayRedirect, Responds, IInv, Targeted, Active
  <2> QED  BY <1>2, <1>4, <2>1, VisitKeeps DEF MayRedirect
<1> QED  BY <1>3, <1>4 DEF Responds, Fail

THEOREM Inductive == Spec => []IInv
<1>1. Init => IInv
  BY HttpAssumption DEF Init, IInv, Typed, Targeted, Asking, Pinned, Active
<1>2. IInv /\ [Next]_vars => IInv'
  <2> SUFFICES ASSUME IInv, [Next]_vars  PROVE IInv'
    OBVIOUS
  <2>1. ASSUME NEW url \in Urls, Start(url)  PROVE IInv'
    BY <2>1, StartKeeps
  <2>2. ASSUME NEW code, NEW address,
               \/ LookupFails(code) \/ ConnectionFails(code)
               \/ NameUnknown \/ WrongPeer(address)
        PROVE  IInv'
    <3>1. hops' = hops /\ \E c : Fail(c)
      BY <2>2 DEF LookupFails, ConnectionFails, NameUnknown, WrongPeer, chain
    <3> QED  BY <3>1, FailKeeps DEF IInv, Typed
  <2>3. CASE NoData
    BY <2>3, NoDataKeeps
  <2>4. ASSUME NEW found \in UpTo(2, Literals), NEW stray \in {{}, Private},
               NEW aliases \in UpTo(2, Hosts), Answered(found, stray, aliases)
        PROVE  IInv'
    BY <2>4, AnsweredKeeps
  <2>5. ASSUME NEW address \in Literals, NEW redirects \in BOOLEAN,
               NEW location \in Locations, Responds(address, redirects, location)
        PROVE  IInv'
    BY <2>5, RespondsKeeps
  <2>6. CASE Abort
    BY <2>6 DEF Abort, chain, resolution, IInv, Typed, Targeted, Asking, Pinned, Active
  <2>7. CASE UNCHANGED vars
    BY <2>7 DEF vars, chain, resolution, IInv, Typed, Targeted, Asking, Pinned, Active
  <2> QED  BY <2>1, <2>2, <2>3, <2>4, <2>5, <2>6, <2>7 DEF Next
<1> QED  BY <1>1, <1>2, PTL DEF Spec

\* Every connection goes only where the checks of its own hop allow, and no
\* lookup is for a denied name or beyond the budget.
THEOREM HopsChecked == Spec => []HopsAreChecked
<1>1. IInv => HopsAreChecked
  BY HttpAssumption
     DEF IInv, Typed, Targeted, Asking, Pinned, Active, Acceptable, HopsAreChecked, Literals
<1> QED  BY <1>1, Inductive, PTL

-----------------------------------------------------------------------------
(* The report                                                              *)

\* The hops are a path without a repetition, and all of them are remembered.
Walked ==
    /\ Len(hops) <= HttpHops
    /\ \A i \in 1..(Len(hops) - 1) : hops[i + 1].url = hops[i].next
    /\ \A i, j \in DOMAIN hops : hops[i].url = hops[j].url => i = j
    /\ \A i \in DOMAIN hops : hops[i].url \in seen

\* The target is where the last hop pointed, and a new one.
Going ==
    /\ Len(hops) < HttpHops
    /\ \A i \in DOMAIN hops : hops[i].url # target
    /\ hops # <<>> => LastHop.next = target
    /\ target \in Urls

\* The hops and the target are remembered and nothing else: a loop is a real one.
Remembered ==
    /\ target \in seen
    /\ \A url \in seen : url = target \/ \E i \in DOMAIN hops : hops[i].url = url

Reported ==
    /\ hops = <<>> => error # None
    /\ aborted => error = "TIMEOUT"
    /\ hops # <<>> =>
          /\ termination = "complete" <=> LastHop.next = NoUrl
          /\ termination = "complete" <=> error = None
          /\ termination = "redirect-limit" <=> Len(hops) = HttpHops /\ LastHop.next # NoUrl
          /\ termination = "redirect-loop" <=>
                /\ Len(hops) < HttpHops
                /\ \E i \in DOMAIN hops : hops[i].url = LastHop.next
                /\ MayRedirect(LastHop.url, LastHop.next)

RInv ==
    /\ Walked
    /\ phase = "idle" => seen = {} /\ ~aborted
    /\ Active => Going /\ Remembered
    /\ phase = "done" => Reported

\* An error on the way to a target is reported as neither complete, nor a loop,
\* nor a chain that is too long.
LEMMA FailReports ==
    ASSUME Walked', Going', NEW code \in Codes, Fail(code), aborted' => code = "TIMEOUT"
    PROVE  RInv'
<1>1. phase' = "done" /\ error' = code /\ code # None
  BY DEF Fail, EndAs, Codes, None
<1>2. hops' # <<>> => /\ termination' = TerminationFor(code)
                      /\ termination' \notin {"complete", "redirect-limit", "redirect-loop"}
  BY DEF Fail, EndAs, TerminationFor, Codes
<1>3. target' # NoUrl
  BY HttpAssumption DEF Going, Urls, NoUrl, None, Literals
<1>4. Reported'
  BY <1>1, <1>2, <1>3 DEF Going, Reported
<1> QED  BY <1>1, <1>4 DEF RInv, Active

\* A turn that goes on with the same target, or fails on it.
LEMMA StayReports ==
    ASSUME RInv, Active, UNCHANGED <<target, seen, hops>>,
           \/ phase' \in {"resolving", "contacting"}
           \/ \E code \in Codes : Fail(code) /\ (aborted' => code = "TIMEOUT")
    PROVE  RInv'
<1>1. Walked' /\ Going' /\ Remembered'
  BY DEF RInv, Walked, Going, Remembered, LastHop
<1>2. CASE phase' \in {"resolving", "contacting"}
  BY <1>1, <1>2 DEF RInv, Active
<1>3. CASE \E code \in Codes : Fail(code) /\ (aborted' => code = "TIMEOUT")
  BY <1>1, <1>3, FailReports
<1> QED  BY <1>2, <1>3

LEMMA AnswersStay ==
    ASSUME NEW found, NEW stray, NEW aliases,
           \/ NoData \/ Answered(found, stray, aliases)
    PROVE  /\ Active /\ UNCHANGED <<target, seen, hops>> /\ ~aborted'
           /\ \/ phase' \in {"resolving", "contacting"}
              \/ \E code \in Codes : Fail(code)
<1> USE DEF TypeDone, Resolved, Follow, Ask, Contact, Active, Codes
<1>1. CASE NoData
  BY <1>1 DEF NoData, chain
<1>2. CASE Answered(found, stray, aliases)
  BY <1>2 DEF Answered, Used
<1> QED  BY <1>1, <1>2

LEMMA StartReports ==
    ASSUME IInv, RInv, NEW url \in Urls, Start(url)
    PROVE  RInv'
<1>1. hops = <<>> /\ hops' = <<>> /\ seen = {} /\ ~aborted'
  BY DEF Start, IInv, Typed, RInv
<1>2. CASE Fail("TARGET_BLOCKED") /\ UNCHANGED <<target, seen, shown>>
  BY <1>1, <1>2 DEF Fail, EndAs, RInv, Walked, Reported, Active, None
<1>3. CASE Visit(url)
  <2>1. Walked' /\ Going' /\ Remembered'
    BY <1>1, <1>3, HttpAssumption DEF Visit, Walked, Going, Remembered
  <2>2. \/ phase' \in {"resolving", "contacting"}
        \/ Fail("LIMIT_EXCEEDED")
    BY <1>1, <1>3 DEF Visit, Ask, Contact
  <2>3. CASE phase' \in {"resolving", "contacting"}
    BY <2>1, <2>3 DEF RInv, Active
  <2>4. CASE Fail("LIMIT_EXCEEDED")
    BY <1>1, <2>1, <2>4, FailReports DEF Codes
  <2> QED  BY <2>2, <2>3, <2>4
<1> QED  BY <1>2, <1>3 DEF Start

LEMMA RespondsReports ==
    ASSUME IInv, RInv, NEW address \in Literals, NEW redirects \in BOOLEAN,
           NEW location \in Locations, Responds(address, redirects, location)
    PROVE  RInv'
<1> DEFINE hop == [url |-> target, address |-> address,
                   next |-> IF redirects THEN location ELSE NoUrl]
<1>1. /\ hops' = Append(hops, hop) /\ phase = "contacting" /\ ~aborted'
      /\ Walked /\ Going /\ Remembered
  BY DEF Responds, RInv, Active
<1>2. /\ Len(hops') = Len(hops) + 1 /\ DOMAIN hops' = 1..(Len(hops) + 1)
      /\ DOMAIN hops = 1..Len(hops) /\ Len(hops) \in Nat
      /\ hops'[Len(hops) + 1] = hop /\ \A i \in DOMAIN hops : hops'[i] = hops[i]
      /\ LastHop' = hop /\ hops' # <<>>
      /\ hops # <<>> => LastHop = hops[Len(hops)]
  BY <1>1 DEF IInv, Typed, LastHop
<1>3. /\ Len(hops') <= HttpHops
      /\ \A i \in 1..(Len(hops') - 1) : hops'[i + 1].url = hops'[i].next
      /\ \A i, j \in DOMAIN hops' : hops'[i].url = hops'[j].url => i = j
  BY <1>1, <1>2, HttpAssumption DEF Walked, Going
<1>4. /\ LastHop'.url = target /\ LastHop'.next = IF redirects THEN location ELSE NoUrl
      /\ target \in seen
  BY <1>1, <1>2 DEF Remembered
<1>5. \A i \in DOMAIN hops' : hops'[i].url \in seen
  BY <1>1, <1>2, <1>4 DEF Walked
<1>6. \A url \in seen : \E i \in DOMAIN hops' : hops'[i].url = url
  <2> SUFFICES ASSUME NEW url \in seen  PROVE \E i \in DOMAIN hops' : hops'[i].url = url
    OBVIOUS
  <2>1. CASE url = target
    BY <2>1, <1>2
  <2>2. CASE \E i \in DOMAIN hops : hops[i].url = url
    BY <2>2, <1>2
  <2> QED  BY <1>1, <2>1, <2>2 DEF Remembered
<1>7. seen' = seen => Walked'
  BY <1>3, <1>5 DEF Walked
<1>8. CASE (~redirects \/ location = NoUrl) /\ EndAs("complete", None) /\ seen' = seen
  <2>1. /\ phase' = "done" /\ error' = None /\ termination' = "complete"
        /\ LastHop'.next = NoUrl
    BY <1>2, <1>4, <1>8 DEF EndAs
  <2>2. ~ MayRedirect(LastHop'.url, LastHop'.next)
    BY <2>1, HttpAssumption DEF MayRedirect, Urls, NoUrl, None, Literals
  <2>3. Reported'
    BY <1>1, <1>2, <2>1, <2>2 DEF Reported, MayRedirect, Acceptable
  <2> QED  BY <1>7, <1>8, <2>1, <2>3 DEF RInv, Active
<1>9. CASE /\ redirects /\ location # NoUrl /\ Len(hops') >= HttpHops
           /\ EndAs("redirect-limit", "LIMIT_EXCEEDED") /\ seen' = seen
  <2>1. /\ phase' = "done" /\ error' = "LIMIT_EXCEEDED" /\ termination' = "redirect-limit"
        /\ LastHop'.next # NoUrl /\ Len(hops') = HttpHops
    BY <1>2, <1>3, <1>4, <1>9, HttpAssumption DEF EndAs
  <2>2. Reported'
    BY <1>1, <1>2, <2>1 DEF Reported, None
  <2> QED  BY <1>7, <1>9, <2>1, <2>2 DEF RInv, Active
<1>10. CASE /\ redirects /\ location # NoUrl /\ Len(hops') < HttpHops
            /\ MayRedirect(target, location) /\ Visit(location)
  <2>1. CASE location \in seen /\ EndAs("redirect-loop", "TARGET_BLOCKED") /\ seen' = seen
    <3>1. /\ phase' = "done" /\ error' = "TARGET_BLOCKED" /\ termination' = "redirect-loop"
          /\ LastHop'.next = location
      BY <1>2, <1>4, <1>10, <2>1 DEF EndAs
    <3>2. MayRedirect(LastHop.url, LastHop.next)'
      BY <1>4, <1>10, <3>1 DEF MayRedirect, Acceptable
    <3>3. Reported'
      BY <1>1, <1>2, <1>6, <1>10, <2>1, <3>1, <3>2 DEF Reported, None
    <3> QED  BY <1>7, <2>1, <3>1, <3>3 DEF RInv, Active
  <2>2. CASE location \notin seen
    <3>1. seen' = seen \cup {location} /\ target' = location
      BY <1>10, <2>2 DEF Visit
    <3>2. Walked'
      BY <1>3, <1>5, <3>1 DEF Walked
    <3>3. Going'
      BY <1>2, <1>4, <1>5, <1>10, <2>2, <3>1 DEF Going, MayRedirect
    <3>4. Remembered'
      BY <1>6, <3>1 DEF Remembered
    <3>5. phase' \in {"resolving", "contacting"} \/ Fail("LIMIT_EXCEEDED")
      BY <1>10, <2>2 DEF Visit, Ask, Contact
    <3>6. CASE phase' \in {"resolving", "contacting"}
      BY <3>2, <3>3, <3>4, <3>6 DEF RInv, Active
    <3>7. CASE Fail("LIMIT_EXCEEDED")
      BY <1>1, <3>2, <3>3, <3>7, FailReports DEF Codes
    <3> QED  BY <3>5, <3>6, <3>7
  <2> QED  BY <1>10, <2>1, <2>2 DEF Visit
<1>11. CASE /\ redirects /\ location # NoUrl /\ Len(hops') < HttpHops
            /\ ~ MayRedirect(target, location) /\ seen' = seen
            /\ Fail("TARGET_BLOCKED") \/ Fail("UPSTREAM_ERROR")
  <2>1. /\ phase' = "done" /\ error' \in {"TARGET_BLOCKED", "UPSTREAM_ERROR"}
        /\ termination' \in {"blocked", "upstream-error"} /\ LastHop'.next = location
    BY <1>2, <1>4, <1>11 DEF Fail, EndAs, TerminationFor
  <2>2. ~ MayRedirect(LastHop.url, LastHop.next)'
    BY <1>4, <1>11, <2>1 DEF MayRedirect, Acceptable
  <2>3. Reported'
    BY <1>1, <1>2, <1>11, <2>1, <2>2 DEF Reported, None
  <2> QED  BY <1>7, <1>11, <2>1, <2>3 DEF RInv, Active
<1> QED
  <2>1. Len(hops') >= HttpHops \/ Len(hops') < HttpHops
    BY <1>2, HttpAssumption
  <2> QED  BY <2>1, <1>1, <1>8, <1>9, <1>10, <1>11 DEF Responds

\* What is remembered of the chain, and the report that is made of it, are kept by
\* every turn of inspectHttp().
THEOREM Reports == Spec => []RInv
<1>1. Init => RInv
  BY HttpAssumption DEF Init, RInv, Walked, Active
<1>2. IInv /\ RInv /\ [Next]_vars => RInv'
  <2> SUFFICES ASSUME IInv, RInv, [Next]_vars  PROVE RInv'
    OBVIOUS
  <2>1. ASSUME NEW url \in Urls, Start(url)  PROVE RInv'
    BY <2>1, StartReports
  <2>2. ASSUME NEW code \in Codes, LookupFails(code) \/ ConnectionFails(code)
        PROVE  RInv'
    <3>1. /\ Active /\ UNCHANGED <<target, seen, hops>> /\ Fail(code)
          /\ aborted' => code = "TIMEOUT"
      BY <2>2 DEF LookupFails, ConnectionFails, chain, Active
    <3> QED  BY <3>1, StayReports
  <2>3. ASSUME NEW address \in Literals, WrongPeer(address)
        PROVE  RInv'
    <3>1. /\ Active /\ UNCHANGED <<target, seen, hops>> /\ ~aborted'
          /\ \E code \in Codes : Fail(code)
      BY <2>3 DEF WrongPeer, chain, Active, Codes
    <3> QED  BY <3>1, StayReports
  <2>4. ASSUME NameUnknown  PROVE RInv'
    <3>1. /\ Active /\ UNCHANGED <<target, seen, hops>> /\ ~aborted'
          /\ \E code \in Codes : Fail(code)
      BY <2>4 DEF NameUnknown, chain, Active, Codes
    <3> QED  BY <3>1, StayReports
  <2>5. CASE NoData
    BY <2>5, AnswersStay, StayReports
  <2>6. ASSUME NEW found, NEW stray, NEW aliases, Answered(found, stray, aliases)
        PROVE  RInv'
    BY <2>6, AnswersStay, StayReports
  <2>7. ASSUME NEW address \in Literals, NEW redirects \in BOOLEAN,
               NEW location \in Locations, Responds(address, redirects, location)
        PROVE  RInv'
    BY <2>7, RespondsReports
  <2>8. CASE Abort
    BY <2>8, StayReports DEF Abort, Active, chain
  <2>9. CASE UNCHANGED vars
    BY <2>9 DEF vars, chain, outcome, RInv, Walked, Going, Remembered, Reported, LastHop, Active
  <2> QED  BY <2>1, <2>2, <2>3, <2>4, <2>5, <2>6, <2>7, <2>8, <2>9 DEF Next
<1> QED  BY <1>1, <1>2, Inductive, PTL DEF Spec

\* Whatever the DNS and the servers answer, the report tells the chain as it was
\* and how it ended.
THEOREM ReportsAreTrue == Spec => []ReportIsTrue
<1>1. RInv => ReportIsTrue
  BY DEF RInv, Walked, Reported, ReportIsTrue
<1> QED  BY <1>1, Reports, PTL

-----------------------------------------------------------------------------
(* E-mail inspections                                                      *)

Owners == Names \cup {Dmarc, OrgDmarc, Dkim}
Referred == Names \cup {Macro, PrivateName}
Observable == [kind : {"absent", "invalid", "valid"}, links : Seq(Referred)]
Frames == [owner : Names, links : Seq(Referred)]

EmailTypeOK ==
    /\ request \in [organization : {"same", "other", "unknown"}, selector : BOOLEAN]
    /\ stage \in {"start", "spf", "dmarc", "dkim", "done"}
    /\ stack \in Seq(Frames) /\ visited \subseteq Names
    /\ spf \in [status : {"absent", "invalid", "present", "indeterminate"},
                complete : BOOLEAN, lookups : Nat]

\* The owner a lookup is for that nobody has looked at yet.
Pending == IF asking # Email!Idle THEN {asking.initial}
           ELSE IF got # Email!Nothing THEN {got.owner} ELSE {}

Is(owner, kind) == owner \in DOMAIN cache /\ cache[owner].kind = kind

\* What txt() returns is what the cache holds; whatever else happened has stopped
\* the inspection, and without that the evidence holds every query that ended.
LookupInv ==
    /\ asking = Email!Idle \/ asking.initial \in Owners
    /\ got = Email!Nothing \/ got.owner \in Owners
    /\ \A n \in DOMAIN cache : cache[n] \in Observable
    /\ queries \in 0..EmailQueries /\ evidence \in Nat /\ stopped \in BOOLEAN
    /\ asking # Email!Idle => got = Email!Nothing /\ asking.initial \notin DOMAIN cache
    /\ got # Email!Nothing => IF got.policy.kind = "failed" THEN stopped
                              ELSE got.owner \in DOMAIN cache /\ cache[got.owner] = got.policy
    /\ ~stopped => evidence = IF asking = Email!Idle THEN queries ELSE queries - 1

\* Who is asked for at each stage.
AskedInv ==
    /\ stage \in {"start", "done"} => Pending = {}
    /\ stage = "spf" => Pending \subseteq Names \ (visited \cup Email!Active)
    /\ stage = "spf" /\ stack = <<>> /\ Pending # {} =>
          Pending = {Domain} /\ visited = {} /\ spf.status = "absent"
    /\ stage = "dmarc" => \A n \in Pending \ {Dmarc} :
          n = OrgDmarc /\ Is(Dmarc, "absent") /\ request.organization = "other"
    /\ stage = "dkim" => Pending \subseteq {Dkim}
    /\ stage # "spf" => stack = <<>>

\* An owner that is being walked: its links are still to follow, or lead to owners
\* that were walked before or to the one the walk is in now.
Below(i) == IF i < Len(stack) THEN {stack[i + 1].owner} ELSE Pending

FrameInv(i) ==
    LET n == stack[i].owner
    IN  /\ n \notin visited /\ \A j \in DOMAIN stack : stack[j].owner = n => i = j
        /\ Is(n, "valid")
        /\ spf.complete =>
              Email!LinksOf(n) \subseteq Range(stack[i].links) \cup visited \cup Below(i)
        /\ ~stopped =>
              Email!LinksOf(n) \subseteq
                  Range(stack[i].links) \cup DOMAIN cache \cup {Macro} \cup Pending

\* Owners that were walked refer to each other only, and in no circle.
WalkedInv ==
    /\ \A n \in visited :
          /\ Is(n, "valid")
          /\ spf.complete => Email!LinksOf(n) \subseteq visited
          /\ ~stopped => Email!LinksOf(n) \subseteq DOMAIN cache \cup {Macro}
    /\ spf.complete => \A circle \in (SUBSET visited) \ {{}} :
          \E n \in circle : Email!LinksOf(n) \cap circle = {}

\* What the report says of the domain's own record.
RootInv ==
    /\ spf.complete <=> spf.status \in {"absent", "present"}
    /\ stage = "start" => spf.status = "absent"
    /\ spf.status = "absent" =>
          /\ stack = <<>> /\ visited = {}
          /\ \/ stage = "start"
             \/ stage = "spf" /\ Pending = {Domain}
             \/ Is(Domain, "absent")
    /\ spf.status = "present" => Domain \in visited \cup Email!Active

ReportsInv ==
    /\ ~stopped =>
          /\ stage # "start" => Domain \in DOMAIN cache \cup Pending
          /\ stage \in {"dmarc", "dkim", "done"} => Dmarc \in DOMAIN cache \cup Pending
          /\ stage = "dkim" => Dkim \in DOMAIN cache \cup Pending
          /\ stage = "done" /\ request.selector => Dkim \in DOMAIN cache
    /\ stage \in {"dkim", "done"} /\ dmarc = "absent" =>
          /\ Is(Dmarc, "absent") /\ request.organization # "unknown"
          /\ request.organization = "other" => Is(OrgDmarc, "absent")
    /\ dkim = "absent" => Is(Dkim, "absent")

StageInv ==
    /\ EmailTypeOK
    /\ AskedInv
    /\ \A i \in DOMAIN stack : FrameInv(i)
    /\ WalkedInv
    /\ RootInv
    /\ ReportsInv

EmailInv == LookupInv /\ StageInv

-----------------------------------------------------------------------------
(* The lookups                                                             *)

LEMMA RecordsAreSequences ==
    ASSUME NEW links \in Email!Links
    PROVE  links \in Seq(Referred)
<1>1. PICK n \in 0..MaxLinks : links \in [1..n -> Names \cup {Macro, PrivateName}]
  BY DEF Email!Links
<1> QED  BY <1>1, EmailLimits, SeqDef DEF Referred, Email!EmailAssumption

LEMMA PoliciesAreObservable == Email!Policies \subseteq Observable
<1>1. \A kind \in {"absent", "invalid"} : Email!Policy(kind, Email!NoLinks) \in Observable
  BY DEF Email!Policy, Email!NoLinks, Observable
<1>2. \A links \in Email!Links : Email!Policy("valid", links) \in Observable
  BY RecordsAreSequences DEF Email!Policy, Observable
<1> QED  BY <1>1, <1>2 DEF Email!Policies

\* Somebody is asked for.
LEMMA SomebodyIsAsked ==
    ASSUME NEW n \in Owners
    PROVE  /\ \A policy : Email!Observed(n, policy) # Email!Nothing
           /\ \A owner, seenOwners :
                 [initial |-> n, owner |-> owner, seen |-> seenOwners] # Email!Idle
BY EmailLimits DEF Email!Observed, Email!Nothing, Email!Idle, Email!EmailAssumption, Owners

\* Ask() leaves a lookup under way, or a failure that stops the inspection.
LEMMA AskKeepsLookup ==
    ASSUME LookupInv, NEW owner, NEW initial \in Owners \ DOMAIN cache, NEW asked,
           Email!Ask(owner, initial, asked), UNCHANGED cache,
           evidence' \in Nat, ~stopped => evidence' = queries
    PROVE  LookupInv' /\ Pending' = {initial} /\ (stopped => stopped')
<1>1. CASE /\ got' = Email!Failed(initial) /\ asking' = Email!Idle
           /\ stopped' = TRUE /\ UNCHANGED queries
  <2>1. got' # Email!Nothing /\ got'.owner = initial /\ got'.policy.kind = "failed"
    BY <1>1, SomebodyIsAsked DEF Email!Failed, Email!Observed, Email!Policy
  <2> QED  BY <1>1, <2>1 DEF LookupInv, Pending
<1>2. CASE /\ queries' = queries + 1 /\ ~(queries >= EmailQueries)
           /\ asking' = [initial |-> initial, owner |-> owner, seen |-> asked \cup {owner}]
           /\ got' = Email!Nothing /\ UNCHANGED stopped
  <2>1. asking' # Email!Idle /\ asking'.initial = initial
    BY <1>2, SomebodyIsAsked
  <2> QED  BY <1>2, <2>1, EmailLimits DEF LookupInv, Pending, Email!EmailAssumption
<1> QED  BY <1>1, <1>2, Zenon DEF Email!Ask

LEMMA TxtKeepsLookup ==
    ASSUME LookupInv, asking = Email!Idle, NEW owner \in Owners, Email!Txt(owner)
    PROVE  LookupInv' /\ Pending' = {owner} /\ UNCHANGED cache /\ (stopped => stopped')
<1>1. CASE owner \in DOMAIN cache
  <2>1. /\ got' = Email!Observed(owner, cache[owner])
        /\ UNCHANGED <<asking, queries, stopped, cache, evidence>>
    BY <1>1 DEF Email!Txt
  <2>2. got' # Email!Nothing /\ got'.owner = owner /\ got'.policy = cache[owner]
    BY <2>1, SomebodyIsAsked DEF Email!Observed
  <2>3. cache[owner].kind # "failed"
    BY <1>1 DEF LookupInv, Observable
  <2> QED  BY <1>1, <2>1, <2>2, <2>3 DEF LookupInv, Pending
<1>2. CASE owner \notin DOMAIN cache
  <2>1. Email!Ask(owner, owner, {}) /\ UNCHANGED <<cache, evidence>>
    BY <1>2 DEF Email!Txt
  <2>2. evidence' \in Nat /\ (~stopped => evidence' = queries)
    BY <2>1 DEF LookupInv
  <2> QED  BY <1>2, <2>1, <2>2, AskKeepsLookup
<1> QED  BY <1>1, <1>2

\* The cache only grows.
Grows ==
    /\ DOMAIN cache \subseteq DOMAIN cache'
    /\ \A n \in DOMAIN cache : cache'[n] = cache[n]

LEMMA LookupEndsKeepsLookup ==
    ASSUME LookupInv, Email!LookupEnds
    PROVE  /\ LookupInv' /\ Pending' = Pending /\ Grows /\ (stopped => stopped')
           /\ UNCHANGED <<request, stage, stack, visited, spf, dmarc, dkim>>
<1> DEFINE n == asking.initial
<1>0. asking # Email!Idle /\ n \in Owners \ DOMAIN cache /\ Pending = {n}
  BY DEF Email!LookupEnds, LookupInv, Pending
<1>1. ASSUME NEW fits \in BOOLEAN, Email!LookupFails(fits)
      PROVE  /\ LookupInv' /\ Pending' = Pending /\ Grows /\ (stopped => stopped')
             /\ UNCHANGED <<request, stage, stack, visited, spf, dmarc, dkim>>
  <2>1. /\ got' = Email!Failed(n) /\ asking' = Email!Idle /\ stopped' = TRUE
        /\ evidence' \in Nat /\ UNCHANGED <<cache, queries>>
    BY <1>1 DEF Email!LookupFails, Email!Kept, LookupInv
  <2>2. got' # Email!Nothing /\ got'.owner = n /\ got'.policy.kind = "failed"
    BY <1>0, <2>1, SomebodyIsAsked DEF Email!Failed, Email!Observed, Email!Policy
  <2>3. LookupInv' /\ Pending' = Pending
    BY <1>0, <2>1, <2>2 DEF LookupInv, Pending
  <2> QED  BY <1>1, <2>1, <2>3 DEF Email!LookupFails, Email!walking, Email!reports, Grows
<1>2. ASSUME NEW policy \in Email!Policies, Email!Answered(policy)
      PROVE  /\ LookupInv' /\ Pending' = Pending /\ Grows /\ (stopped => stopped')
             /\ UNCHANGED <<request, stage, stack, visited, spf, dmarc, dkim>>
  <2>1. /\ got' = Email!Observed(n, policy) /\ asking' = Email!Idle
        /\ evidence' = evidence + 1 /\ evidence = queries - 1
        /\ cache' = [owner \in DOMAIN cache \cup {n} |->
                        IF owner = n THEN policy ELSE cache[owner]]
        /\ UNCHANGED <<queries, stopped>>
    BY <1>2 DEF Email!Answered, Email!Kept
  <2>2. got' # Email!Nothing /\ got'.owner = n /\ got'.policy = policy
    BY <1>0, <2>1, SomebodyIsAsked DEF Email!Observed
  <2>3. policy \in Observable /\ policy.kind # "failed"
    BY PoliciesAreObservable DEF Observable
  <2>4. Grows /\ n \in DOMAIN cache' /\ cache'[n] = policy
        /\ \A m \in DOMAIN cache' : cache'[m] \in Observable
    BY <1>0, <2>1, <2>3 DEF Grows, LookupInv
  <2>5. LookupInv' /\ Pending' = Pending
    BY <1>0, <2>1, <2>2, <2>3, <2>4 DEF LookupInv, Pending
  <2> QED  BY <1>2, <2>1, <2>4, <2>5 DEF Email!Answered, Email!walking, Email!reports
<1>3. ASSUME NEW alias \in Names \cup {PrivateName}, Email!Aliased(alias)
      PROVE  /\ LookupInv' /\ Pending' = Pending /\ Grows /\ (stopped => stopped')
             /\ UNCHANGED <<request, stage, stack, visited, spf, dmarc, dkim>>
  <2>1. /\ Email!Ask(alias, n, asking.seen) /\ UNCHANGED cache
        /\ evidence' \in Nat /\ evidence' = queries
    BY <1>3 DEF Email!Aliased, Email!Kept, LookupInv
  <2>2. LookupInv' /\ Pending' = {n} /\ (stopped => stopped')
    BY <1>0, <2>1, AskKeepsLookup
  <2> QED  BY <1>0, <1>3, <2>1, <2>2 DEF Email!Aliased, Email!walking, Email!reports, Grows
<1> QED  BY <1>1, <1>2, <1>3 DEF Email!LookupEnds

\* What was observed stays as it was.
LEMMA ObservedStays ==
    ASSUME Grows, NEW n \in DOMAIN cache
    PROVE  /\ n \in DOMAIN cache' /\ cache'[n].kind = cache[n].kind
           /\ Email!LinksOf(n)' = Email!LinksOf(n)
BY DEF Grows, Email!LinksOf

LEMMA OthersKeepStage ==
    ASSUME StageInv, Grows, Pending' = Pending, stopped => stopped', stopped' \in BOOLEAN,
           UNCHANGED <<request, stage, stack, visited, spf, dmarc, dkim>>
    PROVE  StageInv'
<1>1. EmailTypeOK'
  BY DEF StageInv, EmailTypeOK
<1>2. AskedInv'
  BY ObservedStays DEF StageInv, AskedInv, Is, Email!Active
<1>3. ASSUME NEW i \in DOMAIN stack
      PROVE  FrameInv(i)'
  <2> DEFINE n == stack[i].owner
  <2>1. FrameInv(i) /\ n \in DOMAIN cache
    BY DEF StageInv, FrameInv, Is
  <2>2. /\ n \in DOMAIN cache' /\ cache'[n].kind = cache[n].kind
        /\ Email!LinksOf(n)' = Email!LinksOf(n) /\ DOMAIN cache \subseteq DOMAIN cache'
    BY <2>1, ObservedStays DEF Grows
  <2>3. Below(i)' = Below(i)
    BY DEF Below
  <2> QED  BY <2>1, <2>2, <2>3 DEF FrameInv, Is, Email!LinksOf
<1>4. WalkedInv'
  <2>1. \A n \in visited : n \in DOMAIN cache /\ Email!LinksOf(n)' = Email!LinksOf(n)
    BY ObservedStays DEF StageInv, WalkedInv, Is
  <2>2. \A n \in visited :
          /\ Is(n, "valid")'
          /\ spf.complete => Email!LinksOf(n)' \subseteq visited
          /\ ~stopped' => Email!LinksOf(n)' \subseteq DOMAIN cache' \cup {Macro}
    BY <2>1, ObservedStays DEF StageInv, WalkedInv, Is, Grows
  <2>3. ASSUME spf.complete, NEW circle \in (SUBSET visited) \ {{}}
        PROVE  \E n \in circle : Email!LinksOf(n)' \cap circle = {}
    BY <2>1, <2>3 DEF StageInv, WalkedInv
  <2> QED  BY <2>2, <2>3 DEF WalkedInv
<1>5. RootInv'
  BY ObservedStays DEF StageInv, RootInv, Is, Email!Active
<1>6. ReportsInv'
  BY ObservedStays DEF StageInv, ReportsInv, Is, Grows
<1> QED  BY <1>1, <1>2, <1>3, <1>4, <1>5, <1>6 DEF StageInv

-----------------------------------------------------------------------------
(* The walk, between two lookups                                           *)

\* txt()'s result is looked at.
LEMMA LookingKeepsLookup ==
    ASSUME LookupInv, got # Email!Nothing, got' = Email!Nothing,
           UNCHANGED <<asking, cache, queries, evidence, stopped>>
    PROVE  LookupInv' /\ Pending = {got.owner} /\ Pending' = {} /\ asking = Email!Idle
BY DEF LookupInv, Pending

\* What txt() returned is in the cache, unless the inspection is stopped.
LEMMA SeenIsObserved ==
    ASSUME LookupInv, got # Email!Nothing
    PROVE  /\ asking = Email!Idle /\ Pending = {got.owner} /\ stopped \in BOOLEAN
           /\ got.policy.kind # "failed" => Is(got.owner, got.policy.kind)
           /\ ~stopped => got.owner \in DOMAIN cache
BY DEF LookupInv, Pending, Is

LEMMA DeadEndKeeps ==
    ASSUME EmailInv, Email!DeadEnd
    PROVE  EmailInv'
<1>1. LookupInv' /\ Pending = {got.owner} /\ Pending' = {}
  BY LookingKeepsLookup DEF Email!DeadEnd, EmailInv
<1>2. /\ got.policy.kind # "failed" => Is(got.owner, got.policy.kind)
      /\ ~stopped => got.owner \in DOMAIN cache
  BY SeenIsObserved DEF EmailInv, Email!DeadEnd
<1>3. /\ stage = "spf" /\ got.policy.kind # "valid"
      /\ UNCHANGED <<request, stage, cache, stack, visited, stopped, dmarc, dkim>>
  BY DEF Email!DeadEnd, Email!reports
<1>4. /\ spf' \in [status : {"absent", "invalid", "present", "indeterminate"},
                   complete : BOOLEAN, lookups : Nat]
      /\ spf'.complete => /\ stack = <<>> /\ visited = {} /\ spf' = spf
                          /\ spf.status = "absent" /\ Is(Domain, "absent")
      /\ ~spf'.complete => spf'.status \in {"invalid", "indeterminate"}
  <2>1. CASE stack = <<>>
    <3>1. got.owner = Domain /\ spf.status = "absent" /\ visited = {} /\ spf.complete
      BY <1>1, <1>3, <2>1 DEF EmailInv, StageInv, AskedInv, RootInv
    <3>2. CASE got.policy.kind \in {"failed", "invalid"}
      <4>1. \E status \in {"invalid", "indeterminate"} :
               spf' = [spf EXCEPT !.status = status, !.complete = FALSE]
        BY <2>1, <3>2 DEF Email!DeadEnd
      <4> QED  BY <4>1 DEF EmailInv, StageInv, EmailTypeOK
    <3>3. CASE got.policy.kind \notin {"failed", "invalid"}
      <4>1. spf' = spf /\ Is(Domain, "absent")
        <5>1. got.policy.kind = "absent"
          BY <1>2, <1>3, <3>3 DEF EmailInv, LookupInv, Is, Observable
        <5> QED  BY <1>2, <2>1, <3>1, <5>1 DEF Email!DeadEnd
      <4> QED  BY <2>1, <3>1, <4>1 DEF EmailInv, StageInv, EmailTypeOK
    <3> QED  BY <3>2, <3>3
  <2>2. CASE stack # <<>>
    <3>1. spf' = Email!Incomplete(spf)
      BY <2>2 DEF Email!DeadEnd
    <3>2. spf.status # "absent"
      BY <2>2 DEF EmailInv, StageInv, RootInv
    <3> QED  BY <3>1, <3>2 DEF EmailInv, StageInv, EmailTypeOK, Email!Incomplete
  <2> QED  BY <2>1, <2>2
<1>5. EmailTypeOK'
  BY <1>3, <1>4 DEF EmailInv, StageInv, EmailTypeOK
<1>6. AskedInv'
  BY <1>1, <1>3 DEF AskedInv
<1>7. ASSUME NEW i \in DOMAIN stack
      PROVE  FrameInv(i)'
  <2>1. ~spf'.complete
    BY <1>4, <1>7 DEF EmailInv, StageInv, EmailTypeOK
  <2> QED  BY <1>1, <1>2, <1>3, <2>1 DEF EmailInv, StageInv, FrameInv, Is, Email!LinksOf
<1>8. WalkedInv'
  BY <1>3, <1>4 DEF EmailInv, StageInv, WalkedInv, Is, Email!LinksOf
<1>9. RootInv'
  BY <1>3, <1>4 DEF EmailInv, StageInv, RootInv, Is, Email!Active
<1>10. ReportsInv'
  BY <1>1, <1>2, <1>3 DEF EmailInv, StageInv, ReportsInv, Is
<1> QED  BY <1>1, <1>3, <1>5, <1>6, <1>7, <1>8, <1>9, <1>10 DEF EmailInv, StageInv

LEMMA FrontProperties ==
    ASSUME NEW S, NEW s \in Seq(S), s # <<>>, NEW front, front = SubSeq(s, 1, Len(s) - 1)
    PROVE  /\ front \in Seq(S) /\ Len(front) = Len(s) - 1 /\ DOMAIN front = 1..Len(s) - 1
           /\ \A i \in 1..Len(s) - 1 : front[i] = s[i]
<1>1. Len(s) \in Nat \ {0} /\ \A i \in 1..Len(s) : s[i] \in S
  OBVIOUS
<1>2. front \in Seq(S)
  BY <1>1, SubSeqProperties
<1>3. Len(front) = Len(s) - 1
  <2> DEFINE k == Len(s) - 1
  <2>1. k \in Nat /\ \A i \in 1..k : s[i] \in S
    BY <1>1
  <2> HIDE DEF k
  <2>2. Len(SubSeq(s, 1, k)) = IF 1 <= k THEN k - 1 + 1 ELSE 0
    BY <2>1, SubSeqProperties
  <2>3. Len(SubSeq(s, 1, k)) = k
    BY <2>1, <2>2
  <2> QED  BY <2>3 DEF k
<1>4. ASSUME NEW i \in 1..Len(s) - 1
      PROVE  front[i] = s[i]
  BY <1>1, <1>4, SubSeqProperties
<1> QED  BY <1>2, <1>3, <1>4

LEMMA EnterKeeps ==
    ASSUME EmailInv, Email!Enter
    PROVE  EmailInv'
<1> DEFINE n == got.owner
           top == Len(stack) + 1
<1>1. LookupInv' /\ Pending = {n} /\ Pending' = {}
  BY LookingKeepsLookup DEF Email!Enter, EmailInv
<1>2. /\ stage = "spf" /\ cache[n] = got.policy /\ Is(n, "valid")
      /\ n \in Names \ (visited \cup Email!Active)
      /\ got.policy.links \in Seq(Referred)
      /\ Email!LinksOf(n) = Range(got.policy.links)
  <2>1. stage = "spf" /\ got # Email!Nothing /\ got.policy.kind = "valid"
    BY DEF Email!Enter
  <2>2. cache[n] = got.policy /\ Is(n, "valid") /\ cache[n] \in Observable
    BY <2>1 DEF EmailInv, LookupInv, Is
  <2>3. n \in Names \ (visited \cup Email!Active)
    BY <1>1, <2>1 DEF EmailInv, StageInv, AskedInv
  <2> QED  BY <2>1, <2>2, <2>3 DEF Observable, Email!LinksOf, Email!Range, Range
<1>3. /\ UNCHANGED <<request, stage, cache, visited, stopped, dmarc, dkim>>
      /\ stack' = Append(stack, [owner |-> n, links |-> got.policy.links])
      /\ spf' = IF stack = <<>> THEN [spf EXCEPT !.status = "present"] ELSE spf
  BY DEF Email!Enter, Email!reports
<1>4. /\ stack \in Seq(Frames) /\ stack' \in Seq(Frames) /\ Len(stack') = top
      /\ stack'[top] = [owner |-> n, links |-> got.policy.links]
      /\ \A i \in 1..Len(stack) : stack'[i] = stack[i]
      /\ DOMAIN stack = 1..Len(stack) /\ DOMAIN stack' = 1..top
  <2>1. stack \in Seq(Frames) /\ [owner |-> n, links |-> got.policy.links] \in Frames
    BY <1>2 DEF EmailInv, StageInv, EmailTypeOK, Frames
  <2> QED  BY <1>3, <2>1
<1>5. /\ spf' \in [status : {"absent", "invalid", "present", "indeterminate"},
                   complete : BOOLEAN, lookups : Nat]
      /\ spf'.complete = spf.complete
      /\ spf.status # "absent" => spf' = spf
      /\ spf.status = "absent" => spf'.status = "present" /\ n = Domain
      /\ spf'.status # "absent"
  <2>1. spf.status = "absent" => stack = <<>>
    BY DEF EmailInv, StageInv, RootInv
  <2>2. stack = <<>> => spf.status = "absent" /\ n = Domain
    BY <1>1, <1>2 DEF EmailInv, StageInv, AskedInv
  <2> QED  BY <1>3, <2>1, <2>2 DEF EmailInv, StageInv, EmailTypeOK
<1>6. EmailTypeOK'
  BY <1>3, <1>4, <1>5 DEF EmailInv, StageInv, EmailTypeOK
<1>7. AskedInv'
  BY <1>1, <1>2, <1>3, <1>4 DEF AskedInv
<1>8. \A i \in 1..Len(stack) : stack[i].owner # n
  BY <1>2, <1>4 DEF Email!Active
<1>9. ASSUME NEW i \in 1..top
      PROVE  FrameInv(i)'
  <2>1. CASE i = top
    BY <1>2, <1>3, <1>4, <1>8, <2>1 DEF FrameInv, Is, Email!LinksOf
  <2>2. CASE i \in 1..Len(stack)
    <3>1. FrameInv(i)
      BY <1>4, <2>2 DEF EmailInv, StageInv
    <3>2. Below(i)' = Below(i)
      <4>1. Len(stack) \in Nat /\ i + 1 \in 1..top /\ i < Len(stack')
        BY <1>4, <2>2
      <4>2. Below(i)' = {stack'[i + 1].owner}
        BY <4>1 DEF Below
      <4>3. CASE i = Len(stack)
        <5>1. stack'[i + 1].owner = n /\ ~(i < Len(stack))
          BY <1>4, <4>1, <4>3
        <5> QED  BY <1>1, <4>2, <5>1 DEF Below
      <4>4. CASE i # Len(stack)
        <5>1. i + 1 \in 1..Len(stack) /\ i < Len(stack)
          BY <2>2, <4>1, <4>4
        <5>2. stack'[i + 1] = stack[i + 1]
          BY <1>4, <5>1
        <5> QED  BY <4>2, <5>1, <5>2 DEF Below
      <4> QED  BY <4>3, <4>4
    <3>3. \A j \in DOMAIN stack' : stack'[j].owner = stack[i].owner => i = j
      <4>1. \A j \in 1..Len(stack) : stack[j].owner = stack[i].owner => i = j
        BY <1>4, <3>1 DEF FrameInv
      <4>2. \A j \in 1..top : j = top \/ j \in 1..Len(stack)
        BY <1>4
      <4> QED  BY <1>4, <1>8, <2>2, <4>1, <4>2
    <3>4. Pending \subseteq DOMAIN cache /\ stack'[i] = stack[i]
      BY <1>1, <1>2, <1>4, <2>2 DEF Is
    <3> QED  BY <1>1, <1>3, <1>5, <3>1, <3>2, <3>3, <3>4 DEF FrameInv, Is, Email!LinksOf
  <2> QED  BY <1>4, <2>1, <2>2
<1>10. WalkedInv'
  BY <1>3, <1>5 DEF EmailInv, StageInv, WalkedInv, Is, Email!LinksOf
<1>11. RootInv'
  <2>1. Email!Active \cup {n} \subseteq Email!Active'
    BY <1>4 DEF Email!Active
  <2> QED  BY <1>2, <1>3, <1>5, <2>1 DEF EmailInv, StageInv, RootInv, EmailTypeOK
<1>12. ReportsInv'
  BY <1>1, <1>2, <1>3 DEF EmailInv, StageInv, ReportsInv, Is
<1> QED  BY <1>1, <1>4, <1>6, <1>7, <1>9, <1>10, <1>11, <1>12 DEF EmailInv, StageInv

LEMMA LeaveKeeps ==
    ASSUME EmailInv, Email!Leave
    PROVE  EmailInv'
<1> DEFINE t == stack[Len(stack)].owner
           top == Len(stack)
<1>1. /\ stage = "spf" /\ asking = Email!Idle /\ got = Email!Nothing /\ stack # <<>>
      /\ stack[top].links = <<>>
      /\ stack' = SubSeq(stack, 1, top - 1) /\ visited' = visited \cup {t}
      /\ UNCHANGED <<request, stage, cache, stopped, spf, dmarc, dkim>>
      /\ UNCHANGED <<asking, got, queries, evidence>>
  BY DEF Email!Leave, Email!AtLink, Email!Top, Email!Last, Email!Front, Email!dns, Email!reports
<1>2. LookupInv' /\ Pending = {} /\ Pending' = {}
  BY <1>1 DEF EmailInv, LookupInv, Pending
<1>3. /\ stack \in Seq(Frames) /\ stack' \in Seq(Frames) /\ top \in Nat \ {0}
      /\ Len(stack') = top - 1 /\ DOMAIN stack' = 1..top - 1 /\ DOMAIN stack = 1..top
      /\ \A i \in 1..top - 1 : stack'[i] = stack[i]
      /\ t \in Names
  <2>1. stack \in Seq(Frames) /\ top \in Nat \ {0} /\ stack[top] \in Frames
    BY <1>1 DEF EmailInv, StageInv, EmailTypeOK
  <2>2. /\ stack' \in Seq(Frames) /\ Len(stack') = top - 1 /\ DOMAIN stack' = 1..top - 1
        /\ \A i \in 1..top - 1 : stack'[i] = stack[i]
    BY <1>1, <2>1, FrontProperties, Zenon
  <2> QED  BY <2>1, <2>2 DEF Frames
<1>4. /\ FrameInv(top) /\ t \notin visited /\ Is(t, "valid")
      /\ \A i \in 1..top - 1 : stack[i].owner # t
      /\ spf.complete => Email!LinksOf(t) \subseteq visited
      /\ ~stopped => Email!LinksOf(t) \subseteq DOMAIN cache \cup {Macro}
  <2>1. FrameInv(top) /\ top \in DOMAIN stack
    BY <1>3 DEF EmailInv, StageInv
  <2>2. Range(stack[top].links) = {} /\ Below(top) = {}
    BY <1>1, <1>2, <1>3 DEF Range, Below
  <2> QED  BY <1>2, <1>3, <2>1, <2>2 DEF FrameInv
<1>5. \A n : Email!LinksOf(n)' = Email!LinksOf(n)
  BY <1>1 DEF Email!LinksOf
<1>6. EmailTypeOK'
  BY <1>1, <1>3 DEF EmailInv, StageInv, EmailTypeOK
<1>7. AskedInv'
  BY <1>1, <1>2, <1>3 DEF AskedInv
<1>8. ASSUME NEW i \in 1..top - 1
      PROVE  FrameInv(i)'
  <2>1. FrameInv(i) /\ i < top /\ i \in DOMAIN stack /\ stack'[i] = stack[i]
    BY <1>3, <1>8 DEF EmailInv, StageInv
  <2>2. Below(i) \subseteq Below(i)' \cup {t}
    <3>1. CASE i + 1 = top
      BY <2>1, <3>1 DEF Below
    <3>2. CASE i + 1 # top
      BY <1>3, <2>1, <3>2 DEF Below
    <3> QED  BY <3>1, <3>2
  <2>3. \A j \in DOMAIN stack' : stack'[j].owner = stack[i].owner => i = j
    BY <1>3, <2>1 DEF FrameInv
  <2>4. stack[i].owner \notin visited'
    BY <1>1, <1>4, <2>1 DEF FrameInv
  <2> QED  BY <1>1, <1>2, <1>5, <2>1, <2>2, <2>3, <2>4 DEF FrameInv, Is
<1>9. WalkedInv'
  <2>1. \A n \in visited' :
          /\ Is(n, "valid")'
          /\ spf.complete => Email!LinksOf(n)' \subseteq visited'
          /\ ~stopped' => Email!LinksOf(n)' \subseteq DOMAIN cache' \cup {Macro}
    BY <1>1, <1>4, <1>5 DEF EmailInv, StageInv, WalkedInv, Is
  <2>2. ASSUME spf.complete, NEW circle \in (SUBSET visited') \ {{}}
        PROVE  \E n \in circle : Email!LinksOf(n) \cap circle = {}
    <3>1. CASE circle \ {t} = {}
      <4>1. circle = {t}
        BY <2>2, <3>1
      <4> QED  BY <1>4, <2>2, <4>1
    <3>2. CASE circle \ {t} # {}
      <4>1. PICK n \in circle \ {t} : Email!LinksOf(n) \cap (circle \ {t}) = {}
        BY <1>1, <2>2, <3>2 DEF EmailInv, StageInv, WalkedInv
      <4>2. t \notin Email!LinksOf(n)
        BY <1>1, <1>4, <2>2, <4>1 DEF EmailInv, StageInv, WalkedInv
      <4> QED  BY <4>1, <4>2
    <3> QED  BY <2>2, <3>1, <3>2
  <2> QED  BY <1>1, <1>5, <2>1, <2>2 DEF WalkedInv
<1>10. RootInv'
  <2>1. visited \cup Email!Active \subseteq visited' \cup Email!Active'
    <3>1. \A i \in 1..top : i = top \/ i \in 1..top - 1
      BY <1>3
    <3> QED  BY <1>1, <1>3, <3>1 DEF Email!Active
  <2>2. spf.status # "absent"
    BY <1>1 DEF EmailInv, StageInv, RootInv
  <2> QED  BY <1>1, <2>1, <2>2 DEF EmailInv, StageInv, RootInv
<1>11. ReportsInv'
  BY <1>1, <1>2 DEF EmailInv, StageInv, ReportsInv, Is
<1> QED  BY <1>2, <1>3, <1>6, <1>7, <1>8, <1>9, <1>10, <1>11 DEF EmailInv, StageInv

\* The topmost owner has one link less, or several, whatever became of them.
Linked(skipped) ==
    LET top == Len(stack)
    IN  /\ Email!AtLink /\ stack' \in Seq(Frames) /\ Len(stack') = top
        /\ \A i \in 1..top - 1 : stack'[i] = stack[i]
        /\ stack'[top].owner = stack[top].owner
        /\ Range(stack[top].links) \subseteq Range(stack'[top].links) \cup skipped
        /\ Pending' \subseteq Names \ (visited \cup Email!Active)
        /\ spf'.complete => skipped \subseteq visited \cup Pending'
        /\ ~stopped' => skipped \subseteq DOMAIN cache \cup {Macro} \cup Pending'
        /\ spf' = spf \/ spf' = Email!Incomplete(spf)
        /\ stopped => stopped'
        /\ UNCHANGED <<request, stage, cache, visited, dmarc, dkim>>

LEMMA LinkKeeps ==
    ASSUME EmailInv, LookupInv', NEW skipped, Linked(skipped)
    PROVE  EmailInv'
<1> DEFINE top == Len(stack)
<1>1. /\ stage = "spf" /\ stage' = "spf" /\ Pending = {} /\ stack # <<>>
      /\ UNCHANGED <<request, cache, visited, dmarc, dkim>>
  BY DEF Linked, Email!AtLink, Pending
<1>2. /\ stack \in Seq(Frames) /\ stack' \in Seq(Frames) /\ top \in Nat \ {0}
      /\ DOMAIN stack = 1..top /\ DOMAIN stack' = 1..top /\ Len(stack') = top
      /\ \A i \in 1..top : stack'[i].owner = stack[i].owner
  <2>1. \A i \in 1..top : i = top \/ i \in 1..top - 1
    BY <1>1 DEF EmailInv, StageInv, EmailTypeOK
  <2> QED  BY <1>1, <2>1 DEF EmailInv, StageInv, EmailTypeOK, Linked
<1>3. /\ spf.status # "absent"
      /\ spf' \in [status : {"absent", "invalid", "present", "indeterminate"},
                   complete : BOOLEAN, lookups : Nat]
      /\ spf'.complete => spf' = spf
      /\ spf'.status \in {"absent", "present"} => spf'.complete
      /\ ~spf'.complete => spf'.status \in {"invalid", "indeterminate"}
  <2>1. spf.status # "absent" /\ (spf.complete <=> spf.status \in {"absent", "present"})
    BY <1>1 DEF EmailInv, StageInv, RootInv
  <2>2. CASE spf' = spf
    BY <2>1, <2>2 DEF EmailInv, StageInv, EmailTypeOK
  <2>3. CASE spf' = Email!Incomplete(spf)
    BY <2>1, <2>3 DEF EmailInv, StageInv, EmailTypeOK, Email!Incomplete
  <2> QED  BY <2>1, <2>2, <2>3 DEF Linked
<1>4. Email!Active' = Email!Active
  BY <1>2 DEF Email!Active
<1>5. \A n : Email!LinksOf(n)' = Email!LinksOf(n)
  BY <1>1 DEF Email!LinksOf
<1>6. EmailTypeOK'
  BY <1>1, <1>2, <1>3 DEF EmailInv, StageInv, EmailTypeOK
<1>7. AskedInv'
  BY <1>1, <1>2, <1>4 DEF AskedInv, Linked
<1>8. ASSUME NEW i \in 1..top
      PROVE  FrameInv(i)'
  <2> DEFINE n == stack[i].owner
  <2>1. FrameInv(i) /\ stack'[i].owner = n
    BY <1>2 DEF EmailInv, StageInv
  <2>2. /\ n \notin visited' /\ Is(n, "valid")'
        /\ \A j \in DOMAIN stack' : stack'[j].owner = n => i = j
    BY <1>1, <1>2, <2>1 DEF FrameInv, Is
  <2>3. CASE i = top
    <3>1. Below(i) = {} /\ Below(i)' = Pending'
      BY <1>1, <1>2, <2>3 DEF Below
    <3>2. /\ spf'.complete => Email!LinksOf(n) \subseteq
                                Range(stack'[top].links) \cup visited \cup Pending'
          /\ ~stopped' => Email!LinksOf(n) \subseteq
                Range(stack'[top].links) \cup DOMAIN cache \cup {Macro} \cup Pending'
      BY <1>1, <1>3, <2>1, <2>3, <3>1 DEF FrameInv, Linked
    <3> QED  BY <1>1, <1>5, <2>1, <2>2, <2>3, <3>1, <3>2 DEF FrameInv
  <2>4. CASE i # top
    <3>1. i \in 1..top - 1 /\ stack'[i] = stack[i]
      BY <1>2, <2>4 DEF Linked
    <3>2. Below(i)' = Below(i)
      <4>1. i + 1 \in 1..top /\ i < Len(stack) /\ i < Len(stack')
        BY <1>2, <3>1
      <4> QED  BY <1>2, <4>1 DEF Below
    <3>3. /\ spf'.complete => Email!LinksOf(n) \subseteq
                                Range(stack[i].links) \cup visited \cup Below(i)
          /\ ~stopped' => Email!LinksOf(n) \subseteq
                             Range(stack[i].links) \cup DOMAIN cache \cup {Macro}
      BY <1>1, <1>3, <2>1 DEF FrameInv, Linked
    <3> QED  BY <1>1, <1>5, <2>1, <2>2, <3>1, <3>2, <3>3 DEF FrameInv
  <2> QED  BY <2>3, <2>4
<1>9. WalkedInv'
  BY <1>1, <1>3, <1>5 DEF EmailInv, StageInv, WalkedInv, Is, Linked
<1>10. RootInv'
  BY <1>1, <1>3, <1>4 DEF EmailInv, StageInv, RootInv, EmailTypeOK
<1>11. ReportsInv'
  BY <1>1 DEF EmailInv, StageInv, ReportsInv, Is, Linked
<1> QED  BY <1>2, <1>6, <1>7, <1>8, <1>9, <1>10, <1>11 DEF EmailInv, StageInv

LEMMA TailHasTheRest ==
    ASSUME NEW S, NEW s \in Seq(S), s # <<>>
    PROVE  Tail(s) \in Seq(S) /\ Range(s) \subseteq Range(Tail(s)) \cup {Head(s)}
<1>1. Tail(s) \in Seq(S) /\ Len(Tail(s)) = Len(s) - 1 /\ Len(s) \in Nat \ {0}
  BY HeadTailProperties
<1>2. ASSUME NEW i \in 1..Len(s)
      PROVE  s[i] = Head(s) \/ \E k \in 1..Len(Tail(s)) : s[i] = Tail(s)[k]
  <2>1. CASE i = 1
    BY <2>1
  <2>2. CASE i # 1
    <3>1. i - 1 \in 1..Len(Tail(s)) /\ Tail(s)[i - 1] = s[i]
      BY <1>1, <2>2
    <3> QED  BY <3>1
  <2> QED  BY <2>1, <2>2
<1>3. DOMAIN s = 1..Len(s) /\ DOMAIN Tail(s) = 1..Len(Tail(s))
  BY <1>1
<1> QED  BY <1>1, <1>2, <1>3 DEF Range

\* The topmost owner's links are replaced.
LEMMA TopChanged ==
    ASSUME stack \in Seq(Frames), stack # <<>>, NEW links \in Seq(Referred),
           stack' = [stack EXCEPT ![Len(stack)].links = links]
    PROVE  /\ stack' \in Seq(Frames) /\ Len(stack') = Len(stack)
           /\ \A i \in 1..Len(stack) - 1 : stack'[i] = stack[i]
           /\ stack'[Len(stack)].owner = stack[Len(stack)].owner
           /\ stack'[Len(stack)].links = links
<1> DEFINE top == Len(stack)
           frame == [stack[top] EXCEPT !.links = links]
<1>1. /\ stack \in [1..top -> Frames] /\ DOMAIN stack = 1..top
      /\ top \in Nat /\ top \in 1..top /\ stack[top] \in Frames
  OBVIOUS
<1>2. frame \in Frames /\ frame.owner = stack[top].owner /\ frame.links = links
  BY <1>1 DEF Frames
<1>3. stack' = [stack EXCEPT ![top] = frame]
  OBVIOUS
<1> HIDE DEF frame
<1>4. /\ stack' \in [1..top -> Frames] /\ DOMAIN stack' = 1..top /\ stack'[top] = frame
      /\ \A i \in 1..top : i # top => stack'[i] = stack[i]
  <2> HIDE DEF top
  <2> QED  BY <1>1, <1>2, <1>3
<1>5. stack' \in Seq(Frames) /\ Len(stack') = top
  <2>1. stack' \in Seq(Frames)
    BY <1>1, <1>4, SeqDef
  <2>2. DOMAIN stack' = 1..Len(stack') /\ Len(stack') \in Nat
    BY <2>1, LenProperties
  <2> QED  BY <1>1, <1>4, <2>1, <2>2
<1> QED  BY <1>1, <1>2, <1>4, <1>5

\* One more link of the topmost owner is looked at.
LEMMA LinkShape ==
    ASSUME EmailInv, NEW name, Email!Link(name)
    PROVE  /\ Email!AtLink /\ stack \in Seq(Frames) /\ stack # <<>>
           /\ stack' \in Seq(Frames) /\ Len(stack') = Len(stack)
           /\ \A i \in 1..Len(stack) - 1 : stack'[i] = stack[i]
           /\ stack'[Len(stack)].owner = stack[Len(stack)].owner
           /\ Range(stack[Len(stack)].links) \subseteq
                 Range(stack'[Len(stack)].links) \cup {name}
<1> DEFINE top == Len(stack)
           links == stack[top].links
<1>1. /\ Email!AtLink /\ stack # <<>> /\ links # <<>> /\ name = Head(links)
      /\ stack' = [stack EXCEPT ![top].links = Tail(@)]
  BY DEF Email!Link, Email!AtLink, Email!Top, Email!Last, Email!Consumed
<1>2. stack \in Seq(Frames) /\ top \in Nat \ {0} /\ stack[top] \in Frames
  BY <1>1 DEF EmailInv, StageInv, EmailTypeOK
<1>3. /\ Tail(links) \in Seq(Referred)
      /\ Range(links) \subseteq Range(Tail(links)) \cup {name}
  BY <1>1, <1>2, TailHasTheRest DEF Frames
<1>4. stack' = [stack EXCEPT ![top].links = Tail(links)]
  BY <1>1
<1>5. /\ stack' \in Seq(Frames) /\ Len(stack') = top
      /\ \A i \in 1..top - 1 : stack'[i] = stack[i]
      /\ stack'[top].owner = stack[top].owner /\ stack'[top].links = Tail(links)
  BY <1>1, <1>2, <1>3, <1>4, TopChanged
<1> QED  BY <1>1, <1>2, <1>3, <1>5

\* Between two links, nothing changes about the lookups but `stopped'.
LEMMA StandingKeepsLookup ==
    ASSUME EmailInv, Email!AtLink, UNCHANGED Email!dns,
           stopped => stopped', stopped' \in BOOLEAN
    PROVE  LookupInv' /\ Pending' = {}
BY DEF EmailInv, LookupInv, Email!AtLink, Email!dns, Pending

LEMMA TooManyLinksKeeps ==
    ASSUME EmailInv, Email!TooManyLinks
    PROVE  EmailInv'
<1> DEFINE top == Len(stack)
           skipped == Range(stack[top].links)
<1>1. /\ Email!AtLink /\ stack # <<>> /\ stack' = [stack EXCEPT ![top].links = <<>>]
      /\ spf' = Email!Incomplete(spf) /\ stopped' = TRUE
      /\ UNCHANGED Email!dns
      /\ UNCHANGED <<request, stage, cache, visited, dmarc, dkim>>
  BY DEF Email!TooManyLinks, Email!AtLink, Email!dns, Email!reports
<1>2. LookupInv' /\ Pending' = {}
  BY <1>1, StandingKeepsLookup
<1>3. stack \in Seq(Frames) /\ top \in Nat \ {0} /\ stack[top] \in Frames
  BY <1>1 DEF EmailInv, StageInv, EmailTypeOK
<1>4. /\ stack' \in Seq(Frames) /\ Len(stack') = top
      /\ \A i \in 1..top - 1 : stack'[i] = stack[i]
      /\ stack'[top].owner = stack[top].owner
  <2>1. <<>> \in Seq(Referred)
    OBVIOUS
  <2> QED  BY <1>1, <1>3, <2>1, TopChanged
<1>5. ~spf'.complete
  BY <1>1 DEF Email!Incomplete, EmailInv, StageInv, EmailTypeOK
<1>6. Linked(skipped)
  BY <1>1, <1>2, <1>4, <1>5 DEF Linked
<1> QED  BY <1>2, <1>6, LinkKeeps

LEMMA NotFollowedKeeps ==
    ASSUME EmailInv, NEW name, Email!NotFollowed(name)
    PROVE  EmailInv'
<1>1. /\ Email!Link(name) /\ spf' = Email!Incomplete(spf)
      /\ stopped' = (stopped \/ name \notin {Macro} \cup Email!Active)
      /\ UNCHANGED Email!dns
      /\ UNCHANGED <<request, stage, cache, visited, dmarc, dkim>>
  BY DEF Email!NotFollowed, Email!dns, Email!reports
<1>2. LookupInv' /\ Pending' = {}
  BY <1>1, LinkShape, StandingKeepsLookup DEF EmailInv, LookupInv
<1>3. ~spf'.complete
  BY <1>1 DEF Email!Incomplete, EmailInv, StageInv, EmailTypeOK
<1>4. Email!Active \subseteq DOMAIN cache
  BY DEF EmailInv, StageInv, FrameInv, Is, Email!Active
<1>5. Linked({name})
  BY <1>1, <1>2, <1>3, <1>4, LinkShape DEF Linked
<1> QED  BY <1>2, <1>5, LinkKeeps

LEMMA AlreadyWalkedKeeps ==
    ASSUME EmailInv, NEW name, Email!AlreadyWalked(name)
    PROVE  EmailInv'
<1>1. /\ Email!Link(name) /\ name \in visited /\ UNCHANGED Email!dns
      /\ UNCHANGED <<request, stage, cache, visited, spf, stopped, dmarc, dkim>>
  BY DEF Email!AlreadyWalked, Email!dns, Email!reports
<1>2. LookupInv' /\ Pending' = {}
  BY <1>1, LinkShape, StandingKeepsLookup DEF EmailInv, LookupInv
<1>3. visited \subseteq DOMAIN cache
  BY DEF EmailInv, StageInv, WalkedInv, Is
<1>4. Linked({name})
  BY <1>1, <1>2, <1>3, LinkShape DEF Linked
<1> QED  BY <1>2, <1>4, LinkKeeps

LEMMA FollowKeepsWalk ==
    ASSUME EmailInv, NEW name, Email!Follow(name)
    PROVE  EmailInv'
<1>1. /\ Email!Link(name) /\ name \in Names \ (visited \cup Email!Active)
      /\ Email!Txt(name)
      /\ UNCHANGED <<request, stage, visited, spf, dmarc, dkim>>
  BY DEF Email!Follow, Email!reports
<1>2. asking = Email!Idle /\ name \in Owners
  BY <1>1 DEF Email!Link, Email!AtLink, Owners
<1>3. LookupInv' /\ Pending' = {name} /\ UNCHANGED cache /\ (stopped => stopped')
  BY <1>1, <1>2, TxtKeepsLookup DEF EmailInv
<1>4. Linked({name})
  BY <1>1, <1>3, LinkShape DEF Linked
<1> QED  BY <1>3, <1>4, LinkKeeps

-----------------------------------------------------------------------------
(* From one inspection to the next                                         *)

\* At a standstill between two inspections, all that is left of the walk is its
\* report and what was walked.
LEMMA StageMoves ==
    ASSUME EmailInv, stage # "spf" \/ stack = <<>>, stage' # "start",
           stage' \in {"spf", "dmarc", "dkim", "done"},
           UNCHANGED <<request, cache, stack, visited>>, stopped => stopped',
           spf' = spf \/ spf' = [spf EXCEPT !.lookups = queries],
           AskedInv', ReportsInv',
           Is(Domain, "absent") \/ (stage' = "spf" /\ Pending' = {Domain}) \/ spf.status # "absent"
    PROVE  StageInv'
<1>1. stack = <<>> /\ stack' = <<>>
  BY DEF EmailInv, StageInv, AskedInv
<1>2. /\ spf'.status = spf.status /\ spf'.complete = spf.complete
      /\ spf' \in [status : {"absent", "invalid", "present", "indeterminate"},
                   complete : BOOLEAN, lookups : Nat]
  BY DEF EmailInv, LookupInv, StageInv, EmailTypeOK
<1>3. EmailTypeOK'
  BY <1>2 DEF EmailInv, StageInv, EmailTypeOK
<1>4. \A i \in DOMAIN stack' : FrameInv(i)'
  BY <1>1
<1>5. WalkedInv'
  BY <1>2 DEF EmailInv, StageInv, WalkedInv, Is, Email!LinksOf
<1>6. RootInv'
  BY <1>1, <1>2 DEF EmailInv, StageInv, RootInv, Is, Email!Active
<1> QED  BY <1>3, <1>4, <1>5, <1>6 DEF StageInv

LEMMA SpfStartKeeps ==
    ASSUME EmailInv, Email!Start
    PROVE  EmailInv'
<1>1. /\ stage = "start" /\ stage' = "spf" /\ Email!Txt(Domain)
      /\ UNCHANGED <<request, stack, visited, spf, dmarc, dkim>>
  BY DEF Email!Start, Email!walking, Email!reports
<1>2. Pending = {} /\ stack = <<>> /\ visited = {} /\ spf.status = "absent"
  BY <1>1 DEF EmailInv, StageInv, AskedInv, RootInv
<1>3. asking = Email!Idle /\ Domain \in Names /\ Domain \in Owners
  BY <1>2, EmailLimits DEF Pending, Owners, Email!EmailAssumption
<1>4. LookupInv' /\ Pending' = {Domain} /\ UNCHANGED cache /\ (stopped => stopped')
  BY <1>1, <1>3, TxtKeepsLookup DEF EmailInv
<1>5. Email!Active' = {}
  BY <1>1, <1>2 DEF Email!Active
<1>6. AskedInv' /\ ReportsInv'
  BY <1>1, <1>2, <1>3, <1>4, <1>5 DEF EmailInv, StageInv, AskedInv, ReportsInv, Is
<1>7. StageInv'
  BY <1>1, <1>2, <1>4, <1>6, StageMoves
<1> QED  BY <1>4, <1>7 DEF EmailInv

LEMMA SpfDoneKeeps ==
    ASSUME EmailInv, Email!SpfDone
    PROVE  EmailInv'
<1>1. /\ stage = "spf" /\ stage' = "dmarc" /\ Email!Txt(Dmarc) /\ stack = <<>>
      /\ asking = Email!Idle /\ got = Email!Nothing
      /\ spf' = [spf EXCEPT !.lookups = queries]
      /\ UNCHANGED <<request, stack, visited, dmarc, dkim>>
  BY DEF Email!SpfDone, Email!reports
<1>2. LookupInv' /\ Pending' = {Dmarc} /\ UNCHANGED cache /\ (stopped => stopped')
  BY <1>1, TxtKeepsLookup DEF EmailInv, Owners
<1>3. Pending = {}
  BY <1>1 DEF Pending
<1>4. AskedInv' /\ ReportsInv'
  BY <1>1, <1>2, <1>3 DEF EmailInv, StageInv, AskedInv, ReportsInv, Is
<1>5. Is(Domain, "absent") \/ spf.status # "absent"
  BY <1>1, <1>3 DEF EmailInv, StageInv, RootInv
<1> QED  BY <1>1, <1>2, <1>4, <1>5, StageMoves DEF EmailInv

LEMMA FallBackKeeps ==
    ASSUME EmailInv, Email!FallBack
    PROVE  EmailInv'
<1>1. /\ stage = "dmarc" /\ got # Email!Nothing /\ got.owner = Dmarc
      /\ got.policy.kind = "absent" /\ request.organization = "other"
      /\ Email!Txt(OrgDmarc)
      /\ UNCHANGED <<request, stage, stack, visited, spf, dmarc, dkim>>
  BY DEF Email!FallBack, Email!MayFallBack, Email!walking, Email!reports
<1>2. asking = Email!Idle /\ Pending = {Dmarc} /\ Is(Dmarc, "absent")
  BY <1>1, SeenIsObserved DEF EmailInv
<1>3. LookupInv' /\ Pending' = {OrgDmarc} /\ UNCHANGED cache /\ (stopped => stopped')
  BY <1>1, <1>2, TxtKeepsLookup DEF EmailInv, Owners
<1>4. Domain # Dmarc
  BY EmailLimits DEF Email!EmailAssumption
<1>5. AskedInv' /\ ReportsInv'
  BY <1>1, <1>2, <1>3, <1>4 DEF EmailInv, StageInv, AskedInv, ReportsInv, Is
<1>6. Is(Domain, "absent") \/ spf.status # "absent"
  BY <1>1 DEF EmailInv, StageInv, RootInv
<1> QED  BY <1>1, <1>3, <1>5, <1>6, StageMoves DEF EmailInv

\* What is reported of the DMARC policy.
LEMMA DmarcStatusIsTrue ==
    ASSUME EmailInv, stage = "dmarc", got # Email!Nothing, ~Email!MayFallBack,
           Email!DmarcStatus = "absent"
    PROVE  /\ Is(Dmarc, "absent") /\ request.organization # "unknown"
           /\ request.organization = "other" => Is(OrgDmarc, "absent")
<1>1. got.policy.kind = "absent" /\ request.organization # "unknown"
  BY DEF Email!DmarcStatus, Email!StatusOf
<1>2. Is(got.owner, "absent") /\ Pending = {got.owner}
  BY <1>1, SeenIsObserved DEF EmailInv
<1>3. CASE got.owner = Dmarc
  BY <1>1, <1>2, <1>3 DEF Email!MayFallBack
<1>4. CASE got.owner # Dmarc
  BY <1>1, <1>2, <1>4 DEF EmailInv, StageInv, AskedInv
<1> QED  BY <1>3, <1>4

LEMMA DmarcDoneKeeps ==
    ASSUME EmailInv, Email!DmarcDone
    PROVE  EmailInv'
<1>1. /\ stage = "dmarc" /\ got # Email!Nothing /\ ~Email!MayFallBack
      /\ dmarc' = Email!DmarcStatus
      /\ UNCHANGED <<request, stack, visited, spf, dkim>>
  BY DEF Email!DmarcDone, Email!walking
<1>2. /\ asking = Email!Idle /\ Pending = {got.owner}
      /\ ~stopped => got.owner \in DOMAIN cache
  BY <1>1, SeenIsObserved DEF EmailInv
<1>3. ~stopped => {Domain, Dmarc} \subseteq DOMAIN cache
  BY <1>1, <1>2 DEF EmailInv, StageInv, ReportsInv
<1>4. dmarc' = "absent" =>
        /\ Is(Dmarc, "absent") /\ request.organization # "unknown"
        /\ request.organization = "other" => Is(OrgDmarc, "absent")
  BY <1>1, DmarcStatusIsTrue
<1>5. Is(Domain, "absent") \/ spf.status # "absent"
  BY <1>1 DEF EmailInv, StageInv, RootInv
<1>6. CASE request.selector /\ stage' = "dkim" /\ Email!Txt(Dkim)
  <2>1. LookupInv' /\ Pending' = {Dkim} /\ UNCHANGED cache /\ (stopped => stopped')
    BY <1>2, <1>6, TxtKeepsLookup DEF EmailInv, Owners
  <2>2. AskedInv' /\ ReportsInv'
    BY <1>1, <1>3, <1>4, <1>6, <2>1 DEF EmailInv, StageInv, AskedInv, ReportsInv, Is
  <2> QED  BY <1>1, <1>5, <1>6, <2>1, <2>2, StageMoves DEF EmailInv
<1>7. CASE /\ ~request.selector /\ stage' = "done" /\ got' = Email!Nothing
           /\ UNCHANGED <<asking, cache, queries, evidence, stopped>>
  <2>1. LookupInv' /\ Pending' = {}
    BY <1>1, <1>7, LookingKeepsLookup DEF EmailInv
  <2>2. AskedInv' /\ ReportsInv'
    BY <1>1, <1>3, <1>4, <1>7, <2>1 DEF EmailInv, StageInv, AskedInv, ReportsInv, Is
  <2> QED  BY <1>1, <1>5, <1>7, <2>1, <2>2, StageMoves DEF EmailInv
<1> QED  BY <1>6, <1>7 DEF Email!DmarcDone

LEMMA DkimDoneKeeps ==
    ASSUME EmailInv, Email!DkimDone
    PROVE  EmailInv'
<1>1. /\ stage = "dkim" /\ stage' = "done" /\ got # Email!Nothing /\ got' = Email!Nothing
      /\ dkim' = Email!StatusOf(got.policy)
      /\ UNCHANGED <<request, asking, cache, queries, evidence, stack, visited, spf, dmarc,
                     stopped>>
  BY DEF Email!DkimDone, Email!walking
<1>2. LookupInv' /\ Pending = {got.owner} /\ Pending' = {}
  BY <1>1, LookingKeepsLookup DEF EmailInv
<1>3. got.owner = Dkim /\ (~stopped => Dkim \in DOMAIN cache)
  BY <1>1, <1>2, SeenIsObserved DEF EmailInv, StageInv, AskedInv
<1>4. dkim' = "absent" => Is(Dkim, "absent")
  <2>1. dkim' = "absent" => got.policy.kind = "absent"
    BY <1>1 DEF Email!StatusOf
  <2> QED  BY <1>1, <1>3, <2>1, SeenIsObserved DEF EmailInv
<1>5. AskedInv' /\ ReportsInv'
  BY <1>1, <1>2, <1>3, <1>4 DEF EmailInv, StageInv, AskedInv, ReportsInv, Is
<1>6. Is(Domain, "absent") \/ spf.status # "absent"
  BY <1>1 DEF EmailInv, StageInv, RootInv
<1> QED  BY <1>1, <1>2, <1>5, <1>6, StageMoves DEF EmailInv

LEMMA OthersKeep ==
    ASSUME EmailInv, Email!Abort \/ Email!LookupEnds \/ UNCHANGED <<emailVars, queries>>
    PROVE  EmailInv'
<1>1. CASE Email!LookupEnds
  <2>1. LookupInv' /\ stopped' \in BOOLEAN
    BY <1>1, LookupEndsKeepsLookup DEF EmailInv, LookupInv
  <2> QED  BY <1>1, <2>1, LookupEndsKeepsLookup, OthersKeepStage DEF EmailInv
<1>2. CASE Email!Abort \/ UNCHANGED <<emailVars, queries>>
  <2>1. UNCHANGED <<request, stage, asking, got, cache, queries, evidence, stack, visited,
                    spf, dmarc, dkim, stopped>>
    BY <1>2 DEF Email!Abort, Email!dns, Email!walking, Email!reports, emailVars
  <2>2. LookupInv' /\ Pending' = Pending /\ Grows /\ stopped' \in BOOLEAN
    BY <2>1 DEF EmailInv, LookupInv, Pending, Grows
  <2> QED  BY <2>1, <2>2, OthersKeepStage DEF EmailInv
<1> QED  BY <1>1, <1>2

LEMMA EmailStepKeeps ==
    ASSUME EmailInv, Email!Next
    PROVE  EmailInv'
<1>1. CASE \E name \in Names \cup {Macro, PrivateName} :
              Email!NotFollowed(name) \/ Email!AlreadyWalked(name) \/ Email!Follow(name)
  BY <1>1, NotFollowedKeeps, AlreadyWalkedKeeps, FollowKeepsWalk
<1>2. CASE Email!Start \/ Email!SpfDone \/ Email!FallBack \/ Email!DmarcDone \/ Email!DkimDone
  BY <1>2, SpfStartKeeps, SpfDoneKeeps, FallBackKeeps, DmarcDoneKeeps, DkimDoneKeeps
<1>3. CASE Email!DeadEnd \/ Email!Enter \/ Email!Leave \/ Email!TooManyLinks
  BY <1>3, DeadEndKeeps, EnterKeeps, LeaveKeeps, TooManyLinksKeeps
<1>4. CASE Email!Abort \/ Email!LookupEnds
  BY <1>4, OthersKeep
<1> QED  BY <1>1, <1>2, <1>3, <1>4 DEF Email!Next

LEMMA EmailStarts == Email!Init => EmailInv
<1> SUFFICES ASSUME Email!Init  PROVE EmailInv
  OBVIOUS
<1>1. /\ stage = "start" /\ asking = Email!Idle /\ got = Email!Nothing
      /\ cache = <<>> /\ queries = 0 /\ evidence = 0 /\ stack = <<>> /\ visited = {}
      /\ spf = [status |-> "absent", complete |-> TRUE, lookups |-> 0]
      /\ dkim = "not-requested" /\ stopped = FALSE
      /\ request \in [organization : {"same", "other", "unknown"}, selector : BOOLEAN]
  BY DEF Email!Init
<1>2. Pending = {} /\ DOMAIN cache = {} /\ DOMAIN stack = {} /\ Email!Active = {}
  BY <1>1 DEF Pending, Email!Active
<1>3. LookupInv
  <2>1. queries \in 0..EmailQueries /\ evidence \in Nat /\ evidence = queries
    BY <1>1, EmailLimits DEF Email!EmailAssumption
  <2>2. \A n \in DOMAIN cache : cache[n] \in Observable
    BY <1>2
  <2> QED  BY <1>1, <2>1, <2>2 DEF LookupInv
<1>4. EmailTypeOK /\ AskedInv /\ RootInv /\ ReportsInv
  BY <1>1, <1>2 DEF EmailTypeOK, AskedInv, RootInv, ReportsInv
<1>5. WalkedInv
  BY <1>1 DEF WalkedInv
<1> QED  BY <1>2, <1>3, <1>4, <1>5 DEF EmailInv, StageInv

-----------------------------------------------------------------------------
(* The theorems                                                            *)

\* An e-mail inspection keeps its invariant while web inspections leave its state
\* alone, so that what it reports rests on what it asked and walked.
THEOREM EmailCorrect ==
    InspectionSpec => [](IF operation = "emailPolicy" THEN EmailInv ELSE stage = "start")
<1> DEFINE I == IF operation = "emailPolicy" THEN EmailInv ELSE stage = "start"
<1>1. InspectionInit => I
  BY EmailStarts DEF InspectionInit, Email!Init
<1>2. I /\ [InspectionNext]_inspectionVars => I'
  <2> SUFFICES ASSUME I, [InspectionNext]_inspectionVars  PROVE I'
    OBVIOUS
  <2>1. CASE EmailStep
    BY <2>1, EmailStepKeeps DEF EmailStep
  <2>2. CASE HttpStep
    BY <2>2 DEF HttpStep, emailVars
  <2>3. CASE UNCHANGED inspectionVars
    <3>1. UNCHANGED <<emailVars, queries>> /\ UNCHANGED <<operation, stage>>
      BY <2>3 DEF inspectionVars, vars, emailVars
    <3> QED  BY <3>1, OthersKeep
  <2> QED  BY <2>1, <2>2, <2>3 DEF InspectionNext
<1> QED  BY <1>1, <1>2, PTL DEF InspectionSpec

\* A policy is reported as present, and its traversal as complete, only when all
\* that is below the root was observed and valid (api.ts:188): the owners that were
\* walked are closed under the links of their records, without a circle.
THEOREM CompleteWasExplored == InspectionSpec => []CompleteIsExplored
<1>1. EmailInv => Email!CompleteIsExplored
  <2> SUFFICES ASSUME EmailInv, stage \notin {"start", "spf"}
               PROVE  /\ spf.status = "present" => spf.complete
                      /\ spf.complete =>
                            \/ /\ spf.status = "present"
                               /\ \E owners \in SUBSET Names : Email!Explored(owners)
                            \/ /\ spf.status = "absent" /\ Domain \in DOMAIN cache
                               /\ cache[Domain].kind = "absent"
    BY DEF Email!CompleteIsExplored
  <2>1. stack = <<>> /\ visited \subseteq Names
    BY DEF EmailInv, StageInv, AskedInv, EmailTypeOK
  <2>2. ASSUME spf.complete, Domain \in visited
        PROVE  Email!Explored(visited)
    BY <2>2 DEF EmailInv, StageInv, WalkedInv, Is, Email!Explored
  <2>3. spf.status = "present" => Domain \in visited
    BY <2>1 DEF EmailInv, StageInv, RootInv, Email!Active
  <2> QED  BY <2>1, <2>2, <2>3 DEF EmailInv, StageInv, RootInv, Is
<1>2. stage = "start" => Email!CompleteIsExplored
  BY DEF Email!CompleteIsExplored
<1>3. (IF operation = "emailPolicy" THEN EmailInv ELSE stage = "start") => CompleteIsExplored
  BY <1>1, <1>2 DEF CompleteIsExplored
<1> QED  BY <1>3, EmailCorrect, PTL

\* Absence was observed wherever it is reported, and a reply without an error rests
\* on lookups that all succeeded, all of them in the evidence (email.ts).
THEOREM NothingGuessed == InspectionSpec => []NothingIsGuessed
<1>1. EmailInv => Email!NothingIsGuessed
  <2> SUFFICES ASSUME EmailInv, stage = "done"
               PROVE  Email!NothingIsGuessed
    BY DEF Email!NothingIsGuessed
  <2>1. Pending = {} /\ asking = Email!Idle
    BY DEF EmailInv, StageInv, AskedInv, Pending
  <2>2. queries <= EmailQueries /\ (~stopped => evidence = queries)
    BY <2>1, EmailLimits DEF EmailInv, LookupInv, Email!EmailAssumption
  <2> QED  BY <2>1, <2>2
           DEF EmailInv, StageInv, ReportsInv, WalkedInv, Is, Email!NothingIsGuessed
<1>2. stage = "start" => Email!NothingIsGuessed
  BY DEF Email!NothingIsGuessed
<1>3. (IF operation = "emailPolicy" THEN EmailInv ELSE stage = "start") => NothingIsGuessed
  BY <1>1, <1>2 DEF NothingIsGuessed
<1> QED  BY <1>3, EmailCorrect, PTL

\* A web inspection in this handler takes the steps of HttpInspection, and nothing
\* else does; the properties proved of it hold of the handler.
THEOREM WebInspectionsTrue == InspectionSpec => [](HopsAreChecked /\ ReportIsTrue)
<1> DEFINE Untouched == operation = "emailPolicy" /\ phase = "idle" /\ hops = <<>>
<1>1. InspectionInit => (operation = "http" /\ Init) \/ Untouched
  BY DEF InspectionInit, Init
<1>2. operation = "http" /\ [InspectionNext]_inspectionVars =>
         (operation = "http")' /\ [Next]_vars
  BY DEF InspectionNext, HttpStep, EmailStep, inspectionVars
<1>3. Untouched /\ [InspectionNext]_inspectionVars => Untouched'
  BY DEF InspectionNext, HttpStep, EmailStep, inspectionVars, vars, httpVars
<1>4. Untouched => HopsAreChecked /\ ReportIsTrue
  BY HttpAssumption DEF HopsAreChecked, ReportIsTrue
<1> QED  BY <1>1, <1>2, <1>3, <1>4, HopsChecked, ReportsAreTrue, PTL DEF InspectionSpec, Spec
=============================================================================

---------------------------- MODULE EmailPolicy ----------------------------
(***************************************************************************)
(* One e-mail policy inspection (email.ts): the walk along the includes    *)
(* and redirects of SPF, then DMARC, then DKIM, all on one budget of       *)
(* queries and one cache of TXT lookups.                                   *)
(*                                                                         *)
(* Between a lookup's answer and the next lookup the code does not wait;   *)
(* the walk is stepped through link by link here, and the signal can only  *)
(* abort while a lookup is under way.  What the DNS answers is anything.   *)
(***************************************************************************)
EXTENDS Naturals, Sequences, SequencesExt

CONSTANTS Names,            \* owners an SPF record may refer to
          Domain,           \* the one that is inspected
          Dmarc, OrgDmarc, Dkim,    \* the owners of the other policies
          Macro, Private,   \* links that are not expanded, or not public
          MaxLinks,         \* bound on the links of a record
          EmailQueries,     \* LIMITS.emailQueries
          EmailDepth,       \* LIMITS.emailDepth
          Reserve           \* queries kept for DMARC and DKIM, 3 in the code

Nobody == "nobody"

EmailAssumption ==
    /\ Domain \in Names
    /\ {Dmarc, OrgDmarc, Dkim, Macro, Private} \cap Names = {}
    /\ Nobody \notin Names \cup {Dmarc, OrgDmarc, Dkim}
    /\ EmailDepth \in Nat /\ MaxLinks \in Nat
    /\ EmailQueries \in Nat /\ Reserve \in 0..EmailQueries

VARIABLES
    request,    \* the organizational domain and the DKIM selector, if any
    aborted,    \* the request's signal
    stage,      \* "spf", "dmarc", "dkim" or "done"
    asking,     \* the lookup under way in txt(), or Idle
    got,        \* what txt() has returned and nobody has looked at yet
    cache, queries, evidence,
    stack,      \* the owners being walked, with the links still to follow
    visited, deps,
    spf, dmarc, dkim,   \* the three reports
    stopped     \* dns.error is set

vars == <<request, aborted, stage, asking, got, cache, queries, evidence, stack,
          visited, deps, spf, dmarc, dkim, stopped>>
dns == <<asking, got, cache, queries, evidence>>
walking == <<stack, visited, deps, spf>>
reports == <<dmarc, dkim>>

Idle == [initial |-> Nobody, owner |-> Nobody, seen |-> {}]

\* A policy at an owner: none, an unusable one (or several), or a valid one.
NoLinks == <<>>
Policy(kind, links) == [kind |-> kind, links |-> links]
Links == UNION {[1..n -> Names \cup {Macro, Private}] : n \in 0..MaxLinks}
Policies == {Policy(kind, NoLinks) : kind \in {"absent", "invalid"}}
            \cup {Policy("valid", links) : links \in Links}
Nothing == [owner |-> Nobody, policy |-> Policy("failed", NoLinks)]
Observed(owner, policy) == [owner |-> owner, policy |-> policy]
Failed(owner) == Observed(owner, Policy("failed", NoLinks))

Init ==
    /\ request \in [organization : {"same", "other", "unknown"}, selector : BOOLEAN]
    /\ aborted = FALSE /\ stage = "start"
    /\ asking = Idle /\ got = Nothing
    /\ cache = <<>> /\ queries = 0 /\ evidence = 0
    /\ stack = <<>> /\ visited = {} /\ deps = 0
    /\ spf = [status |-> "absent", complete |-> TRUE, lookups |-> 0]
    /\ dmarc = "absent" /\ dkim = "not-requested"
    /\ stopped = FALSE

-----------------------------------------------------------------------------
(* txt(): a lookup through any aliases, answered once and then from cache  *)

\* One more query, unless there is no going on: the name is not public or was
\* asked for already, the signal is aborted, the budget is spent.
Ask(owner, initial, seen) ==
    IF owner \in seen \cup {Private} \/ aborted \/ queries >= EmailQueries
    THEN /\ got' = Failed(initial) /\ asking' = Idle
         /\ stopped' = TRUE
         /\ UNCHANGED queries
    ELSE /\ queries' = queries + 1
         /\ asking' = [initial |-> initial, owner |-> owner, seen |-> seen \cup {owner}]
         /\ got' = Nothing
         /\ UNCHANGED stopped

Txt(owner) ==
    /\ IF owner \in DOMAIN cache
       THEN /\ got' = Observed(owner, cache[owner])
            /\ UNCHANGED <<asking, queries, stopped>>
       ELSE Ask(owner, owner, {})
    /\ UNCHANGED <<cache, evidence>>

\* The evidence has a cap of its own; once an outcome does not fit it is full.
Kept(fits) ==
    /\ fits => evidence = queries - 1
    /\ evidence' = IF fits THEN evidence + 1 ELSE evidence

\* Mutant of LookupFails: the failure does not reach the reply.
LookupFailsSilently(fits) ==
    /\ Kept(fits)
    /\ got' = Failed(asking.initial) /\ asking' = Idle
    /\ UNCHANGED <<request, aborted, stage, cache, queries, stopped, walking, reports>>

\* The lookup fails, or its answer or the evidence is too large.
LookupFails(fits) ==
    /\ Kept(fits)
    /\ got' = Failed(asking.initial) /\ asking' = Idle
    /\ stopped' = TRUE
    /\ UNCHANGED <<request, aborted, stage, cache, queries, walking, reports>>

Answered(policy) ==
    /\ Kept(TRUE) /\ ~aborted
    /\ stage # "spf" => policy.links = NoLinks
    /\ cache' = [owner \in DOMAIN cache \cup {asking.initial} |->
                    IF owner = asking.initial THEN policy ELSE cache[owner]]
    /\ got' = Observed(asking.initial, policy) /\ asking' = Idle
    /\ UNCHANGED <<request, aborted, stage, queries, stopped, walking, reports>>

Aliased(target) ==
    /\ Kept(TRUE) /\ ~aborted
    /\ Ask(target, asking.initial, asking.seen)
    /\ UNCHANGED <<request, aborted, stage, cache, walking, reports>>

\* The deadline, or the client leaves.
Abort ==
    /\ asking # Idle /\ ~aborted
    /\ aborted' = TRUE
    /\ UNCHANGED <<request, stage, dns, stopped, walking, reports>>

-----------------------------------------------------------------------------
(* inspectSpf(): the walk.  `got' is what txt() returned for an owner that *)
(* is entered; a frame of the stack is an owner with links left.           *)

Incomplete(report) ==
    [report EXCEPT !.complete = FALSE,
                   !.status = IF @ = "present" THEN "indeterminate" ELSE @]

Start ==
    /\ stage = "start" /\ stage' = "spf"
    /\ Txt(Domain)
    /\ UNCHANGED <<request, aborted, walking, reports>>

\* The owner's record does not lead any further.
DeadEnd ==
    /\ stage = "spf" /\ got # Nothing /\ got.policy.kind # "valid"
    /\ LET root == stack = <<>>
           status == CASE got.policy.kind = "failed" -> "indeterminate"
                       [] got.policy.kind = "invalid" -> "invalid"
                       [] OTHER -> "absent"
       IN  spf' = IF root /\ status = "absent" THEN spf
                  ELSE IF root THEN [spf EXCEPT !.status = status, !.complete = FALSE]
                  ELSE Incomplete(spf)
    /\ got' = Nothing
    /\ UNCHANGED <<request, aborted, stage, asking, cache, queries, evidence, stack,
                   visited, deps, reports, stopped>>

Enter ==
    /\ stage = "spf" /\ got # Nothing /\ got.policy.kind = "valid"
    /\ stack' = Append(stack, [owner |-> got.owner, links |-> got.policy.links])
    /\ spf' = IF stack = <<>> THEN [spf EXCEPT !.status = "present"] ELSE spf
    /\ got' = Nothing
    /\ UNCHANGED <<request, aborted, stage, asking, cache, queries, evidence, visited,
                   deps, reports, stopped>>

\* The walker is between two links of the topmost owner.
AtLink == stage = "spf" /\ asking = Idle /\ got = Nothing /\ stack # <<>>
Top == Last(stack)
Active == {stack[i].owner : i \in DOMAIN stack}
Consumed == [stack EXCEPT ![Len(stack)].links = Tail(@)]

Leave ==
    /\ AtLink /\ Top.links = <<>>
    /\ stack' = Front(stack)
    /\ visited' = visited \cup {Top.owner}
    /\ UNCHANGED <<request, aborted, stage, dns, deps, spf, reports, stopped>>

\* The report has no room for another dependency: the owner's loop ends.
TooManyLinks ==
    /\ AtLink /\ Top.links # <<>> /\ deps >= EmailQueries
    /\ stack' = [stack EXCEPT ![Len(stack)].links = <<>>]
    /\ spf' = Incomplete(spf)
    /\ stopped' = TRUE
    /\ UNCHANGED <<request, aborted, stage, dns, visited, deps, reports>>

Link(target) ==
    /\ AtLink /\ Top.links # <<>> /\ deps < EmailQueries
    /\ target = Head(Top.links)
    /\ deps' = deps + 1 /\ stack' = Consumed

AtLimit == Len(stack) - 1 >= EmailDepth \/ queries >= EmailQueries - Reserve

\* Mutant of NotFollowed: a circle is skipped like an owner walked before.
NotFollowedQuietly(target) ==
    /\ Link(target)
    /\ target \in {Macro, Private} \cup Active \/ AtLimit
    /\ spf' = IF target \in Active THEN spf ELSE Incomplete(spf)
    /\ stopped' = (stopped \/ target \notin {Macro} \cup Active)
    /\ UNCHANGED <<request, aborted, stage, dns, visited, reports>>

\* A macro, a name that is not public, an owner that is being walked, or a limit.
NotFollowed(target) ==
    /\ Link(target)
    /\ target \in {Macro, Private} \cup Active \/ AtLimit
    /\ spf' = Incomplete(spf)
    /\ stopped' = (stopped \/ target \notin {Macro} \cup Active)
    /\ UNCHANGED <<request, aborted, stage, dns, visited, reports>>

AlreadyWalked(target) ==
    /\ Link(target)
    /\ target \in visited \ Active /\ ~AtLimit
    /\ UNCHANGED <<request, aborted, stage, dns, visited, spf, reports, stopped>>

Follow(target) ==
    /\ Link(target)
    /\ target \in Names \ (visited \cup Active) /\ ~AtLimit
    /\ Txt(target)
    /\ UNCHANGED <<request, aborted, stage, visited, spf, reports>>

SpfDone ==
    /\ stage = "spf" /\ asking = Idle /\ got = Nothing /\ stack = <<>>
    /\ stage' = "dmarc"
    /\ spf' = [spf EXCEPT !.lookups = queries]
    /\ Txt(Dmarc)
    /\ UNCHANGED <<request, aborted, stack, visited, deps, reports>>

-----------------------------------------------------------------------------
(* inspectDmarc(), inspectDkim()                                           *)

StatusOf(policy) ==
    CASE policy.kind = "failed" -> "indeterminate"
      [] policy.kind = "valid" -> "present"
      [] OTHER -> policy.kind

MayFallBack ==
    /\ got.owner = Dmarc /\ got.policy.kind = "absent"
    /\ request.organization = "other"

FallBack ==
    /\ stage = "dmarc" /\ got # Nothing /\ MayFallBack
    /\ Txt(OrgDmarc)
    /\ UNCHANGED <<request, aborted, stage, walking, reports>>

\* Without an organizational domain, nobody knows where a fallback would be.
DmarcStatus ==
    IF got.policy.kind = "absent" /\ request.organization = "unknown"
    THEN "indeterminate" ELSE StatusOf(got.policy)

DmarcDone ==
    /\ stage = "dmarc" /\ got # Nothing /\ ~MayFallBack
    /\ dmarc' = DmarcStatus
    /\ IF request.selector
       THEN stage' = "dkim" /\ Txt(Dkim)
       ELSE /\ stage' = "done" /\ got' = Nothing
            /\ UNCHANGED <<asking, cache, queries, evidence, stopped>>
    /\ UNCHANGED <<request, aborted, walking, dkim>>

DkimDone ==
    /\ stage = "dkim" /\ got # Nothing
    /\ dkim' = StatusOf(got.policy)
    /\ stage' = "done" /\ got' = Nothing
    /\ UNCHANGED <<request, aborted, asking, cache, queries, evidence, walking, dmarc,
                   stopped>>

\* The lookup under way brings something.
LookupEnds ==
    /\ asking # Idle
    /\ \/ \E fits \in BOOLEAN : LookupFails(fits)
       \/ \E policy \in Policies : Answered(policy)
       \/ \E target \in Names \cup {Private} : Aliased(target)

Next ==
    \/ Start \/ Abort \/ LookupEnds
    \/ DeadEnd \/ Enter \/ Leave \/ TooManyLinks
    \/ \E target \in Names \cup {Macro, Private} :
          NotFollowed(target) \/ AlreadyWalked(target) \/ Follow(target)
    \/ SpfDone \/ FallBack \/ DmarcDone \/ DkimDone

Spec == Init /\ [][Next]_vars

-----------------------------------------------------------------------------
(* Properties                                                              *)

LinksOf(owner) == Range(cache[owner].links)

\* A set of owners that holds every policy the root refers to, all of them
\* observed and valid, with nothing left out and no circle among them.
Explored(owners) ==
    /\ Domain \in owners
    /\ \A n \in owners : /\ n \in DOMAIN cache /\ cache[n].kind = "valid"
                         /\ LinksOf(n) \subseteq owners
    /\ \A circle \in (SUBSET owners) \ {{}} :
          \E n \in circle : LinksOf(n) \cap circle = {}

\* "Complete traversal of the inspected static graph" (api.ts:188): a policy is
\* reported as present, and the traversal as complete, only when every include
\* and redirect below the root was observed and valid, whatever the order of the
\* links and however often an owner is referred to.
CompleteIsExplored ==
    stage \notin {"start", "spf"} =>
        /\ spf.status = "present" => spf.complete
        /\ spf.complete =>
              \/ spf.status = "present" /\ \E owners \in SUBSET Names : Explored(owners)
              \/ /\ spf.status = "absent" /\ Domain \in DOMAIN cache
                 /\ cache[Domain].kind = "absent"

\* No policy is called absent, and no reply complete, on a guess: absence was
\* observed at every owner that had to be asked, and a reply without an error
\* rests on lookups that all succeeded, each of them in the evidence and within
\* the budget.
NothingIsGuessed ==
    LET Is(owner, kind) == owner \in DOMAIN cache /\ cache[owner].kind = kind
    IN  stage = "done" =>
          /\ queries <= EmailQueries
          /\ dmarc = "absent" => /\ Is(Dmarc, "absent")
                                 /\ request.organization # "unknown"
                                 /\ request.organization = "other" => Is(OrgDmarc, "absent")
          /\ dkim = "absent" => Is(Dkim, "absent")
          /\ ~stopped => /\ evidence = queries
                         /\ {Domain, Dmarc} \subseteq DOMAIN cache
                         /\ request.selector => Dkim \in DOMAIN cache
                         /\ \A n \in visited : LinksOf(n) \subseteq DOMAIN cache \cup {Macro}

\* "Reserve requests for DMARC and the explicit DKIM selector" (email.ts:223): the
\* walk leaves them unspent.
ReserveKept ==
    stage \notin {"start", "spf"} => spf.lookups <= EmailQueries - Reserve

=============================================================================

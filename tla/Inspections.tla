---------------------------- MODULE Inspections ----------------------------
(***************************************************************************)
(* The handler of the POST routes (app.ts:115-152) with the two            *)
(* inspections that follow what they find: HttpInspection or EmailPolicy,  *)
(* on one signal and one budget of queries, whose size the operation sets. *)
(***************************************************************************)
EXTENDS HttpInspection

CONSTANTS Names, Domain, Dmarc, OrgDmarc, Dkim, Macro, PrivateName,
          MaxLinks, EmailQueries, EmailDepth, Reserve

VARIABLES
    operation,      \* the route
    request, stage, asking, got, cache, evidence, stack, visited, deps, spf, dmarc, dkim,
    stopped

emailVars == <<request, stage, asking, got, cache, evidence, stack, visited, deps, spf,
               dmarc, dkim, stopped>>
httpVars == <<phase, target, seen, hops, shown, lookup, values, pinned, termination, error>>
inspectionVars == <<vars, emailVars, operation>>

Email == INSTANCE EmailPolicy WITH Private <- PrivateName

ASSUME EmailLimits == Email!EmailAssumption

InspectionInit ==
    /\ operation \in {"http", "emailPolicy"}
    /\ Init /\ Email!Init
    /\ operation = "http" => request = [organization |-> "same", selector |-> FALSE]

HttpStep == operation = "http" /\ Next /\ UNCHANGED <<emailVars, operation>>
EmailStep ==
    /\ operation = "emailPolicy" /\ Email!Next
    /\ UNCHANGED <<httpVars, operation>>

InspectionNext == HttpStep \/ EmailStep

InspectionSpec == InspectionInit /\ [][InspectionNext]_inspectionVars

-----------------------------------------------------------------------------
(* Properties, besides those of HttpInspection                             *)

\* What the walk of an e-mail inspection and its reports claim (email.ts).
CompleteIsExplored == Email!CompleteIsExplored
NothingIsGuessed == Email!NothingIsGuessed

=============================================================================

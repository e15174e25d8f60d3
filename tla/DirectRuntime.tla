---------------------------- MODULE DirectRuntime ----------------------------
(***************************************************************************)
(* A call of one of the tools that run on the page itself, or of the       *)
(* regular expression tool in its worker: validated() of runtime.ts around *)
(* the handlers.                                                           *)
(***************************************************************************)
EXTENDS YamlExpansion, RegexMatches, PasswordGenerator, Conversions, HeaderAnalysis

CONSTANTS Inputs

ASSUME InputsAssumption ==
    /\ Malformed \subseteq Inputs
    /\ \A r \in Inputs : /\ r.tool = "regex" => Matchable(r)
                         /\ r.tool \in {"base64", "epoch", "chmod"} => Convertible(r)
                         /\ r.tool = "json" => JsonInput(r)
                         /\ r.tool = "yaml" => YamlTree(r.doc)
                         /\ r.tool = "email" => HeaderText(r)
                         /\ r.tool = "password" => Drawable(r)
                         /\ r.tool = "passphrase" => Joinable(r)

Init == CallInit(Inputs)

Structured == FormatJson \/ Start \/ Enter \/ Return
Regex == RegexStart \/ NoMatch \/ TooMany \/ Match \/ OverBudget
Password ==
    \/ PasswordStart \/ Drawn \/ Passphrase
    \/ \E sample \in 0..(WordValues - 1) : Draw(sample)

Next ==
    \/ Parse \/ Check \/ Abort
    \/ Structured \/ Regex \/ Password
    \/ Base64 \/ Epoch \/ Chmod
    \/ Unfold \/ Parsed

Spec == Init /\ [][Next]_callVars

=============================================================================

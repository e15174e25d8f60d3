------------------------------ MODULE ToolCall ------------------------------
(***************************************************************************)
(* One call of a local tool as runtime.ts makes it: validated() checks the *)
(* signal, parses the input, runs the handler, checks the signal and the   *)
(* size of the result.  JavaScript runs a handler without interruption up  *)
(* to an await: the caller can abort before the call, while the handler    *)
(* awaits and before the result is looked at, never in between.            *)
(***************************************************************************)
EXTENDS Naturals, Sequences

VARIABLES
    input,      \* what the tool is called with; input.tool names the tool
    phase,      \* "called", "parsed", "working", "awaiting", "handled", "settled"
    aborted,    \* context.signal.aborted
    work,       \* the variables of a handler that runs in several steps
    result      \* what the handler returned or threw, then what the caller gets

callVars == <<input, phase, aborted, work, result>>

Fault(code) == [kind |-> "error", code |-> code]
Data(data) == [kind |-> "result", data |-> data]

CallInit(Inputs) ==
    /\ input \in Inputs
    /\ phase = "called"
    /\ aborted \in BOOLEAN
    /\ work = <<>> /\ result = <<>>

-----------------------------------------------------------------------------
(* The handler of a tool is one or more of these steps                     *)

Begun(tool) == phase = "parsed" /\ input.tool = tool
Working(tool) == phase = "working" /\ input.tool = tool

\* A handler with a loop starts it, or goes on.
Proceed(next) ==
    /\ phase' = "working" /\ work' = next
    /\ UNCHANGED <<input, aborted, result>>

\* The handler returns, or throws an InputFault.
Leave(outcome) ==
    /\ phase' = "handled" /\ result' = outcome
    /\ UNCHANGED <<input, aborted, work>>

-----------------------------------------------------------------------------
(* validated()                                                             *)

Settle(outcome) ==
    /\ phase' = "settled" /\ result' = outcome
    /\ UNCHANGED <<input, aborted, work>>

\* Inputs that do not match the schema of their tool: too big, or otherwise.
Malformed == [tool : {"malformed"}, tooBig : BOOLEAN]

\* checkAbort() and the schema of the input.
Parse ==
    /\ phase = "called"
    /\ \/ aborted /\ Settle(Fault("ABORTED"))
       \/ ~aborted /\ input.tool = "malformed"
          /\ Settle(Fault(IF input.tooBig THEN "LIMIT_EXCEEDED" ELSE "INVALID_INPUT"))
       \/ ~aborted /\ input.tool # "malformed"
          /\ phase' = "parsed" /\ UNCHANGED <<input, aborted, work, result>>

\* The handler threw, or it returned: checkAbort() again and checkOutputSize().
Check ==
    /\ phase = "handled"
    /\ \/ result.kind = "error" /\ Settle(result)
       \/ result.kind = "result" /\ aborted /\ Settle(Fault("ABORTED"))
       \/ result.kind = "result" /\ ~aborted
          /\ (Settle(result) \/ Settle(Fault("LIMIT_EXCEEDED")))

\* The caller aborts, or leaves.
Abort ==
    /\ phase \in {"awaiting", "handled"} /\ ~aborted
    /\ aborted' = TRUE
    /\ UNCHANGED <<input, phase, work, result>>

=============================================================================

------------------------------- MODULE Subnet -------------------------------
(***************************************************************************)
(* The engine of the IPv4 subnet planner (subnet.ts), driven by a caller   *)
(* that keeps the last accepted plan and sends it back with every command. *)
(* A dotted quad is one-to-one with the number it spells, so an address    *)
(* here is that number; the 32 bits of an address are the constant Bits.   *)
(***************************************************************************)
EXTENDS Naturals, FiniteSets, Sequences, SequencesExt, TLC

CONSTANTS Bits,         \* 32 in the code
          MaxLeaves,    \* LIMITS.subnetLeaves
          Notes,        \* the annotations (note and colour) of the model
          MaxBytes,     \* LIMITS.outputBytes
          LeafBytes(_, _),  \* the bytes an allocation takes in a part of a result
          Frame(_, _),      \* the bytes around the allocations, by part and root
          Padding           \* the bytes an import has besides the compact state

Address == 0 .. 2^Bits - 1
Cidr == [address : Address, prefix : 0..Bits]
Allocation == [cidr : Cidr, note : Notes]

\* What a result is made of: the state, its rows and the file of an export.
Formats == {"json", "csv"}
Parts == {"state", "rows"} \cup Formats

ASSUME BitsAssumption == Bits \in Nat \ {0}
ASSUME MaxLeavesAssumption == MaxLeaves \in Nat \ {0}
ASSUME BytesAssumption ==
    /\ MaxBytes \in Nat /\ Padding \subseteq Nat
    /\ \A part \in Parts : /\ \A leaf \in Allocation : LeafBytes(part, leaf) \in Nat
                          /\ \A root \in Cidr : Frame(part, root) \in Nat

VARIABLES plan,     \* the last accepted SubnetState, or NoPlan
          command,  \* the command the engine is working on, or Idle
          reply     \* how the last command ended

vars == <<plan, command, reply>>

NoPlan == [root |-> [address |-> 0, prefix |-> 0], allocations |-> <<>>]
NoNote == "none"    \* a join without an annotation
Idle == [action |-> "none"]

-----------------------------------------------------------------------------
(* range() and the partition check                                         *)

Block(address, prefix) == [address |-> address, prefix |-> prefix]
Size(c) == 2^(Bits - c.prefix)
Start(c) == (c.address \div Size(c)) * Size(c)
End(c) == Start(c) + Size(c) - 1
Canonical(c) == [c EXCEPT !.address = Start(c)]

Leaves(state) == Range(state.allocations)

\* sort() by start is stable: those that come before allocation j.
Earlier(allocations, j) ==
    LET start(i) == Start(allocations[i].cidr)
    IN  {i \in DOMAIN allocations : start(i) < start(j) \/ (start(i) = start(j) /\ i < j)}
Sorted(allocations) ==
    [n \in DOMAIN allocations |->
        allocations[CHOOSE j \in DOMAIN allocations : Cardinality(Earlier(allocations, j)) = n - 1]]

\* The cursor of the loop, after a leaf it has accepted, is the leaf's end + 1.
Cursor(state, allocations, i) ==
    IF i = 1 THEN Start(state.root) ELSE End(allocations[i - 1].cidr) + 1

\* Mutant of LeafFits: a gap before the leaf is not noticed.
LeafFitsAfterGap(state, allocations, i) ==
    LET leaf == allocations[i].cidr
    IN  /\ Canonical(leaf) = leaf
        /\ Start(leaf) >= Cursor(state, allocations, i)
        /\ End(leaf) <= End(state.root)
        /\ leaf.prefix >= state.root.prefix

LeafFits(state, allocations, i) ==
    LET leaf == allocations[i].cidr
    IN  /\ Canonical(leaf) = leaf
        /\ Start(leaf) = Cursor(state, allocations, i)
        /\ End(leaf) <= End(state.root)
        /\ leaf.prefix >= state.root.prefix

\* Mutant of ValidPartition: the end of the root need not be reached.
ValidPartitionOpen(state) ==
    LET allocations == Sorted(state.allocations)
    IN  /\ Canonical(state.root) = state.root
        /\ \A i \in DOMAIN allocations : LeafFits(state, allocations, i)

ValidPartition(state) ==
    LET allocations == Sorted(state.allocations)
    IN  /\ Canonical(state.root) = state.root
        /\ \A i \in DOMAIN allocations : LeafFits(state, allocations, i)
        /\ Cursor(state, allocations, Len(allocations) + 1) = End(state.root) + 1

\* The size of what is made of the allocations, as JSON.
PartBytes(part, state) ==
    Frame(part, state.root)
    + SumFunction([i \in DOMAIN state.allocations |-> LeafBytes(part, state.allocations[i])])
StateBytes(state) == PartBytes("state", state)
ResultBytes(state, file) ==
    StateBytes(state) + PartBytes("rows", state)
    + IF file \in Formats THEN PartBytes(file, state) ELSE 0

\* subnetStateSchema: between one and MaxLeaves allocations, and a byte budget.
SchemaAccepts(state) ==
    /\ Len(state.allocations) \in 1..MaxLeaves
    /\ StateBytes(state) <= MaxBytes

-----------------------------------------------------------------------------
(* The commands.  All but create and import are given the state they edit, *)
(* which is checked first; each ends with the check of its new state and   *)
(* of the size of its result (checkOutputSize).                            *)

Init == plan = NoPlan /\ command = Idle /\ reply = "none"

Rejected == reply' = "rejected" /\ UNCHANGED plan

InOrder(state) == [state EXCEPT !.allocations = Sorted(@)]

\* A result with a file of some format, or with none.
Returned(state, file) ==
    IF ValidPartition(state) /\ ResultBytes(InOrder(state), file) <= MaxBytes
    THEN plan' = InOrder(state) /\ reply' = "accepted"
    ELSE Rejected

Checked(state) == Returned(state, "none")

Requested(state) == SchemaAccepts(state) /\ ValidPartition(state)

\* Where a block stands in the list; the list is a partition, so find() finds them all.
Selected(state, cidr) == {i \in DOMAIN state.allocations : state.allocations[i].cidr = cidr}
Edited(state, allocations) == [state EXCEPT !.allocations = allocations]

Answers(action) == command.action = action /\ command' = Idle

Create ==
    /\ Answers("create")
    /\ LET root == Canonical(command.cidr)
       IN  Checked([root |-> root,
                    allocations |-> <<[cidr |-> root, note |-> command.note]>>])

\* The text of an import is bounded before it is parsed.
TextFits == StateBytes(command.state) + command.padding <= MaxBytes

Import ==
    /\ Answers("import")
    /\ IF TextFits /\ SchemaAccepts(command.state) THEN Checked(command.state) ELSE Rejected

Export ==
    /\ Answers("export")
    /\ IF Requested(command.state) THEN Returned(command.state, command.format) ELSE Rejected

CanSplit(state, cidr) ==
    /\ Requested(state)
    /\ Selected(state, cidr) # {}
    /\ cidr.prefix # Bits
    /\ Len(state.allocations) < MaxLeaves

Halves(leaf) ==
    LET half(k) == [leaf EXCEPT !.cidr =
                        Block(Start(leaf.cidr) + k * (Size(leaf.cidr) \div 2),
                              leaf.cidr.prefix + 1)]
    IN  <<half(0), half(1)>>

SplitAt(state, cidr) ==
    \/ /\ CanSplit(state, cidr)
       /\ \E i \in Selected(state, cidr) :
             Checked(Edited(state, RemoveAt(state.allocations, i) \o Halves(state.allocations[i])))
    \/ ~CanSplit(state, cidr) /\ Rejected

Split == Answers("split") /\ SplitAt(command.state, command.cidr)

Siblings(a, b) ==
    /\ a.prefix # 0
    /\ a.prefix = b.prefix
    /\ Start(a) \div (2 * Size(a)) = Start(b) \div (2 * Size(b))

\* Mutant of Joinable: different notes are no obstacle.
JoinableSilently(state, cidrs, note) ==
    {pair \in Selected(state, cidrs[1]) \X Selected(state, cidrs[2]) :
        /\ Requested(state)
        /\ pair[1] # pair[2]
        /\ Siblings(cidrs[1], cidrs[2])}

\* The places of the allocations that two CIDRs and an annotation name for a join.
Joinable(state, cidrs, note) ==
    {pair \in Selected(state, cidrs[1]) \X Selected(state, cidrs[2]) :
        /\ Requested(state)
        /\ pair[1] # pair[2]
        /\ Siblings(cidrs[1], cidrs[2])
        /\ note = NoNote => state.allocations[pair[1]].note = state.allocations[pair[2]].note}

Joined(first, second, note) ==
    [cidr |-> Block(Min({Start(first.cidr), Start(second.cidr)}),
                    first.cidr.prefix - 1),
     note |-> IF note = NoNote THEN first.note ELSE note]

JoinPair(state, cidrs, note) ==
    \/ \E pair \in Joinable(state, cidrs, note) :
          Checked(Edited(state, Append(RemoveAt(RemoveAt(state.allocations, Max(Range(pair))), Min(Range(pair))),
                                       Joined(state.allocations[pair[1]], state.allocations[pair[2]], note))))
    \/ Joinable(state, cidrs, note) = {} /\ Rejected

Join == Answers("join") /\ JoinPair(command.state, command.cidrs, command.note)

Renoted(leaf, cidr, note) ==
    IF leaf.cidr = cidr THEN [leaf EXCEPT !.note = note] ELSE leaf

AnnotateAt(state, cidr, note) ==
    IF Requested(state) /\ Selected(state, cidr) # {}
    THEN Checked(Edited(state, [i \in DOMAIN state.allocations |->
                                   Renoted(state.allocations[i], cidr, note)]))
    ELSE Rejected

Annotate ==
    Answers("annotate") /\ AnnotateAt(command.state, command.cidr, command.note)

-----------------------------------------------------------------------------
(* What callers send.  The page sends the plan it keeps; a caller of its   *)
(* own may send its allocations out of order or incomplete, and an import  *)
(* is an export that somebody may have edited: an entry dropped, repeated  *)
(* or changed, the order turned around, another root.                      *)

Sent == {plan, Edited(plan, Reverse(plan.allocations)),
               Edited(plan, Tail(plan.allocations))}

Imported ==
    LET s == plan.allocations
    IN  {Edited(plan, t) : t \in
              {s, Reverse(s)}
              \cup {RemoveAt(s, i) : i \in DOMAIN s}
              \cup {Append(s, s[i]) : i \in DOMAIN s}
              \cup {[s EXCEPT ![i].cidr = c] : i \in DOMAIN s, c \in Cidr}}
        \cup {[plan EXCEPT !.root = c] : c \in Cidr}

\* The blocks a command names: those of the plan, and some that are not in it.
Named == {leaf.cidr : leaf \in Leaves(plan)} \cup {plan.root, Block(1, 0)}

Commands ==
    {[action |-> "create", cidr |-> c, note |-> n] : c \in Cidr, n \in Notes}
    \cup IF plan = NoPlan THEN {} ELSE
         {[action |-> "import", state |-> s, padding |-> b] : s \in Imported, b \in Padding}
         \cup {[action |-> "export", state |-> s, format |-> f] : s \in Sent, f \in Formats}
         \cup {[action |-> "split", state |-> s, cidr |-> c] :
                  s \in Sent, c \in Named}
         \cup {[action |-> "join", state |-> s, cidrs |-> <<c, d>>, note |-> n] :
                  s \in Sent, c \in Named, d \in Named, n \in Notes \cup {NoNote}}
         \cup {[action |-> "annotate", state |-> s, cidr |-> c, note |-> n] :
                  s \in Sent, c \in Named, n \in Notes}

\* run(): one command at a time, and the last error is taken off the page.
Request ==
    /\ command = Idle
    /\ command' \in Commands
    /\ reply' = "none"
    /\ UNCHANGED plan

\* cancel(): the answer, when it comes, is not looked at.
Cancel ==
    /\ command # Idle
    /\ command' = Idle
    /\ UNCHANGED <<plan, reply>>

\* The page is reset, or shown again after it was left.
Reset == plan' = NoPlan /\ command' = Idle /\ reply' = "none"

Next == \/ Request \/ Create \/ Import \/ Export \/ Split \/ Join \/ Annotate
        \/ Cancel \/ Reset

Spec == Init /\ [][Next]_vars

-----------------------------------------------------------------------------
(* Properties                                                              *)

Addresses(c) == {a \in Address : a \div Size(c) = c.address \div Size(c)}
Owners(state, a) == {i \in DOMAIN state.allocations :
                        a \in Addresses(state.allocations[i].cidr)}

\* What "exactly partition the root" means, address by address.
Partitions(state) ==
    \A a \in Address :
        Cardinality(Owners(state, a)) = IF a \in Addresses(state.root) THEN 1 ELSE 0
CanonicalNames(state) ==
    \A c \in {state.root} \cup {leaf.cidr : leaf \in Leaves(state)} :
        c.address % Size(c) = 0

\* An import is accepted if and only if it is a partition of its root into
\* canonical blocks, in whatever order it lists them, and its text, its state and
\* the result with its rows keep to their byte budgets: the walk along the sorted
\* starts with a cursor (validatePartition) decides this correctly, and a valid
\* partition is refused for its size alone (contracts/src/subnet.ts:26, 53,
\* tool-core/src/runtime.ts:35).
ImportIsExact ==
    [][Import => (reply' = "accepted") <=>
                    /\ SchemaAccepts(command.state)
                    /\ Partitions(command.state)
                    /\ CanonicalNames(command.state)
                    /\ StateBytes(command.state) + command.padding <= MaxBytes
                    /\ ResultBytes(InOrder(command.state), "none") <= MaxBytes]_vars

-----------------------------------------------------------------------------
(* The plan is a tree of prefixes below its root                           *)

Path(c) == [i \in 1..(c.prefix - plan.root.prefix) |->
               (c.address \div 2^(Bits - plan.root.prefix - i)) % 2]

Tree == INSTANCE PrefixTree
    WITH MaxDepth <- Bits,
         depth <- IF plan = NoPlan THEN 0 ELSE Bits - plan.root.prefix,
         tree <- [p \in {Path(leaf.cidr) : leaf \in Leaves(plan)} |->
                     (CHOOSE leaf \in Leaves(plan) : Path(leaf.cidr) = p).note]

\* Every state is a tree of prefixes and every step a step of PrefixTree.
ImplementsTree == Tree!Spec

NotesOf(c) == {plan.allocations[i].note : i \in Selected(plan, c)}

\* An accepted command does to the tree exactly what its name says, at the
\* blocks the caller named, and loses no note silently: a join without an
\* annotation is of blocks whose notes agree (contracts/src/subnet.ts:44:
\* "Required by the core when sibling annotations differ; never discard
\* silently").  And no command builds a plan that later requests would refuse, for
\* the number of its leaves or for its bytes.
CommandsEditTheTree ==
    [][reply' = "accepted" =>
          /\ SchemaAccepts(plan')
          /\ Export => plan' = plan
          /\ Split => Tree!Split(Path(command.cidr))
          /\ Annotate => Tree!Annotate(Path(command.cidr), command.note)
          /\ Join =>
                LET first == Path(command.cidrs[1])
                    second == Path(command.cidrs[2])
                    agreed == UNION {NotesOf(c) : c \in Range(command.cidrs)}
                IN  /\ {first, second} = Tree!Children(Front(first))
                    /\ \E n \in Notes : /\ \/ command.note = n
                                           \/ command.note = NoNote /\ agreed = {n}
                                        /\ Tree!Join(Front(first), n)]_vars

=============================================================================

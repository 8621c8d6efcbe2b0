----------------------------- MODULE DeviceTree -----------------------------
(***************************************************************************)
(* walk_nodes of kernel/src/fdt.rs: a token stream turned into callbacks   *)
(* with a bounded array of open nodes.  The tree itself is kept beside the *)
(* walker (tree: the open nodes, without any bound) and emits the tokens a *)
(* well-formed blob has: the properties of a node before its children.     *)
(***************************************************************************)
EXTENDS Integers, Sequences

CONSTANTS
    MaxDepth,       \* MAX_DEPTH
    MaxNodes,       \* bound: nodes of the tree
    RegCells,       \* lengths of reg properties, in cells
    CellCounts,     \* values of #address-cells and #size-cells
    NoneV           \* an absent property, an empty slot

ASSUME TreeAssumption == MaxDepth \in Nat \ {0} /\ MaxNodes \in Nat

VARIABLES
    tree,           \* the nodes that are open, outermost first
    begun,          \* nodes begun so far
    closed,         \* the closed nodes that were not too deep
    depth, nodes,   \* the walker
    called,         \* the nodes the callback got
    walking         \* the walker has not met FDT_END

dtvars == <<tree, begun, closed, depth, nodes, called, walking>>

Default == [a |-> 2, s |-> 1]       \* DEFAULT_ADDRESS_CELLS, DEFAULT_SIZE_CELLS

\* The properties kept of a node; cells are those its parent gives it.
NewNode(id, cells) ==
    [id |-> id, compatible |-> {}, reg |-> NoneV, irq |-> NoneV, ext |-> NoneV,
     status |-> NoneV, cells |-> cells, child |-> Default]

Depths == 0..(MaxDepth - 1)

-----------------------------------------------------------------------------
\* FDT_BEGIN_NODE
ParentCells == IF depth = 0 \/ nodes[depth - 1] = NoneV THEN Default ELSE nodes[depth - 1].child
BeginNode(id) ==
    /\ nodes' = IF depth < MaxDepth THEN [nodes EXCEPT ![depth] = NewNode(id, ParentCells)]
                                    ELSE nodes
    /\ depth' = depth + 1
    /\ UNCHANGED <<called, walking>>

\* FDT_END_NODE: the callback comes here, so children are seen before parents
EndNode ==
    /\ depth' = IF depth > 0 THEN depth - 1 ELSE 0
    /\ IF depth > 0 /\ depth - 1 < MaxDepth /\ nodes[depth - 1] # NoneV
         THEN /\ called' = Append(called, nodes[depth - 1])
              /\ nodes' = [nodes EXCEPT ![depth - 1] = NoneV]
         ELSE UNCHANGED <<called, nodes>>
    /\ UNCHANGED walking

\* FDT_PROP: kept for the innermost node, skipped when that is too deep
PropClamped(k, v) ==
    LET slot == IF depth > MaxDepth THEN MaxDepth - 1 ELSE depth - 1 IN
    /\ nodes' = [nodes EXCEPT ![slot][k] = v] /\ UNCHANGED <<depth, called, walking>>
Prop(k, v) ==
    /\ nodes' = IF depth = 0 \/ depth - 1 >= MaxDepth \/ nodes[depth - 1] = NoneV THEN nodes
                ELSE [nodes EXCEPT ![depth - 1][k] = v]
    /\ UNCHANGED <<depth, called, walking>>

\* FDT_END stops the loop, and FDT_NOP changes nothing.
EndTree == walking' = FALSE /\ UNCHANGED <<depth, nodes, called>>

\* first_reg: the base is in the first address cells, the size follows.
first_reg(n) ==
    LET len == n.cells.a + n.cells.s IN
    IF n.reg = NoneV \/ len = 0 \/ n.reg < len \/ n.cells.a > 2 \/ n.cells.s > 2 THEN NoneV
    ELSE [base |-> n.cells.a, size |-> n.cells.s]

\* interrupt_or_zero: interrupts, or the last cell of interrupts-extended
interrupt_or_zero(n) == IF n.irq # NoneV THEN n.irq ELSE IF n.ext # NoneV THEN n.ext ELSE 0

\* compatible_matches: the list of strings holds the expected one
compatible_matches(n, expected) == expected \in n.compatible

\* is_available
is_available(n) == n.status \notin {"disabled", "reserved", "fail"}

-----------------------------------------------------------------------------
Top == tree[Len(tree)]
OpenCells == IF tree = <<>> THEN Default ELSE Top.child

TreeBegin ==
    /\ walking /\ begun < MaxNodes /\ (tree = <<>> => begun = 0)
    /\ begun' = begun + 1
    /\ tree' = Append(tree, NewNode(begun, OpenCells)) /\ UNCHANGED closed
    /\ BeginNode(begun)

\* A property of a node that has no child yet; each at most once.
TreeProp(k, v) ==
    /\ walking /\ tree # <<>> /\ Top.id = begun - 1
    /\ Top[k] = IF k = "child" THEN Default ELSE NoneV
    /\ tree' = [tree EXCEPT ![Len(tree)][k] = v]
    /\ UNCHANGED <<begun, closed>>
    /\ Prop(k, v)

TreeEnd ==
    /\ walking /\ tree # <<>>
    /\ tree' = SubSeq(tree, 1, Len(tree) - 1)
    /\ closed' = IF Len(tree) <= MaxDepth THEN Append(closed, Top) ELSE closed
    /\ UNCHANGED begun
    /\ EndNode

TreeFinish == walking /\ tree = <<>> /\ begun > 0 /\ EndTree /\ UNCHANGED <<tree, begun, closed>>

DtInit ==
    /\ tree = <<>> /\ begun = 0 /\ closed = <<>>
    /\ depth = 0 /\ nodes = [i \in Depths |-> NoneV] /\ called = <<>> /\ walking = TRUE

DtNext ==
    \/ TreeBegin \/ TreeEnd \/ TreeFinish
    \/ \E n \in RegCells : TreeProp("reg", n)
    \/ \E a, s \in CellCounts : TreeProp("child", [a |-> a, s |-> s])

DtSpec == DtInit /\ [][DtNext]_dtvars

-----------------------------------------------------------------------------
(* The bounded array follows the unbounded tree: an open node is in its    *)
(* slot with its own properties and the cell counts of its parent, nothing *)
(* of a node that is too deep gets into a shallower one, and the callback  *)
(* has had every closed node that is not too deep exactly once, with all   *)
(* its properties.                                                         *)
WalkerFollowsTree ==
    /\ depth = Len(tree)
    /\ \A i \in Depths : nodes[i] = IF i < Len(tree) THEN tree[i + 1] ELSE NoneV
    /\ called = closed
=============================================================================

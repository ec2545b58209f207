----------------------------- MODULE Preflight -----------------------------
(***************************************************************************)
(* preflightView (tools/cowchat-artifacts/preflight.mjs): the bounded walk *)
(* that decides whether a view may be handed to the renderer.  A view is a *)
(* set of named definitions whose expressions refer to each other by name, *)
(* so the tree it expands to can be exponentially larger than its text, or *)
(* infinite.  budget() computes the cost of that tree with one visit per   *)
(* expression.                                                             *)
(*                                                                         *)
(* The recursion of budget() is an explicit stack.  Definitions have one   *)
(* level of arguments; deeper expressions are written with references.     *)
(***************************************************************************)
EXTENDS Naturals, Sequences, SequencesExt, FiniteSets, FiniteSetsExt

CONSTANTS
    Name,           \* names of definitions
    Root,           \* the definition called "root"
    Views,          \* the views to be checked
    MaxNodes, MaxComponents, MaxDepth, MaxRender, MaxBytes, MaxData   \* limits

\* The components of the library: the layout ones are alike for this code.
Containers == {"Stack", "Card"}
Library == Containers \cup {"Table", "Chart"}

Leaf == [k: {"Str"}, w: Nat] \cup [k: {"StateRef"}] \cup [k: {"Ref"}, n: Name]

\* "Bad": what children() refuses: an operator, a function, an unknown
\* component, an unsafe key, or nesting deeper than limits.depth.
Expression == Leaf \cup [k: {"Bad"}] \cup [k: {"Arr"} \cup Library, args: Seq(Leaf)]

\* flaw: the text does not tokenize, balance or split within the limits, or a
\* statement is refused.  data: the length of the array the view refers to.
ASSUME ViewsAssumption ==
    /\ Root \in Name /\ IsFiniteSet(Name)
    /\ {MaxNodes, MaxComponents, MaxDepth, MaxRender, MaxBytes, MaxData} \subseteq Nat
    /\ \A v \in Views :
          /\ v.flaw \in BOOLEAN /\ v.data \in Nat
          /\ DOMAIN v.defs \subseteq Name
          /\ \A x \in DOMAIN v.defs : v.defs[x] \in Expression

VARIABLES
    view,    \* source and data
    pc,      \* the part of preflightView that runs
    todo,    \* definitions budget() has not been called for
    stack,   \* the calls of budget() in progress, with their local cost
    memo     \* the memo of budget()

preflightVars == <<view, pc, todo, stack, memo>>

----------------------------------------------------------------------------
(* Expressions of the view, named by definition and argument (0: the body) *)

Nodes == UNION { {<<x, 0>>} \cup (IF "args" \in DOMAIN view.defs[x]
                                  THEN {x} \X (1..Len(view.defs[x].args)) ELSE {})
                 : x \in DOMAIN view.defs }

NodeAt(id) == IF id[2] = 0 THEN view.defs[id[1]] ELSE view.defs[id[1]].args[id[2]]

Defined(id) == NodeAt(id).k = "Ref" => NodeAt(id).n \in DOMAIN view.defs

\* children(), and the definition a reference stands for.
Parts(id) ==
    LET node == NodeAt(id) IN
    CASE node.k = "Ref"                -> << <<node.n, 0>> >>
      [] node.k \in {"Arr"} \cup Library -> [i \in DOMAIN node.args |-> <<id[1], i>>]
      [] OTHER                         -> <<>>

\* What is left of value(): the node whose value a chain of references has.
Deref(id) ==
    LET hop[i \in 0..Cardinality(Name) + 1] ==
            IF i = 0 THEN id
            ELSE IF NodeAt(hop[i - 1]).k = "Ref" THEN Parts(hop[i - 1])[1] ELSE hop[i - 1]
    IN  hop[Cardinality(Name) + 1]

\* The length of an array, and the number of keys of an object: a component's
\* value is an object with two.
ArrayLength(id) ==
    LET node == NodeAt(Deref(id)) IN
    CASE node.k = "Arr"      -> Len(node.args)
      [] node.k = "StateRef" -> view.data
      [] OTHER               -> 0

Keys(id) == IF NodeAt(Deref(id)).k \in Library THEN 2 ELSE ArrayLength(id)

\* The work inside the adapter of a component.
AdapterCost(id) ==
    LET node == NodeAt(id)
        len(i) == IF i <= Len(node.args) THEN ArrayLength(<<id[1], i>>) ELSE 0
    IN  CASE node.k = "Table" -> len(1) * (IF Len(node.args) > 1 THEN Keys(<<id[1], 2>>) ELSE 0)
          [] node.k = "Chart" -> len(1) * Max({1, len(2)})
          [] OTHER            -> 0

\* value() of a Table without arguments throws.
Adaptable(id) == NodeAt(id).k = "Table" => NodeAt(id).args # <<>>

\* weigh(): the array and its items.
DataWeight == 1 + view.data

\* The cost of a node before its parts.
OwnCost(id) ==
    [nodes      |-> IF NodeAt(id).k = "Str" THEN NodeAt(id).w ELSE 1,
     components |-> IF NodeAt(id).k \in Library THEN 1 ELSE 0,
     depth      |-> 1, render |-> 0]

AddCost(cost, next) ==
    [nodes      |-> cost.nodes + next.nodes,
     components |-> cost.components + next.components,
     depth      |-> Max({cost.depth, 1 + next.depth}),
     render     |-> cost.render + next.render]

\* What is added after the parts.
FinalCost(id, cost) ==
    [cost EXCEPT !.nodes = @ + (IF NodeAt(id).k = "StateRef" THEN DataWeight ELSE 0),
                 !.render = @ + AdapterCost(id)]

\* Mutant: refuses a view that is just within its limits.
CheckStrict(cost) ==
    /\ cost.nodes <= MaxNodes /\ cost.components < MaxComponents
    /\ cost.depth <= MaxDepth /\ cost.render <= MaxRender

\* check().
Check(cost) ==
    /\ cost.nodes <= MaxNodes /\ cost.components <= MaxComponents
    /\ cost.depth <= MaxDepth /\ cost.render <= MaxRender

\* Mutant: an expanded reference leaves something behind in the text.
OwnTextWhole(id) == OwnCost(id).nodes

\* An expanded reference disappears, data stay a name.
OwnText(id) == IF NodeAt(id).k = "Ref" THEN 0 ELSE OwnCost(id).nodes

\* The text of a node whose parts have the sizes in `written`.
Joined(id, written) ==
    LET sum[i \in 0..Len(Parts(id))] ==
            IF i = 0 THEN OwnText(id) ELSE sum[i - 1] + written[Parts(id)[i]]
    IN  sum[Len(Parts(id))]

\* serialize(), which is as deep as the depth budget() found.
SerializedSize(id) ==
    LET size[d \in 0..MaxDepth] ==
            [n \in Nodes |-> IF d = 0 THEN 0 ELSE Joined(n, size[d - 1])]
    IN  size[MaxDepth][id]

----------------------------------------------------------------------------

PreflightInit ==
    /\ view \in Views
    /\ pc = "source" /\ todo = {} /\ stack = <<>> /\ memo = <<>>

Fail == pc' = "rejected" /\ UNCHANGED <<view, todo, stack, memo>>

\* The limits on text and data, tokens, brackets and statements.
CheckSource ==
    /\ pc = "source"
    /\ IF view.flaw \/ 1 + DataWeight > MaxData \/ Root \notin DOMAIN view.defs
       THEN Fail
       ELSE pc' = "raw" /\ UNCHANGED <<view, todo, stack, memo>>

\* The iterative walk over all expressions before any recursive one.
CheckRaw ==
    /\ pc = "raw"
    /\ IF \E id \in Nodes : NodeAt(id).k = "Bad"
       THEN Fail
       ELSE pc' = "budget" /\ todo' = DOMAIN view.defs /\ UNCHANGED <<view, stack, memo>>

Push(id) ==
    stack' = Append(stack, [node |-> id, next |-> 1, cost |-> OwnCost(id)])

\* Mutant: budgets what is reachable from the root only.
BeginRootOnly ==
    /\ pc = "budget" /\ stack = <<>>
    /\ Root \in todo /\ todo' = {}
    /\ Push(<<Root, 0>>) /\ UNCHANGED <<view, pc, memo>>

\* budget() for the next definition; statements come in any order.
BeginDefinition ==
    /\ pc = "budget" /\ stack = <<>>
    /\ \E x \in todo :
          /\ todo' = todo \ {x}
          /\ IF <<x, 0>> \in DOMAIN memo
             THEN UNCHANGED <<view, pc, stack, memo>>
             ELSE IF Defined(<<x, 0>>) THEN Push(<<x, 0>>) /\ UNCHANGED <<view, pc, memo>>
             ELSE pc' = "rejected" /\ UNCHANGED <<view, stack, memo>>

\* Mutant: does not know the calls in progress.
VisitingNothing == {}

\* The set `visiting`.
Visiting == { stack[i].node : i \in DOMAIN stack }

\* The next part of the node on top: a known cost is added, an unknown one is
\* computed first.
Descend ==
    /\ pc = "budget" /\ stack # <<>>
    /\ LET top == Last(stack) IN
       /\ top.next <= Len(Parts(top.node))
       /\ LET part == Parts(top.node)[top.next] IN
          IF part \in DOMAIN memo
          THEN LET cost == AddCost(top.cost, memo[part]) IN
               IF Check(cost)
               THEN /\ stack' = [stack EXCEPT ![Len(stack)] =
                            [node |-> top.node, next |-> top.next + 1, cost |-> cost]]
                    /\ UNCHANGED <<view, pc, todo, memo>>
               ELSE Fail
          ELSE IF part \in Visiting \/ ~Defined(part) THEN Fail
          ELSE Push(part) /\ UNCHANGED <<view, pc, todo, memo>>

\* Mutant: the cost is memoised before the adapter's work is added.
MemoiseEarly(id, cost) ==
    memo' = [x \in DOMAIN memo \cup {id} |-> IF x = id THEN cost ELSE memo[x]]

\* Mutant: forgets the cost it computed.
MemoiseNot(id, cost) == UNCHANGED memo

\* memo.set
Memoise(id, cost) ==
    memo' = [x \in DOMAIN memo \cup {id} |-> IF x = id THEN FinalCost(id, cost) ELSE memo[x]]

\* The parts are done: the rest of the cost, the memo, and back to the caller.
Return ==
    /\ pc = "budget" /\ stack # <<>>
    /\ LET top == Last(stack) IN
       /\ top.next > Len(Parts(top.node))
       /\ IF Adaptable(top.node) /\ Check(FinalCost(top.node, top.cost))
          THEN /\ Memoise(top.node, top.cost)
               /\ stack' = Front(stack)
               /\ UNCHANGED <<view, pc, todo>>
          ELSE Fail

\* The root must be a Stack, and the text with all references expanded short.
Finish ==
    /\ pc = "budget" /\ stack = <<>> /\ todo = {}
    /\ IF NodeAt(Deref(<<Root, 0>>)).k = "Stack" /\ SerializedSize(<<Root, 0>>) <= MaxBytes
       THEN pc' = "accepted" /\ UNCHANGED <<view, todo, stack, memo>>
       ELSE Fail

PreflightNext == CheckSource \/ CheckRaw \/ BeginDefinition \/ Descend \/ Return \/ Finish

\* The function runs to its end.
PreflightSpec ==
    PreflightInit /\ [][PreflightNext]_preflightVars /\ WF_preflightVars(PreflightNext)

----------------------------------------------------------------------------
(* The reference: the tree itself, as the walks through the view.          *)

\* The copies of expressions in the expanded tree, cut below the depth limit.
Walks(id) ==
    LET longer(ws) == UNION { { Append(w, part) : part \in Range(Parts(Last(w))) }
                              : w \in { x \in ws : Defined(Last(x)) } }
        upTo[d \in 1..MaxDepth + 1] ==
            IF d = 1 THEN { <<id>> }
            ELSE upTo[d - 1] \cup longer({ w \in upTo[d - 1] : Len(w) = d - 1 })
    IN  upTo[MaxDepth + 1]

\* As many units as the last expressions of the walks weigh together.
SumOver(ws, weight) == Cardinality(UNION { {w} \X (1..weight[Last(w)]) : w \in ws })

Weights ==
    [n \in Nodes |-> OwnCost(n).nodes + (IF NodeAt(n).k = "StateRef" THEN DataWeight ELSE 0)]

TreeCost(id) ==
    LET ws == Walks(id) IN
    [nodes      |-> SumOver(ws, Weights),
     components |-> Cardinality({ w \in ws : NodeAt(Last(w)).k \in Library }),
     depth      |-> Max({ Len(w) : w \in ws }),
     render     |-> SumOver(ws, [n \in Nodes |-> AdapterCost(n)])]

\* The text of the root has no references left in it.
TreeText == SumOver({ w \in Walks(<<Root, 0>>) : NodeAt(Last(w)).k # "Ref" },
                    [n \in Nodes |-> OwnCost(n).nodes])

\* Every definition expands to a finite tree within the limits.
Bounded ==
    /\ \A id \in Nodes : Defined(id)
    /\ \A x \in DOMAIN view.defs :
          LET cost == TreeCost(<<x, 0>>) IN
          /\ cost.nodes <= MaxNodes /\ cost.components <= MaxComponents
          /\ cost.depth <= MaxDepth /\ cost.render <= MaxRender

\* A view the limits have nothing against.
Permitted ==
    /\ ~view.flaw /\ 1 + DataWeight <= MaxData /\ Root \in DOMAIN view.defs
    /\ \A id \in Nodes : NodeAt(id).k # "Bad" /\ Adaptable(id)
    /\ Bounded
    /\ NodeAt(Deref(<<Root, 0>>)).k = "Stack" /\ TreeText <= MaxBytes

----------------------------------------------------------------------------
(* Properties.                                                             *)

CostType == [nodes: Nat, components: Nat, depth: Nat, render: Nat]

\* The recursion of budget() is never deeper than the view has expressions,
\* whatever refers to what.
PreflightTypeOK ==
    /\ todo \subseteq DOMAIN view.defs
    /\ pc \in {"source", "raw", "budget", "accepted", "rejected"}
    /\ Len(stack) <= Cardinality(Nodes)
    /\ \A i \in DOMAIN stack :
          /\ stack[i].node \in Nodes /\ stack[i].cost \in CostType
          /\ stack[i].next \in 1..Len(Parts(stack[i].node)) + 1
    /\ DOMAIN memo \subseteq Nodes /\ \A id \in DOMAIN memo : memo[id] \in CostType

\* What is accepted breaks no limit, orphans included: no createParser call
\* meets an unbounded expansion (preflight.mjs:13), and the text it is given has
\* the size of the tree.
AcceptedIsPermitted == pc = "accepted" => Permitted

\* What is rejected breaks a limit: neither the order of the statements nor
\* the sums checked on the way refuse a view that fits.
RejectedForCause == pc = "rejected" => ~Permitted

\* What has a cost is within the limits, and so has each of its parts: value()
\* is only asked for expressions that expand to an end.  An accepted view has a
\* cost for every definition, orphans included.
CostsComplete ==
    /\ \A id \in DOMAIN memo :
          Defined(id) /\ Check(memo[id]) /\ Range(Parts(id)) \subseteq DOMAIN memo
    /\ pc = "accepted" => \A x \in DOMAIN view.defs : <<x, 0>> \in DOMAIN memo

\* The one visit per expression finds the cost of its whole tree, copies
\* counted as often as they occur.
MemoIsTreeCost == stack = <<>> => \A id \in DOMAIN memo : memo[id] = TreeCost(id)

\* Every view gets its verdict, cyclic ones too.
VerdictReached == <>(pc \in {"accepted", "rejected"})

\* One visit per expression measures the expanded tree exactly, and the verdict
\* follows the limits on that tree in both directions.
BudgetSound ==
    /\ PreflightTypeOK /\ CostsComplete
    /\ MemoIsTreeCost /\ AcceptedIsPermitted /\ RejectedForCause

=============================================================================

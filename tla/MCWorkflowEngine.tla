--------------------------- MODULE MCWorkflowEngine ---------------------------
(***************************************************************************)
(* A small instance of WorkflowEngine: a graph with a branch, a cycle that  *)
(* the step limit may cut and an edge to a node that is not there.         *)
(***************************************************************************)
EXTENDS WorkflowEngine, TLC

CONSTANTS w1, r1, r2

If(from, to, key, is) == [from |-> from, to |-> to, key |-> key, is |-> is]

\* A question is searched for.  One about stock is put to the model; any other is
\* made a query: a good one is executed, and then the steps are used up; a bad one
\* leads back to where the walk was.
Graph ==
    [nodes |-> <<Plain("docs", "condition"), Plain("docs", "rag"), Plain("llm", "llm"),
                 Plain("q", "text2sql"), Plain("x", "sql_execute")>>,
     edges |-> <<If("docs", "llm", "question", {"stock"}), Link("docs", "q"),
                 If("q", "x", "sql", {"select"}), Link("q", "q"), Link("x", "gone")>>]

About == Holding("question", {"stock"})

Other == Holding("question", {"supplier"})

SmallCalls ==
    {[kind |-> "trigger", wf |-> w1, input |-> Other],
     [kind |-> "insight", wf |-> w1, input |-> About],
     [kind |-> "analyze", wf |-> w1, input |-> About]}

SmallAnswers ==
    {[Nothing EXCEPT !["score"] = {}, !["reason"] = {}], [Nothing EXCEPT !["score"] = {}]}

SmallNames == [k \in Keys |-> {}]

SmallDefinitions == {Graph, Broken}

SmallNodes == {"start", "llm", "end", "docs", "q", "x", "gone"}

SmallWords == {"stock", "supplier", "select", "delete", "product", "purchase"}

SmallQueries == {{"select"}, {"select", "delete"}}
=============================================================================

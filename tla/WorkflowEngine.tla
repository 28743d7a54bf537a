---------------------------- MODULE WorkflowEngine ----------------------------
(***************************************************************************)
(* The AI workflow engine (application/ai/engine.go, nodes.go, the built-in *)
(* answers of llm.go) and the requests that run a workflow (handler/ai.go, *)
(* ProductHandler.Analyze, Scheduler.TriggerWorkflow).                     *)
(*                                                                         *)
(* A request reads a workflow, stores a run as running, walks the graph of *)
(* nodes from its input and stores how the run ended.  The walk works on   *)
(* the copy read first.  A crash ends the walks and nothing takes them up  *)
(* again; the result of the last write is not looked at.                   *)
(*                                                                         *)
(* A text is the set of the words in it that something is decided by.      *)
(* Versions, tokens, cost, durations and the score of a product, which is  *)
(* stored like its insight, are left out.                                  *)
(***************************************************************************)
EXTENDS Naturals, Sequences, FiniteSets

CONSTANTS
    Workflows,    \* workflows, by code
    NodeIds,      \* names of nodes
    Requests,     \* requests that may run at one time
    Calls,        \* [kind, wf, input]: what a request may ask for
    Definitions,  \* definitions that are stored: graphs, Broken or Default
    Broken,       \* a definition that is not JSON
    Default,      \* the empty definition
    Providers,    \* "builtin" without an API key, else "external"
    Words,        \* the words that are told apart
    Documents,    \* texts that a search may return
    AnswerKeys,   \* keys of inputs and answers that the code does not name
    NameWords,    \* NameWords[k]: the words in the name of key k
    Answers,      \* what an external model may answer, as objects
    Queries,      \* what an external model may answer when asked for SQL
    None,         \* no node, no key, no text
    MaxSteps,     \* maxSteps of walkAndExecute
    MaxRuns,      \* bound: runs stored
    MaxEdits,     \* bound: workflows created or updated
    MaxCrashes    \* bound: crashes

\* Keys that a node or a handler reads or writes by name.
CodeKeys == {"question", "query", "sql", "result", "rag_context", "product_id", "product",
             "supplier_id", "supplier", "price", "cost", "margin_rate", "output", "score",
             "reason", "recommendation", "negotiation", "insight", "reply", "title"}

Keys == CodeKeys \cup AnswerKeys

Texts == SUBSET Words

\* What a context holds for a key that it does not have.
Unset == {None}

\* A context, or an object in an answer: what its keys hold.
Contexts == [Keys -> Texts \cup {Unset}]

Nothing == [k \in Keys |-> Unset]

\* run: RunWorkflow by id.  code: GenerateListing, ReplyCustomer.  trigger:
\* TriggerWorkflow.  insight: AIHandler.AnalyzeProduct.  analyze:
\* ProductHandler.Analyze.
Kinds == {"run", "code", "trigger", "insight", "analyze"}

Types == {"input", "output", "llm", "rag", "condition", "text2sql", "sql_execute", "tool"}

Tools == {"get_product", "get_supplier", "calculate_margin", "other"}

RunIds == 1..MaxRuns

\* The node that WorkflowDefinition and Edge name id; prompt is Unset when there
\* is no template, and a template shows the keys it uses.
IsNode(n) ==
    /\ n.id \in NodeIds
    /\ n.system \in Texts
    /\ n.prompt \in Texts \cup {Unset}
    /\ n.uses \subseteq Keys
    /\ n.tool \in Tools

\* An edge holds always when its key is None: without a condition, or with one
\* that has no "=".
IsEdge(e) ==
    /\ e.from \in NodeIds
    /\ e.to \in NodeIds \cup {None}
    /\ e.key \in Keys \cup {None}
    /\ e.is \in Texts

IsDefinition(d) ==
    /\ DOMAIN d = {"nodes", "edges"}
    /\ DOMAIN d.nodes = 1..Len(d.nodes)
    /\ DOMAIN d.edges = 1..Len(d.edges)
    /\ \A i \in DOMAIN d.nodes : IsNode(d.nodes[i])
    /\ \A i \in DOMAIN d.edges : IsEdge(d.edges[i])

Plain(id, type) ==
    [id |-> id, type |-> type, system |-> {}, prompt |-> Unset, uses |-> {}, tool |-> "other"]

Link(from, to) == [from |-> from, to |-> to, key |-> None, is |-> {}]

\* What parseWorkflowDefinition makes of the empty definition.
DefaultDefinition ==
    [nodes |-> <<Plain("start", "input"), Plain("llm", "llm"), Plain("end", "output")>>,
     edges |-> <<Link("start", "llm"), Link("llm", "end")>>]

ASSUME EngineAssumption ==
    /\ MaxSteps \in Nat \ {0}
    /\ MaxRuns \in Nat
    /\ MaxEdits \in Nat
    /\ MaxCrashes \in Nat
    /\ Providers \subseteq {"builtin", "external"}
    /\ {"select", "delete", "product", "purchase"} \subseteq Words
    /\ None \notin Words
    /\ NameWords \in [Keys -> Texts]
    /\ Answers \subseteq Contexts
    /\ Documents \cup Queries \subseteq Texts
    /\ {"start", "llm", "end"} \subseteq NodeIds
    /\ None \notin NodeIds
    /\ Calls \subseteq [kind : Kinds, wf : Workflows, input : Contexts]
    /\ \A d \in Definitions \ {Broken, Default} : IsDefinition(d)
    /\ Broken # Default

VARIABLES
    up,           \* the process runs
    provider,     \* the provider that the configuration selects
    workflows,    \* rows of ai_workflows, Absent when not created
    runs,         \* rows of ai_workflow_runs, Absent when not created
    insight,      \* the run whose ai_insight the product shows, 0 at first
    task,         \* task[r]: what request r has in memory
    edits,        \* workflows created or updated so far, for MaxEdits
    crashes,      \* crashes so far, for MaxCrashes
    orphans       \* auxiliary: runs whose request crashed, panicked or lost its last write

vars == <<up, provider, workflows, runs, insight, task, edits, crashes, orphans>>

Absent == [status |-> "absent"]

Idle == [pc |-> "idle"]

Workflow == [status : {"enabled", "disabled"}, def : Definitions]

Run == [status : {"running", "success", "failed"}, trigger : {"manual", "scheduled"},
        wf : Workflows]

Insights == 0..MaxRuns

Parsed == (Definitions \ {Broken, Default}) \cup {DefaultDefinition}

\* asked: the product is read.  loaded: the workflow is read.  walk: at the node
\* at.  ending: the walk is over.  saving: the result is for a product.
\* label: the result is for TriggerWorkflow.
Task ==
    {Idle}
    \cup [pc : {"asked"}, call : Calls, copy : Insights]
    \cup [pc : {"loaded"}, call : Calls, copy : Insights, def : Workflow]
    \cup [pc : {"walk"}, call : Calls, copy : Insights, run : RunIds, def : Parsed,
          at : NodeIds \cup {None}, path : Seq(NodeIds), ctx : Contexts, said : Contexts,
          shown : Contexts]
    \cup [pc : {"ending"}, call : Calls, copy : Insights, run : RunIds,
          outcome : {"success", "failed"}, said : Contexts]
    \cup [pc : {"saving", "label"}, call : Calls, copy : Insights, run : RunIds,
          said : Contexts]

\* Type invariant.
TypeOK ==
    /\ up \in BOOLEAN
    /\ provider \in Providers
    /\ workflows \in [Workflows -> Workflow \cup {Absent}]
    /\ runs \in [RunIds -> Run \cup {Absent}]
    /\ insight \in Insights
    /\ task \in [Requests -> Task]
    /\ edits \in Nat
    /\ crashes \in Nat
    /\ orphans \subseteq RunIds

\* Each workflow is there, enabled, or not created yet; the product is new.
Init ==
    /\ up = TRUE
    /\ provider \in Providers
    /\ workflows \in [Workflows -> [status : {"enabled"}, def : Definitions] \cup {Absent}]
    /\ runs = [i \in RunIds |-> Absent]
    /\ insight = 0
    /\ task = [r \in Requests |-> Idle]
    /\ edits = 0
    /\ crashes = 0
    /\ orphans = {}

-----------------------------------------------------------------------------
(***************************************************************************)
(* What a node does with the context.                                      *)
(***************************************************************************)

\* What is in d is merged into c.
Merge(c, d) == [k \in Keys |-> IF d[k] = Unset THEN c[k] ELSE d[k]]

Holding(k, text) == [Nothing EXCEPT ![k] = text]

Has(c, k) == c[k] # Unset

\* The words of a context written out: of its values and of the names of its keys.
Rendered(c) == UNION {c[k] \cup NameWords[k] : k \in {j \in Keys : Has(c, j)}}

\* renderTemplate: without a template the whole context is written out.
Prompt(n, c) ==
    IF n.prompt = Unset
    THEN Rendered(c)
    ELSE n.prompt \cup UNION {c[k] : k \in {j \in n.uses : Has(c, j)}}

\* generateSQLByQuestion: the query for a question.  "delete" stands for a word
\* that sql_execute refuses, the column deleted_at among them.
BuiltinQuery(q) ==
    CASE "profit" \in q -> {"select"}
      [] "stock" \in q -> {"select", "product"}
      [] q \cap {"procurement", "purchase"} # {} -> {"select", "purchase"}
      [] "supplier" \in q -> {"select", "delete"}
      [] "bill" \in q -> {"select"}
      [] q \cap {"selection", "product"} # {} -> {"select", "delete", "product"}
      [] OTHER -> {"select"}

\* generateBuiltinResponse: the first scene whose words occur.  The words
\* selection, procurement, supplier, analysis, service and listing stand for
\* Chinese ones, looked for in both prompts, and the others are looked for in
\* the message only.
Scene(system, message) ==
    LET both == system \cup message IN
    CASE "selection" \in both \/ "product" \in message -> "product"
      [] both \cap {"procurement", "supplier"} # {} \/ "purchase" \in message -> "purchase"
      [] "analyst" \in system -> "insight"
      [] "analysis" \in both \/ "data" \in message -> "data"
      [] "service" \in both \/ "customer" \in message -> "customer"
      [] "listing" \in both \/ "content" \in message -> "content"
      [] OTHER -> "default"

\* The keys by which the answers of the scenes differ; the words in them are left
\* out, since no workflow that is delivered shows an answer to a model again.
SceneAnswer(scene) ==
    CASE scene = "product" -> [Nothing EXCEPT !["score"] = {}, !["recommendation"] = {}]
      [] scene = "purchase" -> Holding("negotiation", {})
      [] scene = "insight" -> Holding("insight", {})
      [] scene = "data" ->
            [Nothing EXCEPT !["sql"] = {"select"}, !["result"] = {}, !["insight"] = {}]
      [] scene = "customer" -> Holding("reply", {})
      [] scene = "content" -> Holding("title", {})
      [] OTHER -> [Nothing EXCEPT !["score"] = {}, !["reason"] = {}]

\* What a model answers to node n.
Chat(n, c) ==
    IF provider = "builtin" THEN {SceneAnswer(Scene(n.system, Prompt(n, c)))} ELSE Answers

AskForQuery(c) ==
    IF provider = "builtin" THEN {BuiltinQuery(c["question"])} ELSE Queries

\* What rag searches for: question, else query.
Search(c) == IF Has(c, "question") THEN c["question"] ELSE c["query"]

\* The keys that a tool needs and the ones it adds.
Needs(tool) ==
    CASE tool = "get_product" -> {"product_id"}
      [] tool = "get_supplier" -> {"supplier_id"}
      [] tool = "calculate_margin" -> {"price", "cost"}
      [] OTHER -> {}

Gives(tool) ==
    CASE tool = "get_product" -> Holding("product", {})
      [] tool = "get_supplier" -> Holding("supplier", {})
      [] tool = "calculate_margin" -> Holding("margin_rate", {})
      [] OTHER -> Nothing

\* Only a SELECT without a word that changes data.
Accepts(sql) == "select" \in sql /\ "delete" \notin sql

\* What executing node n may add to the context: nothing is in the set when it
\* can only fail.  An object that a model answers is merged whole.
Added(n, c) ==
    CASE n.type = "llm" ->
            {Merge(Holding("output", Rendered(a)), a) : a \in Chat(n, c)}
      [] n.type = "rag" ->
            IF Search(c) = Unset
            THEN {Holding("rag_context", {})}
            ELSE {[Nothing EXCEPT !["rag_context"] = d, !["query"] = Search(c)] : d \in Documents}
      [] n.type = "text2sql" ->
            IF Has(c, "question") THEN {Holding("sql", q) : q \in AskForQuery(c)} ELSE {}
      [] n.type = "sql_execute" ->
            IF Has(c, "sql") /\ Accepts(c["sql"]) THEN {Holding("result", {})} ELSE {}
      [] n.type = "tool" ->
            IF \A k \in Needs(n.tool) : Has(c, k) THEN {Gives(n.tool)} ELSE {}
      [] OTHER -> {Nothing}

\* The built-in provider answers always; a service, the database or the numbers
\* given to a tool may let a node fail.
MayFail(n, c) ==
    \/ Added(n, c) = {}
    \/ n.type \in {"llm", "text2sql"} /\ provider = "external"
    \/ n.type = "rag" /\ Search(c) # Unset
    \/ n.type = "sql_execute"
    \/ n.type = "tool" /\ Needs(n.tool) # {}

-----------------------------------------------------------------------------
(***************************************************************************)
(* The graph.                                                              *)
(***************************************************************************)

Parse(d) == IF d = Default THEN DefaultDefinition ELSE d

\* buildNodes: every node is of a type that is registered.
Builds(d) == \A i \in DOMAIN d.nodes : d.nodes[i].type \in Types

First(S) == CHOOSE i \in S : \A j \in S : i <= j

Last(S) == CHOOSE i \in S : \A j \in S : j <= i

\* The first input node, else the first node.
Start(d) ==
    LET inputs == {i \in DOMAIN d.nodes : d.nodes[i].type = "input"} IN
    CASE inputs # {} -> d.nodes[First(inputs)].id
      [] inputs = {} /\ d.nodes # <<>> -> d.nodes[1].id
      [] OTHER -> None

Named(d, id) == {i \in DOMAIN d.nodes : d.nodes[i].id = id}

\* Of nodes with one name the last is built last.
NodeAt(d, id) == d.nodes[Last(Named(d, id))]

\* evalCondition; an edge without a condition is always open.
Open(e, c) == e.key = None \/ c[e.key] = e.is

OpenEdges(d, id, c) == {i \in DOMAIN d.edges : d.edges[i].from = id /\ Open(d.edges[i], c)}

\* Where the walk goes from node id: along the first open edge.
Follow(d, id, c) ==
    LET open == OpenEdges(d, id, c) IN
    IF open = {} THEN None ELSE d.edges[First(open)].to

\* Seeded fault: a node that was executed is executed again.
OverUnseen(t) == t.at = None \/ Len(t.path) = MaxSteps

\* The walk is over: nothing follows, the steps are used up or the node at hand
\* was executed before.
Over(t) ==
    \/ t.at = None
    \/ Len(t.path) = MaxSteps
    \/ \E i \in DOMAIN t.path : t.path[i] = t.at

-----------------------------------------------------------------------------
(***************************************************************************)
(* Requests.                                                               *)
(***************************************************************************)

Goto(r, t) == task' = [task EXCEPT ![r] = t]

\* Analyze reads the product first.
Ask(r) ==
    /\ task[r] = Idle
    /\ \E call \in {c \in Calls : c.kind = "analyze"} :
          Goto(r, [pc |-> "asked", call |-> call, copy |-> insight])
    /\ UNCHANGED <<up, provider, workflows, runs, insight, edits, crashes, orphans>>

\* The workflow is read.  Only RunWorkflow runs one that is disabled.
Load(r, call, copy) ==
    LET w == workflows[call.wf] IN
    /\ IF w # Absent /\ (w.status = "enabled" \/ call.kind = "run")
       THEN Goto(r, [pc |-> "loaded", call |-> call, copy |-> copy, def |-> w])
       ELSE Goto(r, Idle)
    /\ UNCHANGED <<up, provider, workflows, runs, insight, edits, crashes, orphans>>

LoadFirst(r) ==
    /\ task[r] = Idle
    /\ \E call \in {c \in Calls : c.kind # "analyze"} : Load(r, call, 0)

LoadAsked(r) == task[r].pc = "asked" /\ Load(r, task[r].call, task[r].copy)

NewRun(t) == [status |-> "running", trigger |-> "manual", wf |-> t.call.wf]

Ending(t, i, outcome, said) ==
    [pc |-> "ending", call |-> t.call, copy |-> t.copy, run |-> i, outcome |-> outcome,
     said |-> IF t.call.kind \in {"insight", "analyze"} THEN said ELSE Nothing]

\* The walk of a definition that parses and whose nodes can be built.
Walking(t, i, d) ==
    [pc |-> "walk", call |-> t.call, copy |-> t.copy, run |-> i, def |-> d,
     at |-> Start(d), path |-> <<>>, ctx |-> t.call.input, said |-> Nothing,
     shown |-> Nothing]

\* Seeded fault: a definition that cannot be parsed or built ends no run.
CreateForgetful(r) ==
    LET t == task[r]
        d == Parse(t.def.def) IN
    /\ t.pc = "loaded"
    /\ \E i \in RunIds :
          /\ runs[i] = Absent
          /\ \A j \in 1..(i - 1) : runs[j] # Absent
          /\ runs' = [runs EXCEPT ![i] = NewRun(t)]
          /\ IF d = Broken \/ ~Builds(d) THEN Goto(r, Idle) ELSE Goto(r, Walking(t, i, d))
    /\ UNCHANGED <<up, provider, workflows, insight, edits, crashes, orphans>>

\* The run is stored as running, then the definition is parsed and built.
Create(r) ==
    LET t == task[r]
        d == Parse(t.def.def) IN
    /\ t.pc = "loaded"
    /\ \E i \in RunIds :
          /\ runs[i] = Absent
          /\ \A j \in 1..(i - 1) : runs[j] # Absent
          /\ runs' = [runs EXCEPT ![i] = NewRun(t)]
          /\ IF d = Broken \/ ~Builds(d)
             THEN Goto(r, Ending(t, i, "failed", Nothing))
             ELSE Goto(r, Walking(t, i, d))
    /\ UNCHANGED <<up, provider, workflows, insight, edits, crashes, orphans>>

\* The run is not stored and the caller gets an error.
CreateFails(r) ==
    /\ task[r].pc = "loaded"
    /\ Goto(r, Idle)
    /\ UNCHANGED <<up, provider, workflows, runs, insight, edits, crashes, orphans>>

\* One node is executed and the walk goes to the next.
Visit(r) ==
    LET t == task[r]
        n == NodeAt(t.def, t.at) IN
    /\ t.pc = "walk"
    /\ ~Over(t)
    /\ Named(t.def, t.at) # {}
    /\ \E add \in Added(n, t.ctx) :
          LET c == Merge(t.ctx, add) IN
          Goto(r, [t EXCEPT !.ctx = c, !.at = Follow(t.def, t.at, c),
                            !.path = Append(t.path, t.at),
                            !.said = IF n.type = "llm" THEN add ELSE t.said,
                            !.shown = IF n.type = "output" THEN t.said ELSE t.shown])
    /\ UNCHANGED <<up, provider, workflows, runs, insight, edits, crashes, orphans>>

\* There is no such node, or it fails.
VisitFails(r) ==
    LET t == task[r] IN
    /\ t.pc = "walk"
    /\ ~Over(t)
    /\ Named(t.def, t.at) # {} => MayFail(NodeAt(t.def, t.at), t.ctx)
    /\ Goto(r, Ending(t, t.run, "failed", Nothing))
    /\ UNCHANGED <<up, provider, workflows, runs, insight, edits, crashes, orphans>>

\* A search of this process panics when the service that ranks its documents
\* answers with none of them (RAGService.Search); the request is gone.
VisitPanics(r) ==
    LET t == task[r] IN
    /\ t.pc = "walk"
    /\ ~Over(t)
    /\ Named(t.def, t.at) # {}
    /\ NodeAt(t.def, t.at).type = "rag"
    /\ Search(t.ctx) # Unset
    /\ provider = "external"
    /\ Goto(r, Idle)
    /\ orphans' = orphans \cup {t.run}
    /\ UNCHANGED <<up, provider, workflows, runs, insight, edits, crashes>>

\* The answer that the output holds: what an output node was given, else what the
\* context ended with.
Result(t) ==
    IF \E i \in DOMAIN t.path : NodeAt(t.def, t.path[i]).type = "output"
    THEN t.shown
    ELSE t.said

\* However it is over, the walk was a success.
Arrive(r) ==
    LET t == task[r] IN
    /\ t.pc = "walk"
    /\ Over(t)
    /\ Goto(r, Ending(t, t.run, "success", Result(t)))
    /\ UNCHANGED <<up, provider, workflows, runs, insight, edits, crashes, orphans>>

\* Where the request goes with the result of its run.
After(t) ==
    CASE t.outcome = "failed" -> Idle
      [] t.call.kind \in {"run", "code"} -> Idle
      [] OTHER ->
            [pc |-> IF t.call.kind = "trigger" THEN "label" ELSE "saving",
             call |-> t.call, copy |-> t.copy, run |-> t.run, said |-> t.said]

\* Seeded fault: a failure is told to the caller and not stored.
EndUnstored(r) ==
    LET t == task[r] IN
    /\ t.pc = "ending"
    /\ runs' = IF t.outcome = "failed" THEN runs ELSE [runs EXCEPT ![t.run].status = t.outcome]
    /\ Goto(r, After(t))
    /\ UNCHANGED <<up, provider, workflows, insight, edits, crashes, orphans>>

\* The end is stored.
End(r) ==
    LET t == task[r] IN
    /\ t.pc = "ending"
    /\ runs' = [runs EXCEPT ![t.run].status = t.outcome]
    /\ Goto(r, After(t))
    /\ UNCHANGED <<up, provider, workflows, insight, edits, crashes, orphans>>

\* The end is not stored; the caller is not told.
EndLost(r) ==
    LET t == task[r] IN
    /\ t.pc = "ending"
    /\ orphans' = orphans \cup {t.run}
    /\ Goto(r, After(t))
    /\ UNCHANGED <<up, provider, workflows, runs, insight, edits, crashes>>

\* Seeded fault: AnalyzeProduct writes the insight it read when the answer has none.
SaveStale(r) ==
    LET t == task[r] IN
    /\ t.pc = "saving"
    /\ insight' = IF Has(t.said, "reason") THEN t.run ELSE t.copy
    /\ Goto(r, Idle)
    /\ UNCHANGED <<up, provider, workflows, runs, edits, crashes, orphans>>

\* AnalyzeProduct stores the insight that the answer has.  Analyze stores, when
\* it has none, the one it read before the run.
Save(r) ==
    LET t == task[r] IN
    /\ t.pc = "saving"
    /\ insight' = CASE Has(t.said, "reason") -> t.run
                   [] ~Has(t.said, "reason") /\ t.call.kind = "analyze" -> t.copy
                   [] OTHER -> insight
    /\ Goto(r, Idle)
    /\ UNCHANGED <<up, provider, workflows, runs, edits, crashes, orphans>>

\* A write for the product or the label is lost; nothing looks at its result.
SaveLost(r) ==
    LET t == task[r] IN
    /\ t.pc \in {"saving", "label"}
    /\ Goto(r, Idle)
    /\ UNCHANGED <<up, provider, workflows, runs, insight, edits, crashes, orphans>>

\* TriggerWorkflow marks the run it has made as scheduled.
Label(r) ==
    LET t == task[r] IN
    /\ t.pc = "label"
    /\ runs' = [runs EXCEPT ![t.run].trigger = "scheduled"]
    /\ Goto(r, Idle)
    /\ UNCHANGED <<up, provider, workflows, insight, edits, crashes, orphans>>

-----------------------------------------------------------------------------
(***************************************************************************)
(* Workflows, and the process.                                             *)
(***************************************************************************)

\* One workflow of a code; two requests for one code end in the unique index.
CreateWorkflow(w) ==
    /\ edits < MaxEdits
    /\ workflows[w] = Absent
    /\ \E row \in Workflow : workflows' = [workflows EXCEPT ![w] = row]
    /\ edits' = edits + 1
    /\ UNCHANGED <<up, provider, runs, insight, task, crashes, orphans>>

\* Definition and status are written whatever runs; a request without a status
\* leaves the workflow not enabled.
UpdateWorkflow(w) ==
    /\ edits < MaxEdits
    /\ workflows[w] # Absent
    /\ \E row \in Workflow : workflows' = [workflows EXCEPT ![w] = row]
    /\ edits' = edits + 1
    /\ UNCHANGED <<up, provider, runs, insight, task, crashes, orphans>>

Running(r) == task[r].pc \in {"walk", "ending"}

Crash ==
    /\ up
    /\ crashes < MaxCrashes
    /\ up' = FALSE
    /\ crashes' = crashes + 1
    /\ task' = [r \in Requests |-> Idle]
    /\ orphans' = orphans \cup {task[r].run : r \in {q \in Requests : Running(q)}}
    /\ UNCHANGED <<provider, workflows, runs, insight, edits>>

Restart ==
    /\ ~up
    /\ up' = TRUE
    /\ UNCHANGED <<provider, workflows, runs, insight, task, edits, crashes, orphans>>

\* What a request does once it was made.
Proceed(r) ==
    /\ up
    /\ \/ LoadAsked(r)
       \/ Create(r)
       \/ CreateFails(r)
       \/ Visit(r)
       \/ VisitFails(r)
       \/ VisitPanics(r)
       \/ Arrive(r)
       \/ End(r)
       \/ EndLost(r)
       \/ Save(r)
       \/ SaveLost(r)
       \/ Label(r)

Manage(w) == up /\ (CreateWorkflow(w) \/ UpdateWorkflow(w))

Next ==
    \/ \E r \in Requests : (up /\ (Ask(r) \/ LoadFirst(r))) \/ Proceed(r)
    \/ \E w \in Workflows : Manage(w)
    \/ Crash
    \/ Restart

\* A request that was made is served: the calls it makes end, with an answer or
\* with an error.
Fairness == \A r \in Requests : WF_vars(Proceed(r))

Spec == Init /\ [][Next]_vars /\ Fairness

-----------------------------------------------------------------------------
(***************************************************************************)
(* Properties.                                                             *)
(***************************************************************************)

\* The walk keeps to the graph it began with, however the workflow is edited:
\* it starts at the start, every step is along an edge, no node is executed
\* twice and there are at most MaxSteps of them (walkAndExecute).
WalkFollowsEdges ==
    \A r \in Requests : task[r].pc = "walk" =>
        LET t == task[r]
            walked == Append(t.path, t.at) IN
        /\ Len(t.path) <= MaxSteps
        /\ walked[1] = Start(t.def)
        /\ \A i, j \in DOMAIN t.path : t.path[i] = t.path[j] => i = j
        /\ \A i \in DOMAIN t.path :
              \/ \E k \in DOMAIN t.def.edges :
                    t.def.edges[k].from = t.path[i] /\ t.def.edges[k].to = walked[i + 1]
              \/ i = Len(t.path) /\ t.at = None

\* A run is stored as running exactly while one request executes it, or for ever
\* when that request crashed, panicked or could not store the end
\* (executeWorkflow, failRun): no request is left without its record, and two
\* never share one.
RunningIsOwned ==
    \A i \in RunIds :
        LET owners == {r \in Requests : Running(r) /\ task[r].run = i} IN
        /\ (runs[i] # Absent /\ runs[i].status = "running") <=> (owners # {} \/ i \in orphans)
        /\ owners # {} => i \notin orphans
        /\ \A r, q \in owners : r = q

\* The insight that the product shows is replaced by that of another run only,
\* unless a ProductHandler.Analyze without an insight of its own writes back what
\* it read before its run (product.go): AnalyzeProduct never undoes one.
InsightIsKept ==
    [][insight' # insight =>
          \E r \in Requests :
             /\ task[r].pc = "saving"
             /\ task'[r] = Idle
             /\ insight' # task[r].run =>
                   task[r].call.kind = "analyze" /\ insight' = task[r].copy]_vars

\* Every run that is stored as running is stored as ended, unless its request
\* crashed or panicked or the write was lost: cycles, step limits, nodes that fail, broken
\* definitions and edits meanwhile all lead to an end.
RunsEnd ==
    \A i \in RunIds :
        (runs[i] # Absent /\ runs[i].status = "running")
            ~> (runs[i].status # "running" \/ i \in orphans)

=============================================================================

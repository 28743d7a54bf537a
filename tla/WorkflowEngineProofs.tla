------------------------- MODULE WorkflowEngineProofs -------------------------
(***************************************************************************)
(* Proofs about WorkflowEngine, for any workflows, graphs and requests.     *)
(*                                                                         *)
(* A run is stored by the request that executes it, under a number no run   *)
(* has, so that each running row has one owner until its end is stored or   *)
(* its request is gone.  A walk only ever extends its path by the node it   *)
(* is at and goes along an edge of the graph it was given.                 *)
(***************************************************************************)
EXTENDS WorkflowEngine, WellFoundedInduction, TLAPS

-----------------------------------------------------------------------------
(***************************************************************************)
(* What a node adds to the context is a context.                           *)
(***************************************************************************)

\* What is merged into a context makes a context.
LEMMA MergeType ==
    ASSUME NEW c \in Contexts, NEW d \in Contexts
    PROVE  Merge(c, d) \in Contexts
BY DEF Merge, Contexts

\* An answer without any key is a context.
LEMMA NothingType == Nothing \in Contexts
BY DEF Nothing, Contexts

\* An object with one key.
LEMMA HoldingType ==
    ASSUME NEW k \in Keys, NEW text \in Texts
    PROVE  Holding(k, text) \in Contexts
BY NothingType DEF Holding, Contexts

\* What a context has is a text.
LEMMA HasText ==
    ASSUME NEW c \in Contexts, NEW k \in Keys, Has(c, k)
    PROVE  c[k] \in Texts
BY DEF Has, Contexts, Unset

\* A context is written out in words.
LEMMA RenderedType ==
    ASSUME NEW c \in Contexts
    PROVE  Rendered(c) \in Texts
<1>1. ASSUME NEW k \in Keys, Has(c, k)
      PROVE  c[k] \subseteq Words /\ NameWords[k] \subseteq Words
  BY <1>1, HasText, EngineAssumption DEF Texts
<1>2. QED
  BY <1>1 DEF Rendered, Texts

\* The keys that the code names are keys.
LEMMA CodeKeyTypes == CodeKeys \subseteq Keys
BY DEF Keys

\* The built-in answers are contexts.
LEMMA SceneAnswerType ==
    ASSUME NEW scene
    PROVE  SceneAnswer(scene) \in Contexts
<1>1. {} \in Texts /\ {"select"} \in Texts
  BY EngineAssumption DEF Texts
<1>2. {"score", "recommendation", "negotiation", "insight", "sql", "result", "reply",
       "title", "reason"} \subseteq Keys
  BY CodeKeyTypes DEF CodeKeys
<1>3. ASSUME NEW a \in Contexts, NEW k \in Keys, NEW text \in Texts
      PROVE  [a EXCEPT ![k] = text] \in Contexts
  BY DEF Contexts
<1>4. /\ [Nothing EXCEPT !["score"] = {}, !["recommendation"] = {}] \in Contexts
      /\ [Nothing EXCEPT !["sql"] = {"select"}, !["result"] = {}, !["insight"] = {}] \in Contexts
      /\ [Nothing EXCEPT !["score"] = {}, !["reason"] = {}] \in Contexts
  BY <1>1, <1>2, <1>3, NothingType
<1>5. /\ Holding("negotiation", {}) \in Contexts
      /\ Holding("insight", {}) \in Contexts
      /\ Holding("reply", {}) \in Contexts
      /\ Holding("title", {}) \in Contexts
  BY <1>1, <1>2, HoldingType
<1>6. QED
  BY <1>4, <1>5 DEF SceneAnswer

\* So are the answers of any model.
LEMMA ChatType ==
    ASSUME NEW n, NEW c
    PROVE  Chat(n, c) \subseteq Contexts
BY SceneAnswerType, EngineAssumption DEF Chat

\* The queries are texts.
LEMMA QueryType ==
    ASSUME NEW c
    PROVE  AskForQuery(c) \subseteq Texts
<1>1. BuiltinQuery(c["question"]) \in Texts
  BY EngineAssumption DEF BuiltinQuery, Texts
<1>2. QED
  BY <1>1, EngineAssumption DEF AskForQuery

\* Whatever a node is, it adds a context to the context.
LEMMA AddedType ==
    ASSUME NEW n, NEW c \in Contexts, NEW add \in Added(n, c)
    PROVE  add \in Contexts
<1>1. /\ {"output", "rag_context", "query", "question", "sql", "result", "product",
          "supplier", "margin_rate"} \subseteq Keys
      /\ {} \in Texts
  BY CodeKeyTypes DEF CodeKeys, Texts
<1>2. CASE n.type = "llm"
  <2>1. PICK a \in Chat(n, c) : add = Merge(Holding("output", Rendered(a)), a)
    BY <1>2 DEF Added
  <2>2. a \in Contexts
    BY ChatType
  <2>3. QED
    BY <1>1, <2>1, <2>2, RenderedType, HoldingType, MergeType
<1>3. CASE n.type = "rag"
  <2>1. CASE Search(c) = Unset
    BY <1>1, <1>3, <2>1, HoldingType DEF Added
  <2>2. CASE Search(c) # Unset
    <3>1. PICK d \in Documents :
              add = [Nothing EXCEPT !["rag_context"] = d, !["query"] = Search(c)]
      BY <1>3, <2>2 DEF Added
    <3>2. Search(c) \in Texts
      BY <1>1, <2>2 DEF Search, Contexts, Unset
    <3>3. d \in Texts
      BY EngineAssumption
    <3>4. QED
      BY <1>1, <3>1, <3>2, <3>3, NothingType DEF Contexts
  <2>3. QED
    BY <2>1, <2>2
<1>4. CASE n.type = "text2sql"
  <2>1. PICK q \in AskForQuery(c) : add = Holding("sql", q)
    BY <1>4 DEF Added
  <2>2. QED
    BY <1>1, <2>1, QueryType, HoldingType
<1>5. CASE n.type = "sql_execute"
  <2>1. add = Holding("result", {})
    BY <1>5 DEF Added
  <2>2. QED
    BY <1>1, <2>1, HoldingType
<1>6. CASE n.type = "tool"
  <2>1. add = Gives(n.tool)
    BY <1>6 DEF Added
  <2>2. QED
    BY <1>1, <2>1, HoldingType, NothingType DEF Gives
<1>7. CASE n.type \notin {"llm", "rag", "text2sql", "sql_execute", "tool"}
  BY <1>7, NothingType DEF Added
<1>8. QED
  BY <1>2, <1>3, <1>4, <1>5, <1>6, <1>7

-----------------------------------------------------------------------------
(***************************************************************************)
(* The graph.                                                              *)
(***************************************************************************)

\* The first of some numbers is one of them.
LEMMA FirstIn ==
    ASSUME NEW S \in SUBSET Nat, S # {}
    PROVE  First(S) \in S
<1>1. \E i \in S : \A j \in S : i <= j
  <2> DEFINE R == OpToRel(<, Nat)
  <2>1. IsWellFoundedOn(R, Nat)
    BY NatLessThanWellFounded
  <2>2. R = {p \in Nat \X Nat : p[1] < p[2]}
    BY DEF OpToRel
  <2>3. ASSUME NEW m \in Nat, NEW n \in Nat, <<n, m>> \notin R
        PROVE  m <= n
    <3>1. <<n, m>> \in Nat \X Nat => ~(n < m)
      BY <2>2, <2>3
    <3>2. QED
      BY <3>1
  <2> HIDE DEF R
  <2>4. PICK i \in S : \A j \in S : <<j, i>> \notin R
    BY <2>1, WFMin
  <2>5. QED
    BY <2>3, <2>4
<1>2. QED
  BY <1>1 DEF First

\* The empty definition becomes a definition with three nodes.
LEMMA DefaultIsDefinition == IsDefinition(DefaultDefinition)
<1> DEFINE d == DefaultDefinition
<1>1. /\ DOMAIN d = {"nodes", "edges"}
      /\ DOMAIN d.nodes = 1..3 /\ Len(d.nodes) = 3
      /\ DOMAIN d.edges = 1..2 /\ Len(d.edges) = 2
  BY DEF DefaultDefinition
<1>2. \A i \in 1..3 : IsNode(d.nodes[i])
  <2>1. ASSUME NEW id \in {"start", "llm", "end"}, NEW type
        PROVE  IsNode(Plain(id, type))
    BY EngineAssumption DEF IsNode, Plain, Texts, Tools
  <2>2. /\ d.nodes[1] = Plain("start", "input")
        /\ d.nodes[2] = Plain("llm", "llm")
        /\ d.nodes[3] = Plain("end", "output")
    BY DEF DefaultDefinition
  <2>3. QED
    BY <2>1, <2>2
<1>3. \A i \in 1..2 : IsEdge(d.edges[i])
  <2>1. ASSUME NEW from \in {"start", "llm", "end"}, NEW to \in {"start", "llm", "end"}
        PROVE  IsEdge(Link(from, to))
    BY EngineAssumption DEF IsEdge, Link, Texts
  <2>2. d.edges[1] = Link("start", "llm") /\ d.edges[2] = Link("llm", "end")
    BY DEF DefaultDefinition
  <2>3. QED
    BY <2>1, <2>2
<1> HIDE DEF d
<1>4. QED
  BY <1>1, <1>2, <1>3 DEF IsDefinition, d

\* What is parsed is a graph.
LEMMA ParsedIsDefinition ==
    ASSUME NEW d \in Parsed
    PROVE  /\ IsDefinition(d)
           /\ DOMAIN d.nodes \in SUBSET Nat
           /\ DOMAIN d.edges \in SUBSET Nat
<1>1. IsDefinition(d)
  BY DefaultIsDefinition, EngineAssumption DEF Parsed
<1>2. /\ DOMAIN d.nodes = 1..Len(d.nodes)
      /\ DOMAIN d.edges = 1..Len(d.edges)
  BY <1>1 DEF IsDefinition
<1>3. \A m, n : m..n \subseteq Int
  OBVIOUS
<1>4. QED
  BY <1>1, <1>2

\* The walk begins at a node or nowhere.
LEMMA StartType ==
    ASSUME NEW d \in Parsed
    PROVE  Start(d) \in NodeIds \cup {None}
<1> DEFINE inputs == {i \in DOMAIN d.nodes : d.nodes[i].type = "input"}
<1>1. inputs # {} => First(inputs) \in DOMAIN d.nodes
  BY ParsedIsDefinition, FirstIn
<1>2. \A i \in DOMAIN d.nodes : d.nodes[i].id \in NodeIds
  BY ParsedIsDefinition DEF IsDefinition, IsNode
<1>3. d.nodes # <<>> => 1 \in DOMAIN d.nodes
  BY ParsedIsDefinition DEF IsDefinition
<1>4. QED
  BY <1>1, <1>2, <1>3 DEF Start

\* A walk goes on along an edge of its graph or nowhere.
LEMMA FollowsEdge ==
    ASSUME NEW d \in Parsed, NEW id, NEW c
    PROVE  /\ Follow(d, id, c) \in NodeIds \cup {None}
           /\ \/ Follow(d, id, c) = None
              \/ \E k \in DOMAIN d.edges : d.edges[k].from = id /\ d.edges[k].to = Follow(d, id, c)
<1>1. CASE OpenEdges(d, id, c) = {}
  BY <1>1 DEF Follow
<1>2. CASE OpenEdges(d, id, c) # {}
  <2>1. First(OpenEdges(d, id, c)) \in OpenEdges(d, id, c)
    BY <1>2, ParsedIsDefinition, FirstIn DEF OpenEdges
  <2>2. PICK k \in DOMAIN d.edges : d.edges[k].from = id /\ Follow(d, id, c) = d.edges[k].to
    BY <1>2, <2>1 DEF Follow, OpenEdges
  <2>3. d.edges[k].to \in NodeIds \cup {None}
    BY ParsedIsDefinition DEF IsDefinition, IsEdge
  <2>4. QED
    BY <2>2, <2>3
<1>3. QED
  BY <1>1, <1>2

-----------------------------------------------------------------------------
(***************************************************************************)
(* The invariant.                                                          *)
(***************************************************************************)

\* Request r executes run i.
Executes(r, i) == Running(r) /\ task[r].run = i

StoredAsRunning(i) == runs[i] # Absent /\ runs[i].status = "running"

\* What RunningIsOwned says of run i.
OwnedRun(i) ==
    /\ StoredAsRunning(i) <=> (\E r \in Requests : Executes(r, i)) \/ i \in orphans
    /\ \A r \in Requests : Executes(r, i) => i \notin orphans
    /\ \A r, q \in Requests : Executes(r, i) /\ Executes(q, i) => r = q

\* What WalkFollowsEdges says of a walk t.
GoodWalk(t) ==
    LET walked == Append(t.path, t.at) IN
    /\ Len(t.path) <= MaxSteps
    /\ walked[1] = Start(t.def)
    /\ \A i, j \in DOMAIN t.path : t.path[i] = t.path[j] => i = j
    /\ \A i \in DOMAIN t.path :
          \/ \E k \in DOMAIN t.def.edges :
                t.def.edges[k].from = t.path[i] /\ t.def.edges[k].to = walked[i + 1]
          \/ i = Len(t.path) /\ t.at = None

EngineInv ==
    /\ TypeOK
    /\ \A i \in RunIds : OwnedRun(i)
    /\ \A r \in Requests : task[r].pc = "walk" => GoodWalk(task[r])

-----------------------------------------------------------------------------
(***************************************************************************)
(* Steps of a request.                                                     *)
(***************************************************************************)

\* What the records of a request have.
LEMMA TaskFields ==
    ASSUME TypeOK, NEW r \in Requests
    PROVE  LET t == task[r] IN
           /\ t \in Task
           /\ t.pc # "idle" => t.call \in Calls /\ t.copy \in Insights
           /\ t.pc = "loaded" => t.def \in Workflow
           /\ t.pc \in {"walk", "ending", "saving", "label"} =>
                 t.run \in RunIds /\ t.said \in Contexts
           /\ t.pc = "ending" => t.outcome \in {"success", "failed"}
           /\ t.pc = "walk" =>
                 /\ t.def \in Parsed /\ t.at \in NodeIds \cup {None}
                 /\ t.path \in Seq(NodeIds)
                 /\ t.ctx \in Contexts /\ t.shown \in Contexts
<1>1. task[r] \in Task
  BY DEF TypeOK
<1>2. QED
  BY <1>1 DEF Task, Idle

\* What a request asked for: its kind, its workflow and its input.
LEMMA CallFields ==
    ASSUME NEW call \in Calls
    PROVE  call.kind \in Kinds /\ call.wf \in Workflows /\ call.input \in Contexts
BY EngineAssumption

\* Request r goes to t and the others stay.
LEMMA GoType ==
    ASSUME TypeOK, NEW r \in Requests, NEW t \in Task, Goto(r, t)
    PROVE  /\ task' \in [Requests -> Task]
           /\ task'[r] = t
           /\ \A q \in Requests \ {r} : task'[q] = task[q]
BY DEF TypeOK, Goto

\* The types of what the steps of requests do not change.
others == <<up, provider, workflows, edits, crashes>>

\* Request r neither takes nor leaves a run.
LEMMA SameOwners ==
    ASSUME EngineInv, NEW r \in Requests, NEW t \in Task, Goto(r, t),
           UNCHANGED <<others, orphans>>,
           insight' \in Insights,
           runs' \in [RunIds -> Run \cup {Absent}],
           \A i \in RunIds : StoredAsRunning(i)' <=> StoredAsRunning(i),
           \/ ~Running(r) /\ t.pc \notin {"walk", "ending"}
           \/ Running(r) /\ t.pc \in {"walk", "ending"} /\ t.run = task[r].run,
           t.pc = "walk" => GoodWalk(t)
    PROVE  EngineInv'
<1> USE DEF EngineInv
<1>1. /\ task' \in [Requests -> Task]
      /\ task'[r] = t
      /\ \A q \in Requests \ {r} : task'[q] = task[q]
  BY GoType
<1>2. TypeOK'
  BY <1>1 DEF TypeOK, others
<1>3. ASSUME NEW q \in Requests, NEW i \in RunIds
      PROVE  Executes(q, i)' <=> Executes(q, i)
  <2>1. CASE q = r
    BY <1>1, <2>1 DEF Executes, Running
  <2>2. CASE q # r
    BY <1>1, <2>2 DEF Executes, Running
  <2>3. QED
    BY <2>1, <2>2
<1>4. \A i \in RunIds : OwnedRun(i)'
  BY <1>3 DEF OwnedRun
<1>5. \A q \in Requests : task'[q].pc = "walk" => GoodWalk(task'[q])
  BY <1>1
<1>6. QED
  BY <1>2, <1>4, <1>5

\* Request r leaves its run, which is stored as ended or left behind.
LEMMA Leaves ==
    ASSUME EngineInv, NEW r \in Requests, NEW t \in Task, Goto(r, t), Running(r),
           UNCHANGED <<others, insight>>, t.pc \notin {"walk", "ending"},
           runs' \in [RunIds -> Run \cup {Absent}],
           NEW mine \in RunIds, mine = task[r].run,
           \A i \in RunIds \ {mine} : StoredAsRunning(i)' <=> StoredAsRunning(i),
           \/ ~StoredAsRunning(mine)' /\ orphans' = orphans
           \/ /\ StoredAsRunning(mine)' <=> StoredAsRunning(mine)
              /\ orphans' = orphans \cup {mine}
    PROVE  EngineInv'
<1> USE DEF EngineInv
<1>1. /\ task' \in [Requests -> Task]
      /\ task'[r] = t
      /\ \A q \in Requests \ {r} : task'[q] = task[q]
  BY GoType
<1>2. TypeOK'
  BY <1>1 DEF TypeOK, others
<1>3. ASSUME NEW i \in RunIds PROVE ~Executes(r, i)'
  BY <1>1 DEF Executes, Running
<1>4. ASSUME NEW q \in Requests \ {r}, NEW i \in RunIds
      PROVE  Executes(q, i)' <=> Executes(q, i)
  BY <1>1 DEF Executes, Running
<1>5. OwnedRun(mine) /\ Executes(r, mine)
  BY DEF Executes
<1>6. ASSUME NEW i \in RunIds PROVE OwnedRun(i)'
  <2>1. CASE i = mine
    <3>1. ASSUME NEW q \in Requests PROVE ~Executes(q, mine)'
      <4>1. \A p \in Requests : Executes(r, mine) /\ Executes(p, mine) => r = p
        BY <1>5 DEF OwnedRun
      <4>2. CASE q = r
        BY <1>3, <4>2
      <4>3. CASE q # r
        BY <1>4, <1>5, <4>1, <4>3
      <4>4. QED
        BY <4>2, <4>3
    <3>2. StoredAsRunning(mine) /\ mine \notin orphans
      BY <1>5 DEF OwnedRun
    <3>3. StoredAsRunning(mine)' <=> mine \in orphans'
      BY <3>2
    <3>4. OwnedRun(mine)'
      BY <3>1, <3>3, Zenon DEF OwnedRun
    <3>5. QED
      BY <2>1, <3>4
  <2>2. CASE i # mine
    <3>1. ~Executes(r, i)
      BY <2>2 DEF Executes
    <3>2. \A q \in Requests : Executes(q, i)' <=> Executes(q, i)
      BY <1>3, <1>4, <3>1
    <3>3. (i \in orphans') <=> (i \in orphans)
      BY <2>2
    <3>4. QED
      BY <2>2, <3>2, <3>3 DEF OwnedRun
  <2>3. QED
    BY <2>1, <2>2
<1>7. \A q \in Requests : task'[q].pc = "walk" => GoodWalk(task'[q])
  BY <1>1
<1>8. QED
  BY <1>2, <1>6, <1>7

\* The request is over, without a run of its own.
LEMMA GivesUp ==
    ASSUME EngineInv, NEW r \in Requests, ~Running(r), Goto(r, Idle),
           UNCHANGED <<others, runs, orphans>>, insight' \in Insights
    PROVE  EngineInv'
<1>1. Idle \in Task /\ Idle.pc = "idle"
  BY DEF Task, Idle
<1>2. runs' \in [RunIds -> Run \cup {Absent}]
  BY DEF EngineInv, TypeOK
<1>3. \A i \in RunIds : StoredAsRunning(i)' <=> StoredAsRunning(i)
  BY DEF StoredAsRunning
<1>4. QED
  BY <1>1, <1>2, <1>3, SameOwners

\* Reading the product for an analysis keeps the invariant (ProductHandler.Analyze).
LEMMA AskStep ==
    ASSUME EngineInv, NEW r \in Requests, Ask(r)
    PROVE  EngineInv'
<1>1. PICK call \in Calls : Goto(r, [pc |-> "asked", call |-> call, copy |-> insight])
  BY DEF Ask
<1> DEFINE t == [pc |-> "asked", call |-> call, copy |-> insight]
<1>2. t \in Task
  BY DEF EngineInv, TypeOK, Task
<1>3. /\ ~Running(r)
      /\ UNCHANGED <<others, orphans, insight, runs>>
  BY DEF Ask, Running, Idle, others
<1>4. /\ insight' \in Insights
      /\ runs' \in [RunIds -> Run \cup {Absent}]
      /\ \A i \in RunIds : StoredAsRunning(i)' <=> StoredAsRunning(i)
  BY <1>3 DEF EngineInv, TypeOK, StoredAsRunning
<1>5. QED
  BY <1>1, <1>2, <1>3, <1>4, SameOwners

\* The workflow is read, or the request is over.
LEMMA LoadStep ==
    ASSUME EngineInv, NEW r \in Requests, LoadFirst(r) \/ LoadAsked(r)
    PROVE  EngineInv'
<1>1. PICK call \in Calls, copy \in Insights : Load(r, call, copy)
  <2>1. CASE LoadFirst(r)
    <3>1. 0 \in Insights
      BY EngineAssumption DEF Insights
    <3>2. QED
      BY <2>1, <3>1 DEF LoadFirst
  <2>2. CASE LoadAsked(r)
    BY <2>2, TaskFields DEF EngineInv, LoadAsked
  <2>3. QED
    BY <2>1, <2>2
<1>2. ~Running(r)
  BY DEF LoadFirst, LoadAsked, Running, Idle
<1>3. UNCHANGED <<others, orphans, insight, runs>>
  BY <1>1 DEF Load, others
<1>4. /\ insight' \in Insights
      /\ runs' \in [RunIds -> Run \cup {Absent}]
      /\ \A i \in RunIds : StoredAsRunning(i)' <=> StoredAsRunning(i)
  BY <1>3 DEF EngineInv, TypeOK, StoredAsRunning
<1>5. CASE Goto(r, Idle)
  BY <1>2, <1>3, <1>4, <1>5, GivesUp
<1>6. CASE ~Goto(r, Idle)
  <2> DEFINE w == workflows[call.wf]
             t == [pc |-> "loaded", call |-> call, copy |-> copy, def |-> w]
  <2>1. w # Absent /\ Goto(r, t)
    BY <1>1, <1>6 DEF Load
  <2>2. w \in Workflow
    BY <2>1, CallFields DEF EngineInv, TypeOK
  <2>3. t \in Task
    BY <2>2 DEF Task
  <2>4. QED
    BY <1>2, <1>3, <1>4, <2>1, <2>3, SameOwners
<1>7. QED
  BY <1>5, <1>6

\* The run is stored under a number that no run has: its request alone executes it.
LEMMA CreateStep ==
    ASSUME EngineInv, NEW r \in Requests, Create(r)
    PROVE  EngineInv'
<1> USE DEF EngineInv
<1>1. /\ task[r].pc = "loaded"
      /\ task[r].call \in Calls /\ task[r].copy \in Insights /\ task[r].def \in Workflow
  BY TaskFields DEF Create
<1> DEFINE d == Parse(task[r].def.def)
<1>2. PICK i \in RunIds :
          /\ runs[i] = Absent
          /\ runs' = [runs EXCEPT ![i] = NewRun(task[r])]
          /\ IF d = Broken \/ ~Builds(d)
             THEN Goto(r, Ending(task[r], i, "failed", Nothing))
             ELSE Goto(r, Walking(task[r], i, d))
  BY DEF Create
<1>3. UNCHANGED <<others, insight, orphans>>
  BY DEF Create, others
<1>4. PICK t \in Task :
          /\ Goto(r, t)
          /\ t.pc \in {"walk", "ending"} /\ t.run = i
          /\ t.pc = "walk" => GoodWalk(t)
  <2>1. CASE d = Broken \/ ~Builds(d)
    <3> DEFINE t == Ending(task[r], i, "failed", Nothing)
    <3>1. t \in Task /\ t.pc = "ending" /\ t.run = i
      BY <1>1, NothingType DEF Ending, Task
    <3>2. QED
      BY <1>2, <2>1, <3>1
  <2>2. CASE d # Broken /\ Builds(d)
    <3> DEFINE t == Walking(task[r], i, d)
    <3>1. d \in Parsed
      BY <1>1, <2>2 DEF Parse, Parsed, Workflow
    <3>2. Start(d) \in NodeIds \cup {None} /\ task[r].call.input \in Contexts
      BY <1>1, <3>1, StartType, CallFields
    <3> HIDE DEF d
    <3>3. /\ t = [pc |-> "walk", call |-> task[r].call, copy |-> task[r].copy, run |-> i,
                  def |-> d, at |-> Start(d), path |-> <<>>, ctx |-> task[r].call.input,
                  said |-> Nothing, shown |-> Nothing]
      BY DEF Walking
    <3>4. /\ t.pc = "walk" /\ t.run = i /\ t.path = <<>>
          /\ t.def = d /\ t.at = Start(d)
      BY <3>3
    <3>5. t \in Task
      <4>1. <<>> \in Seq(NodeIds)
        OBVIOUS
      <4>2. QED
        BY <1>1, <3>1, <3>2, <3>3, <4>1, NothingType DEF Task
    <3>6. GoodWalk(t)
      BY <3>4, EngineAssumption DEF GoodWalk
    <3>7. QED
      BY <1>2, <2>2, <3>4, <3>5, <3>6 DEF d
  <2>3. QED
    BY <2>1, <2>2
<1>5. /\ task' \in [Requests -> Task]
      /\ task'[r] = t
      /\ \A q \in Requests \ {r} : task'[q] = task[q]
  BY <1>4, GoType
<1>6. /\ runs' \in [RunIds -> Run \cup {Absent}]
      /\ runs'[i] # Absent /\ runs'[i].status = "running"
      /\ \A j \in RunIds \ {i} : runs'[j] = runs[j]
  <2>1. NewRun(task[r]) \in Run /\ NewRun(task[r]).status = "running"
    BY <1>1, CallFields DEF NewRun, Run
  <2>2. NewRun(task[r]) # Absent
    BY <2>1 DEF Absent
  <2>3. QED
    BY <1>2, <2>1, <2>2 DEF TypeOK
<1>7. TypeOK'
  BY <1>3, <1>5, <1>6 DEF TypeOK, others
<1>8. ASSUME NEW q \in Requests \ {r}, NEW j \in RunIds
      PROVE  Executes(q, j)' <=> Executes(q, j)
  BY <1>5 DEF Executes, Running
<1>9. ASSUME NEW j \in RunIds PROVE OwnedRun(j)'
  <2>1. ~Executes(r, j)
    BY <1>1 DEF Executes, Running
  <2>2. Executes(r, j)' <=> j = i
    BY <1>4, <1>5 DEF Executes, Running
  <2>3. CASE j = i
    <3>1. ~StoredAsRunning(i)
      BY <1>2 DEF StoredAsRunning
    <3>2. (\A q \in Requests : ~Executes(q, i)) /\ i \notin orphans
      BY <3>1 DEF OwnedRun
    <3>3. \A q \in Requests : Executes(q, i)' => q = r
      BY <1>8, <3>2
    <3>4. StoredAsRunning(i)' /\ i \notin orphans' /\ Executes(r, i)'
      BY <1>3, <1>6, <2>2, <2>3, <3>2 DEF StoredAsRunning
    <3>5. OwnedRun(i)'
      BY <3>3, <3>4, Zenon DEF OwnedRun
    <3>6. QED
      BY <2>3, <3>5
  <2>4. CASE j # i
    <3>1. StoredAsRunning(j)' <=> StoredAsRunning(j)
      BY <1>6, <2>4 DEF StoredAsRunning
    <3>2. \A q \in Requests : Executes(q, j)' <=> Executes(q, j)
      BY <1>8, <2>1, <2>2, <2>4
    <3>3. (j \in orphans') <=> (j \in orphans)
      BY <1>3
    <3>4. QED
      BY <3>1, <3>2, <3>3 DEF OwnedRun
  <2>5. QED
    BY <2>3, <2>4
<1>10. \A q \in Requests : task'[q].pc = "walk" => GoodWalk(task'[q])
  BY <1>4, <1>5
<1>11. QED
  BY <1>7, <1>9, <1>10

\* A step within a walk or out of it changes nothing that is stored.
LEMMA NothingStored ==
    ASSUME EngineInv, UNCHANGED <<runs, insight>>
    PROVE  /\ insight' \in Insights
           /\ runs' \in [RunIds -> Run \cup {Absent}]
           /\ \A i \in RunIds : StoredAsRunning(i)' <=> StoredAsRunning(i)
BY DEF EngineInv, TypeOK, StoredAsRunning

\* The path grows by the node at hand, which was not on it, and the walk goes along
\* an edge from there.
LEMMA VisitExtends ==
    ASSUME NEW t, NEW u, NEW c, GoodWalk(t), ~Over(t), t.def \in Parsed,
           t.path \in Seq(NodeIds), t.at \in NodeIds \cup {None},
           u.def = t.def, u.path = Append(t.path, t.at), u.at = Follow(t.def, t.at, c)
    PROVE  GoodWalk(u)
<1> DEFINE n == Len(t.path)
           next == u.at
           walked == Append(t.path, t.at)
           more == Append(u.path, next)
<1>1. /\ t.at # None
      /\ n # MaxSteps
      /\ \A i \in DOMAIN t.path : t.path[i] # t.at
  BY DEF Over
<1>2. /\ n <= MaxSteps
      /\ walked[1] = Start(t.def)
      /\ \A i, j \in DOMAIN t.path : t.path[i] = t.path[j] => i = j
      /\ \A i \in DOMAIN t.path :
            \/ \E k \in DOMAIN t.def.edges :
                  t.def.edges[k].from = t.path[i] /\ t.def.edges[k].to = walked[i + 1]
            \/ i = n /\ t.at = None
  BY DEF GoodWalk
<1>3. /\ n \in Nat /\ DOMAIN t.path = 1..n
      /\ t.at \in NodeIds
  BY <1>1
<1>4. /\ u.path = walked
      /\ Len(u.path) = n + 1 /\ DOMAIN u.path = 1..(n + 1)
      /\ \A i \in 1..n : u.path[i] = t.path[i]
      /\ u.path[n + 1] = t.at
      /\ u.path \in Seq(NodeIds)
  BY <1>3
<1>5. next \in NodeIds \cup {None}
  BY FollowsEdge
<1>6. /\ \A i \in 1..(n + 1) : more[i] = u.path[i]
      /\ more[n + 2] = next
  BY <1>3, <1>4, <1>5
<1> HIDE DEF n, next, walked, more
<1>7. Len(u.path) <= MaxSteps
  BY <1>1, <1>2, <1>3, <1>4, EngineAssumption
<1>8. more[1] = Start(u.def)
  BY <1>2, <1>3, <1>4, <1>6
<1>9. \A i, j \in DOMAIN u.path : u.path[i] = u.path[j] => i = j
  BY <1>1, <1>2, <1>3, <1>4
<1>10. ASSUME NEW i \in DOMAIN u.path
       PROVE  \/ \E k \in DOMAIN u.def.edges :
                    u.def.edges[k].from = u.path[i] /\ u.def.edges[k].to = more[i + 1]
              \/ i = Len(u.path) /\ u.at = None
  <2>1. CASE i \in 1..n
    <3>1. more[i + 1] = walked[i + 1] /\ u.path[i] = t.path[i]
      BY <1>3, <1>4, <1>6, <2>1
    <3>2. QED
      BY <1>1, <1>2, <1>3, <2>1, <3>1
  <2>2. CASE i = n + 1
    <3>1. u.path[i] = t.at /\ more[i + 1] = u.at
      BY <1>3, <1>4, <1>6, <2>2 DEF next
    <3>2. QED
      BY <1>4, <2>2, <3>1, FollowsEdge
  <2>3. QED
    BY <1>3, <1>4, <2>1, <2>2
<1>11. QED
  BY <1>7, <1>8, <1>9, <1>10 DEF GoodWalk, more, next

\* One node is executed.
LEMMA VisitStep ==
    ASSUME EngineInv, NEW r \in Requests, Visit(r)
    PROVE  EngineInv'
<1> DEFINE t == task[r]
           n == NodeAt(t.def, t.at)
<1>1. /\ t.pc = "walk" /\ ~Over(t)
      /\ UNCHANGED <<others, orphans, runs, insight>>
  BY DEF Visit, others
<1>2. /\ t \in Task /\ t.def \in Parsed /\ t.at \in NodeIds \cup {None}
      /\ t.path \in Seq(NodeIds) /\ t.ctx \in Contexts /\ t.said \in Contexts
      /\ t.shown \in Contexts /\ t.call \in Calls /\ t.copy \in Insights /\ t.run \in RunIds
  BY <1>1, TaskFields DEF EngineInv
<1>3. PICK add \in Added(n, t.ctx) :
          Goto(r, [t EXCEPT !.ctx = Merge(t.ctx, add),
                            !.at = Follow(t.def, t.at, Merge(t.ctx, add)),
                            !.path = Append(t.path, t.at),
                            !.said = IF n.type = "llm" THEN add ELSE t.said,
                            !.shown = IF n.type = "output" THEN t.said ELSE t.shown])
  BY DEF Visit
<1>4. add \in Contexts /\ Merge(t.ctx, add) \in Contexts
  BY <1>2, AddedType, MergeType
<1>5. PICK c \in Contexts, path \in Seq(NodeIds), said \in Contexts, shown \in Contexts :
          /\ path = Append(t.path, t.at)
          /\ Goto(r, [t EXCEPT !.ctx = c, !.at = Follow(t.def, t.at, c), !.path = path,
                               !.said = said, !.shown = shown])
  <2>1. t.at \in NodeIds
    BY <1>1, <1>2 DEF Over
  <2>2. Append(t.path, t.at) \in Seq(NodeIds)
    BY <1>2, <2>1
  <2>3. /\ (IF n.type = "llm" THEN add ELSE t.said) \in Contexts
        /\ (IF n.type = "output" THEN t.said ELSE t.shown) \in Contexts
    BY <1>2, <1>4
  <2>4. QED
    BY <1>3, <1>4, <2>2, <2>3
<1> DEFINE next == Follow(t.def, t.at, c)
           u == [t EXCEPT !.ctx = c, !.at = next, !.path = path,
                          !.said = said, !.shown = shown]
<1>6. next \in NodeIds \cup {None}
  BY <1>2, FollowsEdge
<1> HIDE DEF next
<1>7. t \in [pc : {"walk"}, call : Calls, copy : Insights, run : RunIds, def : Parsed,
             at : NodeIds \cup {None}, path : Seq(NodeIds), ctx : Contexts, said : Contexts,
             shown : Contexts]
  BY <1>1, <1>2 DEF Task, Idle
<1>8. /\ u \in [pc : {"walk"}, call : Calls, copy : Insights, run : RunIds, def : Parsed,
                at : NodeIds \cup {None}, path : Seq(NodeIds), ctx : Contexts,
                said : Contexts, shown : Contexts]
      /\ u.pc = "walk" /\ u.run = t.run /\ u.def = t.def /\ u.path = path /\ u.at = next
  BY <1>6, <1>7
<1>9. u \in Task /\ Goto(r, u)
  BY <1>5, <1>8 DEF Task, next
<1>10. GoodWalk(t)
  BY <1>1 DEF EngineInv
<1> HIDE DEF t, u
<1>11. GoodWalk(u)
  BY <1>1, <1>2, <1>5, <1>8, <1>10, VisitExtends DEF next
<1>12. Running(r)
  BY <1>1 DEF Running, t
<1>13. t.run = task[r].run
  BY DEF t
<1>14. QED
  BY <1>1, <1>8, <1>9, <1>11, <1>12, <1>13, NothingStored, SameOwners

\* The walk is over, with success or not: the run is kept until its end is stored.
LEMMA WalkEndsStep ==
    ASSUME EngineInv, NEW r \in Requests, VisitFails(r) \/ Arrive(r)
    PROVE  EngineInv'
<1> DEFINE t == task[r]
<1>1. t.pc = "walk" /\ UNCHANGED <<others, orphans, runs, insight>>
  BY DEF VisitFails, Arrive, others
<1>2. /\ t.call \in Calls /\ t.copy \in Insights /\ t.run \in RunIds
      /\ t.said \in Contexts /\ t.shown \in Contexts
  BY <1>1, TaskFields DEF EngineInv
<1>3. PICK outcome \in {"success", "failed"}, said \in Contexts :
          Goto(r, Ending(t, t.run, outcome, said))
  BY <1>2, NothingType DEF VisitFails, Arrive, Result
<1> DEFINE u == Ending(t, t.run, outcome, said)
<1>4. u \in Task /\ u.pc = "ending" /\ u.run = t.run
  BY <1>2, NothingType DEF Ending, Task
<1>5. Running(r)
  BY <1>1 DEF Running
<1> HIDE DEF u
<1>6. Goto(r, u)
  BY <1>3 DEF u
<1>7. QED
  BY <1>1, <1>4, <1>5, <1>6, NothingStored, SameOwners

\* The request panics and leaves the run behind.
LEMMA PanicsStep ==
    ASSUME EngineInv, NEW r \in Requests, VisitPanics(r)
    PROVE  EngineInv'
<1>1. /\ task[r].pc = "walk" /\ Running(r)
      /\ Goto(r, Idle)
      /\ orphans' = orphans \cup {task[r].run}
      /\ UNCHANGED <<others, runs, insight>>
  BY DEF VisitPanics, others, Running
<1>2. PICK mine \in RunIds : mine = task[r].run
  BY <1>1, TaskFields DEF EngineInv
<1>3. Idle \in Task /\ Idle.pc = "idle"
  BY DEF Task, Idle
<1>4. QED
  BY <1>1, <1>2, <1>3, NothingStored, Leaves

\* Where a request goes after its run is no walk.
LEMMA AfterType ==
    ASSUME TypeOK, NEW r \in Requests, task[r].pc = "ending"
    PROVE  After(task[r]) \in Task /\ After(task[r]).pc \notin {"walk", "ending"}
<1> DEFINE t == task[r]
<1>1. t.call \in Calls /\ t.copy \in Insights /\ t.run \in RunIds /\ t.said \in Contexts
  BY TaskFields
<1>2. CASE t.outcome = "failed" \/ t.call.kind \in {"run", "code"}
  BY <1>2 DEF After, Task, Idle
<1>3. CASE ~(t.outcome = "failed" \/ t.call.kind \in {"run", "code"})
  <2>1. PICK pc \in {"saving", "label"} :
            After(t) = [pc |-> pc, call |-> t.call, copy |-> t.copy, run |-> t.run,
                        said |-> t.said]
    BY <1>3 DEF After
  <2>2. QED
    BY <1>1, <2>1 DEF Task
<1>4. QED
  BY <1>2, <1>3

\* The end of the run is stored.
LEMMA EndStep ==
    ASSUME EngineInv, NEW r \in Requests, End(r)
    PROVE  EngineInv'
<1>1. /\ task[r].pc = "ending" /\ Running(r)
      /\ runs' = [runs EXCEPT ![task[r].run].status = task[r].outcome]
      /\ Goto(r, After(task[r]))
      /\ UNCHANGED <<others, insight, orphans>>
  BY DEF End, others, Running
<1>2. PICK mine \in RunIds : mine = task[r].run
  BY <1>1, TaskFields DEF EngineInv
<1>3. task[r].outcome \in {"success", "failed"}
  BY <1>1, TaskFields DEF EngineInv
<1>4. After(task[r]) \in Task /\ After(task[r]).pc \notin {"walk", "ending"}
  BY <1>1, AfterType DEF EngineInv
<1>5. StoredAsRunning(mine)
  BY <1>1, <1>2 DEF EngineInv, OwnedRun, Executes
<1>6. runs[mine] \in Run
  BY <1>5 DEF EngineInv, TypeOK, StoredAsRunning
<1>7. /\ runs' \in [RunIds -> Run \cup {Absent}]
      /\ runs'[mine].status = task[r].outcome
      /\ \A i \in RunIds \ {mine} : runs'[i] = runs[i]
  <2>1. [runs[mine] EXCEPT !.status = task[r].outcome] \in Run
    BY <1>3, <1>6 DEF Run
  <2>2. runs' = [runs EXCEPT ![mine] = [runs[mine] EXCEPT !.status = task[r].outcome]]
    BY <1>1, <1>2 DEF EngineInv, TypeOK
  <2>3. QED
    BY <1>6, <2>1, <2>2 DEF EngineInv, TypeOK, Run
<1>8. ~StoredAsRunning(mine)'
  BY <1>3, <1>7 DEF StoredAsRunning
<1>9. \A i \in RunIds \ {mine} : StoredAsRunning(i)' <=> StoredAsRunning(i)
  BY <1>7 DEF StoredAsRunning
<1>10. QED
  BY <1>1, <1>2, <1>4, <1>7, <1>8, <1>9, Leaves

\* The end of the run is lost.
LEMMA EndLostStep ==
    ASSUME EngineInv, NEW r \in Requests, EndLost(r)
    PROVE  EngineInv'
<1>1. /\ task[r].pc = "ending" /\ Running(r)
      /\ orphans' = orphans \cup {task[r].run}
      /\ Goto(r, After(task[r]))
      /\ UNCHANGED <<others, insight, runs>>
  BY DEF EndLost, others, Running
<1>2. PICK mine \in RunIds : mine = task[r].run
  BY <1>1, TaskFields DEF EngineInv
<1>3. After(task[r]) \in Task /\ After(task[r]).pc \notin {"walk", "ending"}
  BY <1>1, AfterType DEF EngineInv
<1>4. QED
  BY <1>1, <1>2, <1>3, NothingStored, Leaves

\* Requests that have no run any more, or none yet, end.
LEMMA SaveStep ==
    ASSUME EngineInv, NEW r \in Requests, CreateFails(r) \/ Save(r) \/ SaveLost(r)
    PROVE  EngineInv'
<1>1. task[r].pc \in {"loaded", "saving", "label"} /\ ~Running(r)
  BY DEF CreateFails, Save, SaveLost, Running
<1>2. Goto(r, Idle) /\ UNCHANGED <<others, runs, orphans>>
  BY DEF CreateFails, Save, SaveLost, others
<1>3. insight' \in Insights
  <2>1. task[r].pc = "saving" => task[r].run \in RunIds /\ task[r].copy \in Insights
    BY TaskFields DEF EngineInv
  <2>2. RunIds \subseteq Insights
    BY EngineAssumption DEF RunIds, Insights
  <2>3. QED
    BY <2>1, <2>2 DEF EngineInv, TypeOK, CreateFails, Save, SaveLost
<1>4. QED
  BY <1>1, <1>2, <1>3, GivesUp

\* The run is marked as scheduled.
LEMMA LabelStep ==
    ASSUME EngineInv, NEW r \in Requests, Label(r)
    PROVE  EngineInv'
<1>1. /\ task[r].pc = "label" /\ ~Running(r)
      /\ runs' = [runs EXCEPT ![task[r].run].trigger = "scheduled"]
      /\ Goto(r, Idle)
      /\ UNCHANGED <<others, insight, orphans>>
  BY DEF Label, others, Running
<1>2. task[r].run \in RunIds
  BY <1>1, TaskFields DEF EngineInv
<1> DEFINE row == [runs[task[r].run] EXCEPT !.trigger = "scheduled"]
<1>3. runs' = [runs EXCEPT ![task[r].run] = row]
  BY <1>1, <1>2 DEF EngineInv, TypeOK
<1>4. /\ row \in Run \cup {Absent}
      /\ row = Absent <=> runs[task[r].run] = Absent
      /\ row.status = runs[task[r].run].status
  <2>1. CASE runs[task[r].run] = Absent
    <3>1. [Absent EXCEPT !.trigger = "scheduled"] = Absent
      BY DEF Absent
    <3>2. QED
      BY <2>1, <3>1
  <2>2. CASE runs[task[r].run] \in Run
    BY <2>2 DEF Run, Absent
  <2>3. QED
    BY <1>2, <2>1, <2>2 DEF EngineInv, TypeOK
<1> HIDE DEF row
<1>5. /\ runs' \in [RunIds -> Run \cup {Absent}]
      /\ \A i \in RunIds : StoredAsRunning(i)' <=> StoredAsRunning(i)
  BY <1>2, <1>3, <1>4 DEF EngineInv, TypeOK, StoredAsRunning
<1>6. Idle \in Task /\ Idle.pc = "idle"
  BY DEF Task, Idle
<1>7. insight' \in Insights
  BY <1>1 DEF EngineInv, TypeOK
<1>8. QED
  BY <1>1, <1>5, <1>6, <1>7, SameOwners

-----------------------------------------------------------------------------
(***************************************************************************)
(* The other steps and the theorems.                                       *)
(***************************************************************************)

\* What does not touch requests and runs leaves the runs with their owners.
LEMMA EngineStays ==
    ASSUME EngineInv, UNCHANGED <<runs, task, orphans>>, TypeOK'
    PROVE  EngineInv'
<1>1. \A i \in RunIds : OwnedRun(i)'
  BY DEF EngineInv, OwnedRun, Executes, Running, StoredAsRunning
<1>2. QED
  BY <1>1 DEF EngineInv

\* A workflow is created or updated while its runs go on with the copy they have.
LEMMA ManageStep ==
    ASSUME EngineInv, NEW w \in Workflows, Manage(w)
    PROVE  EngineInv'
<1>1. /\ \E row \in Workflow : workflows' = [workflows EXCEPT ![w] = row]
      /\ edits' = edits + 1
      /\ UNCHANGED <<up, provider, runs, insight, task, crashes, orphans>>
  BY DEF Manage, CreateWorkflow, UpdateWorkflow
<1>2. workflows' \in [Workflows -> Workflow \cup {Absent}] /\ edits' \in Nat
  BY <1>1 DEF EngineInv, TypeOK
<1>3. TypeOK'
  BY <1>1, <1>2 DEF EngineInv, TypeOK
<1>4. QED
  BY <1>1, <1>3, EngineStays

\* Every walk is gone and its run is left behind.
LEMMA CrashStep ==
    ASSUME EngineInv, Crash
    PROVE  EngineInv'
<1>1. /\ task' = [r \in Requests |-> Idle]
      /\ orphans' = orphans \cup {task[r].run : r \in {q \in Requests : Running(q)}}
      /\ up' = FALSE /\ crashes' = crashes + 1
      /\ UNCHANGED <<provider, workflows, runs, insight, edits>>
  BY DEF Crash
<1>2. Idle \in Task /\ Idle.pc = "idle"
  BY DEF Task, Idle
<1>3. \A r \in Requests : Running(r) => task[r].run \in RunIds
  BY TaskFields DEF EngineInv, Running
<1>4. TypeOK'
  <2>1. task' \in [Requests -> Task]
    BY <1>1, <1>2
  <2>2. orphans' \subseteq RunIds
    BY <1>1, <1>3 DEF EngineInv, TypeOK
  <2>3. crashes' \in Nat
    BY <1>1 DEF EngineInv, TypeOK
  <2>4. QED
    BY <1>1, <2>1, <2>2, <2>3 DEF EngineInv, TypeOK
<1>5. ASSUME NEW i \in RunIds PROVE OwnedRun(i)'
  <2>1. \A r \in Requests : ~Executes(r, i)'
    BY <1>1, <1>2 DEF Executes, Running
  <2>2. (i \in orphans') <=> i \in orphans \/ \E r \in Requests : Executes(r, i)
    BY <1>1 DEF Executes
  <2>3. StoredAsRunning(i)' <=> StoredAsRunning(i)
    BY <1>1 DEF StoredAsRunning
  <2>4. StoredAsRunning(i) <=> (\E r \in Requests : Executes(r, i)) \/ i \in orphans
    BY DEF EngineInv, OwnedRun
  <2>5. QED
    BY <2>1, <2>2, <2>3, <2>4 DEF OwnedRun
<1>6. \A r \in Requests : task'[r].pc # "walk"
  BY <1>1, <1>2
<1>7. QED
  BY <1>4, <1>5, <1>6 DEF EngineInv

\* EngineInv is an inductive invariant.
LEMMA EngineInvariant == Spec => []EngineInv
<1>1. Init => EngineInv
  <2> SUFFICES ASSUME Init PROVE EngineInv
    OBVIOUS
  <2>1. TypeOK
    <3>1. Idle \in Task
      BY DEF Task
    <3>2. 0 \in Insights
      BY EngineAssumption DEF Insights
    <3>3. [status : {"enabled"}, def : Definitions] \cup {Absent}
              \subseteq Workflow \cup {Absent}
      BY DEF Workflow
    <3>4. workflows \in [Workflows -> Workflow \cup {Absent}]
      BY <3>3 DEF Init
    <3>5. QED
      BY <3>1, <3>2, <3>4 DEF Init, TypeOK
  <2>2. \A i \in RunIds : OwnedRun(i)
    BY DEF Init, OwnedRun, StoredAsRunning, Executes, Running, Idle
  <2>3. \A r \in Requests : task[r].pc # "walk"
    BY DEF Init, Idle
  <2>4. QED
    BY <2>1, <2>2, <2>3 DEF EngineInv
<1>2. EngineInv /\ [Next]_vars => EngineInv'
  <2> SUFFICES ASSUME EngineInv, [Next]_vars PROVE EngineInv'
    OBVIOUS
  <2>1. CASE UNCHANGED vars
    <3>1. TypeOK'
      BY <2>1 DEF EngineInv, TypeOK, vars
    <3>2. QED
      BY <2>1, <3>1, EngineStays DEF vars
  <2>2. ASSUME Restart PROVE EngineInv'
    <3>1. TypeOK'
      BY <2>2 DEF EngineInv, TypeOK, Restart
    <3>2. QED
      BY <2>2, <3>1, EngineStays DEF Restart
  <2>3. ASSUME NEW r \in Requests, Proceed(r) PROVE EngineInv'
    BY <2>3, LoadStep, CreateStep, VisitStep, WalkEndsStep, PanicsStep, EndStep, EndLostStep,
       SaveStep, LabelStep DEF Proceed
  <2>4. QED
    BY <2>1, <2>2, <2>3, AskStep, LoadStep, ManageStep, CrashStep DEF Next
<1>3. QED
  BY <1>1, <1>2, PTL DEF Spec

\* The workflows, the runs and what the requests have in memory have the shapes that
\* engine.go gives them, whatever the nodes are and the models answer.
THEOREM EngineTypes == Spec => []TypeOK
<1>1. EngineInv => TypeOK
  BY DEF EngineInv
<1>2. QED
  BY <1>1, EngineInvariant, PTL

\* A run is stored as running exactly while one request executes it, or for ever when
\* that request crashed, panicked or could not store the end.
THEOREM EngineOwned == Spec => []RunningIsOwned
<1>1. EngineInv => RunningIsOwned
  <2> SUFFICES ASSUME EngineInv, NEW i \in RunIds
               PROVE  LET owners == {r \in Requests : Running(r) /\ task[r].run = i} IN
                      /\ (runs[i] # Absent /\ runs[i].status = "running")
                             <=> (owners # {} \/ i \in orphans)
                      /\ owners # {} => i \notin orphans
                      /\ \A r, q \in owners : r = q
    BY DEF RunningIsOwned
  <2>1. OwnedRun(i)
    BY DEF EngineInv
  <2>2. QED
    BY <2>1 DEF OwnedRun, Executes, StoredAsRunning
<1>2. QED
  BY <1>1, EngineInvariant, PTL

\* A walk keeps to the graph it was given: along edges, without executing a node
\* twice, MaxSteps nodes at most.
THEOREM EngineWalks == Spec => []WalkFollowsEdges
<1>1. EngineInv => WalkFollowsEdges
  BY DEF EngineInv, WalkFollowsEdges, GoodWalk
<1>2. QED
  BY <1>1, EngineInvariant, PTL

\* The insight of the product changes to that of the run that ended only, or back to
\* what ProductHandler.Analyze had read.
THEOREM EngineInsight == Spec => InsightIsKept
<1>1. EngineInv /\ [Next]_vars =>
        [insight' # insight =>
          \E r \in Requests :
             /\ task[r].pc = "saving"
             /\ task'[r] = Idle
             /\ insight' # task[r].run =>
                   task[r].call.kind = "analyze" /\ insight' = task[r].copy]_vars
  <2> SUFFICES ASSUME EngineInv, Next, insight' # insight
               PROVE  \E r \in Requests :
                         /\ task[r].pc = "saving"
                         /\ task'[r] = Idle
                         /\ insight' # task[r].run =>
                               task[r].call.kind = "analyze" /\ insight' = task[r].copy
    BY DEF vars
  <2>1. PICK r \in Requests : Save(r)
    BY DEF Next, Proceed, Manage, Ask, LoadFirst, LoadAsked, Load, Create, CreateFails, Visit,
           VisitFails, VisitPanics, Arrive, End, EndLost, SaveLost, Label, CreateWorkflow,
           UpdateWorkflow, Crash, Restart
  <2>2. task'[r] = Idle
    BY <2>1 DEF EngineInv, TypeOK, Save, Goto
  <2>3. QED
    BY <2>1, <2>2 DEF Save
<1>2. QED
  BY <1>1, EngineInvariant, PTL DEF Spec, InsightIsKept
=============================================================================

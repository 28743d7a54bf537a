# Cross_Border_Platform: TLA+ models and proofs

The repository is a Go backend for cross-border trade: purchasing, stock,
finance and an AI service, over MySQL (GORM), Redis and PostgreSQL. This
directory holds TLA+ modules translated from its source, TLC configurations
that check them on small instances, and TLAPS proofs of the most important
properties for every instance.

1. [The system](#1-the-system)
2. [The modules](#2-the-modules)
3. [What TLC checks](#3-what-tlc-checks)
4. [What is proved](#4-what-is-proved)
5. [Disagreements with the documentation](#5-disagreements-with-the-documentation)
6. [What is not modelled](#6-what-is-not-modelled)
7. [Plan](#7-plan)

To repeat the checks: `tlc -config <name>.cfg <module>` (the module of each
configuration is in section 3) and `tlapm <module>Proofs.tla`.

## 1. The system

Every HTTP request runs in a goroutine of its own. The one program (`cmd/server`) runs
everything as the gateway, or as a process of the AI or the RAG service beside it, as its role says.
Nothing is shared in memory between requests but the circuit breaker; they meet
in the databases and in Redis. Work that outlives its request is done by goroutines: the
hourly scan of the stock, the matching of bills at startup, the indexing of an uploaded document. The database guarantees that shape everything below are those
of InnoDB at REPEATABLE READ, as GORM v2 uses it:

- A plain SELECT reads a snapshot and takes no lock. The code asks for
  `FOR UPDATE` with the query option of GORM **v1**, which GORM v2 ignores.
- UPDATE and `Save` lock the row until the transaction ends and apply to the
  row as it is then, not to the copy that was read.
- What a transaction writes is visible to others when it commits.
- Auto-increment ids are handed out by the insert, before the commit.
- A cycle of waiting transactions is broken by rolling one back.

| Component | State | Operations | Meets | Hard behaviour | Correct when |
|---|---|---|---|---|---|
| Stock ledger (`handler/inventory.go`) | `inventories`, `inventory_movements`, `stock_alerts` | Adjust, Update, ResolveAlert; receiving an order | purchase orders, alert service: same tables | read, compute in memory, save the whole row; no lock on the read | never negative; movements form a ledger that ends in the stock |
| Purchase state machine (`purchase/state_machine.go`) | none: one machine per request | Fire, CanTransition | Transition, Receive | none by itself | one event at a time along the table |
| Purchase orders (`handler/purchase.go`) | `purchase_orders`, `purchase_status_logs`, `purchase_receives` | Create, UpdateOrder, Transition (+ handleReceive), Receive | stock ledger in one transaction | check on a copy, update by id; two ways to receive | life cycle followed, stocked once, log and history agree with the order |
| Inquiries and quotes (`handler/purchase.go`) | `purchase_inquiries`, `purchase_quotes` | Create, Delete, Close inquiry; CreateQuote, SelectQuote | each other | two UPDATEs per selection; deadlocks | one selected quote per inquiry, never none again |
| RAG client (`ai/rag_client.go`) | breaker in memory: state, failures, openedAt | Search, Health | RAG service; local search | late answers; no timer | trips, stays open for its time, recovers |
| Stock alerts (`inventory/service.go`) | `stock_alerts`, `messages`, `purchase_orders` | CheckAndTrigger: hourly and by API | orders, messages | deduplication by a set read at the start | one pending alert and one order per shortage |
| Messages (`handler/message.go`) | `messages` | list, MarkRead, MarkAllRead | read by the alert service for its deduplication | none by itself | a read message stays read |
| Bills (`finance/service.go`, `handler/finance.go`) | `bills`, `messages` | CreateBill, UpdateBill, MatchBill, PayBill, AutoMatch | orders, messages | batch over a stale list against single edits | decisions fit the amounts they were made on; a dispute is reported, once; a batch does not undo payments it could see |
| Workflow engine (`ai/engine.go`, `nodes.go`) | `ai_workflows`, `ai_workflow_runs`, the `ai_insight` of a product | create, update a workflow; run it by id or by code; AnalyzeProduct, Analyze, TriggerWorkflow | LLM, RAG search, database, products | a crash, a panic or a lost last write; cycles, step limit, edits during a walk; results written back over newer ones | a run is owned while it is stored as running, and ends; a walk keeps to the graph it began with |
| Scheduler (`ai/scheduler.go`) | running flag, stop channel | Start, Stop, tick, TriggerWorkflow | engine | - (main starts and stops it once) | a triggered run is marked as scheduled |
| RAG index (`ai/rag.go`, `vectorstore.go`, `reranker.go`) | `knowledge_documents` and their counts, `knowledge_chunks` with vectors, search cache | index, search | MySQL, PostgreSQL, Redis, three external services | no transaction across stores; parts that fail are passed over; stale answers in the cache | a ready document is there as a whole, vectors belong to their chunks, what can be found is not answered with nothing |
| AI endpoints (`handler/ai.go`) | - | upload, runs, searches, the scenes | engine, index | goroutines that outlive the request | a document is processing while somebody processes it |
| CRUD: users, suppliers, products, platforms, dashboard | one row at a time | create, update, delete, list | - | - | - |
| Infrastructure: config, database, logging, middleware, proxy, web, load test | - | - | - | - | - |

`PROJECT.json` lists the components with their sources, and under "hazards" the
places of this code that are hard to test, each with the property that covers it
or the reason why none does yet.

## 2. The modules

| Module | Models |
|---|---|
| `Inventory` | stock tables of one warehouse and the handlers that write them |
| `PurchaseFSM` | the transition table and its queries (no state) |
| `OrderLifecycle` | abstract specification: the status of an order follows the table |
| `PurchaseOrders` | order handlers, composed with `Inventory`; implements `OrderLifecycle` |
| `QuoteChoice` | abstract specification: submitting or selecting a quote takes one step |
| `InquiryQuotes` | inquiry sheets and quotes; implements `QuoteChoice` |
| `CircuitBreaker` | the remote RAG client and its breaker |
| `StockAlerts` | the alert service and its messages, composed with `Inventory` |
| `FinanceBills` | bills, matched with orders one by one and in batches, and the messages about disputes |
| `WorkflowEngine` | workflows, their runs and the walk over the graph of nodes |
| `Chunking` | how a text is cut into chunks (no state) |
| `DocumentIndex` | uploading, indexing and searching documents, on `Chunking` |
| `MCInventory`, `MCPurchaseOrders`, `MCInquiryQuotes`, `MCFinanceBills`, `MCWorkflowEngine`, `MCDocumentIndex` | instances for TLC |
| `*Proofs` | theorems and proofs |

A request is an element of `Requests`; what it has in memory between two
database statements is a record (`stx[r]`, `otx[r]`, `tx[r]`), with a `pc` that
says which statement comes next. Ids count up from what is in use.
An operator commented *Seeded fault* is not part of any specification: it is
the form a plausible mistake in the code would give the definition after it.
Putting it in place of that definition makes TLC report the property it is meant for
(`PROJECT.json`, "mutants"), which shows that the property depends on the code.

### Inventory

`rows[s]` are the committed rows of SKU `s` (a set: the table has no unique key),
`movements[s]` the movements, `alerts[s]` the number of pending alerts. A SKU
starts empty or with what `database/seed.go` gives it. One stock change is

    ReadStock  ->  SaveStock  ->  CommitStock

`ReadStock` is `First(&inv)` and the arithmetic; it waits for nobody. What it may read is `Lookup`: the row
with the smallest id, or nothing, because the code takes any error of the query for a missing row and goes on to insert one
beside those there are. `SaveStock` waits for the row, saves it and inserts the movement, which fixes the
movement's id; an insert waits for nobody. `CommitStock` publishes both. `Adjust` is `AdjustRead`,
`AdjustSave` and `AdjustCommit`, with its refusals as guards (no row and not an
inbound quantity; a negative result), and the alert row at or below the
safety stock, whose insert may fail unnoticed. `AdjustAbandon` is every
error return, lost connection or crash: the transaction is rolled back.
`Update` and `ResolveAlert` are single statements.

### PurchaseOrders

`orders[o]` has the status, the quantity and the history column. The quantity
stands for all the terms an edit can change. `logs[o]` are the status log
lines and `receipts[o]` counts the receive records. Reading an order
(`UpdateOrderRead`, `TransitionRead`, `ReceiveRead`) puts a copy and the decision made
from it into `otx[r]`. Later steps use the copy, as the code does: the row is
updated by id only. `TransitionUpdate` takes the row lock and inserts the log line;
the receive event goes on with the stock part (`HandleReceiveRead`,
`HandleReceiveSave`, on `Inventory`'s operators), and `TransitionCommit` publishes all
of it. An order is absent at first, or it is one of the seed data: at any stage (`SeedStages`), without a log line or a receipt,
and with a history item of other fields than the code's (`SeedItem`), which is read back without statuses and stays first in every
later history (`Seeded`). Its SKU then has the stock row of the seed data. `Receive` is the second way to receive goods: no log line, no stock, and
a status update whose error is ignored. `RaiseInquiry` is the one thing the
alert service does to orders. `reached[o]` is auxiliary: the statuses an
order has had.

### InquiryQuotes

`quotes[q]` is the column `selected`, or absent, or void (its insert was rolled back).
Submitting is insert, update of the inquiry, commit; selecting is an update of
the quote, an update of all others of the inquiry, an update of the inquiry, commit. The
second update is a range update over the index on `inquiry_id`: `SelectQuoteScan` locks
one quote at a time, and `SelectQuoteMark` finds none left and keeps the gap
closed to inserts. Two selections in one inquiry can wait for each other; `Rollback`
is then the victim's.

`QuoteChoice` is what the handlers promise: a quote is submitted and its inquiry sent in one step, and with a
selected quote all others of its inquiry are lost and the inquiry is closed in one step. The refinement
mapping shows a quote as it was committed and hides the transactions. The abstract `Delete` has no guard on the status, because
the code checks for a draft earlier than it deletes.

### CircuitBreaker

`allow`, `recordSuccess` and `recordFailure` run under the mutex and are one step
each; the HTTP call between them is not. `failures` is counted up to the
threshold, the only value the code compares it with, and `openedAt` is replaced by
the ticks left until `openDuration` has passed. `up` is the service: calls in progress when
it goes down are `doomed`. A doomed call may still succeed if the service is back
before it ends; a call the service was up for throughout does not fail.

### StockAlerts

A scan `a` is `ListLow` (the rows at or below their safety stock), `ScanLoad` (suppliers,
users to notify, unread messages), and for each row left a transaction, `Trigger` and
`TriggerCommit`. The rows the loop skips (unread, no supplier) are left out when the scan has loaded,
because what it decides by does not change any more. `ScanMisload` is a load with failed queries, whose errors
the code ignores; `TriggerFail` rolls one row back and goes on; `ScanEnd` is the
gateway stopping. `Trigger` has counted the pending alerts of the SKU when others may still add theirs; `TriggerMiscount` is a count that failed, whose
error is ignored too, so that what is pending is taken for none (`miscounts[s]`, auxiliary, counts these).
The stock tables are `Inventory`'s, with its handlers running beside the scans; the order a
scan raises is `raised[s]` here and `RaiseInquiry` in `PurchaseOrders`. `blind[a]` is auxiliary: the
SKUs with unread messages that scan `a` did not read, because they were written after it had loaded or because
loading failed. The tables of suppliers and products are not modelled: `supplied` does not change.

### FinanceBills

`bills[b]` has the status, the amount to pay, the difference and the two columns that name an order: `order`
(by id, used by MatchBill, never changed) and `orderNo` (by number, used by AutoMatch, changed by UpdateBill).
Creating, correcting and paying a bill are one statement each: bills are never deleted, and what PayBill
reads first it does not use. MatchBill is `MatchRead`, `MatchCompare`, `MatchWrite`; an order it cannot read, because there is none or because
the query fails, is worth zero (`Owed`). AutoMatch is `BatchList`
(the waiting bills, with their terms, and the users to notify, none if that query fails: `NotifyUserIDs`), and for each bill `BatchCompare` (its order), `BatchWrite`
and, if the difference is over the tolerance, `BatchTell`, a statement of its own whose failure (`BatchTellFail`)
is logged only. A bill whose order is not found is skipped: it is left out of the list, because the number of an order is
drawn when the order is created and cannot be on a bill before. `End` is the end of a
batch, the error return of any statement and the gateway stopping, which leaves the rest of the list waiting. The totals of orders change by
`UpdateOrder`; their status is left to `PurchaseOrders`, where any order can come back to the
status in which it may be edited.

Auxiliary: `outrun[r]` are the bills whose terms changed after request `r` had used them, `dirty` those whose terms
changed after the decision about them had used them, `paidSince[r]` those paid after `r` had read them, `excused`
those not disputed by AutoMatch or whose report failed, `misread` those MatchBill decided without an order. The difference the seed data invents for
disputed bills fits no order, so seeded bills start dirty and excused.

### WorkflowEngine

A request reads a workflow (`LoadFirst`; `Ask` and `LoadAsked` for Analyze, which has read the product before),
stores a run as running and parses the definition (`Create`), visits one node after the other (`Visit`, `VisitFails`),
and stores the end (`End`). `Arrive` is the end of `walkAndExecute`: nothing follows, the steps are used up or the node was executed
before, and each of the three is a success. What is read is kept in `task[r]`, so that an edit (`UpdateWorkflow`) reaches
only later runs. `Save` is what AnalyzeProduct and Analyze do with the result; `Label` is TriggerWorkflow marking the run it made.
`Calls` says who asks for what: `run` is RunWorkflow by id, `code` the two scenes by code.

A text is the set of the words in it that something is decided by, and a context (`Contexts`) says which keys there are and
what they hold. `Added` is what executing a node adds, for each of the eight types: the built-in provider
answers by the scene it recognises (`Scene`, `SceneAnswer`, `BuiltinQuery`), an external one gives any answer or none. Conditions on
edges (`Open`) and `sql_execute` (`Accepts`) decide by these words. TriggerWorkflow has no caller in the repository; it is modelled as the code gives it.

`EndLost` and `SaveLost` are writes that fail, of which nobody is told. `Crash` ends all walks; `VisitPanics` ends one, when the
search of a rag node reads the first of no results. `orphans` is auxiliary: the runs that were left running that way.
Tokens, cost, durations and versions are not modelled; the score of a product is stored with its insight and left out too.

### Chunking and DocumentIndex

`ChunkText` is translated as it counts: the length gathered so far in bytes, with a break that counts 1 when it is compared and 2 when it is
added, and the cuts of a long paragraph in characters. A text is a sequence of paragraphs, of which the model keeps both lengths and the words.

`Upload` creates the row and hands it to the goroutine `job[d]`, which goes through `Count`, `Load` (delete what was stored of the
document), `Embed`, one `Store` for each chunk, `StoreEnds`, `Vectors`, `Finish`. `StoreFails` passes over a chunk, `Vectors` may leave out any of
the vectors, `FinishFails` leads to `Fail`, and `LoadFails` and `FailLost` end with nothing stored. The n-th chunk *that was stored* gets
the n-th embedding (`Pairs`). Without PostgreSQL (`pg`) there are no vectors: the embedding is not asked for, and
the chunks go to MySQL, from where nothing searches them.

A search goes through the cache (`Hit`, `Miss`), `VectorSearch`, `Bm25Search`, `TfidfSearch` when neither found anything, `Rank` and
`SetCache`. A result is the document it is from. Scores and ranks are not modelled: a limit leaves some of what it is
given, and one at least (`Limited`). `Hash` gives queries their keys, two the same key if they collide; `Expire` may empty an entry at any time.
There is one knowledge base and one `topK`, which are parts of every key.

Auxiliary: `lost[d]` are the chunks whose insert failed, `orphans` the documents that were left as processing, and `sure` in a search the
documents that were ready when it began and have a word of its query.

## 3. What TLC checks

| Configuration (module) | Question | Properties |
|---|---|---|
| `orders_serial` (MCPurchaseOrders) | Is the system right when requests do not overlap? | `FollowsLifecycle`, `StockedOnce`, `HistoryMatchesLogs`, `LedgerContiguous`, `OldestRowMoves`, `TermsFrozen` |
| `orders_concurrent` (MCPurchaseOrders) | What survives two requests racing on one order and one SKU? | `StockNeverNegative`, `NewestMovementIsStock`, `ReceiptsAreStocked`, `NewestLogIsStatus`, `HistoryIsLegal` |
| `orders_receive` (MCPurchaseOrders) | What survives the direct receipt racing with transitions and adjustments? | `StagesAreEarned`, `SettledWasReceived`, `RequestsFinish` |
| `quotes` (MCInquiryQuotes) | Is selecting a quote safe, and does it end? | `AtMostOneSelected`, `SelectsAtOnce`, `NeverUnselected`, `SentIsQuoted`, `RequestsEnd` |
| `breaker` (CircuitBreaker) | Does the breaker trip, hold and recover? | `ClosedBelowThreshold`, `StaysOpen`, `Recovers`, `Trips` |
| `alerts` (StockAlerts) | What do overlapping scans repeat, and is a lasting shortage told? | `RaisedOnlyUnseen`, `NoiseBounded`, `PendingBounded`, `MessagesHaveOrders`, `Noticed` |
| `bills` (MCFinanceBills) | Are bills decided rightly, reported and not set back, whatever overlaps? | `DecidedRight`, `DisputeReported`, `ReportsBounded`, `PaymentKept` |
| `documents` (MCDocumentIndex) | Is a document indexed as a whole and found, whatever fails meanwhile? | `VectorsMatch`, `ReadyIsWhole`, `NeverBlank`, `ProcessingIsOwned` |
| `workflows` (MCWorkflowEngine) | Does a run keep to its graph, and end, whatever the graph and whatever overlaps? | `WalkFollowsEdges`, `RunningIsOwned`, `InsightIsKept`, `RunsEnd` |
| `stale_transition` (MCPurchaseOrders), `adjust_lost_update` (MCInventory), `half_open_probes` (CircuitBreaker) | Is it as documented? No: section 5 | one each |

The type invariants are proved (section 4) and are not repeated in the runs. The results fall into three groups.

*True of any interleaving.* Stock is never negative, although the check is made on
a copy that may be stale: what is saved is the checked value itself. The newest
movement and the newest log line agree with the tables, because both are inserted
under the row lock of the update they record. (Only an order of the seed data that nothing has moved has no line.) A receipt and its stock change are one transaction. No
stage is reached out of thin air; only the seed data puts orders at later ones. One quote is selected, at once with the loss of all others. Stock alerts repeat at most as often as scans
overlap and queries fail, and never for a message the scan had read. A bill is decided from
what it and its order said, or is known to have been outrun or to have been decided without an order; a dispute found by AutoMatch is reported, or its report failed
or nobody to report it to was found.
A walk follows the graph it began with, visits no node twice and ends; a run is stored as running exactly while one request executes it, and for
ever only when that request is gone or lost its last write. AnalyzeProduct never undoes an insight; Analyze can, and only with the one it had read.
A ready document is in the index except for the chunks whose insert failed; vectors belong to their chunks except after such a failure; an empty answer
to a search is never a matter of what failed, was cached or was indexed meanwhile.

*True one request at a time only.* The life cycle is followed, an order is
stocked once, the ledger is contiguous, only the oldest row of a SKU moves, terms are frozen once an order is placed, history
and log tell the same story. A failed lookup breaks none of these: the row it inserts beside another keeps its one movement and is never
found again. Each of these rests on a read that two requests
can make at the same time.

*False.* Section 5.

### Bounds

| Bound | Value | Why it is enough |
|---|---|---|
| `Requests` | 1 in `orders_serial`, 2 elsewhere, 3 in `quotes` and `breaker` | every race in the handlers is between a reader and one writer; three selections can deadlock in a ring, and three searches can be late, probing and refused |
| `Orders`, `Skus` | 1 | orders meet in the stock of a SKU only, and adjustments already meet an order there |
| `Quotes` | 3 | one selected, one marked, one submitted meanwhile |
| `SeedStages` | all seven in `orders_serial`, shipped in `orders_concurrent` and `stale_transition`, reconciling in `orders_receive` | the stages the seed data uses. A shipped order can be received or cancelled at once by racing requests, one being reconciled settled without a receipt. An order can also be absent first |
| `MaxLogs` | 5 in `orders_serial` and `stale_transition`, 2 in `orders_concurrent`, 3 in `orders_receive` | a transition *starts* while fewer lines are committed. 5 reach cancel, reopen, order, receive, and settlement. With 2, two requests race to transition an order that was created, and a third transition meets the second of a seeded one, which has no line at first. 3 take an order received directly to settlement. The same bound limits direct receipts |
| `MaxAdjusts` | 1, 2 in `orders_concurrent` and `adjust_lost_update` | adjustments booked or under way: two of them race in `orders_concurrent`, and one meets a receipt in `orders_receive`, where it holds the stock row the receipt waits for |
| `MaxIds` | 9 in `orders_serial` and `stale_transition`, 6, 4, 5 and 3 elsewhere | a request that inserts starts while an id is left for each request (`RoomForAll`), so that none is stopped half-way |
| `Quantities` | -1, 1; 1; 3 | a loss and a gain around zero; a gain in `orders_receive`; 3 in `alerts`, which ends the shortage. What scans do to two rows of a SKU that are both low is left to the proofs |
| `SeedQtys`, `Thresholds` | 0, 1; 0 or 2 | an empty, a low and a missing row, with a threshold or without one (then no alert is raised) |
| `OrderQtys` | 1, 2 in `orders_serial` | two values let an edit change the terms |
| `Scanners`, `Users` | 2, 2 | the hourly scan and a requested one; one user has read what the other has not |
| `MaxRaised`, `MaxMisreads` | 2, 1 | a scan starts while no SKU has two orders, so there is a raise, a reading, a second raise and the ones that overlap; one query that fails, for the deduplication or for the pending alerts |
| `Bills`, `Orders` | 1, 1 in `bills` | a batch treats its bills one by one and nothing relates two bills; a bill names the order by id, by number, by both or by neither. The proofs are for any number |
| `Amounts`, `Tolerance` | 1, 2, 4; 1 | differences of zero, within and over the tolerance, of either sign |
| `MaxEdits` | 1 | a correction of the bill or of its order, at any point of two requests |
| `Requests`, `MaxRuns`, `Workflows` | 2, 2, 1 in `workflows` | two requests meet in the row of the workflow, the next number of a run and the product; a run that is over still counts, so a third request can only fail to store its own |
| `MaxSteps` | 3 in `workflows` | the code's is 50. The graph of five nodes has walks that end for each reason: nothing follows, a node again, the limit, a node that is missing, one that fails |
| `MaxEdits`, `MaxCrashes` | 1, 1 | an edit or a crash at any point of two requests. Workflows start present or absent, so the edit can be a creation |
| `DocIds`, `Searches`, `MaxCrashes` | 2, 1, 1 in `documents` | documents meet in searches only, and searches in the cache, which one search after another fills and reads |
| `ChunkSize`, `Overlap` | 5, 2 | the code's are 500 and 50. Of the three texts one fills a chunk to the limit and begins another, one is cut with an overlap, one is empty |
| `FailureThreshold`, `OpenDuration` | 2, 2 | a count that is neither empty nor full, and a time that is neither over nor whole (the code's are 5 and 30 s) |

`Operations` says which endpoints the clients use. `orders_concurrent` leaves out the direct
receipt, which changes a status without a log line and books a receipt without stock, so that
`NewestLogIsStatus` and `ReceiptsAreStocked` are false of it by design. `orders_receive`
leaves out edits, which take no lock that outlives their statement. Deadlock is not checked where a bound on log
lines, quotes or ids stops the system; in `breaker`, `bills`, `documents` and `workflows` it is. In `bills` requests are interchangeable
and every property is one of safety, so the run uses symmetry; in `documents` the documents are.

### Fairness

- `PurchaseOrders`, `InquiryQuotes`: strong fairness of `Proceed(r)` for each request, in `PurchaseOrders` of the
  save and the commit of an adjustment too. A
  goroutine is scheduled, and InnoDB grants a row lock to its waiters in turn, so a
  step that becomes possible again and again is taken. No request is assumed
  to arrive.
- `InquiryQuotes`: weak fairness of the rollback of a deadlocked selection (InnoDB
  detects deadlocks at once).
- `StockAlerts`: weak fairness of the start of the hourly scan (the ticker), and strong fairness of its
  load, its transactions and their commits: no failure strikes at the same place every time. Nothing is
  assumed of requested scans and of readers. `Noticed` carries as premises that the shortage lasts, that there is a supplier
  and somebody to tell, and that the bound `MaxRaised` is not reached.
- `WorkflowEngine`: weak fairness of what a request does once it was made. The goroutine is scheduled, and every call it makes ends with an answer
  or an error (the HTTP clients have timeouts). Nothing is assumed of restarts, edits and new requests; `RunsEnd` allows for the runs in `orphans`.
- `DocumentIndex`: none. Its properties are all of safety, and the goroutine has no deadline that would justify more.
- `CircuitBreaker`: weak fairness of the clock, of the end of each call (the HTTP client has a
  timeout) and of new searches, without which a breaker driven by searches alone
  would stay open for ever. Nothing is assumed of the service: `Recovers`
  and `Trips` carry "eventually always up" or "down" as their premise.

## 4. What is proved

For every value of the constants, and checked by `tlapm` down to the last step:

| Theorem | States |
|---|---|
| `InventoryNeverNegative`, `InventoryNewestMovement` | the stock invariants under `StockSpec` |
| `SerialOldestRow`, `SerialLedger` | `OldestRowMoves` and `LedgerContiguous` under `StockSpec`, assuming a single request |
| `PurchaseNeverNegative`, `PurchaseNewestMovement` | the same for orders and adjustments together |
| `PurchaseTypes`, `PurchaseStagesAreEarned`, `PurchaseSettledWasReceived`, `PurchaseHistoryIsLegal` | of `PurchaseOrders`, for any number of requests |
| `PurchaseNewestLog`, `PurchaseReceiptsAreStocked` | the newest log line states the status, and receipts and stock movements agree, assuming `"receive" \notin Operations` |
| `SerialFollowsLifecycle` | `Spec` implements `OrderLifecycle`, assuming a single request |
| `SerialOrdersOldestRow`, `SerialOrdersLedger`, `SerialStockedOnce`, `SerialTermsFrozen`, `SerialHistoryMatches` | what else holds of orders and stock one request at a time, assuming a single request |
| `QuotesTypes`, `QuotesAtMostOneSelected`, `QuotesSentIsQuoted`, `QuotesNeverUnselected`, `QuotesSelectAtOnce` | all safety properties of `InquiryQuotes`; the last, that it implements `QuoteChoice` |
| `AlertsTypes`, `AlertsRaisedOnlyUnseen`, `AlertsMessagesHaveOrders`, `AlertsPendingBounded`, `AlertsNoiseBounded` | all safety properties of `StockAlerts` |
| `BillsTypes`, `BillsDecidedRight`, `BillsDisputeReported`, `BillsReportsBounded`, `BillsPaymentKept` | all properties of `FinanceBills` |
| `EngineTypes`, `EngineWalks`, `EngineOwned`, `EngineInsight` | all safety properties of `WorkflowEngine` |
| `IndexTypes`, `IndexOwned`, `IndexVectors`, `IndexNeverBlank`, `IndexReadyIsWhole` | all properties of `DocumentIndex`, and with the last what `ChunkText` promises of any text |
| `BreakerTypes`, `BreakerClosedBelowThreshold`, `BreakerStaysOpen` | all safety properties of `CircuitBreaker` |

The assumptions are the ones the modules state of their constants
(`InventoryAssumption`, `PurchaseAssumption`, `QuotesAssumption`, `AlertsAssumption`, `BillsAssumption`, `BreakerAssumption`,
`EngineAssumption`, `ChunkingAssumption`, `IndexAssumption`). The last says of texts that a character takes at least one byte, as in UTF-8.

Two hypotheses are part of theorems. *A single request* (`Requests = {only}`: only one is at work at a time, and any number may follow each other)
is what the properties need that rest on a read, section 3: with two, TLC finds a ledger with a gap (`adjust_lost_update`) and an order
off its life cycle (`stale_transition`). *Without the direct receipt* (`"receive" \notin Operations`): that endpoint books a receipt without stock and
changes a status without a log line, so that the two theorems with this hypothesis are false of a system that uses it. All other theorems hold for any `Operations`.

*Stock.* `StockMove` is what any step, of an adjustment or of an order, may do to the stock
tables: read a non-negative result, save, commit, abandon, or manage. The
invariants are proved of `StockMove` once, and each system is shown to make only such
moves. `NeverNegativeInv` adds to `StockNeverNegative` that an open transaction
holds a non-negative result. `LedgerInv` adds to `NewestMovementIsStock` that at most one transaction has saved
a row (`OneSaver`), that its movement id is above all committed ones (`SaverIsNewest`), and
that movements belong to rows that exist or are being inserted (`MovementsHaveRows`). `BookingInv` is about identity: the movement ids
held by open transactions are not booked and differ from each other (`SaverIdsFresh`), the ids of rows are unique, and the tables are finite, so that a
commit adds exactly one movement. The properties that count movements rest on it.

*One request on the stock.* `SerialInv` adds that what the open transaction has in memory is the oldest row as it still is, or a zero row that is inserted with an id
above all others, whether there was no row or the lookup failed (`CopyIsCurrent`): the movement it commits then begins where the last one of the oldest row ended, or is the first and,
while there is an older row, the last one of its own.

*Stages.* `EarnedInv` carries the property over the gap between read and write: the status an
open transition leads to is an edge away from a status the order has had. It need not
be the current one, and that is what makes the property true under races. `SettledWasReceived`
follows from the edges into `settled` and `reconciling`. `SeedInv` carries through every step, and through the copies requests hold, what tells a seeded order: the first item of its history. Such an
order begins at the stage the seed data put it at and is excepted from the second property; every status after that is earned as in any other.

*Log.* The newest log line, and the line a transition holding the order has inserted above it,
are what the invariant is about; the row lock makes the holder unique. A seeded order has no line until its first transition commits one, and no other status until then.

*Receipts.* `StockWork` ties the two halves of a receiving transaction together: while the request has read or saved stock for an order, it is
in the receive transition of that order, and every other stock transaction is an adjustment. A commit therefore adds one movement for the order
and one receipt, or neither.

*History.* `WorkOnTable`: the decision of an open transition is a line of the table, for the status it read. Since a commit appends to the history that was
*read* and writes it whole, the invariant (`LegalInv`) is stated of the copies as well as of the orders. The item of the seed data stays the first one.

*Life cycle.* With one request, what it read is the row as it still is, in all its fields (`NothingStale`), so each commit
is a step of the abstract system; every other step is a stutter. `SerialTermsFrozen` follows from the same invariant.
`StockedInv`: an order that was stocked was stocked by one movement and is past its receipt, from where no event leads out and where none receives (`NoWayBack`).
`HistoryInv`: the line an open transition has inserted has the highest id (`LineIsNext`), and the history *matches* the lines: its i-th entry has
the target of the line with i lines before it; in a seeded order, with an item more and a line less, that with i - 2 (`Shift`). The rank of a line is a cardinality, and so the property needs neither a sorted sequence nor a recursion.

*Quotes.* `QuotesInv` is the types, that a quote being inserted is absent (`InsertsAreFresh`), that a selection marks only
quotes of its inquiry (`MarksOwnInquiry`) and, once past the scan, has all of them while nobody inserts another
(`MarksAreAll`), and the two invariants themselves. Each commit is then a step of `QuoteChoice`: what a selection has marked is
exactly the abstract `Rivals` (`SelectionAtOnce`), an inserted quote was not visible before (`SubmitsAtOnce`), an inquiry to be deleted exists
(`DeletesKnown`), and every other step is unseen (`RequestUnseen`).

*Alerts.* `BlindInv`: a SKU that a scan still works on and that somebody has an unread message about is in the scan's
blind spot, and the row of an open transaction is one the scan works on. `PendingInv` counts with the alerts of a SKU the scans that are in a
transaction which will add one (`Owing`): together they never exceed the scans there are and the adjustments committed, because a scan adds itself only
while nothing is pending, or in place of the failed count that is added to `miscounts` (`TriggerCounts`), and there are no more scans than that. `NoiseInv` counts with the messages of a user the rows that scans have still to do (`Due`): a scan
puts rows ahead of it only when it has read that there is no message, or has failed to, and each message takes the row from the scan that wrote it.

*Bills.* `TypeInv` adds to the types that no request works on a missing bill (`NamedExist`). `PaymentInv`: a paid bill a batch
has still to write was paid since the batch read it. `ReportInv`: an undecided bill has no report, and the
reports of a bill and the requests that may still report it (`Holding`) together never exceed the
requests there are; a report moves one from the second to the first. `AllFaithful`: a request that was not outrun
holds the terms of the bill as they are, and a difference computed from them, or from zero when it could not read the order.

*Workflows.* `EngineInv` is the types, the two state properties for each run and each walk. A run gets a number that no row has, so that the request that
stores it is its only owner; every other step keeps what a request executes, or gives it up together with the row's status or into `orphans`
(`SameOwners`, `Leaves`, `GivesUp`). A walk goes only along edges of its own copy (`FollowsEdge`), by the node it is at, which is not yet in its path (`VisitExtends`).

*Documents.* `IndexInv` adds to the types, for each document, that a goroutine in the middle of storing has given its chunks the numbers in order, or lost
one before (`InOrder`), and that nothing is lost before the first insert; for each search, that what it is sure of stays findable, because a ready document stays as it is
(`ReadyStays`), and that what it ranks is not empty; and that nothing empty is cached (`CacheHolds`). `Whole` says of each document how far it
is stored: nothing before the first insert, then all chunks below the next one, in the end all there are.

*Chunks.* `ChunksHold` is what `ChunkText` computes for every text. Its recursive functions are reasoned about by their equations: a function with such
equations exists (`RecursionExists`), so that the one the definition names has them, and a set that holds 0 and with each number the next one goes up to n
(`UpTo`, from the well-foundedness of the naturals). The invariant of the recursion is `Splitting`: after p paragraphs each of their characters is in a chunk or gathered
for the next, the length that is counted is at least the one in characters and at most `ChunkSize + 1`, and nothing gathered means nothing counted. A finished chunk has at most `MostChars`: `ChunkSize`
characters if it is one piece, and one more only if it is of several paragraphs.
`CutsHold` is the arithmetic of a paragraph that is cut: the pieces overlap, begin at multiples of `ChunkSize - Overlap` and reach the end.

Only model-checked:

- liveness (`RequestsFinish`, `RequestsEnd`, `Noticed`, `Recovers`, `Trips`, `RunsEnd`): fairness and
  ENABLED are outside what the prover handles.

All invariants and action properties of the passing runs are proved.

## 5. Disagreements with the documentation

| Run | Documentation | Code |
|---|---|---|
| `adjust_lost_update` | `handler/inventory.go:102`, `:113` and `docs/api.md:213`: an atomic operation, under a row lock | the lock option is one GORM v2 ignores; the second of two adjustments overwrites the first and its movement starts from a quantity the stock no longer has |
| `stale_transition` | `state_machine.go:28`, `docs/architecture.md:78`: the legal paths of an order | the event is checked against a status read before the transaction; two transitions that read the same one both apply |
| `half_open_probes` | `rag_client.go:23`: a half-open breaker lets one probe through | it lets every search through |

Seen while modelling, without a run of their own:

- A status log line has `from_status` = `to_status`: `Updates` writes the new status into the struct
  before the line is built from it (`purchase.go:510-524`; `TransitionLog` models it). The
  answer of the endpoint names the new status twice for the same reason (`:542-543`).
- An order in received, qc or reconciling cannot be cancelled (`state_machine.go:39`), although
  `docs/architecture.md:80` and `docs/api.md:201` say that any active status can.
- The error of `tx.Commit` is not looked at: a handler whose commit failed answers with success.
- The direct receipt changes the status of an order without a status log line, although `docs/architecture.md:87` says that every
  change is recorded. `NewestLogIsStatus` is therefore stated without it.
- `rag.go:360` says that one word of a query is enough for BM25; `buildTSQuery` (`:429`) joins the words by "and". `WithAllWords` models the code.
- `ChunkSize` is the greatest number of characters of a chunk (`rag.go:483`), but a chunk is closed by its bytes (`:520`): for Chinese text chunks have a third of that.
- A chunk of several paragraphs can have `ChunkSize` + 1 characters: the break between them counts one when it is compared (`rag.go:520`) and two when it is added
  (`:539`). Paragraphs of 250 and 249 ASCII characters make a chunk of 250 + 2 + 249 = 501. `MostChars` says when, and `ReadyIsWhole` allows it there only.
- Any error of the query for a stock row is taken for "not found" (`inventory.go:117`, `purchase.go:557`): a failed query inserts a second row for a SKU that has one.
- The error of the count of pending alerts (`inventory/service.go:171`) is ignored, and so is that of the query for the users to notify (`finance/service.go:101`);
  MatchBill compares with zero whenever it cannot read the order (`handler/finance.go:172`).
- Two queries the built-in provider gives (`llm.go:625`, `:633`) are refused by `sql_execute`, because `deleted_at` contains DELETE (`nodes.go:339`).
- `Search` panics when the ranking service answers with no document (`rag.go:212`; `RankPanics`, `VisitPanics`).
- UpdateWorkflow without a status stores an empty one, and the workflow is no longer found by its code (`handler/ai.go:175`).

## 6. What is not modelled

- The rebuild of the stock at a start in development mode (`database/seed.go:30-76`): when fewer than three warehouses have stock, or most pending alerts are of
  empty stock, it deletes all alerts, movements and stock rows and creates those of the seed data again. Receipts and orders stay, so that
  `ReceiptsAreStocked` does not hold across it; the models start after it.
- Several warehouses (stock is per warehouse, and receiving uses the first one), locked
  and in-transit quantities (no handler writes them), moving stock between SKUs by
  editing an order's SKU (the quantity stands for all the terms).
- List and detail endpoints, which only read.
- Numbers of orders and messages, texts, paid amounts.
- `BatchIndexDocuments`, which nothing calls. Unlike what `rag.go:669` says, a document that fails does disturb the others there: a chunk that cannot be
  inserted shifts the embeddings of all documents after it.
- `InMemoryVectorStore` and `MilvusStore`, which only tests create.
- The scheduler's Start, Stop and tick: `main` starts and stops it once, and the tick only logs.
- Prompt templates and knowledge bases (rows nothing else reads), scores, the words of answers, the contents of vectors, and how long things take.
- The components marked `not_modelled` in `PROJECT.json`, with the reason there: CRUD of one row at a time,
  stateless calls to external services, parsing, configuration, the web front end.

## 7. Plan

In the order of what matters most to the system.

| Step | Module | State |
|---|---|---|
| 1 | `Inventory`, `PurchaseFSM`, `OrderLifecycle`, `PurchaseOrders` and their proofs | done |
| 2 | `InquiryQuotes` and its proofs | done |
| 3 | `CircuitBreaker` and its proofs | done |
| 4 | `StockAlerts`, on `Inventory`, and its proofs | done |
| 5 | `FinanceBills` and its proofs | done |
| 6 | `WorkflowEngine` and its proofs | done |
| 7 | `Chunking`, `DocumentIndex` and its proofs | done |
| 8 | Proofs of the remaining invariants: one request at a time, receipts and history of orders, the bounds of `StockAlerts`, what `ChunkText` computes | done |
| 9 | `QuoteChoice` and the refinement of `InquiryQuotes` into it | done |
| 10 | Refinement of `WorkflowEngine` into the life of a run | later |

The abstract specification worth stating beside `OrderLifecycle` and `QuoteChoice` is the life of a
workflow run: running, then ended once and for all.

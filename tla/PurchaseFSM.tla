---------------------------- MODULE PurchaseFSM ----------------------------
(***************************************************************************)
(* The transition table of a purchase order                                *)
(* (application/purchase/state_machine.go) and the queries made on it.     *)
(* Constant-level: the orders themselves are in PurchaseOrders.            *)
(***************************************************************************)

\* The status column of an order that does not exist, and of the log line
\* that records its creation.
NoStatus == ""

AllStates == {"inquiry", "quoting", "ordered", "tracking", "shipped", "received",
              "qc", "reconciling", "settled", "cancelled"}

\* The statuses the seed data gives its orders (database/seed.go).
SeedStatuses == {"inquiry", "quoting", "ordered", "shipped", "received", "reconciling", "settled"}

stateTransitions ==
    { [name |-> "inquire",      src |-> {NoStatus},                           dst |-> "inquiry"],
      [name |-> "quote",        src |-> {"inquiry"},                          dst |-> "quoting"],
      [name |-> "select_quote", src |-> {"quoting", "inquiry"},               dst |-> "ordered"],
      [name |-> "order",        src |-> {"quoting", "inquiry"},               dst |-> "ordered"],
      [name |-> "ship",         src |-> {"ordered"},                          dst |-> "shipped"],
      [name |-> "receive",      src |-> {"ordered", "shipped", "tracking"},   dst |-> "received"],
      [name |-> "qc",           src |-> {"received"},                         dst |-> "qc"],
      [name |-> "reconcile",    src |-> {"qc", "received"},                   dst |-> "reconciling"],
      [name |-> "settle",       src |-> {"reconciling"},                      dst |-> "settled"],
      [name |-> "cancel",       src |-> {"inquiry", "quoting", "ordered", "tracking", "shipped"},
                                                                              dst |-> "cancelled"],
      [name |-> "reopen",       src |-> {"cancelled"},                        dst |-> "inquiry"] }

AllEvents == {t.name : t \in stateTransitions}

\* sm.CanTransition(e) of a machine made for status "from".
CanTransition(from, e) == \E t \in stateTransitions : t.name = e /\ from \in t.src

\* One step of the life of an order, by whichever event.
Edge(from, to) == \E t \in stateTransitions : from \in t.src /\ t.dst = to

=============================================================================

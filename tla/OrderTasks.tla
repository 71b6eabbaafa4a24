----------------------------- MODULE OrderTasks -----------------------------
(***************************************************************************)
(* What happens to an order outside the API: the tasks of orders/tasks.py, *)
(* the beat schedule of config/celery.py, and the administrator's actions  *)
(* (orders/admin.py).  The orders have been placed by the API, which took  *)
(* their pieces from the stock.  process_order_confirmation is one         *)
(* transaction under the locks of module Store; update_order_status reads  *)
(* and saves in autocommit mode.  A task has one letter here, for the      *)
(* buyer; the administrator's takes the same way.                          *)
(***************************************************************************)
EXTENDS Store, Mail, FiniteSetsExt

CONSTANTS
    Tasks,      \* the tasks that may be queued, each once; each may run in a
                \* worker of its own
    Callable,   \* those that are sent by name, by an operator
    Calls,      \* what is sent by name: "process" or "update"
    FirstOrder, \* orders_order, orders_orderitem and products_productinfo
    FirstItem,  \* when the run starts
    FirstInfo

Pending == "pending_notification"

\* The column is free text: save() does not look at STATE_CHOICES.
TaskStates == States \cup {Pending}

\* A row of orders_order, then.
SavedRow == [user : Users, state : TaskStates, contact : Contacts \cup {NoRow}]

ASSUME TasksAssumption ==
    /\ Letters = Tasks
    /\ Tasks \subseteq Connections
    /\ Callable \subseteq Tasks
    /\ Calls \subseteq {"process", "update"}
    /\ NoRow \notin SavedRow

\* The tables as the API leaves them (Integrity of module Checkout).
ASSUME FirstTablesAssumption ==
    /\ FirstOrder \in [OrderIds -> OrderRow \cup {NoRow}]
    /\ FirstItem \in [ItemIds -> ItemRow \cup {NoRow}]
    /\ FirstInfo \in [InfoIds -> InfoRow \cup {NoRow}]
    /\ \A k \in ItemIds : FirstItem[k] # NoRow =>
          /\ FirstOrder[FirstItem[k].order] # NoRow
          /\ FirstInfo[FirstItem[k].info] # NoRow

VARIABLES
    place,  \* task -> where it stands
    job     \* task -> its arguments and local variables

tasks    == <<place, job>>
taskVars == <<tables, locks, post, tasks>>

TaskInit ==
    /\ order = FirstOrder /\ nextOrder = MaxOrders + 1
    /\ item = FirstItem /\ nextItem = MaxItems + 1
    /\ info = FirstInfo
    /\ contact = [c \in Contacts |-> "live"]
    /\ accepting = [s \in Shops |-> TRUE]
    /\ shared = {} /\ reserved = {}
    /\ MailInit
    /\ place = [t \in Tasks |-> "unused"]
    /\ job = [t \in Tasks |-> NoRow]

----------------------------------------------------------------------------
(* Queueing. *)

Move(t, where, what) ==
    /\ place' = [place EXCEPT ![t] = where]
    /\ job' = [job EXCEPT ![t] = what]

Done(t) == Move(t, "done", NoRow)

\* process_order_confirmation.delay or update_order_status.delay, from a
\* shell: no view of the service calls them.
SendTask(t, o, call) ==
    /\ t \in Callable /\ place[t] = "unused"
    /\ Move(t, call, [order |-> o])
    /\ UNCHANGED <<tables, locks, post>>

\* retry_failed_order_notifications, every 5 minutes.
RetryFailed(t, o) ==
    /\ place[t] = "unused"
    /\ order[o] # NoRow /\ order[o].state = Pending
    /\ Move(t, "process", [order |-> o])
    /\ UNCHANGED <<tables, locks, post>>

----------------------------------------------------------------------------
(* process_order_confirmation. *)

TaskLines(o) == [p \in InfoIds |-> Quantity(o, p)]
TaskStock == [p \in InfoIds |-> IF info[p] = NoRow THEN 0 ELSE info[p].quantity]

\* Mutated: the stock is read before the transaction begins.
ReadsOutside(t) == UNCHANGED shared

Opens(t) == shared' = shared \cup {t}

\* Mutated: the stock is not checked.
NotEmpty(o) == Rows(o) # {}

\* The order has rows and the stock covers them; its state is not looked at.
Processable(o) ==
    /\ Rows(o) # {}
    /\ \A k \in Rows(o) : item[k].quantity <= info[item[k].info].quantity

\* The reads of the task; an error is its result.  The row of the order may
\* come from the cache, with an older state, which is the one column that
\* changes once an order is placed and which the task overwrites.
ProcessRead(t) ==
    LET o == job[t].order IN
    /\ place[t] = "process"
    /\ IF order[o] # NoRow /\ Processable(o)
       THEN /\ Opens(t)
            /\ Move(t, "write",
                    [order |-> o, row |-> [order[o] EXCEPT !.state = "confirmed"],
                     lines |-> TaskLines(o), seen |-> TaskStock])
       ELSE Done(t) /\ UNCHANGED shared
    /\ UNCHANGED <<tables, reserved, post>>

\* Its writes; the letter is queued before the commit.
ProcessWrite(t) ==
    /\ place[t] = "write"
    /\ CanUpgrade
    /\ reserved' = {t}
    /\ Queue(t)
    /\ Move(t, "commit", job[t])
    /\ UNCHANGED <<tables, shared, resends>>

\* The stock it writes: what it read less what the order holds.
Taken(l) ==
    [p \in InfoIds |-> IF l.lines[p] = 0 THEN info[p]
                       ELSE [info[p] EXCEPT !.quantity = l.seen[p] - l.lines[p]]]

ProcessCommit(t) ==
    LET l == job[t] IN
    /\ place[t] = "commit"
    /\ CanCommit(t)
    /\ order' = [order EXCEPT ![l.order] = l.row]
    /\ info' = Taken(l)
    /\ EndTransaction(t)
    /\ Done(t)
    /\ UNCHANGED <<nextOrder, items, contact, accepting, post>>

\* The database is locked, the broker is lost, perhaps between the buyer's
\* letter and the administrator's, or the worker dies: nothing is written.
ProcessFail(t) ==
    /\ place[t] \in {"write", "commit"}
    /\ EndTransaction(t)
    /\ Done(t)
    /\ UNCHANGED <<tables, post>>

----------------------------------------------------------------------------
(* update_order_status. *)

UpdateRead(t) ==
    LET o == job[t].order IN
    /\ place[t] = "update"
    /\ IF order[o] = NoRow THEN Done(t)
       ELSE Move(t, "save", [order |-> o, row |-> order[o]])
    /\ UNCHANGED <<tables, locks, post>>

\* Mutated: the foreign key of an order to its address is not checked.
NoKeyBroken(row) == TRUE

\* The address of the row exists.
KeysHold(row) == row.contact # NoRow => contact[row.contact] = "live"

\* save(): UPDATE every column, or INSERT a row that is gone.
UpdateSave(t) ==
    LET l == job[t] IN
    /\ place[t] = "save"
    /\ CanWrite
    /\ \E state \in TaskStates :
          order' = IF KeysHold(l.row)
                   THEN [order EXCEPT ![l.order] = [l.row EXCEPT !.state = state]]
                   ELSE order
    /\ Done(t)
    /\ UNCHANGED <<nextOrder, items, goods, contact, locks, post>>

UpdateFail(t) ==
    /\ place[t] = "save"
    /\ Done(t)
    /\ UNCHANGED <<tables, locks, post>>

----------------------------------------------------------------------------
(* The administrator, and the buyer's deletion of an address. *)

\* mark_as_confirmed and mark_as_delivered: one UPDATE of the orders chosen.
Mark(chosen, state) ==
    /\ CanWrite
    /\ order' = [o \in OrderIds |-> IF o \in chosen /\ order[o] # NoRow
                                    THEN [order[o] EXCEPT !.state = state]
                                    ELSE order[o]]
    /\ UNCHANGED <<nextOrder, items, goods, contact, locks, post, tasks>>

\* The admin's deletion of an order, and the rows with it.
DeleteOrder(o) ==
    /\ CanWrite
    /\ order[o] # NoRow
    /\ order' = [order EXCEPT ![o] = NoRow]
    /\ item' = [k \in ItemIds |-> IF k \in Rows(o) THEN NoRow ELSE item[k]]
    /\ UNCHANGED <<nextOrder, nextItem, goods, contact, locks, post, tasks>>

\* An address is deleted with the orders sent to it (module Checkout).
ForgetAddress(c) ==
    LET sentTo == {o \in OrderIds : order[o] # NoRow /\ order[o].contact = c} IN
    /\ CanWrite
    /\ contact[c] = "live"
    /\ contact' = [contact EXCEPT ![c] = "deleted"]
    /\ order' = [o \in OrderIds |-> IF o \in sentTo THEN NoRow ELSE order[o]]
    /\ item' = [k \in ItemIds |-> IF \E o \in sentTo : k \in Rows(o)
                                  THEN NoRow ELSE item[k]]
    /\ UNCHANGED <<nextOrder, nextItem, goods, locks, post, tasks>>

----------------------------------------------------------------------------

Work(t) ==
    \/ ProcessRead(t) \/ ProcessWrite(t) \/ ProcessCommit(t) \/ ProcessFail(t)
    \/ UpdateRead(t) \/ UpdateSave(t) \/ UpdateFail(t)

Beat == \E t \in Tasks, o \in OrderIds : RetryFailed(t, o)

TaskNext ==
    \/ \E t \in Tasks : Work(t)
    \/ \E t \in Tasks, o \in OrderIds, call \in Calls :
          SendTask(t, o, call)
    \/ Beat
    \/ \E chosen \in SUBSET OrderIds, state \in {"confirmed", "delivered"} :
          Mark(chosen, state)
    \/ \E o \in OrderIds : DeleteOrder(o)
    \/ \E c \in Contacts : ForgetAddress(c)
    \/ MailNext /\ UNCHANGED <<tables, locks, tasks>>

TaskSpec == TaskInit /\ [][TaskNext]_taskVars

\* The workers work.
TaskFairness ==
    /\ \A t \in Tasks : WF_taskVars(Work(t))
    /\ \A l \in Letters :
          WF_taskVars((Render(l) \/ SendEmail(l))
                      /\ UNCHANGED <<tables, locks, tasks>>)

FairTaskSpec == TaskSpec /\ TaskFairness

\* ... and a beat schedules their tasks.  In the repository it cannot start:
\* CELERY_BEAT_SCHEDULER names an application that is not installed.
BeatingTaskSpec == FairTaskSpec /\ WF_taskVars(Beat)

----------------------------------------------------------------------------
(* Properties. *)

\* Types; a stock below zero is not one.
TaskTypeOK ==
    /\ MailTypeOK
    /\ \A o \in OrderIds : order[o] # NoRow => order[o].state \in TaskStates
    /\ info \in [InfoIds -> InfoRow \cup {NoRow}]
    /\ shared \subseteq Tasks /\ reserved \subseteq shared

\* Foreign keys: rows belong to an order that exists, orders are sent to an
\* address that exists, although a status update may bring an order back.
OrdersFit ==
    /\ \A k \in ItemIds : item[k] # NoRow => order[item[k].order] # NoRow
    /\ \A o \in OrderIds : order[o] # NoRow =>
          order[o].contact \in {NoRow} \cup {c \in Contacts : contact[c] = "live"}

\* However tasks interleave, the stock moves by all the pieces of one
\* order, together with its confirmation.
ConfirmedTogether ==
    [][info' # info =>
         \E o \in OrderIds :
            /\ order[o] # NoRow /\ order'[o].state = "confirmed"
            /\ \A p \in InfoIds :
                  TaskStock'[p] + TaskLines(o)[p] = TaskStock[p]]_taskVars

\* Every task and every letter comes to an end.
TasksEnd ==
    /\ \A t \in Tasks : place[t] # "unused" ~> place[t] = "done"
    /\ LettersEnd

----------------------------------------------------------------------------
(* What the comments of the code say and the code does not keep. *)

\* Sending a notification again is no new sale: the orders of this model
\* have paid their pieces when they were placed.
NotifyingSellsNothing == info = FirstInfo

\* Letters that were not sent are looked for every 5 minutes: the task of a
\* letter that failed is followed by another one for its order.
FailedLetterIsRetried ==
    \A t \in Tasks : letter[t] = "failed" ~>
        \/ \E s \in Tasks \ {t} : letter[s] # "none"
        \/ \E o \in OrderIds : order[o] = NoRow

\* The update of a status updates: an order that was deleted stays so.
DeletedStaysDeleted ==
    [][\A o \in OrderIds : order[o] = NoRow => order'[o] = NoRow]_taskVars

============================================================================

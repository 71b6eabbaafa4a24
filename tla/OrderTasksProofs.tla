-------------------------- MODULE OrderTasksProofs --------------------------
(***************************************************************************)
(* Proofs about OrderTasks, for any number of tasks, orders, rows, goods   *)
(* and addresses.  A task that processes an order has read a state of the  *)
(* tables that is still theirs when it commits, because nobody writes      *)
(* while it holds SHARED; what a status update has read may be out of      *)
(* date, but it is saved only if its address exists.                       *)
(***************************************************************************)
EXTENDS OrderTasks, TLAPS

\* Tables and the places of tasks.
Shape ==
    /\ MailTypeOK
    /\ order \in [OrderIds -> SavedRow \cup {NoRow}]
    /\ item \in [ItemIds -> ItemRow \cup {NoRow}]
    /\ info \in [InfoIds -> InfoRow \cup {NoRow}]
    /\ DOMAIN contact = Contacts
    /\ DOMAIN place = Tasks /\ DOMAIN job = Tasks

\* SHARED and RESERVED belong to the tasks inside a transaction.
LocksFit ==
    /\ shared = {t \in Tasks : place[t] \in {"write", "commit"}}
    /\ reserved = {t \in Tasks : place[t] = "commit"}

\* The goods of a row exist: no task deletes goods.
GoodsExist == \A k \in ItemIds : item[k] # NoRow => info[item[k].info] # NoRow

\* What a task that processes an order has read is true, and suffices.
Current(l) ==
    /\ l.order \in OrderIds /\ order[l.order] # NoRow
    /\ l.row = [order[l.order] EXCEPT !.state = "confirmed"]
    /\ l.lines = TaskLines(l.order) /\ l.seen = TaskStock
    /\ \A p \in InfoIds : l.lines[p] <= l.seen[p]

\* What a task knows, by where it stands.
TaskFits(t) ==
    /\ place[t] \in {"process", "update"} => job[t].order \in OrderIds
    /\ place[t] \in {"write", "commit"} => Current(job[t])
    /\ place[t] = "save" => job[t].order \in OrderIds /\ job[t].row \in SavedRow

TaskInv ==
    /\ Shape /\ LocksFit /\ OrdersFit /\ GoodsExist
    /\ \A t \in Tasks : TaskFits(t)

----------------------------------------------------------------------------
(* What stays as it was. *)

\* What a task reads depends on the tables only.
LEMMA ReadsDecide ==
    ASSUME UNCHANGED <<item, info>>, NEW o
    PROVE  TaskLines(o)' = TaskLines(o) /\ TaskStock' = TaskStock
BY DEF TaskLines, TaskStock, Quantity, Line, Rows

\* A task that does not move still knows what is true: inside a transaction
\* because the tables stay, elsewhere whatever they become.
LEMMA TaskKept ==
    ASSUME NEW t \in Tasks, TaskFits(t), UNCHANGED <<place[t], job[t]>>,
           UNCHANGED <<order, item, info>> \/ place[t] \notin {"write", "commit"}
    PROVE  TaskFits(t)'
<1>1. ASSUME place[t] \in {"write", "commit"}
      PROVE  Current(job[t])'
  <2>1. Current(job[t]) /\ UNCHANGED <<order, item, info>>
    BY <1>1 DEF TaskFits
  <2> DEFINE l == job[t]
  <2>2. job'[t] = l
    OBVIOUS
  <2>3. /\ TaskLines(l.order)' = TaskLines(job[t].order)
        /\ TaskStock' = TaskStock
    <3>1. \A o : TaskLines(o)' = TaskLines(o) /\ TaskStock' = TaskStock
      BY <2>1, ReadsDecide
    <3> QED
      BY <2>1, <3>1 DEF TaskLines, Quantity, Line, Rows
  <2> HIDE DEF l
  <2> QED
    BY <2>1, <2>2, <2>3 DEF Current, l
<1>2. place'[t] = place[t] /\ job'[t] = job[t]
  OBVIOUS
<1> QED
  BY <1>1, <1>2 DEF TaskFits

\* A task moves, the tables stay.
LEMMA MoveFits ==
    ASSUME TaskInv, UNCHANGED tables, MailTypeOK',
           NEW t \in Tasks, NEW where, NEW what, Move(t, where, what),
           LocksFit', TaskFits(t)'
    PROVE  TaskInv'
<1>1. UNCHANGED <<order, item, info, contact>>
  BY DEF tables, orders, items, goods
<1>2. Shape'
  BY <1>1 DEF TaskInv, Shape, Move
<1>3. OrdersFit' /\ GoodsExist'
  BY <1>1 DEF TaskInv, OrdersFit, GoodsExist
<1>4. ASSUME NEW q \in Tasks, q # t
      PROVE  TaskFits(q)'
  <2>1. TaskFits(q) /\ UNCHANGED <<place[q], job[q]>>
    BY <1>4 DEF TaskInv, Shape, Move
  <2> QED
    BY <1>1, <2>1, TaskKept
<1> QED
  BY <1>2, <1>3, <1>4 DEF TaskInv

\* A statement in autocommit mode writes while nobody is inside a
\* transaction, so that nobody has to know of it.
LEMMA WriteFits ==
    ASSUME TaskInv, CanWrite, UNCHANGED <<info, post, locks, tasks>>,
           order' \in [OrderIds -> SavedRow \cup {NoRow}],
           item' \in [ItemIds -> ItemRow \cup {NoRow}],
           DOMAIN contact' = Contacts, OrdersFit', GoodsExist'
    PROVE  TaskInv'
<1>1. UNCHANGED <<place, job, shared, reserved, letter, resends>>
  BY DEF tasks, locks, post
<1>2. Shape' /\ LocksFit'
  BY <1>1 DEF TaskInv, Shape, LocksFit, MailTypeOK
<1>3. ASSUME NEW q \in Tasks
      PROVE  TaskFits(q)'
  <2>1. place[q] \notin {"write", "commit"}
    BY DEF TaskInv, LocksFit, CanWrite
  <2>2. TaskFits(q) /\ UNCHANGED <<place[q], job[q]>>
    BY <1>1 DEF TaskInv
  <2> QED
    BY <2>1, <2>2, TaskKept
<1> QED
  BY <1>2, <1>3 DEF TaskInv

----------------------------------------------------------------------------
(* Tasks. *)

\* A task is queued, reads the order whose status it will update, or gives
\* up without a transaction.
LEMMA QueueFits ==
    ASSUME TaskInv, NEW t \in Tasks,
           \/ \E o \in OrderIds, call \in Calls : SendTask(t, o, call)
           \/ \E o \in OrderIds : RetryFailed(t, o)
           \/ UpdateRead(t) \/ UpdateFail(t)
    PROVE  TaskInv'
<1>1. Shape /\ LocksFit /\ TaskFits(t)
  BY DEF TaskInv
<1>2. UNCHANGED tables /\ UNCHANGED <<shared, reserved, letter, resends>>
  BY DEF SendTask, RetryFailed, UpdateRead, UpdateFail, locks, post
<1>3. MailTypeOK'
  BY <1>1, <1>2 DEF Shape, MailTypeOK
<1> DEFINE Goes(where, what) ==
             /\ where \in {"process", "update", "save", "done"}
             /\ Move(t, where, what)
             /\ where \in {"process", "update"} => what.order \in OrderIds
             /\ where = "save" =>
                   what.order \in OrderIds /\ what.row \in SavedRow
             /\ place[t] \in {"unused", "update", "save"}
<1>4. PICK where, what : Goes(where, what)
  <2>1. ASSUME NEW o \in OrderIds, NEW call \in Calls, SendTask(t, o, call)
        PROVE  \E where, what : Goes(where, what)
    <3>1. Move(t, call, [order |-> o]) /\ place[t] = "unused" /\ [order |-> o].order = o
      BY <2>1 DEF SendTask
    <3>2. call \in {"process", "update"}
      BY TasksAssumption
    <3> QED
      BY <3>1, <3>2
  <2>2. ASSUME NEW o \in OrderIds, RetryFailed(t, o)
        PROVE  \E where, what : Goes(where, what)
    BY <2>2 DEF RetryFailed
  <2>3. CASE UpdateRead(t)
    <3>1. place[t] = "update" /\ job[t].order \in OrderIds
      BY <1>1, <2>3 DEF UpdateRead, TaskFits
    <3>2. CASE order[job[t].order] = NoRow
      BY <2>3, <3>1, <3>2 DEF UpdateRead, Done
    <3>3. CASE order[job[t].order] # NoRow
      <4>1. order[job[t].order] \in SavedRow
        BY <1>1, <3>1, <3>3 DEF Shape
      <4> QED
        BY <2>3, <3>1, <3>3, <4>1 DEF UpdateRead
    <3> QED
      BY <3>2, <3>3
  <2>4. CASE UpdateFail(t)
    BY <2>4 DEF UpdateFail, Done
  <2> QED
    BY <2>1, <2>2, <2>3, <2>4
<1>5. place'[t] = where /\ job'[t] = what
  BY <1>1, <1>4 DEF Shape, Move
<1>6. TaskFits(t)'
  BY <1>4, <1>5 DEF TaskFits
<1>7. LocksFit'
  BY <1>1, <1>2, <1>4 DEF Shape, Move, LocksFit
<1> QED
  BY <1>2, <1>3, <1>4, <1>6, <1>7, MoveFits

\* What an order asks of a product: a number, and of none that is gone.
LEMMA LinesAreNumbers ==
    ASSUME Shape, GoodsExist, NEW o, NEW p \in InfoIds
    PROVE  /\ TaskLines(o)[p] \in Nat /\ TaskStock[p] \in Nat
           /\ TaskLines(o)[p] # 0 => info[p] # NoRow
           /\ Processable(o) => TaskLines(o)[p] <= TaskStock[p]
<1>1. TaskLines(o)[p] = Quantity(o, p)
  BY DEF TaskLines
<1>2. TaskStock[p] \in Nat /\ (info[p] # NoRow => TaskStock[p] = info[p].quantity)
  BY DEF TaskStock, Shape, InfoRow
<1>3. CASE Line(o, p) = {}
  BY <1>1, <1>2, <1>3 DEF Quantity
<1>4. CASE Line(o, p) # {}
  <2>1. PICK k \in Line(o, p) : Quantity(o, p) = item[k].quantity
    BY <1>4 DEF Quantity
  <2>2. k \in Rows(o) /\ k \in ItemIds /\ item[k] # NoRow /\ item[k].info = p
    BY <2>1 DEF Line, Rows
  <2>3. item[k].quantity \in Nat
    BY <2>2 DEF Shape, ItemRow
  <2>4. info[p] # NoRow
    BY <2>2 DEF GoodsExist
  <2> QED
    BY <1>1, <1>2, <2>1, <2>2, <2>3, <2>4 DEF Processable
<1> QED
  BY <1>3, <1>4

\* A task reads an order that it can process, or gives up.
LEMMA ProcessReadFits ==
    ASSUME TaskInv, NEW t \in Tasks, ProcessRead(t)
    PROVE  TaskInv'
<1> DEFINE o == job[t].order
<1>1. Shape /\ LocksFit /\ GoodsExist /\ TaskFits(t) /\ place[t] = "process"
  BY DEF TaskInv, ProcessRead
<1>2. UNCHANGED tables /\ UNCHANGED <<reserved, letter, resends>>
      /\ UNCHANGED <<order, item, info>>
  BY DEF ProcessRead, post, tables, orders, items, goods
<1>3. o \in OrderIds
  BY <1>1 DEF TaskFits
<1>4. MailTypeOK'
  BY <1>1, <1>2 DEF Shape, MailTypeOK
<1>5. CASE order[o] # NoRow /\ Processable(o)
  <2> DEFINE l == [order |-> o, row |-> [order[o] EXCEPT !.state = "confirmed"],
                   lines |-> TaskLines(o), seen |-> TaskStock]
  <2>1. Move(t, "write", l) /\ shared' = shared \cup {t}
    BY <1>5 DEF ProcessRead, Opens
  <2>2. place'[t] = "write" /\ job'[t] = l
    BY <1>1, <2>1 DEF Shape, Move
  <2>3. LocksFit'
    BY <1>1, <1>2, <2>1 DEF LocksFit, Shape, Move
  <2>4. \A p \in InfoIds : TaskLines(o)[p] <= TaskStock[p]
    BY <1>1, <1>5, LinesAreNumbers
  <2>5. \A x : TaskLines(x)' = TaskLines(x) /\ TaskStock' = TaskStock
    BY <1>2, ReadsDecide
  <2>6. Current(job[t])'
    <3>1. /\ l.order = o /\ l.row = [order[o] EXCEPT !.state = "confirmed"]
          /\ l.lines = TaskLines(o) /\ l.seen = TaskStock
      OBVIOUS
    <3>2. \A x : x = o => /\ TaskLines(x)' = TaskLines(o)
                          /\ TaskStock' = TaskStock
      BY <2>5
    <3> HIDE DEF l, o
    <3>3. TaskLines(job[t].order)' = TaskLines(o)
      <4>1. job'[t].order = o
        BY <2>2, <3>1
      <4>2. UNCHANGED item
        BY <1>2
      <4> QED
        BY <4>1, <4>2 DEF TaskLines, Quantity, Line, Rows
    <3> QED
      BY <1>2, <1>3, <1>5, <2>2, <2>4, <3>1, <3>2, <3>3 DEF Current
  <2>7. TaskFits(t)'
    BY <2>2, <2>6 DEF TaskFits
  <2> HIDE DEF l
  <2> QED
    BY <1>2, <1>4, <2>1, <2>3, <2>7, MoveFits
<1>6. CASE ~ (order[o] # NoRow /\ Processable(o))
  <2>1. Move(t, "done", NoRow) /\ UNCHANGED shared
    BY <1>6 DEF ProcessRead, Done
  <2>2. place'[t] = "done"
    BY <1>1, <2>1 DEF Shape, Move
  <2>3. LocksFit'
    BY <1>1, <1>2, <2>1 DEF LocksFit, Shape, Move
  <2>4. TaskFits(t)'
    BY <2>2 DEF TaskFits
  <2> QED
    BY <1>2, <1>4, <2>1, <2>3, <2>4, MoveFits
<1> QED
  BY <1>5, <1>6

\* It takes RESERVED and queues its letter.
LEMMA ProcessWriteFits ==
    ASSUME TaskInv, NEW t \in Tasks, ProcessWrite(t)
    PROVE  TaskInv'
<1>1. Shape /\ LocksFit /\ TaskFits(t) /\ place[t] = "write" /\ reserved = {}
  BY DEF TaskInv, ProcessWrite, CanUpgrade
<1>2. /\ UNCHANGED tables /\ UNCHANGED <<shared, resends, order, item, info>>
      /\ reserved' = {t} /\ Queue(t) /\ Move(t, "commit", job[t])
  BY DEF ProcessWrite, tables, orders, items, goods
<1>3. MailTypeOK'
  BY <1>1, <1>2 DEF Shape, MailTypeOK, Queue
<1>4. place'[t] = "commit" /\ job'[t] = job[t]
  BY <1>1, <1>2 DEF Shape, Move
<1>5. LocksFit'
  BY <1>1, <1>2 DEF LocksFit, Shape, Move
<1>6. TaskFits(t)'
  <2>1. Current(job[t])
    BY <1>1 DEF TaskFits
  <2>2. \A x : TaskLines(x)' = TaskLines(x) /\ TaskStock' = TaskStock
    BY <1>2, ReadsDecide
  <2> DEFINE l == job[t]
  <2>3. TaskLines(job[t].order)' = TaskLines(l.order)
    BY <1>2, <1>4 DEF TaskLines, Quantity, Line, Rows
  <2> HIDE DEF l
  <2>4. Current(job[t])'
    BY <1>2, <1>4, <2>1, <2>2, <2>3 DEF Current, l
  <2> QED
    BY <1>4, <2>4 DEF TaskFits
<1> QED
  BY <1>2, <1>3, <1>5, <1>6, MoveFits

\* An error ends it.
LEMMA ProcessFailFits ==
    ASSUME TaskInv, NEW t \in Tasks, ProcessFail(t)
    PROVE  TaskInv'
<1>1. Shape /\ LocksFit
  BY DEF TaskInv
<1>2. /\ UNCHANGED tables /\ UNCHANGED <<letter, resends>>
      /\ shared' = shared \ {t} /\ reserved' = reserved \ {t}
      /\ Move(t, "done", NoRow)
  BY DEF ProcessFail, EndTransaction, Done, post
<1>3. MailTypeOK'
  BY <1>1, <1>2 DEF Shape, MailTypeOK
<1>4. place'[t] = "done"
  BY <1>1, <1>2 DEF Shape, Move
<1>5. LocksFit'
  BY <1>1, <1>2 DEF LocksFit, Shape, Move
<1>6. TaskFits(t)'
  BY <1>4 DEF TaskFits
<1> QED
  BY <1>2, <1>3, <1>5, <1>6, MoveFits

\* What the commit does to the stock: each product loses what the order
\* holds of it.
LEMMA CommitTakes ==
    ASSUME TaskInv, NEW t \in Tasks, ProcessCommit(t), NEW p \in InfoIds
    PROVE  /\ info'[p] \in InfoRow \cup {NoRow}
           /\ info[p] # NoRow => info'[p] # NoRow
           /\ TaskStock'[p] + TaskLines(job[t].order)[p] = TaskStock[p]
<1> DEFINE l == job[t]
           n == TaskLines(l.order)[p]
<1>1. Shape /\ GoodsExist /\ Current(l) /\ info' = Taken(l)
  BY DEF TaskInv, TaskFits, ProcessCommit
<1>2. l.lines[p] = n /\ l.seen[p] = TaskStock[p] /\ n <= TaskStock[p]
  BY <1>1 DEF Current
<1>3. /\ n \in Nat /\ TaskStock[p] \in Nat /\ (n # 0 => info[p] # NoRow)
  BY <1>1, LinesAreNumbers
<1>4. info'[p] = IF n = 0 THEN info[p]
                 ELSE [info[p] EXCEPT !.quantity = TaskStock[p] - n]
  BY <1>1, <1>2 DEF Taken
<1>5. TaskStock'[p] = IF info'[p] = NoRow THEN 0 ELSE info'[p].quantity
  BY DEF TaskStock
<1>6. TaskStock[p] = IF info[p] = NoRow THEN 0 ELSE info[p].quantity
  BY DEF TaskStock
<1> HIDE DEF n, l
<1>7. CASE n = 0
  <2>1. info'[p] = info[p]
    BY <1>4, <1>7
  <2> QED
    BY <1>1, <1>3, <1>5, <1>6, <1>7, <2>1 DEF Shape, n, l
<1>8. CASE n # 0
  <2>1. info[p] \in InfoRow /\ TaskStock[p] - n \in Nat
    BY <1>1, <1>2, <1>3, <1>8 DEF Shape
  <2> DEFINE m == TaskStock[p] - n
             new == [info[p] EXCEPT !.quantity = m]
  <2>2. new \in InfoRow /\ new.quantity = m
    BY <2>1 DEF InfoRow
  <2>3. info'[p] = new
    BY <1>4, <1>8
  <2>4. m + n = TaskStock[p]
    BY <1>3
  <2>5. new # NoRow
    BY <2>2, StoreAssumption
  <2> HIDE DEF new, m
  <2> QED
    BY <1>5, <2>2, <2>3, <2>4, <2>5 DEF n, l
<1> QED
  BY <1>7, <1>8

\* The commit: the order is confirmed and its pieces leave the stock.
LEMMA ProcessCommitFits ==
    ASSUME TaskInv, NEW t \in Tasks, ProcessCommit(t)
    PROVE  TaskInv'
<1> DEFINE l == job[t]
           new == l.row
<1>1. /\ Shape /\ LocksFit /\ OrdersFit /\ GoodsExist /\ Current(l)
      /\ place[t] = "commit" /\ shared \subseteq {t}
  BY DEF TaskInv, TaskFits, ProcessCommit, CanCommit
<1>2. /\ order' = [order EXCEPT ![l.order] = new]
      /\ shared' = shared \ {t} /\ reserved' = reserved \ {t}
      /\ Move(t, "done", NoRow)
      /\ UNCHANGED <<item, contact, letter, resends>>
  BY DEF ProcessCommit, EndTransaction, Done, items, post
<1>3. /\ l.order \in OrderIds /\ order[l.order] # NoRow
      /\ order[l.order] \in SavedRow
      /\ new = [order[l.order] EXCEPT !.state = "confirmed"]
  BY <1>1 DEF Current, Shape
<1>4. new \in SavedRow /\ new.contact = order[l.order].contact
  BY <1>3 DEF SavedRow, TaskStates, States
<1>5. new # NoRow
  BY <1>4, TasksAssumption
<1> HIDE DEF new
<1>6. \A o \in OrderIds : order'[o] = IF o = l.order THEN new ELSE order[o]
  BY <1>1, <1>2 DEF Shape
<1>7. OrdersFit'
  <2>1. \A o \in OrderIds : /\ order'[o] # NoRow <=> order[o] # NoRow
                            /\ order[o] # NoRow =>
                                  order'[o].contact = order[o].contact
    BY <1>3, <1>4, <1>5, <1>6
  <2>2. \A k \in ItemIds : item[k] # NoRow => item[k].order \in OrderIds
    BY <1>1 DEF Shape, ItemRow
  <2> QED
    BY <1>1, <1>2, <2>1, <2>2 DEF OrdersFit
<1>8. \A p \in InfoIds : /\ info'[p] \in InfoRow \cup {NoRow}
                         /\ info[p] # NoRow => info'[p] # NoRow
  BY CommitTakes
<1>9. GoodsExist'
  <2>1. \A k \in ItemIds : item[k] # NoRow => item[k].info \in InfoIds
    BY <1>1 DEF Shape, ItemRow
  <2> QED
    BY <1>1, <1>2, <1>8, <2>1 DEF GoodsExist
<1>10. Shape'
  <2>1. MailTypeOK'
    BY <1>1, <1>2 DEF Shape, MailTypeOK
  <2>2. order' \in [OrderIds -> SavedRow \cup {NoRow}]
    BY <1>1, <1>2, <1>4 DEF Shape
  <2>3. info' \in [InfoIds -> InfoRow \cup {NoRow}]
    <3>1. info' = [p \in InfoIds |-> info'[p]]
      BY DEF ProcessCommit, Taken
    <3> QED
      BY <1>8, <3>1
  <2> QED
    BY <1>1, <1>2, <2>1, <2>2, <2>3 DEF Shape, Move
<1>11. LocksFit'
  BY <1>1, <1>2 DEF LocksFit, Shape, Move
<1>12. ASSUME NEW q \in Tasks
       PROVE  TaskFits(q)'
  <2>1. CASE q = t
    <3>1. place'[t] = "done"
      BY <1>1, <1>2 DEF Shape, Move
    <3> QED
      BY <2>1, <3>1 DEF TaskFits
  <2>2. CASE q # t
    <3>1. TaskFits(q) /\ UNCHANGED <<place[q], job[q]>>
      BY <1>1, <1>2, <2>2 DEF TaskInv, Shape, Move
    <3>2. place[q] \notin {"write", "commit"}
      BY <1>1, <2>2 DEF LocksFit
    <3> QED
      BY <3>1, <3>2, TaskKept
  <2> QED
    BY <2>1, <2>2
<1> QED
  BY <1>7, <1>9, <1>10, <1>11, <1>12 DEF TaskInv

\* A status update saves its order, or brings it back, if its address
\* exists.
LEMMA UpdateSaveFits ==
    ASSUME TaskInv, NEW t \in Tasks, UpdateSave(t)
    PROVE  TaskInv'
<1> DEFINE l == job[t]
<1>1. /\ Shape /\ LocksFit /\ OrdersFit /\ GoodsExist /\ TaskFits(t)
      /\ place[t] = "save" /\ shared = {}
  BY DEF TaskInv, UpdateSave, CanWrite
<1>2. PICK state \in TaskStates :
         order' = IF KeysHold(l.row)
                  THEN [order EXCEPT ![l.order] = [l.row EXCEPT !.state = state]]
                  ELSE order
  BY DEF UpdateSave
<1>3. /\ UNCHANGED <<item, info, contact, shared, reserved, letter, resends>>
      /\ Move(t, "done", NoRow)
  BY DEF UpdateSave, Done, items, goods, locks, post
<1> DEFINE new == [l.row EXCEPT !.state = state]
<1>4. l.order \in OrderIds /\ new \in SavedRow /\ new.contact = l.row.contact
  <2>1. l.order \in OrderIds /\ l.row \in SavedRow
    BY <1>1 DEF TaskFits
  <2> QED
    BY <2>1 DEF SavedRow
<1>5. new # NoRow
  BY <1>4, TasksAssumption
<1>6. /\ order' \in [OrderIds -> SavedRow \cup {NoRow}]
      /\ OrdersFit'
  <2>1. CASE ~ KeysHold(l.row)
    BY <1>1, <1>2, <1>3, <2>1 DEF Shape, OrdersFit
  <2>2. CASE KeysHold(l.row)
    <3>1. order' = [order EXCEPT ![l.order] = new]
      BY <1>2, <2>2
    <3>2. new.contact \in {NoRow} \cup {c \in Contacts : contact[c] = "live"}
      BY <1>4, <2>2 DEF KeysHold, SavedRow
    <3> HIDE DEF new, l
    <3>3. order' \in [OrderIds -> SavedRow \cup {NoRow}]
      BY <1>1, <1>4, <3>1 DEF Shape
    <3>4. \A o \in OrderIds : order'[o] = IF o = l.order THEN new ELSE order[o]
      BY <1>1, <3>1 DEF Shape
    <3>5. \A k \in ItemIds : item[k] # NoRow => item[k].order \in OrderIds
      BY <1>1 DEF Shape, ItemRow
    <3> QED
      BY <1>1, <1>3, <1>5, <3>2, <3>3, <3>4, <3>5 DEF OrdersFit
  <2> QED
    BY <2>1, <2>2
<1>7. Shape'
  BY <1>1, <1>3, <1>6 DEF Shape, Move, MailTypeOK
<1>8. LocksFit'
  BY <1>1, <1>3 DEF LocksFit, Shape, Move
<1>9. GoodsExist'
  BY <1>1, <1>3 DEF GoodsExist
<1>10. ASSUME NEW q \in Tasks
       PROVE  TaskFits(q)'
  <2>1. CASE q = t
    <3>1. place'[t] = "done"
      BY <1>1, <1>3 DEF Shape, Move
    <3> QED
      BY <2>1, <3>1 DEF TaskFits
  <2>2. CASE q # t
    <3>1. TaskFits(q) /\ UNCHANGED <<place[q], job[q]>>
      BY <1>1, <1>3, <2>2 DEF TaskInv, Shape, Move
    <3>2. place[q] \notin {"write", "commit"}
      BY <1>1 DEF LocksFit
    <3> QED
      BY <3>1, <3>2, TaskKept
  <2> QED
    BY <2>1, <2>2
<1> QED
  BY <1>6, <1>7, <1>8, <1>9, <1>10 DEF TaskInv

----------------------------------------------------------------------------
(* The administrator, the buyer and the mail. *)

\* A bulk update changes states only.
LEMMA MarkFits ==
    ASSUME TaskInv, NEW chosen, NEW state \in {"confirmed", "delivered"},
           Mark(chosen, state)
    PROVE  TaskInv'
<1>1. Shape /\ OrdersFit /\ GoodsExist
  BY DEF TaskInv
<1>2. /\ CanWrite /\ UNCHANGED <<item, info, contact, post, locks, tasks>>
      /\ order' = [o \in OrderIds |-> IF o \in chosen /\ order[o] # NoRow
                                      THEN [order[o] EXCEPT !.state = state]
                                      ELSE order[o]]
  BY DEF Mark, items, goods
<1>3. ASSUME NEW o \in OrderIds
      PROVE  /\ order'[o] \in SavedRow \cup {NoRow}
             /\ order'[o] # NoRow <=> order[o] # NoRow
             /\ order[o] # NoRow => order'[o].contact = order[o].contact
  <2>1. CASE o \in chosen /\ order[o] # NoRow
    <3> DEFINE new == [order[o] EXCEPT !.state = state]
    <3>1. new \in SavedRow /\ new.contact = order[o].contact
      BY <1>1, <2>1 DEF Shape, SavedRow, TaskStates, States
    <3>2. order'[o] = new
      BY <1>2, <2>1
    <3> HIDE DEF new
    <3> QED
      BY <2>1, <3>1, <3>2, TasksAssumption
  <2>2. CASE ~ (o \in chosen /\ order[o] # NoRow)
    BY <1>1, <1>2, <2>2 DEF Shape
  <2> QED
    BY <2>1, <2>2
<1>4. order' \in [OrderIds -> SavedRow \cup {NoRow}]
  <2>1. order' = [o \in OrderIds |-> order'[o]]
    BY <1>2
  <2> QED
    BY <1>3, <2>1
<1>5. OrdersFit'
  <2>1. \A k \in ItemIds : item[k] # NoRow => item[k].order \in OrderIds
    BY <1>1 DEF Shape, ItemRow
  <2> QED
    BY <1>1, <1>2, <1>3, <2>1 DEF OrdersFit
<1>6. GoodsExist'
  BY <1>1, <1>2 DEF GoodsExist
<1> QED
  BY <1>1, <1>2, <1>4, <1>5, <1>6, WriteFits DEF Shape

\* Orders are deleted with their rows, and perhaps an address with all
\* orders sent to it.
LEMMA DeletionFits ==
    ASSUME TaskInv, CanWrite, NEW gone, UNCHANGED <<info, post, locks, tasks>>,
           DOMAIN contact' = Contacts,
           order' = [o \in OrderIds |-> IF o \in gone THEN NoRow ELSE order[o]],
           item' = [k \in ItemIds |-> IF \E o \in gone : k \in Rows(o)
                                     THEN NoRow ELSE item[k]],
           \A o \in OrderIds \ gone : order[o] # NoRow =>
               \/ order[o].contact = NoRow
               \/ contact'[order[o].contact] = contact[order[o].contact]
    PROVE  TaskInv'
<1>1. Shape /\ OrdersFit /\ GoodsExist
  BY DEF TaskInv
<1>2. \A k \in ItemIds : item'[k] # NoRow =>
          /\ item[k] # NoRow /\ item'[k] = item[k]
          /\ item[k].order \in OrderIds \ gone
  <2> SUFFICES ASSUME NEW k \in ItemIds, item'[k] # NoRow
               PROVE  /\ item[k] # NoRow /\ item'[k] = item[k]
                      /\ item[k].order \in OrderIds \ gone
    OBVIOUS
  <2>1. item'[k] = item[k] /\ ~ \E o \in gone : k \in Rows(o)
    OBVIOUS
  <2> QED
    BY <1>1, <2>1 DEF Rows, Shape, ItemRow
<1>3. OrdersFit'
  BY <1>1, <1>2 DEF OrdersFit
<1>4. GoodsExist'
  BY <1>1, <1>2 DEF GoodsExist
<1>5. /\ order' \in [OrderIds -> SavedRow \cup {NoRow}]
      /\ item' \in [ItemIds -> ItemRow \cup {NoRow}]
  BY <1>1 DEF Shape
<1> QED
  BY <1>3, <1>4, <1>5, WriteFits

\* The administrator deletes an order.
LEMMA DeleteOrderFits ==
    ASSUME TaskInv, NEW o \in OrderIds, DeleteOrder(o)
    PROVE  TaskInv'
<1>1. /\ CanWrite /\ UNCHANGED <<info, contact, post, locks, tasks>>
      /\ order' = [order EXCEPT ![o] = NoRow]
      /\ item' = [k \in ItemIds |-> IF k \in Rows(o) THEN NoRow ELSE item[k]]
  BY DEF DeleteOrder, goods
<1>2. Shape
  BY DEF TaskInv
<1>3. order' = [x \in OrderIds |-> IF x \in {o} THEN NoRow ELSE order[x]]
  BY <1>1, <1>2 DEF Shape
<1>4. item' = [k \in ItemIds |-> IF \E x \in {o} : k \in Rows(x)
                                 THEN NoRow ELSE item[k]]
  BY <1>1
<1>5. DOMAIN contact' = Contacts
  BY <1>1, <1>2 DEF Shape
<1> QED
  BY <1>1, <1>3, <1>4, <1>5, DeletionFits

\* The buyer deletes an address.
LEMMA ForgetAddressFits ==
    ASSUME TaskInv, NEW c \in Contacts, ForgetAddress(c)
    PROVE  TaskInv'
<1>1. PICK gone :
         /\ gone = {o \in OrderIds : order[o] # NoRow /\ order[o].contact = c}
         /\ order' = [o \in OrderIds |-> IF o \in gone THEN NoRow ELSE order[o]]
         /\ item' = [k \in ItemIds |-> IF \E o \in gone : k \in Rows(o)
                                       THEN NoRow ELSE item[k]]
  BY DEF ForgetAddress
<1>2. /\ CanWrite /\ UNCHANGED <<info, post, locks, tasks>>
      /\ contact' = [contact EXCEPT ![c] = "deleted"]
  BY DEF ForgetAddress, goods
<1>3. DOMAIN contact' = Contacts
  BY <1>2 DEF TaskInv, Shape
<1>4. \A o \in OrderIds \ gone : order[o] # NoRow =>
          \/ order[o].contact = NoRow
          \/ contact'[order[o].contact] = contact[order[o].contact]
  BY <1>1, <1>2 DEF TaskInv, Shape
<1> QED
  BY <1>1, <1>2, <1>3, <1>4, DeletionFits

\* The tasks of the letters change nothing else.
LEMMA LettersFit ==
    ASSUME TaskInv, MailNext \/ UNCHANGED post, UNCHANGED <<tables, locks, tasks>>
    PROVE  TaskInv'
<1>1. MailTypeOK
  BY DEF TaskInv, Shape
<1>2. MailTypeOK'
  <2>1. ASSUME NEW l \in Letters, Render(l)
        PROVE  MailTypeOK'
    BY <1>1, <2>1 DEF MailTypeOK, Render
  <2>2. ASSUME NEW l \in Letters, SendEmail(l)
        PROVE  MailTypeOK'
    BY <1>1, <2>2, MailAssumption DEF MailTypeOK, SendEmail, Resend
  <2>3. CASE UNCHANGED post
    BY <1>1, <2>3 DEF MailTypeOK, post
  <2> QED
    BY <2>1, <2>2, <2>3 DEF MailNext
<1>3. /\ UNCHANGED <<order, item, info, contact>>
      /\ UNCHANGED <<shared, reserved, place, job>>
  BY DEF tables, orders, items, goods, locks, tasks
<1>4. ASSUME NEW t \in Tasks
      PROVE  TaskFits(t)'
  BY <1>3, TaskKept DEF TaskInv
<1> QED
  BY <1>2, <1>3, <1>4
     DEF TaskInv, Shape, LocksFit, OrdersFit, GoodsExist

----------------------------------------------------------------------------
(* The specification. *)

\* The tables the API leaves fit together.
LEMMA InitFits == TaskInit => TaskInv
<1> SUFFICES ASSUME TaskInit PROVE TaskInv
  OBVIOUS
<1>1. \A o \in OrderIds : order[o] # NoRow =>
          order[o] \in OrderRow /\ order[o] \in SavedRow
  BY FirstTablesAssumption DEF TaskInit, OrderRow, SavedRow, TaskStates
<1>2. order \in [OrderIds -> SavedRow \cup {NoRow}]
  BY <1>1, FirstTablesAssumption DEF TaskInit
<1>3. MailTypeOK
  BY MailAssumption DEF TaskInit, MailInit, MailTypeOK
<1>4. Shape
  BY <1>2, <1>3, FirstTablesAssumption DEF TaskInit, Shape
<1>5. OrdersFit /\ GoodsExist
  BY <1>1, FirstTablesAssumption DEF TaskInit, OrdersFit, GoodsExist, OrderRow
<1>6. LocksFit /\ \A t \in Tasks : TaskFits(t)
  BY DEF TaskInit, LocksFit, TaskFits
<1> QED
  BY <1>4, <1>5, <1>6 DEF TaskInv

\* Every step keeps the invariant.
LEMMA StepFits == ASSUME TaskInv, [TaskNext]_taskVars PROVE TaskInv'
<1>1. ASSUME NEW t \in Tasks, Work(t)
      PROVE  TaskInv'
  BY <1>1, QueueFits, ProcessReadFits, ProcessWriteFits, ProcessCommitFits,
     ProcessFailFits, UpdateSaveFits DEF Work
<1>2. ASSUME NEW t \in Tasks, NEW o \in OrderIds, NEW call \in Calls,
             SendTask(t, o, call)
      PROVE  TaskInv'
  BY <1>2, QueueFits
<1>3. CASE Beat
  BY <1>3, QueueFits DEF Beat
<1>4. ASSUME NEW chosen \in SUBSET OrderIds,
             NEW state \in {"confirmed", "delivered"}, Mark(chosen, state)
      PROVE  TaskInv'
  BY <1>4, MarkFits
<1>5. ASSUME NEW o \in OrderIds, DeleteOrder(o)
      PROVE  TaskInv'
  BY <1>5, DeleteOrderFits
<1>6. ASSUME NEW c \in Contacts, ForgetAddress(c)
      PROVE  TaskInv'
  BY <1>6, ForgetAddressFits
<1>7. CASE MailNext /\ UNCHANGED <<tables, locks, tasks>>
  BY <1>7, LettersFit
<1>8. CASE UNCHANGED taskVars
  BY <1>8, LettersFit DEF taskVars
<1> QED
  BY <1>1, <1>2, <1>3, <1>4, <1>5, <1>6, <1>7, <1>8 DEF TaskNext

\* What tasks know is true throughout.
LEMMA TasksStay == TaskSpec => []TaskInv
<1> QED
  BY InitFits, StepFits, PTL DEF TaskSpec

\* Orders, stock, letters and locks keep their types; no interleaving of
\* tasks takes more from the stock than it has.
THEOREM TasksKeepTypes == TaskSpec => []TaskTypeOK
<1>1. TaskInv => TaskTypeOK
  BY DEF TaskInv, Shape, LocksFit, TaskTypeOK, SavedRow
<1> QED
  BY <1>1, TasksStay, PTL

\* Rows have their order and orders their address, though status updates
\* save what they read long ago and bring deleted orders back.
THEOREM TasksKeepReferences == TaskSpec => []OrdersFit
<1>1. TaskInv => OrdersFit
  BY DEF TaskInv
<1> QED
  BY <1>1, TasksStay, PTL

\* The stock moves by all the pieces of one order, together with its
\* confirmation, and at no other time.
THEOREM StockMovesWithConfirmation == TaskSpec => ConfirmedTogether
<1> DEFINE Together ==
             info' # info =>
               \E o \in OrderIds :
                  /\ order[o] # NoRow /\ order'[o].state = "confirmed"
                  /\ \A p \in InfoIds :
                        TaskStock'[p] + TaskLines(o)[p] = TaskStock[p]
<1>1. ASSUME TaskInv, [TaskNext]_taskVars, info' # info
      PROVE  Together
  <2>1. PICK t \in Tasks : ProcessCommit(t)
    BY <1>1 DEF TaskNext, taskVars, tables, goods, Work, Beat, SendTask,
       RetryFailed, ProcessRead, ProcessWrite, ProcessFail, UpdateRead,
       UpdateSave, UpdateFail, Mark, DeleteOrder, ForgetAddress
  <2> DEFINE l == job[t]
  <2>2. /\ l.order \in OrderIds /\ order[l.order] # NoRow
        /\ order[l.order] \in SavedRow
        /\ order' = [order EXCEPT ![l.order] =
                        [order[l.order] EXCEPT !.state = "confirmed"]]
    BY <1>1, <2>1 DEF TaskInv, TaskFits, Current, ProcessCommit, Shape
  <2>3. order'[l.order].state = "confirmed"
    BY <1>1, <2>2 DEF TaskInv, Shape, SavedRow
  <2>4. \A p \in InfoIds :
           TaskStock'[p] + TaskLines(l.order)[p] = TaskStock[p]
    BY <1>1, <2>1, CommitTakes
  <2> HIDE DEF l
  <2> QED
    BY <2>2, <2>3, <2>4
<1>2. TaskInv /\ [TaskNext]_taskVars => [Together]_taskVars
  BY <1>1
<1>3. TaskSpec => [][Together]_taskVars
  <2> HIDE DEF Together
  <2> QED
    BY <1>2, TasksStay, PTL DEF TaskSpec
<1> QED
  BY <1>3 DEF ConfirmedTogether

=============================================================================

--------------------------- MODULE UrlStoreProofs ---------------------------
(***************************************************************************)
(* What the url table keeps over refused statements, rollbacks, locks of   *)
(* another process, crashes and restarts, for any number of loading and    *)
(* digesting threads, urls and faults, and for both journal modes: one     *)
(* inductive invariant, IInv, and what follows from it.                    *)
(***************************************************************************)
EXTENDS UrlStore, FiniteSetTheorems, TLAPS

(* IDs are given once: 1, 2, ... in the order of the inserts.              *)
TableOK(T) ==
  /\ T \in [Urls -> Row \cup {NoRow}]
  /\ IsFiniteSet(Rows(T))
  /\ \A u \in Urls : T[u].id <= Cardinality(Rows(T))
  /\ \A u, v \in Rows(T) : T[u].id = T[v].id => u = v

(* Only a transaction that has written makes a difference between what the *)
(* connection sees and what is committed, and it never takes a row away.   *)
DbInv ==
  /\ TableOK(disk) /\ TableOK(view)
  /\ ~dirty => view = disk
  /\ dirty => inTx
  /\ Rows(disk) \subseteq Rows(view)
  /\ faults \in Nat

(* Where a thread can be, and what it carries there.                       *)
Working(t) == t \in Workers /\ pc[t] \in {"late", "begin", "insert", "lock", "update"}

PlaceInv ==
  /\ \A t \in Threads :
       /\ pc[t] \in {"recover", "select", "mark"} => t = Collector
       /\ pc[t] \in {"late", "lock", "update"} => t \in Workers
       /\ pc[t] = "begin" => todo[t] = Arg(t)
  /\ \A t \in Workers : Working(t) => page[t] \in Records

(* A record of a row still has that row's ID, as long as no row was lost.  *)
Carried ==
  selected \cup handed \cup out \cup over \cup {page[t] : t \in {w \in Workers : Working(w)}}

RecordInv == rolled \/ \A r \in Carried : view[r.url].id = r.id

(* The open addRecords has inserted what it has dealt with, the names that *)
(* were refused excepted.                                                  *)
InsertedInv ==
  \A t \in Threads :
    pc[t] = "insert" /\ inTx => Arg(t) \ (todo[t] \cup short) \subseteq Rows(view)

(* The links of a page are in the table before its status is; the only     *)
(* exceptions are the ones that FinishedLinksDurable names, and what is    *)
(* written in a transaction that nobody will commit.                       *)
Covered(u) == u \in refused \/ Stuck \/ Links[u] \subseteq Rows(view)

LinksInv ==
  rolled \/
  /\ \A u \in Urls : view[u].status = "finished" => Covered(u)
  /\ \A r \in over : Covered(r.url)
  /\ \A t \in Workers :
       /\ pc[t] = "lock" => Covered(page[t].url)
       /\ pc[t] = "update" /\ says = "finished" => Covered(page[t].url)
       /\ pc[t] = "insert" =>
            page[t].url \in refused \/ Links[page[t].url] \ todo[t] \subseteq Rows(view)

(* A url that was handed out for good is not UNCHECK, and a SELECT whose   *)
(* mark is still to come has not read it.                                  *)
Taken == {"processing", "loading", "finished"}

IssuedInv ==
  /\ \A u \in issued \ undone : view[u].status \in Taken
  /\ pc[Collector] = "mark" => UrlsOf(selected) \cap (issued \ undone) = {}
  /\ pc[Collector] = "recover" => issued = {}
  /\ pc[Collector] \in {"recover", "begin", "insert", "select"} => selected = {}

IInv ==
  /\ TypeOK /\ DbInv /\ TransactionHasOwner /\ PlaceInv /\ RecordInv
  /\ InsertedInv /\ AddedIsDurable /\ LinksInv /\ FinishedLinksDurable /\ IssuedInv
-----------------------------------------------------------------------------
(* UPDATE keeps the rows and their IDs.                                    *)
LEMMA SetTable ==
  ASSUME TableOK(view), NEW ids, 0 \notin ids, NEW s \in Status
  PROVE  /\ TableOK(Set(ids, s))
         /\ Rows(Set(ids, s)) = Rows(view)
         /\ \A u \in Urls :
              /\ Set(ids, s)[u].id = view[u].id
              /\ Set(ids, s)[u].status = IF view[u].id \in ids THEN s ELSE view[u].status
<1> DEFINE T == Set(ids, s)
<1>1. ASSUME NEW u \in Urls
      PROVE  /\ T[u] \in Row \cup {NoRow}
             /\ T[u] = NoRow <=> view[u] = NoRow
             /\ T[u].id = view[u].id
             /\ T[u].status = IF view[u].id \in ids THEN s ELSE view[u].status
  <2>1. view[u] \in Row \cup {NoRow}
    BY DEF TableOK
  <2>2. CASE view[u].id \in ids
    <3>1. view[u] \in Row /\ T[u] = [view[u] EXCEPT !.status = s]
      BY <2>1, <2>2 DEF NoRow, Set
    <3> QED
      BY <2>2, <3>1 DEF Row, NoRow
  <2>3. CASE view[u].id \notin ids
    BY <2>1, <2>3 DEF Set
  <2> QED
    BY <2>2, <2>3
<1>2. Rows(T) = Rows(view)
  BY <1>1 DEF Rows
<1>3. T \in [Urls -> Row \cup {NoRow}]
  <2>1. T = [u \in Urls |-> T[u]]
    BY DEF Set
  <2> QED
    BY <1>1, <2>1
<1> HIDE DEF T
<1>4. \A u \in Urls : T[u].id <= Cardinality(Rows(T))
  BY <1>1, <1>2 DEF TableOK
<1>5. \A u, v \in Rows(T) : T[u].id = T[v].id => u = v
  BY <1>1, <1>2 DEF TableOK, Rows
<1>6. TableOK(T)
  BY <1>2, <1>3, <1>4, <1>5 DEF TableOK
<1> QED
  BY <1>1, <1>2, <1>6 DEF T

(* INSERT adds one row at most, with an ID of its own, and leaves the      *)
(* others alone.                                                           *)
LEMMA InsertedTable ==
  ASSUME TableOK(view), NEW u \in Urls
  PROVE  /\ TableOK(Inserted(u))
         /\ Rows(Inserted(u)) = Rows(view) \cup {u}
         /\ \A v \in Urls : v \in Rows(view) => Inserted(u)[v] = view[v]
         /\ \A v \in Urls : Inserted(u)[v].status = "finished" => view[v].status = "finished"
<1>1. CASE view[u] # NoRow
  BY <1>1 DEF Inserted, Rows
<1>2. CASE view[u] = NoRow
  <2> DEFINE n == Cardinality(Rows(view))
             T == Inserted(u)
             row == [status |-> "uncheck", id |-> n + 1]
  <2>1. n \in Nat
    BY FS_CardinalityType DEF TableOK
  <2>2. T = [view EXCEPT ![u] = row]
    BY <1>2 DEF Inserted
  <2>3. row \in Row /\ row # NoRow /\ row.id = n + 1 /\ row.status = "uncheck"
    BY <2>1 DEF Row, Status, NoRow
  <2> HIDE DEF row, T
  <2>4. /\ T \in [Urls -> Row \cup {NoRow}]
        /\ T[u] = row
        /\ \A v \in Urls : v # u => T[v] = view[v]
    BY <2>2, <2>3 DEF TableOK
  <2>5. Rows(T) = Rows(view) \cup {u}
    BY <2>3, <2>4 DEF Rows
  <2>6. IsFiniteSet(Rows(T)) /\ Cardinality(Rows(T)) = n + 1
    <3>1. IsFiniteSet(Rows(view)) /\ u \notin Rows(view)
      BY <1>2 DEF TableOK, Rows
    <3> QED
      BY <2>5, <3>1, FS_AddElement
  <2> HIDE DEF n
  <2>7. \A v \in Urls : view[v].id \in Nat /\ view[v].id <= n
    BY DEF TableOK, Row, NoRow, n
  <2>8. \A v \in Urls : T[v].id <= Cardinality(Rows(T))
    BY <2>1, <2>3, <2>4, <2>6, <2>7
  <2>9. \A v, w \in Rows(T) : T[v].id = T[w].id => v = w
    BY <2>1, <2>3, <2>4, <2>5, <2>7 DEF TableOK, Rows
  <2>10. TableOK(T)
    BY <2>4, <2>6, <2>8, <2>9 DEF TableOK
  <2>11. \A v \in Urls : T[v].status = "finished" => view[v].status = "finished"
    BY <2>3, <2>4
  <2>12. \A v \in Urls : v \in Rows(view) => T[v] = view[v]
    BY <1>2, <2>4 DEF Rows
  <2> QED
    BY <2>5, <2>10, <2>11, <2>12 DEF T
<1> QED
  BY <1>1, <1>2
-----------------------------------------------------------------------------
(* What a call does to the database: the connection's view stays, becomes  *)
(* the table asked for, or falls back to the file; a committed table is    *)
(* what is seen outside a transaction.                                     *)
Commits == disk' = disk \/ (disk' = view' /\ ~inTx')

LEMMA WriteStep ==
  ASSUME DbInv, {inTx, dirty} \subseteq BOOLEAN,
         NEW table, TableOK(table), Rows(view) \subseteq Rows(table),
         NEW z, Write(table, z)
  PROVE  /\ DbInv' /\ Commits
         /\ {inTx', dirty'} \subseteq BOOLEAN
         /\ view' = view \/ (z = "ok" /\ view' = table) \/ (Lost(z) /\ view' = disk)
         /\ (inTx' <=> inTx) \/ Lost(z)
         /\ z = "ok" => (inTx' <=> inTx)
         /\ z = "ok" => view' = table
         /\ inTx' => (dirty => dirty')
         /\ hasTx' = hasTx /\ other' = other
         /\ faults' >= faults
<1> USE DEF DbInv, Commits, Lost
<1>1. hasTx' = hasTx /\ other' = other
  BY DEF Write
<1>2. CASE z = "busy" /\ UNCHANGED <<disk, view, inTx, dirty, faults>>
  BY <1>1, <1>2
<1>3. CASE /\ z = "ok" /\ view' = table
           /\ disk' = IF inTx THEN disk ELSE table
           /\ dirty' = inTx
           /\ UNCHANGED <<inTx, faults>>
  BY <1>1, <1>3
<1>4. CASE Failed(z)
  <2>1. faults' = faults + 1 /\ faults' >= faults /\ z = "error" /\ disk' = disk
    BY <1>4 DEF Failed
  <2>2. CASE UNCHANGED <<view, inTx, dirty>>
    BY <1>1, <2>1, <2>2
  <2>3. CASE view' = disk /\ inTx' = FALSE /\ dirty' = FALSE
    <3>1. DbInv'
      BY <2>1, <2>3
    <3>2. view' = view \/ Lost(z)
      BY <2>1, <2>3
    <3>3. (inTx' <=> inTx) \/ Lost(z)
      BY <2>1, <2>3
    <3> HIDE DEF DbInv
    <3> QED
      BY <1>1, <2>1, <2>3, <3>1, <3>2, <3>3
  <2> QED
    BY <1>4, <2>2, <2>3 DEF Failed
<1> QED
  BY <1>2, <1>3, <1>4 DEF Write

LEMMA CommitStep ==
  ASSUME DbInv, {inTx, dirty, hasTx} \subseteq BOOLEAN, hasTx, NEW z, Commit(z)
  PROVE  /\ DbInv' /\ Commits
         /\ {inTx', dirty'} \subseteq BOOLEAN
         /\ view' = view \/ (Lost(z) /\ view' = disk)
         /\ z = "ok" => inTx /\ disk' = view /\ view' = view /\ ~inTx'
         /\ ~hasTx' /\ other' = other
         /\ inTx' => inTx /\ dirty' /\ (Wal => faults' > 0)
         /\ (inTx' <=> inTx) \/ Lost(z) \/ z = "ok"
         /\ ~inTx => ~inTx' /\ z # "ok"
<1> USE DEF DbInv, Commits, Lost
<1>1. ~hasTx' /\ other' = other
  BY DEF Commit
<1>2. CASE ~inTx /\ z = "error" /\ UNCHANGED <<disk, view, inTx, dirty, faults>>
  BY <1>1, <1>2
<1>3. CASE inTx /\ dirty /\ ~Wal /\ z = "busy" /\ UNCHANGED <<disk, view, inTx, dirty, faults>>
  BY <1>1, <1>3
<1>4. CASE /\ inTx /\ z = "ok"
           /\ disk' = view /\ inTx' = FALSE /\ dirty' = FALSE
           /\ UNCHANGED <<view, faults>>
  BY <1>1, <1>4
<1>5. CASE inTx /\ dirty /\ Failed(z)
  <2>1. faults' = faults + 1 /\ z = "error" /\ disk' = disk
    BY <1>5 DEF Failed
  <2>2. CASE UNCHANGED <<view, inTx, dirty>>
    BY <1>1, <1>5, <2>1, <2>2
  <2>3. CASE view' = disk /\ inTx' = FALSE /\ dirty' = FALSE
    <3>1. DbInv'
      BY <2>1, <2>3
    <3> QED
      BY <1>1, <1>5, <2>1, <2>3, <3>1
  <2> QED
    BY <1>5, <2>2, <2>3 DEF Failed
<1> QED
  BY <1>2, <1>3, <1>4, <1>5 DEF Commit

LEMMA EndStep ==
  ASSUME DbInv, {inTx, dirty, hasTx} \subseteq BOOLEAN, Closed \/ Close
  PROVE  /\ DbInv' /\ view' = disk' /\ ~inTx' /\ ~dirty' /\ ~hasTx'
         /\ {inTx', dirty', hasTx'} \subseteq BOOLEAN
         /\ other' = other
         /\ disk' = disk \/ (disk' = view /\ hasTx)
<1> USE DEF DbInv
<1>1. CASE Closed
  <2>1. /\ faults' = faults + 1 /\ view' = disk /\ disk' = disk /\ other' = other
        /\ inTx' = FALSE /\ dirty' = FALSE /\ hasTx' = FALSE
    BY <1>1 DEF Closed
  <2>2. DbInv'
    BY <2>1
  <2> QED
    BY <2>1, <2>2
<1>2. CASE Close
  <2>1. CASE Closed
    BY <1>1, <2>1
  <2>2. CASE /\ hasTx /\ faults' = faults + 1
             /\ disk' = view
             /\ inTx' = FALSE /\ dirty' = FALSE /\ hasTx' = FALSE
             /\ UNCHANGED <<view, other>>
    <3>1. DbInv'
      BY <2>2
    <3> QED
      BY <2>2, <3>1
  <2> QED
    BY <1>2, <2>1, <2>2 DEF Close
<1> QED
  BY <1>1, <1>2
-----------------------------------------------------------------------------
(* What a statement leaves of the invariant, whoever runs it: table is     *)
(* what the statement makes of the view.                                   *)
Grown(table) ==
  /\ TableOK(table) /\ Rows(view) \subseteq Rows(table)
  /\ \A u \in Rows(view) : table[u].id = view[u].id

SameOwner ==
  (\E t \in Threads : mutex' = t /\ pc'[t] = "insert")
    <=> (\E t \in Threads : mutex = t /\ pc[t] = "insert")

Seen(table, z) ==
  view' = view \/ (z = "ok" /\ view' = table) \/ (Lost(z) /\ view' = disk)

(* What is kept of the invariant then.                                     *)
Effect(table, z) ==
  /\ DbInv' /\ TransactionHasOwner' /\ AddedIsDurable'
  /\ {inTx', dirty', hasTx', rolled'} \subseteq BOOLEAN
  /\ other' \in {"none", "read", "write"}
  /\ Seen(table, z)
  /\ z = "ok" => view' = table /\ (rolled' <=> rolled)
  /\ inTx' => (inTx \/ ~hasTx) /\ Rows(view) \subseteq Rows(view')
  /\ ~rolled' =>
       /\ ~rolled
       /\ view' = view \/ view' = table
       /\ Rows(view) \subseteq Rows(view')
       /\ \A u \in Rows(view) : view'[u].id = view[u].id
       /\ \A u \in Urls : Covered(u) => Covered(u)'
  /\ LinksInv' => FinishedLinksDurable'

LEMMA WriteEffect ==
  ASSUME IInv, NEW table, Grown(table), NEW z, Write(table, z),
         rolled' = (rolled \/ Lost(z)), refused \subseteq refused',
         added' = added, missed' = missed, SameOwner
  PROVE  Effect(table, z)
<1>1. DbInv /\ {inTx, dirty, hasTx, rolled} \subseteq BOOLEAN /\ other \in {"none", "read", "write"}
  BY DEF IInv, TypeOK
<1>2. /\ DbInv' /\ Commits /\ {inTx', dirty'} \subseteq BOOLEAN
      /\ Seen(table, z)
      /\ (inTx' <=> inTx) \/ Lost(z)
      /\ z = "ok" => (inTx' <=> inTx) /\ view' = table
      /\ inTx' => (dirty => dirty')
      /\ hasTx' = hasTx /\ other' = other /\ faults' >= faults
  BY <1>1, WriteStep DEF Grown, Seen
<1>3. {hasTx', rolled'} \subseteq BOOLEAN
  BY <1>1, <1>2
<1>4. z = "ok" => (rolled' <=> rolled)
  BY <1>1, <1>2 DEF Lost
<1>5. inTx' => inTx /\ Rows(view) \subseteq Rows(view')
  BY <1>2 DEF Lost, Seen, Grown
<1>6. TransactionHasOwner'
  <2>1. TransactionHasOwner
    BY DEF IInv
  <2>2. hasTx' <=> \E t \in Threads : mutex' = t /\ pc'[t] = "insert"
    BY <1>2, <2>1 DEF TransactionHasOwner, SameOwner
  <2>3. Stuck' => dirty' /\ (Wal => faults' > 0)
    <3>1. faults \in Nat /\ faults' \in Nat
      BY <1>1, <1>2 DEF DbInv
    <3> QED
      BY <1>2, <1>5, <2>1, <3>1 DEF TransactionHasOwner, Stuck
  <2>4. ~inTx' => view' = disk'
    BY <1>2 DEF DbInv
  <2> QED
    BY <2>2, <2>3, <2>4 DEF TransactionHasOwner
<1>7. AddedIsDurable'
  <2>1. added \ missed \subseteq Rows(disk) /\ Rows(disk) \subseteq Rows(view)
    BY <1>1 DEF IInv, AddedIsDurable, DbInv
  <2>2. Rows(disk) \subseteq Rows(view')
    BY <1>2, <2>1 DEF Seen, Grown
  <2>3. Rows(disk) \subseteq Rows(disk')
    BY <1>2, <2>2 DEF Commits
  <2> QED
    BY <2>1, <2>3 DEF AddedIsDurable
<1>8. ASSUME ~rolled'
      PROVE  /\ ~rolled
             /\ view' = view \/ view' = table
             /\ Rows(view) \subseteq Rows(view')
             /\ \A u \in Rows(view) : view'[u].id = view[u].id
             /\ \A u \in Urls : Covered(u) => Covered(u)'
  <2>1. ~rolled /\ ~Lost(z)
    BY <1>8
  <2>2. inTx' <=> inTx
    BY <1>2, <2>1
  <2>3. view' = view \/ view' = table
    BY <1>2, <2>1 DEF Seen
  <2>4. /\ Rows(view) \subseteq Rows(view')
        /\ \A u \in Rows(view) : view'[u].id = view[u].id
    BY <2>3 DEF Grown
  <2>5. \A u \in Urls : Covered(u) => Covered(u)'
    BY <1>2, <2>2, <2>4 DEF Covered, Stuck
  <2> QED
    BY <2>1, <2>3, <2>4, <2>5
<1>9. ASSUME LinksInv' PROVE FinishedLinksDurable'
  <2>1. SUFFICES ASSUME NEW u \in Urls, disk'[u].status = "finished", u \notin refused', ~rolled'
                 PROVE  Links[u] \subseteq Rows(disk')
    BY DEF FinishedLinksDurable
  <2>2. CASE disk' = disk
    <3>1. u \notin refused /\ ~rolled
      BY <1>8, <2>1
    <3> QED
      BY <2>1, <2>2, <3>1 DEF IInv, FinishedLinksDurable
  <2>3. CASE disk' = view' /\ ~inTx'
    BY <1>9, <2>1, <2>3 DEF LinksInv, Covered, Stuck
  <2> QED
    BY <1>2, <2>2, <2>3 DEF Commits
<1> QED
  BY <1>1, <1>2, <1>3, <1>4, <1>5, <1>6, <1>7, <1>8, <1>9 DEF Effect
(* A marked row keeps its ID, an inserted one gets its own.                *)
LEMMA SetGrown ==
  ASSUME TableOK(view), NEW ids, 0 \notin ids, NEW s \in Status
  PROVE  Grown(Set(ids, s))
BY SetTable DEF Grown, Rows

LEMMA InsertedGrown ==
  ASSUME TableOK(view), NEW u \in Urls
  PROVE  Grown(Inserted(u)) /\ u \in Rows(Inserted(u))
<1>1. \A v \in Rows(view) : v \in Urls
  BY DEF Rows
<1> QED
  BY <1>1, InsertedTable DEF Grown

LEMMA RecordIds ==
  ASSUME TypeOK
  PROVE  /\ 0 \notin IdsOf(selected)
         /\ \A R \in SUBSET Records : UrlsOf(R) \subseteq Urls
         /\ \A t \in Workers : page[t] \in Records => page[t].id # 0 /\ page[t].url \in Urls
BY DEF TypeOK, Records, IdsOf, UrlsOf
-----------------------------------------------------------------------------
Places == {"recover", "begin", "insert", "select", "mark", "idle", "late", "lock", "update"}

(* Only thread t moves.                                                    *)
ThreadOnly(t) ==
  \A s \in Threads : s # t =>
    pc'[s] = pc[s] /\ page'[s] = page[s] /\ todo'[s] = todo[s]

PlaceAt(t) ==
  /\ pc[t] \in {"recover", "select", "mark"} => t = Collector
  /\ pc[t] \in {"late", "lock", "update"} => t \in Workers
  /\ pc[t] = "begin" => todo[t] = Arg(t)
  /\ Working(t) => page[t] \in Records

LEMMA PlaceKept ==
  ASSUME PlaceInv, NEW t \in Threads, ThreadOnly(t), PlaceAt(t)'
  PROVE  PlaceInv'
<1>1. ASSUME NEW s \in Threads PROVE PlaceAt(s)'
  <2>1. CASE s # t
    <3>1. PlaceAt(s)
      BY DEF PlaceInv, PlaceAt, Working
    <3>2. pc'[s] = pc[s] /\ page'[s] = page[s] /\ todo'[s] = todo[s]
      BY <2>1 DEF ThreadOnly
    <3> QED
      BY <3>1, <3>2 DEF PlaceAt, Working, Arg
  <2> QED
    BY <2>1
<1> QED
  BY <1>1 DEF PlaceInv, PlaceAt, Working, Threads

LEMMA RecordsKept ==
  ASSUME IInv, NEW table, NEW z, Effect(table, z), NEW t \in Threads, ThreadOnly(t),
         selected' \cup handed' \cup out' \cup over' \subseteq Carried,
         Working(t)' => page'[t] \in Carried
  PROVE  RecordInv'
<1>1. ASSUME NEW w \in Workers, Working(w)' PROVE page'[w] \in Carried
  BY <1>1 DEF ThreadOnly, Working, Threads, Carried
<1>2. SUFFICES ASSUME ~rolled', NEW r \in Carried
               PROVE  view'[r.url].id = r.id
  BY <1>1 DEF RecordInv, Carried
<1>3. r \in Records
  BY DEF IInv, PlaceInv, TypeOK, Carried
<1>4. view[r.url].id = r.id
  BY <1>2 DEF IInv, RecordInv, Effect
<1>5. r.url \in Rows(view)
  BY <1>3, <1>4 DEF Rows, Records, NoRow
<1> QED
  BY <1>2, <1>4, <1>5 DEF Effect

LEMMA InsertedKept ==
  ASSUME IInv, NEW table, NEW z, Effect(table, z), NEW t \in Threads, ThreadOnly(t),
         short \subseteq short',
         pc'[t] = "insert" /\ inTx' => Arg(t)' \ (todo'[t] \cup short') \subseteq Rows(view')
  PROVE  InsertedInv'
<1>1. SUFFICES ASSUME NEW s \in Threads, pc'[s] = "insert", inTx', s # t
               PROVE  Arg(s)' \ (todo'[s] \cup short') \subseteq Rows(view')
  BY DEF InsertedInv
<1>2. pc[s] = "insert" /\ Arg(s)' = Arg(s) /\ todo'[s] = todo[s]
  BY <1>1 DEF ThreadOnly, Arg
<1>3. hasTx
  BY <1>2 DEF IInv, TypeOK, TransactionHasOwner
<1> QED
  BY <1>1, <1>2, <1>3 DEF IInv, InsertedInv, Effect

LEMMA LinksKept ==
  ASSUME IInv, NEW table, NEW z, Effect(table, z), NEW t \in Threads, ThreadOnly(t),
         refused \subseteq refused',
         \A u \in Urls : table[u].status = "finished" =>
           view[u].status = "finished" \/ rolled \/ Covered(u),
         says' = says \/ mutex \in {t, None},
         ~rolled' => \A r \in over' \ over : Covered(r.url)',
         t \in Workers /\ ~rolled' =>
           /\ pc'[t] = "lock" => Covered(page[t].url)'
           /\ pc'[t] = "update" /\ says' = "finished" => Covered(page[t].url)'
           /\ pc'[t] = "insert" =>
                page'[t].url \in refused' \/ Links[page'[t].url] \ todo'[t] \subseteq Rows(view')
  PROVE  LinksInv'
<1>1. SUFFICES ASSUME ~rolled' PROVE LinksInv'
  BY DEF LinksInv
<1>2. /\ ~rolled /\ (view' = view \/ view' = table) /\ Rows(view) \subseteq Rows(view')
      /\ \A u \in Urls : Covered(u) => Covered(u)'
  BY <1>1 DEF Effect
<1>3. LinksInv
  BY DEF IInv
<1>4. ASSUME NEW u \in Urls, view'[u].status = "finished" PROVE Covered(u)'
  BY <1>2, <1>3, <1>4 DEF LinksInv
<1>5. ASSUME NEW r \in over' PROVE Covered(r.url)'
  <2>1. CASE r \in over
    <3>1. PICK u \in Urls : u = r.url
      BY <2>1 DEF IInv, TypeOK, Records
    <3>2. Covered(u)
      BY <1>2, <1>3, <2>1, <3>1 DEF LinksInv
    <3>3. Covered(u)'
      BY <1>2, <3>2
    <3> QED
      BY <3>1, <3>3
  <2> QED
    BY <1>1, <1>5, <2>1
<1>6. ASSUME NEW w \in Workers, w # t
      PROVE  /\ pc'[w] = "lock" => Covered(page[w].url)'
             /\ pc'[w] = "update" /\ says' = "finished" => Covered(page[w].url)'
             /\ pc'[w] = "insert" =>
                  page'[w].url \in refused' \/ Links[page'[w].url] \ todo'[w] \subseteq Rows(view')
  <2>1. w \in Threads /\ pc'[w] = pc[w] /\ page'[w] = page[w] /\ todo'[w] = todo[w]
    BY <1>6 DEF ThreadOnly, Threads
  <2>2. Working(w) => page[w].url \in Urls
    BY <1>6 DEF IInv, PlaceInv, Records
  <2>3. pc[w] = "update" => says' = says
    BY <1>6, <2>1, StoreAssumption DEF IInv, TypeOK
  <2>4. ASSUME pc[w] = "lock" \/ (pc[w] = "update" /\ says = "finished")
        PROVE  Covered(page[w].url)'
    <3>1. PICK u \in Urls : u = page[w].url
      BY <1>6, <2>2, <2>4 DEF Working
    <3>2. Covered(u)'
      BY <1>2, <1>3, <1>6, <2>4, <3>1 DEF LinksInv
    <3> QED
      BY <2>1, <3>1, <3>2 DEF Covered
  <2>5. ASSUME pc[w] = "insert"
        PROVE  page[w].url \in refused' \/ Links[page[w].url] \ todo[w] \subseteq Rows(view')
    BY <1>2, <1>3, <2>5 DEF LinksInv
  <2>6. ASSUME pc'[w] = "lock" \/ (pc'[w] = "update" /\ says' = "finished")
        PROVE  Covered(page[w].url)'
    <3>1. pc[w] = "lock" \/ (pc[w] = "update" /\ says = "finished")
      BY <2>1, <2>3, <2>6
    <3> QED
      BY <2>4, <3>1
  <2> QED
    BY <2>1, <2>5, <2>6
<1> QED
  BY <1>1, <1>4, <1>5, <1>6 DEF LinksInv

LEMMA IssuedKept ==
  ASSUME IInv, NEW table, NEW z, Effect(table, z), NEW marks, Noted(z, marks),
         issued' = issued,
         z = "ok" => \A u \in issued \ undone' : table[u].status \in Taken
  PROVE  /\ undone \subseteq undone'
         /\ \A u \in issued' \ undone' : view'[u].status \in Taken
<1>1. undone \subseteq undone'
  BY DEF Noted
<1>2. ASSUME NEW u \in issued' \ undone' PROVE view'[u].status \in Taken
  <2>1. u \in issued \ undone /\ u \in Urls
    BY <1>1, <1>2 DEF IInv, TypeOK
  <2>2. view[u].status \in Taken
    BY <2>1 DEF IInv, IssuedInv
  <2>3. CASE Lost(z)
    <3>1. view'[u].status \notin {"uncheck", "none"}
      BY <1>2, <2>1, <2>3 DEF Noted
    <3>2. view'[u] \in Row \cup {NoRow}
      BY <2>1 DEF Effect, DbInv, TableOK
    <3> QED
      BY <3>1, <3>2 DEF Row, NoRow, Status, Taken
  <2>4. CASE ~Lost(z)
    BY <1>2, <2>2, <2>4 DEF Effect, Seen
  <2> QED
    BY <2>3, <2>4
<1> QED
  BY <1>1, <1>2
-----------------------------------------------------------------------------
LEMMA RecoverStep == ASSUME IInv, NEW t \in Threads, Recover(t) PROVE IInv'
<1> DEFINE ids == {view[u].id : u \in {v \in Urls : view[v].status = "processing"}}
           table == Set(ids, "uncheck")
<1>1. PICK z \in Result :
        /\ Write(table, z)
        /\ Goto(t, IF Returns(z) THEN "begin" ELSE "recover")
        /\ Noted(z, {})
  BY DEF Recover
<1>2. /\ t = Collector /\ pc[t] = "recover" /\ todo' = [todo EXCEPT ![t] = {Seed}]
      /\ UNCHANGED <<stop, page, short, says, mutex, work, refused, added, missed>>
  BY DEF Recover
<1>3. TypeOK /\ TableOK(view) /\ PlaceInv /\ issued = {} /\ selected = {}
  BY <1>2 DEF IInv, DbInv, IssuedInv
<1>4. 0 \notin ids
  BY <1>3 DEF TableOK, Row, NoRow
<1>5. Grown(table)
  BY <1>3, <1>4, SetGrown DEF Status
<1>6. /\ pc' \in [Threads -> Places] /\ pc'[t] \in {"recover", "begin"} /\ ThreadOnly(t)
  BY <1>1, <1>2, <1>3 DEF Goto, TypeOK, ThreadOnly, Places
<1>7. SameOwner
  BY <1>2, <1>6 DEF SameOwner, ThreadOnly
<1>8. rolled' = (rolled \/ Lost(z)) /\ undone' \subseteq Urls
  BY <1>1, <1>2, <1>3 DEF Noted, TypeOK
<1>9. \A u \in Urls : table[u].status = "finished" => view[u].status = "finished"
  BY <1>3, <1>4, SetTable DEF Status
<1> HIDE DEF table
<1>10. Effect(table, z)
  BY <1>1, <1>2, <1>5, <1>7, <1>8, WriteEffect
<1>11. t \notin Workers /\ Seed \in Urls
  BY <1>2, StoreAssumption
<1>12. TypeOK'
  BY <1>2, <1>3, <1>6, <1>8, <1>10, <1>11 DEF TypeOK, DbInv, TableOK, work, Effect, ThreadOnly, Places
<1>13. PlaceInv'
  BY <1>2, <1>3, <1>6, <1>11 DEF PlaceInv, Arg, TypeOK, Working, Threads, ThreadOnly
<1>14. RecordInv'
  BY <1>2, <1>6, <1>10, <1>11, RecordsKept DEF work, Working, Carried
<1>15. InsertedInv'
  BY <1>2, <1>6, <1>10, InsertedKept
<1>16. LinksInv'
  BY <1>2, <1>6, <1>9, <1>10, <1>11, LinksKept DEF work
<1>17. IssuedInv'
  BY <1>2, <1>3, <1>6 DEF IssuedInv, work
<1> QED
  BY <1>10, <1>12, <1>13, <1>14, <1>15, <1>16, <1>17 DEF IInv, Effect
LEMMA InsertStep == ASSUME IInv, NEW t \in Threads, Insert(t) PROVE IInv'
<1>1. PICK u \in todo[t], z \in Result :
        /\ Write(Inserted(u), z)
        /\ todo' = [todo EXCEPT ![t] = @ \ {u}]
        /\ short' = IF z = "ok" THEN short ELSE short \cup {u}
        /\ refused' = IF z = "ok" THEN refused ELSE refused \cup Digested(t)
        /\ Noted(z, {})
  BY DEF Insert
<1>2. /\ pc[t] = "insert" /\ UNCHANGED <<stop, pc, page, says, mutex, work, added, missed>>
  BY DEF Insert
<1>3. TypeOK /\ TableOK(view) /\ PlaceInv /\ IssuedInv
  BY DEF IInv, DbInv
<1>4. u \in Urls /\ todo'[t] = todo[t] \ {u} /\ ThreadOnly(t) /\ SameOwner
  BY <1>1, <1>2, <1>3 DEF TypeOK, ThreadOnly, SameOwner
<1> DEFINE table == Inserted(u)
<1>5. Grown(table) /\ u \in Rows(table)
  BY <1>3, <1>4, InsertedGrown
<1>6. /\ \A v \in Urls : table[v].status = "finished" => view[v].status = "finished"
      /\ \A v \in Urls : v \in Rows(view) => table[v] = view[v]
  BY <1>3, <1>4, InsertedTable
<1> HIDE DEF table
<1>7. Digested(t) \subseteq Urls
  BY <1>2, <1>3 DEF Digested, PlaceInv, Working, Threads, Records
<1>8. /\ rolled' = (rolled \/ Lost(z)) /\ undone' \subseteq Urls
      /\ refused \subseteq refused' /\ short \subseteq short'
  BY <1>1, <1>3 DEF Noted, TypeOK
<1>9. Effect(table, z)
  BY <1>1, <1>2, <1>4, <1>5, <1>8, WriteEffect DEF table
<1>10. TypeOK'
  BY <1>1, <1>2, <1>3, <1>7, <1>8, <1>9 DEF TypeOK, DbInv, TableOK, work, Effect
<1>11. PlaceInv'
  BY <1>2, <1>3, <1>4 DEF PlaceInv, Arg, Working, ThreadOnly
<1>12. RecordInv'
  BY <1>2, <1>4, <1>9, RecordsKept DEF work, Working, Carried, Threads
<1>13. InsertedInv'
  <2>1. ASSUME inTx' PROVE Arg(t)' \ (todo'[t] \cup short') \subseteq Rows(view')
    <3>1. hasTx
      BY <1>2, <1>3 DEF IInv, TypeOK, TransactionHasOwner
    <3>2. inTx /\ Rows(view) \subseteq Rows(view')
      BY <1>9, <2>1, <3>1 DEF Effect
    <3>3. Arg(t) \ (todo[t] \cup short) \subseteq Rows(view)
      BY <1>2, <3>2 DEF IInv, InsertedInv
    <3>4. Arg(t)' = Arg(t)
      BY <1>2 DEF Arg
    <3>5. z = "ok" => u \in Rows(view')
      BY <1>5, <1>9 DEF Effect
    <3>6. z # "ok" => u \in short'
      BY <1>1
    <3> QED
      BY <1>4, <1>8, <3>2, <3>3, <3>4, <3>5, <3>6
  <2> QED
    BY <1>4, <1>8, <1>9, <2>1, InsertedKept
<1>14. LinksInv'
  <2>1. ASSUME t \in Workers, ~rolled'
        PROVE  page'[t].url \in refused' \/ Links[page'[t].url] \ todo'[t] \subseteq Rows(view')
    <3>1. ~rolled /\ Rows(view) \subseteq Rows(view')
      BY <1>9, <2>1 DEF Effect
    <3>2. page[t].url \in refused \/ Links[page[t].url] \ todo[t] \subseteq Rows(view)
      BY <1>2, <2>1, <3>1 DEF IInv, LinksInv
    <3>3. CASE z = "ok"
      <4>1. view' = table
        BY <1>9, <3>3 DEF Effect
      <4> QED
        BY <1>1, <1>2, <1>4, <1>5, <3>1, <3>2, <3>3, <4>1
    <3>4. CASE z # "ok"
      <4>1. page[t].url \in Digested(t)
        BY <2>1, StoreAssumption DEF Digested
      <4> QED
        BY <1>1, <1>2, <3>4, <4>1
    <3> QED
      BY <3>3, <3>4
  <2> QED
    BY <1>2, <1>4, <1>6, <1>8, <1>9, <2>1, LinksKept DEF work
<1>15. IssuedInv'
  <2>1. \A v \in issued \ undone : table[v].status \in Taken
    <3>1. \A v \in issued \ undone : v \in Rows(view) /\ v \in Urls
      BY <1>3 DEF IssuedInv, TypeOK, Rows, NoRow, Taken
    <3> QED
      BY <1>3, <1>6, <3>1 DEF IssuedInv
  <2>2. undone \subseteq undone' /\ issued' = issued
    BY <1>1, <1>2 DEF Noted, work
  <2>3. \A v \in issued' \ undone' : view'[v].status \in Taken
    BY <1>1, <1>9, <2>1, <2>2, IssuedKept
  <2> QED
    BY <1>2, <1>3, <2>2, <2>3 DEF IssuedInv, work, UrlsOf
<1> QED
  BY <1>9, <1>10, <1>11, <1>12, <1>13, <1>14, <1>15 DEF IInv, Effect
LEMMA UpdateStep == ASSUME IInv, NEW t \in Threads, Update(t) PROVE IInv'
<1> DEFINE table == Set({page[t].id}, says)
<1>1. PICK z \in Result :
        /\ Write(table, z)
        /\ \/ /\ mutex' = None /\ says' = "finished"
              /\ Goto(t, "idle") /\ page' = [page EXCEPT ![t] = None]
           \/ UNCHANGED <<mutex, says, pc, page>>
        /\ Noted(z, TurnedBack(t, z))
  BY DEF Update
<1>2. pc[t] = "update" /\ UNCHANGED <<stop, todo, short, work, refused, added, missed>>
  BY DEF Update
<1>3. TypeOK /\ TableOK(view) /\ PlaceInv /\ IssuedInv /\ mutex = t /\ says \in Status
  BY <1>2 DEF IInv, DbInv, TypeOK
<1>4. t \in Workers /\ page[t] \in Records /\ page[t] \in Carried
  BY <1>2, <1>3 DEF PlaceInv, Working, Carried
<1>5. /\ pc' \in [Threads -> Places] /\ page' \in [Threads -> Records \cup {None}]
      /\ ThreadOnly(t) /\ mutex' \in {t, None} /\ says' \in Status
      /\ \/ pc'[t] = "idle" /\ mutex' = None
         \/ pc'[t] = "update" /\ mutex' = t /\ page'[t] = page[t] /\ says' = says
  <2>1. CASE /\ mutex' = None /\ says' = "finished"
             /\ Goto(t, "idle") /\ page' = [page EXCEPT ![t] = None]
    BY <1>2, <1>3, <2>1 DEF Goto, TypeOK, ThreadOnly, Places, Status
  <2>2. CASE UNCHANGED <<mutex, says, pc, page>>
    BY <1>2, <1>3, <2>2 DEF TypeOK, ThreadOnly, Places
  <2> QED
    BY <1>1, <2>1, <2>2
<1>6. SameOwner
  BY <1>2, <1>3, <1>5 DEF SameOwner, ThreadOnly, TypeOK
<1>7. 0 \notin {page[t].id}
  BY <1>4 DEF Records
<1>8. /\ Grown(table)
      /\ \A u \in Urls : table[u].status = IF view[u].id = page[t].id THEN says ELSE view[u].status
  <2>1. Grown(table)
    BY <1>3, <1>7, SetGrown
  <2>2. \A u \in Urls :
          table[u].status = IF view[u].id \in {page[t].id} THEN says ELSE view[u].status
    BY <1>3, <1>7, SetTable
  <2> QED
    BY <2>1, <2>2
<1> HIDE DEF table
<1>9. rolled' = (rolled \/ Lost(z)) /\ undone' \subseteq Urls
  BY <1>1, <1>3 DEF Noted, TypeOK, TurnedBack
<1>10. Effect(table, z)
  <2>1. Write(table, z) /\ Grown(table)
    BY <1>1, <1>8
  <2>2. refused \subseteq refused' /\ added' = added /\ missed' = missed
    BY <1>2
  <2> QED
    BY <1>6, <1>9, <2>1, <2>2, WriteEffect
<1>11. TypeOK'
  <2>1. \A s \in Threads : mutex' = s <=> pc'[s] \in {"insert", "update"}
    BY <1>3, <1>5, StoreAssumption DEF TypeOK, ThreadOnly
  <2> QED
    BY <1>2, <1>3, <1>5, <1>9, <1>10, <2>1 DEF TypeOK, DbInv, TableOK, work, Effect, Places
<1>12. PlaceInv'
  <2>1. PlaceAt(t)'
    BY <1>4, <1>5 DEF PlaceAt, Working
  <2> QED
    BY <1>3, <1>5, <2>1, PlaceKept
<1>13. RecordInv'
  <2>1. selected' \cup handed' \cup out' \cup over' \subseteq Carried
    BY <1>2 DEF work, Carried
  <2>2. Working(t)' => page'[t] \in Carried
    BY <1>4, <1>5 DEF Working
  <2> QED
    BY <1>5, <1>10, <2>1, <2>2, RecordsKept
<1>14. InsertedInv'
  BY <1>2, <1>5, <1>10, InsertedKept
<1>15. LinksInv'
  <2>1. ASSUME NEW u \in Urls, table[u].status = "finished"
        PROVE  view[u].status = "finished" \/ rolled \/ Covered(u)
    <3>1. SUFFICES ASSUME view[u].id = page[t].id, says = "finished", ~rolled PROVE Covered(u)
      BY <1>8, <2>1
    <3>2. view[page[t].url].id = page[t].id
      BY <1>4, <3>1 DEF IInv, RecordInv
    <3>3. u \in Rows(view) /\ page[t].url \in Rows(view)
      BY <1>4, <3>1, <3>2 DEF Rows, NoRow, Records
    <3>4. u = page[t].url
      BY <1>3, <3>1, <3>2, <3>3 DEF TableOK
    <3> QED
      BY <1>2, <1>4, <3>1, <3>4 DEF IInv, LinksInv
  <2>2. ASSUME ~rolled', pc'[t] = "update", says' = "finished" PROVE Covered(page[t].url)'
    <3>1. PICK u \in Urls : u = page[t].url
      BY <1>4 DEF Records
    <3>2. Covered(u)'
      BY <1>2, <1>4, <1>5, <1>10, <2>2, <3>1 DEF IInv, LinksInv, Effect
    <3> QED
      BY <1>5, <2>2, <3>1, <3>2 DEF Covered
  <2>3. over' = over /\ refused \subseteq refused' /\ mutex \in {t, None}
    BY <1>2, <1>3 DEF work
  <2>4. pc'[t] \notin {"lock", "insert"}
    BY <1>5
  <2> QED
    BY <1>5, <1>10, <2>1, <2>2, <2>3, <2>4, LinksKept
<1>16. IssuedInv'
  <2>1. ASSUME z = "ok", NEW u \in issued \ undone' PROVE table[u].status \in Taken
    <3>1. u \in issued \ undone /\ u \in Urls /\ u \notin TurnedBack(t, z)
      BY <1>1, <1>3, <2>1 DEF Noted, TypeOK
    <3>2. view[u].id = page[t].id => says # "uncheck"
      BY <2>1, <3>1 DEF TurnedBack
    <3> QED
      BY <1>3, <1>8, <3>1, <3>2 DEF IssuedInv, Status, Taken
  <2>2. /\ undone \subseteq undone'
        /\ \A v \in issued' \ undone' : view'[v].status \in Taken
    BY <1>1, <1>2, <1>10, <2>1, IssuedKept DEF work
  <2>3. pc'[Collector] = pc[Collector]
    BY <1>4, <1>5, StoreAssumption DEF ThreadOnly, Threads
  <2> QED
    BY <1>2, <1>3, <2>2, <2>3 DEF IssuedInv, work, UrlsOf
<1> QED
  BY <1>10, <1>11, <1>12, <1>13, <1>14, <1>15, <1>16 DEF IInv, Effect

LEMMA MarkStep == ASSUME IInv, NEW t \in Threads, Mark(t) PROVE IInv'
<1> DEFINE table == Set(IdsOf(selected), "processing")
<1>1. PICK z \in Result :
        /\ Write(table, z)
        /\ \/ /\ handed' = selected /\ issued' = issued \cup UrlsOf(selected) /\ selected' = {}
              /\ UNCHANGED <<out, over>>
              /\ Goto(t, IF stop THEN "idle" ELSE "select")
              /\ Noted(z, UrlsOf(IF z = "ok" THEN Gone ELSE selected))
           \/ UNCHANGED <<work, pc>> /\ Noted(z, {})
  BY DEF Mark
<1>2. /\ t = Collector /\ pc[t] = "mark"
      /\ UNCHANGED <<stop, page, todo, short, says, mutex, refused, added, missed>>
  BY DEF Mark
<1>3. TypeOK /\ TableOK(view) /\ PlaceInv /\ IssuedInv /\ t \notin Workers
  BY <1>2, StoreAssumption DEF IInv, DbInv
<1>4. /\ pc' \in [Threads -> Places] /\ ThreadOnly(t)
      /\ pc'[t] \in {"idle", "select", "mark"}
  BY <1>1, <1>2, <1>3 DEF Goto, TypeOK, ThreadOnly, Places, work
<1>5. SameOwner
  BY <1>2, <1>4 DEF SameOwner, ThreadOnly
<1>6. /\ {selected', handed', out', over'} \subseteq SUBSET Records
      /\ selected' \cup handed' \cup out' \cup over' \subseteq Carried
      /\ out' = out /\ over' = over
      /\ issued \subseteq issued' /\ issued' \subseteq Urls
      /\ UrlsOf(selected) \subseteq Urls
  BY <1>1, <1>3, RecordIds DEF TypeOK, work, Carried
<1>7. 0 \notin IdsOf(selected)
  BY <1>3, RecordIds
<1>8. /\ Grown(table)
      /\ \A u \in Urls : table[u].status =
           IF view[u].id \in IdsOf(selected) THEN "processing" ELSE view[u].status
  BY <1>3, <1>7, SetTable, SetGrown DEF Status
<1> HIDE DEF table
<1>9. rolled' = (rolled \/ Lost(z))
  BY <1>1 DEF Noted
<1>10. undone' \subseteq Urls
  BY <1>1, <1>3, <1>6 DEF Noted, TypeOK, Gone, UrlsOf
<1>11. Effect(table, z)
  BY <1>1, <1>2, <1>5, <1>8, <1>9, WriteEffect
<1>12. TypeOK'
  BY <1>2, <1>3, <1>4, <1>6, <1>10, <1>11 DEF TypeOK, DbInv, TableOK, Effect, ThreadOnly, Places
<1>13. PlaceInv'
  BY <1>2, <1>3, <1>4 DEF PlaceInv, Arg, Working, ThreadOnly, Threads
<1>14. RecordInv'
  BY <1>3, <1>4, <1>6, <1>11, RecordsKept DEF Working
<1>15. InsertedInv'
  BY <1>2, <1>4, <1>11, InsertedKept
<1>16. LinksInv'
  BY <1>2, <1>3, <1>4, <1>6, <1>8, <1>11, LinksKept
<1>17. IssuedInv'
  <2>1. \A v \in issued \ undone : table[v].status \in Taken
    BY <1>3, <1>8 DEF IssuedInv, TypeOK, Taken
  <2>2. CASE UNCHANGED <<work, pc>> /\ Noted(z, {})
    <3>1. undone \subseteq undone'
      BY <2>2 DEF Noted
    <3>2. \A v \in issued' \ undone' : view'[v].status \in Taken
      BY <1>11, <2>1, <2>2, <3>1, IssuedKept DEF work
    <3> QED
      BY <1>3, <2>2, <3>1, <3>2 DEF IssuedInv, work, UrlsOf
  <2>3. CASE /\ handed' = selected /\ issued' = issued \cup UrlsOf(selected) /\ selected' = {}
             /\ Goto(t, IF stop THEN "idle" ELSE "select")
             /\ Noted(z, UrlsOf(IF z = "ok" THEN Gone ELSE selected))
    <3> DEFINE marks == UrlsOf(IF z = "ok" THEN Gone ELSE selected)
    <3>1. ASSUME NEW v \in issued \ undone' PROVE view'[v].status \in Taken
      <4>1. v \in issued \ undone /\ v \in Urls
        BY <2>3, <3>1, <1>3 DEF Noted, TypeOK
      <4>2. CASE Lost(z)
        <5>1. view'[v].status \notin {"uncheck", "none"}
          BY <2>3, <3>1, <4>2 DEF Noted
        <5>2. view'[v] \in Row \cup {NoRow}
          BY <1>11, <4>1 DEF Effect, DbInv, TableOK
        <5> QED
          BY <5>1, <5>2 DEF Row, NoRow, Status, Taken
      <4>3. CASE ~Lost(z)
        BY <1>3, <1>11, <2>1, <4>1, <4>3 DEF Effect, Seen, IssuedInv
      <4> QED
        BY <4>2, <4>3
    <3>2. ASSUME NEW v \in UrlsOf(selected) \ undone'
          PROVE  view'[v].status \in Taken
      <4>1. marks \subseteq undone'
        BY <2>3 DEF Noted
      <4>2. z = "ok" /\ v \notin UrlsOf(Gone)
        BY <3>2, <4>1
      <4>3. PICK r \in selected : r.url = v /\ view[v].id = r.id
        BY <3>2, <4>2 DEF UrlsOf, Gone
      <4>4. v \in Urls /\ view[v].id \in IdsOf(selected)
        BY <1>6, <3>2, <4>3 DEF IdsOf
      <4>5. table[v].status = "processing"
        BY <1>8, <4>4
      <4> QED
        BY <1>11, <4>2, <4>5 DEF Effect, Taken
    <3>3. pc'[Collector] \in {"idle", "select"}
      BY <1>2, <1>3, <2>3 DEF Goto, TypeOK
    <3> QED
      BY <2>3, <3>1, <3>2, <3>3 DEF IssuedInv
  <2> QED
    BY <1>1, <2>2, <2>3
<1> QED
  BY <1>11, <1>12, <1>13, <1>14, <1>15, <1>16, <1>17 DEF IInv, Effect
(* A commit that SQLite refuses or undoes is as if a statement had been:   *)
(* the links are then in a transaction nobody closes, or it is noted.      *)
LEMMA FinishStep == ASSUME IInv, NEW t \in Threads, Finish(t) PROVE IInv'
<1>1. PICK z \in Result :
        /\ Commit(z)
        /\ IF z = "ok"
           THEN /\ added' = added \cup Arg(t)
                /\ missed' = (missed \cup (short \ added)) \ (Arg(t) \ short)
           ELSE UNCHANGED <<added, missed>>
        /\ Noted(z, {})
  BY DEF Finish
<1>2. /\ pc[t] = "insert" /\ todo[t] = {}
      /\ short' = {} /\ mutex' = None /\ Goto(t, After(t))
      /\ UNCHANGED <<stop, page, todo, says, work, refused>>
  BY DEF Finish
<1>3. /\ TypeOK /\ DbInv /\ PlaceInv /\ IssuedInv /\ TransactionHasOwner
      /\ mutex = t /\ hasTx
      /\ {inTx, dirty, hasTx, rolled} \subseteq BOOLEAN
  BY <1>2 DEF IInv, TypeOK, TransactionHasOwner
<1>4. /\ DbInv' /\ Commits
      /\ {inTx', dirty'} \subseteq BOOLEAN
      /\ view' = view \/ (Lost(z) /\ view' = disk)
      /\ z = "ok" => inTx /\ disk' = view /\ view' = view /\ ~inTx'
      /\ ~hasTx' /\ other' = other
      /\ inTx' => inTx /\ dirty' /\ (Wal => faults' > 0)
  BY <1>1, <1>3, CommitStep
<1>5. hasTx' = FALSE
  BY <1>1, <1>3 DEF Commit
<1>6. /\ pc' \in [Threads -> Places] /\ ThreadOnly(t)
      /\ pc'[t] = After(t) /\ pc'[t] \in {"select", "lock"}
  BY <1>2, <1>3 DEF Goto, TypeOK, ThreadOnly, Places, After
<1>7. rolled' = (rolled \/ Lost(z)) /\ undone' \subseteq Urls
  BY <1>1, <1>3 DEF Noted, TypeOK
<1>8. \A s \in Threads : ~(pc'[s] \in {"insert", "update"})
  BY <1>3, <1>6 DEF TypeOK, ThreadOnly
<1>9. TransactionHasOwner'
  BY <1>4, <1>8 DEF TransactionHasOwner, Stuck, DbInv
<1>10. Arg(t) \subseteq Urls
  BY <1>2, <1>3, StoreAssumption DEF Arg, PlaceInv, Working, Threads, Records
<1>11. AddedIsDurable'
  <2>1. added \ missed \subseteq Rows(disk) /\ Rows(disk) \subseteq Rows(view)
    BY <1>3 DEF IInv, AddedIsDurable, DbInv
  <2>2. CASE z = "ok"
    <3>1. Arg(t) \ short \subseteq Rows(view)
      BY <1>2, <1>4, <2>2 DEF IInv, InsertedInv
    <3>2. SUFFICES ASSUME NEW u \in added \cup Arg(t),
                          u \notin (missed \cup (short \ added)) \ (Arg(t) \ short)
                   PROVE  u \in Rows(view)
      BY <1>1, <1>4, <2>2 DEF AddedIsDurable
    <3>3. CASE u \in Arg(t) \ short
      BY <3>1, <3>3
    <3>4. CASE u \notin Arg(t) \ short
      BY <2>1, <3>2, <3>4
    <3> QED
      BY <3>3, <3>4
  <2>3. CASE z # "ok"
    <3>1. Rows(disk) \subseteq Rows(disk')
      BY <1>4, <2>1 DEF Commits
    <3> QED
      BY <1>1, <2>1, <2>3, <3>1 DEF AddedIsDurable
  <2> QED
    BY <2>2, <2>3
<1>12. ASSUME ~rolled'
       PROVE  ~rolled /\ view' = view /\ \A u \in Urls : Covered(u) => Covered(u)'
  <2>1. ~rolled /\ view' = view
    BY <1>4, <1>7, <1>12
  <2> QED
    BY <1>2, <1>3, <2>1 DEF Covered, Stuck
<1>13. ASSUME LinksInv' PROVE FinishedLinksDurable'
  <2>1. SUFFICES ASSUME NEW u \in Urls, disk'[u].status = "finished", u \notin refused', ~rolled'
                 PROVE  Links[u] \subseteq Rows(disk')
    BY DEF FinishedLinksDurable
  <2>2. CASE disk' = disk
    BY <1>2, <1>12, <2>1, <2>2 DEF IInv, FinishedLinksDurable
  <2>3. CASE disk' = view' /\ ~inTx'
    BY <1>13, <2>1, <2>3 DEF LinksInv, Covered, Stuck
  <2> QED
    BY <1>4, <2>2, <2>3 DEF Commits
<1>14. Effect(view, z)
  <2>1. inTx' => view' = view
    BY <1>4 DEF Lost
  <2>2. z = "ok" => view' = view /\ (rolled' <=> rolled)
    BY <1>4, <1>7 DEF Lost
  <2>3. {inTx', dirty', hasTx', rolled'} \subseteq BOOLEAN
    BY <1>3, <1>4, <1>5, <1>7
  <2>4. other' \in {"none", "read", "write"}
    BY <1>3, <1>4 DEF TypeOK
  <2>5. Seen(view, z)
    BY <1>4 DEF Seen
  <2> QED
    BY <1>4, <1>9, <1>11, <1>12, <1>13, <2>1, <2>2, <2>3, <2>4, <2>5 DEF Effect
<1>15. TypeOK'
  <2>1. \A s \in Threads : mutex' # s
    BY <1>2, StoreAssumption
  <2>2. added' \subseteq Urls /\ missed' \subseteq Urls
    BY <1>1, <1>3, <1>10 DEF TypeOK
  <2> QED
    BY <1>2, <1>3, <1>6, <1>7, <1>8, <1>14, <2>1, <2>2 DEF TypeOK, DbInv, TableOK, Effect, Places, work
<1>16. PlaceInv'
  <2>1. PlaceAt(t)'
    BY <1>2, <1>3, <1>6 DEF PlaceAt, PlaceInv, Working, Threads, After
  <2> QED
    BY <1>3, <1>6, <2>1, PlaceKept
<1>17. RecordInv'
  BY <1>2, <1>6, <1>14, RecordsKept DEF Working, work, Carried, Threads
<1>18. InsertedInv'
  BY <1>8 DEF InsertedInv
<1>19. LinksInv'
  <2>1. ASSUME t \in Workers, ~rolled' PROVE Covered(page[t].url)'
    <3>1. page[t].url \in refused \/ Links[page[t].url] \subseteq Rows(view)
      BY <1>2, <1>12, <2>1 DEF IInv, LinksInv
    <3> QED
      BY <1>2, <1>12, <2>1, <3>1 DEF Covered
  <2>2. \A u \in Urls : view[u].status = "finished" => rolled \/ Covered(u)
    BY DEF IInv, LinksInv
  <2> QED
    BY <1>2, <1>6, <1>14, <2>1, <2>2, LinksKept DEF work
<1>20. IssuedInv'
  <2>1. /\ undone \subseteq undone'
        /\ \A v \in issued' \ undone' : view'[v].status \in Taken
    <3>1. \A v \in issued \ undone' : view[v].status \in Taken
      BY <1>1, <1>3 DEF Noted, IssuedInv
    <3> QED
      BY <1>1, <1>2, <1>14, <3>1, IssuedKept DEF work
  <2>2. \/ pc'[Collector] = pc[Collector]
        \/ pc[Collector] = "insert" /\ pc'[Collector] \notin {"mark", "recover"}
    BY <1>2, <1>6, StoreAssumption DEF ThreadOnly, Threads
  <2> QED
    BY <1>2, <1>3, <2>1, <2>2 DEF IssuedInv, work, UrlsOf
<1> QED
  BY <1>14, <1>15, <1>16, <1>17, <1>18, <1>19, <1>20 DEF IInv, Effect
-----------------------------------------------------------------------------
(* A step that touches neither the tables nor the history.                 *)
Quiet ==
  /\ UNCHANGED <<disk, view, inTx, dirty, hasTx, undone, refused, added, missed, rolled>>
  /\ faults' \in Nat /\ faults' >= faults
  /\ other' \in {"none", "read", "write"}

LEMMA QuietEffect ==
  ASSUME IInv, Quiet, SameOwner
  PROVE  /\ Effect(view, "ok")
         /\ issued' = issued => \A u \in issued' \ undone' : view'[u].status \in Taken
<1>1. /\ DbInv /\ TransactionHasOwner /\ AddedIsDurable /\ FinishedLinksDurable
      /\ {inTx, dirty, hasTx, rolled} \subseteq BOOLEAN
  BY DEF IInv, TypeOK
<1>2. DbInv' /\ AddedIsDurable' /\ FinishedLinksDurable'
  BY <1>1 DEF Quiet, DbInv, AddedIsDurable, FinishedLinksDurable
<1>3. TransactionHasOwner'
  <2>1. faults > 0 => faults' > 0
    BY <1>1 DEF Quiet, DbInv
  <2> QED
    BY <1>1, <2>1 DEF Quiet, TransactionHasOwner, SameOwner, Stuck
<1>4. \A u \in Urls : Covered(u) => Covered(u)'
  BY DEF Quiet, Covered, Stuck
<1>5. {inTx', dirty', hasTx', rolled'} \subseteq BOOLEAN /\ (rolled' <=> rolled)
  BY <1>1 DEF Quiet
<1>6. inTx' => inTx
  BY DEF Quiet
<1>7. view' = view /\ other' \in {"none", "read", "write"}
  BY DEF Quiet
<1>8. Effect(view, "ok")
  BY <1>2, <1>3, <1>4, <1>5, <1>6, <1>7 DEF Effect, Seen
<1>9. issued' = issued => \A u \in issued' \ undone' : view'[u].status \in Taken
  BY DEF Quiet, IInv, IssuedInv
<1> QED
  BY <1>8, <1>9

LEMMA BeginStep == ASSUME IInv, NEW t \in Threads, Begin(t) PROVE IInv'
<1>1. PICK z \in Result :
        /\ BeginTransact(z)
        /\ mutex' = IF z = "ok" THEN t ELSE None
        /\ Goto(t, IF z = "ok" THEN "insert" ELSE After(t))
        /\ todo' = IF z = "ok" THEN todo ELSE [todo EXCEPT ![t] = {}]
  BY DEF Begin
<1>2. /\ pc[t] = "begin" /\ mutex = None
      /\ UNCHANGED <<stop, page, short, says, work, history>>
  BY DEF Begin
<1>3. /\ TypeOK /\ DbInv /\ PlaceInv /\ IssuedInv /\ TransactionHasOwner
      /\ {inTx, dirty, hasTx, rolled} \subseteq BOOLEAN
  BY <1>2 DEF IInv, TypeOK
<1>4. /\ \A s \in Threads : pc[s] \notin {"insert", "update"}
      /\ ~hasTx
  <2>1. \A s \in Threads : mutex # s
    BY <1>2, StoreAssumption
  <2> QED
    BY <1>3, <2>1 DEF TypeOK, TransactionHasOwner
<1>5. /\ UNCHANGED <<disk, view, dirty, faults, other>>
      /\ \/ z = "ok" /\ ~inTx /\ inTx' = TRUE /\ hasTx' = TRUE
         \/ z = "error" /\ inTx /\ UNCHANGED <<inTx, hasTx>>
  BY <1>1 DEF BeginTransact
<1>6. /\ pc' \in [Threads -> Places] /\ todo' \in [Threads -> SUBSET Urls]
      /\ ThreadOnly(t)
      /\ pc'[t] = IF z = "ok" THEN "insert" ELSE After(t)
      /\ todo'[t] = IF z = "ok" THEN todo[t] ELSE {}
      /\ \A s \in Threads : todo'[s] \subseteq todo[s]
  BY <1>1, <1>2, <1>3 DEF Goto, TypeOK, ThreadOnly, Places, After
<1>7. /\ \A s \in Threads : pc'[s] \in {"insert", "update"} => s = t /\ z = "ok" /\ pc'[s] = "insert"
      /\ z = "ok" => pc'[t] = "insert" /\ mutex' = t
  BY <1>1, <1>4, <1>6 DEF ThreadOnly, After
<1>8. TransactionHasOwner'
  <2>1. hasTx' <=> \E s \in Threads : mutex' = s /\ pc'[s] = "insert"
    BY <1>4, <1>5, <1>7
  <2>2. Stuck' => dirty' /\ (Wal => faults' > 0)
    BY <1>3, <1>5 DEF Stuck, TransactionHasOwner
  <2> QED
    BY <1>3, <1>5, <2>1, <2>2 DEF TransactionHasOwner
<1>9. DbInv'
  BY <1>3, <1>5 DEF DbInv
<1>10. AddedIsDurable' /\ FinishedLinksDurable'
  BY <1>2, <1>5 DEF IInv, AddedIsDurable, FinishedLinksDurable, history
<1>11. \A u \in Urls : Covered(u) => Covered(u)'
  BY <1>2, <1>5 DEF Covered, Stuck, history
<1>12. Effect(view, z)
  <2>1. {inTx', dirty', hasTx', rolled'} \subseteq BOOLEAN /\ (rolled' <=> rolled)
    BY <1>2, <1>3, <1>5 DEF history
  <2>2. other' \in {"none", "read", "write"} /\ view' = view
    BY <1>3, <1>5 DEF TypeOK
  <2> QED
    BY <1>4, <1>8, <1>9, <1>10, <1>11, <2>1, <2>2 DEF Effect, Seen
<1>13. TypeOK'
  <2>1. mutex' \in Threads \cup {None}
    BY <1>1
  <2>2. \A s \in Threads : mutex' = s <=> pc'[s] \in {"insert", "update"}
    BY <1>1, <1>5, <1>7, StoreAssumption
  <2> QED
    BY <1>2, <1>3, <1>6, <1>12, <2>1, <2>2 DEF TypeOK, DbInv, TableOK, Effect, Places, work, history
<1>14. PlaceInv'
  BY <1>2, <1>3, <1>6, StoreAssumption DEF PlaceInv, Arg, Working, ThreadOnly, Threads, After
<1>15. RecordInv'
  BY <1>2, <1>6, <1>12, RecordsKept DEF Working, work, Carried, Threads, After
<1>16. InsertedInv'
  <2>1. Arg(t) = todo[t] /\ Arg(t)' = Arg(t)
    BY <1>2, <1>3 DEF PlaceInv, Arg
  <2>2. pc'[t] = "insert" => Arg(t)' \ (todo'[t] \cup short') = {}
    BY <1>6, <1>7, <2>1 DEF After
  <2> QED
    BY <1>2, <1>6, <1>12, <2>2, InsertedKept
<1>17. LinksInv'
  <2>1. ASSUME t \in Workers
        PROVE  /\ pc'[t] = "lock" => Covered(page[t].url)'
               /\ pc'[t] # "update"
               /\ pc'[t] = "insert" => Links[page'[t].url] \ todo'[t] \subseteq Rows(view')
    <3>1. CASE z = "ok"
      <4>1. Links[page[t].url] = todo[t]
        BY <1>2, <1>3, <2>1, StoreAssumption DEF PlaceInv, Arg, Threads
      <4> QED
        BY <1>2, <1>6, <3>1, <4>1
    <3>2. CASE z # "ok"
      <4>1. Stuck'
        BY <1>4, <1>5, <3>2 DEF Stuck
      <4> QED
        BY <1>6, <3>2, <4>1 DEF Covered, After
    <3> QED
      BY <3>1, <3>2
  <2> QED
    BY <1>2, <1>3, <1>6, <1>12, <2>1, LinksKept DEF history, work
<1>18. IssuedInv'
  <2>1. \/ pc'[Collector] = pc[Collector]
        \/ pc[Collector] = "begin" /\ pc'[Collector] \notin {"mark", "recover"}
    BY <1>2, <1>6, StoreAssumption DEF ThreadOnly, Threads, After
  <2> QED
    BY <1>2, <1>3, <1>5, <2>1 DEF IssuedInv, work, UrlsOf, history
<1> QED
  BY <1>12, <1>10, <1>13, <1>14, <1>15, <1>16, <1>17, <1>18 DEF IInv, Effect
(* A step that leaves the database alone.                                  *)
LEMMA FaultsNat == ASSUME IInv, faults' = faults \/ faults' = faults + 1
                   PROVE  faults' \in Nat /\ faults' >= faults
BY DEF IInv, DbInv

LEMMA FinishedCovered ==
  ASSUME IInv
  PROVE  \A u \in Urls : view[u].status = "finished" => rolled \/ Covered(u)
BY DEF IInv, LinksInv

LEMMA SelectStep == ASSUME IInv, NEW t \in Threads, Select(t) PROVE IInv'
<1>1. /\ t = Collector /\ pc[t] = "select" /\ handed = {}
      /\ selected' \in Oldest \/ selected' = selected
      /\ Goto(t, IF selected' # {} THEN "mark" ELSE IF stop THEN "idle" ELSE "select")
      /\ UNCHANGED <<db, stop, page, todo, short, says, mutex, handed, out, over, issued, history>>
  BY DEF Select, Read
<1>2. TypeOK /\ TableOK(view) /\ PlaceInv /\ IssuedInv /\ t \notin Workers
  BY <1>1, StoreAssumption DEF IInv, DbInv
<1>3. /\ pc' \in [Threads -> Places] /\ ThreadOnly(t)
      /\ pc'[t] \in {"idle", "select", "mark"}
  BY <1>1, <1>2 DEF Goto, TypeOK, ThreadOnly, Places
<1>4. Quiet /\ SameOwner
  BY <1>1, <1>2, <1>3, FaultsNat DEF Quiet, SameOwner, ThreadOnly, TypeOK, db, history
<1>5. /\ Effect(view, "ok")
      /\ \A u \in issued' \ undone' : view'[u].status \in Taken
  BY <1>1, <1>4, QuietEffect
<1>6. ASSUME NEW r \in selected'
      PROVE  r \in selected \/ /\ r \in Records /\ r.url \in Urls
                               /\ view[r.url].id = r.id
                               /\ view[r.url].status = "uncheck"
  <2>1. SUFFICES ASSUME selected' \in Oldest
                 PROVE  /\ r \in Records /\ r.url \in Urls
                        /\ view[r.url].id = r.id /\ view[r.url].status = "uncheck"
    BY <1>1, <1>6
  <2>2. PICK u \in Urls : view[u].status = "uncheck" /\ r = Record(u)
    BY <1>6, <2>1 DEF Oldest
  <2>3. view[u].id \in Nat \ {0}
    BY <1>2, <2>2 DEF TableOK, Row, NoRow
  <2> QED
    BY <2>2, <2>3 DEF Record, Records
<1>7. selected' \subseteq Records
  BY <1>2, <1>6 DEF TypeOK
<1>8. TypeOK'
  BY <1>1, <1>2, <1>3, <1>5, <1>7 DEF TypeOK, DbInv, TableOK, Effect, ThreadOnly, Places, history
<1>9. PlaceInv'
  BY <1>1, <1>2, <1>3 DEF PlaceInv, Arg, Working, ThreadOnly, Threads
<1>10. RecordInv'
  <2>1. SUFFICES ASSUME ~rolled',
                        NEW r \in selected' \cup Carried
                 PROVE  view'[r.url].id = r.id
    BY <1>1, <1>2, <1>3 DEF RecordInv, Carried, Working, ThreadOnly, Threads
  <2> QED
    BY <1>1, <1>4, <1>6, <2>1 DEF IInv, RecordInv, Carried, Quiet
<1>11. InsertedInv'
  BY <1>1, <1>3, <1>5, InsertedKept
<1>12. LinksInv'
  BY <1>1, <1>2, <1>3, <1>5, FinishedCovered, LinksKept DEF history
<1>13. IssuedInv'
  <2>1. selected = {} /\ issued' = issued /\ undone' = undone
    BY <1>1, <1>2 DEF IssuedInv, history
  <2>2. ASSUME NEW u \in UrlsOf(selected') PROVE u \notin issued \ undone
    <3>1. PICK r \in selected' : u = r.url
      BY <2>2 DEF UrlsOf
    <3> QED
      BY <1>2, <1>6, <2>1, <3>1 DEF IssuedInv, Taken
  <2>3. pc'[t] = "select" => selected' = {}
    BY <1>1, <1>2, <2>1 DEF Goto, TypeOK
  <2> QED
    BY <1>1, <1>3, <1>5, <2>1, <2>2, <2>3 DEF IssuedInv
<1> QED
  BY <1>5, <1>8, <1>9, <1>10, <1>11, <1>12, <1>13 DEF IInv, Effect
LEMMA QuitStep == ASSUME IInv, NEW t \in Threads, Quit(t) PROVE IInv'
<1>1. /\ t = Collector /\ pc[t] = "select" /\ Goto(t, "idle")
      /\ UNCHANGED <<db, stop, page, todo, short, says, mutex, work, history>>
  BY DEF Quit
<1>2. TypeOK /\ TableOK(view) /\ PlaceInv /\ IssuedInv /\ t \notin Workers
  BY <1>1, StoreAssumption DEF IInv, DbInv
<1>3. pc' \in [Threads -> Places] /\ ThreadOnly(t) /\ pc'[t] = "idle"
  BY <1>1, <1>2 DEF Goto, TypeOK, ThreadOnly, Places
<1>4. Quiet /\ SameOwner
  BY <1>1, <1>2, <1>3, FaultsNat DEF Quiet, SameOwner, ThreadOnly, TypeOK, db, history
<1>5. Effect(view, "ok")
  BY <1>4, QuietEffect
<1>6. TypeOK'
  BY <1>1, <1>2, <1>3, <1>5
     DEF TypeOK, DbInv, TableOK, Effect, ThreadOnly, Places, history, work
<1>7. PlaceInv'
  BY <1>1, <1>2, <1>3 DEF PlaceInv, Arg, Working, ThreadOnly, Threads
<1>8. RecordInv'
  BY <1>1, <1>2, <1>3, <1>5, RecordsKept DEF Working, Carried, work
<1>9. InsertedInv'
  BY <1>1, <1>3, <1>5, InsertedKept
<1>10. LinksInv'
  BY <1>1, <1>2, <1>3, <1>5, FinishedCovered, LinksKept DEF history, work
<1>11. IssuedInv'
  BY <1>1, <1>2, <1>3, <1>4, QuietEffect DEF IssuedInv, history, UrlsOf, Quiet, work
<1> QED
  BY <1>5, <1>6, <1>7, <1>8, <1>9, <1>10, <1>11 DEF IInv, Effect

LEMMA LoadStep == ASSUME IInv, NEW t \in Threads, Load(t) PROVE IInv'
<1>1. PICK r \in handed :
        /\ handed' = handed \ {r} /\ out' = out \cup {r}
        /\ page' = [page EXCEPT ![t] = r]
  BY DEF Load
<1>2. /\ t \in Workers /\ pc[t] = "idle" /\ Goto(t, "late")
      /\ UNCHANGED <<db, stop, todo, short, says, mutex, selected, over, issued, history>>
  BY StoreAssumption DEF Load
<1>3. TypeOK /\ TableOK(view) /\ PlaceInv /\ IssuedInv /\ t # Collector
  BY <1>2, StoreAssumption DEF IInv, DbInv
<1>4. r \in Records /\ r \in Carried
  BY <1>3 DEF TypeOK, Carried
<1>5. /\ pc' \in [Threads -> Places] /\ ThreadOnly(t)
      /\ pc'[t] = "late" /\ page'[t] = r
  BY <1>1, <1>2, <1>3 DEF Goto, TypeOK, ThreadOnly, Places
<1>6. Quiet /\ SameOwner
  BY <1>2, <1>3, <1>5, FaultsNat DEF Quiet, SameOwner, ThreadOnly, TypeOK, db, history
<1>7. Effect(view, "ok")
  BY <1>6, QuietEffect
<1>8. TypeOK'
  BY <1>1, <1>2, <1>3, <1>4, <1>5, <1>7 DEF TypeOK, DbInv, TableOK, Effect, ThreadOnly, Places, history
<1>9. PlaceInv'
  <2>1. PlaceAt(t)'
    BY <1>2, <1>4, <1>5 DEF PlaceAt, Working
  <2> QED
    BY <1>2, <1>3, <1>5, <2>1, PlaceKept
<1>10. RecordInv'
  <2>1. selected' \cup handed' \cup out' \cup over' \subseteq Carried
    BY <1>1, <1>2 DEF Carried
  <2> QED
    BY <1>4, <1>5, <1>7, <2>1, RecordsKept
<1>11. InsertedInv'
  BY <1>2, <1>5, <1>7, InsertedKept
<1>12. LinksInv'
  BY <1>2, <1>5, <1>7, FinishedCovered, LinksKept DEF history
<1>13. IssuedInv'
  BY <1>2, <1>3, <1>5, <1>6, QuietEffect DEF IssuedInv, history, UrlsOf, ThreadOnly, Threads, Quiet
<1> QED
  BY <1>7, <1>8, <1>9, <1>10, <1>11, <1>12, <1>13 DEF IInv, Effect

LEMMA DigestStep == ASSUME IInv, NEW t \in Threads, Digest(t) PROVE IInv'
<1>1. PICK r \in out :
        /\ page' = [page EXCEPT ![t] = r]
        /\ todo' = [todo EXCEPT ![t] = Links[r.url]]
        /\ Goto(t, IF Links[r.url] = {} THEN "lock" ELSE "begin")
  BY DEF Digest
<1>2. /\ t \in Workers /\ pc[t] = "idle"
      /\ UNCHANGED <<db, stop, short, says, mutex, work, history>>
  BY DEF Digest
<1>3. TypeOK /\ TableOK(view) /\ PlaceInv /\ IssuedInv /\ t # Collector
  BY <1>2, StoreAssumption DEF IInv, DbInv
<1>4. r \in Records /\ r \in Carried /\ r.url \in Urls /\ Links[r.url] \subseteq Urls
  BY <1>3, StoreAssumption DEF TypeOK, Records, Carried
<1>5. /\ pc' \in [Threads -> Places] /\ ThreadOnly(t)
      /\ pc'[t] = IF Links[r.url] = {} THEN "lock" ELSE "begin"
      /\ page'[t] = r /\ todo'[t] = Links[r.url]
  BY <1>1, <1>3 DEF Goto, TypeOK, ThreadOnly, Places
<1>6. Quiet /\ SameOwner
  BY <1>2, <1>3, <1>5, FaultsNat DEF Quiet, SameOwner, ThreadOnly, TypeOK, db, history
<1>7. Effect(view, "ok")
  BY <1>6, QuietEffect
<1>8. TypeOK'
  BY <1>1, <1>2, <1>3, <1>4, <1>5, <1>7
     DEF TypeOK, DbInv, TableOK, Effect, ThreadOnly, Places, history, work
<1>9. PlaceInv'
  <2>1. PlaceAt(t)'
    BY <1>2, <1>3, <1>4, <1>5 DEF PlaceAt, Working, Arg
  <2> QED
    BY <1>3, <1>5, <2>1, PlaceKept
<1>10. RecordInv'
  <2>1. selected' \cup handed' \cup out' \cup over' \subseteq Carried
    BY <1>2 DEF Carried, work
  <2> QED
    BY <1>4, <1>5, <1>7, <2>1, RecordsKept
<1>11. InsertedInv'
  BY <1>2, <1>5, <1>7, InsertedKept
<1>12. LinksInv'
  <2>1. pc'[t] = "lock" => Covered(page[t].url)'
    BY <1>5 DEF Covered
  <2> QED
    BY <1>2, <1>5, <1>7, <2>1, FinishedCovered, LinksKept DEF history, work
<1>13. IssuedInv'
  BY <1>2, <1>3, <1>5, <1>6, QuietEffect
     DEF IssuedInv, history, UrlsOf, ThreadOnly, Threads, Quiet, work
<1> QED
  BY <1>7, <1>8, <1>9, <1>10, <1>11, <1>12, <1>13 DEF IInv, Effect

LEMMA LockStep == ASSUME IInv, NEW t \in Threads, Lock(t) PROVE IInv'
<1>1. /\ pc[t] = "lock" /\ mutex = None /\ mutex' = t /\ Goto(t, "update")
      /\ says' \in Status
      /\ out' = out \ {page[t]} /\ over' = over \cup {page[t]}
      /\ UNCHANGED <<db, stop, page, todo, short, selected, handed, issued, history>>
  BY DEF Lock, ClientSays
<1>2. TypeOK /\ TableOK(view) /\ PlaceInv /\ IssuedInv /\ t \in Workers /\ t # Collector
  BY <1>1, StoreAssumption DEF IInv, DbInv, PlaceInv
<1>3. pc' \in [Threads -> Places] /\ ThreadOnly(t) /\ pc'[t] = "update"
  BY <1>1, <1>2 DEF Goto, TypeOK, ThreadOnly, Places
<1>4. \A s \in Threads : pc[s] \notin {"insert", "update"}
  BY <1>1, <1>2, StoreAssumption DEF TypeOK
<1>5. Quiet /\ SameOwner
  BY <1>1, <1>2, <1>3, <1>4, FaultsNat DEF Quiet, SameOwner, ThreadOnly, TypeOK, db, history
<1>6. Effect(view, "ok")
  BY <1>5, QuietEffect
<1>7. page[t] \in Records /\ page[t] \in Carried /\ page'[t] = page[t]
  BY <1>1, <1>2 DEF PlaceInv, Working, Carried
<1>8. TypeOK'
  <2>1. \A s \in Threads : mutex' = s <=> pc'[s] \in {"insert", "update"}
    BY <1>1, <1>3, <1>4 DEF ThreadOnly
  <2> QED
    BY <1>1, <1>2, <1>3, <1>6, <1>7, <2>1
       DEF TypeOK, DbInv, TableOK, Effect, ThreadOnly, Places, history
<1>9. PlaceInv'
  BY <1>1, <1>2, <1>3 DEF PlaceInv, Arg, Working, ThreadOnly, Threads
<1>10. RecordInv'
  <2>1. selected' \cup handed' \cup out' \cup over' \subseteq Carried
    BY <1>1, <1>7 DEF Carried
  <2> QED
    BY <1>3, <1>6, <1>7, <2>1, RecordsKept
<1>11. InsertedInv'
  BY <1>1, <1>3, <1>6, InsertedKept
<1>12. LinksInv'
  <2>1. ASSUME ~rolled' PROVE Covered(page[t].url)'
    BY <1>1, <1>2, <1>5, <2>1 DEF IInv, LinksInv, Covered, Stuck, Quiet
  <2>2. ASSUME ~rolled', NEW r \in over' \ over PROVE Covered(r.url)'
    <3>1. r = page[t] /\ page' = page
      BY <1>1, <2>2
    <3> QED
      BY <2>1, <2>2, <3>1 DEF Covered
  <2> QED
    BY <1>1, <1>3, <1>6, <2>1, <2>2, FinishedCovered, LinksKept DEF history
<1>13. IssuedInv'
  BY <1>1, <1>2, <1>3, <1>5, QuietEffect DEF IssuedInv, history, UrlsOf, ThreadOnly, Threads, Quiet
<1> QED
  BY <1>6, <1>8, <1>9, <1>10, <1>11, <1>12, <1>13 DEF IInv, Effect

(* A client says FINISHED only of a page whose links are there, for        *)
(* whatever url it is used by now.                                         *)
LEMMA LateLockStep == ASSUME IInv, NEW t \in Threads, LateLock(t) PROVE IInv'
<1>1. PICK r \in UsedFor(page[t]) :
        page' = [page EXCEPT ![t] = r] /\ says' \in ClientSays(r)
  BY DEF LateLock
<1>2. /\ pc[t] = "late" /\ mutex = None /\ mutex' = t /\ Goto(t, "update")
      /\ faults' = faults \/ faults' = faults + 1
      /\ UNCHANGED <<disk, view, inTx, dirty, hasTx, other, stop, todo, short, work, history>>
  BY DEF LateLock
<1>3. TypeOK /\ TableOK(view) /\ PlaceInv /\ IssuedInv /\ t \in Workers /\ t # Collector
  BY <1>2, StoreAssumption DEF IInv, DbInv, PlaceInv
<1>4. pc' \in [Threads -> Places] /\ ThreadOnly(t) /\ pc'[t] = "update" /\ page'[t] = r
  BY <1>1, <1>2, <1>3 DEF Goto, TypeOK, ThreadOnly, Places
<1>5. r \in Carried /\ r \in Records /\ r.url \in Urls /\ says' \in Status
  BY <1>1, <1>2, <1>3 DEF PlaceInv, Working, Carried, UsedFor, TypeOK, Records, ClientSays
<1>6. \A s \in Threads : pc[s] \notin {"insert", "update"}
  BY <1>2, <1>3, StoreAssumption DEF TypeOK
<1>7. Quiet /\ SameOwner
  BY <1>2, <1>3, <1>4, <1>6, FaultsNat DEF Quiet, SameOwner, ThreadOnly, TypeOK, history
<1>8. Effect(view, "ok")
  BY <1>7, QuietEffect
<1>9. TypeOK'
  <2>1. \A s \in Threads : mutex' = s <=> pc'[s] \in {"insert", "update"}
    BY <1>2, <1>4, <1>6 DEF ThreadOnly
  <2> QED
    BY <1>1, <1>2, <1>3, <1>4, <1>5, <1>8, <2>1
       DEF TypeOK, DbInv, TableOK, Effect, ThreadOnly, Places, history, work
<1>10. PlaceInv'
  <2>1. PlaceAt(t)'
    BY <1>3, <1>4, <1>5 DEF PlaceAt, Working
  <2> QED
    BY <1>2, <1>3, <1>4, <2>1, PlaceKept DEF ThreadOnly
<1>11. RecordInv'
  <2>1. selected' \cup handed' \cup out' \cup over' \subseteq Carried
    BY <1>2 DEF Carried, work
  <2> QED
    BY <1>4, <1>5, <1>8, <2>1, RecordsKept
<1>12. InsertedInv'
  BY <1>2, <1>4, <1>8, InsertedKept
<1>13. LinksInv'
  <2>1. ASSUME ~rolled', says' = "finished" PROVE Covered(r.url)
    <3>1. r \in over \/ \E s \in Workers : pc[s] = "lock" /\ page[s] = r
      BY <1>1, <2>1 DEF ClientSays
    <3>2. LinksInv /\ ~rolled
      BY <1>7, <2>1 DEF IInv, Quiet
    <3> QED
      BY <3>1, <3>2 DEF LinksInv
  <2>2. ASSUME ~rolled', says' = "finished" PROVE Covered(page[t].url)'
    <3>1. PICK u \in Urls : u = r.url
      BY <1>5
    <3>2. Covered(u)'
      BY <1>7, <2>1, <2>2, <3>1 DEF Covered, Stuck, Quiet
    <3> QED
      BY <1>4, <3>1, <3>2 DEF Covered
  <2> QED
    BY <1>2, <1>4, <1>8, <2>2, FinishedCovered, LinksKept DEF history, work
<1>14. IssuedInv'
  BY <1>2, <1>3, <1>4, <1>7, QuietEffect
     DEF IssuedInv, history, UrlsOf, ThreadOnly, Threads, Quiet, work
<1> QED
  BY <1>8, <1>9, <1>10, <1>11, <1>12, <1>13, <1>14 DEF IInv, Effect

LEMMA OutsideStep ==
  ASSUME IInv, Stop \/ Environment \/ UNCHANGED vars
  PROVE  IInv'
<1>1. /\ UNCHANGED <<disk, view, inTx, dirty, hasTx, faults>> /\ UNCHANGED <<user, work, history>>
      /\ stop' \in BOOLEAN /\ other' \in {"none", "read", "write"}
  BY DEF Stop, Environment, OtherProcess, vars, db, IInv, TypeOK
<1>2. Quiet /\ SameOwner
  BY <1>1, FaultsNat DEF Quiet, SameOwner, history, user
<1>3. Effect(view, "ok") /\ \A u \in issued' \ undone' : view'[u].status \in Taken
  BY <1>1, <1>2, QuietEffect DEF work
<1>4. TypeOK /\ PlaceInv /\ RecordInv /\ InsertedInv /\ LinksInv /\ IssuedInv
  BY DEF IInv
<1>5. TypeOK'
  BY <1>1, <1>3, <1>4 DEF TypeOK, DbInv, TableOK, Effect, user, work, history
<1>6. PlaceInv'
  BY <1>1, <1>4 DEF PlaceInv, Arg, Working, user
<1>7. RecordInv'
  BY <1>1, <1>4 DEF RecordInv, Carried, Working, user, work, history
<1>8. InsertedInv'
  BY <1>1, <1>4 DEF InsertedInv, Arg, user
<1>9. LinksInv'
  BY <1>1, <1>4 DEF LinksInv, Covered, Stuck, user, work, history
<1>10. IssuedInv'
  BY <1>1, <1>3, <1>4 DEF IssuedInv, UrlsOf, user, work, history
<1> QED
  BY <1>3, <1>5, <1>6, <1>7, <1>8, <1>9, <1>10 DEF IInv, Effect

(* A restart finds the file only.                                          *)
LEMMA RestartStep == ASSUME IInv, Exit \/ Crash PROVE IInv'
<1>1. (Closed \/ Close) /\ Restarted
  BY DEF Exit, Crash
<1>2. /\ TypeOK /\ DbInv /\ AddedIsDurable /\ LinksInv /\ FinishedLinksDurable
      /\ {inTx, dirty, hasTx} \subseteq BOOLEAN
  BY DEF IInv, TypeOK
<1>3. /\ DbInv' /\ view' = disk' /\ ~inTx' /\ ~dirty' /\ ~hasTx'
      /\ {inTx', dirty', hasTx'} \subseteq BOOLEAN
      /\ other' = other
      /\ disk' = disk \/ (disk' = view /\ hasTx)
  BY <1>1, <1>2, EndStep
<1>4. /\ stop' = FALSE /\ mutex' = None /\ pc' = Fresh(Threads)
      /\ page' = [t \in Threads |-> None] /\ todo' = [t \in Threads |-> {}]
      /\ short' = {} /\ says' = "finished" /\ issued' = {} /\ undone' = {}
      /\ selected' = {} /\ handed' = {} /\ out' = {} /\ over' = {}
      /\ UNCHANGED <<refused, added, missed, rolled>>
  BY <1>1 DEF Restarted
<1>5. /\ pc' \in [Threads -> Places]
      /\ \A t \in Threads : pc'[t] \in {"idle", "recover"} /\ (pc'[t] = "recover" => t = Collector)
      /\ pc'[Collector] = "recover"
  BY <1>4 DEF Fresh, Places, Threads
<1>6. TransactionHasOwner'
  BY <1>3, <1>5 DEF TransactionHasOwner, Stuck
<1>7. AddedIsDurable'
  BY <1>2, <1>3, <1>4 DEF AddedIsDurable, DbInv
<1>8. FinishedLinksDurable'
  <2>1. CASE disk' = disk
    BY <1>2, <1>4, <2>1 DEF FinishedLinksDurable
  <2>2. CASE disk' = view /\ hasTx
    BY <1>2, <1>4, <2>2 DEF FinishedLinksDurable, LinksInv, Covered, Stuck
  <2> QED
    BY <1>3, <2>1, <2>2
<1>9. TypeOK'
  <2>1. \A t \in Threads : mutex' # t
    BY <1>4, StoreAssumption
  <2>2. {disk', view'} \subseteq [Urls -> Row \cup {NoRow}]
    BY <1>3 DEF DbInv, TableOK
  <2>3. {inTx', dirty', hasTx', stop', rolled'} \subseteq BOOLEAN
    BY <1>2, <1>3, <1>4 DEF TypeOK
  <2>4. /\ page' \in [Threads -> Records \cup {None}] /\ todo' \in [Threads -> SUBSET Urls]
        /\ says' \in Status /\ {selected', handed', out', over'} \subseteq SUBSET Records
    BY <1>4 DEF Status
  <2>5. {issued', undone', short', refused', added', missed'} \subseteq SUBSET Urls
    BY <1>2, <1>4 DEF TypeOK
  <2>6. \A t \in Threads : mutex' = t <=> pc'[t] \in {"insert", "update"}
    BY <1>5, <2>1
  <2> QED
    BY <1>2, <1>3, <1>4, <1>5, <2>2, <2>3, <2>4, <2>5, <2>6 DEF TypeOK, Places
<1>10. PlaceInv'
  BY <1>5, StoreAssumption DEF PlaceInv, Working, Threads
<1>11. RecordInv'
  BY <1>4, <1>5 DEF RecordInv, Carried, Working, Threads
<1>12. InsertedInv'
  BY <1>5 DEF InsertedInv
<1>13. LinksInv'
  BY <1>3, <1>4, <1>5, <1>8 DEF LinksInv, FinishedLinksDurable, Covered, Threads
<1>14. IssuedInv'
  BY <1>4, <1>5 DEF IssuedInv, UrlsOf
<1> QED
  BY <1>3, <1>6, <1>7, <1>8, <1>9, <1>10, <1>11, <1>12, <1>13, <1>14 DEF IInv
-----------------------------------------------------------------------------
LEMMA InitInv == Init => IInv
<1> SUFFICES ASSUME Init PROVE IInv
  OBVIOUS
<1>1. /\ disk = [u \in Urls |-> NoRow] /\ view = disk
      /\ inTx = FALSE /\ dirty = FALSE /\ hasTx = FALSE /\ faults = 0 /\ other = "none"
      /\ stop = FALSE /\ mutex = None /\ pc = Fresh(Threads)
      /\ page = [t \in Threads |-> None] /\ todo = [t \in Threads |-> {}]
      /\ short = {} /\ says = "finished" /\ issued = {}
      /\ selected = {} /\ handed = {} /\ out = {} /\ over = {}
      /\ undone = {} /\ refused = {} /\ added = {} /\ missed = {} /\ rolled = FALSE
  BY DEF Init, OpenDB
<1>2. Rows(disk) = {}
  BY <1>1 DEF Rows
<1>3. TableOK(disk)
  BY <1>1, <1>2, FS_EmptySet DEF TableOK, NoRow
<1>4. DbInv
  BY <1>1, <1>3 DEF DbInv
<1>5. /\ pc \in [Threads -> Places]
      /\ \A t \in Threads : pc[t] \in {"idle", "recover"} /\ (pc[t] = "recover" => t = Collector)
  BY <1>1 DEF Fresh, Places, Threads
<1>6. TypeOK
  <2>1. \A t \in Threads : mutex # t
    BY <1>1, StoreAssumption
  <2> QED
    BY <1>1, <1>3, <1>5, <2>1 DEF TypeOK, TableOK, Places, Status
<1>7. TransactionHasOwner /\ AddedIsDurable
  BY <1>1, <1>5 DEF TransactionHasOwner, Stuck, AddedIsDurable
<1>8. LinksInv /\ FinishedLinksDurable
  BY <1>1, <1>5, StoreAssumption DEF LinksInv, FinishedLinksDurable, NoRow, Threads
<1>9. PlaceInv /\ InsertedInv
  BY <1>5, StoreAssumption DEF PlaceInv, Working, Threads, InsertedInv
<1>10. RecordInv
  BY <1>1, <1>5 DEF RecordInv, Carried, Working, Threads
<1>11. IssuedInv
  BY <1>1 DEF IssuedInv, UrlsOf
<1> QED
  BY <1>4, <1>6, <1>7, <1>8, <1>9, <1>10, <1>11 DEF IInv

(* The inductive invariant holds in every state, whatever the environment  *)
(* does and however often the process dies.                                *)
THEOREM Safety == Spec => []IInv
<1>1. ASSUME IInv, [Next]_vars PROVE IInv'
  <2>1. ASSUME NEW t \in Threads, Step(t) PROVE IInv'
    BY <1>1, <2>1, RecoverStep, BeginStep, InsertStep, FinishStep, SelectStep, QuitStep,
       MarkStep, LoadStep, LateLockStep, DigestStep, LockStep, UpdateStep DEF Step
  <2> QED
    BY <1>1, <2>1, OutsideStep, RestartStep DEF Next
<1> QED
  BY <1>1, InitInv, PTL DEF Spec

(* The types, and which thread owns m_dbMutex.                             *)
THEOREM TypeCorrect == Spec => []TypeOK
BY Safety, PTL DEF IInv

(* beginTransact and commit are only called with m_dbMutex, and what they  *)
(* leave behind is as TransactionHasOwner says.                            *)
THEOREM TransactionsOwned == Spec => []TransactionHasOwner
BY Safety, PTL DEF IInv

(* What addRecords reports as added is in the file from then on, but for   *)
(* the names whose insert it saw refused and only logged.                  *)
THEOREM AddedStays == Spec => []AddedIsDurable
BY Safety, PTL DEF IInv

(* A finished page has its links in the file, with the named exceptions.   *)
THEOREM FinishedHasLinks == Spec => []FinishedLinksDurable
BY Safety, PTL DEF IInv

(* SELECT and UPDATE without a lock hand no url out twice: it takes a mark *)
(* that was lost, or the UNCHECK of a client that loadPage reads late.     *)
THEOREM NothingIssuedTwice == Spec => IssuedOnce
<1> DEFINE A == \A u \in issued \ undone : u \in issued' => u \notin UrlsOf(selected' \ selected)
<1>1. ASSUME IInv, [Next]_vars PROVE [A]_vars
  <2>1. SUFFICES ASSUME NEW u \in issued \ undone, NEW r \in selected', r \notin selected, r.url = u
                 PROVE  FALSE
    BY DEF UrlsOf
  <2>2. view[u].status # "uncheck" /\ u \in Urls
    BY <1>1, <2>1 DEF IInv, IssuedInv, TypeOK, Taken
  <2>3. ASSUME NEW t \in Threads, Select(t) PROVE view[u].status = "uncheck"
    <3>1. selected' \in Oldest
      BY <2>1, <2>3 DEF Select
    <3> QED
      BY <2>1, <3>1 DEF Oldest, Record
  <2>4. selected' \subseteq selected \/ \E t \in Threads : Select(t)
    BY <1>1 DEF Next, Step, Recover, Begin, Insert, Finish, Quit, Mark, Load, LateLock,
                Digest, Lock, Update, Stop, Exit, Crash, Environment, Restarted, work, vars
  <2> QED
    BY <2>1, <2>2, <2>3, <2>4
<1> QED
  BY <1>1, Safety, PTL DEF Spec, IssuedOnce
=============================================================================

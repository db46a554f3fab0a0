----------------------------- MODULE DnsManager -----------------------------
(***************************************************************************)
(* CDNSManager of App/webspy: one thread that takes web names from a table *)
(* (CBasicManager), looks a batch of them up with evdns and writes the     *)
(* answers back, or adds the new names when there was nothing to look up.  *)
(*                                                                         *)
(* evdns answers some names before evdns_getaddrinfo returns (an address,  *)
(* a name of the hosts file) and the others from the event loop; a name is *)
(* always of the same kind.  addWebName is not synchronised and is called  *)
(* before start(), as in main.cpp.                                         *)
(***************************************************************************)
EXTENDS Lists, FiniteSets

CONSTANTS
  Names,      \* web names; a name is the key of its row
  Sync,       \* the names evdns answers at once
  Old,        \* the names that may have a row from an earlier run
  Batch,      \* PROCESS_RECORDS_BATCH_COUNT
  MaxNew,     \* bound: calls of addWebName
  MaxCrash,   \* bound: crashes of the process
  SqlFails    \* may a step of a compiled statement fail?

ASSUME DnsAssumption ==
  /\ Sync \subseteq Names /\ Old \subseteq Names
  /\ Batch \in Nat \ {0} /\ MaxNew \in Nat /\ MaxCrash \in Nat
  /\ SqlFails \in BOOLEAN

VARIABLES
  table,      \* the rows: STATUS of every name
  age,        \* the names that have a row, by CREATE_TIME
  new,        \* m_newRecords
  added,      \* how often addWebName was called
  pc,         \* where threadFunc is
  pending,    \* m_pendingRecords: the names of the batch ...
  status,     \* ... and the status in their records
  at,         \* the record that is looked up next
  asked,      \* lookups evdns has not answered
  count,      \* s_pendingLookupCount
  exit,       \* event_base_loopexit was called
  crashes,
  dropped     \* history: names that a crash, a failed statement or addRecords dropped

vars == <<table, age, new, added, pc, pending, status, at, asked, count, exit,
          crashes, dropped>>
-----------------------------------------------------------------------------
(* MAIN_TABLE_RECORD_t::STATUS_e, and a name without a row.                *)
Status == {"uncheck", "processing", "ready"}
NoRow == "none"

(* The table of an earlier run: rows in any state, in any order.           *)
Init ==
  /\ \E rows \in [Old -> Status \cup {NoRow}] :
       table = [n \in Names |-> IF n \in Old THEN rows[n] ELSE NoRow]
  /\ age \in {s \in UNION {[1 .. n -> Old] : n \in 0 .. Cardinality(Old)} :
                /\ IdsOf(s) = {n \in Names : table[n] # NoRow}
                /\ NoRepeat(s)}
  /\ dropped = {n \in Names : table[n] = "processing"}
  /\ new = <<>> /\ added = 0
  /\ pc = "init"
  /\ pending = <<>> /\ status = [n \in Names |-> "uncheck"] /\ at = 1
  /\ asked = {} /\ count = 0 /\ exit = FALSE
  /\ crashes = 0

AddWebName(n) ==
  /\ pc = "init" /\ added < MaxNew
  /\ new' = Append(new, n)
  /\ added' = added + 1
  /\ UNCHANGED <<table, age, pc, pending, status, at, asked, count, exit, crashes, dropped>>

Start ==
  /\ pc = "init" /\ pc' = "fetch"
  /\ UNCHANGED <<table, age, new, added, pending, status, at, asked, count, exit,
                 crashes, dropped>>
-----------------------------------------------------------------------------
First(s, n) == SubSeq(s, 1, IF Len(s) < n THEN Len(s) ELSE n)

(* The sequences of k positions of P, in order, and what is there in s.    *)
InOrder(P, k) == {t \in [1 .. k -> P] : \A i, j \in 1 .. k : i < j => t[i] < t[j]}
Picked(s, t) == [i \in DOMAIN t |-> s[t[i]]]

(* Faulty: the SELECT takes the rows that are READY as well.               *)
UncheckedBug == {p \in DOMAIN age : table[age[p]] \in {"uncheck", "ready"}}

Unchecked == {p \in DOMAIN age : table[age[p]] = "uncheck"}

(* SELECT ... WHERE STATUS = UNCHECK ORDER BY CREATE_TIME LIMIT Batch.     *)
Oldest ==
  LET n == IF Cardinality(Unchecked) < Batch THEN Cardinality(Unchecked) ELSE Batch IN
    {s \in InOrder(Unchecked, n) : \A p \in Unchecked \ IdsOf(s), i \in 1 .. n : s[i] < p}

(* getNextRecords when the last batch is done: the rows are PROCESSING,    *)
(* the records say what the SELECT read.  Every record is to be looked up. *)
Fetch ==
  /\ pc = "fetch"
  /\ \/ /\ pending = <<>>
        /\ \E s \in Oldest : pending' = Picked(age, s)
        /\ table' = [n \in Names |-> IF n \in IdsOf(pending') THEN "processing" ELSE table[n]]
        /\ status' = [n \in Names |-> IF n \in IdsOf(pending') THEN "uncheck" ELSE status[n]]
     \/ pending # <<>> /\ UNCHANGED <<pending, table, status>>
  /\ count' = Len(pending')
  /\ at' = 1
  /\ pc' = "lookup"
  /\ UNCHANGED <<age, new, added, asked, exit, crashes, dropped>>

(* Faulty: every address of the answer is counted.                         *)
AnsweredTwiceBug(n, ok) ==
  /\ status' = IF ok THEN [status EXCEPT ![n] = "ready"] ELSE status
  /\ count' = IF ok THEN count - 2 ELSE count - 1
  /\ exit' = (exit \/ count' = 0)

(* Faulty: the loop is left when one lookup is still to come.              *)
AnsweredEarlyBug(n, ok) ==
  /\ status' = IF ok THEN [status EXCEPT ![n] = "ready"] ELSE status
  /\ count' = count - 1
  /\ exit' = (exit \/ count' <= 1)

(* LookupDNSCallback: a failure leaves the record alone.                   *)
Answered(n, ok) ==
  /\ status' = IF ok THEN [status EXCEPT ![n] = "ready"] ELSE status
  /\ count' = count - 1
  /\ exit' = (exit \/ count' = 0)

(* lookupDNS of the next record.                                           *)
Lookup ==
  /\ pc = "lookup" /\ at <= Len(pending)
  /\ at' = at + 1
  /\ LET n == pending[at] IN
       \/ n \in Sync /\ (\E ok \in BOOLEAN : Answered(n, ok)) /\ UNCHANGED asked
       \/ n \notin Sync /\ asked' = asked \cup {n} /\ UNCHANGED <<status, count, exit>>
  /\ UNCHANGED <<table, age, new, added, pc, pending, crashes, dropped>>

(* All are looked up: wait for the answers, or there was nothing to ask.   *)
Asked ==
  /\ pc = "lookup" /\ at > Len(pending)
  /\ pc' = IF count = 0 THEN "add" ELSE "dispatch"
  /\ UNCHANGED <<table, age, new, added, pending, status, at, asked, count, exit,
                 crashes, dropped>>

(* event_base_dispatch runs the callbacks ...                              *)
Answer(n, ok) ==
  /\ pc = "dispatch" /\ n \in asked
  /\ Answered(n, ok)
  /\ asked' = asked \ {n}
  /\ UNCHANGED <<table, age, new, added, pc, pending, at, crashes, dropped>>

(* ... until the loop is told to exit.                                     *)
Dispatched ==
  /\ pc = "dispatch" /\ exit
  /\ exit' = FALSE
  /\ pc' = "update"
  /\ UNCHANGED <<table, age, new, added, pending, status, at, asked, count, crashes, dropped>>

(* Faulty: only the lookups that succeeded are written.                    *)
WrittenBug(n) == IF status[n] = "ready" THEN "ready" ELSE table[n]

(* Faulty: the UPDATE leaves STATUS alone.                                 *)
WrittenStaleBug(n) == table[n]

(* UPDATE ... WHERE ID = ?, with the status of the record.                 *)
Written(n) == status[n]

(* updateRecords: a step that fails ends the loop, and m_pendingRecords is *)
(* cleared all the same.                                                   *)
Update ==
  /\ pc = "update"
  /\ \E k \in 0 .. Len(pending) :
       /\ k < Len(pending) => SqlFails
       /\ table' = [n \in Names |-> IF n \in IdsOf(First(pending, k)) THEN Written(n) ELSE table[n]]
       /\ dropped' = dropped \cup (IdsOf(pending) \ IdsOf(First(pending, k)))
  /\ pending' = <<>>
  /\ pc' = "fetch"
  /\ UNCHANGED <<age, new, added, status, at, asked, count, exit, crashes>>

(* Faulty: a name that has a row starts again.                             *)
RefusedBug(p, ok) == \E q \in ok : q < p /\ new[q] = new[p]

(* UNIQUE(NAME): the name has a row, or an insert before gave it one.      *)
Refused(p, ok) == table[new[p]] # NoRow \/ \E q \in ok : q < p /\ new[q] = new[p]

(* addRecords, in the order of the calls.  Once an INSERT was refused or   *)
(* has failed, the sqlite3_reset for the next name returns the error again *)
(* and that name is passed over: bad are those that fail, each of them     *)
(* after one that was tried.                                               *)
Add ==
  /\ pc = "add"
  /\ \E bad \in SUBSET DOMAIN new :
       LET tried == {p \in DOMAIN new : p - 1 \notin bad}
           ok    == tried \ bad
       IN
         /\ bad \subseteq tried
         /\ \A p \in tried : Refused(p, ok) => p \in bad
         /\ \A p \in bad : ~Refused(p, ok) => SqlFails
         /\ \E s \in InOrder(ok, Cardinality(ok)) : age' = age \o Picked(new, s)
         /\ table' = [n \in Names |-> IF n \in {new[p] : p \in ok} THEN "uncheck" ELSE table[n]]
  /\ dropped' = dropped \cup {n \in IdsOf(new) : table'[n] = NoRow}
  /\ new' = <<>>
  /\ pc' = "fetch"
  /\ UNCHANGED <<added, pending, status, at, asked, count, exit, crashes>>

(* The process dies; recover() is not called for this table.               *)
Crash ==
  /\ pc # "init" /\ crashes < MaxCrash
  /\ crashes' = crashes + 1
  /\ dropped' = dropped \cup IdsOf(new) \cup {n \in Names : table[n] = "processing"}
  /\ pc' = "init"
  /\ new' = <<>> /\ pending' = <<>> /\ at' = 1
  /\ asked' = {} /\ count' = 0 /\ exit' = FALSE
  /\ UNCHANGED <<table, age, added, status>>

Thread == Fetch \/ Lookup \/ Asked \/ Dispatched \/ Update \/ Add

Next == Start \/ Thread \/ Crash
        \/ \E n \in Names : AddWebName(n) \/ \E ok \in BOOLEAN : Answer(n, ok)

Spec == Init /\ [][Next]_vars

(* The thread runs, every lookup is answered, and one that can succeed     *)
(* does so when it is repeated for ever.                                   *)
FairSpec ==
  /\ Spec /\ WF_vars(Start) /\ WF_vars(Thread)
  /\ \A n \in Names : WF_vars(\E ok \in BOOLEAN : Answer(n, ok)) /\ SF_vars(Answer(n, TRUE))
-----------------------------------------------------------------------------
TypeOK ==
  /\ table \in [Names -> Status \cup {NoRow}]
  /\ age \in Seq(Names) /\ new \in Seq(Names) /\ added \in 0 .. MaxNew
  /\ pc \in {"init", "fetch", "lookup", "dispatch", "update", "add"}
  /\ pending \in Seq(Names) /\ Len(pending) <= Batch
  /\ status \in [Names -> {"uncheck", "ready"}]
  /\ at \in 1 .. (Batch + 1)
  /\ asked \subseteq Names /\ count \in 0 .. Batch /\ exit \in BOOLEAN
  /\ crashes \in 0 .. MaxCrash /\ dropped \subseteq Names

(* While the loop is dispatched, the counter that ends it is the number of *)
(* lookups still to be answered: it neither ends early, with callbacks to  *)
(* come into a batch that is gone, nor waits for ever.                     *)
LoopEndsWithLast ==
  /\ pc = "dispatch" => count = Cardinality(asked) /\ (exit <=> asked = {})
  /\ pc \in {"fetch", "update", "add"} => asked = {}

(* Without a crash or a failed statement, a row is PROCESSING only while   *)
(* its record is in the thread's batch: the thread looks up every name it  *)
(* has taken and gives every row back.                                     *)
ProcessingInHand ==
  \A n \in Names : table[n] = "processing" => n \in IdsOf(pending) \cup dropped

(* The names of a table are unique, whatever is added again: a row once    *)
(* READY keeps its addresses.                                              *)
ReadyStays == [][\A n \in Names : table[n] = "ready" => table'[n] = "ready"]_vars

(* Every unchecked row becomes READY once its name resolves, unless a      *)
(* batch of nothing but names answered at once comes in between.           *)
StuckBatch == pending # <<>> /\ IdsOf(pending) \subseteq Sync

EveryNameReady ==
  \A n \in Names :
    table[n] = "uncheck" ~> table[n] = "ready" \/ n \in dropped \/ StuckBatch

(* Every new name gets its row, also when a batch is stuck, provided that  *)
(* the names taken before it resolve (step 4 of threadFunc), unless        *)
(* addRecords drops it, as the one after a refused name.                   *)
NewNamesAdded ==
  \A n \in Names : n \in IdsOf(new) ~> table[n] # NoRow \/ n \in dropped

(* The header's step 3: "update database of the finished lookup".          *)
FinishedIsSaved ==
  \A n \in Names :
    n \in IdsOf(pending) /\ status[n] = "ready" ~> table[n] = "ready" \/ n \in dropped
=============================================================================

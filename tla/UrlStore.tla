------------------------------ MODULE UrlStore ------------------------------
(***************************************************************************)
(* The url table of App/webspy as its threads use it over one connection   *)
(* (SqliteDb): addRecords inserts the links of a page in a transaction and *)
(* updateRecord writes a status, both under m_dbMutex; getNextRecords      *)
(* selects urls and marks them without that mutex; doSql repeats what      *)
(* another process refuses.  Voyager takes each of these for one step that *)
(* succeeds; here they are taken apart.                                    *)
(*                                                                         *)
(* The collector also runs start(): recover() and the entrance url.  A     *)
(* loader requests a url that was handed out and writes its status late,   *)
(* when the request is long on its way; the other workers digest a page:   *)
(* the links, then the status.  Requests that fail are left out: they      *)
(* write a status that is neither UNCHECK nor FINISHED, as the updates of  *)
(* the event loop do.                                                      *)
(***************************************************************************)
EXTENDS SqliteDb, Integers, FiniteSets

CONSTANTS
  Urls,       \* the names of the table
  Seed,       \* the entrance
  Links,      \* the links on the page of a url
  Workers,    \* the threads that run filters of the two pipelines
  Loaders,    \* those of them that load; the others digest
  Collector,  \* the collecting thread
  Batch,      \* PROCESS_RECORDS_BATCH_COUNT
  None

Threads == Workers \cup {Collector}

ASSUME StoreAssumption ==
  /\ Seed \in Urls /\ Links \in [Urls -> SUBSET Urls]
  /\ Loaders \subseteq Workers /\ Collector \notin Workers /\ None \notin Urls \cup Threads
  /\ Batch \in Nat \ {0}

VARIABLES
  stop,       \* m_stop
  mutex,      \* the owner of m_dbMutex
  pc,         \* where a thread is
  page,       \* the record a worker loads, digests or updates
  todo,       \* what addRecords has still to insert
  short,      \* the names whose insert the open addRecords was refused
  says,       \* the status that updateRecord read from the client
  selected,   \* m_pendingRecords
  handed,     \* handed out to the workers and not requested yet
  out,        \* requested, by a client that is not done yet
  over,       \* ... and those whose client was done, and may be reset
  issued,     \* history: handed out since the start
  undone,     \* history: urls whose mark was refused, missed or undone
  refused,    \* history: urls of whose links an insert was refused
  added,      \* history: what addRecords said it had added
  missed,     \* history: ... although its insert was refused
  rolled      \* history: SQLite rolled a transaction back by itself

user == <<pc, page, todo, short, says, mutex>>
work == <<selected, handed, out, over, issued>>
history == <<undone, refused, added, missed, rolled>>
vars == <<db, stop, user, work, history>>
-----------------------------------------------------------------------------
(* A row: STATUS and ID; SQLite gives a new row the highest ID plus one.   *)
(* STATUS_INITIALIZED is the number of PROCESSING; the other numbers that  *)
(* are neither UNCHECK nor FINISHED are "loading".                         *)
Status == {"uncheck", "processing", "loading", "finished"}
NoRow == [status |-> "none", id |-> 0]
Row == [status : Status, id : Nat \ {0}]
Rows(table) == {u \in Urls : table[u] # NoRow}

(* What the SELECT gives of a row: HTTPClient_t's url and id.              *)
Record(u) == [url |-> u, id |-> view[u].id]
Records == [url : Urls, id : Nat \ {0}]
UrlsOf(R) == {r.url : r \in R}
IdsOf(R) == {r.id : r \in R}

(* UPDATE ... WHERE ID IN ids                                              *)
Set(ids, s) ==
  [u \in Urls |-> IF view[u].id \in ids THEN [view[u] EXCEPT !.status = s] ELSE view[u]]

(* INSERT; UNIQUE(NAME) refuses a name that has a row.  Rows are never     *)
(* deleted.                                                                *)
Inserted(u) ==
  IF view[u] = NoRow
  THEN [view EXCEPT ![u] = [status |-> "uncheck", id |-> Cardinality(Rows(view)) + 1]]
  ELSE view

(* The threads of a process that has just opened its database.             *)
Fresh(ts) == [t \in ts |-> IF t = Collector THEN "recover" ELSE "idle"]

Init ==
  /\ OpenDB([u \in Urls |-> NoRow]) /\ other = "none"
  /\ stop = FALSE /\ mutex = None
  /\ pc = Fresh(Threads)
  /\ page = [t \in Threads |-> None] /\ todo = [t \in Threads |-> {}]
  /\ short = {} /\ says = "finished"
  /\ selected = {} /\ handed = {} /\ out = {} /\ over = {} /\ issued = {}
  /\ undone = {} /\ refused = {} /\ added = {} /\ missed = {} /\ rolled = FALSE

Goto(t, place) == pc' = [pc EXCEPT ![t] = place]

(* SQLite undoes a transaction by itself, and the marks in it.             *)
Lost(z) == z # "ok" /\ inTx /\ ~inTx'

Noted(z, marks) ==
  /\ rolled' = (rolled \/ Lost(z))
  /\ undone' = undone \cup marks \cup
       {u \in issued : Lost(z) /\ view'[u].status \in {"uncheck", "none"}}

(* doSql returns with z unless it tries again.                             *)
Returns(z) == z # "busy" \/ stop
-----------------------------------------------------------------------------
(* __init__ calls recover(), and start() adds the entrance.                *)
Recover(t) ==
  /\ t = Collector /\ pc[t] = "recover"
  /\ \E z \in Result :
       /\ Write(Set({view[u].id : u \in {v \in Urls : view[v].status = "processing"}}, "uncheck"), z)
       /\ Goto(t, IF Returns(z) THEN "begin" ELSE "recover")
       /\ Noted(z, {})
  /\ todo' = [todo EXCEPT ![t] = {Seed}]
  /\ UNCHANGED <<stop, page, short, says, mutex, work, refused, added, missed>>

After(t) == IF t = Collector THEN "select" ELSE "lock"

(* addRecords: lock and begin ...                                          *)
Begin(t) ==
  /\ pc[t] = "begin" /\ mutex = None
  /\ \E z \in Result :
       /\ BeginTransact(z)
       /\ mutex' = IF z = "ok" THEN t ELSE None
       /\ Goto(t, IF z = "ok" THEN "insert" ELSE After(t))
       /\ todo' = IF z = "ok" THEN todo ELSE [todo EXCEPT ![t] = {}]
  /\ UNCHANGED <<stop, page, short, says, work, history>>

(* The page whose links a thread adds.                                     *)
Digested(t) == IF t = Collector THEN {} ELSE {page[t].url}

(* Faulty: an insert that fails leaves addRecords without a commit.        *)
InsertBug(t) ==
  /\ pc[t] = "insert" /\ todo[t] # {}
  /\ \E u \in todo[t], z \in Result :
       /\ Write(Inserted(u), z)
       /\ todo' = [todo EXCEPT ![t] = @ \ {u}]
       /\ short' = IF z = "ok" THEN short ELSE short \cup {u}
       /\ refused' = IF z = "ok" THEN refused ELSE refused \cup Digested(t)
       /\ IF z = "ok" THEN UNCHANGED <<pc, mutex>> ELSE Goto(t, After(t)) /\ mutex' = None
       /\ Noted(z, {})
  /\ UNCHANGED <<stop, page, says, work, added, missed>>

(* ... every url; a failure is only logged ...                             *)
Insert(t) ==
  /\ pc[t] = "insert" /\ todo[t] # {}
  /\ \E u \in todo[t], z \in Result :
       /\ Write(Inserted(u), z)
       /\ todo' = [todo EXCEPT ![t] = @ \ {u}]
       /\ short' = IF z = "ok" THEN short ELSE short \cup {u}
       /\ refused' = IF z = "ok" THEN refused ELSE refused \cup Digested(t)
       /\ Noted(z, {})
  /\ UNCHANGED <<stop, pc, page, says, mutex, work, added, missed>>

Arg(t) == IF t = Collector THEN {Seed} ELSE Links[page[t].url]

(* ... commit and unlock: it reports every name as added, also those whose *)
(* insert was refused.  A commit that SQLite refuses leaves its            *)
(* transaction open; nobody looks at the result.                           *)
Finish(t) ==
  /\ pc[t] = "insert" /\ todo[t] = {}
  /\ \E z \in Result :
       /\ Commit(z)
       /\ IF z = "ok"
          THEN /\ added' = added \cup Arg(t)
               /\ missed' = (missed \cup (short \ added)) \ (Arg(t) \ short)
          ELSE UNCHANGED <<added, missed>>
       /\ Noted(z, {})
  /\ short' = {} /\ mutex' = None
  /\ Goto(t, After(t))
  /\ UNCHANGED <<stop, page, todo, says, work, refused>>
-----------------------------------------------------------------------------
(* getNextRecords, once the last batch is handed out: SELECT ... LIMIT ... *)
Oldest ==
  LET S == {Record(u) : u \in {v \in Urls : view[v].status = "uncheck"}} IN
    {B \in SUBSET S : Cardinality(B) = IF Cardinality(S) < Batch THEN Cardinality(S) ELSE Batch}

Select(t) ==
  /\ t = Collector /\ pc[t] = "select" /\ handed = {}
  /\ \E z \in Result :
       /\ Read(z)
       /\ IF z = "ok" THEN selected' \in Oldest ELSE UNCHANGED selected
       /\ Goto(t, IF selected' # {} THEN "mark" ELSE IF stop THEN "idle" ELSE "select")
  /\ UNCHANGED <<stop, page, todo, short, says, mutex, handed, out, over, issued, history>>

(* CCollectURLTask leaves its loop when the pipeline is stopped.           *)
Quit(t) ==
  /\ t = Collector /\ pc[t] = "select" /\ stop
  /\ Goto(t, "idle")
  /\ UNCHANGED <<db, stop, page, todo, short, says, mutex, work, history>>

(* Faulty: the urls are handed out without waiting for their mark.         *)
MarkBug(t) ==
  /\ t = Collector /\ pc[t] = "mark"
  /\ \E z \in Result :
       /\ Write(Set(IdsOf(selected), "processing"), z)
       /\ Noted(z, IF z = "error" THEN UrlsOf(selected) ELSE {})
  /\ handed' = selected /\ issued' = issued \cup UrlsOf(selected) /\ selected' = {}
  /\ Goto(t, IF stop THEN "idle" ELSE "select")
  /\ UNCHANGED <<stop, page, todo, short, says, mutex, out, over, refused, added, missed>>

(* The selected records whose row is gone, or has another ID by now.       *)
Gone == {r \in selected : view[r.url].id # r.id}

(* ... and UPDATE ... SET STATUS, in the middle of another thread's        *)
(* transaction or not; the urls are handed out whatever it answers.        *)
Mark(t) ==
  /\ t = Collector /\ pc[t] = "mark"
  /\ \E z \in Result :
       /\ Write(Set(IdsOf(selected), "processing"), z)
       /\ IF Returns(z)
          THEN /\ handed' = selected /\ issued' = issued \cup UrlsOf(selected) /\ selected' = {}
               /\ UNCHANGED <<out, over>>
               /\ Goto(t, IF stop THEN "idle" ELSE "select")
               /\ Noted(z, UrlsOf(IF z = "ok" THEN Gone ELSE selected))
          ELSE UNCHANGED <<work, pc>> /\ Noted(z, {})
  /\ UNCHANGED <<stop, page, todo, short, says, mutex, refused, added, missed>>
-----------------------------------------------------------------------------
(* loadPage up to its updateRecord: the request is on its way.             *)
Load(t) ==
  /\ t \in Loaders /\ pc[t] = "idle" /\ ~stop
  /\ \E r \in handed :
       /\ handed' = handed \ {r} /\ out' = out \cup {r}
       /\ page' = [page EXCEPT ![t] = r]
  /\ Goto(t, "late")
  /\ UNCHANGED <<db, stop, todo, short, says, mutex, selected, over, issued, history>>

(* A client that is done may be reset and used again, for a url that was   *)
(* handed out since.                                                       *)
UsedFor(r) == {r} \cup (IF r \in over THEN handed \cup out \cup over ELSE {})

Late(r) == \E t \in Workers : pc[t] = "late" /\ page[t] = r
Digesting(t) == t \in Workers /\ pc[t] \in {"begin", "insert", "lock"}

(* What the client of r may say to a thread that reads it without a lock:  *)
(* UNCHECK when it was reset or is being made, DOWNLOADING when loadPage   *)
(* has written that after everything else.                                 *)
ClientSays(r) ==
  {s \in Status :
     \/ s = "uncheck" /\ r \in over \cup handed
     \/ s = "processing" /\ r \in handed
     \/ s = "loading" /\ (r \in out \/ Late(r))
     \/ s = "finished" /\ (r \in over \/ \E t \in Workers : pc[t] = "lock" /\ page[t] = r)}

(* The updateRecord of loadPage takes m_dbMutex and reads status and id    *)
(* through the raw pointer.  Bound: that it reads UNCHECK counts as a fault. *)
LateLock(t) ==
  /\ pc[t] = "late" /\ mutex = None
  /\ mutex' = t
  /\ \E r \in UsedFor(page[t]) :
       page' = [page EXCEPT ![t] = r] /\ says' \in ClientSays(r)
  /\ IF says' = "uncheck" THEN faults < MaxFault /\ faults' = faults + 1 ELSE UNCHANGED faults
  /\ Goto(t, "update")
  /\ UNCHANGED <<disk, view, inTx, dirty, hasTx, other, stop, todo, short, work, history>>

(* Faulty: the status before the links.                                    *)
DigestBug(t) ==
  /\ t \in Workers \ Loaders /\ pc[t] = "idle" /\ ~stop
  /\ \E r \in out \ {page[w] : w \in {x \in Workers : Digesting(x)}} :
       /\ page' = [page EXCEPT ![t] = r]
       /\ todo' = [todo EXCEPT ![t] = Links[r.url]]
  /\ Goto(t, "lock")
  /\ UNCHANGED <<db, stop, short, says, mutex, work, history>>

(* CDigestTask::process: a page without links needs no addRecords.         *)
Digest(t) ==
  /\ t \in Workers \ Loaders /\ pc[t] = "idle" /\ ~stop
  /\ \E r \in out \ {page[w] : w \in {x \in Workers : Digesting(x)}} :
       /\ page' = [page EXCEPT ![t] = r]
       /\ todo' = [todo EXCEPT ![t] = Links[r.url]]
       /\ Goto(t, IF Links[r.url] = {} THEN "lock" ELSE "begin")
  /\ UNCHANGED <<db, stop, short, says, mutex, work, history>>

(* Faulty: updateRecord without SCOPED_GUARD.                              *)
LockBug(t) ==
  /\ pc[t] = "lock"
  /\ says' \in ClientSays(page[t]) \ {"uncheck"}
  /\ out' = out \ {page[t]} /\ over' = over \cup {page[t]}
  /\ Goto(t, "update")
  /\ UNCHANGED <<db, stop, page, todo, short, mutex, selected, handed, issued, history>>

(* The end of CDigestTask, freeHC: updateRecord takes m_dbMutex and keeps  *)
(* it while doSql tries again and again; nobody sees that the client is    *)
(* done before it gives the mutex back.                                    *)
Lock(t) ==
  /\ pc[t] = "lock" /\ mutex = None
  /\ mutex' = t
  /\ says' \in ClientSays(page[t]) \ {"uncheck"}
  /\ out' = out \ {page[t]} /\ over' = over \cup {page[t]}
  /\ Goto(t, "update")
  /\ UNCHANGED <<db, stop, page, todo, short, selected, handed, issued, history>>

(* The urls whose row an update turns back to UNCHECK.                     *)
TurnedBack(t, z) ==
  IF z = "ok" /\ says = "uncheck" THEN {u \in Urls : view[u].id = page[t].id} ELSE {}

(* Faulty: the mutex is kept.                                              *)
UpdateBug(t) ==
  /\ pc[t] = "update"
  /\ \E z \in Result :
       /\ Write(Set({page[t].id}, says), z)
       /\ IF Returns(z) THEN Goto(t, "idle") ELSE UNCHANGED pc
       /\ Noted(z, TurnedBack(t, z))
  /\ UNCHANGED <<stop, page, todo, short, says, mutex, work, refused, added, missed>>

Update(t) ==
  /\ pc[t] = "update"
  /\ \E z \in Result :
       /\ Write(Set({page[t].id}, says), z)
       /\ IF Returns(z)
          THEN /\ mutex' = None /\ says' = "finished"
               /\ Goto(t, "idle") /\ page' = [page EXCEPT ![t] = None]
          ELSE UNCHANGED <<mutex, says, pc, page>>
       /\ Noted(z, TurnedBack(t, z))
  /\ UNCHANGED <<stop, todo, short, work, refused, added, missed>>
-----------------------------------------------------------------------------
(* CWebVoyager::stop.                                                      *)
Stop ==
  /\ ~stop /\ faults < MaxFault
  /\ stop' = TRUE
  /\ UNCHANGED <<db, user, work, history>>

Restarted ==
  /\ stop' = FALSE /\ mutex' = None
  /\ pc' = Fresh(Threads)
  /\ page' = [t \in Threads |-> None] /\ todo' = [t \in Threads |-> {}]
  /\ short' = {} /\ says' = "finished"
  /\ selected' = {} /\ handed' = {} /\ out' = {} /\ over' = {} /\ issued' = {}
  /\ undone' = {}
  /\ UNCHANGED <<refused, added, missed, rolled>>

(* The threads are joined and ~CSqlLiteDB closes the database; or the      *)
(* process dies at any time.                                               *)
Exit ==
  /\ stop /\ \A t \in Threads : pc[t] = "idle"
  /\ Close
  /\ Restarted

Crash == Closed /\ Restarted

Step(t) ==
  \/ Recover(t) \/ Begin(t) \/ Insert(t) \/ Finish(t)
  \/ Select(t) \/ Quit(t) \/ Mark(t)
  \/ Load(t) \/ LateLock(t) \/ Digest(t) \/ Lock(t) \/ Update(t)

Environment ==
  OtherProcess /\ UNCHANGED <<stop, user, work, history>>

Next == (\E t \in Threads : Step(t)) \/ Stop \/ Exit \/ Crash \/ Environment

Spec == Init /\ [][Next]_vars

(* Every thread runs, and gets a mutex that is free again and again.       *)
FairSpec == Spec /\ \A t \in Threads : WF_vars(Step(t)) /\ SF_vars(Begin(t) \/ Lock(t) \/ LateLock(t))
-----------------------------------------------------------------------------
(* Types, and who is inside m_dbMutex.                                     *)
TypeOK ==
  /\ {disk, view} \subseteq [Urls -> Row \cup {NoRow}]
  /\ {inTx, dirty, hasTx, stop, rolled} \subseteq BOOLEAN
  /\ other \in {"none", "read", "write"}
  /\ mutex \in Threads \cup {None}
  /\ pc \in [Threads -> {"recover", "begin", "insert", "select", "mark", "idle", "late", "lock", "update"}]
  /\ page \in [Threads -> Records \cup {None}] /\ todo \in [Threads -> SUBSET Urls]
  /\ says \in Status
  /\ {selected, handed, out, over} \subseteq SUBSET Records
  /\ {issued, undone, short, refused, added, missed} \subseteq SUBSET Urls
  /\ \A t \in Threads : mutex = t <=> pc[t] \in {"insert", "update"}

(* m_hasTransaction is set just while a thread is inside addRecords, so no *)
(* thread's updateRecord becomes part of another's transaction.  A commit  *)
(* that was refused leaves SQLite's transaction open without the flag: it  *)
(* is never closed again, as commit() has forgotten it and begin fails.    *)
Stuck == inTx /\ ~hasTx

TransactionHasOwner ==
  /\ hasTx <=> \E t \in Threads : mutex = t /\ pc[t] = "insert"
  /\ Stuck => dirty /\ (Wal => faults > 0)
  /\ ~inTx => view = disk

(* What addRecords reports as added is in the file and stays there, over   *)
(* crashes and although other threads' statements join its transaction;    *)
(* all but the names whose insert SQLite refused: addRecords logs that and *)
(* reports success, until a later call adds them.                          *)
AddedIsDurable == added \ missed \subseteq Rows(disk)

(* A url that is FINISHED in the file has all its links there: a refused   *)
(* commit loses both.  Only a refused insert, or a transaction that SQLite *)
(* has rolled back, can lose the links of a page for good.                 *)
FinishedLinksDurable ==
  \A u \in Urls : disk[u].status = "finished" =>
    u \in refused \/ rolled \/ Links[u] \subseteq Rows(disk)

(* A url is handed out once between two starts, though SELECT and UPDATE   *)
(* are two statements without a lock, unless its mark was refused, rolled  *)
(* back or, after a rollback, missed its row; or the late updateRecord of  *)
(* a loadPage wrote to it the UNCHECK of a client reset meanwhile.         *)
IssuedOnce ==
  [][\A u \in issued \ undone : u \in issued' => u \notin UrlsOf(selected' \ selected)]_vars

(* doSql tries again for ever, with m_dbMutex held: once the other process *)
(* keeps off the file, every thread gets through.                          *)
RetryEnds ==
  <>[](other = "none") =>
    \A t \in Workers : pc[t] \in {"late", "begin", "lock"} ~> pc[t] = "idle"
=============================================================================

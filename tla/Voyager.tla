------------------------------ MODULE Voyager ------------------------------
(***************************************************************************)
(* The crawler of App/webspy: CWebVoyager with the url table it keeps in   *)
(* SQLite (CBasicManager), the pool its HTTP clients come from             *)
(* (CMemCreator), the libevent thread that runs HttpRequestCB, and the one *)
(* TBB pipeline collect -> download -> get page -> digest.  The pipeline   *)
(* is one because CCollectPipeline and CProcessPipeline both inherit       *)
(* GetInstance() from ISingleton<CPipeline>, so all four filters are added *)
(* to the same tbb::pipeline; a token of that pipeline is a process here.  *)
(*                                                                         *)
(* Every SQL statement runs under m_dbMutex or SQLite's own connection     *)
(* lock and is one step; statements are assumed to succeed.  A client is a *)
(* raw pointer once createHttpRequset has returned: nothing stops a token  *)
(* from writing through it after done(), and the model lets it.            *)
(***************************************************************************)
EXTENDS Lists, FiniteSets

CONSTANTS
  Urls,       \* the names the web can offer; a name is its row's ID as well
  Seed,       \* the entrance url start() adds
  BadUrls,    \* names evhttp_uri_parse refuses
  NoHost,     \* names without a host, which get no evhttp_connection
  Links,      \* the links found on the page of a url
  Clients,    \* the HTTPClient_t objects of the pool (s_poolSize)
  Tokens,     \* the pipeline's tokens (MAX_TOKEN_COUNT)
  Batch,      \* PROCESS_RECORDS_BATCH_COUNT
  Answers,    \* what the network may answer: "ok", "redirect", "error", "none"
  MaxCrash,   \* bound: crashes of the process
  None

ASSUME VoyagerAssumption ==
  /\ Seed \in Urls
  /\ BadUrls \subseteq Urls /\ NoHost \subseteq Urls /\ BadUrls \cap NoHost = {}
  /\ Links \in [Urls -> SUBSET Urls]
  /\ Batch \in Nat \ {0}
  /\ Answers \subseteq {"ok", "redirect", "error", "none"}
  /\ MaxCrash \in Nat
  /\ None \notin Urls \cup Clients

VARIABLES
  row,       \* the table: STATUS of every url's row, NoRow when there is none
  up,        \* the process runs
  crashes,   \* how often it has crashed
  hc,        \* the HTTPClient_t objects
  memPool,   \* CMemCreator::m_memPool
  shadow,    \* CMemCreator::m_shadowMemPool
  freed,     \* CMemDeleter::m_memPool
  selected,  \* CBasicManager::m_pendingRecords: read by SELECT, not yet marked
  urls,      \* CCollectURLTask::m_urlRecords from m_curRecordIndex on
  tok,       \* the tokens: the filter each is in, the record, the client
  flight,    \* clients whose request libevent holds
  loop,      \* the redirect the event loop thread is following
  pages,     \* CWebVoyager::m_HCRecords
  pending,   \* CGetWebPageTask::m_pendingRecords
  issue,     \* CWebVoyager::m_issueCount
  finish     \* CWebVoyager::m_finishCount

pool  == <<memPool, shadow, freed>>
work  == <<selected, urls>>
queue == <<pages, pending>>
count == <<issue, finish>>
vars  == <<row, up, crashes, hc, pool, work, tok, flight, loop, queue, count>>
-----------------------------------------------------------------------------
(* MAIN_TABLE_RECORD_t::STATUS_e and HTTPClient_t::RequestStatus_e share   *)
(* the STATUS column.                                                      *)
UNCHECK     == 0
PROCESSING  == 1    \* MAIN_TABLE_RECORD_t: fetched by a collector
INITIALIZED == 1
DOWNLOADING == 2
DOWNLOADED  == 3
PARSING     == 4    \* HTTPClient_t::STATUS_PROCESSING
FAILED      == 5
NOT_EXIST   == 6
UNSUPPORT   == 9
FINISHED    == 10
NoRow       == 11   \* no row has this name

Status == UNCHECK .. FINISHED

(* HTTPClient_t.  conn stands for conn and request; reset() clears both    *)
(* and uri.  id is None for the id 0 of a redirect, which no row has.      *)
Client == [id : Urls \cup {None}, uri : BOOLEAN, conn : BOOLEAN,
           status : Status, finished : BOOLEAN]

Token == [pc : {"free", "create", "start", "mark", "update", "wait", "digest", "release"},
          url : Urls \cup {None}, hc : Clients \cup {None}]

(* The client whose redirect is followed, and whether the Location has     *)
(* been dealt with; the old request ends after that.                       *)
Loop == [hc : Clients \cup {None}, followed : BOOLEAN]

Blank == [id |-> None, uri |-> FALSE, conn |-> FALSE, status |-> UNCHECK, finished |-> FALSE]
Free  == [pc |-> "free", url |-> None, hc |-> None]
Idle  == [hc |-> None, followed |-> FALSE]

(* HTTPClient_t::reset leaves id alone.                                    *)
Reset(h) == [h EXCEPT !.uri = FALSE, !.conn = FALSE, !.status = UNCHECK, !.finished = FALSE]

(* Requests that were issued and have not been through freeHC.             *)
Live == flight \cup IdsOf(pages) \cup IdsOf(pending)
          \cup {tok[t].hc : t \in {x \in Tokens : tok[x].pc \in {"digest", "release"}}}
-----------------------------------------------------------------------------
(* A process that has not run yet: constructors, CMemCreator::init, and    *)
(* the pipeline with all its tokens free.                                  *)
Fresh ==
  /\ hc = [c \in Clients |-> Blank]
  /\ memPool = Clients /\ shadow = Clients /\ freed = {}
  /\ selected = {} /\ urls = {}
  /\ tok = [t \in Tokens |-> Free]
  /\ flight = {} /\ loop = Idle
  /\ pages = <<>> /\ pending = <<>>
  /\ issue = 0 /\ finish = 0

(* Faulty: recover() does not run.                                         *)
RecoverBug(r) == r

(* Faulty: INSERT OR REPLACE instead of a refused duplicate.               *)
AddRecordsBug(r, names) == [u \in Urls |-> IF u \in names THEN UNCHECK ELSE r[u]]

(* __init__ calls recover(), then start() adds the entrance; UNIQUE(NAME)  *)
(* makes addRecords skip names that have a row.                            *)
Recover(r) == [u \in Urls |-> IF r[u] = PROCESSING THEN UNCHECK ELSE r[u]]

AddRecords(r, names) ==
  [u \in Urls |-> IF u \in names /\ r[u] = NoRow THEN UNCHECK ELSE r[u]]

Init ==
  /\ Fresh
  /\ row = AddRecords([u \in Urls |-> NoRow], {Seed})
  /\ up = TRUE /\ crashes = 0

(* updateRecord: UPDATE ... WHERE ID = _hc->id, nothing for id 0.          *)
UpdateRecord(h) ==
  row' = [u \in Urls |-> IF u = h.id THEN h.status ELSE row[u]]
-----------------------------------------------------------------------------
(* The collect filter, serial.  getUrlRecords is called when the fetched   *)
(* records are used up and few requests are pending; getPendingRequest is  *)
(* unsigned, so a difference below 0 would be a large number.              *)
Unchecked == {u \in Urls : row[u] = UNCHECK}

CollectSelect ==
  /\ up /\ selected = {} /\ urls = {}
  /\ \E t \in Tokens : tok[t].pc = "free"
  /\ issue - finish \in 0 .. (Batch - 1)
  /\ \E S \in SUBSET Unchecked :
       /\ S # {}
       /\ \/ S = Unchecked /\ Cardinality(S) <= Batch
          \/ Cardinality(S) = Batch
       /\ selected' = S
  /\ UNCHANGED <<row, up, crashes, hc, pool, urls, tok, flight, loop, queue, count>>

(* Faulty: m_urlRecords is cleared after getUrlRecords, not before.        *)
CollectMarkBug ==
  /\ up /\ selected # {}
  /\ row' = [u \in Urls |-> IF u \in selected THEN PROCESSING ELSE row[u]]
  /\ selected' = {}
  /\ UNCHANGED <<up, crashes, hc, pool, urls, tok, flight, loop, queue, count>>

CollectMark ==
  /\ up /\ selected # {}
  /\ row' = [u \in Urls |-> IF u \in selected THEN PROCESSING ELSE row[u]]
  /\ urls' = selected
  /\ selected' = {}
  /\ UNCHANGED <<up, crashes, hc, pool, tok, flight, loop, queue, count>>

CollectTake(t) ==
  /\ up /\ tok[t].pc = "free"
  /\ \E u \in urls :
       /\ urls' = urls \ {u}
       /\ tok' = [tok EXCEPT ![t] = [pc |-> "create", url |-> u, hc |-> None]]
  /\ UNCHANGED <<row, up, crashes, hc, pool, selected, flight, loop, queue, count>>
-----------------------------------------------------------------------------
(* CMemCreator::create returns c, erasing E from the shadow pool.  The     *)
(* iterator cleanup() keeps skips entries, so it may miss finished clients *)
(* but never the first; an erased client had no other owner and goes       *)
(* through the deleter, which resets it.                                   *)
Reusable == {c \in shadow : hc[c].finished}

Create(c, E) ==
  \/ /\ c \in memPool /\ E = {}
     /\ memPool' = memPool \ {c}
     /\ UNCHANGED shadow
  \/ /\ memPool = {}
     /\ E \subseteq Reusable /\ (E = {} => Reusable = {})
     /\ c \in freed \cup E
     /\ memPool' = (freed \cup E) \ {c}
     /\ shadow' = shadow \ E

(* Faulty: the deleter drops the client.                                   *)
FreedAfterBug(c) == freed' = IF memPool = {} THEN {} ELSE freed

(* What create() leaves in CMemDeleter::m_memPool, and what is added when  *)
(* the shared_ptr of createHttpRequset dies: a client the shadow pool does *)
(* not hold any more is reset and freed as the function returns.           *)
FreedAfter(c) ==
  freed' = (IF memPool = {} THEN {} ELSE freed) \cup ({c} \ shadow')

ClientsAfter(c, E, h) ==
  [x \in Clients |-> IF x = c THEN IF c \in shadow' THEN h ELSE Reset(h)
                     ELSE IF x \in E THEN Reset(hc[x]) ELSE hc[x]]

Request(i) == [id |-> i, uri |-> TRUE, conn |-> TRUE, status |-> INITIALIZED, finished |-> FALSE]

(* createHttpRequset's early ends: the uri does not parse and the client   *)
(* goes to freeHC, which updates the row but counts nothing without a      *)
(* request; or there is no host to connect to, and the client is left as   *)
(* it is.                                                                  *)
Unsupported(i) ==
  [id |-> i, uri |-> FALSE, conn |-> FALSE, status |-> UNSUPPORT, finished |-> TRUE]
HostLess(i) ==
  [id |-> i, uri |-> TRUE, conn |-> FALSE, status |-> UNCHECK, finished |-> FALSE]

(* The process dies: only the table is left.                               *)
Die ==
  /\ up' = FALSE
  /\ hc' = [c \in Clients |-> Blank]
  /\ memPool' = Clients /\ shadow' = Clients /\ freed' = {}
  /\ selected' = {} /\ urls' = {}
  /\ tok' = [t \in Tokens |-> Free]
  /\ flight' = {} /\ loop' = Idle
  /\ pages' = <<>> /\ pending' = <<>>
  /\ issue' = 0 /\ finish' = 0
  /\ UNCHANGED row

(* The download filter: loadPage.  An empty pool is waited for.  create(), *)
(* the filling of the client and the death of the shared_ptr are one step: *)
(* a client create() returns for the first time is known to nobody else,   *)
(* and through a recycled one another token can only see the id with the   *)
(* status after reset(), as it can when the step is over, or INITIALIZED,  *)
(* the number the row has already.                                         *)
LoadCreate(t) ==
  /\ up /\ tok[t].pc = "create"
  /\ \E c \in Clients, E \in SUBSET Clients :
       /\ Create(c, E) /\ FreedAfter(c)
       /\ \/ /\ tok[t].url \notin BadUrls \cup NoHost
             /\ hc' = ClientsAfter(c, E, Request(tok[t].url))
             /\ tok' = [tok EXCEPT ![t].pc = "start", ![t].hc = c]
             /\ UNCHANGED row
          \/ /\ tok[t].url \in BadUrls
             /\ hc' = ClientsAfter(c, E, Unsupported(tok[t].url))
             /\ UpdateRecord(Unsupported(tok[t].url))
             /\ tok' = [tok EXCEPT ![t] = [pc |-> "wait", url |-> None, hc |-> None]]
          \/ /\ tok[t].url \in NoHost
             /\ hc' = ClientsAfter(c, E, HostLess(tok[t].url))
             /\ tok' = [tok EXCEPT ![t] = [pc |-> "wait", url |-> None, hc |-> None]]
             /\ UNCHANGED row
  /\ UNCHANGED <<up, crashes, work, flight, loop, queue, count>>

(* startRequest up to evhttp_make_request, after which HttpRequestCB may   *)
(* run; evhttp_uri_get_path of a client that was reset is a null           *)
(* dereference.                                                            *)
LoadStart(t) ==
  /\ up /\ tok[t].pc = "start"
  /\ \/ /\ hc[tok[t].hc].uri
        /\ issue' = issue + 1
        /\ flight' = flight \cup {tok[t].hc}
        /\ tok' = [tok EXCEPT ![t].pc = "mark"]
        /\ UNCHANGED <<row, up, crashes, hc, pool, work, loop, queue, finish>>
     \/ ~hc[tok[t].hc].uri /\ Die /\ UNCHANGED crashes

(* The end of startRequest, through the raw pointer.                       *)
LoadMark(t) ==
  /\ up /\ tok[t].pc = "mark"
  /\ hc' = [hc EXCEPT ![tok[t].hc].status = DOWNLOADING]
  /\ tok' = [tok EXCEPT ![t].pc = "update"]
  /\ UNCHANGED <<row, up, crashes, pool, work, flight, loop, queue, count>>

(* Faulty: the token is free before its page came.                         *)
LoadUpdateBug(t) ==
  /\ up /\ tok[t].pc = "update"
  /\ UpdateRecord(hc[tok[t].hc])
  /\ tok' = [tok EXCEPT ![t] = Free]
  /\ UNCHANGED <<up, crashes, hc, pool, work, flight, loop, queue, count>>

(* The updateRecord of loadPage, through the raw pointer; the token goes   *)
(* on to the get page filter with the null item CDownloadTask returns.     *)
LoadUpdate(t) ==
  /\ up /\ tok[t].pc = "update"
  /\ UpdateRecord(hc[tok[t].hc])
  /\ tok' = [tok EXCEPT ![t] = [pc |-> "wait", url |-> None, hc |-> None]]
  /\ UNCHANGED <<up, crashes, hc, pool, work, flight, loop, queue, count>>
-----------------------------------------------------------------------------
(* Faulty: the end of a request is not counted; or counted down.           *)
FreeHCBug(c, s) ==
  /\ UNCHANGED finish
  /\ UpdateRecord([hc[c] EXCEPT !.status = s])

FreeHCDownBug(c, s) ==
  /\ finish' = finish - 1
  /\ UpdateRecord([hc[c] EXCEPT !.status = s])

(* freeHC(c) with the final status s: count, update the row, done().  Both *)
(* counters are incremented inside L4C_LOG_INFO, as the INFO level of the  *)
(* shipped configuration lets them be.                                     *)
FreeHC(c, s) ==
  /\ finish' = finish + 1
  /\ UpdateRecord([hc[c] EXCEPT !.status = s])

Done(h, s) == [h EXCEPT !.status = s, !.finished = TRUE]

(* HttpRequestCB on the event loop thread.  200: the page is queued.       *)
PageArrives(c) ==
  /\ up /\ loop = Idle /\ c \in flight /\ "ok" \in Answers
  /\ hc' = [hc EXCEPT ![c].status = DOWNLOADED]
  /\ UpdateRecord(hc'[c])
  /\ flight' = flight \ {c}
  /\ pages' = Append(pages, c)
  /\ UNCHANGED <<up, crashes, pool, work, tok, loop, pending, count>>

(* Any other answer, a redirect without a Location too, or none at all.    *)
RequestFails(c) ==
  /\ up /\ loop = Idle /\ c \in flight
  /\ \E s \in {FAILED, NOT_EXIST} :
       /\ (s = FAILED) => "error" \in Answers
       /\ (s = NOT_EXIST) => "none" \in Answers
       /\ hc' = [hc EXCEPT ![c] = Done(@, s)]
       /\ FreeHC(c, s)
  /\ flight' = flight \ {c}
  /\ UNCHANGED <<up, crashes, pool, work, tok, loop, queue, issue>>

(* 302: the thread stays in the callback until it has a client.            *)
RedirectBegins(c) ==
  /\ up /\ loop = Idle /\ c \in flight /\ "redirect" \in Answers
  /\ loop' = [hc |-> c, followed |-> FALSE]
  /\ hc' = [hc EXCEPT ![c].status = FAILED]
  /\ UNCHANGED <<row, up, crashes, pool, work, tok, flight, queue, count>>

(* ... for the Location, and has started its request, unless the Location  *)
(* does not parse or, being relative, names no host.                       *)
RedirectFollows(c) ==
  /\ up /\ loop = [hc |-> c, followed |-> FALSE]
  /\ loop' = [hc |-> c, followed |-> TRUE]
  /\ \E n \in Clients, E \in SUBSET Clients :
       /\ Create(n, E) /\ FreedAfter(n)
       /\ \/ /\ hc' \in {ClientsAfter(n, E, h) : h \in {Unsupported(None), HostLess(None)}}
             /\ UNCHANGED <<flight, issue>>
          \/ /\ n \in shadow'
             /\ hc' = ClientsAfter(n, E, [Request(None) EXCEPT !.status = DOWNLOADING])
             /\ flight' = flight \cup {n}
             /\ issue' = issue + 1
  /\ UNCHANGED <<row, up, crashes, work, tok, queue, finish>>

(* Only then is the old request finished.                                  *)
RedirectEnds(c) ==
  /\ up /\ loop = [hc |-> c, followed |-> TRUE]
  /\ loop' = Idle
  /\ FreeHC(c, hc[c].status)
  /\ hc' = [hc EXCEPT ![c] = Done(@, @.status)]
  /\ flight' = flight \ {c}
  /\ UNCHANGED <<up, crashes, pool, work, tok, queue, issue>>

(* The Location's client was recycled: startRequest dereferences the null  *)
(* uri that the deleter left.                                              *)
RedirectDies(c) ==
  /\ up /\ loop = [hc |-> c, followed |-> FALSE]
  /\ \/ memPool \ shadow # {}
     \/ memPool = {} /\ freed \cup Reusable # {}
  /\ Die /\ UNCHANGED crashes
-----------------------------------------------------------------------------
(* Faulty: the vector is copied instead of swapped; or cleared.            *)
GetPagesCopyBug ==
  /\ up /\ pending = <<>> /\ pages # <<>>
  /\ \E t \in Tokens : tok[t].pc = "wait"
  /\ pending' = pages
  /\ UNCHANGED <<row, up, crashes, hc, pool, work, tok, flight, loop, pages, count>>

GetPagesClearBug ==
  /\ up /\ pending = <<>> /\ pages # <<>>
  /\ \E t \in Tokens : tok[t].pc = "wait"
  /\ pages' = <<>>
  /\ UNCHANGED <<row, up, crashes, hc, pool, work, tok, flight, loop, pending, count>>

(* The get page filter, serial: it ignores its item and keeps the token    *)
(* until there is a page.                                                  *)
GetPages ==
  /\ up /\ pending = <<>> /\ pages # <<>>
  /\ \E t \in Tokens : tok[t].pc = "wait"
  /\ pending' = pages /\ pages' = <<>>
  /\ UNCHANGED <<row, up, crashes, hc, pool, work, tok, flight, loop, count>>

TakePage(t) ==
  /\ up /\ tok[t].pc = "wait" /\ pending # <<>>
  /\ LET c == pending[Len(pending)] IN
       /\ hc' = [hc EXCEPT ![c].status = PARSING]
       /\ tok' = [tok EXCEPT ![t] = [pc |-> "digest", url |-> None, hc |-> c]]
  /\ pending' = SubSeq(pending, 1, Len(pending) - 1)
  /\ UNCHANGED <<row, up, crashes, pool, work, flight, loop, pages, count>>

(* Faulty: addRecords fails and the page is finished all the same.         *)
DigestProcessBug(t) ==
  /\ up /\ tok[t].pc = "digest"
  /\ hc' = [hc EXCEPT ![tok[t].hc].status = PARSING]
  /\ tok' = [tok EXCEPT ![t].pc = "release"]
  /\ UNCHANGED <<row, up, crashes, pool, work, flight, loop, queue, count>>

(* The digest filter: process() adds the links of the page, those of some  *)
(* url when the page is a redirect's ...                                   *)
DigestProcess(t) ==
  /\ up /\ tok[t].pc = "digest"
  /\ \E u \in Urls :
       /\ hc[tok[t].hc].id \in {u, None}
       /\ row' = AddRecords(row, Links[u])
  /\ hc' = [hc EXCEPT ![tok[t].hc].status = PARSING]
  /\ tok' = [tok EXCEPT ![t].pc = "release"]
  /\ UNCHANGED <<up, crashes, pool, work, flight, loop, queue, count>>

(* ... and the client is freed; the token returns to the first filter.     *)
DigestRelease(t) ==
  /\ up /\ tok[t].pc = "release"
  /\ FreeHC(tok[t].hc, FINISHED)
  /\ hc' = [hc EXCEPT ![tok[t].hc] = Done(@, FINISHED)]
  /\ tok' = [tok EXCEPT ![t] = Free]
  /\ UNCHANGED <<up, crashes, pool, work, flight, loop, queue, issue>>
-----------------------------------------------------------------------------
Crash == up /\ crashes < MaxCrash /\ crashes' = crashes + 1 /\ Die

(* main() again: __init__, recover() and the entrance.                     *)
Restart ==
  /\ ~up
  /\ up' = TRUE
  /\ row' = AddRecords(Recover(row), {Seed})
  /\ UNCHANGED <<crashes, hc, pool, work, tok, flight, loop, queue, count>>

TokenStep(t) ==
  \/ CollectTake(t)
  \/ LoadCreate(t) \/ LoadStart(t) \/ LoadMark(t) \/ LoadUpdate(t)
  \/ TakePage(t) \/ DigestProcess(t) \/ DigestRelease(t)

EventLoop(c) ==
  \/ PageArrives(c) \/ RequestFails(c)
  \/ RedirectBegins(c) \/ RedirectFollows(c) \/ RedirectEnds(c) \/ RedirectDies(c)

Next ==
  \/ CollectSelect \/ CollectMark \/ GetPages
  \/ \E t \in Tokens : TokenStep(t)
  \/ \E c \in Clients : EventLoop(c)
  \/ Crash \/ Restart

Spec == Init /\ [][Next]_vars

(* The threads run: libevent answers or times out every request (30 s, see *)
(* evhttp_connection_set_timeout) and TBB schedules every filter.  A crash *)
(* and a restart are nobody's duty.                                        *)
FairSpec ==
  /\ Spec
  /\ WF_vars(CollectSelect) /\ WF_vars(CollectMark) /\ WF_vars(GetPages)
  /\ WF_vars(\E t \in Tokens : CollectTake(t))
  /\ WF_vars(\E t \in Tokens : TakePage(t))
  /\ \A t \in Tokens : WF_vars(LoadCreate(t) \/ LoadStart(t) \/ LoadMark(t)
                                \/ LoadUpdate(t) \/ DigestProcess(t) \/ DigestRelease(t))
  /\ \A c \in Clients : WF_vars(EventLoop(c))
-----------------------------------------------------------------------------
TypeOK ==
  /\ row \in [Urls -> Status \cup {NoRow}]
  /\ up \in BOOLEAN /\ crashes \in 0 .. MaxCrash
  /\ hc \in [Clients -> Client]
  /\ memPool \subseteq Clients /\ shadow \subseteq Clients /\ freed \subseteq Clients
  /\ selected \subseteq Urls /\ urls \subseteq Urls
  /\ tok \in [Tokens -> Token]
  /\ flight \subseteq Clients /\ loop \in Loop
  /\ pages \in Seq(Clients) /\ pending \in Seq(Clients)
  /\ issue \in Nat /\ finish \in Nat

Digesting(t) == tok[t].pc \in {"digest", "release"}

(* A live client is in one place only: libevent, one of the two page       *)
(* vectors (once), or one digesting token; it is not marked done, and no   *)
(* list that create() takes from holds it.  Raw pointers pass through four *)
(* threads, so a second owner would parse or free a page twice.            *)
OneOwner ==
  /\ NoRepeat(pages) /\ NoRepeat(pending)
  /\ flight \cap (IdsOf(pages) \cup IdsOf(pending)) = {}
  /\ IdsOf(pages) \cap IdsOf(pending) = {}
  /\ \A t \in Tokens : Digesting(t) =>
       /\ tok[t].hc \notin flight \cup IdsOf(pages) \cup IdsOf(pending)
       /\ \A v \in Tokens : Digesting(v) /\ tok[v].hc = tok[t].hc => v = t
  /\ \A c \in Live : ~hc[c].finished /\ c \notin memPool \cup freed

(* A row is marked PROCESSING only while the collector or a token works on *)
(* it: no interleaving and no crash orphans a url in that state.  This is  *)
(* what getNextRecords and recover() are for.  Only a url without a host   *)
(* is dropped in that state, until the next recover().                     *)
InHand(u) ==
  \/ u \in urls
  \/ \E t \in Tokens : tok[t].pc \in {"create", "start", "mark", "update"} /\ tok[t].url = u

ProcessingInHand == up => \A u \in Urls \ NoHost : row[u] = PROCESSING => InHand(u)

(* No two live requests are for the same row, however SELECT, UPDATE, the  *)
(* tokens and the callbacks interleave: a url is not fetched twice at once.*)
OneRequestPerRow ==
  \A c, d \in Live : hc[c].id = hc[d].id /\ hc[c].id # None => c = d

(* getPendingRequest() is exactly the number of live requests, so it never *)
(* wraps below zero and the collector's throttle counts the right thing,   *)
(* also while a redirect has two of them.                                  *)
PendingIsLive == issue - finish = Cardinality(Live)

(* Live requests never outnumber the busy tokens, but for one: the request *)
(* of a Location is issued before the redirected one is finished.  So with *)
(* fewer tokens (20) than clients (100) it is not requests that empty the  *)
(* pool the event loop thread waits for.                                   *)
LiveWithinTokens ==
  Cardinality(Live) <= Cardinality({t \in Tokens : tok[t].pc # "free"})
                         + (IF loop.followed THEN 1 ELSE 0)

(* Every client is accounted for: free, finished and still in the shadow   *)
(* pool for the next cleanup(), live, just created by a token, or lost to  *)
(* a url without a host, which createHttpRequset gives up with neither     *)
(* done() nor a reset.  None drops out of circulation in any other way,    *)
(* however tokens, callbacks and reuse interleave.                         *)
Lost == {c \in Clients : hc[c].uri /\ ~hc[c].conn}

NoClientLeaks ==
  Clients = memPool \cup freed \cup Reusable \cup Live \cup Lost
              \cup {tok[t].hc : t \in {x \in Tokens : tok[x].pc = "start"}}

(* A row says FINISHED only when the links of its page are in the table,   *)
(* whatever crash comes between addRecords and updateRecord.               *)
FinishedHasLinks ==
  \A u \in Urls : row[u] = FINISHED => \A v \in Links[u] : row[v] # NoRow
-----------------------------------------------------------------------------
(* Every url in the table that has a host is eventually requested.         *)
EveryUrlRequested ==
  \A u \in Urls \ NoHost : row[u] \in {UNCHECK, PROCESSING} ~> row[u] \notin {UNCHECK, PROCESSING}

(* Every request ends: its client is eventually marked done.               *)
EveryRequestEnds == \A c \in Clients : c \in flight ~> hc[c].finished

(* web_voyager.h: updateRecord is to update the url record after the http  *)
(* request finished.  When a request has finished and no token works for   *)
(* its url any more, the row says how it ended.                            *)
FinishedRowIsFinal ==
  \A c \in Clients : hc[c].finished /\ hc[c].id # None /\ ~InHand(hc[c].id)
                        => row[hc[c].id] \in {FAILED, NOT_EXIST, UNSUPPORT, FINISHED}

(* structure.h: done() notifies CMemCreator that the client can be reused. *)
(* However often clients are reused, only a crash from outside ends the    *)
(* process.                                                                *)
ReusedClientsWork == [][up /\ ~up' => crashes' > crashes]_vars
=============================================================================

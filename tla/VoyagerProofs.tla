--------------------------- MODULE VoyagerProofs ---------------------------
(***************************************************************************)
(* Safety of the crawler for every set of urls, clients and tokens: one    *)
(* inductive invariant, IInv, from which the ownership of clients, the     *)
(* accounting of the pool and the PROCESSING discipline of the table       *)
(* follow; and a second one, RInv, about what its requests are for.        *)
(***************************************************************************)
EXTENDS Voyager, ListTheorems, TLAPS

Loading(t) == tok[t].pc \in {"start", "mark", "update"}

(* What a token carries in each filter.                                    *)
TokInv ==
  \A t \in Tokens :
    /\ tok[t].pc \in {"create", "start", "mark", "update"} => tok[t].url \in Urls
    /\ Loading(t) \/ Digesting(t) => tok[t].hc \in Clients

(* The deleter's list and the shadow pool are disjoint; only a client the  *)
(* shadow pool holds has a uri.                                            *)
PoolInv ==
  /\ freed \cap shadow = {}
  /\ \A c \in Clients : hc[c].uri => c \in shadow

(* A live client has its uri, is not done and is not in m_memPool.         *)
LiveInv == \A c \in Live : hc[c].uri /\ ~hc[c].finished /\ c \notin memPool

(* A client no create() has returned yet is known to no token.             *)
VirginInv == \A t \in Tokens : Loading(t) => tok[t].hc \notin memPool \cap shadow

(* A client about to be started is its token's alone, unless its uri is    *)
(* gone already.                                                           *)
StartInv ==
  \A t \in Tokens : tok[t].pc = "start" /\ hc[tok[t].hc].uri =>
    /\ hc[tok[t].hc].id = tok[t].url
    /\ ~hc[tok[t].hc].finished
    /\ tok[t].hc \notin memPool \cup Live
    /\ \A v \in Tokens : tok[v].pc = "start" /\ tok[v].hc = tok[t].hc => v = t

(* What the code may be about to write to the table is not PROCESSING.     *)
StatusInv ==
  /\ \A t \in Tokens : tok[t].pc = "update" => hc[tok[t].hc].status # PROCESSING
  /\ loop.hc # None => loop.hc \in flight /\ hc[loop.hc].status # PROCESSING
  /\ loop.hc = None => ~loop.followed

SelectInv == selected = {} \/ urls = {}

(* Who works on a PROCESSING row: the collector, a token that has not      *)
(* started its request, or one whose client is still the row's.            *)
FirstHand(u) ==
  u \in urls \/ \E t \in Tokens : tok[t].pc \in {"create", "start"} /\ tok[t].url = u

Holds(t, u) ==
  /\ tok[t].pc \in {"mark", "update"} /\ tok[t].url = u
  /\ tok[t].hc \in shadow
  /\ hc[tok[t].hc].id = u /\ ~hc[tok[t].hc].finished

HandInv ==
  up => \A u \in Urls \ NoHost : row[u] = PROCESSING => FirstHand(u) \/ \E t \in Tokens : Holds(t, u)

IInv ==
  /\ TypeOK /\ TokInv /\ PoolInv /\ LiveInv /\ VirginInv /\ StartInv
  /\ StatusInv /\ SelectInv /\ HandInv /\ OneOwner /\ NoClientLeaks
-----------------------------------------------------------------------------
LEMMA LiveMembers ==
  ASSUME NEW c
  PROVE  c \in Live <=> \/ c \in flight \/ c \in IdsOf(pages) \/ c \in IdsOf(pending)
                       \/ \E t \in Tokens : Digesting(t) /\ tok[t].hc = c
BY DEF Live, Digesting

LEMMA LiveClients == ASSUME TypeOK, TokInv PROVE Live \subseteq Clients
<1> SUFFICES ASSUME NEW x \in Live PROVE x \in Clients
  OBVIOUS
<1>1. IdsOf(pages) \subseteq Clients /\ IdsOf(pending) \subseteq Clients
  BY DEF TypeOK, IdsOf
<1> QED
  BY <1>1, LiveMembers DEF TypeOK, TokInv

LEMMA InitInv == Init => IInv
<1> SUFFICES ASSUME Init PROVE IInv
  OBVIOUS
<1> USE VoyagerAssumption, EmptyIds DEF Init, Fresh, Free, Idle, Blank
<1>1. TypeOK
  BY DEF TypeOK, Client, Token, Loop, Status, AddRecords, UNCHECK, NoRow, FINISHED
<1>2. Live = {}
  BY DEF Live
<1>3. TokInv /\ PoolInv /\ LiveInv /\ VirginInv /\ StartInv /\ StatusInv /\ SelectInv
  BY <1>2 DEF TokInv, PoolInv, LiveInv, VirginInv, StartInv, StatusInv, SelectInv, Loading, Digesting
<1>4. HandInv
  BY DEF HandInv, AddRecords, NoRow, UNCHECK, PROCESSING
<1>5. OneOwner /\ NoClientLeaks
  <2>1. Clients = memPool
    OBVIOUS
  <2>2. \A t \in Tokens : tok[t].pc = "free"
    OBVIOUS
  <2> QED
    BY <1>2, <2>1, <2>2 DEF OneOwner, NoClientLeaks, Digesting, Reusable, Lost
<1> QED
  BY <1>1, <1>3, <1>4, <1>5 DEF IInv
-----------------------------------------------------------------------------
(* What create() does to the lists, whoever calls it: the client returned  *)
(* leaves them, unless its shared_ptr was the last, and no live client is  *)
(* touched.                                                                *)
LEMMA CreateLists ==
  ASSUME IInv, NEW c \in Clients, NEW E \in SUBSET Clients, Create(c, E), FreedAfter(c)
  PROVE  /\ memPool' \subseteq Clients /\ shadow' = shadow \ E /\ freed' \subseteq Clients
         /\ freed' \cap shadow' = {}
         /\ memPool' \subseteq memPool \cup freed \cup E /\ c \notin memPool'
         /\ memPool' \cap shadow' \subseteq memPool \cap shadow
         /\ c \in shadow' => c \in memPool /\ c \in shadow
         /\ c \notin shadow' => c \in freed'
         /\ \A x \in E : x \in shadow /\ hc[x].finished
         /\ memPool \cup freed \cup E \subseteq memPool' \cup freed' \cup {c}
         /\ c \notin Live /\ E \cap Live = {} /\ memPool' \cap Live = {}
<1> USE DEF Create, FreedAfter, Reusable
<1>1. /\ memPool \subseteq Clients /\ shadow \subseteq Clients /\ freed \subseteq Clients
      /\ freed \cap shadow = {}
  BY DEF IInv, TypeOK, PoolInv
<1>2. \A x \in Live : x \in Clients /\ x \notin memPool /\ x \notin freed /\ ~hc[x].finished
  <2>1. Live \subseteq Clients
    BY LiveClients DEF IInv
  <2> QED
    BY <1>1, <2>1 DEF IInv, PoolInv, LiveInv
<1>3. \A x \in E : x \in shadow /\ hc[x].finished
  OBVIOUS
<1>4. c \in memPool \cup freed \cup E
  OBVIOUS
<1> QED
  BY <1>1, <1>2, <1>3, <1>4

(* ... and to the clients.                                                 *)
LEMMA CreateClients ==
  ASSUME IInv, NEW c \in Clients, NEW E \in SUBSET Clients, Create(c, E), NEW h \in Client
  PROVE  LET f == ClientsAfter(c, E, h) IN
         /\ f \in [Clients -> Client]
         /\ f[c] = IF c \in shadow' THEN h ELSE Reset(h)
         /\ \A x \in E : x # c => f[x] = Reset(hc[x])
         /\ \A x \in Clients : x # c /\ x \notin E => f[x] = hc[x]
<1>1. \A x \in Client : Reset(x) \in Client
  <2> SUFFICES ASSUME NEW x \in Client PROVE Reset(x) \in Client
    OBVIOUS
  <2>1. UNCHECK \in Status
    BY DEF Status, UNCHECK, FINISHED
  <2> QED
    BY <2>1 DEF Reset, Client
<1> QED
  BY <1>1 DEF ClientsAfter, IInv, TypeOK
-----------------------------------------------------------------------------
(* Everything but the row discipline depends on the clients, the tokens    *)
(* and the lists only.                                                     *)
ClientInv ==
  /\ TokInv /\ PoolInv /\ LiveInv /\ VirginInv /\ StartInv /\ StatusInv
  /\ OneOwner /\ NoClientLeaks

LEMMA ClientInvSame ==
  ASSUME ClientInv, UNCHANGED <<hc, pool, tok, flight, loop, queue>>
  PROVE  ClientInv'
<1>1. Live' = Live
  BY DEF Live, queue, IdsOf
<1>2. TokInv' /\ PoolInv' /\ VirginInv' /\ StatusInv'
  BY DEF ClientInv, TokInv, PoolInv, VirginInv, StatusInv, pool, Loading, Digesting
<1>3. LiveInv' /\ StartInv'
  BY <1>1 DEF ClientInv, LiveInv, StartInv, pool
<1>4. OneOwner' /\ NoClientLeaks'
  BY <1>1 DEF ClientInv, OneOwner, NoClientLeaks, Reusable, Lost, Digesting, NoRepeat, IdsOf, pool, queue
<1> QED
  BY <1>2, <1>3, <1>4 DEF ClientInv

LEMMA CollectSelectInv == ASSUME IInv, CollectSelect PROVE IInv'
<1> USE DEF CollectSelect
<1>1. ClientInv'
  BY ClientInvSame DEF IInv, ClientInv
<1>2. TypeOK' /\ SelectInv'
  BY DEF IInv, TypeOK, SelectInv, Unchecked, pool, queue, count
<1>3. HandInv'
  BY DEF IInv, HandInv, FirstHand, Holds, pool
<1> QED
  BY <1>1, <1>2, <1>3 DEF IInv, ClientInv

LEMMA CollectMarkInv == ASSUME IInv, CollectMark PROVE IInv'
<1> USE DEF CollectMark
<1>1. ClientInv'
  BY ClientInvSame DEF IInv, ClientInv
<1>2. PROCESSING \in Status
  BY DEF Status, PROCESSING, UNCHECK, FINISHED
<1>3. TypeOK' /\ SelectInv'
  BY <1>2 DEF IInv, TypeOK, SelectInv, pool, queue, count
<1>4. HandInv'
  <2> SUFFICES ASSUME up, NEW u \in Urls \ NoHost, row'[u] = PROCESSING
               PROVE  FirstHand(u)' \/ \E t \in Tokens : Holds(t, u)'
    BY DEF HandInv
  <2>1. CASE u \in selected
    BY <2>1 DEF FirstHand
  <2>2. CASE u \notin selected
    <3>1. row[u] = PROCESSING /\ urls = {}
      BY <2>2 DEF IInv, SelectInv, TypeOK
    <3> QED
      BY <3>1 DEF IInv, HandInv, FirstHand, Holds, pool
  <2> QED
    BY <2>1, <2>2
<1> QED
  BY <1>1, <1>3, <1>4 DEF IInv, ClientInv

(* A step that only hands a fetched record to a free token.                *)
LEMMA CollectTakeInv == ASSUME IInv, NEW t \in Tokens, CollectTake(t) PROVE IInv'
<1> USE DEF CollectTake
<1>0. PICK u \in urls : /\ urls' = urls \ {u}
                        /\ tok' = [tok EXCEPT ![t] = [pc |-> "create", url |-> u, hc |-> None]]
  OBVIOUS
<1>1. /\ tok \in [Tokens -> Token] /\ urls \subseteq Urls
      /\ tok[t].pc = "free" /\ tok'[t].pc = "create" /\ tok'[t].url = u
      /\ \A v \in Tokens : v # t => tok'[v] = tok[v]
  BY <1>0 DEF IInv, TypeOK
<1>2. TypeOK' /\ SelectInv'
  BY <1>0, <1>1 DEF IInv, TypeOK, SelectInv, pool, queue, count, Token
<1>3. Live' = Live
  BY <1>1 DEF Live, queue, IdsOf
<1>4. TokInv' /\ PoolInv' /\ VirginInv' /\ StatusInv'
  BY <1>1 DEF IInv, TokInv, PoolInv, VirginInv, StatusInv, pool, Loading, Digesting
<1>5. LiveInv' /\ StartInv'
  BY <1>1, <1>3 DEF IInv, LiveInv, StartInv, pool
<1>6. OneOwner' /\ NoClientLeaks'
  BY <1>1, <1>3 DEF IInv, OneOwner, NoClientLeaks, Reusable, Lost, Digesting, NoRepeat, IdsOf, pool, queue
<1>7. HandInv'
  BY <1>0, <1>1 DEF IInv, HandInv, FirstHand, Holds, pool
<1> QED
  BY <1>2, <1>4, <1>5, <1>6, <1>7 DEF IInv
-----------------------------------------------------------------------------
(* A token that has its client.  The new client is in nobody's hand: it    *)
(* was in m_memPool, or it is not in the shadow pool and has no uri.       *)
LEMMA LoadCreateInv == ASSUME IInv, NEW t \in Tokens, LoadCreate(t) PROVE IInv'
<1> DEFINE u == tok[t].url
<1> USE DEF LoadCreate
<1>0. PICK c \in Clients, E \in SUBSET Clients :
        /\ Create(c, E) /\ FreedAfter(c)
        /\ \/ /\ u \notin BadUrls \cup NoHost
              /\ hc' = ClientsAfter(c, E, Request(u))
              /\ tok' = [tok EXCEPT ![t].pc = "start", ![t].hc = c]
              /\ UNCHANGED row
           \/ /\ u \in BadUrls
              /\ hc' = ClientsAfter(c, E, Unsupported(u))
              /\ UpdateRecord(Unsupported(u))
              /\ tok' = [tok EXCEPT ![t] = [pc |-> "wait", url |-> None, hc |-> None]]
           \/ /\ u \in NoHost
              /\ hc' = ClientsAfter(c, E, HostLess(u))
              /\ tok' = [tok EXCEPT ![t] = [pc |-> "wait", url |-> None, hc |-> None]]
              /\ UNCHANGED row
  OBVIOUS
<1>1. tok \in [Tokens -> Token] /\ u \in Urls /\ tok[t].pc = "create"
  BY DEF IInv, TypeOK, TokInv
<1>h. PICK h \in Client :
        /\ hc' = ClientsAfter(c, E, h)
        /\ \/ h = Request(u) /\ u \notin BadUrls \cup NoHost
           \/ h = Unsupported(u) /\ u \in BadUrls
           \/ h = HostLess(u) /\ u \in NoHost
  <2>1. Request(u) \in Client /\ Unsupported(u) \in Client /\ HostLess(u) \in Client
    BY <1>1 DEF Request, Unsupported, HostLess, Client, Status, INITIALIZED, UNSUPPORT, UNCHECK, FINISHED
  <2> QED
    BY <1>0, <2>1
<1>2. /\ hc' \in [Clients -> Client]
      /\ hc'[c] = IF c \in shadow' THEN h ELSE Reset(h)
      /\ \A x \in E : x # c => hc'[x] = Reset(hc[x])
      /\ \A x \in Clients : x # c /\ x \notin E => hc'[x] = hc[x]
  BY SMTT(20), <1>0, <1>h, CreateClients
<1>3. /\ memPool' \subseteq Clients /\ shadow' = shadow \ E /\ freed' \subseteq Clients
      /\ freed' \cap shadow' = {}
      /\ memPool' \subseteq memPool \cup freed \cup E /\ c \notin memPool'
      /\ memPool' \cap shadow' \subseteq memPool \cap shadow
      /\ c \in shadow' => c \in memPool /\ c \in shadow
      /\ c \notin shadow' => c \in freed'
      /\ \A x \in E : x \in shadow /\ hc[x].finished
      /\ memPool \cup freed \cup E \subseteq memPool' \cup freed' \cup {c}
      /\ c \notin Live /\ E \cap Live = {} /\ memPool' \cap Live = {}
  BY <1>0, CreateLists
<1>4. /\ tok' \in [Tokens -> Token]
      /\ \A v \in Tokens : v # t => tok'[v] = tok[v]
      /\ \/ /\ tok'[t].pc = "start" /\ tok'[t].url = u /\ tok'[t].hc = c
            /\ h = Request(u) /\ row' = row
         \/ tok'[t].pc = "wait" /\ h = Unsupported(u) /\ UpdateRecord(Unsupported(u))
         \/ tok'[t].pc = "wait" /\ h = HostLess(u) /\ row' = row /\ u \in NoHost
  BY <1>0, <1>1, <1>h, VoyagerAssumption DEF Token
<1>5. Live' = Live
  BY <1>1, <1>4 DEF Live, queue, IdsOf
<1>6. /\ Request(u).id = u /\ Request(u).uri /\ ~Request(u).finished
      /\ Request(u).status = INITIALIZED
      /\ Unsupported(u).id = u /\ ~Unsupported(u).uri /\ Unsupported(u).finished
      /\ Unsupported(u).status = UNSUPPORT
      /\ HostLess(u).id = u /\ HostLess(u).uri /\ ~HostLess(u).conn /\ HostLess(u).status = UNCHECK
      /\ \A x \in Client : /\ ~Reset(x).uri /\ ~Reset(x).finished
                           /\ Reset(x).status = UNCHECK /\ Reset(x).id = x.id
  BY DEF Request, Unsupported, HostLess, Reset, Client
<1>7. TypeOK'
  <2>1. row' \in [Urls -> Status \cup {NoRow}]
    BY <1>0, <1>6 DEF IInv, TypeOK, UpdateRecord, Status, UNSUPPORT, UNCHECK, FINISHED
  <2> QED
    BY <1>2, <1>3, <1>4, <2>1 DEF IInv, TypeOK, work, queue, count
<1>8. TokInv'
  BY <1>1, <1>4 DEF IInv, TokInv, Loading, Digesting
<1>a. /\ hc'[c].uri => c \in shadow' /\ h # Unsupported(u) /\ hc'[c] = h
      /\ \A x \in E : x # c => ~hc'[x].uri /\ ~hc'[x].finished /\ x \notin shadow'
  BY <1>2, <1>3, <1>6, <1>h DEF IInv, TypeOK
<1>9. PoolInv'
  BY <1>2, <1>3, <1>a DEF IInv, PoolInv
<1>10. LiveInv'
  <2> SUFFICES ASSUME NEW x \in Live PROVE hc'[x].uri /\ ~hc'[x].finished /\ x \notin memPool'
    BY <1>5 DEF LiveInv
  <2>1. x \in Clients
    BY LiveClients DEF IInv
  <2> QED
    BY <1>2, <1>3, <2>1 DEF IInv, LiveInv
<1>11. VirginInv'
  BY <1>1, <1>3, <1>4 DEF IInv, VirginInv, Loading
<1>12. \A v \in Tokens : Loading(v) /\ v # t /\ hc'[tok[v].hc].uri
                          => hc'[tok[v].hc] = hc[tok[v].hc] /\ tok[v].hc # c
  BY <1>2, <1>3, <1>4, <1>6 DEF IInv, TypeOK, TokInv, VirginInv, PoolInv, Loading
<1>13. StartInv'
  <2> SUFFICES ASSUME NEW v \in Tokens, tok'[v].pc = "start", hc'[tok'[v].hc].uri
               PROVE  /\ hc'[tok'[v].hc].id = tok'[v].url
                      /\ ~hc'[tok'[v].hc].finished
                      /\ tok'[v].hc \notin memPool' \cup Live
                      /\ \A w \in Tokens : tok'[w].pc = "start" /\ tok'[w].hc = tok'[v].hc => w = v
    BY <1>5 DEF StartInv
  <2>1. CASE v = t
    <3>1. /\ tok'[t].hc = c /\ tok'[t].url = u /\ h = Request(u)
          /\ c \in shadow' /\ c \in memPool \cap shadow /\ hc'[c] = h
      BY <1>3, <1>4, <1>a, <2>1
    <3>2. \A w \in Tokens : w # t /\ tok'[w].pc = "start" => tok'[w].hc # c
      BY <1>4, <3>1 DEF IInv, VirginInv, Loading
    <3> QED
      BY <1>3, <1>6, <2>1, <3>1, <3>2
  <2>2. CASE v # t
    <3>1. tok'[v] = tok[v] /\ Loading(v) /\ hc'[tok[v].hc] = hc[tok[v].hc] /\ tok[v].hc # c
      BY <1>4, <1>12, <2>2 DEF Loading
    <3>2. tok[v].hc \notin memPool \cup freed \cup E
      BY <1>3, <3>1, <2>2 DEF IInv, StartInv, PoolInv, TokInv
    <3> QED
      BY <1>3, <1>4, <2>2, <3>1, <3>2 DEF IInv, StartInv
  <2> QED
    BY <2>1, <2>2
<1>14. StatusInv'
  <2>1. ASSUME NEW v \in Tokens, tok'[v].pc = "update" PROVE hc'[tok'[v].hc].status # PROCESSING
    <3>1. v # t /\ tok'[v] = tok[v] /\ tok[v].hc \in Clients /\ tok[v].hc \notin memPool \cap shadow
      BY <1>4, <2>1 DEF IInv, VirginInv, TokInv, Loading
    <3>2. hc[tok[v].hc].status # PROCESSING
      BY <2>1, <3>1 DEF IInv, StatusInv
    <3>3. CASE tok[v].hc = c
      <4>1. c \notin shadow'
        BY <1>3, <3>1, <3>3
      <4>2. hc'[c].status \in {UNCHECK, UNSUPPORT}
        BY <1>2, <1>6, <1>h, <4>1
      <4> QED
        BY <3>1, <3>3, <4>2 DEF UNCHECK, PROCESSING, UNSUPPORT
    <3>4. CASE tok[v].hc # c /\ tok[v].hc \in E
      <4>1. hc'[tok[v].hc] = Reset(hc[tok[v].hc]) /\ hc[tok[v].hc] \in Client
        BY <1>2, <3>1, <3>4 DEF IInv, TypeOK
      <4> QED
        BY <1>6, <3>1, <4>1 DEF UNCHECK, PROCESSING
    <3>5. CASE tok[v].hc # c /\ tok[v].hc \notin E
      BY <1>2, <3>1, <3>2, <3>5
    <3> QED
      BY <3>3, <3>4, <3>5
  <2>2. ASSUME loop.hc # None PROVE loop.hc \in flight /\ hc'[loop.hc].status # PROCESSING
    <3>1. /\ loop.hc \in flight /\ loop.hc \in Live /\ hc[loop.hc].status # PROCESSING
          /\ loop.hc \in Clients
      BY <2>2, LiveMembers DEF IInv, StatusInv, TypeOK
    <3> QED
      BY <1>2, <1>3, <3>1
  <2> QED
    BY <2>1, <2>2 DEF IInv, StatusInv
<1>15. SelectInv'
  BY DEF IInv, SelectInv, work
<1>16. HandInv'
  <2> SUFFICES ASSUME up, NEW x \in Urls \ NoHost, row'[x] = PROCESSING
               PROVE  FirstHand(x)' \/ \E v \in Tokens : Holds(v, x)'
    BY DEF HandInv
  <2>1. row[x] = PROCESSING /\ (tok'[t].pc = "start" \/ x # u)
    <3>1. CASE row' = row
      BY <1>4, <1>6, <3>1 DEF UpdateRecord, PROCESSING, UNSUPPORT
    <3>2. CASE UpdateRecord(Unsupported(u))
      BY <1>6, <3>2 DEF UpdateRecord, PROCESSING, UNSUPPORT
    <3> QED
      BY <1>4, <3>1, <3>2
  <2>2. ASSUME FirstHand(x) PROVE FirstHand(x)'
    <3>1. CASE x \in urls
      BY <3>1 DEF FirstHand, work
    <3>2. CASE x \notin urls
      <4>1. PICK v \in Tokens : tok[v].pc \in {"create", "start"} /\ tok[v].url = x
        BY <2>2, <3>2 DEF FirstHand
      <4>2. tok'[v].pc \in {"create", "start"} /\ tok'[v].url = x
        BY <1>4, <2>1, <4>1
      <4> QED
        BY <4>2 DEF FirstHand
    <3> QED
      BY <3>1, <3>2
  <2>3. ASSUME NEW v \in Tokens, Holds(v, x) PROVE Holds(v, x)'
    <3>1. v # t /\ tok'[v] = tok[v] /\ Loading(v) /\ tok[v].hc \in Clients
      BY <1>1, <1>4, <2>3 DEF Holds, IInv, TokInv, Loading
    <3>2. tok[v].hc \in shadow /\ tok[v].hc \notin memPool /\ ~hc[tok[v].hc].finished
      BY <2>3, <3>1 DEF Holds, IInv, VirginInv
    <3>3. tok[v].hc \notin E /\ tok[v].hc # c
      BY <1>3, <3>2
    <3> QED
      BY <1>2, <1>3, <2>3, <3>1, <3>3 DEF Holds
  <2> QED
    BY <2>1, <2>2, <2>3 DEF IInv, HandInv
<1>17. OneOwner'
  <2>1. \A x \in Live' : ~hc'[x].finished /\ x \notin memPool' \cup freed'
    <3>1. \A x \in Live : x \in Clients
      BY LiveClients DEF IInv
    <3> QED
      BY <1>5, <1>9, <1>10, <3>1 DEF LiveInv, PoolInv
  <2>2. \A v \in Tokens : Digesting(v)' => Digesting(v) /\ tok'[v] = tok[v]
    BY <1>4 DEF Digesting
  <2>3. UNCHANGED <<flight, pages, pending>>
    BY DEF queue
  <2> QED
    BY <2>1, <2>2, <2>3 DEF IInv, OneOwner, NoRepeat, IdsOf
<1>18. NoClientLeaks'
  <2> SUFFICES ASSUME NEW x \in Clients
               PROVE  \/ x \in memPool' \cup freed' \cup Live'
                      \/ (x \in shadow' /\ hc'[x].finished)
                      \/ hc'[x].uri /\ ~hc'[x].conn
                      \/ \E v \in Tokens : tok'[v].pc = "start" /\ tok'[v].hc = x
    <3>1. Live' \subseteq Clients
      BY <1>5, LiveClients DEF IInv
    <3>2. \A v \in Tokens : tok'[v].pc = "start" => tok'[v].hc \in Clients
      BY <1>8 DEF TokInv, Loading
    <3> QED
      BY <1>7, <3>1, <3>2 DEF NoClientLeaks, Reusable, Lost, TypeOK
  <2>1. CASE x = c
    BY <1>2, <1>3, <1>4, <1>6, <2>1
  <2>2. CASE x # c /\ x \in memPool \cup freed \cup E
    BY <1>3, <2>2
  <2>3. CASE x # c /\ x \notin memPool \cup freed \cup E
    <3>1. hc'[x] = hc[x] /\ (x \in shadow => x \in shadow')
      BY <1>2, <1>3, <2>3
    <3>2. \/ (x \in shadow /\ hc[x].finished) \/ x \in Live
          \/ hc[x].uri /\ ~hc[x].conn
          \/ \E v \in Tokens : tok[v].pc = "start" /\ tok[v].hc = x
      BY <2>3 DEF IInv, NoClientLeaks, Reusable, Lost
    <3> QED
      BY <1>1, <1>4, <1>5, <3>1, <3>2
  <2> QED
    BY <2>1, <2>2, <2>3
<1> QED
  BY <1>7, <1>8, <1>9, <1>10, <1>11, <1>13, <1>14, <1>15, <1>16, <1>17, <1>18 DEF IInv
-----------------------------------------------------------------------------
(* A dead process holds nothing; the table keeps its types.                *)
LEMMA DieInv ==
  ASSUME IInv, Die, crashes' \in 0 .. MaxCrash
  PROVE  IInv'
<1> USE EmptyIds DEF Die, Free, Idle, Blank
<1>1. TypeOK'
  <2>1. hc' \in [Clients -> Client] /\ tok' \in [Tokens -> Token]
    BY DEF Client, Token, Status, UNCHECK, FINISHED
  <2>2. row' \in [Urls -> Status \cup {NoRow}] /\ up' \in BOOLEAN
    BY DEF IInv, TypeOK
  <2>3. pages' \in Seq(Clients) /\ pending' \in Seq(Clients) /\ issue' \in Nat /\ finish' \in Nat
    OBVIOUS
  <2>4. loop' \in Loop /\ flight' \subseteq Clients
    BY DEF Loop
  <2>5. /\ memPool' \subseteq Clients /\ shadow' \subseteq Clients /\ freed' \subseteq Clients
        /\ selected' \subseteq Urls /\ urls' \subseteq Urls
    OBVIOUS
  <2> HIDE DEF Die
  <2> QED
    BY <2>1, <2>2, <2>3, <2>4, <2>5 DEF TypeOK
<1>2. /\ Live' = {}
      /\ \A t \in Tokens : tok'[t].pc = "free"
      /\ \A c \in Clients : hc'[c].uri = FALSE
  BY DEF Live
<1>3. TokInv' /\ PoolInv' /\ LiveInv' /\ VirginInv' /\ StartInv' /\ SelectInv' /\ HandInv'
  BY <1>2 DEF TokInv, PoolInv, LiveInv, VirginInv, StartInv, SelectInv, HandInv, Loading, Digesting
<1>4. StatusInv'
  BY <1>2 DEF StatusInv
<1>5. OneOwner'
  <2>1. \A t \in Tokens : ~Digesting(t)'
    BY <1>2 DEF Digesting
  <2> QED
    BY <1>2, <2>1 DEF OneOwner, NoRepeat, IdsOf
<1>6. NoClientLeaks'
  <2>1. Clients = memPool' /\ Reusable' = {} /\ freed' = {} /\ Lost' = {}
    BY DEF Reusable, Lost
  <2> QED
    BY <1>2, <2>1 DEF NoClientLeaks
<1> QED
  BY <1>1, <1>3, <1>4, <1>5, <1>6 DEF IInv

LEMMA CrashInv == ASSUME IInv, Crash PROVE IInv'
BY DieInv, VoyagerAssumption DEF Crash, IInv, TypeOK

LEMMA RestartInv == ASSUME IInv, Restart PROVE IInv'
<1> USE DEF Restart
<1>1. ClientInv'
  BY ClientInvSame DEF IInv, ClientInv
<1>2. TypeOK'
  BY DEF IInv, TypeOK, Recover, AddRecords, Status, UNCHECK, FINISHED, pool, work, queue, count
<1>3. SelectInv' /\ HandInv'
  BY DEF IInv, SelectInv, HandInv, Recover, AddRecords, PROCESSING, UNCHECK, work
<1> QED
  BY <1>1, <1>2, <1>3 DEF IInv, ClientInv
-----------------------------------------------------------------------------
(* make_request: the token's client becomes live.                          *)
LEMMA LoadStartInv == ASSUME IInv, NEW t \in Tokens, LoadStart(t) PROVE IInv'
<1> DEFINE c == tok[t].hc
<1>0. tok \in [Tokens -> Token] /\ c \in Clients /\ tok[t].pc = "start"
  BY DEF LoadStart, IInv, TypeOK, TokInv, Loading
<1>1. CASE ~hc[c].uri /\ Die /\ UNCHANGED crashes
  BY <1>1, DieInv DEF IInv, TypeOK
<1>2. CASE /\ hc[c].uri /\ issue' = issue + 1
           /\ flight' = flight \cup {c}
           /\ tok' = [tok EXCEPT ![t].pc = "mark"]
           /\ UNCHANGED <<row, up, crashes, hc, pool, work, loop, queue, finish>>
  <2> USE <1>2
  <2>1. /\ tok' \in [Tokens -> Token]
        /\ \A v \in Tokens : v # t => tok'[v] = tok[v]
        /\ tok'[t].pc = "mark" /\ tok'[t].hc = c /\ tok'[t].url = tok[t].url
    BY <1>0 DEF Token
  <2>2. UNCHANGED <<hc, memPool, shadow, freed, selected, urls, pages, pending, row, up, crashes, loop, finish>>
    BY DEF pool, work, queue
  <2>3. \A v \in Tokens : /\ Digesting(v)' <=> Digesting(v)
                          /\ Loading(v)' <=> Loading(v)
                          /\ tok'[v].hc = tok[v].hc /\ tok'[v].url = tok[v].url
                          /\ tok'[v].pc = "start" <=> tok[v].pc = "start" /\ v # t
                          /\ tok'[v].pc = "update" <=> tok[v].pc = "update"
    BY <1>0, <2>1 DEF Digesting, Loading
  <2>4. Live' = Live \cup {c}
    BY <2>1, <2>2, <1>0 DEF Live, IdsOf
  <2>5. /\ hc[c].id = tok[t].url /\ ~hc[c].finished /\ c \notin memPool \cup Live
        /\ \A v \in Tokens : tok[v].pc = "start" /\ tok[v].hc = c => v = t
        /\ c \in shadow /\ c \notin freed
    BY <1>0 DEF IInv, StartInv, PoolInv
  <2>6. TypeOK'
    BY <2>1, <2>2, <1>0 DEF IInv, TypeOK
  <2>7. TokInv' /\ PoolInv' /\ LiveInv' /\ SelectInv'
    BY <2>2, <2>3, <2>4, <2>5 DEF IInv, TokInv, PoolInv, LiveInv, SelectInv, Loading, Digesting
  <2>8. VirginInv' /\ StatusInv'
    BY <2>2, <2>3 DEF IInv, VirginInv, StatusInv
  <2>9. StartInv'
    BY <2>2, <2>3, <2>4, <2>5 DEF IInv, StartInv
  <2>10. HandInv'
    <3> SUFFICES ASSUME up, NEW u \in Urls \ NoHost, row[u] = PROCESSING
                 PROVE  FirstHand(u)' \/ \E v \in Tokens : Holds(v, u)'
      BY <2>2 DEF HandInv
    <3>1. CASE tok[t].url = u
      BY <2>1, <2>2, <2>5, <3>1 DEF Holds
    <3>2. CASE tok[t].url # u
      BY <2>1, <2>2, <3>2 DEF Holds, FirstHand, IInv, HandInv
    <3> QED
      BY <3>1, <3>2
  <2>11. OneOwner'
    <3>1. c \notin flight \cup IdsOf(pages) \cup IdsOf(pending)
      BY <2>5 DEF Live
    <3>2. \A v \in Tokens : Digesting(v) => tok[v].hc # c
      BY <2>5, LiveMembers
    <3>3. \A x \in Live' : ~hc'[x].finished /\ x \notin memPool' \cup freed'
      BY <2>2, <2>4, <2>5 DEF IInv, OneOwner
    <3> QED
      BY <2>2, <2>3, <3>1, <3>2, <3>3 DEF IInv, OneOwner, NoRepeat, IdsOf
  <2>12. NoClientLeaks'
    <3> SUFFICES ASSUME NEW x
                 PROVE  x \in Clients <=> \/ x \in memPool \cup freed \cup Reusable \cup Live \cup Lost \cup {c}
                                          \/ \E v \in Tokens : tok'[v].pc = "start" /\ tok'[v].hc = x
      BY <2>2, <2>4 DEF NoClientLeaks, Reusable, Lost
    <3> QED
      BY <1>0, <2>3 DEF IInv, NoClientLeaks
  <2> QED
    BY <2>6, <2>7, <2>8, <2>9, <2>10, <2>11, <2>12 DEF IInv
<1> QED
  BY <1>1, <1>2 DEF LoadStart

LEMMA LoadMarkInv == ASSUME IInv, NEW t \in Tokens, LoadMark(t) PROVE IInv'
<1> DEFINE c == tok[t].hc
<1> USE DEF LoadMark
<1>0. /\ tok \in [Tokens -> Token] /\ hc \in [Clients -> Client]
      /\ c \in Clients /\ tok[t].pc = "mark"
  BY DEF IInv, TypeOK, TokInv, Loading
<1>1. /\ tok' \in [Tokens -> Token]
      /\ tok'[t].pc = "update" /\ tok'[t].hc = c /\ tok'[t].url = tok[t].url
      /\ \A v \in Tokens : v # t => tok'[v] = tok[v]
  BY <1>0 DEF Token
<1>2. /\ hc' \in [Clients -> Client] /\ hc'[c].status = DOWNLOADING
      /\ \A x \in Clients : /\ hc'[x].id = hc[x].id /\ hc'[x].uri = hc[x].uri
                            /\ hc'[x].finished = hc[x].finished
                            /\ hc'[x].conn = hc[x].conn
                            /\ x # c => hc'[x] = hc[x]
  <2>1. DOWNLOADING \in Status
    BY DEF DOWNLOADING, Status, UNCHECK, FINISHED
  <2> QED
    BY <1>0, <2>1 DEF Client
<1>3. UNCHANGED <<memPool, shadow, freed, selected, urls, pages, pending, row, up, crashes, loop,
                  flight, issue, finish>>
  BY DEF pool, work, queue, count
<1>4. \A v \in Tokens : /\ Digesting(v)' <=> Digesting(v)
                        /\ Loading(v)' <=> Loading(v)
                        /\ tok'[v].hc = tok[v].hc /\ tok'[v].url = tok[v].url
                        /\ tok'[v].pc = "start" <=> tok[v].pc = "start"
                        /\ tok'[v].pc = "create" <=> tok[v].pc = "create"
                        /\ tok'[v].pc = "update" <=> tok[v].pc = "update" \/ v = t
  BY <1>0, <1>1 DEF Digesting, Loading
<1> HIDE DEF LoadMark, c
<1>5. Live' = Live /\ Live \subseteq Clients
  <2>1. Live' = Live
    BY <1>3, <1>4 DEF Live, IdsOf, Digesting
  <2>2. Live \subseteq Clients
    BY LiveClients DEF IInv
  <2> QED
    BY <2>1, <2>2
<1>6. TypeOK'
  BY <1>1, <1>2, <1>3 DEF IInv, TypeOK
<1>7. TokInv' /\ VirginInv' /\ SelectInv'
  BY <1>3, <1>4 DEF IInv, TokInv, VirginInv, SelectInv, Loading, Digesting
<1>8. PoolInv' /\ LiveInv'
  BY <1>2, <1>3, <1>5 DEF IInv, PoolInv, LiveInv
<1>9. StartInv'
  <2>1. \A v \in Tokens : tok[v].pc = "start" => tok[v].hc \in Clients
    BY DEF IInv, TokInv, Loading
  <2> QED
    BY <1>2, <1>3, <1>4, <1>5, <2>1 DEF IInv, StartInv
<1>10. StatusInv'
  <2>1. DOWNLOADING # PROCESSING
    BY DEF DOWNLOADING, PROCESSING
  <2>2. \A v \in Tokens : tok'[v].pc = "update" => tok'[v].hc \in Clients
    BY <1>7 DEF TokInv, Loading
  <2>3. loop.hc \in Clients \cup {None}
    BY DEF IInv, TypeOK, Loop
  <2>4. \A v \in Tokens : tok'[v].pc = "update" => hc'[tok'[v].hc].status # PROCESSING
    <3> SUFFICES ASSUME NEW v \in Tokens, tok'[v].pc = "update"
                 PROVE  hc'[tok'[v].hc].status # PROCESSING
      OBVIOUS
    <3>1. CASE tok'[v].hc = c
      BY <1>2, <2>1, <3>1
    <3>2. CASE tok'[v].hc # c
      <4>1. tok[v].pc = "update" /\ tok'[v].hc = tok[v].hc
        BY <1>1, <1>4, <3>2
      <4> QED
        BY <1>2, <2>2, <3>2, <4>1 DEF IInv, StatusInv
    <3> QED
      BY <3>1, <3>2
  <2>5. loop.hc # None => loop.hc \in flight /\ hc'[loop.hc].status # PROCESSING
    BY <1>2, <2>1, <2>3 DEF IInv, StatusInv
  <2> QED
    BY <1>3, <2>4, <2>5 DEF IInv, StatusInv
<1>11. HandInv'
  <2>1. ASSUME NEW v \in Tokens, NEW u \in Urls, Holds(v, u) PROVE Holds(v, u)'
    <3>1. tok[v].hc \in Clients /\ tok'[v].hc = tok[v].hc /\ tok'[v].url = tok[v].url
      BY <1>4, <2>1 DEF IInv, TokInv, Loading, Holds
    <3>2. tok'[v].pc \in {"mark", "update"}
      BY <1>1, <2>1 DEF Holds
    <3> QED
      BY <1>2, <1>3, <2>1, <3>1, <3>2 DEF Holds
  <2>2. \A u \in Urls : FirstHand(u) => FirstHand(u)'
    BY <1>3, <1>4 DEF FirstHand
  <2> QED
    BY <1>3, <2>1, <2>2 DEF IInv, HandInv
<1>12. OneOwner'
  <2>1. \A x \in Live' : ~hc'[x].finished /\ x \notin memPool' \cup freed'
    BY <1>2, <1>3, <1>5 DEF IInv, OneOwner
  <2> QED
    BY <1>3, <1>4, <2>1 DEF IInv, OneOwner, NoRepeat, IdsOf
<1>13. NoClientLeaks'
  <2>1. Reusable' = Reusable /\ Lost' = Lost
    BY <1>2, <1>3 DEF Reusable, Lost, IInv, TypeOK
  <2> QED
    BY <1>3, <1>4, <1>5, <2>1 DEF IInv, NoClientLeaks
<1> QED
  BY <1>6, <1>7, <1>8, <1>9, <1>10, <1>11, <1>12, <1>13 DEF IInv

(* The row a token writes is not PROCESSING, so nobody need stand for it.  *)
LEMMA LoadUpdateInv == ASSUME IInv, NEW t \in Tokens, LoadUpdate(t) PROVE IInv'
<1> DEFINE c == tok[t].hc
<1> USE DEF LoadUpdate
<1>0. /\ tok \in [Tokens -> Token] /\ hc \in [Clients -> Client]
      /\ c \in Clients /\ tok[t].pc = "update" /\ hc[c].status # PROCESSING
  BY DEF IInv, TypeOK, TokInv, StatusInv, Loading
<1>1. /\ tok' \in [Tokens -> Token] /\ tok'[t].pc = "wait"
      /\ \A v \in Tokens : v # t => tok'[v] = tok[v]
  BY <1>0 DEF Token
<1>2. UNCHANGED <<memPool, shadow, freed, selected, urls, pages, pending, hc, up, crashes, loop,
                  flight, issue, finish>>
  BY DEF pool, work, queue, count
<1>3. row' = [u \in Urls |-> IF u = hc[c].id THEN hc[c].status ELSE row[u]]
  BY DEF UpdateRecord
<1> HIDE DEF LoadUpdate, c
<1>4. Live' = Live
  BY <1>0, <1>1, <1>2 DEF Live, IdsOf
<1>5. TypeOK'
  <2>1. hc[c].status \in Status
    BY <1>0 DEF Client
  <2> QED
    BY <1>1, <1>2, <1>3, <2>1 DEF IInv, TypeOK
<1>6. TokInv' /\ PoolInv' /\ VirginInv' /\ StatusInv' /\ SelectInv'
  BY <1>0, <1>1, <1>2 DEF IInv, TokInv, PoolInv, VirginInv, StatusInv, SelectInv, Loading, Digesting
<1>7. LiveInv' /\ StartInv'
  BY <1>1, <1>2, <1>4 DEF IInv, LiveInv, StartInv
<1>8. HandInv'
  <2> SUFFICES ASSUME up, NEW u \in Urls \ NoHost, row'[u] = PROCESSING
               PROVE  FirstHand(u)' \/ \E v \in Tokens : Holds(v, u)'
    BY <1>2 DEF HandInv
  <2>1. row[u] = PROCESSING /\ u # hc[c].id
    BY <1>0, <1>3
  <2>2. FirstHand(u) => FirstHand(u)'
    BY <1>0, <1>1, <1>2 DEF FirstHand
  <2>3. \A v \in Tokens : Holds(v, u) => Holds(v, u)'
    BY <1>1, <1>2, <2>1 DEF Holds, c
  <2> QED
    BY <2>1, <2>2, <2>3 DEF IInv, HandInv
<1>9. OneOwner' /\ NoClientLeaks'
  <2>1. \A v \in Tokens : /\ Digesting(v)' <=> Digesting(v)
                          /\ Digesting(v) => tok'[v].hc = tok[v].hc
                          /\ tok'[v].pc = "start" <=> tok[v].pc = "start"
                          /\ tok[v].pc = "start" => tok'[v].hc = tok[v].hc
    BY <1>0, <1>1 DEF Digesting
  <2>2. OneOwner'
    BY <1>2, <1>4, <2>1 DEF IInv, OneOwner, NoRepeat, IdsOf
  <2>3. {tok'[v].hc : v \in {x \in Tokens : tok'[x].pc = "start"}}
          = {tok[v].hc : v \in {x \in Tokens : tok[x].pc = "start"}}
    BY <2>1
  <2> QED
    BY <1>2, <1>4, <2>2, <2>3 DEF IInv, NoClientLeaks, Reusable, Lost
<1> QED
  BY <1>5, <1>6, <1>7, <1>8, <1>9 DEF IInv
-----------------------------------------------------------------------------
(* The steps of the event loop and of the digest filter change a client's  *)
(* status, or mark it done, and leave the loading tokens alone.            *)
LEMMA StatusOnly ==
  ASSUME IInv, NEW c \in Clients, NEW s \in Status, s # PROCESSING,
         hc' = [hc EXCEPT ![c].status = s], Live' = Live, UNCHANGED pool
  PROVE  /\ hc' \in [Clients -> Client]
         /\ \A x \in Clients : /\ hc'[x].id = hc[x].id /\ hc'[x].uri = hc[x].uri
                               /\ hc'[x].finished = hc[x].finished
                               /\ x # c => hc'[x] = hc[x]
                               /\ hc[x].status # PROCESSING => hc'[x].status # PROCESSING
         /\ hc'[c].status = s
         /\ PoolInv' /\ LiveInv' /\ Reusable' = Reusable /\ Lost' = Lost
         /\ \A x \in Live' : ~hc'[x].finished /\ x \notin memPool' \cup freed'
<1>1. hc \in [Clients -> Client] /\ Live \subseteq Clients
  BY LiveClients DEF IInv, TypeOK
<1>2. /\ hc' \in [Clients -> Client] /\ hc'[c].status = s
      /\ \A x \in Clients : /\ hc'[x].id = hc[x].id /\ hc'[x].uri = hc[x].uri
                            /\ hc'[x].finished = hc[x].finished
                            /\ x # c => hc'[x] = hc[x]
                            /\ hc[x].status # PROCESSING => hc'[x].status # PROCESSING
  BY <1>1 DEF Client
<1>3. PoolInv' /\ LiveInv'
  BY <1>1, <1>2 DEF IInv, PoolInv, LiveInv, pool
<1>4. Reusable' = Reusable /\ Lost' = Lost
  <2>1. \A x \in Clients : hc'[x].conn = hc[x].conn
    BY <1>1 DEF Client
  <2> QED
    BY <1>2, <2>1 DEF IInv, TypeOK, Reusable, Lost, pool
<1>5. \A x \in Live' : ~hc'[x].finished /\ x \notin memPool' \cup freed'
  BY <1>1, <1>2 DEF IInv, OneOwner, pool
<1> QED
  BY <1>2, <1>3, <1>4, <1>5

LEMMA DoneOnly ==
  ASSUME IInv, NEW c \in Live, NEW s \in Status, s # PROCESSING,
         hc' = [hc EXCEPT ![c] = Done(@, s)], Live' = Live \ {c}, UNCHANGED pool
  PROVE  /\ c \in Clients
         /\ hc' \in [Clients -> Client]
         /\ \A x \in Clients : /\ hc'[x].id = hc[x].id /\ hc'[x].uri = hc[x].uri
                               /\ x # c => hc'[x] = hc[x]
                               /\ hc[x].status # PROCESSING => hc'[x].status # PROCESSING
         /\ hc'[c].status = s
         /\ PoolInv' /\ LiveInv' /\ Reusable' = Reusable \cup {c} /\ Lost' = Lost
         /\ \A x \in Live' : ~hc'[x].finished /\ x \notin memPool' \cup freed'
<1>1. hc \in [Clients -> Client] /\ Live \subseteq Clients
  BY LiveClients DEF IInv, TypeOK
<1>2. /\ hc' \in [Clients -> Client] /\ hc'[c].status = s /\ hc'[c].finished
      /\ \A x \in Clients : /\ hc'[x].id = hc[x].id /\ hc'[x].uri = hc[x].uri
                            /\ x # c => hc'[x] = hc[x]
                            /\ hc[x].status # PROCESSING => hc'[x].status # PROCESSING
  BY <1>1 DEF Client, Done
<1>3. PoolInv' /\ LiveInv'
  BY <1>1, <1>2 DEF IInv, PoolInv, LiveInv, pool
<1>4. Reusable' = Reusable \cup {c} /\ Lost' = Lost
  <2>1. c \in shadow
    BY <1>1 DEF IInv, LiveInv, PoolInv
  <2>2. \A x \in Clients : hc'[x].conn = hc[x].conn
    BY <1>1 DEF Client, Done
  <2> QED
    BY <1>1, <1>2, <2>1, <2>2 DEF IInv, TypeOK, Reusable, Lost, pool
<1>5. \A x \in Live' : ~hc'[x].finished /\ x \notin memPool' \cup freed'
  BY <1>1, <1>2 DEF IInv, OneOwner, pool
<1> QED
  BY <1>1, <1>2, <1>3, <1>4, <1>5

(* Whoever a PROCESSING row is in the hand of keeps it, when no row        *)
(* becomes PROCESSING and a client is only done with a row that is not.    *)
LEMMA HandSame ==
  ASSUME IInv, UNCHANGED <<up, urls>>, shadow \subseteq shadow',
         \A v \in Tokens : tok[v].pc \in {"create", "start", "mark", "update"} => tok'[v] = tok[v],
         \A u \in Urls : row'[u] = PROCESSING => row[u] = PROCESSING,
         \A x \in Clients : /\ hc'[x].id = hc[x].id
                            /\ ~hc[x].finished /\ hc[x].id \in Urls
                                 /\ row'[hc[x].id] = PROCESSING => ~hc'[x].finished
  PROVE  HandInv'
<1> SUFFICES ASSUME up, NEW u \in Urls \ NoHost, row'[u] = PROCESSING
             PROVE  FirstHand(u)' \/ \E v \in Tokens : Holds(v, u)'
  BY DEF HandInv
<1>1. CASE FirstHand(u)
  BY <1>1 DEF FirstHand
<1>2. ASSUME NEW v \in Tokens, Holds(v, u) PROVE Holds(v, u)'
  <2>1. tok'[v] = tok[v] /\ tok[v].hc \in Clients
    BY <1>2 DEF Holds, IInv, TokInv, Loading
  <2> QED
    BY <1>2, <2>1 DEF Holds
<1> QED
  BY <1>1, <1>2 DEF IInv, HandInv

LEMMA PageArrivesInv == ASSUME IInv, NEW c \in Clients, PageArrives(c) PROVE IInv'
<1> USE DEF PageArrives
<1>0. c \in flight /\ loop = Idle /\ hc \in [Clients -> Client] /\ pages \in Seq(Clients)
  BY DEF IInv, TypeOK
<1>1. UNCHANGED <<memPool, shadow, freed, selected, urls, pending, tok, up, crashes, loop, issue, finish>>
  BY DEF pool, work, count
<1>2. /\ flight' = flight \ {c}
      /\ pages' \in Seq(Clients) /\ IdsOf(pages') = IdsOf(pages) \cup {c}
      /\ c \notin IdsOf(pages) /\ c \notin IdsOf(pending)
      /\ NoRepeat(pages')
  BY <1>0, AppendIds DEF IInv, OneOwner
<1>3. Live' = Live
  <2>1. Live' = flight' \cup IdsOf(pages') \cup IdsOf(pending)
                 \cup {tok[t].hc : t \in {x \in Tokens : tok[x].pc \in {"digest", "release"}}}
    BY <1>1 DEF Live, IdsOf
  <2> QED
    BY <1>0, <1>2, <2>1 DEF Live
<1>4. DOWNLOADED \in Status /\ DOWNLOADED # PROCESSING
  BY DEF DOWNLOADED, PROCESSING, Status, UNCHECK, FINISHED
<1>5. /\ hc' \in [Clients -> Client]
      /\ \A x \in Clients : /\ hc'[x].id = hc[x].id /\ hc'[x].uri = hc[x].uri
                            /\ hc'[x].finished = hc[x].finished
                            /\ x # c => hc'[x] = hc[x]
                            /\ hc[x].status # PROCESSING => hc'[x].status # PROCESSING
      /\ hc'[c].status = DOWNLOADED
      /\ PoolInv' /\ LiveInv' /\ Reusable' = Reusable /\ Lost' = Lost
      /\ \A x \in Live' : ~hc'[x].finished /\ x \notin memPool' \cup freed'
  BY <1>3, <1>4, StatusOnly
<1>6. row' = [u \in Urls |-> IF u = hc[c].id THEN DOWNLOADED ELSE row[u]]
  BY <1>5 DEF UpdateRecord
<1> HIDE DEF PageArrives
<1>7. TypeOK'
  BY <1>1, <1>2, <1>4, <1>5, <1>6 DEF IInv, TypeOK
<1>8. TokInv' /\ VirginInv' /\ SelectInv'
  BY <1>1 DEF IInv, TokInv, VirginInv, SelectInv, Loading, Digesting
<1>9. StartInv'
  <2>1. \A v \in Tokens : tok[v].pc = "start" => tok[v].hc \in Clients
    BY DEF IInv, TokInv, Loading
  <2> QED
    BY <1>1, <1>3, <1>5, <2>1 DEF IInv, StartInv
<1>10. StatusInv'
  <2>1. \A v \in Tokens : tok[v].pc = "update" => tok[v].hc \in Clients
    BY DEF IInv, TokInv, Loading
  <2> QED
    BY <1>0, <1>1, <1>5, <2>1 DEF IInv, StatusInv, Idle
<1>11. HandInv'
  BY <1>1, <1>4, <1>5, <1>6, HandSame
<1>12. OneOwner'
  <2>1. /\ flight' \cap (IdsOf(pages') \cup IdsOf(pending')) = {}
        /\ IdsOf(pages') \cap IdsOf(pending') = {}
        /\ NoRepeat(pages') /\ NoRepeat(pending')
    BY <1>1, <1>2 DEF IInv, OneOwner
  <2>2. flight' \cup IdsOf(pages') \cup IdsOf(pending') = flight \cup IdsOf(pages) \cup IdsOf(pending)
    BY <1>0, <1>1, <1>2
  <2>3. \A t \in Tokens : Digesting(t)' <=> Digesting(t)
    BY <1>1 DEF Digesting
  <2> QED
    BY <1>1, <1>5, <2>1, <2>2, <2>3 DEF IInv, OneOwner, NoRepeat, IdsOf
<1>13. NoClientLeaks'
  BY <1>1, <1>3, <1>5 DEF IInv, NoClientLeaks
<1> QED
  BY <1>5, <1>7, <1>8, <1>9, <1>10, <1>11, <1>12, <1>13 DEF IInv

(* freeHC on the event loop thread: the client leaves libevent.            *)
LEMMA FlightEnds ==
  ASSUME IInv, NEW c \in flight, flight' = flight \ {c}, UNCHANGED <<tok, pages, pending>>
  PROVE  /\ Live' = Live \ {c}
         /\ c \notin IdsOf(pages) /\ c \notin IdsOf(pending)
         /\ \A t \in Tokens : Digesting(t) => tok[t].hc # c
<1>1. /\ c \notin IdsOf(pages) /\ c \notin IdsOf(pending)
      /\ \A t \in Tokens : Digesting(t) => tok[t].hc # c
  BY DEF IInv, OneOwner
<1>2. \A t \in Tokens : tok[t].pc \in {"digest", "release"} => tok[t].hc # c
  BY <1>1 DEF Digesting
<1> QED
  BY <1>1, <1>2 DEF Live, IdsOf

LEMMA RequestFailsInv == ASSUME IInv, NEW c \in Clients, RequestFails(c) PROVE IInv'
<1>0. PICK s \in {FAILED, NOT_EXIST} : hc' = [hc EXCEPT ![c] = Done(@, s)] /\ FreeHC(c, s)
  BY DEF RequestFails
<1>1. /\ loop = Idle /\ c \in flight /\ flight' = flight \ {c}
      /\ UNCHANGED <<memPool, shadow, freed, pool, selected, urls, pages, pending, tok, up, crashes, loop, issue>>
  BY DEF RequestFails, pool, work, queue
<1>2. s \in Status /\ s # PROCESSING
  BY DEF FAILED, NOT_EXIST, PROCESSING, Status, UNCHECK, FINISHED
<1>3. /\ c \in Live /\ Live' = Live \ {c}
      /\ c \notin IdsOf(pages) /\ c \notin IdsOf(pending)
      /\ \A t \in Tokens : Digesting(t) => tok[t].hc # c
  BY <1>1, FlightEnds DEF Live
<1>4. /\ hc' \in [Clients -> Client]
      /\ \A x \in Clients : /\ hc'[x].id = hc[x].id /\ hc'[x].uri = hc[x].uri
                            /\ x # c => hc'[x] = hc[x]
                            /\ hc[x].status # PROCESSING => hc'[x].status # PROCESSING
      /\ PoolInv' /\ LiveInv' /\ Reusable' = Reusable \cup {c} /\ Lost' = Lost
      /\ \A x \in Live' : ~hc'[x].finished /\ x \notin memPool' \cup freed'
  BY <1>0, <1>1, <1>2, <1>3, DoneOnly
<1>5. /\ row' = [u \in Urls |-> IF u = hc[c].id THEN s ELSE row[u]]
      /\ finish' = finish + 1
  <2>1. [hc[c] EXCEPT !.status = s].id = hc[c].id /\ [hc[c] EXCEPT !.status = s].status = s
    BY DEF IInv, TypeOK, Client
  <2> QED
    BY <1>0, <2>1 DEF FreeHC, UpdateRecord
<1>6. TypeOK'
  BY <1>1, <1>2, <1>4, <1>5 DEF IInv, TypeOK
<1>7. TokInv' /\ VirginInv' /\ SelectInv'
  BY <1>1 DEF IInv, TokInv, VirginInv, SelectInv, Loading, Digesting
<1>8. StartInv'
  <2>1. \A v \in Tokens : tok[v].pc = "start" /\ hc[tok[v].hc].uri => tok[v].hc # c /\ tok[v].hc \in Clients
    BY <1>3 DEF IInv, StartInv, TokInv, Loading
  <2>2. \A v \in Tokens : tok[v].pc = "start" => tok[v].hc \in Clients
    BY DEF IInv, TokInv, Loading
  <2> QED
    BY <1>1, <1>3, <1>4, <2>1, <2>2 DEF IInv, StartInv
<1>9. StatusInv'
  <2>1. \A v \in Tokens : tok[v].pc = "update" => tok[v].hc \in Clients
    BY DEF IInv, TokInv, Loading
  <2> QED
    BY <1>1, <1>4, <2>1 DEF IInv, StatusInv, Idle
<1>10. HandInv'
  BY <1>1, <1>2, <1>4, <1>5, HandSame
<1>11. OneOwner'
  <2>1. \A t \in Tokens : Digesting(t)' <=> Digesting(t)
    BY <1>1 DEF Digesting
  <2> QED
    BY <1>1, <1>4, <2>1 DEF IInv, OneOwner, NoRepeat, IdsOf
<1>12. NoClientLeaks'
  BY <1>1, <1>3, <1>4 DEF IInv, NoClientLeaks
<1> QED
  BY <1>4, <1>6, <1>7, <1>8, <1>9, <1>10, <1>11, <1>12 DEF IInv

LEMMA RedirectBeginsInv == ASSUME IInv, NEW c \in Clients, RedirectBegins(c) PROVE IInv'
<1> USE DEF RedirectBegins
<1>1. /\ c \in flight /\ loop' = [hc |-> c, followed |-> FALSE]
      /\ UNCHANGED <<memPool, shadow, freed, pool, selected, urls, pages, pending, tok, up, crashes, row, flight, issue, finish>>
  BY DEF pool, work, queue, count
<1>2. FAILED \in Status /\ FAILED # PROCESSING
  BY DEF FAILED, PROCESSING, Status, UNCHECK, FINISHED
<1>3. Live' = Live
  BY <1>1 DEF Live, IdsOf
<1>4. /\ hc' \in [Clients -> Client]
      /\ \A x \in Clients : /\ hc'[x].id = hc[x].id /\ hc'[x].uri = hc[x].uri
                            /\ hc'[x].finished = hc[x].finished
                            /\ hc[x].status # PROCESSING => hc'[x].status # PROCESSING
      /\ hc'[c].status = FAILED
      /\ PoolInv' /\ LiveInv' /\ Reusable' = Reusable /\ Lost' = Lost
      /\ \A x \in Live' : ~hc'[x].finished /\ x \notin memPool' \cup freed'
  BY <1>1, <1>2, <1>3, StatusOnly
<1> HIDE DEF RedirectBegins
<1>5. TypeOK'
  BY <1>1, <1>4 DEF IInv, TypeOK, Loop
<1>6. TokInv' /\ VirginInv' /\ SelectInv'
  BY <1>1 DEF IInv, TokInv, VirginInv, SelectInv, Loading, Digesting
<1>7. \A v \in Tokens : Loading(v) => tok[v].hc \in Clients
  BY DEF IInv, TokInv
<1>8. StartInv' /\ StatusInv'
  <2>1. \A v \in Tokens : tok[v].pc \in {"start", "update"} => tok[v].hc \in Clients
    BY <1>7 DEF Loading
  <2>2. StartInv'
    BY <1>1, <1>3, <1>4, <2>1 DEF IInv, StartInv
  <2>3. StatusInv'
    BY <1>1, <1>2, <1>4, <2>1 DEF IInv, StatusInv
  <2> QED
    BY <2>2, <2>3
<1>9. HandInv'
  BY <1>1, <1>4, HandSame
<1>10. OneOwner' /\ NoClientLeaks'
  <2>1. \A t \in Tokens : Digesting(t)' <=> Digesting(t)
    BY <1>1 DEF Digesting
  <2>2. OneOwner'
    BY <1>1, <1>4, <2>1 DEF IInv, OneOwner, NoRepeat, IdsOf
  <2>3. NoClientLeaks'
    BY <1>1, <1>3, <1>4 DEF IInv, NoClientLeaks
  <2> QED
    BY <2>2, <2>3
<1> QED
  BY <1>4, <1>5, <1>6, <1>8, <1>9, <1>10 DEF IInv

LEMMA RedirectDiesInv == ASSUME IInv, NEW c \in Clients, RedirectDies(c) PROVE IInv'
BY DieInv DEF RedirectDies, IInv, TypeOK

(* The Location's client is taken, and live if its request is issued.      *)
LEMMA RedirectFollowsInv == ASSUME IInv, NEW c \in Clients, RedirectFollows(c) PROVE IInv'
<1> DEFINE R == [Request(None) EXCEPT !.status = DOWNLOADING]
<1> DEFINE U == Unsupported(None)
<1> DEFINE H == HostLess(None)
<1>0. PICK n \in Clients, E \in SUBSET Clients :
        /\ Create(n, E) /\ FreedAfter(n)
        /\ \/ /\ hc' \in {ClientsAfter(n, E, h) : h \in {U, H}}
              /\ UNCHANGED <<flight, issue>>
           \/ /\ n \in shadow'
              /\ hc' = ClientsAfter(n, E, R)
              /\ flight' = flight \cup {n}
              /\ issue' = issue + 1
  BY DEF RedirectFollows
<1>1. /\ loop' = [hc |-> c, followed |-> TRUE]
      /\ UNCHANGED <<row, up, crashes, selected, urls, tok, pages, pending, finish>>
      /\ c \in flight /\ c \in Live /\ hc[c].status # PROCESSING
      /\ hc \in [Clients -> Client] /\ Live \subseteq Clients
  <2>1. loop.hc = c /\ c # None
    BY VoyagerAssumption DEF RedirectFollows
  <2>2. c \in flight /\ hc[c].status # PROCESSING
    BY <2>1 DEF IInv, StatusInv
  <2> QED
    BY <2>2, LiveClients DEF RedirectFollows, work, queue, Live, IInv, TypeOK
<1>2. /\ memPool' \subseteq Clients /\ shadow' = shadow \ E /\ freed' \subseteq Clients
      /\ freed' \cap shadow' = {}
      /\ memPool' \subseteq memPool \cup freed \cup E /\ n \notin memPool'
      /\ memPool' \cap shadow' \subseteq memPool \cap shadow
      /\ n \in shadow' => n \in memPool /\ n \in shadow
      /\ n \notin shadow' => n \in freed'
      /\ \A x \in E : x \in shadow /\ hc[x].finished
      /\ memPool \cup freed \cup E \subseteq memPool' \cup freed' \cup {n}
      /\ n \notin Live /\ E \cap Live = {} /\ memPool' \cap Live = {}
  BY <1>0, CreateLists
<1>3. /\ R \in Client /\ R.uri /\ R.conn /\ ~R.finished
      /\ U \in Client /\ U.finished /\ ~U.uri
      /\ H \in Client /\ H.uri /\ ~H.conn /\ ~H.finished
  <2>1. {DOWNLOADING, INITIALIZED, UNSUPPORT, UNCHECK} \subseteq Status
    BY DEF Status, UNSUPPORT, DOWNLOADING, INITIALIZED, UNCHECK, FINISHED
  <2>2. /\ Request(None) \in Client /\ Request(None).uri /\ Request(None).conn
        /\ ~Request(None).finished
    BY <2>1 DEF Request, Client
  <2>3. U \in Client /\ U.finished /\ ~U.uri
    BY <2>1 DEF Unsupported, Client
  <2>4. R \in Client /\ R.uri /\ R.conn /\ ~R.finished
    BY <2>1, <2>2 DEF Client
  <2>5. H \in Client /\ H.uri /\ ~H.conn /\ ~H.finished
    BY <2>1 DEF HostLess, Client
  <2> QED
    BY <2>3, <2>4, <2>5
<1> HIDE DEF R, U, H
<1>4. PICK h \in {U, H, R}, F \in {{}, {n}} :
        /\ hc' = ClientsAfter(n, E, h)
        /\ flight' = flight \cup F
        /\ F = {n} => h = R /\ n \in shadow'
        /\ h = R => F = {n}
        /\ issue' \in {issue, issue + 1}
  <2>1. U # R /\ H # R
    BY <1>3
  <2>2. CASE hc' \in {ClientsAfter(n, E, h) : h \in {U, H}} /\ UNCHANGED <<flight, issue>>
    <3>1. PICK h \in {U, H} : hc' = ClientsAfter(n, E, h)
      BY <2>2
    <3>2. {} # {n} /\ flight' = flight \cup {} /\ h # R /\ h \in {U, H, R}
      BY <2>1, <2>2
    <3> QED
      BY <2>2, <3>1, <3>2
  <2>3. CASE n \in shadow' /\ hc' = ClientsAfter(n, E, R) /\ flight' = flight \cup {n} /\ issue' = issue + 1
    BY <2>3
  <2> QED
    BY <1>0, <2>2, <2>3
<1>5. /\ h \in Client /\ c # n /\ c \notin E
      /\ \A x \in Client : ~Reset(x).uri /\ ~Reset(x).finished /\ Reset(x).status = UNCHECK
  BY <1>1, <1>2, <1>3 DEF Reset, Client
<1>6. /\ hc' \in [Clients -> Client]
      /\ hc'[n] = IF n \in shadow' THEN h ELSE Reset(h)
      /\ \A x \in E : x # n => hc'[x] = Reset(hc[x])
      /\ \A x \in Clients : x # n /\ x \notin E => hc'[x] = hc[x]
  <2>1. Create(n, E) /\ h \in Client
    BY <1>0, <1>5
  <2> QED
    BY SMTT(20), <1>4, <2>1, CreateClients
<1>8. Live' = Live \cup F
  <2>1. Live' = flight' \cup IdsOf(pages) \cup IdsOf(pending)
                 \cup {tok[t].hc : t \in {x \in Tokens : tok[x].pc \in {"digest", "release"}}}
    BY <1>1 DEF Live, IdsOf
  <2> QED
    BY <1>4, <2>1 DEF Live
<1>9. TypeOK'
  <2>1. issue' \in Nat /\ finish' \in Nat
    BY <1>1, <1>4 DEF IInv, TypeOK
  <2>2. flight' \subseteq Clients /\ loop' \in Loop
    BY <1>1, <1>4 DEF IInv, TypeOK, Loop
  <2> QED
    BY <1>1, <1>2, <1>6, <2>1, <2>2 DEF IInv, TypeOK
<1>10. TokInv' /\ VirginInv' /\ SelectInv'
  BY <1>1, <1>2 DEF IInv, TokInv, VirginInv, SelectInv, Loading, Digesting
<1>11. \A x \in Clients : hc'[x].uri => x \in shadow' /\ (x = n => n \in shadow') /\ (x \in E => x = n)
  <2>2. \A x \in E : x # n => ~hc'[x].uri
    BY <1>1, <1>5, <1>6
  <2>3. hc'[n].uri => n \in shadow'
    BY <1>5, <1>6
  <2> QED
    BY <1>1, <1>2, <1>5, <1>6, <2>2, <2>3 DEF IInv, PoolInv
<1>12. PoolInv'
  BY <1>2, <1>11 DEF PoolInv
<1>13. LiveInv'
  <2> SUFFICES ASSUME NEW x \in Live' PROVE hc'[x].uri /\ ~hc'[x].finished /\ x \notin memPool'
    BY DEF LiveInv
  <2>1. CASE x \in Live
    BY <1>1, <1>2, <1>6, <2>1 DEF IInv, LiveInv
  <2>2. CASE x = n /\ F = {n}
    BY <1>2, <1>3, <1>4, <1>6, <2>2
  <2> QED
    BY <1>8, <2>1, <2>2
<1>14. \A v \in Tokens : Loading(v) => tok[v].hc \in Clients /\ tok[v].hc \notin memPool \cap shadow
  BY DEF IInv, TokInv, VirginInv
<1>15. StartInv'
  <2> SUFFICES ASSUME NEW v \in Tokens, tok[v].pc = "start", hc'[tok[v].hc].uri
               PROVE  /\ hc'[tok[v].hc].id = tok[v].url
                      /\ ~hc'[tok[v].hc].finished
                      /\ tok[v].hc \notin memPool' \cup Live'
                      /\ \A w \in Tokens : tok[w].pc = "start" /\ tok[w].hc = tok[v].hc => w = v
    BY <1>1 DEF StartInv
  <2>1. tok[v].hc \in Clients /\ tok[v].hc # n /\ tok[v].hc \notin E
    BY <1>2, <1>11, <1>14 DEF Loading
  <2>3. hc'[tok[v].hc] = hc[tok[v].hc]
    BY <1>6, <2>1
  <2>4. tok[v].hc \notin freed
    BY <2>1, <2>3 DEF IInv, PoolInv
  <2> QED
    BY <1>2, <1>8, <2>1, <2>3, <2>4 DEF IInv, StartInv
<1>16. StatusInv'
  <2>1. ASSUME NEW v \in Tokens, tok[v].pc = "update"
        PROVE  hc'[tok[v].hc].status # PROCESSING
    <3>0. /\ tok[v].hc \in Clients /\ tok[v].hc \notin memPool \cap shadow
          /\ hc[tok[v].hc].status # PROCESSING /\ UNCHECK # PROCESSING
      BY <1>14, <2>1 DEF Loading, IInv, StatusInv, UNCHECK, PROCESSING
    <3>2. CASE tok[v].hc = n
      <4>1. n \notin shadow'
        BY <1>2, <3>0, <3>2
      <4> QED
        BY <1>5, <1>6, <3>0, <3>2, <4>1
    <3>3. CASE tok[v].hc \in E /\ tok[v].hc # n
      BY <1>1, <1>5, <1>6, <3>0, <3>3
    <3>4. CASE tok[v].hc \notin E /\ tok[v].hc # n
      BY <1>6, <3>0, <3>4
    <3> QED
      BY <3>2, <3>3, <3>4
  <2>2. c \in flight' /\ hc'[c].status # PROCESSING /\ c # None
    BY <1>1, <1>4, <1>5, <1>6, VoyagerAssumption
  <2> QED
    BY <1>1, <2>1, <2>2 DEF StatusInv
<1>17. HandInv'
  <2> SUFFICES ASSUME up, NEW u \in Urls \ NoHost, row[u] = PROCESSING
               PROVE  FirstHand(u)' \/ \E v \in Tokens : Holds(v, u)'
    BY <1>1 DEF HandInv
  <2>2. FirstHand(u) => FirstHand(u)'
    BY <1>1 DEF FirstHand
  <2>3. ASSUME NEW v \in Tokens, Holds(v, u) PROVE Holds(v, u)'
    <3>1. /\ tok[v].hc \in Clients /\ tok[v].hc \in shadow
          /\ tok[v].hc \notin memPool /\ ~hc[tok[v].hc].finished
      BY <1>14, <2>3 DEF Holds, Loading
    <3>2. tok[v].hc \notin E /\ tok[v].hc # n
      BY <1>2, <3>1
    <3> QED
      BY <1>1, <1>2, <1>6, <2>3, <3>1, <3>2 DEF Holds
  <2> QED
    BY <2>2, <2>3 DEF IInv, HandInv
<1>18. OneOwner'
  <2>1. \A x \in Live' : ~hc'[x].finished /\ x \notin memPool' \cup freed'
    <3>1. Live' \subseteq Clients
      BY <1>1, <1>4, <1>8
    <3> QED
      BY <1>12, <1>13, <3>1 DEF LiveInv, PoolInv
  <2>2. \A t \in Tokens : Digesting(t)' <=> Digesting(t)
    BY <1>1 DEF Digesting
  <2>3. /\ n \notin IdsOf(pages) /\ n \notin IdsOf(pending)
        /\ \A t \in Tokens : Digesting(t) => tok[t].hc # n
    BY <1>2, LiveMembers
  <2>4. flight' \subseteq flight \cup {n}
    BY <1>4
  <2> QED
    BY <1>1, <2>1, <2>2, <2>3, <2>4 DEF IInv, OneOwner, NoRepeat, IdsOf
<1>19. NoClientLeaks'
  <2> SUFFICES ASSUME NEW x \in Clients
               PROVE  \/ x \in memPool' \cup freed' \cup Live'
                      \/ (x \in shadow' /\ hc'[x].finished)
                      \/ hc'[x].uri /\ ~hc'[x].conn
                      \/ \E v \in Tokens : tok[v].pc = "start" /\ tok[v].hc = x
    <3>1. Live' \subseteq Clients
      BY <1>1, <1>4, <1>8
    <3>2. \A v \in Tokens : tok[v].pc = "start" => tok[v].hc \in Clients
      BY <1>14 DEF Loading
    <3> QED
      BY <1>1, <1>9, <3>1, <3>2 DEF NoClientLeaks, Reusable, Lost, TypeOK
  <2>1. CASE x = n
    <3>1. CASE n \in shadow'
      BY <1>3, <1>4, <1>6, <1>8, <2>1, <3>1
    <3>2. CASE n \notin shadow'
      BY <1>2, <2>1, <3>2
    <3> QED
      BY <3>1, <3>2
  <2>3. CASE x # n /\ x \in memPool \cup freed \cup E
    BY <1>2, <2>3
  <2>4. CASE x # n /\ x \notin memPool \cup freed \cup E
    <3>1. hc'[x] = hc[x] /\ (x \in shadow => x \in shadow')
      BY <1>2, <1>6, <2>4
    <3>2. \/ (x \in shadow /\ hc[x].finished) \/ x \in Live
          \/ hc[x].uri /\ ~hc[x].conn
          \/ \E v \in Tokens : tok[v].pc = "start" /\ tok[v].hc = x
      BY <2>4 DEF IInv, NoClientLeaks, Reusable, Lost
    <3> QED
      BY <1>8, <2>4, <3>1, <3>2
  <2> QED
    BY <2>1, <2>3, <2>4
<1> QED
  BY <1>9, <1>10, <1>12, <1>13, <1>15, <1>16, <1>17, <1>18, <1>19 DEF IInv

(* The redirected request ends like a failed one, with the status it has.  *)
LEMMA RedirectEndsInv == ASSUME IInv, NEW c \in Clients, RedirectEnds(c) PROVE IInv'
<1> DEFINE s == hc[c].status
<1>1. /\ loop.hc = c /\ loop' = Idle /\ c # None /\ flight' = flight \ {c}
      /\ UNCHANGED <<memPool, shadow, freed, pool, selected, urls, pages, pending, tok, up, crashes, issue>>
  BY VoyagerAssumption DEF RedirectEnds, pool, work, queue
<1>2. c \in flight /\ s # PROCESSING /\ s \in Status /\ hc \in [Clients -> Client]
  BY <1>1 DEF IInv, TypeOK, StatusInv, Client
<1>0. hc' = [hc EXCEPT ![c] = Done(@, s)] /\ FreeHC(c, s)
  BY <1>2 DEF RedirectEnds
<1>3. /\ c \in Live /\ Live' = Live \ {c}
      /\ c \notin IdsOf(pages) /\ c \notin IdsOf(pending)
      /\ \A t \in Tokens : Digesting(t) => tok[t].hc # c
  BY <1>1, <1>2, FlightEnds DEF Live
<1>5. /\ row' = [u \in Urls |-> IF u = hc[c].id THEN s ELSE row[u]]
      /\ finish' = finish + 1
  <2>1. [hc[c] EXCEPT !.status = s].id = hc[c].id /\ [hc[c] EXCEPT !.status = s].status = s
    BY DEF IInv, TypeOK, Client
  <2> QED
    BY <1>0, <2>1 DEF FreeHC, UpdateRecord
<1> HIDE DEF s
<1>4. /\ hc' \in [Clients -> Client]
      /\ \A x \in Clients : /\ hc'[x].id = hc[x].id /\ hc'[x].uri = hc[x].uri
                            /\ x # c => hc'[x] = hc[x]
                            /\ hc[x].status # PROCESSING => hc'[x].status # PROCESSING
      /\ PoolInv' /\ LiveInv' /\ Reusable' = Reusable \cup {c} /\ Lost' = Lost
      /\ \A x \in Live' : ~hc'[x].finished /\ x \notin memPool' \cup freed'
  BY <1>0, <1>1, <1>2, <1>3, DoneOnly
<1>6. TypeOK'
  BY <1>1, <1>2, <1>4, <1>5 DEF IInv, TypeOK, Loop, Idle
<1>7. TokInv' /\ VirginInv' /\ SelectInv'
  BY <1>1 DEF IInv, TokInv, VirginInv, SelectInv, Loading, Digesting
<1>8. StartInv'
  <2>1. \A v \in Tokens : tok[v].pc = "start" /\ hc[tok[v].hc].uri => tok[v].hc # c /\ tok[v].hc \in Clients
    BY <1>3 DEF IInv, StartInv, TokInv, Loading
  <2>2. \A v \in Tokens : tok[v].pc = "start" => tok[v].hc \in Clients
    BY DEF IInv, TokInv, Loading
  <2> QED
    BY <1>1, <1>3, <1>4, <2>1, <2>2 DEF IInv, StartInv
<1>9. StatusInv'
  <2>1. \A v \in Tokens : tok[v].pc = "update" => tok[v].hc \in Clients
    BY DEF IInv, TokInv, Loading
  <2> QED
    BY <1>1, <1>4, <2>1 DEF IInv, StatusInv, Idle
<1>10. HandInv'
  BY <1>1, <1>2, <1>4, <1>5, HandSame
<1>11. OneOwner'
  <2>1. \A t \in Tokens : Digesting(t)' <=> Digesting(t)
    BY <1>1 DEF Digesting
  <2> QED
    BY <1>1, <1>4, <2>1 DEF IInv, OneOwner, NoRepeat, IdsOf
<1>12. NoClientLeaks'
  BY <1>1, <1>3, <1>4 DEF IInv, NoClientLeaks
<1> QED
  BY <1>4, <1>6, <1>7, <1>8, <1>9, <1>10, <1>11, <1>12 DEF IInv
-----------------------------------------------------------------------------
LEMMA GetPagesInv == ASSUME IInv, GetPages PROVE IInv'
<1> USE DEF GetPages
<1>1. /\ pending = <<>> /\ pending' = pages /\ pages' = <<>>
      /\ UNCHANGED <<row, up, crashes, hc, pool, memPool, shadow, freed, work, selected, urls,
                     tok, flight, loop, count, issue, finish>>
  BY DEF pool, work, count
<1>2. /\ IdsOf(pages') = {} /\ NoRepeat(pages') /\ IdsOf(pending) = {}
      /\ IdsOf(pending') = IdsOf(pages)
  BY <1>1, EmptyIds DEF IdsOf
<1>3. Live' = Live
  <2>1. Live' = flight \cup IdsOf(pages') \cup IdsOf(pending')
                 \cup {tok[t].hc : t \in {x \in Tokens : tok[x].pc \in {"digest", "release"}}}
    BY <1>1 DEF Live, IdsOf
  <2> QED
    BY <1>2, <2>1 DEF Live
<1>4. TypeOK'
  BY <1>1 DEF IInv, TypeOK
<1>5. TokInv' /\ PoolInv' /\ VirginInv' /\ StatusInv' /\ SelectInv'
  BY <1>1 DEF IInv, TokInv, PoolInv, VirginInv, StatusInv, SelectInv, Loading, Digesting
<1>6. LiveInv' /\ StartInv'
  BY <1>1, <1>3 DEF IInv, LiveInv, StartInv
<1>7. HandInv'
  BY <1>1, HandSame
<1>8. OneOwner'
  <2>1. NoRepeat(pending')
    BY <1>1 DEF IInv, OneOwner, NoRepeat
  <2>2. \A t \in Tokens : Digesting(t)' <=> Digesting(t)
    BY <1>1 DEF Digesting
  <2> QED
    BY <1>1, <1>2, <1>3, <2>1, <2>2 DEF IInv, OneOwner
<1>9. NoClientLeaks'
  BY <1>1, <1>3 DEF IInv, NoClientLeaks, Reusable, Lost
<1> QED
  BY <1>4, <1>5, <1>6, <1>7, <1>8, <1>9 DEF IInv

LEMMA TakePageInv == ASSUME IInv, NEW t \in Tokens, TakePage(t) PROVE IInv'
<1> DEFINE c == pending[Len(pending)]
<1> DEFINE f == SubSeq(pending, 1, Len(pending) - 1)
<1>0. /\ tok \in [Tokens -> Token] /\ tok[t].pc = "wait" /\ pending \in Seq(Clients) /\ pending # <<>>
      /\ hc' = [hc EXCEPT ![c].status = PARSING]
      /\ tok' = [tok EXCEPT ![t] = [pc |-> "digest", url |-> None, hc |-> c]]
      /\ pending' = f
      /\ UNCHANGED <<row, up, crashes, pool, memPool, shadow, freed, work, selected, urls,
                     flight, loop, pages, count, issue, finish>>
  BY DEF TakePage, IInv, TypeOK, pool, work, count
<1>1. /\ pending' \in Seq(Clients) /\ NoRepeat(pending') /\ c \in Clients /\ c \in IdsOf(pending)
      /\ IdsOf(pending') = IdsOf(pending) \ {c}
  BY <1>0, FrontIds DEF IInv, OneOwner
<1> HIDE DEF c, f
<1>2. /\ tok' \in [Tokens -> Token]
      /\ tok'[t].pc = "digest" /\ tok'[t].hc = c
      /\ \A v \in Tokens : v # t => tok'[v] = tok[v]
  BY <1>0, <1>1 DEF Token
<1>3. /\ c \notin flight /\ c \notin IdsOf(pages)
      /\ \A v \in Tokens : Digesting(v) => tok[v].hc # c
  BY <1>1 DEF IInv, OneOwner
<1>4. Live' = Live
  <2> SUFFICES ASSUME NEW x PROVE x \in Live' <=> x \in Live
    OBVIOUS
  <2>1. x \in Live' <=> \/ x \in flight \/ x \in IdsOf(pages) \/ x \in IdsOf(pending')
                         \/ \E v \in Tokens : tok'[v].pc \in {"digest", "release"} /\ tok'[v].hc = x
    BY <1>0 DEF Live, IdsOf
  <2>2. (\E v \in Tokens : tok'[v].pc \in {"digest", "release"} /\ tok'[v].hc = x)
          <=> \/ x = c
              \/ \E v \in Tokens : tok[v].pc \in {"digest", "release"} /\ tok[v].hc = x
    BY <1>0, <1>2
  <2> QED
    BY <1>1, <2>1, <2>2 DEF Live
<1>5. PARSING \in Status /\ PARSING # PROCESSING
  BY DEF PARSING, PROCESSING, Status, UNCHECK, FINISHED
<1>6. /\ hc' \in [Clients -> Client]
      /\ \A x \in Clients : /\ hc'[x].id = hc[x].id /\ hc'[x].uri = hc[x].uri
                            /\ hc'[x].finished = hc[x].finished
                            /\ hc[x].status # PROCESSING => hc'[x].status # PROCESSING
      /\ PoolInv' /\ LiveInv' /\ Reusable' = Reusable /\ Lost' = Lost
      /\ \A x \in Live' : ~hc'[x].finished /\ x \notin memPool' \cup freed'
  BY <1>0, <1>1, <1>4, <1>5, StatusOnly
<1>7. TypeOK'
  BY <1>0, <1>1, <1>2, <1>6 DEF IInv, TypeOK
<1>8. \A v \in Tokens : /\ Loading(v)' <=> Loading(v)
                        /\ Loading(v) => tok'[v] = tok[v]
                        /\ tok'[v].pc = "start" <=> tok[v].pc = "start"
                        /\ Digesting(v)' <=> Digesting(v) \/ v = t
                        /\ Loading(v) => tok[v].hc \in Clients
  BY <1>0, <1>2 DEF Loading, Digesting, IInv, TokInv
<1>9. TokInv' /\ VirginInv' /\ SelectInv'
  BY <1>0, <1>1, <1>2, <1>8 DEF IInv, TokInv, VirginInv, SelectInv
<1>10. StartInv' /\ StatusInv'
  <2>1. \A v \in Tokens : /\ tok'[v].pc = "start" <=> tok[v].pc = "start"
                          /\ tok'[v].pc = "update" <=> tok[v].pc = "update"
                          /\ tok[v].pc \in {"start", "update"} => tok'[v] = tok[v] /\ tok[v].hc \in Clients
    BY <1>0, <1>2, <1>8 DEF Loading
  <2>2. loop.hc \in Clients \cup {None}
    BY DEF IInv, TypeOK, Loop
  <2>3. StartInv'
    BY <1>0, <1>4, <1>6, <2>1 DEF IInv, StartInv
  <2>4. StatusInv'
    BY <1>0, <1>6, <2>1, <2>2 DEF IInv, StatusInv
  <2> QED
    BY <2>3, <2>4
<1>11. HandInv'
  BY <1>0, <1>2, <1>6, HandSame
<1>12. OneOwner'
  <2>2. IdsOf(pages)' = IdsOf(pages) /\ IdsOf(pending)' = IdsOf(pending) \ {c}
    BY <1>0, <1>1 DEF IdsOf
  <2>4. NoRepeat(pages)' /\ NoRepeat(pending)'
    <3>1. NoRepeat(pages)'
      BY <1>0 DEF IInv, OneOwner, NoRepeat
    <3>2. NoRepeat(pending)'
      BY <1>1 DEF NoRepeat
    <3> QED
      BY <3>1, <3>2
  <2>1. /\ NoRepeat(pages)' /\ NoRepeat(pending)'
        /\ flight' \cap (IdsOf(pages)' \cup IdsOf(pending)') = {}
        /\ IdsOf(pages)' \cap IdsOf(pending)' = {}
    BY <1>0, <2>2, <2>4 DEF IInv, OneOwner
  <2>3. ASSUME NEW v \in Tokens, Digesting(v)'
        PROVE  /\ tok'[v].hc \notin flight' \cup IdsOf(pages)' \cup IdsOf(pending)'
               /\ \A w \in Tokens : Digesting(w)' /\ tok'[w].hc = tok'[v].hc => w = v
    <3>1. CASE v = t
      BY <1>0, <1>1, <1>2, <1>3, <1>8, <2>2, <3>1
    <3>2. CASE v # t
      <4>1. Digesting(v) /\ tok'[v] = tok[v] /\ tok[v].hc # c
        BY <1>2, <1>3, <1>8, <2>3, <3>2
      <4>2. /\ tok[v].hc \notin flight \cup IdsOf(pages) \cup IdsOf(pending)
            /\ \A w \in Tokens : Digesting(w) /\ tok[w].hc = tok[v].hc => w = v
        BY <4>1 DEF IInv, OneOwner
      <4> QED
        BY <1>0, <1>1, <1>2, <1>8, <2>2, <4>1, <4>2
    <3> QED
      BY <3>1, <3>2
  <2> QED
    BY <1>6, <2>1, <2>3 DEF OneOwner
<1>13. NoClientLeaks'
  <2>1. \A v \in Tokens : tok[v].pc = "start" => tok'[v].hc = tok[v].hc
    BY <1>8 DEF Loading
  <2> QED
    BY <1>0, <1>4, <1>6, <1>8, <2>1 DEF IInv, NoClientLeaks
<1> QED
  BY <1>6, <1>7, <1>9, <1>10, <1>11, <1>12, <1>13 DEF IInv

LEMMA DigestProcessInv == ASSUME IInv, NEW t \in Tokens, DigestProcess(t) PROVE IInv'
<1> DEFINE c == tok[t].hc
<1>0. /\ tok \in [Tokens -> Token] /\ tok[t].pc = "digest" /\ c \in Clients
      /\ hc' = [hc EXCEPT ![c].status = PARSING]
      /\ tok' = [tok EXCEPT ![t].pc = "release"]
      /\ UNCHANGED <<up, crashes, pool, memPool, shadow, freed, work, selected, urls,
                     flight, loop, queue, pages, pending, count, issue, finish>>
  BY DEF DigestProcess, IInv, TypeOK, TokInv, Digesting, pool, work, queue, count
<1>1. /\ row' \in [Urls -> Status \cup {NoRow}]
      /\ \A u \in Urls : row'[u] = PROCESSING => row[u] = PROCESSING
  <2>1. PICK u \in Urls : row' = AddRecords(row, Links[u])
    BY DEF DigestProcess
  <2> QED
    BY <2>1 DEF AddRecords, IInv, TypeOK, Status, UNCHECK, FINISHED, PROCESSING
<1> HIDE DEF c
<1>2. /\ tok' \in [Tokens -> Token]
      /\ \A v \in Tokens : tok'[v].hc = tok[v].hc /\ tok'[v].url = tok[v].url
      /\ \A v \in Tokens : v # t => tok'[v] = tok[v]
      /\ \A v \in Tokens : /\ Digesting(v)' <=> Digesting(v)
                           /\ Loading(v)' <=> Loading(v)
                           /\ Loading(v) => tok'[v] = tok[v] /\ tok[v].hc \in Clients
                           /\ tok'[v].pc = "start" <=> tok[v].pc = "start"
                           /\ tok'[v].pc = "update" <=> tok[v].pc = "update"
  BY <1>0 DEF Token, Digesting, Loading, IInv, TokInv
<1>3. Live' = Live
  <2>1. Live' = flight \cup IdsOf(pages) \cup IdsOf(pending)
                 \cup {tok'[v].hc : v \in {x \in Tokens : tok'[x].pc \in {"digest", "release"}}}
    BY <1>0 DEF Live, IdsOf
  <2> QED
    BY <1>2, <2>1 DEF Live, Digesting
<1>4. PARSING \in Status /\ PARSING # PROCESSING
  BY DEF PARSING, PROCESSING, Status, UNCHECK, FINISHED
<1>5. /\ hc' \in [Clients -> Client]
      /\ \A x \in Clients : /\ hc'[x].id = hc[x].id /\ hc'[x].uri = hc[x].uri
                            /\ hc'[x].finished = hc[x].finished
                            /\ hc[x].status # PROCESSING => hc'[x].status # PROCESSING
      /\ PoolInv' /\ LiveInv' /\ Reusable' = Reusable /\ Lost' = Lost
      /\ \A x \in Live' : ~hc'[x].finished /\ x \notin memPool' \cup freed'
  BY <1>0, <1>3, <1>4, StatusOnly
<1>6. TypeOK'
  BY <1>0, <1>1, <1>2, <1>5 DEF IInv, TypeOK
<1>7. TokInv'
  <2>1. \A v \in Tokens : tok'[v].pc \in {"create", "start", "mark", "update"} =>
                            tok[v].pc \in {"create", "start", "mark", "update"}
    BY <1>0, <1>2
  <2> QED
    BY <1>2, <2>1 DEF IInv, TokInv
<1>8. VirginInv' /\ SelectInv'
  BY <1>0, <1>2 DEF IInv, VirginInv, SelectInv
<1>9. StartInv' /\ StatusInv'
  <2>1. \A v \in Tokens : tok[v].pc \in {"start", "update"} => tok[v].hc \in Clients
    BY <1>2 DEF Loading
  <2>2. loop.hc \in Clients \cup {None}
    BY DEF IInv, TypeOK, Loop
  <2>3. StartInv'
    BY <1>0, <1>2, <1>3, <1>5, <2>1 DEF IInv, StartInv
  <2>4. StatusInv'
    BY <1>0, <1>2, <1>5, <2>1, <2>2 DEF IInv, StatusInv
  <2> QED
    BY <2>3, <2>4
<1>10. HandInv'
  <2>1. \A v \in Tokens : tok[v].pc \in {"create", "start", "mark", "update"} => tok'[v] = tok[v]
    BY <1>0, <1>2
  <2> QED
    BY <1>0, <1>1, <1>5, <2>1, HandSame
<1>11. OneOwner'
  <2>1. /\ IdsOf(pages)' = IdsOf(pages) /\ IdsOf(pending)' = IdsOf(pending)
        /\ NoRepeat(pages)' = NoRepeat(pages) /\ NoRepeat(pending)' = NoRepeat(pending)
    BY <1>0 DEF IdsOf, NoRepeat
  <2>2. /\ NoRepeat(pages)' /\ NoRepeat(pending)'
        /\ flight' \cap (IdsOf(pages)' \cup IdsOf(pending)') = {}
        /\ IdsOf(pages)' \cap IdsOf(pending)' = {}
    BY <1>0, <2>1 DEF IInv, OneOwner
  <2>3. \A v \in Tokens : Digesting(v)' =>
           /\ tok'[v].hc \notin flight' \cup IdsOf(pages)' \cup IdsOf(pending)'
           /\ \A w \in Tokens : Digesting(w)' /\ tok'[w].hc = tok'[v].hc => w = v
    BY <1>0, <1>2, <2>1 DEF IInv, OneOwner
  <2> QED
    BY <1>5, <2>2, <2>3 DEF OneOwner
<1>12. NoClientLeaks'
  BY <1>0, <1>2, <1>3, <1>5 DEF IInv, NoClientLeaks
<1> QED
  BY <1>5, <1>6, <1>7, <1>8, <1>9, <1>10, <1>11, <1>12 DEF IInv

LEMMA DigestReleaseInv == ASSUME IInv, NEW t \in Tokens, DigestRelease(t) PROVE IInv'
<1> DEFINE c == tok[t].hc
<1>0. /\ tok \in [Tokens -> Token] /\ tok[t].pc = "release" /\ c \in Clients /\ c \in Live
      /\ hc' = [hc EXCEPT ![c] = Done(@, FINISHED)] /\ FreeHC(c, FINISHED)
      /\ tok' = [tok EXCEPT ![t] = Free]
      /\ UNCHANGED <<up, crashes, pool, memPool, shadow, freed, work, selected, urls,
                     flight, loop, queue, pages, pending, issue>>
  BY DEF DigestRelease, IInv, TypeOK, TokInv, Digesting, Live, pool, work, queue
<1>1. FINISHED \in Status /\ FINISHED # PROCESSING
  BY DEF PROCESSING, Status, UNCHECK, FINISHED
<1>2. /\ row' = [u \in Urls |-> IF u = hc[c].id THEN FINISHED ELSE row[u]]
      /\ finish' = finish + 1
  <2>1. LET g == [hc[c] EXCEPT !.status = FINISHED] IN g.id = hc[c].id /\ g.status = FINISHED
    BY <1>0 DEF IInv, TypeOK, Client
  <2> QED
    BY <1>0, <2>1 DEF FreeHC, UpdateRecord
<1>3. /\ c \notin flight \cup IdsOf(pages) \cup IdsOf(pending)
      /\ \A v \in Tokens : Digesting(v) /\ tok[v].hc = c => v = t
  BY <1>0 DEF IInv, OneOwner, Digesting
<1> HIDE DEF c
<1>4. /\ tok' \in [Tokens -> Token] /\ tok'[t].pc = "free"
      /\ \A v \in Tokens : v # t => tok'[v] = tok[v]
      /\ \A v \in Tokens : /\ Digesting(v)' <=> Digesting(v) /\ v # t
                           /\ Loading(v)' <=> Loading(v)
                           /\ Loading(v) => tok'[v] = tok[v] /\ tok[v].hc \in Clients
                           /\ tok'[v].pc = "start" <=> tok[v].pc = "start"
                           /\ tok'[v].pc = "update" <=> tok[v].pc = "update"
  BY <1>0 DEF Token, Free, Digesting, Loading, IInv, TokInv
<1>5. Live' = Live \ {c}
  <2> SUFFICES ASSUME NEW x PROVE x \in Live' <=> x \in Live /\ x # c
    OBVIOUS
  <2>1. x \in Live' <=> \/ x \in flight \/ x \in IdsOf(pages) \/ x \in IdsOf(pending)
                         \/ \E v \in Tokens : Digesting(v)' /\ tok'[v].hc = x
    BY <1>0 DEF Live, IdsOf, Digesting
  <2>2. (\E v \in Tokens : Digesting(v)' /\ tok'[v].hc = x)
          <=> \E v \in Tokens : Digesting(v) /\ tok[v].hc = x /\ x # c
    BY <1>3, <1>4, <1>0 DEF c
  <2> QED
    BY <1>3, <2>1, <2>2, LiveMembers
<1>6. /\ hc' \in [Clients -> Client]
      /\ \A x \in Clients : /\ hc'[x].id = hc[x].id /\ hc'[x].uri = hc[x].uri
                            /\ x # c => hc'[x] = hc[x]
                            /\ hc[x].status # PROCESSING => hc'[x].status # PROCESSING
      /\ PoolInv' /\ LiveInv' /\ Reusable' = Reusable \cup {c} /\ Lost' = Lost
      /\ \A x \in Live' : ~hc'[x].finished /\ x \notin memPool' \cup freed'
  BY <1>0, <1>1, <1>5, DoneOnly
<1>7. TypeOK'
  BY <1>0, <1>1, <1>2, <1>4, <1>6 DEF IInv, TypeOK
<1>8. TokInv'
  BY <1>0, <1>4 DEF IInv, TokInv
<1>9. VirginInv' /\ SelectInv'
  BY <1>0, <1>4 DEF IInv, VirginInv, SelectInv
<1>10. StartInv' /\ StatusInv'
  <2>1. \A v \in Tokens : tok[v].pc \in {"start", "update"} => tok[v].hc \in Clients /\ tok'[v] = tok[v]
    BY <1>4 DEF Loading
  <2>2. loop.hc \in Clients \cup {None}
    BY DEF IInv, TypeOK, Loop
  <2>3. StartInv'
    <3>1. \A v \in Tokens : tok[v].pc = "start" /\ hc[tok[v].hc].uri => tok[v].hc # c
      BY <1>0 DEF IInv, StartInv
    <3> QED
      BY <1>0, <1>4, <1>5, <1>6, <2>1, <3>1 DEF IInv, StartInv
  <2>4. StatusInv'
    BY <1>0, <1>4, <1>6, <2>1, <2>2 DEF IInv, StatusInv
  <2> QED
    BY <2>3, <2>4
<1>11. HandInv'
  <2>1. \A v \in Tokens : tok[v].pc \in {"create", "start", "mark", "update"} => tok'[v] = tok[v]
    BY <1>0, <1>4
  <2> QED
    BY <1>0, <1>1, <1>2, <1>6, <2>1, HandSame
<1>12. OneOwner'
  <2>1. \A v \in Tokens : Digesting(v)' => Digesting(v) /\ tok'[v] = tok[v]
    BY <1>4
  <2> QED
    BY SMTT(20), <1>0, <1>6, <2>1 DEF IInv, OneOwner, NoRepeat, IdsOf
<1>13. NoClientLeaks'
  <2>1. \A v \in Tokens : tok[v].pc = "start" => tok'[v].hc = tok[v].hc
    BY <1>4 DEF Loading
  <2> QED
    BY <1>0, <1>4, <1>5, <1>6, <2>1 DEF IInv, NoClientLeaks
<1> QED
  BY <1>6, <1>7, <1>8, <1>9, <1>10, <1>11, <1>12, <1>13 DEF IInv
-----------------------------------------------------------------------------
LEMMA StutterInv == ASSUME IInv, UNCHANGED vars PROVE IInv'
<1> USE DEF vars
<1>1. ClientInv'
  BY ClientInvSame DEF IInv, ClientInv
<1>2. TypeOK' /\ SelectInv' /\ HandInv'
  BY HandSame DEF IInv, TypeOK, SelectInv, pool, work, queue, count
<1> QED
  BY <1>1, <1>2 DEF IInv, ClientInv

LEMMA NextInv == IInv /\ [Next]_vars => IInv'
<1> SUFFICES ASSUME IInv, [Next]_vars PROVE IInv'
  OBVIOUS
<1>1. CASE UNCHANGED vars
  BY <1>1, StutterInv
<1>2. CASE CollectSelect \/ CollectMark \/ GetPages \/ Crash \/ Restart
  BY <1>2, CollectSelectInv, CollectMarkInv, GetPagesInv, CrashInv, RestartInv
<1>3. ASSUME NEW t \in Tokens, TokenStep(t) PROVE IInv'
  BY <1>3, CollectTakeInv, LoadCreateInv, LoadStartInv, LoadMarkInv, LoadUpdateInv,
     TakePageInv, DigestProcessInv, DigestReleaseInv DEF TokenStep
<1>4. ASSUME NEW c \in Clients, EventLoop(c) PROVE IInv'
  BY <1>4, PageArrivesInv, RequestFailsInv, RedirectBeginsInv, RedirectFollowsInv,
     RedirectEndsInv, RedirectDiesInv DEF EventLoop
<1> QED
  BY <1>1, <1>2, <1>3, <1>4 DEF Next

THEOREM Safety == Spec => []IInv
BY InitInv, NextInv, PTL DEF Spec

(* Every variable keeps its type; the two request counters never go below  *)
(* zero.                                                                   *)
THEOREM TypeCorrect == Spec => []TypeOK
<1>1. IInv => TypeOK
  BY DEF IInv
<1> QED
  BY <1>1, Safety, PTL

(* A live client has one owner among libevent, the two page vectors and    *)
(* the digesting tokens, is not done, and create() cannot return it.       *)
THEOREM OwnersAreUnique == Spec => []OneOwner
<1>1. IInv => OneOwner
  BY DEF IInv
<1> QED
  BY <1>1, Safety, PTL

(* No client drops out of circulation but those a url without a host lost. *)
THEOREM ClientsAccountedFor == Spec => []NoClientLeaks
<1>1. IInv => NoClientLeaks
  BY DEF IInv
<1> QED
  BY <1>1, Safety, PTL

(* The row of a url with a host is PROCESSING only while the collector or  *)
(* a token works on it, through every crash and recover().                 *)
THEOREM NoOrphanRow == Spec => []ProcessingInHand
<1>1. IInv => ProcessingInHand
  <2> SUFFICES ASSUME IInv, up, NEW u \in Urls \ NoHost, row[u] = PROCESSING
               PROVE  InHand(u)
    BY DEF ProcessingInHand
  <2>1. FirstHand(u) => InHand(u)
    BY DEF FirstHand, InHand
  <2>2. \A t \in Tokens : Holds(t, u) => InHand(u)
    BY DEF Holds, InHand
  <2> QED
    BY <2>1, <2>2 DEF IInv, HandInv
<1> QED
  BY <1>1, Safety, PTL
-----------------------------------------------------------------------------
(* What the crawler's requests are about: one request for a row, as many   *)
(* requests as the counters say and never more than busy tokens, and the   *)
(* links of a page in the table before its row is FINISHED.  The second    *)
(* inductive invariant, RInv, rests on IInv.                               *)

(* A token whose client is its own: the request is made, or can be.        *)
Tied(t) ==
  \/ tok[t].pc \in {"mark", "update"}
  \/ tok[t].pc = "start" /\ hc[tok[t].hc].uri

(* The clients whose id is a claim on a row: a live request, or a token    *)
(* that will still write that row.                                         *)
Claimants == Live \cup {tok[t].hc : t \in {v \in Tokens : Tied(v)}}

Creating(t, u) == tok[t].pc = "create" /\ tok[t].url = u

(* SELECT will not read the row of u.                                      *)
Marked(u) == row[u] \notin {UNCHECK, NoRow}

(* A row has one claim at most: from the collector, from a token that is   *)
(* to create the request, or from a client; and a row with a claim is      *)
(* marked, so that the collector cannot select it again.                   *)
ClaimInv ==
  /\ \A t, v \in Tokens : Tied(t) /\ Tied(v) /\ tok[t].hc = tok[v].hc => t = v
  /\ \A c \in Claimants, u \in Urls : hc[c].id = u =>
       /\ Marked(u) /\ u \notin selected \cup urls
       /\ \A t \in Tokens : ~Creating(t, u)
       /\ \A d \in Claimants : hc[d].id = u => d = c
  /\ \A t \in Tokens, u \in Urls : Creating(t, u) =>
       /\ Marked(u) /\ u \notin selected \cup urls
       /\ \A v \in Tokens : Creating(v, u) => v = t
  /\ \A u \in urls : Marked(u)
  /\ \A c \in Claimants : hc[c].uri => hc[c].status # UNCHECK

DownInv ==
  ~up => /\ Live = {} /\ selected = {} /\ urls = {}
         /\ \A t \in Tokens : tok[t].pc = "free"

(* Wherever FINISHED comes from - the digest filter, or a token that       *)
(* writes what its client's status says - the links are in the table.      *)
Covered(i) == i = None \/ \A v \in Links[i] : row[v] # NoRow

LinksInv ==
  /\ \A u \in Urls : row[u] = FINISHED => Covered(u)
  /\ \A c \in Clients : hc[c].status = FINISHED => Covered(hc[c].id)
  /\ \A t \in Tokens : tok[t].pc = "release" => Covered(hc[tok[t].hc].id)

(* The tokens that made a request stand for the live ones, and the event   *)
(* loop for one more while a redirect has two.                             *)
Busy == {t \in Tokens : tok[t].pc # "free"}
Past == {t \in Tokens : tok[t].pc \in {"mark", "update", "wait", "digest", "release"}}

Overlap == IF loop.followed THEN 1 ELSE 0

CountInv ==
  /\ IsFiniteSet(Live) /\ issue - finish = Cardinality(Live)
  /\ IsFiniteSet(Busy) /\ Cardinality(Live) <= Cardinality(Past) + Overlap

RInv == ClaimInv /\ DownInv /\ LinksInv /\ CountInv
-----------------------------------------------------------------------------
LEMMA InitReq == Init => RInv
<1> SUFFICES ASSUME Init PROVE RInv
  OBVIOUS
<1> USE EmptyIds DEF Init, Fresh, Free, Blank
<1>1. Live = {} /\ \A t \in Tokens : tok[t].pc = "free"
  BY DEF Live
<1>2. Claimants = {} /\ Busy = {} /\ Past = {}
  BY <1>1 DEF Claimants, Tied, Busy, Past
<1>3. ClaimInv
  BY <1>1, <1>2 DEF ClaimInv, Tied, Creating
<1>4. DownInv
  BY DEF DownInv
<1>5. LinksInv
  BY <1>1 DEF LinksInv, AddRecords, FINISHED, UNCHECK, NoRow
<1>6. CountInv
  BY <1>1, <1>2, FS_EmptySet DEF CountInv, Overlap, Idle
<1> QED
  BY <1>3, <1>4, <1>5, <1>6 DEF RInv

(* A row that is nobody's.                                                 *)
Unclaimed(u) ==
  /\ u \notin urls
  /\ \A t \in Tokens : ~Creating(t, u)
  /\ \A d \in Claimants : hc[d].id # u

LEMMA ClaimantClients == ASSUME IInv PROVE Claimants \subseteq Clients
<1>1. Live \subseteq Clients
  BY LiveClients DEF IInv
<1>2. \A t \in Tokens : Tied(t) => tok[t].hc \in Clients
  BY DEF IInv, TokInv, Tied, Loading
<1> QED
  BY <1>1, <1>2 DEF Claimants

(* A step that makes no claim, or only one on no row (a redirect's).       *)
LEMMA ClaimsKept ==
  ASSUME TypeOK, ClaimInv, UNCHANGED <<selected, urls>>,
         \A t \in Tokens : /\ Tied(t)' => Tied(t) /\ tok'[t].hc = tok[t].hc
                           /\ \A u : Creating(t, u)' => Creating(t, u),
         \A d \in Claimants' : \/ d \in Claimants /\ hc'[d].id = hc[d].id
                               \/ hc'[d].id = None,
         \A u \in Urls : Marked(u) => Marked(u)' \/ Unclaimed(u)',
         \A c \in Claimants' : hc'[c].uri => hc'[c].status # UNCHECK
  PROVE  ClaimInv'
<1>1. \A t, v \in Tokens : Tied(t)' /\ Tied(v)' /\ tok'[t].hc = tok'[v].hc => t = v
  BY DEF ClaimInv
<1>2. ASSUME NEW c \in Claimants', NEW u \in Urls, hc'[c].id = u
      PROVE  /\ Marked(u)' /\ u \notin selected' \cup urls'
             /\ \A t \in Tokens : ~Creating(t, u)'
             /\ \A d \in Claimants' : hc'[d].id = u => d = c
  <2>1. \A d \in Claimants' : hc'[d].id = u => d \in Claimants /\ hc[d].id = u
    BY VoyagerAssumption
  <2>2. c \in Claimants /\ hc[c].id = u
    BY <1>2, <2>1
  <2>3. /\ Marked(u) /\ u \notin selected \cup urls
        /\ \A t \in Tokens : ~Creating(t, u)
        /\ \A d \in Claimants : hc[d].id = u => d = c
    BY <2>2 DEF ClaimInv
  <2>4. ~Unclaimed(u)'
    BY <1>2 DEF Unclaimed
  <2> QED
    BY <2>1, <2>3, <2>4
<1>3. ASSUME NEW t \in Tokens, NEW u \in Urls, Creating(t, u)'
      PROVE  /\ Marked(u)' /\ u \notin selected' \cup urls'
             /\ \A v \in Tokens : Creating(v, u)' => v = t
  <2>1. Creating(t, u)
    BY <1>3
  <2>2. /\ Marked(u) /\ u \notin selected \cup urls
        /\ \A v \in Tokens : Creating(v, u) => v = t
    BY <2>1 DEF ClaimInv
  <2>3. ~Unclaimed(u)'
    BY <1>3 DEF Unclaimed
  <2> QED
    BY <2>2, <2>3
<1>4. \A u \in urls' : Marked(u)'
  BY DEF ClaimInv, Unclaimed, TypeOK
<1> QED
  BY <1>1, <1>2, <1>3, <1>4 DEF ClaimInv

(* Rows are never deleted, and FINISHED is only copied.                    *)
LEMMA LinksKept ==
  ASSUME TypeOK, TokInv, LinksInv,
         \A u \in Urls : /\ row[u] # NoRow => row'[u] # NoRow
                         /\ row'[u] = FINISHED => \/ row[u] = FINISHED
                                                  \/ \E c \in Clients : hc[c].status = FINISHED /\ hc[c].id = u,
         \A c \in Clients : hc'[c].status = FINISHED => hc[c].status = FINISHED /\ hc'[c].id = hc[c].id,
         \A t \in Tokens : tok'[t].pc = "release" =>
           \/ tok[t].pc = "release" /\ hc'[tok'[t].hc].id = hc[tok[t].hc].id
           \/ Covered(hc[tok[t].hc].id)'
  PROVE  LinksInv'
<1>1. ASSUME NEW i \in Urls \cup {None}, Covered(i) PROVE Covered(i)'
  <2>1. i # None => Links[i] \subseteq Urls
    BY VoyagerAssumption
  <2> QED
    BY <1>1, <2>1 DEF Covered
<1>2. \A c \in Clients : hc[c].id \in Urls \cup {None}
  BY DEF TypeOK, Client
<1>3. \A u \in Urls : row'[u] = FINISHED => Covered(u)'
  BY <1>1, <1>2 DEF LinksInv
<1>4. \A c \in Clients : hc'[c].status = FINISHED => Covered(hc[c].id)'
  BY <1>1, <1>2 DEF LinksInv
<1>5. ASSUME NEW t \in Tokens, tok'[t].pc = "release", ~Covered(hc[tok[t].hc].id)'
      PROVE  Covered(hc[tok[t].hc].id)'
  <2>1. tok[t].pc = "release" /\ tok[t].hc \in Clients /\ hc'[tok'[t].hc].id = hc[tok[t].hc].id
    BY <1>5 DEF TokInv, Digesting
  <2>2. PICK i \in Urls \cup {None} : i = hc[tok[t].hc].id
    BY <1>2, <2>1
  <2>3. Covered(i)'
    BY <1>1, <2>1, <2>2 DEF LinksInv
  <2> QED
    BY <2>1, <2>2, <2>3
<1> QED
  BY <1>3, <1>4, <1>5 DEF LinksInv
-----------------------------------------------------------------------------
LEMMA PastBusy == Past \subseteq Busy
BY DEF Past, Busy

LEMMA BusyMore ==
  ASSUME IsFiniteSet(Busy), NEW t, Busy' \subseteq Busy \cup {t}
  PROVE  /\ IsFiniteSet(Busy') /\ IsFiniteSet(Past') /\ IsFiniteSet(Past)
         /\ Cardinality(Past') \in Nat /\ Cardinality(Past) \in Nat
<1>1. IsFiniteSet(Busy \cup {t})
  BY FS_AddElement
<1>2. IsFiniteSet(Busy')
  BY <1>1, FS_Subset
<1>3. Past \subseteq Busy /\ Past' \subseteq Busy'
  BY DEF Past, Busy
<1>4. IsFiniteSet(Past') /\ IsFiniteSet(Past)
  BY <1>2, <1>3, FS_Subset
<1> QED
  BY <1>2, <1>4, FS_CardinalityType

LEMMA CountSame ==
  ASSUME CountInv, Live' = Live, UNCHANGED <<issue, finish>>, loop'.followed = loop.followed,
         NEW t, Busy' \subseteq Busy \cup {t}, Past \subseteq Past'
  PROVE  CountInv'
<1>1. /\ IsFiniteSet(Busy') /\ IsFiniteSet(Past')
      /\ Cardinality(Past') \in Nat /\ Cardinality(Past) \in Nat
  BY BusyMore DEF CountInv
<1>2. Cardinality(Past) <= Cardinality(Past')
  BY <1>1, FS_Subset
<1>3. Cardinality(Live) \in Nat
  BY FS_CardinalityType DEF CountInv
<1>4. Overlap' = Overlap /\ Overlap \in Nat
  BY DEF Overlap
<1> QED
  BY <1>1, <1>2, <1>3, <1>4 DEF CountInv

LEMMA CountLess ==
  ASSUME TypeOK, CountInv, NEW c \in Live, Live' = Live \ {c}, loop' \in {loop, Idle},
         issue' = issue, finish' = finish + 1, Busy' = Busy, Past' = Past
  PROVE  CountInv'
<1>1. /\ Cardinality(Live) \in Nat /\ Cardinality(Live') = Cardinality(Live) - 1
      /\ IsFiniteSet(Live')
  BY FS_CardinalityType, FS_RemoveElement DEF CountInv
<1>2. Cardinality(Past) \in Nat
  BY BusyMore DEF CountInv
<1>3. Overlap' \in {Overlap, 0} /\ Overlap \in {0, 1}
  BY DEF Overlap, Idle
<1> QED
  BY <1>1, <1>2, <1>3 DEF CountInv, TypeOK
-----------------------------------------------------------------------------
(* The steps after create() and before the next one: they change a         *)
(* client's status, and hand it on.                                        *)
LEMMA StatusSet ==
  ASSUME IInv, NEW c \in Clients, NEW s \in Status, hc' = [hc EXCEPT ![c].status = s]
  PROVE  \A x \in Clients : /\ hc'[x].id = hc[x].id /\ hc'[x].uri = hc[x].uri
                            /\ hc'[x].status = IF x = c THEN s ELSE hc[x].status
<1>1. hc \in [Clients -> Client] /\ hc[c] \in Client
  BY DEF IInv, TypeOK
<1>2. \A x \in Clients : x # c => hc'[x] = hc[x]
  BY <1>1
<1>3. hc'[c].id = hc[c].id /\ hc'[c].uri = hc[c].uri /\ hc'[c].status = s
  BY <1>1 DEF Client
<1> QED
  BY <1>2, <1>3

LEMMA DoneSet ==
  ASSUME IInv, NEW c \in Clients, NEW s \in Status, hc' = [hc EXCEPT ![c] = Done(@, s)]
  PROVE  \A x \in Clients : /\ hc'[x].id = hc[x].id /\ hc'[x].uri = hc[x].uri
                            /\ hc'[x].status = IF x = c THEN s ELSE hc[x].status
<1>1. hc \in [Clients -> Client] /\ hc[c] \in Client
  BY DEF IInv, TypeOK
<1>2. \A x \in Clients : x # c => hc'[x] = hc[x]
  BY <1>1
<1>3. hc'[c].id = hc[c].id /\ hc'[c].uri = hc[c].uri /\ hc'[c].status = s
  BY <1>1 DEF Client, Done
<1> QED
  BY <1>2, <1>3

LEMMA Written ==
  ASSUME NEW h, UpdateRecord(h)
  PROVE  \A u \in Urls : row'[u] = IF u = h.id THEN h.status ELSE row[u]
BY DEF UpdateRecord

LEMMA Freed ==
  ASSUME IInv, NEW c \in Clients, NEW s, FreeHC(c, s)
  PROVE  /\ finish' = finish + 1
         /\ \A u \in Urls : row'[u] = IF u = hc[c].id THEN s ELSE row[u]
<1> DEFINE h == [hc[c] EXCEPT !.status = s]
<1>1. h.id = hc[c].id /\ h.status = s
  BY DEF IInv, TypeOK, Client
<1> HIDE DEF h
<1>2. finish' = finish + 1 /\ UpdateRecord(h)
  BY DEF FreeHC, h
<1> QED
  BY <1>1, <1>2, Written

LEMMA CalmClaims ==
  ASSUME IInv, ClaimInv, UNCHANGED <<selected, urls>>,
         \A x \in Clients : /\ hc'[x].id = hc[x].id /\ hc'[x].uri = hc[x].uri
                            /\ hc'[x].status = hc[x].status \/ hc'[x].status # UNCHECK,
         Live' \subseteq Claimants,
         \A t \in Tokens : /\ tok'[t].pc \in {"start", "mark", "update"} =>
                                /\ tok'[t].hc = tok[t].hc
                                /\ tok'[t].pc = tok[t].pc \/ Tied(t)
                           /\ tok'[t].pc = "create" => tok'[t] = tok[t],
         \A u \in Urls : Marked(u) => Marked(u)' \/ Unclaimed(u)'
  PROVE  ClaimInv'
<1>1. \A t \in Tokens : Tied(t)' => Tied(t) /\ tok'[t].hc = tok[t].hc
  <2>1. \A t \in Tokens : tok[t].pc = "start" => tok[t].hc \in Clients
    BY DEF IInv, TokInv, Loading
  <2> QED
    BY <2>1 DEF Tied
<1>2. \A t \in Tokens : \A u : Creating(t, u)' => Creating(t, u)
  BY DEF Creating
<1>3. Claimants' \subseteq Claimants
  BY <1>1 DEF Claimants
<1>4. \A d \in Claimants' : d \in Claimants /\ hc'[d].id = hc[d].id
  BY <1>3, ClaimantClients
<1>5. \A c \in Claimants' : hc'[c].uri => hc'[c].status # UNCHECK
  BY <1>3, ClaimantClients DEF ClaimInv
<1> QED
  BY <1>1, <1>2, <1>4, <1>5, ClaimsKept DEF IInv

LEMMA CollectFrame ==
  ASSUME UNCHANGED <<hc, tok, flight, queue>>
  PROVE  /\ Live' = Live /\ Claimants' = Claimants /\ Busy' = Busy /\ Past' = Past
         /\ \A t \in Tokens : Tied(t)' = Tied(t)
         /\ \A t \in Tokens : \A u : Creating(t, u)' = Creating(t, u)
<1>1. Live' = Live
  BY DEF Live, queue, IdsOf
<1>2. \A t \in Tokens : Tied(t)' = Tied(t)
  BY DEF Tied
<1> QED
  BY <1>1, <1>2 DEF Claimants, Busy, Past, Creating

LEMMA CollectSelectReq == ASSUME IInv, RInv, CollectSelect PROVE RInv'
<1> USE DEF CollectSelect
<1>1. PICK S \in SUBSET Unchecked : selected' = S
  OBVIOUS
<1>2. /\ Live' = Live /\ Claimants' = Claimants /\ Busy' = Busy /\ Past' = Past
      /\ \A t \in Tokens : Tied(t)' = Tied(t)
      /\ \A t \in Tokens : \A u : Creating(t, u)' = Creating(t, u)
  BY CollectFrame
<1>3. up /\ UNCHANGED <<row, up, urls, hc, tok, loop, issue, finish>>
  BY DEF count
<1>4. \A u \in Urls : Marked(u)' = Marked(u) /\ (Marked(u) => u \notin S)
  BY <1>3 DEF Marked, Unchecked
<1>5. ClaimInv'
  <2>1. \A u \in urls : u \in Urls
    BY DEF IInv, TypeOK
  <2> QED
    BY <1>1, <1>2, <1>3, <1>4, <2>1 DEF RInv, ClaimInv
<1>6. LinksInv'
  BY <1>3, LinksKept DEF IInv, RInv
<1>7. CountInv'
  BY <1>2, <1>3, CountSame DEF RInv
<1> QED
  BY <1>3, <1>5, <1>6, <1>7 DEF RInv, DownInv

LEMMA CollectMarkReq == ASSUME IInv, RInv, CollectMark PROVE RInv'
<1> USE DEF CollectMark
<1>2. /\ Live' = Live /\ Claimants' = Claimants /\ Busy' = Busy /\ Past' = Past
      /\ \A t \in Tokens : Tied(t)' = Tied(t)
      /\ \A t \in Tokens : \A u : Creating(t, u)' = Creating(t, u)
  BY CollectFrame
<1>3. up /\ UNCHANGED <<up, hc, tok, loop, issue, finish>> /\ urls' = selected /\ selected' = {}
  BY DEF count
<1>4. \A u \in Urls : /\ Marked(u) => Marked(u)'
                      /\ u \in selected => Marked(u)'
                      /\ row[u] # NoRow => row'[u] # NoRow
                      /\ row'[u] = FINISHED => row[u] = FINISHED
  BY DEF Marked, PROCESSING, UNCHECK, NoRow, FINISHED
<1>5. ClaimInv'
  <2>1. selected \subseteq Urls
    BY DEF IInv, TypeOK
  <2> QED
    BY <1>2, <1>3, <1>4, <2>1 DEF RInv, ClaimInv
<1>6. LinksInv'
  BY <1>3, <1>4, LinksKept DEF IInv, RInv
<1>7. CountInv'
  BY <1>2, <1>3, CountSame DEF RInv
<1> QED
  BY <1>3, <1>5, <1>6, <1>7 DEF RInv, DownInv

LEMMA CollectTakeReq == ASSUME IInv, RInv, NEW t \in Tokens, CollectTake(t) PROVE RInv'
<1> USE DEF CollectTake
<1>0. PICK u \in urls : /\ urls' = urls \ {u}
                        /\ tok' = [tok EXCEPT ![t] = [pc |-> "create", url |-> u, hc |-> None]]
  OBVIOUS
<1>1. /\ tok[t].pc = "free" /\ tok'[t].pc = "create" /\ tok'[t].url = u
      /\ \A v \in Tokens : v # t => tok'[v] = tok[v]
      /\ u \in Urls
  BY <1>0 DEF IInv, TypeOK
<1>2. up /\ UNCHANGED <<up, row, hc, selected, issue, finish, flight, pages, pending>>
  BY DEF count, queue
<1>3. /\ Live' = Live /\ Past' = Past /\ Busy' \subseteq Busy \cup {t}
      /\ \A v \in Tokens : (Tied(v)' <=> Tied(v)) /\ (Tied(v) => tok'[v].hc = tok[v].hc)
  BY <1>1, <1>2 DEF Live, IdsOf, Past, Busy, Tied
<1>4. Claimants' = Claimants
  BY <1>3 DEF Claimants
<1>5. \A v \in Tokens : \A w : Creating(v, w)' <=> Creating(v, w) \/ (v = t /\ w = u)
  BY <1>1 DEF Creating
<1>6. \A w \in Urls : Marked(w)' = Marked(w)
  BY <1>2 DEF Marked
<1>7. ClaimInv'
  <2>1. selected = {} /\ urls \subseteq Urls
    BY <1>0 DEF IInv, TypeOK, SelectInv
  <2>2. /\ Marked(u) /\ u \notin selected \cup urls'
        /\ \A v \in Tokens : ~Creating(v, u)
        /\ \A d \in Claimants : hc[d].id # u
    BY <1>0, <1>1, <2>1 DEF RInv, ClaimInv
  <2>3. \A c \in Claimants', w \in Urls : hc'[c].id = w =>
          /\ Marked(w)' /\ w \notin selected' \cup urls'
          /\ \A v \in Tokens : ~Creating(v, w)'
          /\ \A d \in Claimants' : hc'[d].id = w => d = c
    BY <1>0, <1>2, <1>4, <1>5, <1>6, <2>2 DEF RInv, ClaimInv
  <2>4. \A v \in Tokens, w \in Urls : Creating(v, w)' =>
          /\ Marked(w)' /\ w \notin selected' \cup urls'
          /\ \A x \in Tokens : Creating(x, w)' => x = v
    BY <1>0, <1>2, <1>5, <1>6, <2>2 DEF RInv, ClaimInv
  <2>5. \A x \in Claimants' : hc'[x].uri => hc'[x].status # UNCHECK
    BY <1>2, <1>4 DEF RInv, ClaimInv
  <2> QED
    BY <1>0, <1>2, <1>3, <1>6, <2>1, <2>3, <2>4, <2>5 DEF RInv, ClaimInv
<1>8. LinksInv'
  BY <1>1, <1>2, LinksKept DEF IInv, RInv
<1>9. CountInv'
  BY <1>2, <1>3, CountSame DEF RInv
<1> QED
  BY <1>2, <1>7, <1>8, <1>9 DEF RInv, DownInv
-----------------------------------------------------------------------------
LEMMA DieReq == ASSUME IInv, RInv, Die PROVE RInv'
<1> USE EmptyIds DEF Die, Free, Idle, Blank
<1>1. Live' = {} /\ (\A t \in Tokens : tok'[t].pc = "free") /\ selected' = {} /\ urls' = {}
  BY DEF Live
<1>2. Claimants' = {} /\ Busy' = {} /\ Past' = {}
  BY <1>1 DEF Claimants, Tied, Busy, Past
<1>3. /\ \A c \in Clients : hc'[c].uri = FALSE /\ hc'[c].status = UNCHECK
      /\ row' = row /\ issue' = 0 /\ finish' = 0 /\ loop'.followed = FALSE
  OBVIOUS
<1> HIDE DEF Die
<1>4. ClaimInv'
  BY <1>1, <1>2, <1>3 DEF ClaimInv, Tied, Creating
<1>5. DownInv'
  BY <1>1 DEF DownInv
<1>6. LinksInv'
  BY <1>1, <1>3, LinksKept DEF IInv, RInv, UNCHECK, FINISHED
<1>7. CountInv'
  BY <1>1, <1>2, <1>3, FS_EmptySet DEF CountInv, Overlap
<1> QED
  BY <1>4, <1>5, <1>6, <1>7 DEF RInv

(* recover() clears the marks of a process that is down: no claim is left. *)
LEMMA RestartReq == ASSUME IInv, RInv, Restart PROVE RInv'
<1>1. /\ ~up /\ up' = TRUE /\ row' = AddRecords(Recover(row), {Seed})
      /\ UNCHANGED <<hc, tok, flight, queue, selected, urls, loop, issue, finish>>
  BY DEF Restart, work, count
<1>2. /\ Live' = Live /\ Claimants' = Claimants /\ Busy' = Busy /\ Past' = Past
      /\ \A t \in Tokens : Tied(t)' = Tied(t)
      /\ \A t \in Tokens : \A u : Creating(t, u)' = Creating(t, u)
  BY <1>1, CollectFrame
<1>3. /\ Live = {} /\ selected = {} /\ urls = {}
      /\ \A t \in Tokens : tok[t].pc = "free"
  BY <1>1 DEF RInv, DownInv
<1>4. Claimants = {}
  BY <1>3 DEF Claimants, Tied
<1>5. ClaimInv'
  BY <1>1, <1>2, <1>3, <1>4 DEF RInv, ClaimInv, Tied, Creating
<1>6. \A u \in Urls : /\ row[u] # NoRow => row'[u] # NoRow
                      /\ row'[u] = FINISHED => row[u] = FINISHED
  BY <1>1 DEF AddRecords, Recover, PROCESSING, UNCHECK, NoRow, FINISHED
<1>7. LinksInv'
  BY <1>1, <1>6, LinksKept DEF IInv, RInv
<1>8. CountInv'
  BY <1>1, <1>2, CountSame DEF RInv
<1> QED
  BY <1>1, <1>5, <1>7, <1>8 DEF RInv, DownInv
-----------------------------------------------------------------------------
LEMMA LoadStartReq == ASSUME IInv, RInv, NEW t \in Tokens, LoadStart(t) PROVE RInv'
<1> DEFINE c == tok[t].hc
<1>0. tok \in [Tokens -> Token] /\ c \in Clients /\ tok[t].pc = "start"
  BY DEF LoadStart, IInv, TypeOK, TokInv, Loading
<1>1. CASE ~hc[c].uri /\ Die
  BY <1>1, DieReq
<1>2. CASE /\ hc[c].uri /\ issue' = issue + 1
           /\ flight' = flight \cup {c}
           /\ tok' = [tok EXCEPT ![t].pc = "mark"]
           /\ UNCHANGED <<row, up, hc, selected, urls, pages, pending, loop, finish>>
  <2>1. /\ \A v \in Tokens : v # t => tok'[v] = tok[v]
        /\ tok'[t].pc = "mark" /\ tok'[t].hc = c
    BY <1>0, <1>2
  <2>2. c \notin Live /\ Tied(t)
    BY <1>0, <1>2 DEF IInv, StartInv, Tied
  <2>3. Live' = Live \cup {c}
    BY <1>0, <1>2, <2>1 DEF Live, IdsOf
  <2>4. Past' = Past \cup {t} /\ t \notin Past /\ Busy' = Busy
    BY <1>0, <2>1 DEF Past, Busy
  <2> HIDE DEF c
  <2>5. ClaimInv'
    <3>1. Live' \subseteq Claimants
      BY <2>2, <2>3 DEF Claimants, c
    <3>2. \A v \in Tokens : /\ tok'[v].pc \in {"start", "mark", "update"} =>
                                /\ tok'[v].hc = tok[v].hc
                                /\ tok'[v].pc = tok[v].pc \/ Tied(v)
                            /\ tok'[v].pc = "create" => tok'[v] = tok[v]
      BY <2>1, <2>2 DEF c
    <3>3. \A u \in Urls : Marked(u)' = Marked(u)
      BY <1>2 DEF Marked
    <3> QED
      BY <1>2, <3>1, <3>2, <3>3, CalmClaims DEF RInv
  <2>6. LinksInv'
    BY <1>2, <2>1, LinksKept DEF IInv, RInv
  <2>7. CountInv'
    <3>1. IsFiniteSet(Live) /\ IsFiniteSet(Past)
      BY PastBusy, FS_Subset DEF RInv, CountInv
    <3>2. /\ IsFiniteSet(Live') /\ Cardinality(Live') = Cardinality(Live) + 1
          /\ Cardinality(Past') = Cardinality(Past) + 1
      BY <2>2, <2>3, <2>4, <3>1, FS_AddElement
    <3>3. Cardinality(Live) \in Nat /\ Cardinality(Past) \in Nat
      BY <3>1, FS_CardinalityType
    <3>4. issue \in Nat /\ finish \in Nat /\ issue' = issue + 1 /\ finish' = finish
      BY <1>2 DEF IInv, TypeOK
    <3>5. Overlap' = Overlap /\ Overlap \in Nat
      BY <1>2 DEF Overlap
    <3> QED
      BY <2>4, <3>2, <3>3, <3>4, <3>5 DEF RInv, CountInv
  <2> QED
    BY <1>2, <2>5, <2>6, <2>7 DEF RInv, DownInv, LoadStart
<1> QED
  BY <1>1, <1>2 DEF LoadStart, work, queue

LEMMA LoadMarkReq == ASSUME IInv, RInv, NEW t \in Tokens, LoadMark(t) PROVE RInv'
<1> DEFINE c == tok[t].hc
<1>0. tok \in [Tokens -> Token] /\ c \in Clients /\ tok[t].pc = "mark"
  BY DEF LoadMark, IInv, TypeOK, TokInv, Loading
<1>1. /\ up /\ hc' = [hc EXCEPT ![c].status = DOWNLOADING]
      /\ UNCHANGED <<row, up, selected, urls, flight, pages, pending, loop, issue, finish>>
  BY DEF LoadMark, work, queue, count
<1>2. /\ \A v \in Tokens : v # t => tok'[v] = tok[v]
      /\ tok'[t].pc = "update" /\ tok'[t].hc = c
  BY <1>0 DEF LoadMark
<1>3. /\ \A x \in Clients : /\ hc'[x].id = hc[x].id /\ hc'[x].uri = hc[x].uri
                            /\ hc'[x].status = IF x = c THEN DOWNLOADING ELSE hc[x].status
      /\ DOWNLOADING \notin {UNCHECK, FINISHED}
  <2> HIDE DEF c
  <2>1. DOWNLOADING \in Status
    BY DEF Status, DOWNLOADING, UNCHECK, FINISHED
  <2>2. \A x \in Clients : /\ hc'[x].id = hc[x].id /\ hc'[x].uri = hc[x].uri
                           /\ hc'[x].status = IF x = c THEN DOWNLOADING ELSE hc[x].status
    BY <1>0, <1>1, <2>1, StatusSet
  <2> QED
    BY <2>2 DEF DOWNLOADING, UNCHECK, FINISHED
<1>4. Live' = Live /\ Past' = Past /\ Busy' = Busy
  BY <1>0, <1>1, <1>2 DEF Live, IdsOf, Past, Busy
<1>5. ClaimInv'
  <2>1. \A v \in Tokens : /\ tok'[v].pc \in {"start", "mark", "update"} =>
                              /\ tok'[v].hc = tok[v].hc
                              /\ tok'[v].pc = tok[v].pc \/ Tied(v)
                          /\ tok'[v].pc = "create" => tok'[v] = tok[v]
    BY <1>0, <1>2 DEF Tied
  <2>2. \A u \in Urls : Marked(u)' = Marked(u)
    BY <1>1 DEF Marked
  <2>3. Live' \subseteq Claimants
    BY <1>4 DEF Claimants
  <2> QED
    BY <1>1, <1>3, <2>1, <2>2, <2>3, CalmClaims DEF RInv
<1>6. LinksInv'
  <2>1. \A v \in Tokens : tok'[v].pc = "release" =>
          tok'[v] = tok[v] /\ tok[v].hc \in Clients
    BY <1>2 DEF IInv, TokInv, Digesting
  <2> QED
    BY <1>1, <1>3, <2>1, LinksKept DEF IInv, RInv
<1>7. CountInv'
  BY <1>1, <1>4, CountSame DEF RInv
<1> QED
  BY <1>1, <1>5, <1>6, <1>7 DEF RInv, DownInv

(* Only a client that create() reset has the status UNCHECK, and then the  *)
(* token is the last that has a claim through it.                          *)
LEMMA LoadUpdateReq == ASSUME IInv, RInv, NEW t \in Tokens, LoadUpdate(t) PROVE RInv'
<1> DEFINE c == tok[t].hc
<1>0. tok \in [Tokens -> Token] /\ c \in Clients /\ tok[t].pc = "update" /\ hc[c] \in Client
  BY DEF LoadUpdate, IInv, TypeOK, TokInv, Loading
<1>1. /\ up /\ UpdateRecord(hc[c])
      /\ UNCHANGED <<hc, up, selected, urls, flight, pages, pending, loop, issue, finish>>
  BY DEF LoadUpdate, work, queue, count
<1>2. /\ \A v \in Tokens : v # t => tok'[v] = tok[v]
      /\ tok'[t].pc = "wait"
  BY <1>0 DEF LoadUpdate
<1>3. /\ \A u \in Urls : row'[u] = IF u = hc[c].id THEN hc[c].status ELSE row[u]
      /\ hc[c].status # NoRow
  BY <1>0, <1>1, Written DEF Client, Status, NoRow, UNCHECK, FINISHED
<1>4. Live' = Live /\ Past' = Past /\ Busy' = Busy
  BY <1>0, <1>1, <1>2 DEF Live, IdsOf, Past, Busy
<1>5. ClaimInv'
  <2>1. \A v \in Tokens : /\ tok'[v].pc \in {"start", "mark", "update"} =>
                              /\ tok'[v].hc = tok[v].hc
                              /\ tok'[v].pc = tok[v].pc \/ Tied(v)
                          /\ tok'[v].pc = "create" => tok'[v] = tok[v]
    BY <1>0, <1>2 DEF Tied
  <2>2. Live' \subseteq Claimants
    BY <1>4 DEF Claimants
  <2>3. c \in Claimants /\ Tied(t)
    BY <1>0 DEF Claimants, Tied
  <2>4. ASSUME NEW u \in Urls, Marked(u) PROVE Marked(u)' \/ Unclaimed(u)'
    <3>1. CASE u # hc[c].id \/ hc[c].status # UNCHECK
      BY <1>3, <2>4, <3>1 DEF Marked
    <3>2. CASE u = hc[c].id /\ hc[c].status = UNCHECK
      <4>1. /\ u \notin urls /\ \A v \in Tokens : ~Creating(v, u)
            /\ \A d \in Claimants : hc[d].id = u => d = c
        BY <2>3, <3>2 DEF RInv, ClaimInv
      <4>2. c \notin Live'
        BY <1>0, <1>4, <2>3, <3>2 DEF RInv, ClaimInv, IInv, LiveInv
      <4>3. \A v \in Tokens : Tied(v)' => v # t /\ tok'[v] = tok[v] /\ Tied(v)
        BY <1>1, <1>2 DEF Tied
      <4>4. \A v \in Tokens : Tied(v)' => tok'[v].hc # c
        BY <2>3, <4>3 DEF RInv, ClaimInv
      <4>5. c \notin Claimants' /\ Claimants' \subseteq Claimants
        BY <1>4, <4>2, <4>3, <4>4 DEF Claimants
      <4>6. \A v \in Tokens : ~Creating(v, u)'
        BY <1>2, <4>1 DEF Creating
      <4> QED
        BY <1>1, <4>1, <4>5, <4>6 DEF Unclaimed
    <3> QED
      BY <3>1, <3>2
  <2> QED
    BY <1>1, <2>1, <2>2, <2>4, CalmClaims DEF RInv
<1>6. LinksInv'
  <2>1. \A v \in Tokens : tok'[v].pc = "release" => tok'[v] = tok[v]
    BY <1>2
  <2> QED
    BY <1>0, <1>1, <1>3, <2>1, LinksKept DEF IInv, RInv
<1>7. CountInv'
  BY <1>1, <1>4, CountSame DEF RInv
<1> QED
  BY <1>1, <1>5, <1>6, <1>7 DEF RInv, DownInv
-----------------------------------------------------------------------------
(* The event loop: nothing is claimed, and what is written is final.       *)
LEMMA CalmTokens ==
  ASSUME UNCHANGED tok
  PROVE  /\ \A t \in Tokens : /\ tok'[t].pc \in {"start", "mark", "update"} =>
                                   /\ tok'[t].hc = tok[t].hc
                                   /\ tok'[t].pc = tok[t].pc \/ Tied(t)
                              /\ tok'[t].pc = "create" => tok'[t] = tok[t]
         /\ Past' = Past /\ Busy' = Busy
BY DEF Past, Busy

LEMMA PageArrivesReq == ASSUME IInv, RInv, NEW c \in Clients, PageArrives(c) PROVE RInv'
<1>1. /\ up /\ c \in flight /\ flight' = flight \ {c} /\ pages' = Append(pages, c)
      /\ hc' = [hc EXCEPT ![c].status = DOWNLOADED] /\ UpdateRecord(hc'[c])
      /\ UNCHANGED <<up, tok, selected, urls, pending, loop, issue, finish>>
  BY DEF PageArrives, work, count
<1>2. /\ \A x \in Clients : /\ hc'[x].id = hc[x].id /\ hc'[x].uri = hc[x].uri
                            /\ hc'[x].status = IF x = c THEN DOWNLOADED ELSE hc[x].status
      /\ DOWNLOADED \notin {UNCHECK, FINISHED, NoRow}
  <2>1. DOWNLOADED \in Status
    BY DEF Status, DOWNLOADED, UNCHECK, FINISHED
  <2>2. \A x \in Clients : /\ hc'[x].id = hc[x].id /\ hc'[x].uri = hc[x].uri
                           /\ hc'[x].status = IF x = c THEN DOWNLOADED ELSE hc[x].status
    BY <1>1, <2>1, StatusSet
  <2> QED
    BY <2>2 DEF DOWNLOADED, UNCHECK, FINISHED, NoRow
<1>3. Live' = Live
  <2>1. IdsOf(pages') = IdsOf(pages) \cup {c}
    BY <1>1, AppendIds DEF IInv, TypeOK
  <2>2. Live' = flight' \cup IdsOf(pages') \cup IdsOf(pending)
                 \cup {tok[t].hc : t \in {x \in Tokens : tok[x].pc \in {"digest", "release"}}}
    BY <1>1 DEF Live, IdsOf
  <2> QED
    BY <1>1, <2>1, <2>2 DEF Live
<1>4. \A u \in Urls : row'[u] = IF u = hc[c].id THEN DOWNLOADED ELSE row[u]
  <2>1. \A u \in Urls : row'[u] = IF u = hc'[c].id THEN hc'[c].status ELSE row[u]
    BY <1>1 DEF UpdateRecord
  <2> QED
    BY <1>2, <2>1
<1>5. ClaimInv'
  <2>1. \A u \in Urls : Marked(u) => Marked(u)'
    BY <1>2, <1>4 DEF Marked
  <2>2. Live' \subseteq Claimants
    BY <1>3 DEF Claimants
  <2> QED
    BY <1>1, <1>2, <2>1, <2>2, CalmTokens, CalmClaims DEF RInv
<1>6. LinksInv'
  <2>1. \A v \in Tokens : tok[v].pc = "release" => tok[v].hc \in Clients
    BY DEF IInv, TokInv, Digesting
  <2> QED
    BY <1>1, <1>2, <1>4, <2>1, LinksKept DEF IInv, RInv
<1>7. CountInv'
  BY <1>1, <1>3, CalmTokens, CountSame DEF RInv
<1> QED
  BY <1>1, <1>5, <1>6, <1>7 DEF RInv, DownInv

LEMMA RequestFailsReq == ASSUME IInv, RInv, NEW c \in Clients, RequestFails(c) PROVE RInv'
<1>0. PICK s \in {FAILED, NOT_EXIST} : hc' = [hc EXCEPT ![c] = Done(@, s)] /\ FreeHC(c, s)
  BY DEF RequestFails
<1>1. /\ up /\ c \in flight /\ flight' = flight \ {c}
      /\ UNCHANGED <<up, tok, selected, urls, pages, pending, loop, issue>>
  BY DEF RequestFails, work, queue
<1>2. /\ \A x \in Clients : /\ hc'[x].id = hc[x].id /\ hc'[x].uri = hc[x].uri
                            /\ hc'[x].status = IF x = c THEN s ELSE hc[x].status
      /\ s \notin {UNCHECK, FINISHED, NoRow}
  <2>1. s \in Status
    BY DEF Status, FAILED, NOT_EXIST, UNCHECK, FINISHED
  <2>2. \A x \in Clients : /\ hc'[x].id = hc[x].id /\ hc'[x].uri = hc[x].uri
                           /\ hc'[x].status = IF x = c THEN s ELSE hc[x].status
    BY <1>0, <2>1, DoneSet
  <2> QED
    BY <2>2 DEF FAILED, NOT_EXIST, UNCHECK, FINISHED, NoRow
<1>3. c \in Live /\ Live' = Live \ {c}
  BY <1>1, FlightEnds DEF Live
<1>4. /\ finish' = finish + 1
      /\ \A u \in Urls : row'[u] = IF u = hc[c].id THEN s ELSE row[u]
  BY <1>0, Freed
<1>5. ClaimInv'
  <2>1. \A u \in Urls : Marked(u) => Marked(u)'
    BY <1>2, <1>4 DEF Marked
  <2>2. Live' \subseteq Claimants
    BY <1>3 DEF Claimants
  <2> QED
    BY <1>1, <1>2, <2>1, <2>2, CalmTokens, CalmClaims DEF RInv
<1>6. LinksInv'
  <2>1. \A v \in Tokens : tok[v].pc = "release" => tok[v].hc \in Clients
    BY DEF IInv, TokInv, Digesting
  <2> QED
    BY <1>1, <1>2, <1>4, <2>1, LinksKept DEF IInv, RInv
<1>7. CountInv'
  BY <1>1, <1>3, <1>4, CalmTokens, CountLess DEF IInv, RInv
<1> QED
  BY <1>1, <1>5, <1>6, <1>7 DEF RInv, DownInv

LEMMA RedirectBeginsReq == ASSUME IInv, RInv, NEW c \in Clients, RedirectBegins(c) PROVE RInv'
<1>1. /\ up /\ hc' = [hc EXCEPT ![c].status = FAILED]
      /\ loop'.followed = loop.followed
      /\ UNCHANGED <<row, up, tok, flight, selected, urls, pages, pending, issue, finish>>
  BY DEF RedirectBegins, Idle, work, queue, count
<1>2. /\ \A x \in Clients : /\ hc'[x].id = hc[x].id /\ hc'[x].uri = hc[x].uri
                            /\ hc'[x].status = IF x = c THEN FAILED ELSE hc[x].status
      /\ FAILED \notin {UNCHECK, FINISHED, NoRow}
  <2>1. FAILED \in Status
    BY DEF Status, FAILED, UNCHECK, FINISHED
  <2>2. \A x \in Clients : /\ hc'[x].id = hc[x].id /\ hc'[x].uri = hc[x].uri
                           /\ hc'[x].status = IF x = c THEN FAILED ELSE hc[x].status
    BY <1>1, <2>1, StatusSet
  <2> QED
    BY <2>2 DEF FAILED, UNCHECK, FINISHED, NoRow
<1>3. Live' = Live
  BY <1>1 DEF Live, IdsOf
<1>5. ClaimInv'
  <2>1. \A u \in Urls : Marked(u) => Marked(u)'
    BY <1>1 DEF Marked
  <2>2. Live' \subseteq Claimants
    BY <1>3 DEF Claimants
  <2> QED
    BY <1>1, <1>2, <2>1, <2>2, CalmTokens, CalmClaims DEF RInv
<1>6. LinksInv'
  <2>1. \A v \in Tokens : tok[v].pc = "release" => tok[v].hc \in Clients
    BY DEF IInv, TokInv, Digesting
  <2> QED
    BY <1>1, <1>2, <2>1, LinksKept DEF IInv, RInv
<1>7. CountInv'
  BY <1>1, <1>3, CalmTokens, CountSame DEF RInv
<1> QED
  BY <1>1, <1>5, <1>6, <1>7 DEF RInv, DownInv

LEMMA GetPagesReq == ASSUME IInv, RInv, GetPages PROVE RInv'
<1>1. /\ up /\ pending = <<>> /\ pending' = pages /\ pages' = <<>>
      /\ UNCHANGED <<row, up, hc, tok, flight, selected, urls, loop, issue, finish>>
  BY DEF GetPages, work, count
<1>3. Live' = Live
  <2>1. Live' = flight \cup IdsOf(pages') \cup IdsOf(pending')
                 \cup {tok[t].hc : t \in {x \in Tokens : tok[x].pc \in {"digest", "release"}}}
    BY <1>1 DEF Live, IdsOf
  <2>2. IdsOf(pages') = {} /\ IdsOf(pending) = {} /\ IdsOf(pending') = IdsOf(pages)
    BY <1>1, EmptyIds DEF IdsOf
  <2> QED
    BY <2>1, <2>2 DEF Live
<1>5. ClaimInv'
  <2>1. \A u \in Urls : Marked(u) => Marked(u)'
    BY <1>1 DEF Marked
  <2>2. Live' \subseteq Claimants
    BY <1>3 DEF Claimants
  <2> QED
    BY <1>1, <2>1, <2>2, CalmTokens, CalmClaims DEF RInv
<1>6. LinksInv'
  BY <1>1, LinksKept DEF IInv, RInv
<1>7. CountInv'
  BY <1>1, <1>3, CalmTokens, CountSame DEF RInv
<1> QED
  BY <1>1, <1>5, <1>6, <1>7 DEF RInv, DownInv
-----------------------------------------------------------------------------
(* The digest filter.                                                      *)
LEMMA TakePageReq == ASSUME IInv, RInv, NEW t \in Tokens, TakePage(t) PROVE RInv'
<1> DEFINE c == pending[Len(pending)]
<1>0. /\ tok \in [Tokens -> Token] /\ tok[t].pc = "wait" /\ pending \in Seq(Clients) /\ pending # <<>>
      /\ up /\ hc' = [hc EXCEPT ![c].status = PARSING]
      /\ tok' = [tok EXCEPT ![t] = [pc |-> "digest", url |-> None, hc |-> c]]
      /\ pending' = SubSeq(pending, 1, Len(pending) - 1)
      /\ UNCHANGED <<row, up, selected, urls, flight, pages, loop, issue, finish>>
  BY DEF TakePage, IInv, TypeOK, work, count
<1>1. /\ c \in Clients /\ c \in IdsOf(pending)
      /\ IdsOf(pending') = IdsOf(pending) \ {c}
  BY <1>0, FrontIds DEF IInv, OneOwner
<1> HIDE DEF c
<1>2. /\ \A v \in Tokens : v # t => tok'[v] = tok[v]
      /\ tok'[t].pc = "digest" /\ tok'[t].hc = c
  BY <1>0
<1>3. /\ \A x \in Clients : /\ hc'[x].id = hc[x].id /\ hc'[x].uri = hc[x].uri
                            /\ hc'[x].status = IF x = c THEN PARSING ELSE hc[x].status
      /\ PARSING \notin {UNCHECK, FINISHED}
  <2>1. PARSING \in Status
    BY DEF Status, PARSING, UNCHECK, FINISHED
  <2>2. \A x \in Clients : /\ hc'[x].id = hc[x].id /\ hc'[x].uri = hc[x].uri
                           /\ hc'[x].status = IF x = c THEN PARSING ELSE hc[x].status
    BY <1>0, <1>1, <2>1, StatusSet
  <2> QED
    BY <2>2 DEF PARSING, UNCHECK, FINISHED
<1>4. Live' = Live
  <2> SUFFICES ASSUME NEW x PROVE x \in Live' <=> x \in Live
    OBVIOUS
  <2>1. x \in Live' <=> \/ x \in flight \/ x \in IdsOf(pages) \/ x \in IdsOf(pending')
                         \/ \E v \in Tokens : tok'[v].pc \in {"digest", "release"} /\ tok'[v].hc = x
    BY <1>0 DEF Live, IdsOf
  <2>2. (\E v \in Tokens : tok'[v].pc \in {"digest", "release"} /\ tok'[v].hc = x)
          <=> \/ x = c
              \/ \E v \in Tokens : tok[v].pc \in {"digest", "release"} /\ tok[v].hc = x
    BY <1>0, <1>2
  <2> QED
    BY <1>1, <2>1, <2>2 DEF Live
<1>5. Past' = Past /\ Busy' = Busy
  BY <1>0, <1>2 DEF Past, Busy
<1>6. ClaimInv'
  <2>1. \A v \in Tokens : /\ tok'[v].pc \in {"start", "mark", "update"} =>
                              /\ tok'[v].hc = tok[v].hc
                              /\ tok'[v].pc = tok[v].pc \/ Tied(v)
                          /\ tok'[v].pc = "create" => tok'[v] = tok[v]
    BY <1>0, <1>2
  <2>2. \A u \in Urls : Marked(u)' = Marked(u)
    BY <1>0 DEF Marked
  <2>3. Live' \subseteq Claimants
    BY <1>4 DEF Claimants
  <2> QED
    BY <1>0, <1>3, <2>1, <2>2, <2>3, CalmClaims DEF RInv
<1>7. LinksInv'
  <2>1. \A v \in Tokens : tok'[v].pc = "release" => tok'[v] = tok[v] /\ tok[v].hc \in Clients
    BY <1>2 DEF IInv, TokInv, Digesting
  <2> QED
    BY <1>0, <1>3, <2>1, LinksKept DEF IInv, RInv
<1>8. CountInv'
  BY <1>0, <1>4, <1>5, CountSame DEF RInv
<1> QED
  BY <1>0, <1>6, <1>7, <1>8 DEF RInv, DownInv

(* addRecords gives every link of the page a row.                          *)
LEMMA DigestProcessReq == ASSUME IInv, RInv, NEW t \in Tokens, DigestProcess(t) PROVE RInv'
<1> DEFINE c == tok[t].hc
<1>0. /\ tok \in [Tokens -> Token] /\ tok[t].pc = "digest" /\ c \in Clients
      /\ up /\ hc' = [hc EXCEPT ![c].status = PARSING]
      /\ tok' = [tok EXCEPT ![t].pc = "release"]
      /\ UNCHANGED <<up, selected, urls, flight, pages, pending, loop, issue, finish>>
  BY DEF DigestProcess, IInv, TypeOK, TokInv, Digesting, work, queue, count
<1>1. PICK u \in Urls : hc[c].id \in {u, None} /\ row' = AddRecords(row, Links[u])
  BY DEF DigestProcess
<1>2. /\ \A v \in Tokens : v # t => tok'[v] = tok[v]
      /\ tok'[t].pc = "release" /\ tok'[t].hc = c
  BY <1>0
<1> HIDE DEF c
<1>3. /\ \A x \in Clients : /\ hc'[x].id = hc[x].id /\ hc'[x].uri = hc[x].uri
                            /\ hc'[x].status = IF x = c THEN PARSING ELSE hc[x].status
      /\ PARSING \notin {UNCHECK, FINISHED}
  <2>1. PARSING \in Status
    BY DEF Status, PARSING, UNCHECK, FINISHED
  <2>2. \A x \in Clients : /\ hc'[x].id = hc[x].id /\ hc'[x].uri = hc[x].uri
                           /\ hc'[x].status = IF x = c THEN PARSING ELSE hc[x].status
    BY <1>0, <2>1, StatusSet
  <2> QED
    BY <2>2 DEF PARSING, UNCHECK, FINISHED
<1>4. Live' = Live
  <2>1. Live' = flight \cup IdsOf(pages) \cup IdsOf(pending)
                 \cup {tok'[v].hc : v \in {x \in Tokens : tok'[x].pc \in {"digest", "release"}}}
    BY <1>0 DEF Live, IdsOf
  <2>2. \A v \in Tokens : /\ tok'[v].pc \in {"digest", "release"} <=> tok[v].pc \in {"digest", "release"}
                          /\ tok'[v].hc = tok[v].hc
    BY <1>0, <1>2 DEF c
  <2> QED
    BY <2>1, <2>2 DEF Live
<1>5. Past' = Past /\ Busy' = Busy
  BY <1>0, <1>2 DEF Past, Busy
<1>6. \A w \in Urls : /\ Marked(w) => Marked(w)'
                      /\ w \in Links[u] => row'[w] # NoRow
                      /\ row[w] # NoRow => row'[w] # NoRow
                      /\ row'[w] = FINISHED => row[w] = FINISHED
  BY <1>1 DEF AddRecords, Marked, UNCHECK, NoRow, FINISHED
<1>7. ClaimInv'
  <2>1. \A v \in Tokens : /\ tok'[v].pc \in {"start", "mark", "update"} =>
                              /\ tok'[v].hc = tok[v].hc
                              /\ tok'[v].pc = tok[v].pc \/ Tied(v)
                          /\ tok'[v].pc = "create" => tok'[v] = tok[v]
    BY <1>0, <1>2
  <2>2. Live' \subseteq Claimants
    BY <1>4 DEF Claimants
  <2> QED
    BY <1>0, <1>3, <1>6, <2>1, <2>2, CalmClaims DEF RInv
<1>8. LinksInv'
  <2>1. \A v \in Tokens : v # t /\ tok'[v].pc = "release" =>
          tok'[v] = tok[v] /\ tok[v].hc \in Clients
    BY <1>2 DEF IInv, TokInv, Digesting
  <2>2. Covered(hc[tok[t].hc].id)'
    <3>1. hc'[tok'[t].hc].id \in {u, None} /\ Links[u] \subseteq Urls
      BY <1>0, <1>1, <1>2, <1>3, VoyagerAssumption
    <3> QED
      BY <1>6, <3>1 DEF Covered
  <2> QED
    BY <1>3, <1>6, <2>1, <2>2, LinksKept DEF IInv, RInv
<1>9. CountInv'
  BY <1>0, <1>4, <1>5, CountSame DEF RInv
<1> QED
  BY <1>0, <1>7, <1>8, <1>9 DEF RInv, DownInv

(* The page's token, its live request and its claim go together.           *)
LEMMA DigestReleaseReq == ASSUME IInv, RInv, NEW t \in Tokens, DigestRelease(t) PROVE RInv'
<1> DEFINE c == tok[t].hc
<1>0. /\ tok \in [Tokens -> Token] /\ tok[t].pc = "release" /\ c \in Clients /\ c \in Live
      /\ up /\ hc' = [hc EXCEPT ![c] = Done(@, FINISHED)] /\ FreeHC(c, FINISHED)
      /\ tok' = [tok EXCEPT ![t] = Free]
      /\ UNCHANGED <<up, selected, urls, flight, pages, pending, loop, issue>>
  BY DEF DigestRelease, IInv, TypeOK, TokInv, Digesting, Live, work, queue
<1>1. /\ c \notin flight \cup IdsOf(pages) \cup IdsOf(pending)
      /\ \A v \in Tokens : Digesting(v) /\ tok[v].hc = c => v = t
      /\ Covered(hc[c].id)
  BY <1>0 DEF IInv, OneOwner, Digesting, RInv, LinksInv
<1> HIDE DEF c
<1>2. tok'[t].pc = "free" /\ \A v \in Tokens : v # t => tok'[v] = tok[v]
  BY <1>0 DEF Free
<1>3. FINISHED \in Status /\ FINISHED \notin {UNCHECK, NoRow}
  BY DEF Status, FINISHED, UNCHECK, NoRow
<1>4. /\ \A x \in Clients : /\ hc'[x].id = hc[x].id /\ hc'[x].uri = hc[x].uri
                            /\ hc'[x].status = IF x = c THEN FINISHED ELSE hc[x].status
      /\ finish' = finish + 1
      /\ \A u \in Urls : row'[u] = IF u = hc[c].id THEN FINISHED ELSE row[u]
  <2>1. \A x \in Clients : /\ hc'[x].id = hc[x].id /\ hc'[x].uri = hc[x].uri
                           /\ hc'[x].status = IF x = c THEN FINISHED ELSE hc[x].status
    BY <1>0, <1>3, DoneSet
  <2>2. /\ finish' = finish + 1
        /\ \A u \in Urls : row'[u] = IF u = hc[c].id THEN FINISHED ELSE row[u]
    BY <1>0, Freed
  <2> QED
    BY <2>1, <2>2
<1>5. Live' = Live \ {c}
  <2> SUFFICES ASSUME NEW x PROVE x \in Live' <=> x \in Live /\ x # c
    OBVIOUS
  <2>1. x \in Live' <=> \/ x \in flight \/ x \in IdsOf(pages) \/ x \in IdsOf(pending)
                         \/ \E v \in Tokens : Digesting(v)' /\ tok'[v].hc = x
    BY <1>0 DEF Live, IdsOf, Digesting
  <2>2. \A v \in Tokens : Digesting(v)' <=> Digesting(v) /\ v # t
    BY <1>2 DEF Digesting
  <2>3. (\E v \in Tokens : Digesting(v)' /\ tok'[v].hc = x)
          <=> \E v \in Tokens : Digesting(v) /\ tok[v].hc = x /\ x # c
    BY <1>1, <1>2, <2>2 DEF c
  <2> QED
    BY <1>1, <2>1, <2>3, LiveMembers
<1>6. Past' = Past \ {t} /\ t \in Past /\ Busy' \subseteq Busy
  BY <1>0, <1>2 DEF Past, Busy
<1>7. ClaimInv'
  <2>1. \A v \in Tokens : /\ tok'[v].pc \in {"start", "mark", "update"} =>
                              /\ tok'[v].hc = tok[v].hc
                              /\ tok'[v].pc = tok[v].pc \/ Tied(v)
                          /\ tok'[v].pc = "create" => tok'[v] = tok[v]
    BY <1>2
  <2>2. \A u \in Urls : Marked(u) => Marked(u)'
    BY <1>3, <1>4 DEF Marked
  <2>3. Live' \subseteq Claimants
    BY <1>5 DEF Claimants
  <2> QED
    BY <1>0, <1>3, <1>4, <2>1, <2>2, <2>3, CalmClaims DEF RInv
<1>8. LinksInv'
  <2>1. \A u \in Urls : row[u] # NoRow => row'[u] # NoRow
    BY <1>3, <1>4
  <2>2. ASSUME NEW i \in Urls \cup {None}, Covered(i) PROVE Covered(i)'
    <3>1. i # None => Links[i] \subseteq Urls
      BY VoyagerAssumption
    <3> QED
      BY <2>1, <2>2, <3>1 DEF Covered
  <2>3. \A x \in Clients : hc[x].id \in Urls \cup {None}
    BY DEF IInv, TypeOK, Client
  <2>4. ASSUME NEW u \in Urls, row'[u] = FINISHED PROVE Covered(u)'
    <3>1. Covered(u)
      BY <1>1, <1>4, <2>4 DEF RInv, LinksInv
    <3> QED
      BY <2>2, <3>1
  <2>5. ASSUME NEW x \in Clients, hc'[x].status = FINISHED PROVE Covered(hc[x].id)'
    <3>1. PICK i \in Urls \cup {None} : i = hc[x].id
      BY <2>3
    <3>2. Covered(i)
      BY <1>1, <1>4, <2>5, <3>1 DEF RInv, LinksInv
    <3>3. Covered(i)' /\ i = hc'[x].id
      BY <1>4, <2>2, <3>1, <3>2
    <3> QED
      BY <3>3
  <2>6. ASSUME NEW v \in Tokens, tok'[v].pc = "release" PROVE Covered(hc[tok[v].hc].id)'
    <3>1. tok'[v] = tok[v] /\ tok[v].pc = "release" /\ tok[v].hc \in Clients
      BY <1>2, <2>6 DEF IInv, TokInv, Digesting
    <3>2. PICK i \in Urls \cup {None} : i = hc[tok[v].hc].id
      BY <2>3, <3>1
    <3>3. Covered(i)' /\ i = hc'[tok'[v].hc].id
      BY <1>4, <2>2, <3>1, <3>2 DEF RInv, LinksInv
    <3> QED
      BY <3>3
  <2> QED
    BY <2>4, <2>5, <2>6 DEF LinksInv
<1>9. CountInv'
  <2>1. IsFiniteSet(Live) /\ IsFiniteSet(Past) /\ IsFiniteSet(Busy')
    BY <1>6, PastBusy, FS_Subset DEF RInv, CountInv
  <2>2. /\ IsFiniteSet(Live') /\ Cardinality(Live') = Cardinality(Live) - 1
        /\ Cardinality(Past') = Cardinality(Past) - 1
    BY <1>0, <1>5, <1>6, <2>1, FS_RemoveElement
  <2>3. Cardinality(Live) \in Nat /\ Cardinality(Past) \in Nat
    BY <2>1, FS_CardinalityType
  <2>4. issue \in Nat /\ finish \in Nat /\ issue' = issue /\ finish' = finish + 1
    BY <1>0, <1>4 DEF IInv, TypeOK
  <2>5. Overlap' = Overlap /\ Overlap \in Nat
    BY <1>0 DEF Overlap
  <2> QED
    BY <2>1, <2>2, <2>3, <2>4, <2>5 DEF RInv, CountInv
<1> QED
  BY <1>0, <1>7, <1>8, <1>9 DEF RInv, DownInv
-----------------------------------------------------------------------------
(* create(): the claim passes from the token to the client it gets, which  *)
(* takes the id of the record with it; a client with another token loses   *)
(* what it stood for.                                                      *)
LEMMA LoadCreateReq == ASSUME IInv, RInv, NEW t \in Tokens, LoadCreate(t) PROVE RInv'
<1> DEFINE u == tok[t].url
<1>0. PICK c \in Clients, E \in SUBSET Clients :
        /\ Create(c, E) /\ FreedAfter(c)
        /\ \/ /\ hc' = ClientsAfter(c, E, Request(u))
              /\ tok' = [tok EXCEPT ![t].pc = "start", ![t].hc = c]
              /\ UNCHANGED row
           \/ /\ hc' = ClientsAfter(c, E, Unsupported(u))
              /\ UpdateRecord(Unsupported(u))
              /\ tok' = [tok EXCEPT ![t] = [pc |-> "wait", url |-> None, hc |-> None]]
           \/ /\ hc' = ClientsAfter(c, E, HostLess(u))
              /\ tok' = [tok EXCEPT ![t] = [pc |-> "wait", url |-> None, hc |-> None]]
              /\ UNCHANGED row
  BY DEF LoadCreate
<1>1. /\ tok \in [Tokens -> Token] /\ u \in Urls /\ tok[t].pc = "create"
      /\ up /\ UNCHANGED <<up, selected, urls, flight, pages, pending, loop, issue, finish>>
  BY DEF LoadCreate, IInv, TypeOK, TokInv, work, queue, count
<1>h. PICK h \in Client :
        /\ hc' = ClientsAfter(c, E, h)
        /\ \/ /\ h = Request(u)
              /\ tok' = [tok EXCEPT ![t].pc = "start", ![t].hc = c]
              /\ UNCHANGED row
           \/ /\ h = Unsupported(u)
              /\ UpdateRecord(Unsupported(u))
              /\ tok' = [tok EXCEPT ![t] = [pc |-> "wait", url |-> None, hc |-> None]]
           \/ /\ h = HostLess(u)
              /\ tok' = [tok EXCEPT ![t] = [pc |-> "wait", url |-> None, hc |-> None]]
              /\ UNCHANGED row
  <2>1. Request(u) \in Client /\ Unsupported(u) \in Client /\ HostLess(u) \in Client
    BY <1>1 DEF Request, Unsupported, HostLess, Client, Status, INITIALIZED, UNSUPPORT, UNCHECK, FINISHED
  <2> QED
    BY <1>0, <2>1
<1>2. /\ hc'[c] = IF c \in shadow' THEN h ELSE Reset(h)
      /\ \A x \in E : x # c => hc'[x] = Reset(hc[x])
      /\ \A x \in Clients : x # c /\ x \notin E => hc'[x] = hc[x]
  <2>1. Create(c, E)
    BY <1>0
  <2> QED
    BY ONLY IInv, <1>h, <2>1, CreateClients
<1>3. /\ c \in shadow' => c \in memPool \cap shadow
      /\ c \notin Live /\ E \cap Live = {}
  BY <1>0, CreateLists
<1>4. /\ \A v \in Tokens : v # t => tok'[v] = tok[v]
      /\ \/ /\ tok'[t].pc = "start" /\ tok'[t].hc = c
            /\ h = Request(u) /\ row' = row
         \/ tok'[t].pc = "wait" /\ h = Unsupported(u) /\ UpdateRecord(Unsupported(u))
         \/ tok'[t].pc = "wait" /\ h = HostLess(u) /\ row' = row
  <2>1. CASE tok' = [tok EXCEPT ![t].pc = "start", ![t].hc = c] /\ h = Request(u) /\ row' = row
    BY <1>1, <2>1
  <2>2. CASE /\ tok' = [tok EXCEPT ![t] = [pc |-> "wait", url |-> None, hc |-> None]]
             /\ \/ h = Unsupported(u) /\ UpdateRecord(Unsupported(u))
                \/ h = HostLess(u) /\ row' = row
    BY <1>1, <2>2
  <2> QED
    BY <1>h, <2>1, <2>2
<1>5. Live' = Live /\ Past \subseteq Past' /\ Busy' = Busy
  BY <1>1, <1>4 DEF Live, IdsOf, Past, Busy
<1>6. /\ Request(u).id = u /\ Request(u).uri /\ Request(u).status = INITIALIZED
      /\ Unsupported(u).id = u /\ Unsupported(u).status = UNSUPPORT
      /\ HostLess(u).id = u /\ HostLess(u).status = UNCHECK
      /\ \A x \in Client : ~Reset(x).uri /\ Reset(x).status = UNCHECK /\ Reset(x).id = x.id
  BY DEF Request, Unsupported, HostLess, Reset, Client
<1>7. {INITIALIZED, UNSUPPORT} \cap {UNCHECK, FINISHED, NoRow} = {} /\ UNCHECK # FINISHED
  BY DEF INITIALIZED, UNSUPPORT, UNCHECK, FINISHED, NoRow
<1>8. /\ hc'[c].id = u /\ hc'[c].status # FINISHED
      /\ hc'[c].uri => c \in memPool \cap shadow
      /\ tok'[t].pc = "start" /\ hc'[c].uri => hc'[c].status # UNCHECK
  <2>1. h.id = u /\ h.status # FINISHED /\ (tok'[t].pc = "start" => h = Request(u))
    BY <1>4, <1>6, <1>7
  <2>2. CASE c \in shadow'
    BY <1>2, <1>3, <1>6, <1>7, <2>1, <2>2
  <2>3. CASE c \notin shadow'
    BY <1>2, <1>6, <1>7, <2>1, <2>3
  <2> QED
    BY <2>2, <2>3
<1>9. \A x \in Clients : x # c =>
        /\ hc'[x].id = hc[x].id
        /\ hc'[x].uri => hc'[x] = hc[x]
        /\ hc'[x].status = FINISHED => hc'[x] = hc[x]
  BY <1>2, <1>6, <1>7 DEF IInv, TypeOK
<1>10. \A w \in Urls : /\ Marked(w) => Marked(w)'
                       /\ row[w] # NoRow => row'[w] # NoRow
                       /\ row'[w] = FINISHED => row[w] = FINISHED
  <2>1. CASE row' = row
    BY <2>1 DEF Marked
  <2>2. CASE UpdateRecord(Unsupported(u))
    <3>1. \A w \in Urls : row'[w] = IF w = Unsupported(u).id THEN Unsupported(u).status ELSE row[w]
      BY <2>2, Written
    <3> QED
      BY <1>6, <1>7, <3>1 DEF Marked
  <2> QED
    BY <1>4, <2>1, <2>2
<1> HIDE DEF u
<1>11. ClaimInv'
  <2>1. ASSUME NEW v \in Tokens, v # t, Tied(v)' PROVE Tied(v) /\ tok'[v] = tok[v]
    <3>1. tok'[v] = tok[v]
      BY <1>4, <2>1
    <3>2. CASE tok[v].pc = "start"
      <4>1. tok[v].hc \in Clients /\ tok[v].hc \notin memPool \cap shadow /\ hc'[tok[v].hc].uri
        BY <2>1, <3>1, <3>2 DEF IInv, TokInv, VirginInv, Loading, Tied
      <4>2. tok[v].hc # c
        BY <1>8, <4>1
      <4> QED
        BY <1>9, <3>1, <3>2, <4>1, <4>2 DEF Tied
    <3> QED
      BY <2>1, <3>1, <3>2 DEF Tied
  <2>2. Tied(t)' => tok'[t].hc = c /\ c \in memPool \cap shadow
    BY <1>4, <1>8 DEF Tied
  <2>3. \A v, w \in Tokens : Tied(v)' /\ Tied(w)' /\ tok'[v].hc = tok'[w].hc => v = w
    <3>1. \A v \in Tokens : v # t /\ Tied(v)' => tok[v].hc \notin memPool \cap shadow
      BY <2>1 DEF Tied, Loading, IInv, VirginInv
    <3> QED
      BY <2>1, <2>2, <3>1 DEF RInv, ClaimInv
  <2>4. Claimants \subseteq Clients /\ Claimants' \subseteq Claimants \cup {c}
    <3>1. \A v \in Tokens : Tied(v)' => tok'[v].hc = c \/ (Tied(v) /\ tok'[v].hc = tok[v].hc)
      BY <2>1, <2>2
    <3> QED
      BY <1>5, <3>1, ClaimantClients DEF Claimants
  <2>5. \A v \in Tokens : \A w : Creating(v, w)' <=> Creating(v, w) /\ v # t
    BY <1>4 DEF Creating
  <2>6. /\ Marked(u) /\ u \notin selected \cup urls
        /\ \A v \in Tokens : Creating(v, u) => v = t
        /\ \A d \in Claimants : hc[d].id # u
    BY <1>1 DEF Creating, RInv, ClaimInv, u
  <2>7. ASSUME NEW x \in Claimants', NEW w \in Urls, hc'[x].id = w
        PROVE  /\ Marked(w)' /\ w \notin selected' \cup urls'
               /\ \A v \in Tokens : ~Creating(v, w)'
               /\ \A d \in Claimants' : hc'[d].id = w => d = x
    <3>1. \A d \in Claimants' : d # c => d \in Claimants /\ hc'[d].id = hc[d].id
      BY <1>9, <2>4
    <3>2. CASE x = c
      <4>1. w = u
        BY <1>8, <2>7, <3>2
      <4>2. \A d \in Claimants' : hc'[d].id = w => d = x
        BY <2>6, <3>1, <3>2, <4>1
      <4>3. \A v \in Tokens : ~Creating(v, w)'
        BY <2>5, <2>6, <4>1
      <4> QED
        BY <1>1, <1>10, <2>6, <4>1, <4>2, <4>3
    <3>3. CASE x # c
      <4>1. x \in Claimants /\ hc[x].id = w
        BY <2>7, <3>1, <3>3
      <4>2. /\ Marked(w) /\ w \notin selected \cup urls
            /\ \A v \in Tokens : ~Creating(v, w)
            /\ \A d \in Claimants : hc[d].id = w => d = x
        BY <4>1 DEF RInv, ClaimInv
      <4>3. w # u
        BY <2>6, <4>1
      <4>4. \A d \in Claimants' : hc'[d].id = w => d = x
        BY <1>8, <3>1, <4>2, <4>3
      <4> QED
        BY <1>1, <1>10, <2>5, <4>2, <4>4
    <3> QED
      BY <3>2, <3>3
  <2>8. \A v \in Tokens, w \in Urls : Creating(v, w)' =>
          /\ Marked(w)' /\ w \notin selected' \cup urls'
          /\ \A x \in Tokens : Creating(x, w)' => x = v
    BY <1>1, <1>10, <2>5 DEF RInv, ClaimInv
  <2>9. \A w \in urls' : Marked(w)'
    BY <1>1, <1>10 DEF RInv, ClaimInv, IInv, TypeOK
  <2>10. ASSUME NEW x \in Claimants', hc'[x].uri PROVE hc'[x].status # UNCHECK
    <3>1. CASE x = c
      <4>1. c \in memPool \cap shadow /\ c \notin Live'
        BY <1>3, <1>5, <1>8, <2>10, <3>1
      <4>2. PICK v \in Tokens : Tied(v)' /\ tok'[v].hc = c
        BY <2>10, <3>1, <4>1 DEF Claimants
      <4>3. v = t
        BY <2>1, <4>1, <4>2 DEF Tied, Loading, IInv, VirginInv
      <4>4. tok'[t].pc = "start"
        BY <1>4, <4>2, <4>3 DEF Tied
      <4> QED
        BY <1>8, <2>10, <3>1, <4>4
    <3>2. CASE x # c
      <4>1. x \in Claimants /\ hc'[x] = hc[x]
        BY <1>9, <2>4, <2>10, <3>2
      <4> QED
        BY <2>10, <4>1 DEF RInv, ClaimInv
    <3> QED
      BY <3>1, <3>2
  <2> QED
    BY <2>3, <2>7, <2>8, <2>9, <2>10 DEF ClaimInv
<1>12. LinksInv'
  <2>1. ASSUME NEW v \in Tokens, tok'[v].pc = "release"
        PROVE  tok[v].pc = "release" /\ hc'[tok'[v].hc].id = hc[tok[v].hc].id
    <3>1. tok'[v] = tok[v] /\ tok[v].hc \in Live
      BY <1>4, <2>1 DEF Live
    <3> QED
      BY <1>3, <1>9, <2>1, <3>1, LiveClients DEF IInv
  <2>2. \A x \in Clients : hc'[x].status = FINISHED =>
                             hc[x].status = FINISHED /\ hc'[x].id = hc[x].id
    BY <1>8, <1>9
  <2> QED
    BY <1>10, <2>1, <2>2, LinksKept DEF IInv, RInv
<1>13. CountInv'
  BY <1>1, <1>5, CountSame DEF RInv
<1> QED
  BY <1>1, <1>11, <1>12, <1>13 DEF RInv, DownInv

(* A redirect: the new client has the id of no row, and its request is the *)
(* one the event loop stands for until the old one ends.                   *)
LEMMA RedirectFollowsReq == ASSUME IInv, RInv, NEW c \in Clients, RedirectFollows(c) PROVE RInv'
<1> DEFINE R == [Request(None) EXCEPT !.status = DOWNLOADING]
<1> DEFINE U == Unsupported(None)
<1> DEFINE H == HostLess(None)
<1>0. PICK n \in Clients, E \in SUBSET Clients :
        /\ Create(n, E) /\ FreedAfter(n)
        /\ \/ /\ hc' \in {ClientsAfter(n, E, h) : h \in {U, H}}
              /\ UNCHANGED <<flight, issue>>
           \/ /\ n \in shadow'
              /\ hc' = ClientsAfter(n, E, R)
              /\ flight' = flight \cup {n}
              /\ issue' = issue + 1
  BY DEF RedirectFollows
<1>1. /\ up /\ UNCHANGED <<row, up, selected, urls, tok, pages, pending, finish>>
      /\ loop.followed = FALSE /\ loop'.followed = TRUE
      /\ hc \in [Clients -> Client] /\ Live \subseteq Clients
  BY LiveClients DEF RedirectFollows, work, queue, IInv, TypeOK
<1>2. n \notin Live /\ E \cap Live = {} /\ (n \in shadow' => n \in memPool \cap shadow)
  BY <1>0, CreateLists
<1>3. /\ R \in Client /\ R.id = None /\ R.uri /\ R.status = DOWNLOADING
      /\ U \in Client /\ U.id = None /\ ~U.uri /\ U.status = UNSUPPORT
      /\ H \in Client /\ H.id = None /\ ~H.conn /\ H.status = UNCHECK
  <2>1. {DOWNLOADING, INITIALIZED, UNSUPPORT, UNCHECK} \subseteq Status
    BY DEF Status, UNSUPPORT, DOWNLOADING, INITIALIZED, UNCHECK, FINISHED
  <2>2. Request(None) \in Client /\ Request(None).id = None /\ Request(None).uri
    BY <2>1 DEF Request, Client
  <2>3. U \in Client /\ U.id = None /\ ~U.uri /\ U.status = UNSUPPORT
    BY <2>1 DEF Unsupported, Client
  <2>4. R \in Client /\ R.id = None /\ R.uri /\ R.status = DOWNLOADING
    BY <2>1, <2>2 DEF Client
  <2>5. H \in Client /\ H.id = None /\ ~H.conn /\ H.status = UNCHECK
    BY <2>1 DEF HostLess, Client
  <2> QED
    BY <2>3, <2>4, <2>5
<1> HIDE DEF R, U, H
<1>9. /\ {DOWNLOADING, UNSUPPORT, UNCHECK} \cap {FINISHED} = {}
      /\ DOWNLOADING # UNCHECK /\ DOWNLOADING # UNSUPPORT
  BY DEF DOWNLOADING, UNSUPPORT, UNCHECK, FINISHED
<1>4. PICK h \in {U, H, R}, F \in {{}, {n}} :
        /\ hc' = ClientsAfter(n, E, h)
        /\ flight' = flight \cup F
        /\ F = {n} => h = R
        /\ issue' = IF F = {n} THEN issue + 1 ELSE issue
  <2>2. CASE hc' \in {ClientsAfter(n, E, h) : h \in {U, H}} /\ UNCHANGED <<flight, issue>>
    <3>1. PICK h \in {U, H} : hc' = ClientsAfter(n, E, h)
      BY <2>2
    <3>2. {} # {n} /\ flight' = flight \cup {} /\ h \in {U, H, R}
      BY <2>2
    <3> QED
      BY <2>2, <3>1, <3>2
  <2>3. CASE n \in shadow' /\ hc' = ClientsAfter(n, E, R) /\ flight' = flight \cup {n} /\ issue' = issue + 1
    BY <2>3
  <2> QED
    BY <1>0, <2>2, <2>3
<1>5. /\ h \in Client /\ h.id = None /\ h.status \in {DOWNLOADING, UNSUPPORT, UNCHECK}
      /\ \A x \in Client : Reset(x).id = x.id /\ ~Reset(x).uri /\ Reset(x).status = UNCHECK
  <2>1. h \in Client /\ h.id = None /\ h.status \in {DOWNLOADING, UNSUPPORT, UNCHECK}
    BY <1>3
  <2> QED
    BY <2>1 DEF Reset, Client
<1>6. /\ hc'[n] = IF n \in shadow' THEN h ELSE Reset(h)
      /\ \A x \in E : x # n => hc'[x] = Reset(hc[x])
      /\ \A x \in Clients : x # n /\ x \notin E => hc'[x] = hc[x]
  <2>1. Create(n, E) /\ h \in Client
    BY <1>0, <1>5
  <2> QED
    BY SMTT(20), <1>4, <2>1, CreateClients
<1>8. Live' = Live \cup F
  <2>1. Live' = flight' \cup IdsOf(pages) \cup IdsOf(pending)
                 \cup {tok[t].hc : t \in {x \in Tokens : tok[x].pc \in {"digest", "release"}}}
    BY <1>1 DEF Live, IdsOf
  <2> QED
    BY <1>4, <2>1 DEF Live
<1>10. /\ hc'[n].id = None /\ hc'[n].status # FINISHED
       /\ hc'[n].uri => n \in memPool \cap shadow
       /\ F = {n} /\ hc'[n].uri => hc'[n].status # UNCHECK
  <2>1. CASE n \in shadow'
    BY <1>2, <1>3, <1>4, <1>5, <1>6, <1>9, <2>1
  <2>2. CASE n \notin shadow'
    BY <1>5, <1>6, <1>9, <2>2
  <2> QED
    BY <2>1, <2>2
<1>11. \A x \in Clients : x # n =>
         /\ hc'[x].id = hc[x].id
         /\ hc'[x].uri => hc[x].uri /\ hc'[x].status = hc[x].status
         /\ hc'[x].status = FINISHED => hc[x].status = FINISHED
  <2> SUFFICES ASSUME NEW x \in Clients, x # n
               PROVE  /\ hc'[x].id = hc[x].id
                      /\ hc'[x].uri => hc[x].uri /\ hc'[x].status = hc[x].status
                      /\ hc'[x].status = FINISHED => hc[x].status = FINISHED
    OBVIOUS
  <2>2. CASE x \in E
    <3>1. hc[x] \in Client /\ hc'[x] = Reset(hc[x]) /\ UNCHECK # FINISHED
      BY <1>1, <1>6, <1>9, <2>2
    <3> QED
      BY <1>5, <3>1
  <2>3. CASE x \notin E
    BY <1>6, <2>3
  <2> QED
    BY <2>2, <2>3
<1>13. ClaimInv'
  <2>1. ASSUME NEW t \in Tokens, Tied(t)'
        PROVE  Tied(t) /\ tok'[t].hc = tok[t].hc /\ (tok[t].hc = n => ~hc'[n].uri)
    <3>0. tok[t].hc \in Clients /\ tok[t].hc \notin memPool \cap shadow /\ tok' = tok
      BY <1>1, <2>1 DEF IInv, TokInv, VirginInv, Loading, Tied
    <3>1. CASE tok[t].pc = "start"
      <4>1. hc'[tok[t].hc].uri
        BY <2>1, <3>0, <3>1 DEF Tied
      <4>2. tok[t].hc # n
        BY <1>10, <3>0, <4>1
      <4>3. hc[tok[t].hc].uri
        BY <1>11, <3>0, <4>1, <4>2
      <4> QED
        BY <3>0, <3>1, <4>2, <4>3 DEF Tied
    <3> QED
      BY <1>10, <2>1, <3>0, <3>1 DEF Tied
  <2>2. Claimants \subseteq Clients /\ Claimants' \subseteq Claimants \cup F
    BY <1>8, <2>1, ClaimantClients DEF Claimants
  <2>3. \A d \in Claimants' : \/ d \in Claimants /\ hc'[d].id = hc[d].id
                              \/ hc'[d].id = None
    BY <1>10, <1>11, <2>2
  <2>4. \A u \in Urls : Marked(u) => Marked(u)'
    BY <1>1 DEF Marked
  <2>5. ASSUME NEW x \in Claimants', hc'[x].uri PROVE hc'[x].status # UNCHECK
    <3>1. CASE x = n
      <4>1. n \in Live' \/ \E t \in Tokens : Tied(t)' /\ tok'[t].hc = n
        BY <2>5, <3>1 DEF Claimants
      <4>2. F = {n}
        BY <1>2, <1>8, <2>1, <2>5, <3>1, <4>1
      <4> QED
        BY <1>10, <2>5, <3>1, <4>2
    <3>2. CASE x # n
      <4>1. x \in Claimants /\ hc[x].uri /\ hc'[x].status = hc[x].status
        BY <1>11, <2>2, <2>5, <3>2
      <4> QED
        BY <4>1 DEF RInv, ClaimInv
    <3> QED
      BY <3>1, <3>2
  <2>6. \A t \in Tokens : \A u : Creating(t, u)' => Creating(t, u)
    BY <1>1 DEF Creating
  <2> QED
    BY <1>1, <2>1, <2>3, <2>4, <2>5, <2>6, ClaimsKept DEF IInv, RInv
<1>14. LinksInv'
  <2>1. ASSUME NEW t \in Tokens, tok'[t].pc = "release"
        PROVE  tok[t].pc = "release" /\ hc'[tok'[t].hc].id = hc[tok[t].hc].id
    <3>1. tok'[t] = tok[t] /\ tok[t].hc \in Live
      BY <1>1, <2>1 DEF Live
    <3> QED
      BY <1>1, <1>2, <1>11, <2>1, <3>1
  <2>2. \A x \in Clients : hc'[x].status = FINISHED =>
                             hc[x].status = FINISHED /\ hc'[x].id = hc[x].id
    BY <1>10, <1>11
  <2> QED
    BY <1>1, <2>1, <2>2, LinksKept DEF IInv, RInv
<1>15. CountInv'
  <2>1. Past' = Past /\ Busy' = Busy
    BY <1>1, CalmTokens
  <2>2. IsFiniteSet(Live) /\ IsFiniteSet(Busy) /\ IsFiniteSet(Past)
    BY PastBusy, FS_Subset DEF RInv, CountInv
  <2>4. Cardinality(Live) \in Nat /\ Cardinality(Past) \in Nat
    BY <2>2, FS_CardinalityType
  <2>5. issue \in Nat /\ finish \in Nat /\ Overlap = 0 /\ Overlap' = 1
    BY <1>1 DEF IInv, TypeOK, Overlap
  <2>6. CASE F = {n}
    <3>1. IsFiniteSet(Live') /\ Cardinality(Live') = Cardinality(Live) + 1
      BY <1>2, <1>8, <2>2, <2>6, FS_AddElement
    <3>3. issue' = issue + 1
      BY <1>4, <2>6
    <3> QED
      BY <1>1, <2>1, <2>2, <2>4, <2>5, <3>1, <3>3 DEF RInv, CountInv
  <2>7. CASE F = {}
    <3>1. Live' = Live /\ issue' = issue
      BY <1>4, <1>8, <2>7
    <3> QED
      BY <1>1, <2>1, <2>2, <2>4, <2>5, <3>1 DEF RInv, CountInv
  <2> QED
    BY <2>6, <2>7
<1> QED
  BY <1>1, <1>13, <1>14, <1>15 DEF RInv, DownInv

(* The old request ends, and with it the overlap.                          *)
LEMMA RedirectEndsReq == ASSUME IInv, RInv, NEW c \in Clients, RedirectEnds(c) PROVE RInv'
<1> DEFINE s == hc[c].status
<1>1. /\ up /\ loop.hc = c /\ loop.followed /\ loop' = Idle /\ c # None
      /\ flight' = flight \ {c}
      /\ UNCHANGED <<up, tok, selected, urls, pages, pending, issue>>
  BY VoyagerAssumption DEF RedirectEnds, work, queue
<1>2. c \in flight /\ c \in Live /\ hc \in [Clients -> Client] /\ s \in Status
  BY <1>1 DEF IInv, TypeOK, StatusInv, Client, Live
<1>0. hc' = [hc EXCEPT ![c] = Done(@, s)] /\ FreeHC(c, s)
  BY <1>2 DEF RedirectEnds
<1>3. s \notin {UNCHECK, NoRow}
  <2>1. hc[c].uri /\ c \in Claimants
    BY <1>2 DEF IInv, LiveInv, Claimants
  <2> QED
    BY <1>2, <2>1 DEF RInv, ClaimInv, Status, NoRow, UNCHECK, FINISHED
<1>4. Live' = Live \ {c}
  BY <1>1, <1>2, FlightEnds
<1> HIDE DEF s
<1>5. /\ finish' = finish + 1
      /\ \A u \in Urls : row'[u] = IF u = hc[c].id THEN s ELSE row[u]
  BY <1>0, Freed
<1>6. \A x \in Clients : /\ hc'[x].id = hc[x].id /\ hc'[x].uri = hc[x].uri
                         /\ hc'[x].status = hc[x].status
  <2>1. \A x \in Clients : /\ hc'[x].id = hc[x].id /\ hc'[x].uri = hc[x].uri
                           /\ hc'[x].status = IF x = c THEN s ELSE hc[x].status
    BY <1>0, <1>2, DoneSet
  <2> QED
    BY <2>1 DEF s
<1>7. ClaimInv'
  <2>1. \A u \in Urls : Marked(u) => Marked(u)'
    BY <1>3, <1>5 DEF Marked
  <2>2. Live' \subseteq Claimants
    BY <1>4 DEF Claimants
  <2> QED
    BY <1>1, <1>6, <2>1, <2>2, CalmTokens, CalmClaims DEF RInv
<1>8. LinksInv'
  <2>1. \A v \in Tokens : tok[v].pc = "release" => tok[v].hc \in Clients
    BY DEF IInv, TokInv, Digesting
  <2>2. \A u \in Urls : /\ row[u] # NoRow => row'[u] # NoRow
                        /\ row'[u] = FINISHED =>
                             \/ row[u] = FINISHED
                             \/ \E x \in Clients : hc[x].status = FINISHED /\ hc[x].id = u
    BY <1>3, <1>5 DEF s
  <2> QED
    BY <1>1, <1>6, <2>1, <2>2, LinksKept DEF IInv, RInv
<1>9. CountInv'
  <2>1. Past' = Past /\ Busy' = Busy
    BY <1>1, CalmTokens
  <2>2. IsFiniteSet(Live) /\ IsFiniteSet(Busy) /\ IsFiniteSet(Past)
    BY PastBusy, FS_Subset DEF RInv, CountInv
  <2>3. IsFiniteSet(Live') /\ Cardinality(Live') = Cardinality(Live) - 1
    BY <1>2, <1>4, <2>2, FS_RemoveElement
  <2>4. Cardinality(Live) \in Nat /\ Cardinality(Past) \in Nat
    BY <2>2, FS_CardinalityType
  <2>5. /\ issue \in Nat /\ finish \in Nat /\ issue' = issue
        /\ Overlap = 1 /\ Overlap' = 0
    BY <1>1 DEF IInv, TypeOK, Overlap, Idle
  <2> QED
    BY <1>5, <2>1, <2>2, <2>3, <2>4, <2>5 DEF RInv, CountInv
<1> QED
  BY <1>1, <1>7, <1>8, <1>9 DEF RInv, DownInv

LEMMA RedirectDiesReq == ASSUME IInv, RInv, NEW c \in Clients, RedirectDies(c) PROVE RInv'
BY DieReq DEF RedirectDies

LEMMA CrashReq == ASSUME IInv, RInv, Crash PROVE RInv'
BY DieReq DEF Crash

LEMMA StutterReq == ASSUME IInv, RInv, UNCHANGED vars PROVE RInv'
<1>1. UNCHANGED <<row, up, hc, selected, urls, tok, flight, queue, pages, pending, loop, issue, finish>>
  BY DEF vars, work, queue, count
<1>2. /\ Live' = Live /\ Claimants' = Claimants /\ Busy' = Busy /\ Past' = Past
      /\ \A t \in Tokens : Tied(t)' = Tied(t)
      /\ \A t \in Tokens : \A u : Creating(t, u)' = Creating(t, u)
  BY <1>1, CollectFrame
<1>3. \A u \in Urls : Marked(u)' = Marked(u)
  BY <1>1 DEF Marked
<1>4. ClaimInv'
  BY <1>1, <1>2, CalmTokens, CalmClaims DEF RInv, Claimants, Marked
<1>5. LinksInv'
  BY <1>1, LinksKept DEF IInv, RInv
<1>6. CountInv'
  BY <1>1, <1>2, CountSame DEF RInv
<1> QED
  BY <1>1, <1>2, <1>4, <1>5, <1>6 DEF RInv, DownInv
-----------------------------------------------------------------------------
LEMMA NextReq == IInv /\ RInv /\ [Next]_vars => RInv'
<1> SUFFICES ASSUME IInv, RInv, [Next]_vars PROVE RInv'
  OBVIOUS
<1>1. CASE UNCHANGED vars
  BY <1>1, StutterReq
<1>2. CASE CollectSelect \/ CollectMark \/ GetPages \/ Crash \/ Restart
  BY <1>2, CollectSelectReq, CollectMarkReq, GetPagesReq, CrashReq, RestartReq
<1>3. ASSUME NEW t \in Tokens, TokenStep(t) PROVE RInv'
  BY <1>3, CollectTakeReq, LoadCreateReq, LoadStartReq, LoadMarkReq, LoadUpdateReq,
     TakePageReq, DigestProcessReq, DigestReleaseReq DEF TokenStep
<1>4. ASSUME NEW c \in Clients, EventLoop(c) PROVE RInv'
  BY <1>4, PageArrivesReq, RequestFailsReq, RedirectBeginsReq, RedirectFollowsReq,
     RedirectEndsReq, RedirectDiesReq DEF EventLoop
<1> QED
  BY <1>1, <1>2, <1>3, <1>4 DEF Next

(* The claims, the counters and the links of every reachable state, and    *)
(* that a process which is down holds no request and no record.            *)
THEOREM RequestSafety == Spec => [](IInv /\ RInv)
<1>1. Init => IInv /\ RInv
  BY InitInv, InitReq
<1>2. IInv /\ RInv /\ [Next]_vars => (IInv /\ RInv)'
  BY NextInv, NextReq
<1> QED
  BY <1>1, <1>2, PTL DEF Spec

(* No two live requests are for the same row: a url is not fetched twice   *)
(* at once, however the tokens, the callbacks and client reuse interleave. *)
THEOREM OneRequest == Spec => []OneRequestPerRow
<1>1. IInv /\ RInv => OneRequestPerRow
  <2> SUFFICES ASSUME IInv, RInv, NEW c \in Live, NEW d \in Live,
                      hc[c].id = hc[d].id, hc[c].id # None
               PROVE  c = d
    BY DEF OneRequestPerRow
  <2>1. c \in Claimants /\ d \in Claimants /\ c \in Clients
    BY LiveClients DEF Claimants, IInv
  <2>2. hc[c].id \in Urls
    BY <2>1 DEF IInv, TypeOK, Client
  <2> QED
    BY <2>1, <2>2 DEF RInv, ClaimInv
<1> QED
  BY <1>1, RequestSafety, PTL

(* getPendingRequest() is the number of live requests: the unsigned        *)
(* difference of the two counters never wraps.                             *)
THEOREM PendingExact == Spec => []PendingIsLive
<1>1. RInv => PendingIsLive
  BY DEF RInv, CountInv, PendingIsLive
<1> QED
  BY <1>1, RequestSafety, PTL

(* Live requests never outnumber the busy tokens, but for the one of a     *)
(* Location that is issued before the redirected request is finished.      *)
THEOREM LiveBounded == Spec => []LiveWithinTokens
<1>1. RInv => LiveWithinTokens
  <2> SUFFICES ASSUME RInv PROVE Cardinality(Live) <= Cardinality(Busy) + Overlap
    BY DEF LiveWithinTokens, Busy, Overlap
  <2>1. /\ IsFiniteSet(Live) /\ IsFiniteSet(Busy)
        /\ Cardinality(Live) <= Cardinality(Past) + Overlap
    BY DEF RInv, CountInv
  <2>2. IsFiniteSet(Past) /\ Cardinality(Past) <= Cardinality(Busy)
    BY <2>1, PastBusy, FS_Subset
  <2>3. /\ Cardinality(Live) \in Nat /\ Cardinality(Past) \in Nat /\ Cardinality(Busy) \in Nat
        /\ Overlap \in Nat
    BY <2>1, <2>2, FS_CardinalityType DEF Overlap
  <2> QED
    BY <2>1, <2>2, <2>3
<1> QED
  BY <1>1, RequestSafety, PTL

(* A FINISHED row's links are in the table, in every state and after every *)
(* crash.                                                                  *)
THEOREM LinksFirst == Spec => []FinishedHasLinks
<1>1. RInv => FinishedHasLinks
  BY VoyagerAssumption DEF RInv, LinksInv, Covered, FinishedHasLinks
<1> QED
  BY <1>1, RequestSafety, PTL
=============================================================================

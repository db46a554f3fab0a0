----------------------------- MODULE LogBuffers -----------------------------
(***************************************************************************)
(* The file logger of src/common: LogStream's bounded pool of buffers, the *)
(* threads that log through it (a CLogger per entry, a LogStream in it)    *)
(* and CFileLogger's writer thread.  A critical section of s_listMutex is  *)
(* one step; what a thread does to its own buffer is one step.             *)
(*                                                                         *)
(* Every thread logs the parts 1 .. Len(SizeOf), one operator<< each.  The *)
(* parts in Direct are those of the operators that print into the buffer   *)
(* themselves (numbers, pointers, endl); the others append a text.  An     *)
(* entry ends with an endl, a part in LastOf.  A buffer's text is the set  *)
(* of parts it holds.  The file is the sequence of texts written to it.    *)
(***************************************************************************)
EXTENDS Lists, FiniteSets

CONSTANTS
  Loggers,    \* threads that log
  Buffers,    \* the Buffer objects that can be allocated
  Own,        \* the one the CFileLogger's own stream keeps
  InitCount,  \* INIT_LOG_BUFFER_COUNT
  MaxCount,   \* MAX_LOG_BUFFER_COUNT
  Room,       \* LOG_BUFFER_SIZE
  Slack,      \* what append() asks for beyond the text (2)
  MinAvail,   \* MIN_AVAILABLE_SIZE, what the others ask for
  SizeOf,     \* the sizes of the parts
  Direct,     \* the parts printed into the buffer
  LastOf,     \* the parts that end an entry
  MayFail,    \* may the log file fail to open?
  MayStop,    \* is CFileLogger::stop called?
  None

Parts == Len(SizeOf)

ASSUME LogAssumption ==
  /\ IsFiniteSet(Loggers) /\ IsFiniteSet(Buffers) /\ Own \in Buffers
  /\ MaxCount <= Cardinality(Buffers)
  /\ InitCount \in Nat \ {0} /\ MaxCount \in Nat /\ InitCount <= MaxCount
  /\ Room \in Nat /\ Slack \in Nat /\ MinAvail \in Nat /\ MinAvail < Room - 1
  /\ SizeOf \in Seq(Nat \ {0}) /\ Direct \subseteq 1 .. Parts
  /\ \A p \in Direct : SizeOf[p] <= MinAvail   \* no double that is longer
  /\ LastOf \subseteq Direct /\ Parts \in LastOf
  /\ MayFail \in BOOLEAN /\ MayStop \in BOOLEAN
  /\ None \notin Buffers

VARIABLES
  free,       \* LogStream::s_bufferList
  saving,     \* LogStream::s_savingList
  count,      \* LogStream::s_buferCount
  buf,        \* the contents of the buffers
  pc,         \* where each logging thread is
  back,       \* where it goes when nextBuffer() returns
  cur,        \* its LogStream's m_curBuffer
  next,       \* the part it logs next
  wpc,        \* where the writer thread is
  batch,      \* saveBuffers' local list
  done,       \* how many of batch are written
  final,      \* the writer is in its last saveBuffers
  stop,       \* m_stop
  late,       \* threads that were not done logging when stop was called
  file        \* the texts written

list   == <<free, saving, count>>
thread == <<pc, back, cur, next>>
writer == <<wpc, batch, done, final, file>>
vars   == <<list, buf, thread, writer, stop, late>>
-----------------------------------------------------------------------------
Empty == [by |-> None, parts |-> {}, len |-> 0]

(* FixedBuffer::avail keeps a byte back.                                   *)
Avail(b) == Room - buf[b].len - 1

(* initStatic() and the CFileLogger, whose own stream holds a buffer.      *)
Init ==
  /\ free = CHOOSE first \in [1 .. (InitCount - 1) -> Buffers \ {Own}] :
                \A i, j \in DOMAIN first : first[i] = first[j] => i = j
  /\ saving = <<>> /\ count = InitCount
  /\ buf = [b \in Buffers |-> Empty]
  /\ pc = [l \in Loggers |-> "idle"] /\ back = [l \in Loggers |-> "check"]
  /\ cur = [l \in Loggers |-> None] /\ next = [l \in Loggers |-> 1]
  /\ wpc = "open" /\ batch = <<>> /\ done = 0 /\ final = FALSE /\ file = <<>>
  /\ stop = FALSE /\ late = {}

Held == {cur[l] : l \in Loggers} \ {None}
Allocated == IdsOf(free) \cup IdsOf(saving) \cup IdsOf(batch) \cup Held \cup {Own}
-----------------------------------------------------------------------------
(* LOG_..._STREAM: the constructor of LogStream calls nextBuffer().        *)
Begin(l) ==
  /\ pc[l] = "idle" /\ next[l] <= Parts
  /\ pc' = [pc EXCEPT ![l] = "take"]
  /\ back' = [back EXCEPT ![l] = "check"]
  /\ UNCHANGED <<list, buf, cur, next, writer, stop, late>>

(* The thread has buffer b and leaves nextBuffer().                        *)
Obtain(l, b) ==
  /\ cur' = [cur EXCEPT ![l] = b]
  /\ buf' = [buf EXCEPT ![b] = [Empty EXCEPT !.by = l]]
  /\ pc' = [pc EXCEPT ![l] = back[l]]

Pop(l) ==
  /\ free # <<>>
  /\ Obtain(l, free[Len(free)])
  /\ free' = SubSeq(free, 1, Len(free) - 1)
  /\ UNCHANGED count

(* Faulty: the count is not compared again.                                *)
AllocBug(l) ==
  /\ free = <<>> /\ count <= MaxCount
  /\ Buffers \ Allocated # {}
  /\ Obtain(l, CHOOSE b \in Buffers : b \notin Allocated)
  /\ count' = count + 1
  /\ UNCHANGED free

Alloc(l) ==
  /\ free = <<>> /\ count < MaxCount
  /\ Buffers \ Allocated # {}
  /\ Obtain(l, CHOOSE b \in Buffers : b \notin Allocated)
  /\ count' = count + 1
  /\ UNCHANGED free

(* nextBuffer() without a buffer: from the pool, from the heap up to the   *)
(* limit, or after a wait.  Which object the heap gives is immaterial.     *)
Take(l) ==
  /\ pc[l] = "take"
  /\ \/ Pop(l) \/ Alloc(l)
     \/ /\ free = <<>> /\ count >= MaxCount
        /\ pc' = [pc EXCEPT ![l] = "wait"]
        /\ UNCHANGED <<free, count, buf, cur>>
  /\ UNCHANGED <<saving, back, next, writer, stop, late>>

(* A condition variable may wake a thread for no reason.                   *)
Spurious(l) ==
  /\ pc[l] = "wait"
  /\ pc' = [pc EXCEPT ![l] = "take"]
  /\ UNCHANGED <<list, buf, back, cur, next, writer, stop, late>>

(* What operator<< asks checkBuffer() for: append() for the text and two   *)
(* bytes, the operators that print for MIN_AVAILABLE_SIZE.                 *)
Needs(p) == IF p \in Direct THEN MinAvail ELSE SizeOf[p] + Slack

(* Faulty: one byte more.                                                  *)
FitsBug(l) == Avail(cur[l]) > Needs(next[l]) + 1

(* checkBuffer(): is there room for the next part?                         *)
Fits(l) == Avail(cur[l]) > Needs(next[l])

Full(l) ==
  /\ pc[l] = "check" /\ ~Fits(l)
  /\ pc' = [pc EXCEPT ![l] = "flush"]
  /\ back' = [back EXCEPT ![l] = "append"]
  /\ UNCHANGED <<list, buf, cur, next, writer, stop, late>>

(* Faulty: the thread keeps its buffer, and goes on writing to it.         *)
FlushBug(l) ==
  /\ pc[l] = "flush"
  /\ saving' = Append(saving, cur[l])
  /\ pc' = [pc EXCEPT ![l] = "append"]
  /\ UNCHANGED <<free, count, buf, back, cur, next, writer, stop, late>>

(* flush() in nextBuffer().                                                *)
Flush(l) ==
  /\ pc[l] = "flush"
  /\ saving' = Append(saving, cur[l])
  /\ cur' = [cur EXCEPT ![l] = None]
  /\ pc' = [pc EXCEPT ![l] = "grab"]
  /\ UNCHANGED <<free, count, buf, back, next, writer, stop, late>>

(* nextBuffer() after its flush: the pool once, else as without a buffer.  *)
Grab(l) ==
  /\ pc[l] = "grab"
  /\ \/ Pop(l)
     \/ /\ free = <<>>
        /\ pc' = [pc EXCEPT ![l] = "take"]
        /\ UNCHANGED <<free, count, buf, cur>>
  /\ UNCHANGED <<saving, back, next, writer, stop, late>>

(* Faulty: FixedBuffer::append uses the byte that avail() keeps back.      *)
AddedBug(b, n) ==
  IF n \in Direct \/ Avail(b) >= SizeOf[n]
  THEN [buf[b] EXCEPT !.parts = @ \cup {n}, !.len = @ + SizeOf[n]]
  ELSE buf[b]

(* FixedBuffer::append drops what does not fit; add() takes all.           *)
Added(b, n) ==
  IF n \in Direct \/ Avail(b) > SizeOf[n]
  THEN [buf[b] EXCEPT !.parts = @ \cup {n}, !.len = @ + SizeOf[n]]
  ELSE buf[b]

(* operator<<: into the buffer it has, or the one nextBuffer() got it.     *)
Log(l) ==
  /\ \/ pc[l] = "append"
     \/ pc[l] = "check" /\ Fits(l)
  /\ buf' = [buf EXCEPT ![cur[l]] = Added(cur[l], next[l])]
  /\ next' = [next EXCEPT ![l] = @ + 1]
  /\ pc' = [pc EXCEPT ![l] = IF next[l] \in LastOf THEN "finish" ELSE "check"]
  /\ UNCHANGED <<list, back, cur, writer, stop, late>>

(* ~CLogger: Impl::finish flushes.                                         *)
Finish(l) ==
  /\ pc[l] = "finish"
  /\ saving' = Append(saving, cur[l])
  /\ cur' = [cur EXCEPT ![l] = None]
  /\ pc' = [pc EXCEPT ![l] = "idle"]
  /\ UNCHANGED <<free, count, buf, back, next, writer, stop, late>>
-----------------------------------------------------------------------------
(* CFileLogger::threadFunc.                                                *)
Open ==
  /\ wpc = "open"
  /\ \/ wpc' = "loop"
     \/ MayFail /\ wpc' = "failed"
  /\ UNCHANGED <<list, buf, thread, batch, done, final, file, stop, late>>

(* Faulty: no saveBuffers after the loop.                                  *)
LoopBug ==
  /\ wpc = "loop"
  /\ wpc' = IF stop THEN "closed" ELSE "swap"
  /\ UNCHANGED <<list, buf, thread, batch, done, final, file, stop, late>>

(* while (!m_stop), and the saveBuffers after the loop.                    *)
Loop ==
  /\ wpc = "loop"
  /\ final' = stop
  /\ wpc' = "swap"
  /\ UNCHANGED <<list, buf, thread, batch, done, file, stop, late>>

After == IF final THEN "closed" ELSE "loop"

(* Faulty: the buffers go back before they are written.                    *)
SwapBug ==
  /\ wpc = "swap"
  /\ batch' = saving /\ saving' = <<>> /\ done' = 0
  /\ free' = free \o saving
  /\ wpc' = IF saving = <<>> THEN After ELSE "write"
  /\ UNCHANGED <<count, buf, thread, final, file, stop, late>>

(* saveBuffers: take the whole list ...                                    *)
Swap ==
  /\ wpc = "swap"
  /\ batch' = saving /\ saving' = <<>> /\ done' = 0
  /\ wpc' = IF saving = <<>> THEN After ELSE "write"
  /\ UNCHANGED <<free, count, buf, thread, final, file, stop, late>>

TextOf(b) == [by |-> buf[b].by, parts |-> buf[b].parts]

(* ... write every text ...                                                *)
Write ==
  /\ wpc = "write" /\ done < Len(batch)
  /\ file' = Append(file, TextOf(batch[done + 1]))
  /\ done' = done + 1
  /\ UNCHANGED <<list, buf, thread, wpc, batch, final, stop, late>>

(* ... and give the buffers back (setBuffers); the notification comes      *)
(* after the lock is released.                                             *)
Return ==
  /\ wpc = "write" /\ done = Len(batch)
  /\ free' = free \o batch
  /\ wpc' = "notify"
  /\ UNCHANGED <<saving, count, buf, thread, batch, done, final, file, stop, late>>

Waiting == {l \in Loggers : pc[l] = "wait"}

(* Faulty: notify_one for any number of buffers.                           *)
NotifyBug ==
  /\ wpc = "notify"
  /\ \E W \in SUBSET Waiting :
       /\ Cardinality(W) <= 1 /\ (W = {} => Waiting = {})
       /\ pc' = [l \in Loggers |-> IF l \in W THEN "take" ELSE pc[l]]
  /\ batch' = <<>> /\ done' = 0
  /\ wpc' = After
  /\ UNCHANGED <<list, buf, back, cur, next, final, file, stop, late>>

(* Faulty: the buffers are given back and nobody is told.                  *)
NotifyNoneBug ==
  /\ wpc = "notify"
  /\ batch' = <<>> /\ done' = 0
  /\ wpc' = After
  /\ UNCHANGED <<list, buf, thread, final, file, stop, late>>

Notify ==
  /\ wpc = "notify"
  /\ \E W \in SUBSET Waiting :
       /\ IF Len(batch) > 1 THEN W = Waiting
          ELSE Cardinality(W) <= 1 /\ (W = {} => Waiting = {})
       /\ pc' = [l \in Loggers |-> IF l \in W THEN "take" ELSE pc[l]]
  /\ batch' = <<>> /\ done' = 0
  /\ wpc' = After
  /\ UNCHANGED <<list, buf, back, cur, next, final, file, stop, late>>

(* CFileLogger::stop, at any time.                                         *)
Stop ==
  /\ MayStop /\ ~stop
  /\ stop' = TRUE
  /\ late' = {l \in Loggers : pc[l] # "idle" \/ next[l] <= Parts}
  /\ UNCHANGED <<list, buf, thread, writer>>

LogStep(l) ==
  \/ Begin(l) \/ Take(l) \/ Full(l) \/ Flush(l) \/ Grab(l) \/ Log(l) \/ Finish(l)

WriterStep == Open \/ Loop \/ Swap \/ Write \/ Return \/ Notify

Next == WriterStep \/ Stop \/ \E l \in Loggers : LogStep(l) \/ Spurious(l)

Spec == Init /\ [][Next]_vars

(* Every thread runs; a waiting thread runs when it is notified.           *)
FairSpec == Spec /\ WF_vars(WriterStep) /\ \A l \in Loggers : WF_vars(LogStep(l))
-----------------------------------------------------------------------------
TypeOK ==
  /\ free \in Seq(Buffers) /\ saving \in Seq(Buffers) /\ batch \in Seq(Buffers)
  /\ count \in InitCount .. MaxCount
  /\ buf \in [Buffers -> [by : Loggers \cup {None}, parts : SUBSET (1 .. Parts), len : Nat]]
  /\ pc \in [Loggers -> {"idle", "take", "wait", "check", "flush", "grab", "append", "finish"}]
  /\ back \in [Loggers -> {"check", "append"}]
  /\ cur \in [Loggers -> Buffers \cup {None}]
  /\ next \in [Loggers -> 1 .. (Parts + 1)]
  /\ wpc \in {"open", "failed", "loop", "swap", "write", "notify", "closed"}
  /\ done \in 0 .. Len(batch)
  /\ final \in BOOLEAN /\ stop \in BOOLEAN /\ late \subseteq Loggers
  /\ file \in Seq([by : Loggers, parts : SUBSET (1 .. Parts)])

(* The writer's buffers, until it has given them back.                     *)
Writing == IF wpc = "notify" THEN <<>> ELSE batch

(* A buffer is in one place only: the pool, the saving list, the writer's  *)
(* list, one thread's stream or the CFileLogger's; s_buferCount counts     *)
(* them all.  A second holder would mix two threads' texts or change a     *)
(* text that is being written.                                             *)
OneHolder ==
  /\ NoRepeat(free \o saving \o Writing)
  /\ \A l \in Loggers : cur[l] # None =>
       /\ cur[l] \notin IdsOf(free \o saving \o Writing)
       /\ \A k \in Loggers : cur[k] = cur[l] => k = l
  /\ Own \notin IdsOf(free \o saving \o Writing) \cup Held
  /\ count = Len(free) + Len(saving) + Len(Writing) + Cardinality(Held) + 1

(* A thread waits on s_listCV with buffers in the pool only while enough   *)
(* threads are awake to take those buffers, or the writer is about to      *)
(* notify: no wakeup is lost.                                              *)
NoLostWakeup ==
  Waiting # {} /\ wpc # "notify" =>
    Len(free) <= Cardinality({l \in Loggers : pc[l] \in {"take", "grab"}})

(* The texts on their way, oldest first.                                   *)
Rest == SubSeq(Writing, done + 1, Len(Writing)) \o saving
Texts(s) == [i \in DOMAIN s |-> TextOf(s[i])]
Stream == file \o Texts(Rest)

(* The parts that a buffer takes, if only an empty one.                    *)
KeptParts == {p \in 1 .. Parts : p \in Direct \/ SizeOf[p] < Room - 1}

PartsOf(texts, l) == UNION {texts[i].parts : i \in {j \in DOMAIN texts : texts[j].by = l}}
InStream(l) == UNION {PartsOf(s, l) : s \in {Stream}}    \* Stream is computed once
InFile(l) == PartsOf(file, l)
InHand(l) == IF cur[l] = None THEN {} ELSE buf[cur[l]].parts

(* What a thread has logged is in the file, on its way to it or in its     *)
(* buffer, in the order it was logged, nothing lost and nothing twice,     *)
(* whatever the others and the writer do.                                  *)
NothingLost ==
  /\ \A l \in Loggers : InStream(l) \cup InHand(l) = {p \in KeptParts : p < next[l]}
  /\ \A l \in Loggers : \A p \in InStream(l), q \in InHand(l) : p < q
  /\ LET s == Stream IN
       \A i, j \in DOMAIN s : i < j /\ s[i].by = s[j].by =>
         \A p \in s[i].parts, q \in s[j].parts : p < q

(* The entry that part p belongs to, and the parts of those entries each   *)
(* of whose operators finds the room it asks for in one buffer.            *)
EntryOf(p) ==
  {q \in 1 .. Parts : ~ \E m \in LastOf : (p <= m /\ m < q) \/ (q <= m /\ m < p)}
SizeBefore[p \in Nat] == IF p <= 1 \/ p - 1 \in LastOf THEN 0
                         ELSE SizeBefore[p - 1] + SizeOf[p - 1]
ShortParts ==
  {p \in 1 .. Parts : \A q \in EntryOf(p) : Room - SizeBefore[q] - 1 > Needs(q)}
Short(p) == p \in ShortParts

(* An entry whose operators all find the room they ask for in an empty     *)
(* buffer is in one piece, so no other thread's text comes in the middle   *)
(* of it: log_test.cpp runs the log as a Lua program of whole Entry calls. *)
(* An entry that a buffer could hold, with less than MIN_AVAILABLE_SIZE to *)
(* spare when a number or its endl comes, is split.                        *)
ShortEntriesWhole ==
  LET s == Stream IN
    \A i \in DOMAIN s : \A p \in s[i].parts :
      Short(p) => EntryOf(p) \subseteq s[i].parts

(* Once the writer has ended, the file has all that a thread logged that   *)
(* was done before stop: log_test.cpp counts every entry.                  *)
SavedAfterStop ==
  wpc = "closed" => \A l \in Loggers \ late : InFile(l) = KeptParts

(* While the writer runs, every thread gets its buffers and logs to the    *)
(* end, and all of it reaches the file: the bounded pool deadlocks nobody. *)
EverythingSaved ==
  [](~stop /\ wpc # "failed") => <>(\A l \in Loggers : pc[l] = "idle" /\ InFile(l) = KeptParts)

LastIn == [S \in SUBSET (1 .. Parts) |-> CHOOSE n \in {0} \cup S : \A p \in S : p <= n]

(* The promise of LogChannel: what a thread has handed over is known by the *)
(* last part of it.                                                        *)
Channel == INSTANCE LogChannel WITH
  Kept  <- KeptParts,
  sent  <- [l \in Loggers |-> LastIn[InStream(l)]],
  queue <- Texts(Rest)

ImplementsChannel == Channel!Spec
=============================================================================

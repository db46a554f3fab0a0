------------------------------ MODULE UrlTrie -------------------------------
(***************************************************************************)
(* CUrlTrieTree of src/algorithm.  A node is named by the characters on    *)
(* the way to it.                                                          *)
(***************************************************************************)
EXTENDS Integers, Sequences, SequencesExt, FiniteSets, FiniteSetsExt

CONSTANTS
  Urls,       \* the urls, non-empty sequences of characters
  MaxFreq,    \* bound: how often a url is added
  MaxDrift    \* bound: how far m_urlCount falls

VARIABLES
  node,       \* the nodes below m_root: their nodeChar (0 or the character) and freq
  urlCount,   \* m_urlCount
  freqCount,  \* m_freqCount
  result,     \* what addUrl returned; after delUrl, what getUrlCount returns
  tidy        \* history: no clear(), no delUrl of a mere prefix

vars == <<node, urlCount, freqCount, result, tidy>>

(* What the proofs assume of the urls.                                     *)
Chars == UNION {Range(u) : u \in Urls}
Words == Seq(Chars) \ {<< >>}

UrlsOK == Urls \subseteq Words /\ IsFiniteSet(Urls)

Init ==
  /\ node = << >>
  /\ urlCount = 0 /\ freqCount = 0 /\ result = 0
  /\ tidy = TRUE

(* The way to a url, from character to character, which are ASCII: addNode *)
(* and findNode take the index of a child from a char, which is signed.    *)
Path(u) == {SubSeq(u, 1, i) : i \in 1 .. Len(u)}

(* findNode: the nodes above may have any nodeChar.                        *)
Found(n, u) == Path(u) \subseteq DOMAIN n /\ n[u].char = Last(u)

GetUrlCount(n, u) == IF Found(n, u) THEN n[u].freq ELSE 0

(* Faulty: nodes that exist keep their nodeChar.                           *)
GrownBug(u) ==
  [p \in DOMAIN node \cup Path(u) |->
     [char |-> IF p \in Path(u) \ DOMAIN node THEN Last(p) ELSE node[p].char,
      freq |-> (IF p \in DOMAIN node THEN node[p].freq ELSE 0) + (IF p = u THEN 1 ELSE 0)]]

(* addNode sets nodeChar on the whole way.                                 *)
Grown(u) ==
  [p \in DOMAIN node \cup Path(u) |->
     [char |-> IF p \in Path(u) THEN Last(p) ELSE node[p].char,
      freq |-> (IF p \in DOMAIN node THEN node[p].freq ELSE 0) + (IF p = u THEN 1 ELSE 0)]]

AddUrl(u) ==
  /\ GetUrlCount(node, u) < MaxFreq
  /\ node' = Grown(u)
  /\ urlCount' = urlCount + (IF node'[u].freq = 1 THEN 1 ELSE 0)
  /\ freqCount' = freqCount + 1
  /\ result' = node'[u].freq
  /\ UNCHANGED tidy

(* A url that is only the beginning of another one is found as well.       *)
DelUrl(u) ==
  /\ urlCount > -MaxDrift
  /\ IF Found(node, u)
     THEN /\ node' = [node EXCEPT ![u] = [char |-> 0, freq |-> 0]]
          /\ freqCount' = freqCount - node[u].freq
          /\ urlCount' = urlCount - 1
          /\ tidy' = (tidy /\ node[u].freq > 0)
     ELSE UNCHANGED <<node, urlCount, freqCount, tidy>>
  /\ result' = GetUrlCount(node', u)

(* clear() keeps both counts.                                              *)
Clear ==
  /\ tidy
  /\ node' = << >> /\ tidy' = FALSE
  /\ UNCHANGED <<urlCount, freqCount, result>>

Next == (\E u \in Urls : AddUrl(u) \/ DelUrl(u)) \/ Clear

Spec == Init /\ [][Next]_vars
-----------------------------------------------------------------------------
(* getAllUrlCount() and getAllFreqCount() count the urls in the tree, as   *)
(* long as clear() is not called and delUrl only deletes urls that are     *)
(* there or neither there nor the beginning of another one.                *)
CountsAgree ==
  tidy => /\ urlCount = Cardinality({u \in Urls : GetUrlCount(node, u) > 0})
          /\ freqCount = MapThenSumSet(LAMBDA u : GetUrlCount(node, u), Urls)

(* A url counts as often as it was added since it was deleted, however     *)
(* many urls begin or continue it.                                         *)
Bag == INSTANCE Multiset WITH
  Keys <- Urls, Missing <- 0, Answer <- LAMBDA n : 0,
  freq <- [u \in Urls |-> GetUrlCount(node, u)]

ImplementsBag == Bag!Spec
=============================================================================

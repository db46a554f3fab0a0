----------------------------- MODULE Containers -----------------------------
(***************************************************************************)
(* One container of src/algorithm at a time, under every sequence of calls.*)
(* The objects know nothing of each other: which one is used is chosen at  *)
(* the start.                                                              *)
(***************************************************************************)
EXTENDS Integers

CONSTANTS
  Keys, Buckets, Bucket(_), MaxFreq, MaxHeight, None,   \* tree and hash map
  Urls, MaxDrift,                                       \* trie
  Values, HeapSize, ArraySize, MaxGiven                 \* heaps and array

VARIABLES
  subject,
  tree, treeNodes, treeFreq, treeResult, grown,
  head, next, count, hashNodes, hashResult,
  node, urlCount, urlFreq, trieResult, tidy,
  heap, heapNodes, top, sel, heapGiven, order,
  array, arrayNodes, arrayGiven, sorted

Tree == INSTANCE SearchTree WITH
  nodesCount <- treeNodes, freqCount <- treeFreq, result <- treeResult
Hash == INSTANCE HashMap WITH MaxCount <- MaxFreq, nodesCount <- hashNodes, result <- hashResult
Trie == INSTANCE UrlTrie WITH freqCount <- urlFreq, result <- trieResult
Heap == INSTANCE Heap WITH
  SIZE <- HeapSize, nodes <- heap, nodesCount <- heapNodes, given <- heapGiven
Array == INSTANCE SortArray WITH
  SIZE <- ArraySize, nodes <- array, nodesCount <- arrayNodes, given <- arrayGiven

(* No key is NULL, every key has a bucket; the keys of the tree are        *)
(* integers; the urls are non-empty; a heap has room for a node, and what  *)
(* heaps and array hold are integers.                                      *)
ASSUME TreeAssumption == Tree!KeysOK
ASSUME KeysAssumption == Hash!KeysOK
ASSUME UrlsAssumption == Trie!UrlsOK
ASSUME HeapAssumption == Heap!HeapOK
ASSUME ArrayAssumption == Array!ArrayOK

treeVars == <<tree, treeNodes, treeFreq, treeResult, grown>>
hashVars == <<head, next, count, hashNodes, hashResult>>
trieVars == <<node, urlCount, urlFreq, trieResult, tidy>>
heapVars == <<heap, heapNodes, top, sel, heapGiven, order>>
arrayVars == <<array, arrayNodes, arrayGiven, sorted>>
vars == <<subject, treeVars, hashVars, trieVars, heapVars, arrayVars>>

Init ==
  /\ subject \in {"tree", "hash", "trie", "heap", "array"}
  /\ Tree!Init /\ Hash!Init /\ Trie!Init
  /\ \E isTop \in BOOLEAN : Heap!InitWith(isTop) /\ (subject # "heap" => ~isTop)
  /\ \E memory \in Array!Memory :
       /\ Array!InitWith(memory)
       /\ subject # "array" => \A i \in DOMAIN memory : memory[i] = 1

UseTree ==
  /\ subject = "tree" /\ Tree!Next
  /\ UNCHANGED <<subject, hashVars, trieVars, heapVars, arrayVars>>

UseHash ==
  /\ subject = "hash" /\ Hash!Next
  /\ UNCHANGED <<subject, treeVars, trieVars, heapVars, arrayVars>>

UseTrie ==
  /\ subject = "trie" /\ Trie!Next
  /\ UNCHANGED <<subject, treeVars, hashVars, heapVars, arrayVars>>

UseHeap ==
  /\ subject = "heap" /\ Heap!Next
  /\ UNCHANGED <<subject, treeVars, hashVars, trieVars, arrayVars>>

UseArray ==
  /\ subject = "array" /\ Array!Next
  /\ UNCHANGED <<subject, treeVars, hashVars, trieVars, heapVars>>

Next == UseTree \/ UseHash \/ UseTrie \/ UseHeap \/ UseArray

Spec == Init /\ [][Next]_vars
-----------------------------------------------------------------------------
(* removeValue and adjust walk the parent links of CBSTree.                *)
LinksAgree == Tree!LinksAgree

(* CBSTree::adjust keeps the exact heights although it stops early, as     *)
(* long as nothing was removed (grown): removeValue leaves them alone.     *)
HeightsExact == Tree!HeightsExact

(* What getNodeCount(), getFreqCount(), getNodesCount(), getAllUrlCount()  *)
(* and getAllFreqCount() return agrees with the nodes there are: in tree   *)
(* and hash map after any mix of deletions, in the trie as long as neither *)
(* clear() nor the deletion of a mere beginning of a url came (tidy).      *)
CountsAgree == Tree!CountsAgree /\ Hash!CountsAgree /\ Trie!CountsAgree

(* CBSTree, CHashMap and CUrlTrieTree implement the multiset.              *)
ImplementsBag == Tree!ImplementsBag /\ Hash!ImplementsBag /\ Trie!ImplementsBag

(* CHeap, CTopNHeap and CSortArray are in the order the last call promised,*)
(* and a selection narrows its range round the place it looks for.         *)
Ordered == Heap!Ordered /\ Array!Ordered

(* CHeap and CSortArray hold what they were given, CTopNHeap the largest.  *)
Holds == Heap!Holds /\ Array!Holds

(* CSortArray::cycle and shift move every value as far as they are told.   *)
Moves == [][Array!Moves]_arrayVars
=============================================================================

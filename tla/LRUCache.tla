------------------------------ MODULE LRUCache ------------------------------
(***************************************************************************)
(* The built-in cache: a doubly linked list of entries, most recently used *)
(* first, and an index from keys to list elements, under one mutex.        *)
(* Results are heap objects that their holders may rewrite at any time, so *)
(* that a missing Clone would show; memory that nothing refers to is free. *)
(***************************************************************************)
EXTENDS Integers, Sequences, FiniteSets, SequencesExt

CONSTANTS Keys,
          Contents,    \* what a CallResult may hold
          size,        \* WithCacheSize, positive
          MaxTTL,      \* bound on the ttl of a Set
          MaxHeld,     \* bound on the results callers hold
          MaxTime      \* bound on the clock

ASSUME LRUCacheAssumption ==
    /\ {size, MaxTTL, MaxHeld} \subseteq Nat \ {0}
    /\ MaxTime \in Nat

VARIABLES
    now,
    list,     \* sequence of elements, front first
    index,    \* from some keys to elements
    elem,     \* lruEntry of every element in use
    heap,     \* content of every result object in use
    held,     \* objects that callers hold
    reply,    \* the operation that has just been done, and its result
    since     \* history: <<j, k>> if j was used since the last use of k

vars == <<now, list, index, elem, heap, held, reply, since>>

Elements == 1..(size + 1)
Objects == 1..(size + MaxHeld + 2)
None == [op |-> "none", key |-> "none", content |-> "none"]

Init ==
    /\ now = 0
    /\ list = <<>>
    /\ index = <<>>
    /\ elem = <<>>
    /\ heap = <<>>
    /\ held = {}
    /\ reply = None
    /\ since = {}

LiveElements == Range(list) \cup {index[k] : k \in DOMAIN index}
LiveObjects == held \cup {elem[e].value : e \in LiveElements}
newElement == CHOOSE e \in Elements : e \notin LiveElements
newObject == CHOOSE o \in Objects : o \notin LiveObjects

\* Entry e becomes x, object o gets content c; what is not in use is collected.
writeEntry(e, x) == elem' = [i \in LiveElements' |-> IF i = e THEN x ELSE elem[i]]
writeObject(o, c) == heap' = [i \in LiveObjects' |-> IF i = o THEN c ELSE heap[i]]
collect ==
    /\ elem' = [i \in LiveElements' |-> elem[i]]
    /\ heap' = [i \in LiveObjects' |-> heap[i]]

\* Variant: the same object is handed on.
CloneShared(o) == o

\* (*CallResult).Clone allocates; its caller copies the content.
Clone(o) == newObject

use(k) == since' = {p \in since : p[2] # k} \cup ({k} \X (Keys \ {k}))

\* Variant: used elements stay where they are.
MoveToFrontNot(e) == list

MoveToFront(e) == <<e>> \o RemoveFirst(list, e)

-----------------------------------------------------------------------------
(* Callers: produce a result, rewrite one they hold, forget one. *)

Produce(c) ==
    /\ Cardinality(held) < MaxHeld
    /\ held' = held \cup {newObject}
    /\ UNCHANGED <<now, list, index, elem, since>>
    /\ writeObject(newObject, c)
    /\ reply' = None

Rewrite(o, c) ==
    /\ o \in held
    /\ UNCHANGED <<now, list, index, elem, held, since>>
    /\ writeObject(o, c)
    /\ reply' = None

Drop(o) ==
    /\ o \in held
    /\ held' = held \ {o}
    /\ UNCHANGED <<now, list, index, since>>
    /\ collect
    /\ reply' = None

Tick ==
    /\ now < MaxTime
    /\ now' = now + 1
    /\ reply' = None
    /\ UNCHANGED <<list, index, elem, heap, held, since>>

-----------------------------------------------------------------------------
(* Get *)

GetMisses(k) ==
    /\ k \notin DOMAIN index
    /\ reply' = [op |-> "miss", key |-> k, content |-> "none"]
    /\ UNCHANGED <<now, list, index, elem, heap, held, since>>

GetExpires(k) ==
    /\ k \in DOMAIN index
    /\ now > elem[index[k]].expiresAt
    /\ list' = RemoveFirst(list, index[k])
    /\ index' = [j \in DOMAIN index \ {k} |-> index[j]]
    /\ UNCHANGED <<now, held, since>>
    /\ collect
    /\ reply' = [op |-> "miss", key |-> k, content |-> "none"]

GetHits(k) ==
    /\ k \in DOMAIN index
    /\ now <= elem[index[k]].expiresAt
    /\ Cardinality(held) < MaxHeld
    /\ list' = MoveToFront(index[k])
    /\ LET o == elem[index[k]].value
           copy == Clone(o)
       IN  /\ held' = held \cup {copy}
           /\ UNCHANGED <<now, index, elem>>
           /\ writeObject(copy, heap[o])
           /\ reply' = [op |-> "hit", key |-> k, content |-> heap[o]]
    /\ use(k)

Get(k) == GetMisses(k) \/ GetExpires(k) \/ GetHits(k)

-----------------------------------------------------------------------------
(* Set, with a result and a positive ttl; otherwise it does nothing. *)

entry(k, o, ttl) == [key |-> k, value |-> Clone(o), expiresAt |-> now + ttl]

SetUpdates(k, o, ttl) ==
    /\ k \in DOMAIN index
    /\ list' = MoveToFront(index[k])
    /\ UNCHANGED <<now, index, held>>
    /\ writeEntry(index[k], entry(k, o, ttl))
    /\ writeObject(Clone(o), heap[o])
    /\ use(k)
    /\ reply' = [op |-> "set", key |-> k, content |-> heap[o]]

\* c.list.Len() > c.size
overfull(l) == Len(l) > size

\* Variant: the list loses the last element, the index does not.
evictedNone(l) == {}

\* The key that is deleted from the index with the back of the list.
evicted(l) == IF overfull(l) THEN {elem[Last(l)].key} ELSE {}

\* A new entry goes to the front; one too many and the back is removed.
SetInserts(k, o, ttl) ==
    LET e == newElement
        pushed == <<e>> \o list
    IN  /\ k \notin DOMAIN index
        /\ list' = IF overfull(pushed) THEN Front(pushed) ELSE pushed
        /\ index' = [j \in (DOMAIN index \cup {k}) \ evicted(pushed) |->
                        IF j = k THEN e ELSE index[j]]
        /\ UNCHANGED <<now, held>>
        /\ writeEntry(e, entry(k, o, ttl))
        /\ writeObject(Clone(o), heap[o])
        /\ use(k)
        /\ reply' = [op |-> "set", key |-> k, content |-> heap[o]]

Set(k) == \E o \in held, ttl \in 1..MaxTTL : SetUpdates(k, o, ttl) \/ SetInserts(k, o, ttl)

Next ==
    \/ \E k \in Keys : Get(k) \/ Set(k)
    \/ \E c \in Contents : Produce(c)
    \/ \E o \in held : Drop(o) \/ \E c \in Contents : Rewrite(o, c)
    \/ Tick

Spec == Init /\ [][Next]_vars

-----------------------------------------------------------------------------
(* Properties *)

\* The list and the index hold the same entries, each once and never more than
\* size: nothing is leaked, and nothing that was evicted stays reachable.
IndexMatchesList ==
    /\ Len(list) <= size
    /\ IsInjective(list)
    /\ \A k \in DOMAIN index : index[k] \in Range(list) /\ elem[index[k]].key = k
    /\ \A e \in Range(list) : elem[e].key \in DOMAIN index /\ index[elem[e].key] = e

\* The list is in order of last use, so that what Set evicts is the entry
\* that was not used for longest.
OrderedByUse ==
    \A i, j \in DOMAIN list :
        i < j => <<elem[list[i]].key, elem[list[j]].key>> \in since

Contract == INSTANCE ResponseCache WITH
    clock <- now,
    stored <- [k \in DOMAIN index |-> [content |-> heap[elem[index[k]].value],
                                       until |-> elem[index[k]].expiresAt]]

\* The cache is the map the Cache interface describes, whatever callers do
\* to the results they passed to Set or got from Get.
ImplementsResponseCache == Contract!Spec
=============================================================================

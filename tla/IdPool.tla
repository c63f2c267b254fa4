------------------------------- MODULE IdPool -------------------------------
(***************************************************************************)
(* The template IdPool of idpool.h: SIZE entries, a circular buffer        *)
(* (CircBuf) of the free ones and a bitset of those in use.  An entry's    *)
(* public identifier is its index or'ed with a bank chosen at random when  *)
(* the pool is built.  The default build defines NDEBUG: the asserts are   *)
(* compiled out and guard nothing here.                                    *)
(***************************************************************************)
EXTENDS Integers, FiniteSets

CONSTANTS SIZE,       \* entries of the pool, a power of two
          IdSpace     \* number of raw identifiers (2^16 in the code)

ASSUME SizeAssumption == SIZE \in Nat \ {0}
ASSUME SpaceAssumption == IdSpace \in Nat /\ IdSpace % (2 * SIZE) = 0

Entries == 0..(SIZE - 1)
RawIds  == 0..(IdSpace - 1)

VARIABLES item, nItems, head,     \* CircBuf freeList
          inUse,                  \* the bitset, as a set of entries
          maxActive,              \* maxActiveIdCount_
          bank                    \* upper bits of every identifier

vars == <<item, nItems, head, inUse, maxActive, bank>>

(* A mutant: the bit of weight SIZE may be clear. *)
BanksWithZero == {b \in RawIds : b % SIZE = 0}

(***************************************************************************)
(* bankGen: random bits above the index, with the bit of weight SIZE set.  *)
(***************************************************************************)
Banks == {b \in RawIds : b % SIZE = 0 /\ (b \div SIZE) % 2 = 1}

Slot(k) == (head + k) % SIZE      \* where the k-th free entry is kept

ActiveIdCount == SIZE - nItems

(***************************************************************************)
(* Index and bank have no bit in common, so `|' is `+'.                    *)
(***************************************************************************)
Id(e) == e + bank
IdToIndex(id) == id % SIZE
Found(id) == Id(IdToIndex(id)) = id /\ IdToIndex(id) \in inUse

Init ==
    /\ item = [k \in Entries |-> k]
    /\ nItems = SIZE
    /\ head = 0
    /\ inUse = {}
    /\ maxActive = 0
    /\ bank \in Banks

(* A mutant: the list may be empty. *)
AllocUnguarded ==
    /\ inUse' = inUse \cup {item[head]}
    /\ head' = (head + 1) % SIZE
    /\ nItems' = nItems - 1
    /\ maxActive' = IF maxActive < SIZE - nItems' THEN SIZE - nItems' ELSE maxActive
    /\ UNCHANGED <<item, bank>>

Alloc ==
    /\ nItems > 0
    /\ inUse' = inUse \cup {item[head]}
    /\ head' = (head + 1) % SIZE
    /\ nItems' = nItems - 1
    /\ maxActive' = IF maxActive < SIZE - nItems' THEN SIZE - nItems' ELSE maxActive
    /\ UNCHANGED <<item, bank>>

AllocFails ==                     \* std::bad_alloc
    /\ nItems = 0
    /\ UNCHANGED vars

(* Mutants: the entry is stored one slot early, or put back in front. *)
ReleaseEarly(e) ==
    /\ item' = [item EXCEPT ![(head + nItems + SIZE - 1) % SIZE] = e]
    /\ nItems' = nItems + 1
    /\ inUse' = inUse \ {e}
    /\ UNCHANGED <<head, maxActive, bank>>

ReleaseFirst(e) ==
    /\ head' = (head + SIZE - 1) % SIZE
    /\ item' = [item EXCEPT ![head'] = e]
    /\ nItems' = nItems + 1
    /\ inUse' = inUse \ {e}
    /\ UNCHANGED <<maxActive, bank>>

(***************************************************************************)
(* release() only logs the release of an unused entry, and pushes it all   *)
(* the same; the two tables release an entry they have just found in use.  *)
(***************************************************************************)
Release(e) ==
    /\ item' = [item EXCEPT ![Slot(nItems)] = e]
    /\ nItems' = nItems + 1
    /\ inUse' = inUse \ {e}
    /\ UNCHANGED <<head, maxActive, bank>>

Next ==
    \/ Alloc
    \/ AllocFails
    \/ \E e \in inUse : Release(e)

Spec == Init /\ [][Next]_vars

-----------------------------------------------------------------------------
TypeOK ==
    /\ item \in [Entries -> Entries]
    /\ nItems \in 0..SIZE
    /\ head \in Entries
    /\ inUse \subseteq Entries
    /\ maxActive \in 0..SIZE
    /\ bank \in Banks

(***************************************************************************)
(* The circular buffer holds each entry that is not in use exactly once:   *)
(* alloc can never hand out an entry somebody owns, and no entry is lost,  *)
(* however allocations and releases wrap around the buffer.                *)
(***************************************************************************)
FreeListExact ==
    /\ \A k \in 0..(nItems - 1) : item[Slot(k)] \notin inUse
    /\ \A k, l \in 0..(nItems - 1) : item[Slot(k)] = item[Slot(l)] => k = l
    /\ Cardinality(inUse) = ActiveIdCount

(***************************************************************************)
(* The zero identifier, which AcnetTask::sendDataToClient takes from the   *)
(* status field of an ordinary USM, never names an entry; any other        *)
(* identifier names at most the entry it was made from.                    *)
(***************************************************************************)
LookupIsExact ==
    /\ ~Found(0)
    /\ \A id \in RawIds : Found(id) => \E e \in inUse : id = Id(e)
    /\ \A e \in inUse : Found(Id(e))

(***************************************************************************)
(* The circular buffer implements the abstract first-in first-out pool.    *)
(***************************************************************************)
FreeQueue == [k \in 1..nItems |-> item[Slot(k - 1)]]

Abstract == INSTANCE IdPoolSpec WITH free <- FreeQueue, used <- inUse

Implements == Abstract!Spec
=============================================================================

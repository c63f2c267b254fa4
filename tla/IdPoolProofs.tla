---------------------------- MODULE IdPoolProofs ----------------------------
(***************************************************************************)
(* The pool of identifiers is sound for every size, and implements the     *)
(* abstract first-in first-out pool.                                       *)
(***************************************************************************)
EXTENDS IdPool, FiniteSetTheorems, SequenceTheorems, TLAPS

IInv == TypeOK /\ FreeListExact

-----------------------------------------------------------------------------
(* The slots of the circular buffer. *)

(***************************************************************************)
(* The remainder of a number below twice the modulus.                      *)
(***************************************************************************)
LEMMA ModOnce ==
    ASSUME NEW S \in Nat \ {0}, NEW a \in Nat, a < 2 * S
    PROVE  (a < S => a % S = a) /\ (a >= S => a % S = a - S)
BY SMT

LEMMA SlotValue ==
    ASSUME TypeOK, NEW k \in 0..SIZE
    PROVE  /\ head + k < SIZE => Slot(k) = head + k
           /\ head + k >= SIZE => Slot(k) = head + k - SIZE
<1>1. SIZE \in Nat \ {0} /\ head \in Nat /\ head < SIZE
    BY SizeAssumption DEF TypeOK, Entries
<1> DEFINE a == head + k
<1>2. a \in Nat /\ a < 2 * SIZE
    BY <1>1
<1>3. Slot(k) = a % SIZE
    BY DEF Slot
<1> HIDE DEF a
<1>4. (a < SIZE => a % SIZE = a) /\ (a >= SIZE => a % SIZE = a - SIZE)
    BY <1>1, <1>2, ModOnce
<1>5. (a < SIZE => Slot(k) = a) /\ (a >= SIZE => Slot(k) = a - SIZE)
    BY <1>3, <1>4
<1> QED
    BY <1>1, <1>5 DEF a

(***************************************************************************)
(* Each position below SIZE has a slot of its own.                         *)
(***************************************************************************)
LEMMA SlotsDistinct ==
    ASSUME TypeOK, NEW k \in 0..(SIZE - 1), NEW l \in 0..(SIZE - 1)
    PROVE  /\ Slot(k) \in Entries
           /\ Slot(k) = Slot(l) => k = l
<1>1. SIZE \in Nat \ {0} /\ head \in Nat /\ head < SIZE
    BY SizeAssumption DEF TypeOK, Entries
<1>2. k \in 0..SIZE /\ l \in 0..SIZE
    BY <1>1
<1>3. /\ head + k < SIZE => Slot(k) = head + k
      /\ head + k >= SIZE => Slot(k) = head + k - SIZE
      /\ head + l < SIZE => Slot(l) = head + l
      /\ head + l >= SIZE => Slot(l) = head + l - SIZE
    BY <1>2, SlotValue
<1> QED
    BY <1>1, <1>3 DEF Entries

(***************************************************************************)
(* Taking the first free entry renumbers the others.                       *)
(***************************************************************************)
LEMMA SlotsShift ==
    ASSUME TypeOK, head' = (head + 1) % SIZE, NEW k \in 0..(SIZE - 1)
    PROVE  /\ head' \in Entries
           /\ Slot(0) = head
           /\ Slot(k)' = Slot(k + 1)
<1>1. SIZE \in Nat \ {0} /\ head \in Nat /\ head < SIZE
    BY SizeAssumption DEF TypeOK, Entries
<1>2. 0 \in 0..SIZE /\ 1 \in 0..SIZE /\ k + 1 \in 0..SIZE
    BY <1>1
<1>3. Slot(0) = head
    BY <1>1, <1>2, SlotValue
<1>4. head' = Slot(1)
    BY DEF Slot
<1>5. /\ head + 1 < SIZE => head' = head + 1
      /\ head + 1 >= SIZE => head' = head + 1 - SIZE
    BY <1>2, <1>4, SlotValue
<1>6. head' \in Entries
    BY <1>1, <1>5 DEF Entries
<1>7. /\ head + (k + 1) < SIZE => Slot(k + 1) = head + (k + 1)
      /\ head + (k + 1) >= SIZE => Slot(k + 1) = head + (k + 1) - SIZE
    BY <1>2, SlotValue
<1> DEFINE a == head' + k
<1>8. a \in Nat /\ a < 2 * SIZE
    BY <1>1, <1>6 DEF Entries
<1>9. Slot(k)' = a % SIZE
    BY DEF Slot
<1> HIDE DEF a
<1>10. (a < SIZE => a % SIZE = a) /\ (a >= SIZE => a % SIZE = a - SIZE)
    BY <1>1, <1>8, ModOnce
<1>11. Slot(k)' = Slot(k + 1)
    BY <1>1, <1>5, <1>6, <1>7, <1>9, <1>10 DEF Entries, a
<1> QED
    BY <1>3, <1>6, <1>11

-----------------------------------------------------------------------------
LEMMA InitEstablishes ==
    Init => IInv
<1> SUFFICES ASSUME Init
             PROVE  IInv
    OBVIOUS
<1>1. SIZE \in Nat \ {0}
    BY SizeAssumption
<1>2. TypeOK
    BY <1>1 DEF Init, TypeOK, Entries
<1>3. ASSUME NEW k \in 0..(nItems - 1)
      PROVE  Slot(k) = k /\ item[Slot(k)] = k
    <2>1. k \in 0..SIZE /\ head + k < SIZE /\ head + k = k /\ k \in Entries
        BY <1>1 DEF Init, Entries
    <2>2. Slot(k) = k
        BY <1>2, <2>1, SlotValue
    <2> QED
        BY <2>1, <2>2 DEF Init
<1>4. Cardinality(inUse) = ActiveIdCount
    BY <1>1, FS_EmptySet DEF Init, ActiveIdCount
<1>5. inUse = {}
    BY DEF Init
<1> QED
    BY <1>2, <1>3, <1>4, <1>5 DEF IInv, FreeListExact

LEMMA UsedIsFinite ==
    ASSUME TypeOK
    PROVE  IsFiniteSet(inUse)
<1>1. IsFiniteSet(0..(SIZE - 1))
    BY SizeAssumption, FS_Interval
<1> QED
    BY <1>1, FS_Subset DEF TypeOK, Entries

LEMMA AllocStep ==
    ASSUME IInv, Alloc
    PROVE  IInv'
<1>1. /\ SIZE \in Nat \ {0} /\ nItems \in 1..SIZE
      /\ nItems' = nItems - 1 /\ item' = item /\ bank' = bank
    BY SizeAssumption DEF Alloc, IInv, TypeOK
<1>2. /\ head' \in Entries /\ Slot(0) = head
      /\ \A k \in 0..(SIZE - 1) : Slot(k)' = Slot(k + 1)
    <2>1. 0 \in 0..(SIZE - 1)
        BY <1>1
    <2> QED
        BY <2>1, SlotsShift DEF IInv, Alloc
<1>3. item[head] \in Entries /\ item[head] \notin inUse
    <2>1. 0 \in 0..(nItems - 1) /\ head \in Entries
        BY <1>1 DEF IInv, TypeOK
    <2> QED
        BY <1>2, <2>1 DEF IInv, TypeOK, FreeListExact
<1>4. TypeOK'
    <2>1. nItems' \in 0..SIZE /\ maxActive' \in 0..SIZE
        BY <1>1 DEF Alloc, IInv, TypeOK
    <2>2. inUse' \subseteq Entries /\ item' \in [Entries -> Entries] /\ bank' \in Banks
        BY <1>1, <1>3 DEF Alloc, IInv, TypeOK
    <2> QED
        BY <1>2, <2>1, <2>2 DEF TypeOK
<1>5. \A k \in 0..(nItems' - 1) :
        /\ k \in 0..(SIZE - 1) /\ k + 1 \in 0..(nItems - 1) /\ 0 \in 0..(nItems - 1)
        /\ k + 1 # 0 /\ item'[Slot(k)'] = item[Slot(k + 1)]
    BY <1>1, <1>2
<1>6. \A k \in 0..(nItems' - 1) : item'[Slot(k)'] \notin inUse'
    BY <1>2, <1>5 DEF Alloc, IInv, FreeListExact
<1>7. \A k, l \in 0..(nItems' - 1) : item'[Slot(k)'] = item'[Slot(l)'] => k = l
    BY <1>1, <1>5 DEF IInv, FreeListExact
<1>8. Cardinality(inUse') = SIZE - nItems'
    <2>1. Cardinality(inUse') = Cardinality(inUse) + 1
        BY <1>3, UsedIsFinite, FS_AddElement DEF Alloc, IInv
    <2> QED
        BY <1>1, <2>1 DEF IInv, FreeListExact, ActiveIdCount
<1> QED
    BY <1>4, <1>6, <1>7, <1>8 DEF IInv, FreeListExact, ActiveIdCount

LEMMA ReleaseStep ==
    ASSUME IInv, NEW e \in inUse, Release(e)
    PROVE  IInv'
<1>1. /\ SIZE \in Nat \ {0} /\ nItems \in 0..SIZE /\ e \in Entries
      /\ nItems' = nItems + 1 /\ head' = head /\ bank' = bank
    BY SizeAssumption DEF Release, IInv, TypeOK
<1>2. /\ Cardinality(inUse) = SIZE - nItems
      /\ Cardinality(inUse \ {e}) = Cardinality(inUse) - 1
      /\ Cardinality(inUse \ {e}) \in Nat
    <2>1. IsFiniteSet(inUse) /\ IsFiniteSet(inUse \ {e})
        BY UsedIsFinite, FS_RemoveElement DEF IInv
    <2> QED
        BY <2>1, FS_RemoveElement, FS_CardinalityType DEF IInv, FreeListExact, ActiveIdCount
<1>3. nItems \in 0..(SIZE - 1)
    BY <1>1, <1>2
<1>4. \A k \in 0..(nItems - 1) : k \in 0..(SIZE - 1) /\ k # nItems
    BY <1>1, <1>3
<1>5. /\ Slot(nItems) \in Entries
      /\ \A k \in 0..(nItems - 1) : Slot(k) \in Entries /\ Slot(k) # Slot(nItems)
    BY <1>3, <1>4, SlotsDistinct DEF IInv
<1>6. /\ item' = [item EXCEPT ![Slot(nItems)] = e]
      /\ inUse' = inUse \ {e}
      /\ \A k : Slot(k)' = Slot(k)
    BY <1>1 DEF Release, Slot
<1>7. TypeOK'
    <2>1. nItems' \in 0..SIZE /\ maxActive' \in 0..SIZE
        BY <1>1, <1>3 DEF Release, IInv, TypeOK
    <2>2. /\ inUse' \subseteq Entries /\ item' \in [Entries -> Entries]
          /\ bank' \in Banks /\ head' \in Entries
        BY <1>1, <1>6 DEF IInv, TypeOK
    <2> QED
        BY <2>1, <2>2 DEF TypeOK
<1>8. /\ item'[Slot(nItems)] = e
      /\ \A k \in 0..(nItems - 1) : item'[Slot(k)] = item[Slot(k)]
    BY <1>5, <1>6 DEF IInv, TypeOK
<1>9. \A k \in 0..(nItems' - 1) : k = nItems \/ k \in 0..(nItems - 1)
    BY <1>1
<1>10. \A k \in 0..(nItems - 1) : item[Slot(k)] \notin inUse /\ item[Slot(k)] # e
    BY DEF IInv, FreeListExact
<1>11. \A k \in 0..(nItems' - 1) : item'[Slot(k)'] \notin inUse'
    BY <1>6, <1>8, <1>9, <1>10
<1>12. \A k, l \in 0..(nItems' - 1) : item'[Slot(k)'] = item'[Slot(l)'] => k = l
    BY <1>6, <1>8, <1>9, <1>10 DEF IInv, FreeListExact
<1>13. Cardinality(inUse') = SIZE - nItems'
    BY <1>1, <1>2, <1>6
<1> QED
    BY <1>7, <1>11, <1>12, <1>13 DEF IInv, FreeListExact, ActiveIdCount

(***************************************************************************)
(* For every size of the pool, the circular buffer holds each free entry   *)
(* once and no other: an entry is never given out twice, nor lost.         *)
(***************************************************************************)
THEOREM Inductive ==
    Spec => []IInv
<1>1. IInv /\ [Next]_vars => IInv'
    <2> SUFFICES ASSUME IInv, [Next]_vars
                 PROVE  IInv'
        OBVIOUS
    <2>1. CASE Alloc
        BY <2>1, AllocStep
    <2>2. CASE \E e \in inUse : Release(e)
        BY <2>2, ReleaseStep
    <2>3. CASE UNCHANGED vars
        <3>1. TypeOK'
            BY <2>3 DEF vars, IInv, TypeOK
        <3>2. FreeListExact'
            BY <2>3 DEF vars, IInv, FreeListExact, Slot, ActiveIdCount
        <3> QED
            BY <3>1, <3>2 DEF IInv
    <2> QED
        BY <2>1, <2>2, <2>3 DEF Next, AllocFails
<1> QED
    BY <1>1, InitEstablishes, PTL DEF Spec

THEOREM TypeCorrect ==
    Spec => []TypeOK
<1>1. IInv => TypeOK
    BY DEF IInv
<1> QED
    BY <1>1, Inductive, PTL

THEOREM FreeListAlwaysExact ==
    Spec => []FreeListExact
<1>1. IInv => FreeListExact
    BY DEF IInv
<1> QED
    BY <1>1, Inductive, PTL

-----------------------------------------------------------------------------
(* Identifiers: the index is the part of an identifier below the bank.     *)

(***************************************************************************)
(* A bank is a multiple of the size, and not zero.                         *)
(***************************************************************************)
LEMMA BankType ==
    ASSUME TypeOK
    PROVE  /\ bank \in RawIds /\ bank \in Nat \ {0}
           /\ \E q \in Nat : bank = q * SIZE
<1>1. /\ SIZE \in Nat \ {0} /\ bank \in Nat /\ bank \in RawIds
      /\ bank % SIZE = 0 /\ (bank \div SIZE) % 2 = 1
    BY SizeAssumption, SpaceAssumption DEF TypeOK, Banks, RawIds
<1> DEFINE q == bank \div SIZE
<1>2. q \in Nat /\ bank = q * SIZE
    BY <1>1
<1>3. bank # 0
    <2>1. 0 \div SIZE = 0 /\ 0 % 2 = 0
        BY <1>1
    <2> QED
        BY <1>1, <2>1
<1> QED
    BY <1>1, <1>2, <1>3

(***************************************************************************)
(* An entry is the index of the identifier made from it.                   *)
(***************************************************************************)
LEMMA IndexOfId ==
    ASSUME TypeOK, NEW e \in Entries
    PROVE  IdToIndex(Id(e)) = e
<1>1. SIZE \in Nat \ {0} /\ e \in Nat /\ e < SIZE
    BY SizeAssumption DEF Entries
<1>2. PICK q \in Nat : bank = q * SIZE
    BY BankType
<1>3. (e + q * SIZE) % SIZE = e
    BY <1>1
<1> QED
    BY <1>2, <1>3 DEF IdToIndex, Id

(***************************************************************************)
(* For every size and every bank: an identifier that is looked up names    *)
(* the entry it was made from, an entry in use is found by its identifier, *)
(* and the zero identifier of an ordinary USM names none.                  *)
(***************************************************************************)
THEOREM LookupAlwaysExact ==
    Spec => []LookupIsExact
<1>1. TypeOK => LookupIsExact
    <2> SUFFICES ASSUME TypeOK
                 PROVE  LookupIsExact
        OBVIOUS
    <2>1. ~Found(0)
        <3>1. IdToIndex(0) = 0
            BY SizeAssumption DEF IdToIndex
        <3>2. Id(0) # 0
            BY BankType DEF Id
        <3> QED
            BY <3>1, <3>2 DEF Found
    <2>2. \A id \in RawIds : Found(id) => \E e \in inUse : id = Id(e)
        BY DEF Found
    <2>3. \A e \in inUse : Found(Id(e))
        BY IndexOfId DEF Found, TypeOK
    <2> QED
        BY <2>1, <2>2, <2>3 DEF LookupIsExact
<1> QED
    BY <1>1, TypeCorrect, PTL

-----------------------------------------------------------------------------
(* The refinement: reading the buffer from its head gives the abstract     *)
(* queue of free entries.                                                  *)

QueueOK ==
    /\ FreeQueue \in Seq(Entries) /\ Len(FreeQueue) = nItems
    /\ \A k \in 1..nItems : FreeQueue[k] = item[Slot(k - 1)]

LEMMA QueueType ==
    TypeOK => QueueOK
<1> SUFFICES ASSUME TypeOK
             PROVE  QueueOK
    OBVIOUS
<1>1. nItems \in Nat /\ nItems <= SIZE /\ SIZE \in Nat \ {0}
    BY SizeAssumption DEF TypeOK
<1>2. \A k \in 1..nItems : item[Slot(k - 1)] \in Entries
    <2>1. \A k \in 1..nItems : k - 1 \in 0..(SIZE - 1)
        BY <1>1
    <2>2. \A k \in 1..nItems : Slot(k - 1) \in Entries
        BY <2>1, SlotsDistinct
    <2> QED
        BY <2>2 DEF TypeOK
<1>3. FreeQueue \in Seq(Entries)
    BY <1>1, <1>2 DEF FreeQueue
<1>4. Len(FreeQueue) = nItems
    BY <1>1, <1>3 DEF FreeQueue
<1> QED
    BY <1>3, <1>4 DEF FreeQueue, QueueOK

LEMMA InitRefines ==
    Init => Abstract!Init
<1> SUFFICES ASSUME Init
             PROVE  Abstract!Init
    OBVIOUS
<1>1. SIZE \in Nat \ {0}
    BY SizeAssumption
<1>2. TypeOK
    BY InitEstablishes DEF IInv
<1>3. ASSUME NEW k \in 1..SIZE
      PROVE  item[Slot(k - 1)] = k - 1
    <2>1. k - 1 \in 0..SIZE /\ head + (k - 1) < SIZE /\ head + (k - 1) = k - 1
        BY <1>1 DEF Init
    <2>2. Slot(k - 1) = k - 1 /\ k - 1 \in Entries
        BY <1>1, <1>2, <2>1, SlotValue DEF Entries
    <2> QED
        BY <2>2 DEF Init
<1>4. FreeQueue = [k \in 1..SIZE |-> k - 1]
    BY <1>1, <1>3 DEF FreeQueue, Init
<1> QED
    BY <1>4 DEF Abstract!Init, Init

LEMMA AllocRefines ==
    ASSUME IInv, IInv', Alloc
    PROVE  Abstract!Alloc
<1>1. /\ SIZE \in Nat \ {0} /\ nItems \in 1..SIZE /\ nItems' = nItems - 1
      /\ item' = item
    BY SizeAssumption DEF Alloc, IInv, TypeOK
<1>2. /\ FreeQueue \in Seq(Entries) /\ Len(FreeQueue) = nItems
      /\ \A k \in 1..nItems : FreeQueue[k] = item[Slot(k - 1)]
    BY QueueType DEF IInv, QueueOK
<1>3. /\ FreeQueue' \in Seq(Entries) /\ Len(FreeQueue') = nItems'
      /\ \A k \in 1..nItems' : FreeQueue'[k] = item'[Slot(k - 1)']
    <2>1. TypeOK'
        BY DEF IInv
    <2>2. QueueOK'
        BY <2>1, QueueType, PTL
    <2> QED
        BY <2>2 DEF QueueOK
<1>4. FreeQueue # << >>
    BY <1>1, <1>2, EmptySeq
<1>5. Slot(0) = head /\ \A k \in 0..(SIZE - 1) : Slot(k)' = Slot(k + 1)
    <2>1. 0 \in 0..(SIZE - 1)
        BY <1>1
    <2> QED
        BY <2>1, SlotsShift DEF IInv, Alloc
<1>6. Head(FreeQueue) = item[head]
    <2>1. Head(FreeQueue) = FreeQueue[1]
        BY <1>2, <1>4
    <2> QED
        BY <1>1, <1>2, <1>5, <2>1
<1>7. FreeQueue' = Tail(FreeQueue)
    <2>1. /\ Tail(FreeQueue) \in Seq(Entries)
          /\ Len(Tail(FreeQueue)) = nItems'
          /\ \A k \in 1..nItems' : Tail(FreeQueue)[k] = FreeQueue[k + 1]
        BY <1>1, <1>2, <1>4, HeadTailProperties
    <2>2. ASSUME NEW k \in 1..nItems'
          PROVE  FreeQueue'[k] = Tail(FreeQueue)[k]
        <3>1. k - 1 \in 0..(SIZE - 1) /\ k + 1 \in 1..nItems
              /\ (k - 1) + 1 = k /\ (k + 1) - 1 = k
            BY <1>1
        <3>2. FreeQueue'[k] = item[Slot(k)]
            BY <1>1, <1>3, <1>5, <3>1
        <3>3. FreeQueue[k + 1] = item[Slot(k)]
            BY <1>2, <3>1
        <3> QED
            BY <2>1, <3>2, <3>3
    <2> QED
        BY <1>3, <2>1, <2>2, SeqEqual
<1> QED
    BY <1>4, <1>6, <1>7 DEF Abstract!Alloc, Alloc

LEMMA ReleaseRefines ==
    ASSUME IInv, IInv', NEW e \in inUse, Release(e)
    PROVE  e \in Entries /\ Abstract!Release(e)
<1>1. /\ SIZE \in Nat \ {0} /\ nItems \in Nat /\ nItems' = nItems + 1
      /\ nItems' \in 0..SIZE /\ e \in Entries
    BY SizeAssumption DEF Release, IInv, TypeOK
<1>2. /\ FreeQueue \in Seq(Entries) /\ Len(FreeQueue) = nItems
      /\ \A k \in 1..nItems : FreeQueue[k] = item[Slot(k - 1)]
    BY QueueType DEF IInv, QueueOK
<1>3. /\ FreeQueue' \in Seq(Entries) /\ Len(FreeQueue') = nItems'
      /\ \A k \in 1..nItems' : FreeQueue'[k] = item'[Slot(k - 1)']
    <2>1. TypeOK'
        BY DEF IInv
    <2>2. QueueOK'
        BY <2>1, QueueType, PTL
    <2> QED
        BY <2>2 DEF QueueOK
<1>4. \A k : Slot(k)' = Slot(k)
    BY DEF Release, Slot
<1>5. \A k \in 0..(nItems - 1) : Slot(k) \in Entries /\ Slot(k) # Slot(nItems)
    <2>1. nItems \in 0..(SIZE - 1)
        BY <1>1
    <2>2. \A k \in 0..(nItems - 1) : k \in 0..(SIZE - 1) /\ k # nItems
        BY <1>1
    <2> QED
        BY <2>1, <2>2, SlotsDistinct DEF IInv
<1>6. Slot(nItems) \in Entries
    <2>1. nItems \in 0..(SIZE - 1)
        BY <1>1
    <2> QED
        BY <2>1, SlotsDistinct DEF IInv
<1>7. FreeQueue' = Append(FreeQueue, e)
    <2>1. /\ Append(FreeQueue, e) \in Seq(Entries)
          /\ Len(Append(FreeQueue, e)) = nItems'
          /\ \A k \in 1..nItems : Append(FreeQueue, e)[k] = FreeQueue[k]
          /\ Append(FreeQueue, e)[nItems + 1] = e
        BY <1>1, <1>2, AppendProperties
    <2>2. ASSUME NEW k \in 1..nItems'
          PROVE  FreeQueue'[k] = Append(FreeQueue, e)[k]
        <3>1. CASE k \in 1..nItems
            <4>1. k - 1 \in 0..(nItems - 1)
                BY <1>1, <3>1
            <4>2. item'[Slot(k - 1)] = item[Slot(k - 1)]
                BY <1>5, <4>1 DEF Release, IInv, TypeOK
            <4> QED
                BY <1>2, <1>3, <1>4, <2>1, <3>1, <4>2
        <3>2. CASE k = nItems + 1
            <4>1. k - 1 = nItems
                BY <1>1, <3>2
            <4>2. item'[Slot(nItems)] = e
                BY <1>6 DEF Release, IInv, TypeOK
            <4> QED
                BY <1>3, <1>4, <2>1, <3>2, <4>1, <4>2
        <3>3. k \in 1..nItems \/ k = nItems + 1
            BY <1>1
        <3> QED
            BY <3>1, <3>2, <3>3
    <2> QED
        BY <1>3, <2>1, <2>2, SeqEqual
<1> QED
    BY <1>1, <1>7 DEF Abstract!Release, Release

(***************************************************************************)
(* The circular buffer implements the abstract queue: whatever wraps, the  *)
(* entry handed out is the one that has been free the longest.             *)
(***************************************************************************)
THEOREM Refinement ==
    Spec => Implements
<1>1. IInv /\ IInv' /\ [Next]_vars => [Abstract!Next]_(Abstract!vars)
    <2> SUFFICES ASSUME IInv, IInv', [Next]_vars
                 PROVE  Abstract!Next \/ UNCHANGED Abstract!vars
        BY DEF Abstract!vars
    <2>1. CASE Alloc
        BY <2>1, AllocRefines DEF Abstract!Next
    <2>2. CASE \E e \in inUse : Release(e)
        BY <2>2, ReleaseRefines DEF Abstract!Next, Abstract!Entries, Entries
    <2>3. CASE UNCHANGED vars
        BY <2>3 DEF vars, Abstract!vars, FreeQueue, Slot
    <2> QED
        BY <2>1, <2>2, <2>3 DEF Next, AllocFails
<1> QED
    BY <1>1, InitRefines, Inductive, PTL DEF Spec, Implements, Abstract!Spec
=============================================================================

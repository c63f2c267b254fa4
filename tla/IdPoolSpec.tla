----------------------------- MODULE IdPoolSpec -----------------------------
(***************************************************************************)
(* What an identifier pool of acnetd promises to the request and the reply *)
(* tables: an entry is either free or in use, never both, and the entry    *)
(* handed out is always the one that has been free for the longest time,   *)
(* so that a late packet naming a retired identifier has the whole pool's  *)
(* turnover to die out in.                                                 *)
(***************************************************************************)
EXTENDS Naturals, Sequences

CONSTANT SIZE         \* entries of the pool

Entries == 0..(SIZE - 1)

VARIABLES free,       \* the free entries, the longest-free one first
          used        \* the entries in use

vars == <<free, used>>

Init ==
    /\ used = {}
    /\ free = [k \in 1..SIZE |-> k - 1]

Alloc ==
    /\ free # <<>>
    /\ used' = used \cup {Head(free)}
    /\ free' = Tail(free)

Release(e) ==
    /\ e \in used
    /\ used' = used \ {e}
    /\ free' = Append(free, e)

Next == Alloc \/ \E e \in Entries : Release(e)

Spec == Init /\ [][Next]_vars
=============================================================================

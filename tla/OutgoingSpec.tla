---------------------------- MODULE OutgoingSpec ----------------------------
(***************************************************************************)
(* What acnetd's outgoing queue promises to the handlers that send         *)
(* messages: each node has a channel, messages leave it in the order in    *)
(* which they were sent, and one that leaves is delivered to the kernel    *)
(* once or is lost.  A message may also be lost on the way in.             *)
(***************************************************************************)
EXTENDS Naturals, Sequences

CONSTANTS Nodes, Msgs

VARIABLES chan,       \* chan[n]: what is still to be sent to n
          sent        \* sent[n]: what the last step gave to the kernel for n

vars == <<chan, sent>>

Nothing == [n \in Nodes |-> <<>>]

Init ==
    /\ chan = Nothing
    /\ sent = Nothing

Put(n, m) ==
    /\ chan' = [chan EXCEPT ![n] = Append(@, m)]
    /\ sent' = Nothing

Idle ==
    /\ sent' = Nothing
    /\ UNCHANGED chan

(***************************************************************************)
(* The messages of s are among the first k of t, each once and in order.   *)
(***************************************************************************)
Embeds(s, t, k) ==
    \E at \in [DOMAIN s -> 1..k] :
        /\ \A i \in DOMAIN s : s[i] = t[at[i]]
        /\ \A i, j \in DOMAIN s : i < j => at[i] < at[j]

(***************************************************************************)
(* From the front of the channel to n, k messages leave.                   *)
(***************************************************************************)
Leave(n, k) ==
    /\ chan'[n] = SubSeq(chan[n], k + 1, Len(chan[n]))
    /\ Embeds(sent'[n], chan[n], k)

Flush ==
    /\ chan' \in [Nodes -> Seq(Msgs)]
    /\ sent' \in [Nodes -> Seq(Msgs)]
    /\ \A n \in Nodes : \E k \in 0..Len(chan[n]) : Leave(n, k)

Next ==
    \/ \E n \in Nodes, m \in Msgs : Put(n, m)
    \/ Idle
    \/ Flush

Spec == Init /\ [][Next]_vars
=============================================================================

----------------------------- MODULE RelaySpec -----------------------------
(***************************************************************************)
(* What the proxy of a TCP client promises: the client's frames are read   *)
(* in the order in which it wrote them, and a command that one of them     *)
(* completes reaches acnetd after the acknowledgement of the one before;   *)
(* acknowledgements and data reach the client once, in the order in which  *)
(* acnetd sent them, and nothing that a command gives rise to overtakes    *)
(* its acknowledgement.  A frame may also be answered by the proxy, or     *)
(* come to nothing, and when the connection ends everything does.          *)
(***************************************************************************)
EXTENDS Naturals, Sequences

VARIABLES in,     \* frames the client has written, not read yet
          cmds,   \* commands forwarded, not served by acnetd yet
          acks,   \* acknowledgements on their way to the proxy
          data,   \* data on its way to the proxy
          out,    \* what the client has still to read
          open

vars == <<in, cmds, acks, data, out, open>>

Init ==
    /\ in = <<>> /\ cmds = <<>> /\ acks = <<>> /\ data = <<>> /\ out = <<>>
    /\ open = TRUE

(* t is s with one more message. *)
OneMore(s, t) == Len(t) = Len(s) + 1 /\ SubSeq(t, 1, Len(s)) = s

Unanswered == cmds # <<>> \/ acks # <<>>

Write ==
    /\ OneMore(in, in')
    /\ UNCHANGED <<cmds, acks, data, out, open>>

Forward ==
    /\ in # <<>> /\ ~Unanswered
    /\ cmds' = <<Head(in)>>
    /\ in' = Tail(in)
    /\ UNCHANGED <<acks, data, out, open>>

Lose ==
    /\ in # <<>> /\ ~Unanswered
    /\ in' = Tail(in)
    /\ UNCHANGED <<cmds, acks, data, out, open>>

Answer ==
    /\ in # <<>> /\ ~Unanswered
    /\ in' = Tail(in)
    /\ OneMore(out, out')
    /\ UNCHANGED <<cmds, acks, data, open>>

Serve ==
    /\ cmds # <<>>
    /\ cmds' = Tail(cmds)
    /\ OneMore(acks, acks')
    /\ UNCHANGED <<in, data, out, open>>

SendData ==
    /\ OneMore(data, data')
    /\ UNCHANGED <<in, cmds, acks, out, open>>

RelayAck ==
    /\ acks # <<>>
    /\ out' = Append(out, Head(acks))
    /\ acks' = Tail(acks)
    /\ UNCHANGED <<in, cmds, data, open>>

RelayData ==
    /\ data # <<>> /\ ~Unanswered
    /\ out' = Append(out, Head(data))
    /\ data' = Tail(data)
    /\ UNCHANGED <<in, cmds, acks, open>>

Insert ==
    /\ OneMore(out, out')
    /\ UNCHANGED <<in, cmds, acks, data, open>>

Deliver ==
    /\ out # <<>>
    /\ out' = Tail(out)
    /\ UNCHANGED <<in, cmds, acks, data, open>>

(* Once the connection is gone nothing more is promised. *)
End == open' = FALSE

Next ==
    \/ open /\ (Write \/ Forward \/ Answer \/ Lose \/ Serve \/ SendData)
    \/ open /\ (RelayAck \/ RelayData \/ Insert \/ Deliver)
    \/ End

Spec == Init /\ [][Next]_vars
=============================================================================

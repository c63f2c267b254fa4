----------------------------- MODULE MCTcpProxy -----------------------------
(***************************************************************************)
(* A TCP client of either protocol, which writes commands faster than they *)
(* are acknowledged and reads more slowly than data comes.                 *)
(***************************************************************************)
EXTENDS TcpProxy

Lines ==
    {<<"RAW">>,
     <<"GET", "Sec-WebSocket-Key:", "X-Forwarded-For:">>,
     <<"GET">>}

Frame(op, fin, body, len) == [op |-> op, fin |-> fin, body |-> body, len |-> len]

Command == Frame("binary", TRUE, <<"whole">>, 20)

Whole == {Command, Frame("ping", TRUE, <<>>, 0), Frame("close", TRUE, <<>>, 2)}

(***************************************************************************)
(* A command in two fragments.  Between them a ping takes along as much as *)
(* a control frame may have, and a close takes more.                       *)
(***************************************************************************)
Fragments ==
    {Frame("binary", FALSE, <<"first">>, 125), Frame("continuation", TRUE, <<"rest">>, 10)}

FramesOfClients == Whole \cup Fragments
=============================================================================

----------------------------- MODULE ClientsSpec -----------------------------
(***************************************************************************)
(* What the task table promises the rest of acnetd about its clients: a    *)
(* task is a name with a command port, plain names have one owner, dead    *)
(* clients go before another one connects or takes their name, with the    *)
(* tasks of their process, and a new task of an old name starts alive.     *)
(* Nothing is said of identifiers, objects, the map by name or groups.     *)
(***************************************************************************)
EXTENDS Clients

CONSTANTS Name,       \* the name of each task
          Shared,     \* names of multicast groups, which several clients may have
          NoAnswer

VARIABLE ack          \* the answer to the connect that was the last step, if it was one

vars == <<connected, dead, ack>>

Answer(n, status) == [name |-> n, status |-> status]

Init == ClientsInit /\ ack = NoAnswer

Owners(C, n) == {u \in C : Name[u] = n}

Remove(T) ==
    /\ connected' = connected \ T
    /\ dead' = dead \ T

(***************************************************************************)
(* One who connects competes with clients that are alive.                  *)
(***************************************************************************)
Connect(c) ==
    LET Alive == connected \ Inactive
        n == Name[c]
        Refused == n \notin Shared /\ Owners(Alive, n) \ {c} # {}
    IN  \/ /\ ack' = Answer(n, "success")
           /\ ~Refused
           /\ connected' = Alive \cup {c}
           /\ dead' = dead \ Inactive
        \/ /\ ack' = Answer(n, "name_in_use")
           /\ Refused
           /\ Remove(Inactive)
        \/ /\ ack' = Answer(n, "nlm")
           /\ c \notin Alive
           /\ Remove(Inactive)

(***************************************************************************)
(* A command disconnects the client, with its process or alone, or not; it *)
(* may fail to be acknowledged.                                            *)
(***************************************************************************)
Command(c) ==
    /\ Commands(c)
    /\ \E T \in Dropped(c) \cup {{c}, RemovedWith(c)} : Remove(T)

Lose(c) == c \in connected \cap dead /\ Remove(RemovedWith(c))

RemoveAll == Remove(connected)

Sweep == Remove(Inactive)

(***************************************************************************)
(* Task `c' becomes `e', a task of the same port with a name that only     *)
(* dead clients have.  These go, and `c' may be one of them, or it goes    *)
(* for want of an acknowledgement.                                         *)
(***************************************************************************)
Moved(C, c, e) == {IF u = c THEN e ELSE u : u \in C}

Rename(c, e) ==
    LET Gone == UNION {RemovedWith(u) : u \in Owners(connected, Name[e])}
    IN  /\ Commands(c) /\ Port[e] = Port[c]
        /\ Name[e] \notin Shared /\ Owners(connected, Name[e]) \subseteq dead
        /\ \/ /\ c \in Gone
              /\ Remove(Gone)
           \/ /\ c \notin Gone
              /\ \E T \in Dropped(c) :
                    /\ connected' = Moved(connected \ (Gone \cup T), c, e)
                    /\ dead' = Moved(dead \ (Gone \cup T), c, e)

(***************************************************************************)
(* The process of a client exits.                                          *)
(***************************************************************************)
ProcessExits(c) ==
    /\ c \in connected /\ Pid[c] # NoPid
    /\ dead' = dead \cup {u \in connected : Pid[u] = Pid[c]}
    /\ UNCHANGED connected

Idle == UNCHANGED <<connected, dead>>

Change ==
    \/ Idle \/ Sweep \/ RemoveAll
    \/ \E c \in Tasks : \/ Command(c) \/ Lose(c)
                       \/ ClientDies(c) \/ ClientRecovers(c) \/ ProcessExits(c)
    \/ \E c, e \in Tasks : Rename(c, e)

Next ==
    \/ \E c \in Tasks : Connect(c)
    \/ ack' = NoAnswer /\ Change

Spec == Init /\ [][Next]_vars
=============================================================================

------------------------------ MODULE Clients ------------------------------
(***************************************************************************)
(* The connected tasks as the request and the reply tables see them        *)
(* (taskpool.cpp, exttask.cpp): who is connected, which clients have       *)
(* stopped answering, and which tasks go when one of them is removed.      *)
(*                                                                         *)
(* A member of Tasks is a task name bound to a command port, what the      *)
(* daemon looks a command up by.  Every name is a plain one, owned by at   *)
(* most one task; multicast names never hold requests.                     *)
(***************************************************************************)
EXTENDS FiniteSets, Naturals

CONSTANTS Tasks,      \* task names (with their command port)
          Pid,        \* process of each task
          NoPid,      \* pid 0: a client the daemon cannot probe with kill()
          Port        \* command port of each task

VARIABLES connected,  \* tasks in the pool's table and active map
          dead        \* clients for which stillAlive() answers false

(***************************************************************************)
(* removeTask removes the tasks of the same process, or only this one when *)
(* the process is not known.                                               *)
(***************************************************************************)
RemovedWith(t) ==
    IF Pid[t] = NoPid THEN {t} ELSE {u \in connected : Pid[u] = Pid[t]}

(***************************************************************************)
(* removeInactiveTasks, which every Connect runs first.                    *)
(***************************************************************************)
Inactive == UNION {RemovedWith(u) : u \in connected \cap dead}

(***************************************************************************)
(* A message to a client counts as lost when sendto fails and the client   *)
(* is not alive: to a live client it never is, to a dead one it may be.    *)
(* The caller then removes the task.  Dropped(t) holds the sets of tasks   *)
(* that a message to `t', an acknowledgement or data, may cost.            *)
(***************************************************************************)
Dropped(t) == {{}} \cup (IF t \in dead THEN {RemovedWith(t)} ELSE {})

(***************************************************************************)
(* ExternalTask::equals compares command ports only.                       *)
(***************************************************************************)
Equals(t, u) == Port[t] = Port[u]

(***************************************************************************)
(* A command reached a connected task.  It may be the last word of a       *)
(* process that has gone since, but a client without a pid counts as alive *)
(* for having sent it (commandReceived), so one that was silent for too    *)
(* long recovers first.                                                    *)
(***************************************************************************)
Commands(t) ==
    /\ t \in connected
    /\ t \in dead => Pid[t] # NoPid

ClientsInit ==
    /\ connected = {}
    /\ dead = {}

(***************************************************************************)
(* A client stops answering: its process exits, its socket fails more than *)
(* ten times running, or, without a pid, it is silent for thirty seconds.  *)
(* A client that only stalled may come back.                               *)
(***************************************************************************)
ClientDies(t) ==
    /\ t \in connected \ dead
    /\ dead' = dead \cup {t}
    /\ UNCHANGED connected

ClientRecovers(t) ==
    /\ t \in connected \cap dead
    /\ dead' = dead \ {t}
    /\ UNCHANGED connected

ClientsTypeOK ==
    /\ connected \subseteq Tasks
    /\ dead \subseteq Tasks
=============================================================================

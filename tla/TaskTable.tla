------------------------------ MODULE TaskTable ------------------------------
(***************************************************************************)
(* The connections of clients to acnetd (taskpool.cpp): the table of tasks *)
(* by identifier, the map of tasks by name, the removed tasks that wait to *)
(* be deleted, and the multicast groups that tasks listen to (mcast.cpp).  *)
(*                                                                         *)
(* A task is the address of a TaskInfo object.  What a task owns in the    *)
(* request and reply tables is in modules of its own.  The daemon's own    *)
(* task, with identifier 0 and two names, never goes and is left out.      *)
(***************************************************************************)
EXTENDS Integers, FiniteSets, SequencesExt

CONSTANTS Tasks,      \* addresses of TaskInfo objects, as many as the heap has room for
          NoTask,     \* the null pointer
          NoInfo,     \* what is at an address that holds no object
          ShortIds,   \* identifiers that fit a byte, for clients that take no others
          ExtIds,     \* identifiers for all other clients
          Names,      \* task names; a blank one has become the data port's
          Ports,      \* command ports
          PidOf,      \* the process that uses a command port
          NoPid,      \* pid 0: a client the daemon cannot probe with kill()
          Rank,       \* the place of a name in the map, ACNET's being 0
          Groups,     \* multicast addresses
          NoGroup,
          GroupOf     \* the multicast address a name stands for in the node table

Ids == ShortIds \cup ExtIds

ASSUME IdsAssumption == Ids \subseteq Nat /\ ShortIds \cap ExtIds = {}
ASSUME HeapAssumption == IsFiniteSet(Tasks)
ASSUME NullAssumption == NoTask \notin Tasks /\ NoGroup \notin Groups
ASSUME NamesAssumption == GroupOf \in [Names -> Groups \cup {NoGroup}]
ASSUME RankAssumption == Rank \in [Names -> Int \ {0}]

TaskInfo == [name : Names, port : Ports, id : Ids, group : Groups \cup {NoGroup}]

ASSUME NoInfoAssumption == NoInfo \notin TaskInfo

VARIABLES pool,       \* the pool's table, active map, objects and removed list,
                      \* and the reference counts of the groups
          dead,       \* tasks for which stillAlive() answers false
          ack         \* the answer to the connect that was the last step, if it was one

vars == <<pool, dead, ack>>

Statuses == {"none", "success", "name_in_use", "nlm"}
Answer(n, status) == [name |-> n, status |-> status]
NoAnswer == [name |-> NoTask, status |-> "none"]

Entry(n, t) == [name |-> n, task |-> t]

Init ==
    /\ pool = [table   |-> [i \in Ids |-> NoTask],
               active  |-> {},
               info    |-> [t \in Tasks |-> NoInfo],
               removed |-> <<>>,
               refs    |-> [g \in Groups |-> 0]]
    /\ dead = {}
    /\ ack = NoAnswer

-----------------------------------------------------------------------------
(* Looking tasks up. *)

ProcessOf(p, t) == PidOf[p.info[t].port]
Connected(p) == {t \in Tasks : \E i \in Ids : p.table[i] = t}
Allocated(p) == {t \in Tasks : p.info[t] # NoInfo}

TasksNamed(p, n) == {e.task : e \in {f \in p.active : f.name = n}}
GetTask(p, n, port) == {t \in TasksNamed(p, n) : p.info[t].port = port}
FreeIds(p, From) == {i \in From : p.table[i] = NoTask}

-----------------------------------------------------------------------------
(* Removing and deleting tasks. *)

(***************************************************************************)
(* removeOnlyThisTask, for each task of T: the entry of the map that goes  *)
(* is one under the task's name with an equal command port.                *)
(***************************************************************************)
RemoveOnly(p, T) ==
    [p EXCEPT
        !.table = [i \in Ids |-> IF @[i] \in T THEN NoTask ELSE @[i]],
        !.active = {e \in @ : ~\E t \in T : e.task \in GetTask(p, p.info[t].name, p.info[t].port)
                                            /\ e.name = p.info[t].name},
        !.removed = @ \o SetToSeq(T)]

(* A mutant: pid 0 is a process like any other. *)
SameProcess(p, t) == {u \in Connected(p) : ProcessOf(p, u) = ProcessOf(p, t)}

(* A mutant: only the task itself goes. *)
RemovedAlone(p, t) == {t}

RemovedWith(p, t) ==
    IF ProcessOf(p, t) = NoPid
    THEN {t}
    ELSE {u \in Connected(p) : ProcessOf(p, u) = ProcessOf(p, t)}

RemoveTask(p, t) == RemoveOnly(p, RemovedWith(p, t))

(* A mutant: members that are deleted together leave as one. *)
DroppedOnce(refs, G) ==
    [g \in Groups |-> IF refs[g] > 0 /\ \E t \in DOMAIN G : G[t] = g THEN refs[g] - 1 ELSE refs[g]]

(***************************************************************************)
(* Each deleted multicast task drops its group; G holds the groups of the  *)
(* tasks deleted.  A count of zero stands for no membership.               *)
(***************************************************************************)
Dropped(refs, G) ==
    [g \in Groups |-> LET n == Cardinality({t \in DOMAIN G : G[t] = g})
                      IN  IF n < refs[g] THEN refs[g] - n ELSE 0]

(* A mutant: the list of removed tasks is not cleared. *)
DeleteOnly(p) ==
    LET T == ToSet(p.removed) \cap Allocated(p)
    IN  [p EXCEPT !.info = [t \in Tasks |-> IF t \in T THEN NoInfo ELSE @[t]],
                  !.refs = Dropped(@, [t \in T |-> p.info[t].group])]

DeleteRemoved(p) ==
    LET T == ToSet(p.removed)
    IN  [p EXCEPT !.info = [t \in Tasks |-> IF t \in T THEN NoInfo ELSE @[t]],
                  !.refs = Dropped(@, [t \in T |-> p.info[t].group]),
                  !.removed = <<>>]

RemoveInactive(p) ==
    DeleteRemoved(RemoveOnly(p, UNION {RemovedWith(p, t) : t \in Connected(p) \cap dead}))

-----------------------------------------------------------------------------
(* Connecting. *)

Enter(p, t, i) ==
    [p EXCEPT !.table[i.id] = t,
              !.active = @ \cup {Entry(i.name, t)},
              !.info[t] = i,
              !.refs = [g \in Groups |-> IF g = i.group THEN @[g] + 1 ELSE @[g]]]

(* A mutant: the identifier after the free one. *)
NextId(p, From) == 1 + CHOOSE i \in FreeIds(p, From) : \A j \in FreeIds(p, From) : i <= j

FirstId(p, From) == CHOOSE i \in FreeIds(p, From) : \A j \in FreeIds(p, From) : i <= j

Taken(p, n) == GroupOf[n] = NoGroup /\ TasksNamed(p, n) # {}

(***************************************************************************)
(* handleConnect.  A client that is connected already gets its task back.  *)
(* The first member of a group may fail to join it, and there may be no    *)
(* memory for the object.                                                  *)
(***************************************************************************)
HandleConnect(n, port, From) ==
    LET p == RemoveInactive(pool)
        New(t) == [name |-> n, port |-> port, id |-> FirstId(p, From), group |-> GroupOf[n]]
    IN  /\ dead' = dead \cap Allocated(p)
        /\ \/ /\ GetTask(p, n, port) # {}
              /\ pool' = p
              /\ ack' = Answer(n, "success")
           \/ /\ GetTask(p, n, port) = {}
              /\ FreeIds(p, From) = {} \/ ~Taken(p, n)
              /\ pool' = p
              /\ ack' = Answer(n, "nlm")
           \/ /\ GetTask(p, n, port) = {}
              /\ FreeIds(p, From) # {} /\ Taken(p, n)
              /\ pool' = p
              /\ ack' = Answer(n, "name_in_use")
           \/ /\ GetTask(p, n, port) = {}
              /\ FreeIds(p, From) # {} /\ ~Taken(p, n)
              /\ \E t \in Tasks \ Allocated(p) : pool' = Enter(p, t, New(t))
              /\ ack' = Answer(n, "success")

-----------------------------------------------------------------------------
(* Commands of a connected task.                                           *)

(***************************************************************************)
(* A client without a pid counts as alive for having sent the command.     *)
(***************************************************************************)
Commands(t) ==
    /\ t \in Connected(pool)
    /\ t \in dead => ProcessOf(pool, t) # NoPid

(***************************************************************************)
(* The acknowledgement of a command fails only for a client that is dead,  *)
(* which is then removed.                                                  *)
(***************************************************************************)
Conclude(p, t) ==
    \/ pool' = p
    \/ t \in dead /\ pool' = RemoveTask(p, t)

HandleDisconnect(t) ==
    /\ Commands(t)
    /\ pool' = RemoveTask(pool, t)
    /\ ack' = NoAnswer
    /\ UNCHANGED dead

HandleDisconnectSingle(t) ==
    /\ Commands(t)
    /\ pool' = RemoveOnly(pool, {t})
    /\ ack' = NoAnswer
    /\ UNCHANGED dead

HandleOther(t) ==
    /\ Commands(t)
    /\ Conclude(pool, t)
    /\ ack' = NoAnswer
    /\ UNCHANGED dead

(* A mutant: the entry of the map keeps the old name. *)
RenamedInPlace(p, t, n) == [p EXCEPT !.info[t].name = n]

Renamed(p, t, n) ==
    [p EXCEPT !.active = (@ \ {Entry(p.info[t].name, t)}) \cup {Entry(n, t)},
              !.info[t].name = n]

InUse(n) == GroupOf[n] # NoGroup \/ TasksNamed(pool, n) \ dead # {}

(***************************************************************************)
(* rename.  A dead owner of the new name is removed, with the tasks of its *)
(* process; when the task itself is one of them, the rename fails.         *)
(***************************************************************************)
HandleRenameTask(t, n) ==
    LET Owners == TasksNamed(pool, n)
        p == RemoveOnly(pool, UNION {RemovedWith(pool, u) : u \in Owners})
    IN  /\ Commands(t)
        /\ UNCHANGED dead
        /\ \/ /\ InUse(n)
              /\ ack' = NoAnswer
              /\ Conclude(pool, t)
           \/ /\ ~InUse(n) /\ t \in Connected(p)
              /\ ack' = NoAnswer
              /\ Conclude(Renamed(p, t, n), t)
           \/ /\ ~InUse(n) /\ t \notin Connected(p)
              /\ ack' = NoAnswer
              /\ pool' = p

-----------------------------------------------------------------------------
(***************************************************************************)
(* The daemon is told to stop.  Its own task, which is not in this module, *)
(* leaves the table like the clients', after which the daemon ends.        *)
(***************************************************************************)
RemoveAllTasks ==
    /\ Connected(pool) # {}
    /\ pool' = RemoveOnly(pool, Connected(pool))
    /\ ack' = NoAnswer
    /\ UNCHANGED dead

(***************************************************************************)
(* A request or a CANCEL cannot be delivered to a task that is dead.       *)
(***************************************************************************)
LoseTask(t) ==
    /\ t \in Connected(pool) \cap dead
    /\ pool' = RemoveTask(pool, t)
    /\ ack' = NoAnswer
    /\ UNCHANGED dead

(***************************************************************************)
(* The ACNET task is asked for the tasks or their statistics, by a request *)
(* or a USM.                                                               *)
(***************************************************************************)
ReportTasks ==
    /\ pool' = RemoveInactive(pool)
    /\ dead' = dead \cap Allocated(pool')
    /\ ack' = NoAnswer

(***************************************************************************)
(* A process exits, or a task's socket fails too often, or a client        *)
(* without a pid is silent.  The last two may pass, and a pid may be used  *)
(* again.                                                                  *)
(***************************************************************************)
ProcessExits(pid) ==
    /\ dead' = dead \cup {t \in Connected(pool) : ProcessOf(pool, t) = pid}
    /\ ack' = NoAnswer
    /\ UNCHANGED pool

ClientStalls(t) ==
    /\ t \in Connected(pool) \ dead
    /\ dead' = dead \cup {t}
    /\ ack' = NoAnswer
    /\ UNCHANGED pool

ClientRecovers(t) ==
    /\ t \in Connected(pool) \cap dead
    /\ dead' = dead \ {t}
    /\ ack' = NoAnswer
    /\ UNCHANGED pool

Pids == {PidOf[port] : port \in Ports} \ {NoPid}

Next ==
    \/ \E n \in Names, port \in Ports, From \in {ShortIds, ExtIds} : HandleConnect(n, port, From)
    \/ \E t \in Tasks : HandleDisconnect(t)
    \/ \E t \in Tasks : HandleDisconnectSingle(t)
    \/ \E t \in Tasks : HandleOther(t)
    \/ \E t \in Tasks, n \in Names : HandleRenameTask(t, n)
    \/ \E t \in Tasks : LoseTask(t)
    \/ RemoveAllTasks
    \/ ReportTasks
    \/ \E pid \in Pids : ProcessExits(pid)
    \/ \E t \in Tasks : ClientStalls(t)
    \/ \E t \in Tasks : ClientRecovers(t)

Spec == Init /\ [][Next]_vars

-----------------------------------------------------------------------------
TypeOK ==
    /\ pool \in [table   : [Ids -> Tasks \cup {NoTask}],
                 active  : SUBSET [name : Names, task : Tasks],
                 info    : [Tasks -> TaskInfo \cup {NoInfo}],
                 removed : Seq(Tasks),
                 refs    : [Groups -> Nat]]
    /\ dead \subseteq Allocated(pool)
    /\ ack \in [name : Names \cup {NoTask}, status : Statuses]

(***************************************************************************)
(* The table and the map hold the same tasks, each once, under the         *)
(* identifier and the name the task has: removeOnlyThisTask always finds   *)
(* its task in the map (it aborts the daemon when it does not).  What      *)
(* comes for a name and port finds one task: a name that is not a          *)
(* multicast group's has one owner, and a client has one task of a name.   *)
(***************************************************************************)
NamesOwned ==
    \A t, u \in Connected(pool) :
        t # u /\ pool.info[t].name = pool.info[u].name =>
            /\ GroupOf[pool.info[t].name] # NoGroup
            /\ pool.info[t].port # pool.info[u].port

TablesAgree ==
    /\ \A t \in Connected(pool) :
          /\ t \in Allocated(pool)
          /\ Entry(pool.info[t].name, t) \in pool.active
          /\ \A i \in Ids : pool.table[i] = t <=> i = pool.info[t].id
    /\ \A e \in pool.active : e.task \in Connected(pool) /\ e.name = pool.info[e.task].name
    /\ NamesOwned

(***************************************************************************)
(* Every object is connected or waits, once, to be deleted: none is        *)
(* deleted twice, or while the table still has it, and none is lost.       *)
(***************************************************************************)
DeletedOnce ==
    /\ IsInjective(pool.removed)
    /\ Connected(pool) \cap ToSet(pool.removed) = {}
    /\ Connected(pool) \cup ToSet(pool.removed) = Allocated(pool)

(***************************************************************************)
(* A group has as many references as there are objects that joined it,     *)
(* those that only wait to be deleted included: a client that comes back   *)
(* before its old task is deleted keeps the group joined.  A task with the *)
(* name of a group has joined it: rename() must not lead to such a name.   *)
(***************************************************************************)
GroupsCounted ==
    /\ \A g \in Groups :
          pool.refs[g] = Cardinality({t \in Allocated(pool) : pool.info[t].group = g})
    /\ \A t \in Connected(pool) :
          GroupOf[pool.info[t].name] \in {NoGroup, pool.info[t].group}

(***************************************************************************)
(* handleAcnetUsm, for a USM to ACNET that turns p into q.  The loop keeps *)
(* the end of the range of that name, the entry that follows it, and only  *)
(* looks for it after the handler has run.  Once that entry is gone, the   *)
(* loop goes through the rest of the map, and on.  Which of the entries of *)
(* one name comes first is left open: the end is gone when all of them are.*)
(***************************************************************************)
Following(p) == {e \in p.active : Rank[e.name] > 0}

EndOfAcnet(p) == {e \in Following(p) : \A f \in Following(p) : Rank[e.name] <= Rank[f.name]}

Overruns(p, q) == EndOfAcnet(p) # {} /\ EndOfAcnet(p) \cap q.active = {}

UsmReaches(p, q) == IF Overruns(p, q) THEN {e.task : e \in Following(q)} ELSE {}

Disconnects(t) == HandleDisconnect(t) \/ HandleDisconnectSingle(t) \/ RemoveAllTasks

(***************************************************************************)
(* A task goes only when it disconnects or is dead, or another task of its *)
(* process, if that is known, does or is, or when the daemon stops.        *)
(***************************************************************************)
LeavesForCause ==
    [][\A t \in Connected(pool) \ Connected(pool') : \E u \in Connected(pool) :
          /\ u = t \/ (ProcessOf(pool, t) # NoPid /\ ProcessOf(pool, u) = ProcessOf(pool, t))
          /\ u \in dead \/ Disconnects(u)]_vars

(***************************************************************************)
(* "We look up the destination task and, if it is listening, deliver the   *)
(* packet to it" (main.cpp:341): a USM to ACNET is delivered to no client. *)
(***************************************************************************)
UsmStaysInName == [][ReportTasks => UsmReaches(pool, pool') = {}]_vars

(***************************************************************************)
(* Whatever happens to identifiers, objects and groups, what the rest of   *)
(* the daemon sees of its clients is as ClientsSpec has it: dead clients   *)
(* are out of the way of others and nobody else is, a rename keeps the     *)
(* task, and a new object at the address of an old one is not dead.        *)
(***************************************************************************)
Keys == Names \X Ports
KeyOf(p, t) == <<p.info[t].name, p.info[t].port>>
KeysOf(p, T) == {KeyOf(p, t) : t \in T}

Abstract == INSTANCE ClientsSpec
    WITH Tasks <- Keys,
         Name <- [c \in Keys |-> c[1]],
         Port <- [c \in Keys |-> c[2]],
         Pid <- [c \in Keys |-> PidOf[c[2]]],
         Shared <- {n \in Names : GroupOf[n] # NoGroup},
         connected <- KeysOf(pool, Connected(pool)),
         dead <- KeysOf(pool, Connected(pool) \cap dead)

Implements == Abstract!Spec
=============================================================================

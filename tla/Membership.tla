----------------------------- MODULE Membership -----------------------------
(***************************************************************************)
(* How two tree-server processes agree, through ZooKeeper, on which is the *)
(* primary and which the backup: the znodes /kvstore/primary and           *)
(* /kvstore/backup, the start-up of a server (tree_skel_init_private) and   *)
(* its reaction to a change of the children of /kvstore (child_watcher).   *)
(*                                                                         *)
(* Every zoo_ call is one step, because the two servers' calls interleave. *)
(* A member of Servers is one process; a server that is restarted is       *)
(* another member.  A process listens before it opens its session, so      *)
(* whoever lives can be connected to.  ZooKeeper itself is external: it    *)
(* answers every call, keeps a znode as long as its owner's session lives  *)
(* and sends one child event for each watch that was set.                  *)
(***************************************************************************)
EXTENDS Naturals

CONSTANTS Servers,  \* the processes; each stands for its own <ip>:<port>
          Nobody,   \* no owner, no address, a closed socket
          Unset     \* memory fresh from malloc

ASSUME Outsiders == Nobody \notin Servers /\ Unset \notin Servers /\ Nobody # Unset

VARIABLES root,        \* whether /kvstore exists
          znode,       \* who created /kvstore/primary and backup, and their data
          session,     \* which processes have a live ZooKeeper session
          watch,       \* whose one-shot child watch on /kvstore is set
          events,      \* child events each process has not handled yet
          pc,          \* the next call of each process
          dados,       \* the global that the watcher reads a znode into
          repete_put,  \* the address that conecta parsed
          sock_primary \* the process that rtree->sock_primary is connected to

vars == <<root, znode, session, watch, events, pc, dados, repete_put, sock_primary>>
zookeeper == <<root, znode, session, watch, events>>
memory == <<dados, repete_put, sock_primary>>

Names == {"primary", "backup"}
Free == [owner |-> Nobody, data |-> Nobody]

Starting == {"exists root", "create root", "exists primary", "create primary",
             "exists backup", "create backup", "set watch"}
Promoting == {"read own name", "take primary", "delete backup"}
Joining == {"read backup", "watch again", "find backup", "connect"}
Handling == {"check primary"} \cup Promoting \cup Joining
Gone == {"exited", "refused"}

Live(s) == pc[s] \in Starting \cup Handling \cup {"idle"}
Owns(s, name) == znode[name].owner = s

TypeOK == /\ root \in BOOLEAN
          /\ znode \in [Names -> [owner : Servers \cup {Nobody},
                                  data : Servers \cup {Nobody, Unset}]]
          /\ session \in [Servers -> BOOLEAN]
          /\ watch \in [Servers -> BOOLEAN]
          /\ events \in [Servers -> Nat]
          /\ pc \in [Servers -> Starting \cup Handling \cup Gone \cup {"new", "idle"}]
          /\ dados \in [Servers -> Servers \cup {Nobody, Unset}]
          /\ repete_put \in [Servers -> Servers \cup {Nobody, Unset}]
          /\ sock_primary \in [Servers -> Servers \cup {Nobody, Unset}]

Init == /\ root = FALSE
        /\ znode = [name \in Names |-> Free]
        /\ session = [s \in Servers |-> FALSE]
        /\ watch = [s \in Servers |-> FALSE]
        /\ events = [s \in Servers |-> 0]
        /\ pc = [s \in Servers |-> "new"]
        /\ dados = [s \in Servers |-> Unset]
        /\ repete_put = [s \in Servers |-> Unset]
        /\ sock_primary = [s \in Servers |-> Unset]

-----------------------------------------------------------------------------
(* The ZooKeeper service. *)

\* zoo_exists answers ZNONODE; without a session it answers another error.
Absent(s, name) == session[s] /\ znode[name] = Free

\* Every watch that is set becomes one event and is gone.
Notify == /\ events' = [t \in Servers |-> IF watch[t] THEN events[t] + 1 ELSE events[t]]
          /\ watch' = [t \in Servers |-> FALSE]

Create(s, name, address) ==
    /\ znode' = [znode EXCEPT ![name] = [owner |-> s, data |-> address]]
    /\ Notify

\* A session ends: ZooKeeper removes its znodes.  That of a process that is gone
\* ends by the 2 s timeout; that of a live one if it is cut off for as long.
Expire(s) ==
    /\ session[s]
    /\ session' = [session EXCEPT ![s] = FALSE]
    /\ znode' = [name \in Names |-> IF Owns(s, name) THEN Free ELSE znode[name]]
    /\ IF \E name \in Names : Owns(s, name)
       THEN /\ events' = [t \in Servers |-> IF watch[t] /\ t # s THEN events[t] + 1 ELSE events[t]]
            /\ watch' = [t \in Servers |-> FALSE]
       ELSE /\ watch' = [watch EXCEPT ![s] = FALSE]
            /\ UNCHANGED events
    /\ UNCHANGED <<root, pc, memory>>

-----------------------------------------------------------------------------
(* The life of a process. *)

Goes(s, place) == pc' = [pc EXCEPT ![s] = place]

\* The process ends.  Its session, and so its znodes, outlive it.
Leaves(s, place) ==
    /\ Goes(s, place)
    /\ watch' = [watch EXCEPT ![s] = FALSE]
    /\ events' = [events EXCEPT ![s] = 0]
    /\ dados' = [dados EXCEPT ![s] = Unset]
    /\ repete_put' = [repete_put EXCEPT ![s] = Unset]
    /\ sock_primary' = [sock_primary EXCEPT ![s] = Unset]
    /\ UNCHANGED <<root, znode, session>>

Exits(s) == Leaves(s, "exited")

Crash(s) == Live(s) /\ Exits(s)

\* main: listen, then zookeeper_init.  A server that cannot listen says so and goes on
\* (tree_server.c:24-26); here every server has its port.
Begin(s) == /\ pc[s] = "new"
            /\ Goes(s, "exists root")
            /\ session' = [session EXCEPT ![s] = TRUE]
            /\ UNCHANGED <<root, znode, watch, events, memory>>

-----------------------------------------------------------------------------
(* tree_skel_init_private: take the first name that is free. *)

\* A call that changes nothing in ZooKeeper; its answer decides the next call.
Asks(s, place, next) == pc[s] = place /\ Goes(s, next) /\ UNCHANGED <<zookeeper, memory>>

ExistsRoot(s) ==
    Asks(s, "exists root",
         IF session[s] /\ ~root THEN "create root" ELSE "exists primary")

CreateRoot(s) == /\ pc[s] = "create root"
                 /\ IF session[s] /\ ~root
                    THEN /\ root' = TRUE
                         /\ Goes(s, "create primary")
                         /\ UNCHANGED <<znode, session, watch, events, memory>>
                    ELSE Exits(s)

ExistsPrimary(s) ==
    Asks(s, "exists primary",
         IF Absent(s, "primary") THEN "create primary" ELSE "exists backup")

ExistsBackup(s) ==
    /\ pc[s] = "exists backup"
    /\ IF Absent(s, "backup")
       THEN Goes(s, "create backup") /\ UNCHANGED <<zookeeper, memory>>
       ELSE Leaves(s, "refused")

\* zoo_create in tree_skel_init_private; a name that was taken meanwhile is fatal.
TakeName(s, name, place) ==
    /\ pc[s] = place
    /\ IF Absent(s, name)
       THEN /\ Create(s, name, s)
            /\ Goes(s, "set watch")
            /\ UNCHANGED <<root, session, memory>>
       ELSE Exits(s)

CreatePrimary(s) == TakeName(s, "primary", "create primary")
CreateBackup(s) == TakeName(s, "backup", "create backup")

\* The children that the first zoo_wget_children returns are never looked at.
SetWatch(s) == /\ pc[s] = "set watch"
               /\ IF session[s]
                  THEN /\ watch' = [watch EXCEPT ![s] = TRUE]
                       /\ Goes(s, "idle")
                       /\ UNCHANGED <<root, znode, session, events, memory>>
                  ELSE Exits(s)

StartUp(s) == \/ ExistsRoot(s) \/ CreateRoot(s)
              \/ ExistsPrimary(s) \/ CreatePrimary(s)
              \/ ExistsBackup(s) \/ CreateBackup(s)
              \/ SetWatch(s)

-----------------------------------------------------------------------------
(* child_watcher, on the ZooKeeper thread. *)

Children == {name \in Names : znode[name] # Free}

\* Mutant of Rearm: the one-shot watch is not set again.
RearmNever(s) == UNCHANGED watch

\* zoo_wget_children: the watch is set again before anything is decided.
Rearm(s) == watch' = [watch EXCEPT ![s] = TRUE]

\* One child event.  Unless there are two children the link to the other server
\* is closed.  Without a session the call fails and the count is garbage.
ChildEvent(s) ==
    /\ pc[s] = "idle"
    /\ events[s] > 0
    /\ IF session[s] THEN Rearm(s) ELSE UNCHANGED watch
    /\ \/ /\ session[s] => Children # Names
          /\ Goes(s, "check primary")
          /\ sock_primary' = [sock_primary EXCEPT ![s] = Nobody]
       \/ /\ session[s] => Children = Names
          /\ Goes(s, "read backup")
          /\ UNCHANGED sock_primary
    /\ events' = [events EXCEPT ![s] = @ - 1]
    /\ UNCHANGED <<root, znode, session, dados, repete_put>>

\* Without a session, walking the garbage list of children may also crash.
GarbageChildren(s) == pc[s] = "idle" /\ events[s] > 0 /\ ~session[s] /\ Exits(s)

\* Mutants of MustPromote: it asks for the wrong name; nobody takes over.
MustPromoteForBackup(s) == Absent(s, "backup")
MustPromoteNever(s) == FALSE

\* The primary is gone: the backup promotes itself.  Otherwise nothing is to do.
MustPromote(s) == Absent(s, "primary")

CheckPrimary(s) ==
    Asks(s, "check primary", IF MustPromote(s) THEN "read own name" ELSE "idle")

\* Mutants of Reads: the znode instead of its data; the primary's znode.
ReadsZnode(s) == IF session[s] THEN znode["backup"] ELSE Unset
ReadsPrimary(s) ==
    IF session[s] /\ znode["primary"] # Free THEN znode["primary"].data ELSE Unset

\* zoo_get of /kvstore/backup; dados is malloc'ed just before.
Reads(s) == IF session[s] /\ znode["backup"] # Free THEN znode["backup"].data ELSE Unset

ReadBackup(s, place, next) ==
    /\ pc[s] = place
    /\ Goes(s, next)
    /\ dados' = [dados EXCEPT ![s] = Reads(s)]
    /\ UNCHANGED <<zookeeper, repete_put, sock_primary>>

ReadOwnName(s) == ReadBackup(s, "read own name", "take primary")

TakePrimary(s) ==
    /\ pc[s] = "take primary"
    /\ IF Absent(s, "primary")
       THEN /\ Create(s, "primary", dados[s])
            /\ Goes(s, "delete backup")
            /\ UNCHANGED <<root, session, memory>>
       ELSE Exits(s)

\* Mutant of DeleteBackup: the old name is kept.
DeleteNothing(s) == Asks(s, "delete backup", "idle")

\* zoo_delete asks neither who owns the znode nor whether it worked.
DeleteBackup(s) ==
    /\ pc[s] = "delete backup"
    /\ Goes(s, "idle")
    /\ IF session[s] /\ znode["backup"] # Free
       THEN znode' = [znode EXCEPT !["backup"] = Free] /\ Notify
       ELSE UNCHANGED <<znode, watch, events>>
    /\ UNCHANGED <<root, session, memory>>

\* Two children: read the backup's address, watch again, and connect to it.
ReadBackupName(s) == ReadBackup(s, "read backup", "watch again")

WatchAgain(s) == /\ pc[s] = "watch again"
                 /\ Goes(s, "find backup")
                 /\ IF session[s] THEN Rearm(s) ELSE UNCHANGED watch
                 /\ UNCHANGED <<root, znode, session, events, memory>>

\* conecta reads the address again.  An answer that is no address leaves strtok
\* without a token, and atoi(NULL) ends the process.
FindBackup(s) ==
    /\ pc[s] = "find backup"
    /\ IF Reads(s) \in Servers
       THEN /\ repete_put' = [repete_put EXCEPT ![s] = Reads(s)]
            /\ Goes(s, "connect")
            /\ UNCHANGED <<zookeeper, dados, sock_primary>>
       ELSE Exits(s)

\* private_connect: whoever lives listens, this process included.
Connect(s) ==
    /\ pc[s] = "connect"
    /\ IF repete_put[s] \in Servers /\ Live(repete_put[s])
       THEN /\ sock_primary' = [sock_primary EXCEPT ![s] = repete_put[s]]
            /\ Goes(s, "idle")
            /\ UNCHANGED <<zookeeper, dados, repete_put>>
       ELSE Exits(s)

Promotion(s) == ReadOwnName(s) \/ TakePrimary(s) \/ DeleteBackup(s)
Join(s) == ReadBackupName(s) \/ WatchAgain(s) \/ FindBackup(s) \/ Connect(s)
Watcher(s) == ChildEvent(s) \/ GarbageChildren(s) \/ CheckPrimary(s) \/ Promotion(s) \/ Join(s)

-----------------------------------------------------------------------------
Step(s) == StartUp(s) \/ Watcher(s)

Next == \E s \in Servers : Begin(s) \/ Step(s) \/ Crash(s) \/ Expire(s)

Spec == Init /\ [][Next]_vars

\* The threads of a live process run; ZooKeeper times out whoever is gone.
Fairness == \A s \in Servers : /\ WF_vars(Step(s))
                               /\ WF_vars(pc[s] \in Gone /\ Expire(s))

FairSpec == Spec /\ Fairness

-----------------------------------------------------------------------------
(* Properties. *)

\* A server that promotes itself still holds the backup's name, so the address it
\* reads, publishes and deletes there is its own: the read of tree_skel.c:110 finds
\* a znode, and the zoo_delete of line 117, which asks nobody, removes no other
\* server's name.
PromoterOwnsBackup == \A s \in Servers :
    pc[s] \in Promoting /\ session[s] => Owns(s, "backup")

\* Whoever looks a name up is sent to the server that holds it, also after the
\* backup copied its address from one znode to the other.
AddressesAreOwners == \A name \in Names :
    znode[name].owner \in Servers => znode[name].data = znode[name].owner

\* No server keeps both names, which would keep every new server out: only one that
\* is about to delete the backup's name, or died there, has them.
OneNameEach == \A s \in Servers :
    Owns(s, "primary") /\ Owns(s, "backup") => pc[s] \in {"delete backup"} \cup Gone

\* A server with no event to handle that has handled one.
Settled(s) == /\ pc[s] = "idle"
              /\ events[s] = 0
              /\ session[s]
              /\ sock_primary[s] # Unset

\* The one-shot watch loses no change once it has fired: a settled server is linked
\* to the present backup, and to nobody when there are not two servers.
LinkIsCurrent == \A s \in Servers : Settled(s) =>
    sock_primary[s] = IF Children = Names THEN znode["backup"].data ELSE Nobody

\* A settled backup is never left alone with a primary's name that nobody holds.
NoLoneBackup == \A s \in Servers :
    Settled(s) /\ Owns(s, "backup") => znode["primary"] # Free

\* A backup without a primary.
Alone(s) == Live(s) /\ session[s] /\ Owns(s, "backup") /\ znode["primary"] = Free
Served(s) == znode["primary"] # Free \/ ~Live(s) \/ ~session[s]

\* A backup that has been told of a change, or is handling one, sees to it that
\* there is a primary again.
ToldBackupTakesOver == \A s \in Servers :
    Alone(s) /\ (events[s] > 0 \/ pc[s] \in Handling) ~> Served(s)

\* client_stub.c:63 says of a missing primary that the backup has become the main
\* server.
BackupTakesOver == \A s \in Servers : Alone(s) ~> Served(s)

\* tree_skel.c:280 says to a server it turns away that there are a primary and a
\* backup.
RefusedMeansTwo ==
    [][\A s \in Servers : pc[s] # "refused" /\ pc'[s] = "refused" /\ session[s] =>
          \E p, b \in Servers : p # b /\ Owns(p, "primary") /\ Owns(b, "backup")]_vars
=============================================================================

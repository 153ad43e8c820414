-------------------------- MODULE MembershipProofs --------------------------
(***************************************************************************)
(* Proofs about Membership for any set of processes.  The inductive        *)
(* invariant says of every server which names it holds at each place of    *)
(* its code (NamesOf), and that what it concluded from the children of     *)
(* /kvstore is still so unless an event waits for it (ViewOf).             *)
(***************************************************************************)
EXTENDS Membership, TLAPS

Places == Starting \cup Handling \cup Gone \cup {"new", "idle"}
Watching == Handling \cup {"idle"}
Nameless == (Starting \ {"set watch"}) \cup {"new"}
Addresses == Servers \cup {Nobody, Unset}

\* What server s holds: the name it took when it started, and while it promotes
\* itself the backup's, whose address it has read.
NamesOf(s) ==
    /\ session[s] /\ pc[s] \in Watching \cup {"set watch"} =>
          Owns(s, "primary") \/ Owns(s, "backup")
    /\ ~session[s] \/ pc[s] \in Nameless => ~Owns(s, "primary") /\ ~Owns(s, "backup")
    /\ session[s] /\ pc[s] \in Promoting => Owns(s, "backup")
    /\ session[s] /\ pc[s] = "delete backup" => Owns(s, "primary")
    /\ session[s] /\ pc[s] = "take primary" => dados[s] = s
    /\ Owns(s, "primary") /\ Owns(s, "backup") => pc[s] \in {"delete backup"} \cup Gone

NamesInv == TypeOK /\ AddressesAreOwners /\ \A s \in Servers : NamesOf(s)

Both == znode["primary"] # Free /\ znode["backup"] # Free

\* What server s knows: an event waits for it or its watch is set, and without an
\* event what it read of /kvstore is still there.
ViewOf(s) ==
    /\ pc[s] \in Starting \cup {"new"} => sock_primary[s] = Unset
    /\ session[s] =>
          /\ pc[s] \in Watching /\ events[s] = 0 => watch[s]
          /\ pc[s] = "delete backup" => events[s] # 0
          /\ events[s] = 0 =>
                /\ pc[s] = "check primary" => sock_primary[s] = Nobody /\ ~Both
                /\ pc[s] \in Joining => Both
                /\ pc[s] = "connect" => repete_put[s] = znode["backup"].data
                /\ pc[s] = "idle" /\ sock_primary[s] # Unset =>
                      /\ sock_primary[s] = IF Both THEN znode["backup"].data ELSE Nobody
                      /\ Owns(s, "backup") => znode["primary"] # Free

IInv == NamesInv /\ \A s \in Servers : ViewOf(s)

LEMMA InitHolds == Init => IInv
<1> SUFFICES ASSUME Init PROVE IInv
  OBVIOUS
<1>1. TypeOK BY DEF Init, TypeOK, Free
<1>2. AddressesAreOwners BY Outsiders DEF Init, AddressesAreOwners, Free
<1>3. ASSUME NEW s \in Servers PROVE NamesOf(s) /\ ViewOf(s)
  <2>1. ~session[s] /\ ~Owns(s, "primary") /\ ~Owns(s, "backup")
    BY Outsiders DEF Init, Owns, Names, Free
  <2>2. sock_primary[s] = Unset BY DEF Init
  <2> QED BY <2>1, <2>2 DEF NamesOf, ViewOf
<1> QED BY <1>1, <1>2, <1>3 DEF IInv, NamesInv

-----------------------------------------------------------------------------
(* Types *)

LEMMA GoesTypes ==
  ASSUME TypeOK, NEW s \in Servers, NEW place \in Places, Goes(s, place)
  PROVE  pc' \in [Servers -> Places]
BY DEF TypeOK, Goes, Places

LEMMA LeavesTypes ==
  ASSUME TypeOK, NEW s \in Servers, NEW place \in Gone, Leaves(s, place)
  PROVE  TypeOK'
<1>1. place \in Places BY DEF Places
<1>2. pc' \in [Servers -> Places] BY <1>1, GoesTypes DEF Leaves
<1> QED BY <1>2 DEF TypeOK, Leaves, Places

LEMMA ExitsTypes == ASSUME TypeOK, NEW s \in Servers, Exits(s) PROVE TypeOK'
<1>1. "exited" \in Gone BY DEF Gone
<1> QED BY <1>1, LeavesTypes DEF Exits

LEMMA NotifyTypes ==
  ASSUME TypeOK, Notify
  PROVE  events' \in [Servers -> Nat] /\ watch' \in [Servers -> BOOLEAN]
BY DEF TypeOK, Notify

LEMMA CreateTypes ==
  ASSUME TypeOK, NEW s \in Servers, NEW name \in Names, NEW address \in Addresses,
         Create(s, name, address), UNCHANGED <<root, session, memory>>,
         NEW place \in Places, Goes(s, place)
  PROVE  TypeOK'
<1>1. events' \in [Servers -> Nat] /\ watch' \in [Servers -> BOOLEAN]
  BY NotifyTypes DEF Create
<1>2. znode' \in [Names -> [owner : Servers \cup {Nobody}, data : Addresses]]
  BY DEF TypeOK, Create, Addresses
<1>3. pc' \in [Servers -> Places] BY GoesTypes
<1> QED BY <1>1, <1>2, <1>3 DEF TypeOK, memory, Places, Addresses

LEMMA ReadsTypes == ASSUME TypeOK, NEW s \in Servers PROVE Reads(s) \in Addresses
BY DEF TypeOK, Reads, Names, Addresses

\* Only the place of a server changes.
LEMMA MoveTypes ==
  ASSUME TypeOK, NEW s \in Servers, NEW place \in Places, Goes(s, place),
         UNCHANGED <<zookeeper, memory>>
  PROVE  TypeOK'
<1>1. pc' \in [Servers -> Places] BY GoesTypes
<1> QED BY <1>1 DEF TypeOK, zookeeper, memory, Places

LEMMA PlaceNames ==
  {"exists root", "create root", "create primary", "exists primary", "exists backup",
   "create backup", "set watch", "idle", "check primary", "read own name", "take primary",
   "delete backup", "read backup", "watch again", "find backup", "connect"} \subseteq Places
BY DEF Places, Starting, Handling, Promoting, Joining

LEMMA OneLess == ASSUME NEW n \in Nat, n > 0 PROVE n - 1 \in Nat
OBVIOUS

LEMMA ExpireTypes == ASSUME TypeOK, NEW s \in Servers, Expire(s) PROVE TypeOK'
<1>1. events' \in [Servers -> Nat]
  <2>1. CASE \E name \in Names : Owns(s, name)
    <3>1. events' = [t \in Servers |-> IF watch[t] /\ t # s THEN events[t] + 1 ELSE events[t]]
      BY <2>1 DEF Expire
    <3> QED BY <3>1 DEF TypeOK
  <2>2. CASE ~\E name \in Names : Owns(s, name) BY <2>2 DEF Expire, TypeOK
  <2> QED BY <2>1, <2>2
<1>2. watch' \in [Servers -> BOOLEAN] BY DEF Expire, TypeOK
<1>3. znode' \in [Names -> [owner : Servers \cup {Nobody}, data : Addresses]]
  BY DEF Expire, TypeOK, Addresses, Free
<1> QED BY <1>1, <1>2, <1>3 DEF Expire, TypeOK, memory, Addresses

LEMMA TypeStep ==
  ASSUME TypeOK, NEW s \in Servers, Begin(s) \/ Step(s) \/ Crash(s) \/ Expire(s)
  PROVE  TypeOK'
<1> USE PlaceNames
<1>1. CASE Begin(s)
  <2>1. pc' \in [Servers -> Places] BY <1>1, GoesTypes DEF Begin
  <2> QED BY <1>1, <2>1 DEF Begin, TypeOK, memory, Places
<1>2. CASE ExistsRoot(s) BY <1>2, MoveTypes DEF ExistsRoot, Asks
<1>3. CASE CreateRoot(s)
  <2>1. CASE session[s] /\ ~root
    <3>1. pc' \in [Servers -> Places] BY <1>3, <2>1, GoesTypes DEF CreateRoot
    <3> QED BY <1>3, <2>1, <3>1 DEF CreateRoot, TypeOK, memory, Places
  <2>2. CASE ~(session[s] /\ ~root) BY <1>3, <2>2, ExitsTypes DEF CreateRoot
  <2> QED BY <2>1, <2>2
<1>4. CASE ExistsPrimary(s) BY <1>4, MoveTypes DEF ExistsPrimary, Asks
<1>5. ASSUME NEW name \in Names, NEW place, TakeName(s, name, place) PROVE TypeOK'
  <2>1. CASE Absent(s, name)
    BY <1>5, <2>1, CreateTypes DEF TakeName, Addresses
  <2>2. CASE ~Absent(s, name) BY <1>5, <2>2, ExitsTypes DEF TakeName
  <2> QED BY <2>1, <2>2
<1>6. CASE ExistsBackup(s)
  <2>1. CASE Absent(s, "backup") BY <1>6, <2>1, MoveTypes DEF ExistsBackup
  <2>2. CASE ~Absent(s, "backup")
    <3>1. "refused" \in Gone BY DEF Gone
    <3> QED BY <1>6, <2>2, <3>1, LeavesTypes DEF ExistsBackup
  <2> QED BY <2>1, <2>2
<1>7. CASE SetWatch(s)
  <2>1. CASE session[s]
    <3>1. pc' \in [Servers -> Places] BY <1>7, <2>1, GoesTypes DEF SetWatch
    <3> QED BY <1>7, <2>1, <3>1 DEF SetWatch, TypeOK, memory, Places
  <2>2. CASE ~session[s] BY <1>7, <2>2, ExitsTypes DEF SetWatch
  <2> QED BY <2>1, <2>2
<1>8. CASE ChildEvent(s)
  <2>1. pc' \in [Servers -> Places] BY <1>8, GoesTypes DEF ChildEvent
  <2>2. watch' \in [Servers -> BOOLEAN] BY <1>8 DEF ChildEvent, Rearm, TypeOK
  <2>3. events[s] - 1 \in Nat
    <3>1. events[s] \in Nat /\ events[s] > 0 BY <1>8 DEF ChildEvent, TypeOK
    <3> QED BY <3>1, OneLess
  <2>4. events' \in [Servers -> Nat] BY <1>8, <2>3 DEF ChildEvent, TypeOK
  <2>5. sock_primary' \in [Servers -> Addresses]
    BY <1>8 DEF ChildEvent, TypeOK, Addresses
  <2> QED BY <1>8, <2>1, <2>2, <2>4, <2>5 DEF ChildEvent, TypeOK, Places, Addresses
<1>9. CASE GarbageChildren(s) \/ Crash(s) BY <1>9, ExitsTypes DEF GarbageChildren, Crash
<1>10. CASE CheckPrimary(s) BY <1>10, MoveTypes DEF CheckPrimary, Asks
<1>11. ASSUME NEW place, NEW next \in Places, ReadBackup(s, place, next) PROVE TypeOK'
  <2>1. pc' \in [Servers -> Places] BY <1>11, GoesTypes DEF ReadBackup
  <2>2. dados' \in [Servers -> Addresses]
    BY <1>11, ReadsTypes DEF ReadBackup, TypeOK, Addresses
  <2> QED BY <1>11, <2>1, <2>2 DEF ReadBackup, TypeOK, zookeeper, Places, Addresses
<1>12. CASE TakePrimary(s)
  <2>1. CASE Absent(s, "primary")
    <3>1. dados[s] \in Addresses /\ "primary" \in Names BY DEF TypeOK, Addresses, Names
    <3> QED BY <1>12, <2>1, <3>1, CreateTypes DEF TakePrimary
  <2>2. CASE ~Absent(s, "primary") BY <1>12, <2>2, ExitsTypes DEF TakePrimary
  <2> QED BY <2>1, <2>2
<1>13. CASE DeleteBackup(s)
  <2>1. pc' \in [Servers -> Places] BY <1>13, GoesTypes DEF DeleteBackup
  <2>2. events' \in [Servers -> Nat] /\ watch' \in [Servers -> BOOLEAN]
    BY <1>13, NotifyTypes DEF DeleteBackup, TypeOK
  <2>3. znode' \in [Names -> [owner : Servers \cup {Nobody}, data : Addresses]]
    <3>1. Free \in [owner : Servers \cup {Nobody}, data : Addresses] BY DEF Free, Addresses
    <3> QED BY <1>13, <3>1 DEF DeleteBackup, TypeOK, Addresses
  <2> QED BY <1>13, <2>1, <2>2, <2>3 DEF DeleteBackup, TypeOK, memory, Places, Addresses
<1>14. CASE WatchAgain(s)
  <2>1. pc' \in [Servers -> Places] BY <1>14, GoesTypes DEF WatchAgain
  <2>2. watch' \in [Servers -> BOOLEAN] BY <1>14 DEF WatchAgain, Rearm, TypeOK
  <2> QED BY <1>14, <2>1, <2>2 DEF WatchAgain, TypeOK, memory, Places
<1>15. CASE FindBackup(s)
  <2>1. CASE Reads(s) \in Servers
    <3>1. pc' \in [Servers -> Places] BY <1>15, <2>1, GoesTypes DEF FindBackup
    <3>2. repete_put' \in [Servers -> Addresses]
      BY <1>15, <2>1 DEF FindBackup, TypeOK, Addresses
    <3> QED BY <1>15, <2>1, <3>1, <3>2 DEF FindBackup, TypeOK, zookeeper, Places, Addresses
  <2>2. CASE Reads(s) \notin Servers BY <1>15, <2>2, ExitsTypes DEF FindBackup
  <2> QED BY <2>1, <2>2
<1>16. CASE Connect(s)
  <2> DEFINE listens == repete_put[s] \in Servers /\ Live(repete_put[s])
  <2>1. CASE listens
    <3>1. pc' \in [Servers -> Places] BY <1>16, <2>1, GoesTypes DEF Connect
    <3>2. sock_primary' \in [Servers -> Addresses]
      BY <1>16, <2>1 DEF Connect, TypeOK, Addresses
    <3> QED BY <1>16, <2>1, <3>1, <3>2 DEF Connect, TypeOK, zookeeper, Places, Addresses
  <2>2. CASE ~listens BY <1>16, <2>2, ExitsTypes DEF Connect
  <2> QED BY <2>1, <2>2
<1>17. CASE Expire(s) BY <1>17, ExpireTypes
<1>18. CASE CreatePrimary(s) \/ CreateBackup(s)
  BY <1>5, <1>18 DEF CreatePrimary, CreateBackup, Names
<1>19. CASE ReadOwnName(s) \/ ReadBackupName(s)
  BY <1>11, <1>19 DEF ReadOwnName, ReadBackupName
<1> QED BY <1>1, <1>2, <1>3, <1>4, <1>6, <1>7, <1>8, <1>9, <1>10, <1>12, <1>13, <1>14,
           <1>15, <1>16, <1>17, <1>18, <1>19 DEF Step, StartUp, Watcher, Promotion, Join

-----------------------------------------------------------------------------
(* A step of one server leaves the memory of the others alone. *)

OthersStand(s) == \A t \in Servers \ {s} :
    /\ pc'[t] = pc[t]
    /\ dados'[t] = dados[t]
    /\ repete_put'[t] = repete_put[t]
    /\ sock_primary'[t] = sock_primary[t]
    /\ session'[t] = session[t]

LEMMA OneMoves ==
  ASSUME TypeOK, NEW s \in Servers, NEW place, Goes(s, place), UNCHANGED <<session, memory>>
  PROVE  OthersStand(s)
BY DEF TypeOK, Goes, memory, OthersStand

LEMMA LeavesStands ==
  ASSUME TypeOK, NEW s \in Servers, NEW place, Leaves(s, place)
  PROVE  OthersStand(s)
BY DEF TypeOK, Goes, Leaves, OthersStand

LEMMA OthersStandStill ==
  ASSUME TypeOK, NEW s \in Servers, Begin(s) \/ Step(s) \/ Crash(s) \/ Expire(s)
  PROVE  OthersStand(s)
<1>1. CASE Begin(s) BY <1>1 DEF Begin, Goes, memory, OthersStand, TypeOK
<1>2. CASE Expire(s) BY <1>2 DEF Expire, memory, OthersStand, TypeOK
<1>3. CASE Crash(s) \/ GarbageChildren(s)
  BY <1>3, LeavesStands DEF Crash, GarbageChildren, Exits
<1>4. CASE ExistsRoot(s) \/ ExistsPrimary(s) \/ CheckPrimary(s)
  BY <1>4, OneMoves DEF ExistsRoot, ExistsPrimary, CheckPrimary, Asks, zookeeper
<1>5. CASE CreateRoot(s) \/ ExistsBackup(s) \/ SetWatch(s)
  BY <1>5, OneMoves, LeavesStands
  DEF CreateRoot, ExistsBackup, SetWatch, Exits, zookeeper
<1>6. CASE CreatePrimary(s) \/ CreateBackup(s) \/ TakePrimary(s)
  BY <1>6, OneMoves, LeavesStands DEF CreatePrimary, CreateBackup, TakeName, TakePrimary, Exits
<1>7. CASE ChildEvent(s) BY <1>7 DEF ChildEvent, Goes, OthersStand, TypeOK
<1>8. CASE ReadOwnName(s) \/ ReadBackupName(s)
  BY <1>8 DEF ReadOwnName, ReadBackupName, ReadBackup, Goes, OthersStand, zookeeper, TypeOK
<1>9. CASE DeleteBackup(s) \/ WatchAgain(s)
  BY <1>9, OneMoves DEF DeleteBackup, WatchAgain
<1>10. CASE FindBackup(s)
  <2>1. CASE Reads(s) \in Servers
    BY <1>10, <2>1 DEF FindBackup, Goes, OthersStand, zookeeper, TypeOK
  <2>2. CASE Reads(s) \notin Servers BY <1>10, <2>2, LeavesStands DEF FindBackup, Exits
  <2> QED BY <2>1, <2>2
<1>11. CASE Connect(s)
  <2> DEFINE listens == repete_put[s] \in Servers /\ Live(repete_put[s])
  <2>1. CASE listens BY <1>11, <2>1 DEF Connect, Goes, OthersStand, zookeeper, TypeOK
  <2>2. CASE ~listens BY <1>11, <2>2, LeavesStands DEF Connect, Exits
  <2> QED BY <2>1, <2>2
<1> QED BY <1>1, <1>2, <1>3, <1>4, <1>5, <1>6, <1>7, <1>8, <1>9, <1>10, <1>11
        DEF Step, StartUp, Watcher, Promotion, Join

-----------------------------------------------------------------------------
(* Names *)

LEMMA NamesFrame ==
  ASSUME NEW s \in Servers, OthersStand(s), NEW t \in Servers \ {s}, NamesOf(t),
         \A name \in Names : Owns(t, name)' <=> Owns(t, name)
  PROVE  NamesOf(t)'
<1>1. /\ pc'[t] = pc[t] /\ dados'[t] = dados[t] /\ session'[t] = session[t]
  BY DEF OthersStand
<1> QED BY <1>1 DEF NamesOf, Names

\* A step that changes no znode.
LEMMA NamesKept ==
  ASSUME NamesInv, NEW s \in Servers, OthersStand(s), UNCHANGED znode, NamesOf(s)'
  PROVE  AddressesAreOwners' /\ \A t \in Servers : NamesOf(t)'
<1>1. AddressesAreOwners' BY DEF NamesInv, AddressesAreOwners
<1>2. ASSUME NEW t \in Servers \ {s} PROVE NamesOf(t)'
  <2>1. \A name \in Names : Owns(t, name)' <=> Owns(t, name) BY DEF Owns
  <2> QED BY <2>1, NamesFrame DEF NamesInv
<1> QED BY <1>1, <1>2

LEMMA CreateNames ==
  ASSUME NamesInv, NEW s \in Servers, OthersStand(s), NEW name \in Names, Absent(s, name),
         Create(s, name, s), NamesOf(s)'
  PROVE  AddressesAreOwners' /\ \A t \in Servers : NamesOf(t)'
<1>1. /\ znode'[name] = [owner |-> s, data |-> s]
      /\ \A other \in Names \ {name} : znode'[other] = znode[other]
  BY DEF NamesInv, TypeOK, Create
<1>2. AddressesAreOwners' BY <1>1 DEF NamesInv, AddressesAreOwners
<1>3. ASSUME NEW t \in Servers \ {s} PROVE NamesOf(t)'
  <2>1. \A n \in Names : Owns(t, n)' <=> Owns(t, n)
    BY <1>1, Outsiders DEF Owns, Absent, Free
  <2> QED BY <2>1, NamesFrame DEF NamesInv
<1> QED BY <1>2, <1>3

LEMMA LeavesNames ==
  ASSUME NamesInv, NEW s \in Servers, NEW place \in Gone, Leaves(s, place)
  PROVE  NamesInv'
<1>1. OthersStand(s) BY LeavesStands DEF NamesInv
<1>2. NamesOf(s)'
  <2>1. pc'[s] = place /\ session' = session /\ znode' = znode
    BY DEF Leaves, Goes, NamesInv, TypeOK
  <2>2. NamesOf(s) BY DEF NamesInv
  <2> QED BY <2>1, <2>2
      DEF NamesOf, Owns, Watching, Nameless, Gone, Handling, Promoting, Joining, Starting
<1>3. UNCHANGED znode BY DEF Leaves
<1> QED BY <1>1, <1>2, <1>3, NamesKept, LeavesTypes DEF NamesInv

LEMMA ExitsNames == ASSUME NamesInv, NEW s \in Servers, Exits(s) PROVE NamesInv'
<1>1. "exited" \in Gone BY DEF Gone
<1> QED BY <1>1, LeavesNames DEF Exits

\* A step from place to next that changes neither znodes nor sessions nor dados.
LEMMA MoveNames ==
  ASSUME NamesInv, NEW s \in Servers, NEW place, NEW next,
         pc[s] = place, Goes(s, next), UNCHANGED <<znode, session, dados>>,
         \/ place \in Nameless /\ next \in Nameless
         \/ place = "set watch" /\ next = "idle"
         \/ place \in Watching \ Promoting /\ next \in Watching \ Promoting
  PROVE  NamesOf(s)'
<1>1. pc'[s] = next BY DEF Goes, NamesInv, TypeOK
<1>2. NamesOf(s) BY DEF NamesInv
<1>3. next \in Nameless \/ next \in Watching \ Promoting
  BY DEF Watching, Nameless, Promoting, Handling
<1>4. place = "set watch" \/ place \in Nameless \/ place \in Watching \ Promoting
  BY DEF Watching, Nameless
<1> QED BY <1>1, <1>2, <1>3, <1>4
    DEF NamesOf, Owns, Watching, Nameless, Gone, Handling, Promoting, Joining, Starting

LEMMA NamesStep ==
  ASSUME NamesInv, NEW s \in Servers, Begin(s) \/ Step(s) \/ Crash(s) \/ Expire(s)
  PROVE  NamesInv'
<1>1. TypeOK' BY TypeStep DEF NamesInv
<1>2. OthersStand(s) BY OthersStandStill DEF NamesInv
<1>3. ASSUME UNCHANGED znode, NamesOf(s)' PROVE NamesInv'
  BY <1>1, <1>2, <1>3, NamesKept DEF NamesInv
<1>4. TypeOK /\ NamesOf(s) BY DEF NamesInv
<1>5. CASE Begin(s)
  <2>1. pc[s] = "new" /\ pc'[s] = "exists root" /\ session'[s] /\ UNCHANGED znode
    BY <1>4, <1>5 DEF Begin, Goes, TypeOK
  <2>2. NamesOf(s)'
    BY <1>4, <2>1
    DEF NamesOf, Owns, Watching, Nameless, Gone, Handling, Promoting, Joining, Starting
  <2> QED BY <1>3, <2>1, <2>2
<1>6. CASE ExistsRoot(s) \/ ExistsPrimary(s)
  <2>1. NamesOf(s)'
    BY <1>6, MoveNames DEF ExistsRoot, ExistsPrimary, Asks, Nameless, Starting, zookeeper, memory
  <2> QED BY <1>3, <1>6, <2>1 DEF ExistsRoot, ExistsPrimary, Asks, zookeeper
<1>7. CASE CreateRoot(s)
  <2>1. CASE session[s] /\ ~root
    <3>1. NamesOf(s)'
      BY <1>7, <2>1, MoveNames DEF CreateRoot, Nameless, Starting, memory
    <3> QED BY <1>3, <1>7, <2>1, <3>1 DEF CreateRoot
  <2>2. CASE ~(session[s] /\ ~root) BY <1>7, <2>2, ExitsNames DEF CreateRoot
  <2> QED BY <2>1, <2>2
<1>8. ASSUME NEW name \in Names, NEW place \in Nameless, TakeName(s, name, place) PROVE NamesInv'
  <2>1. CASE Absent(s, name)
    <3>1. pc[s] = place /\ pc'[s] = "set watch" /\ session' = session
      BY <1>4, <1>8, <2>1 DEF TakeName, Goes, TypeOK
    <3>2. Owns(s, name)' /\ \A other \in Names \ {name} : ~Owns(s, other)'
      <4>1. /\ znode'[name] = [owner |-> s, data |-> s]
            /\ \A other \in Names \ {name} : znode'[other] = znode[other]
        BY <1>4, <1>8, <2>1 DEF TakeName, Create, TypeOK
      <4>2. \A n \in Names : ~Owns(s, n)
        <5>1. ~Owns(s, "primary") /\ ~Owns(s, "backup") BY <1>4, <3>1 DEF NamesOf
        <5> QED BY <5>1 DEF Names
      <4> QED BY <4>1, <4>2 DEF Owns
    <3>3. session'[s] BY <2>1, <3>1 DEF Absent
    <3>4. NamesOf(s)'
      BY <3>1, <3>2, <3>3
      DEF NamesOf, Names, Watching, Nameless, Gone, Handling, Promoting, Joining, Starting
    <3> QED BY <1>1, <1>2, <1>8, <2>1, <3>4, CreateNames DEF TakeName, NamesInv
  <2>2. CASE ~Absent(s, name) BY <1>8, <2>2, ExitsNames DEF TakeName
  <2> QED BY <2>1, <2>2
<1>9. CASE CreatePrimary(s) \/ CreateBackup(s)
  BY <1>8, <1>9 DEF CreatePrimary, CreateBackup, Names, Nameless, Starting
<1>10. CASE ExistsBackup(s)
  <2>1. CASE Absent(s, "backup")
    <3>1. NamesOf(s)'
      BY <1>10, <2>1, MoveNames DEF ExistsBackup, Nameless, Starting, zookeeper, memory
    <3> QED BY <1>3, <1>10, <2>1, <3>1 DEF ExistsBackup, zookeeper
  <2>2. CASE ~Absent(s, "backup")
    <3>1. "refused" \in Gone BY DEF Gone
    <3> QED BY <1>10, <2>2, <3>1, LeavesNames DEF ExistsBackup
  <2> QED BY <2>1, <2>2
<1>11. CASE SetWatch(s)
  <2>1. CASE session[s]
    <3>1. NamesOf(s)' BY <1>11, <2>1, MoveNames DEF SetWatch, memory
    <3> QED BY <1>3, <1>11, <2>1, <3>1 DEF SetWatch
  <2>2. CASE ~session[s] BY <1>11, <2>2, ExitsNames DEF SetWatch
  <2> QED BY <2>1, <2>2
<1>12. CASE ChildEvent(s)
  <2>1. NamesOf(s)'
    BY <1>12, MoveNames DEF ChildEvent, Watching, Handling, Joining, Promoting
  <2> QED BY <1>3, <1>12, <2>1 DEF ChildEvent
<1>13. CASE GarbageChildren(s) \/ Crash(s) BY <1>13, ExitsNames DEF GarbageChildren, Crash
<1>14. CASE CheckPrimary(s)
  <2>1. CASE MustPromote(s)
    <3>1. /\ pc[s] = "check primary" /\ pc'[s] = "read own name"
          /\ session' = session /\ znode' = znode
      BY <1>4, <1>14, <2>1 DEF CheckPrimary, Asks, Goes, zookeeper, TypeOK
    <3>2. session[s] /\ ~Owns(s, "primary")
      BY <2>1, Outsiders DEF MustPromote, Absent, Owns, Free
    <3>3. Owns(s, "backup") BY <1>4, <3>1, <3>2 DEF NamesOf, Watching, Handling
    <3>4. NamesOf(s)'
      BY <3>1, <3>2, <3>3
      DEF NamesOf, Owns, Watching, Nameless, Gone, Handling, Promoting, Joining, Starting
    <3> QED BY <1>3, <3>1, <3>4
  <2>2. CASE ~MustPromote(s)
    <3>1. NamesOf(s)'
      BY <1>14, <2>2, MoveNames
      DEF CheckPrimary, Asks, Watching, Handling, Promoting, Joining, zookeeper, memory
    <3> QED BY <1>3, <1>14, <3>1 DEF CheckPrimary, Asks, zookeeper
  <2> QED BY <2>1, <2>2
<1>15. CASE ReadOwnName(s)
  <2>1. /\ pc[s] = "read own name" /\ pc'[s] = "take primary" /\ dados'[s] = Reads(s)
        /\ session' = session /\ znode' = znode
    BY <1>4, <1>15 DEF ReadOwnName, ReadBackup, Goes, zookeeper, TypeOK
  <2>2. session[s] => Owns(s, "backup") BY <1>4, <2>1 DEF NamesOf, Promoting
  <2>3. session[s] => Reads(s) = s
    BY <2>2, Outsiders DEF Reads, Owns, Free, NamesInv, AddressesAreOwners, Names
  <2>4. NamesOf(s)'
    BY <1>4, <2>1, <2>2, <2>3
    DEF NamesOf, Owns, Watching, Nameless, Gone, Handling, Promoting, Joining, Starting
  <2> QED BY <1>3, <2>1, <2>4
<1>16. CASE TakePrimary(s)
  <2>1. CASE Absent(s, "primary")
    <3>1. pc[s] = "take primary" /\ session[s] /\ dados[s] = s /\ Owns(s, "backup")
      BY <1>4, <1>16, <2>1 DEF TakePrimary, Absent, NamesOf, Promoting
    <3>2. Create(s, "primary", s) BY <1>16, <2>1, <3>1 DEF TakePrimary
    <3>3. /\ pc'[s] = "delete backup" /\ session' = session
          /\ znode'["primary"].owner = s /\ znode'["backup"] = znode["backup"]
      BY <1>4, <1>16, <2>1, <3>2 DEF TakePrimary, Create, Goes, TypeOK, Names
    <3>4. NamesOf(s)'
      BY <3>1, <3>3
      DEF NamesOf, Owns, Watching, Nameless, Gone, Handling, Promoting, Joining, Starting
    <3> QED BY <1>1, <1>2, <2>1, <3>2, <3>4, CreateNames DEF NamesInv, Names
  <2>2. CASE ~Absent(s, "primary") BY <1>16, <2>2, ExitsNames DEF TakePrimary
  <2> QED BY <2>1, <2>2
<1>17. CASE DeleteBackup(s)
  <2>1. pc[s] = "delete backup" /\ pc'[s] = "idle" /\ session' = session
    BY <1>4, <1>17 DEF DeleteBackup, Goes, TypeOK
  <2>2. CASE session[s]
    <3>1. Owns(s, "backup") /\ Owns(s, "primary")
      BY <1>4, <2>1, <2>2 DEF NamesOf, Promoting
    <3>2. znode["backup"] # Free BY <3>1, Outsiders DEF Owns, Free
    <3>3. znode'["backup"] = Free /\ znode'["primary"] = znode["primary"]
      BY <1>4, <1>17, <2>2, <3>2 DEF DeleteBackup, TypeOK, Names
    <3>4. AddressesAreOwners'
      BY <3>3, Outsiders DEF NamesInv, AddressesAreOwners, Names, Free
    <3>5. NamesOf(s)'
      <4>1. Owns(s, "primary")' /\ ~Owns(s, "backup")'
        BY <3>1, <3>3, Outsiders DEF Owns, Free
      <4> QED BY <2>1, <2>2, <4>1 DEF NamesOf, Nameless, Promoting, Starting
    <3>6. ASSUME NEW t \in Servers \ {s} PROVE NamesOf(t)'
      <4>1. \A name \in Names : Owns(t, name)' <=> Owns(t, name)
        BY <3>1, <3>3, Outsiders DEF Owns, Names, Free
      <4> QED BY <1>2, <4>1, NamesFrame DEF NamesInv
    <3> QED BY <1>1, <3>4, <3>5, <3>6 DEF NamesInv
  <2>3. CASE ~session[s]
    <3>1. UNCHANGED znode BY <1>17, <2>3 DEF DeleteBackup
    <3>2. ~Owns(s, "primary") /\ ~Owns(s, "backup") BY <1>4, <2>3 DEF NamesOf
    <3>3. NamesOf(s)' BY <2>1, <2>3, <3>1, <3>2 DEF NamesOf, Owns
    <3> QED BY <1>3, <3>1, <3>3
  <2> QED BY <2>2, <2>3
<1>18. CASE ReadBackupName(s)
  <2>1. /\ pc[s] = "read backup" /\ pc'[s] = "watch again"
        /\ session' = session /\ znode' = znode
    BY <1>4, <1>18 DEF ReadBackupName, ReadBackup, Goes, zookeeper, TypeOK
  <2>2. NamesOf(s)'
    BY <1>4, <2>1
    DEF NamesOf, Owns, Watching, Nameless, Gone, Handling, Promoting, Joining, Starting
  <2> QED BY <1>3, <2>1, <2>2
<1>19. CASE WatchAgain(s)
  <2>1. NamesOf(s)'
    BY <1>19, MoveNames DEF WatchAgain, Watching, Handling, Joining, Promoting, memory
  <2> QED BY <1>3, <1>19, <2>1 DEF WatchAgain
<1>20. CASE FindBackup(s)
  <2>1. CASE Reads(s) \in Servers
    <3>1. NamesOf(s)'
      BY <1>20, <2>1, MoveNames
      DEF FindBackup, Watching, Handling, Joining, Promoting, zookeeper
    <3> QED BY <1>3, <1>20, <2>1, <3>1 DEF FindBackup, zookeeper
  <2>2. CASE Reads(s) \notin Servers BY <1>20, <2>2, ExitsNames DEF FindBackup
  <2> QED BY <2>1, <2>2
<1>21. CASE Connect(s)
  <2> DEFINE listens == repete_put[s] \in Servers /\ Live(repete_put[s])
  <2>1. CASE listens
    <3>1. NamesOf(s)'
      BY <1>21, <2>1, MoveNames DEF Connect, Watching, Handling, Joining, Promoting, zookeeper
    <3> QED BY <1>3, <1>21, <2>1, <3>1 DEF Connect, zookeeper
  <2>2. CASE ~listens BY <1>21, <2>2, ExitsNames DEF Connect
  <2> QED BY <2>1, <2>2
<1>22. CASE Expire(s)
  <2>1. pc' = pc /\ ~session'[s] BY <1>4, <1>22 DEF Expire, TypeOK
  <2>2. \A name \in Names : znode'[name] = IF Owns(s, name) THEN Free ELSE znode[name]
    BY <1>22 DEF Expire
  <2>3. AddressesAreOwners'
    BY <2>2, Outsiders DEF NamesInv, AddressesAreOwners, Free
  <2>4. NamesOf(s)'
    <3>1. \A name \in Names : znode'[name].owner # s BY <2>2, Outsiders DEF Owns, Free
    <3>2. ~Owns(s, "primary")' /\ ~Owns(s, "backup")' BY <3>1 DEF Owns, Names
    <3> QED BY <2>1, <3>2 DEF NamesOf
  <2>5. ASSUME NEW t \in Servers \ {s} PROVE NamesOf(t)'
    <3>1. \A name \in Names : Owns(t, name)' <=> Owns(t, name)
      BY <2>2, Outsiders DEF Owns, Free
    <3> QED BY <1>2, <3>1, NamesFrame DEF NamesInv
  <2> QED BY <1>1, <2>3, <2>4, <2>5 DEF NamesInv
<1> QED BY <1>5, <1>6, <1>7, <1>9, <1>10, <1>11, <1>12, <1>13, <1>14, <1>15, <1>16, <1>17,
           <1>18, <1>19, <1>20, <1>21, <1>22 DEF Step, StartUp, Watcher, Promotion, Join
-----------------------------------------------------------------------------
(* What a server knows *)

LEMMA ChildrenBoth == Children = Names <=> Both
<1>1. "primary" \in Names /\ "backup" \in Names BY DEF Names
<1>2. ASSUME Both PROVE Children = Names BY <1>2 DEF Both, Children, Names
<1>3. ASSUME Children = Names PROVE Both BY <1>1, <1>3 DEF Both, Children
<1> QED BY <1>2, <1>3

Told(t) == events'[t] = IF watch[t] THEN events[t] + 1 ELSE events[t]
Untold(t) == /\ \A name \in Names : znode'[name] = znode[name]
             /\ watch'[t] = watch[t]
             /\ events'[t] = events[t]

LEMMA ToldHasEvent ==
  ASSUME TypeOK, NEW t \in Servers, events[t] = 0 => watch[t], Told(t)
  PROVE  events'[t] # 0
<1>1. events[t] \in Nat BY DEF TypeOK
<1>2. CASE watch[t] BY <1>1, <1>2 DEF Told
<1>3. CASE ~watch[t] BY <1>3 DEF Told
<1> QED BY <1>2, <1>3

LEMMA ViewFrame ==
  ASSUME TypeOK, NEW s \in Servers, OthersStand(s), NEW t \in Servers \ {s}, ViewOf(t),
         Told(t) \/ Untold(t)
  PROVE  ViewOf(t)'
<1>1. /\ pc'[t] = pc[t] /\ session'[t] = session[t]
      /\ repete_put'[t] = repete_put[t] /\ sock_primary'[t] = sock_primary[t]
  BY DEF OthersStand
<1>2. CASE Untold(t) BY <1>1, <1>2 DEF ViewOf, Untold, Both, Owns, Names
<1>3. CASE Told(t)
  <2>1. session[t] /\ pc[t] \in Watching => events'[t] # 0
    BY <1>3, ToldHasEvent DEF ViewOf
  <2> QED BY <1>1, <2>1 DEF ViewOf, Watching, Handling, Promoting, Joining, Starting
<1> QED BY <1>2, <1>3

\* Every step that changes a znode tells the other servers that watch.
OthersHear(s) == \A t \in Servers \ {s} : Told(t) \/ Untold(t)

LEMMA NotifyHeard == ASSUME NEW s \in Servers, Notify PROVE OthersHear(s)
BY DEF Notify, OthersHear, Told

LEMMA LeavesHeard ==
  ASSUME TypeOK, NEW s \in Servers, NEW place, Leaves(s, place)
  PROVE  OthersHear(s)
BY DEF TypeOK, Leaves, OthersHear, Untold

LEMMA QuietHeard ==
  ASSUME NEW s \in Servers, UNCHANGED <<znode, watch, events>>
  PROVE  OthersHear(s)
BY DEF OthersHear, Untold

LEMMA OthersHearStep ==
  ASSUME TypeOK, NEW s \in Servers, Begin(s) \/ Step(s) \/ Crash(s) \/ Expire(s)
  PROVE  OthersHear(s)
<1>1. CASE Begin(s) BY <1>1, QuietHeard DEF Begin
<1>2. CASE Expire(s)
  <2>1. CASE \E name \in Names : Owns(s, name)
    BY <1>2, <2>1 DEF Expire, OthersHear, Told
  <2>2. CASE ~\E name \in Names : Owns(s, name)
    BY <1>2, <2>2 DEF Expire, OthersHear, Untold, TypeOK
  <2> QED BY <2>1, <2>2
<1>3. CASE Crash(s) \/ GarbageChildren(s)
  BY <1>3, LeavesHeard DEF Crash, GarbageChildren, Exits
<1>4. CASE ExistsRoot(s) \/ ExistsPrimary(s) \/ CheckPrimary(s)
  BY <1>4, QuietHeard DEF ExistsRoot, ExistsPrimary, CheckPrimary, Asks, zookeeper
<1>5. CASE CreateRoot(s) \/ ExistsBackup(s)
  BY <1>5, QuietHeard, LeavesHeard DEF CreateRoot, ExistsBackup, Exits, zookeeper
<1>6. CASE CreatePrimary(s) \/ CreateBackup(s) \/ TakePrimary(s)
  BY <1>6, NotifyHeard, LeavesHeard
  DEF CreatePrimary, CreateBackup, TakeName, TakePrimary, Create, Exits
<1>7. CASE SetWatch(s)
  <2>1. CASE session[s] BY <1>7, <2>1 DEF SetWatch, OthersHear, Untold, TypeOK
  <2>2. CASE ~session[s] BY <1>7, <2>2, LeavesHeard DEF SetWatch, Exits
  <2> QED BY <2>1, <2>2
<1>8. CASE ChildEvent(s)
  BY <1>8 DEF ChildEvent, Rearm, OthersHear, Untold, TypeOK
<1>9. CASE ReadOwnName(s) \/ ReadBackupName(s)
  BY <1>9, QuietHeard DEF ReadOwnName, ReadBackupName, ReadBackup, zookeeper
<1>10. CASE DeleteBackup(s)
  BY <1>10, NotifyHeard, QuietHeard DEF DeleteBackup
<1>11. CASE WatchAgain(s)
  BY <1>11 DEF WatchAgain, Rearm, OthersHear, Untold, TypeOK
<1>12. CASE FindBackup(s)
  <2>1. CASE Reads(s) \in Servers BY <1>12, <2>1, QuietHeard DEF FindBackup, zookeeper
  <2>2. CASE Reads(s) \notin Servers BY <1>12, <2>2, LeavesHeard DEF FindBackup, Exits
  <2> QED BY <2>1, <2>2
<1>13. CASE Connect(s)
  <2> DEFINE listens == repete_put[s] \in Servers /\ Live(repete_put[s])
  <2>1. CASE listens BY <1>13, <2>1, QuietHeard DEF Connect, zookeeper
  <2>2. CASE ~listens BY <1>13, <2>2, LeavesHeard DEF Connect, Exits
  <2> QED BY <2>1, <2>2
<1> QED BY <1>1, <1>2, <1>3, <1>4, <1>5, <1>6, <1>7, <1>8, <1>9, <1>10, <1>11, <1>12, <1>13
        DEF Step, StartUp, Watcher, Promotion, Join

\* A process that is not yet, or no longer, watching knows nothing.
LEMMA LeavesView ==
  ASSUME TypeOK, NEW s \in Servers, NEW place \in Gone, Leaves(s, place)
  PROVE  ViewOf(s)'
<1>1. pc'[s] = place BY DEF Leaves, Goes, TypeOK
<1> QED BY <1>1 DEF ViewOf, Gone, Watching, Handling, Promoting, Joining, Starting

LEMMA ExitsView == ASSUME TypeOK, NEW s \in Servers, Exits(s) PROVE ViewOf(s)'
<1>1. "exited" \in Gone BY DEF Gone
<1> QED BY <1>1, LeavesView DEF Exits

LEMMA StartView ==
  ASSUME TypeOK, NEW s \in Servers, ViewOf(s), pc[s] \in Starting \cup {"new"},
         NEW place \in Starting, Goes(s, place), UNCHANGED sock_primary
  PROVE  ViewOf(s)'
<1>1. pc'[s] = place BY DEF Goes, TypeOK
<1> QED BY <1>1 DEF ViewOf, Watching, Handling, Promoting, Joining, Starting

LEMMA OwnView ==
  ASSUME IInv, NEW s \in Servers, Begin(s) \/ Step(s) \/ Crash(s) \/ Expire(s)
  PROVE  ViewOf(s)'
<1>1. TypeOK /\ ViewOf(s) BY DEF IInv, NamesInv
<1>2. CASE Begin(s) BY <1>1, <1>2, StartView DEF Begin, Starting, memory
<1>3. CASE ExistsRoot(s) \/ ExistsPrimary(s)
  BY <1>1, <1>3, StartView DEF ExistsRoot, ExistsPrimary, Asks, Starting, memory
<1>4. CASE CreateRoot(s) BY <1>1, <1>4, StartView, ExitsView DEF CreateRoot, Starting, memory
<1>5. CASE CreatePrimary(s) \/ CreateBackup(s)
  BY <1>1, <1>5, StartView, ExitsView
  DEF CreatePrimary, CreateBackup, TakeName, Starting, memory
<1>6. CASE ExistsBackup(s)
  BY <1>1, <1>6, StartView, LeavesView DEF ExistsBackup, Starting, memory, Gone
<1>7. CASE SetWatch(s)
  <2>1. CASE session[s]
    <3>1. pc'[s] = "idle" /\ watch'[s] /\ sock_primary'[s] = sock_primary[s]
      BY <1>1, <1>7, <2>1 DEF SetWatch, Goes, memory, TypeOK
    <3>2. sock_primary[s] = Unset BY <1>1, <1>7 DEF ViewOf, SetWatch, Starting
    <3> QED BY <3>1, <3>2 DEF ViewOf, Joining, Starting
  <2>2. CASE ~session[s] BY <1>1, <1>7, <2>2, ExitsView DEF SetWatch
  <2> QED BY <2>1, <2>2
<1>8. CASE ChildEvent(s)
  <2>1. UNCHANGED <<znode, session>> BY <1>8 DEF ChildEvent
  <2>2. session[s] => watch'[s] BY <1>1, <1>8 DEF ChildEvent, Rearm, TypeOK
  <2>3. \/ /\ pc'[s] = "check primary" /\ sock_primary'[s] = Nobody
           /\ session[s] => ~Both
        \/ /\ pc'[s] = "read backup"
           /\ session[s] => Both
    BY <1>1, <1>8, ChildrenBoth DEF ChildEvent, Goes, TypeOK
  <2> QED BY <2>1, <2>2, <2>3 DEF ViewOf, Both, Joining, Starting
<1>9. CASE GarbageChildren(s) \/ Crash(s)
  BY <1>1, <1>9, ExitsView DEF GarbageChildren, Crash
<1>10. CASE CheckPrimary(s)
  <2>1. /\ pc[s] = "check primary"
        /\ UNCHANGED <<znode, session, watch, events, sock_primary>>
    BY <1>10 DEF CheckPrimary, Asks, zookeeper, memory
  <2>2. pc'[s] = IF MustPromote(s) THEN "read own name" ELSE "idle"
    BY <1>1, <1>10 DEF CheckPrimary, Asks, Goes, TypeOK
  <2>3. CASE MustPromote(s)
    BY <1>1, <2>1, <2>2, <2>3 DEF ViewOf, Watching, Handling, Promoting, Joining, Starting
  <2>4. CASE ~MustPromote(s)
    <3>1. session[s] => znode["primary"] # Free BY <2>4 DEF MustPromote, Absent
    <3> QED BY <1>1, <2>1, <2>2, <2>4, <3>1
        DEF ViewOf, Both, Watching, Handling, Promoting, Joining, Starting
  <2> QED BY <2>3, <2>4
<1>11. CASE ReadOwnName(s)
  <2>1. /\ pc[s] = "read own name" /\ pc'[s] = "take primary"
        /\ UNCHANGED <<session, watch, events>>
    BY <1>1, <1>11 DEF ReadOwnName, ReadBackup, Goes, zookeeper, TypeOK
  <2> QED BY <1>1, <2>1 DEF ViewOf, Watching, Handling, Promoting, Joining, Starting
<1>12. CASE TakePrimary(s)
  <2>1. CASE Absent(s, "primary")
    <3>1. Told(s) BY <1>12, <2>1 DEF TakePrimary, Create, Notify, Told
    <3>2. pc'[s] = "delete backup" BY <1>1, <1>12, <2>1 DEF TakePrimary, Goes, TypeOK
    <3>3. events[s] = 0 => watch[s]
      BY <1>1, <1>12, <2>1 DEF TakePrimary, Absent, ViewOf, Watching, Handling, Promoting
    <3>4. events'[s] # 0 BY <1>1, <3>1, <3>3, ToldHasEvent
    <3> QED BY <3>2, <3>4 DEF ViewOf, Starting
  <2>2. CASE ~Absent(s, "primary") BY <1>1, <1>12, <2>2, ExitsView DEF TakePrimary
  <2> QED BY <2>1, <2>2
<1>13. CASE DeleteBackup(s)
  <2>1. pc[s] = "delete backup" /\ pc'[s] = "idle" /\ session' = session
    BY <1>1, <1>13 DEF DeleteBackup, Goes, TypeOK
  <2>2. session[s] => events[s] # 0 BY <1>1, <2>1 DEF ViewOf
  <2>3. session[s] => events'[s] # 0
    <3>1. Told(s) \/ events'[s] = events[s] BY <1>13 DEF DeleteBackup, Notify, Told
    <3> QED BY <1>1, <2>2, <3>1, ToldHasEvent
  <2> QED BY <2>1, <2>3 DEF ViewOf, Starting
<1>14. CASE ReadBackupName(s)
  <2>1. /\ pc[s] = "read backup" /\ pc'[s] = "watch again"
        /\ UNCHANGED <<znode, session, watch, events>>
    BY <1>1, <1>14 DEF ReadBackupName, ReadBackup, Goes, zookeeper, TypeOK
  <2> QED BY <1>1, <2>1 DEF ViewOf, Both, Watching, Handling, Promoting, Joining, Starting
<1>15. CASE WatchAgain(s)
  <2>1. /\ pc[s] = "watch again" /\ pc'[s] = "find backup"
        /\ UNCHANGED <<znode, session, events>> /\ (session[s] => watch'[s])
    BY <1>1, <1>15 DEF WatchAgain, Rearm, Goes, TypeOK
  <2> QED BY <1>1, <2>1 DEF ViewOf, Both, Watching, Handling, Promoting, Joining, Starting
<1>16. CASE FindBackup(s)
  <2>1. CASE Reads(s) \in Servers
    <3>1. /\ pc[s] = "find backup" /\ pc'[s] = "connect"
          /\ UNCHANGED <<znode, session, watch, events>>
      BY <1>1, <1>16, <2>1 DEF FindBackup, Goes, zookeeper, TypeOK
    <3>2. repete_put'[s] = Reads(s) BY <1>1, <1>16, <2>1 DEF FindBackup, TypeOK
    <3>3. Reads(s) = znode["backup"].data
      BY <2>1, Outsiders DEF Reads
    <3> QED BY <1>1, <3>1, <3>2, <3>3
        DEF ViewOf, Both, Watching, Handling, Promoting, Joining, Starting
  <2>2. CASE Reads(s) \notin Servers BY <1>1, <1>16, <2>2, ExitsView DEF FindBackup
  <2> QED BY <2>1, <2>2
<1>17. CASE Connect(s)
  <2> DEFINE listens == repete_put[s] \in Servers /\ Live(repete_put[s])
  <2>1. CASE listens
    <3>1. /\ pc[s] = "connect" /\ pc'[s] = "idle"
          /\ UNCHANGED <<znode, session, watch, events>>
      BY <1>1, <1>17, <2>1 DEF Connect, Goes, zookeeper, TypeOK
    <3>2. sock_primary'[s] = repete_put[s] BY <1>1, <1>17, <2>1 DEF Connect, TypeOK
    <3> QED BY <1>1, <3>1, <3>2
        DEF ViewOf, Both, Watching, Handling, Promoting, Joining, Starting
  <2>2. CASE ~listens BY <1>1, <1>17, <2>2, ExitsView DEF Connect
  <2> QED BY <2>1, <2>2
<1>18. CASE Expire(s)
  <2>1. ~session'[s] /\ pc' = pc /\ sock_primary' = sock_primary
    BY <1>1, <1>18 DEF Expire, memory, TypeOK
  <2> QED BY <1>1, <2>1 DEF ViewOf
<1> QED BY <1>2, <1>3, <1>4, <1>5, <1>6, <1>7, <1>8, <1>9, <1>10, <1>11, <1>12, <1>13,
           <1>14, <1>15, <1>16, <1>17, <1>18
        DEF Step, StartUp, Watcher, Promotion, Join

-----------------------------------------------------------------------------
LEMMA StepKeepsInv ==
  ASSUME IInv, NEW s \in Servers, Begin(s) \/ Step(s) \/ Crash(s) \/ Expire(s)
  PROVE  IInv'
<1>1. NamesInv' BY NamesStep DEF IInv
<1>2. OthersStand(s) /\ OthersHear(s)
  BY OthersStandStill, OthersHearStep DEF IInv, NamesInv
<1>3. ASSUME NEW t \in Servers \ {s} PROVE ViewOf(t)'
  BY <1>2, ViewFrame DEF OthersHear, IInv, NamesInv
<1>4. ViewOf(s)' BY OwnView
<1> QED BY <1>1, <1>3, <1>4 DEF IInv

LEMMA NextKeepsInv == IInv /\ [Next]_vars => IInv'
<1> SUFFICES ASSUME IInv, [Next]_vars PROVE IInv'
  OBVIOUS
<1>1. CASE UNCHANGED vars
  BY <1>1 DEF IInv, NamesInv, TypeOK, AddressesAreOwners, NamesOf, ViewOf, Both, Owns, vars
<1>2. CASE Next
  <2>1. PICK s \in Servers : Begin(s) \/ Step(s) \/ Crash(s) \/ Expire(s) BY <1>2 DEF Next
  <2> QED BY <2>1, StepKeepsInv
<1> QED BY <1>1, <1>2

LEMMA InvAlways == Spec => []IInv
BY InitHolds, NextKeepsInv, PTL DEF Spec

LEMMA InvImplies ==
  IInv => /\ TypeOK /\ PromoterOwnsBackup /\ AddressesAreOwners
          /\ OneNameEach /\ LinkIsCurrent /\ NoLoneBackup
<1> SUFFICES ASSUME IInv
             PROVE  /\ TypeOK /\ PromoterOwnsBackup /\ AddressesAreOwners
                    /\ OneNameEach /\ LinkIsCurrent /\ NoLoneBackup
  OBVIOUS
<1>1. TypeOK /\ AddressesAreOwners BY DEF IInv, NamesInv
<1>2. PromoterOwnsBackup /\ OneNameEach
  BY DEF IInv, NamesInv, NamesOf, PromoterOwnsBackup, OneNameEach
<1>3. LinkIsCurrent BY ChildrenBoth DEF IInv, ViewOf, LinkIsCurrent, Settled
<1>4. NoLoneBackup BY DEF IInv, ViewOf, NoLoneBackup, Settled
<1> QED BY <1>1, <1>2, <1>3, <1>4

\* The variables of Membership stay within their types, for any set of processes.
THEOREM TypeCorrect == Spec => []TypeOK
BY InvAlways, InvImplies, PTL

\* The watcher that promotes itself holds the backup's name: its zoo_delete removes
\* its own znode (tree_skel.c:104-118).
THEOREM PromotesItselfOnly == Spec => []PromoterOwnsBackup
BY InvAlways, InvImplies, PTL

\* Both znodes always carry the address of their owner, through every promotion.
THEOREM NamesLeadToOwners == Spec => []AddressesAreOwners
BY InvAlways, InvImplies, PTL

\* No running server holds both names, but for the moment of its promotion.
THEOREM NamesAreNotHoarded == Spec => []OneNameEach
BY InvAlways, InvImplies, PTL

\* After its first event a server that has nothing to handle is linked to the present
\* backup, or to nobody: child_watcher misses no later change.
THEOREM LinkFollowsBackup == Spec => []LinkIsCurrent
BY InvAlways, InvImplies, PTL

\* After its first event a backup that has nothing to handle has a primary.
THEOREM SettledBackupIsServed == Spec => []NoLoneBackup
BY InvAlways, InvImplies, PTL
=============================================================================

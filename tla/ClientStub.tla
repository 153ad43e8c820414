----------------------------- MODULE ClientStub -----------------------------
(***************************************************************************)
(* A tree-client process (source/client_stub.c, network_client.c and the    *)
(* command loop of tree_client.c).  Two threads share struct rtree_t:       *)
(*                                                                         *)
(*   main   one command at a time: look for both names, write the request   *)
(*          on a socket, read the answer, return a result                   *)
(*   zk     ZooKeeper's thread: child_watcher, which replaces and closes    *)
(*          the sockets when the servers change                             *)
(*                                                                         *)
(* What an answer carries is only whether it says yes.  A descriptor is a    *)
(* number: once closed it names the next connection that is opened.          *)
(* ZooKeeper and the servers are external, and do not change names while the *)
(* client starts.                                                           *)
(***************************************************************************)
EXTENDS Naturals, Sequences, SequencesExt, FiniteSets, FiniteSetsExt

CONSTANTS Servers,      \* the server processes; a restarted one is another member
          Nobody,       \* the owner of a free name
          Ops,          \* the calls that the user makes
          Worlds,       \* the values of calm that are looked at
          MaxCommands,  \* bound: commands in a behaviour
          MaxSocket     \* bound: the highest descriptor

ASSUME ClientAssumption == /\ Nobody \notin Servers
                           /\ Ops \subseteq {"put", "del", "get", "size", "keys", "verify"}
                           /\ Worlds \subseteq BOOLEAN
                           /\ MaxCommands \in Nat /\ MaxSocket \in Nat \ {0, 1}

VARIABLES calm,           \* whether each change is seen by the client before the next
          usurped,        \* history: whether a newcomer ever took the primary's name
                          \* while a backup held its own
          up,             \* whether each server is new, up or down
          znode,          \* who holds each name
          watch,          \* whether the client's one-shot child watch is set
          events,         \* child events the client has not handled
          conns,          \* the connections the client has opened
          fd,             \* the connection each descriptor names, or 0
          rtree,          \* the descriptors in rtree->sock_primary and sock_backup
          endereco,       \* the server whose address is in rtree->endereco_backup
          flag_alteracao, \* how many child events are to be skipped
          zk,             \* the next call of the ZooKeeper thread
          main,           \* the next call of the main thread
          reading,        \* the connection main is blocked on
          commands,       \* the commands so far; main works on the last
          result          \* what the last one returned, the answer it is made of, and
                          \* whether one ever failed because of another one's answer

servers == <<calm, usurped, up, znode, watch, events>>
sockets == <<conns, fd, rtree>>
zkthread == <<endereco, flag_alteracao, zk>>
mainthread == <<main, reading, commands, result>>
vars == <<servers, sockets, zkthread, mainthread>>

Names == {"primary", "backup"}
Minus1 == 0                   \* the descriptor -1
Descriptors == 1..MaxSocket
Length == 0                   \* the four bytes that announce a message
Op == Last(commands)

\* The socket that a call goes through.
Side(op) == IF op \in {"put", "del"} THEN "primary" ELSE "backup"

Replies == [op : Ops \cup {"none"}, number : 0..MaxCommands, yes : BOOLEAN]
Empty == [op |-> "none", number |-> 0, yes |-> TRUE]  \* unpacked from no bytes
NoResult == [value |-> "none", reply |-> Empty, misled |-> FALSE]

TypeOK == /\ calm \in Worlds /\ usurped \in BOOLEAN
          /\ up \in [Servers -> {"new", "up", "down"}]
          /\ znode \in [Names -> Servers \cup {Nobody}]
          /\ watch \in BOOLEAN /\ events \in Nat
          /\ conns \in Seq([to : Servers \cup {Nobody}, open : BOOLEAN, asked : Seq(0..MaxCommands), replies : Seq(Replies)])
          /\ fd \in [Descriptors -> 0..Len(conns)]
          /\ rtree \in [Names -> {Minus1} \cup Descriptors]
          /\ endereco \in Servers \cup {Nobody}
          /\ flag_alteracao \in 0..2
          /\ zk \in {"idle", "exists primary", "take over", "close backup",
                     "read backup", "connect", "connecting", "rearm"}
          /\ main \in {"start", "idle", "exists primary", "length", "message",
                       "read", "reading", "exited"}
          /\ reading \in 0..Len(conns)
          /\ commands \in Seq(Ops)
          /\ result \in [value : {"none", "ok", "failed", "data", "null", "wild",
                                  "size", "zero", "done", "not done"},
                         reply : Replies, misled : BOOLEAN]

Init == /\ calm \in Worlds /\ usurped = FALSE
        /\ up = [s \in Servers |-> "new"]
        /\ znode = [name \in Names |-> Nobody]
        /\ watch = FALSE /\ events = 0
        /\ conns = << >>
        /\ fd = [d \in Descriptors |-> 0]
        /\ rtree = [name \in Names |-> Minus1]
        /\ endereco = Nobody /\ flag_alteracao = 0 /\ zk = "idle"
        /\ main = "start" /\ reading = 0
        /\ commands = << >> /\ result = NoResult

Children == {name \in Names : znode[name] # Nobody}
Running == main \notin {"start", "exited"}

-----------------------------------------------------------------------------
(* The servers and ZooKeeper. *)

\* A calm world waits until the client has seen the last change.
MayChange == calm => events = 0 /\ zk = "idle"

\* A newcomer is quicker than the backup, which still holds its name (tree_skel.c:104).
Usurps(name, owner) == /\ name = "primary" /\ owner # Nobody
                       /\ znode["backup"] \notin {owner, Nobody}

Changes(name, owner) ==
    /\ znode' = [znode EXCEPT ![name] = owner]
    /\ usurped' = (usurped \/ Usurps(name, owner))
    /\ events' = IF watch THEN events + 1 ELSE events
    /\ watch' = FALSE
    /\ UNCHANGED <<calm, sockets, zkthread, mainthread>>

\* A new server takes the primary's name if it is free, else the backup's.
Joins(s) ==
    /\ up[s] = "new" /\ MayChange
    /\ \/ znode["primary"] = Nobody /\ Changes("primary", s)
       \/ znode["primary"] # Nobody /\ znode["backup"] = Nobody /\ Changes("backup", s)
    /\ up' = [up EXCEPT ![s] = "up"]

Dies(s) == /\ up[s] = "up" /\ MayChange
           /\ up' = [up EXCEPT ![s] = "down"]
           /\ UNCHANGED <<calm, usurped, znode, watch, events, sockets, zkthread, mainthread>>

Expires(name) == /\ znode[name] # Nobody /\ up[znode[name]] = "down" /\ MayChange
                 /\ Changes(name, Nobody) /\ UNCHANGED up

TakesOver(s) == /\ up[s] = "up" /\ znode["backup"] = s /\ znode["primary"] = Nobody
                /\ MayChange
                /\ Changes("primary", s) /\ UNCHANGED up

DropsBackup(s) == /\ up[s] = "up" /\ \A name \in Names : znode[name] = s
                  /\ MayChange
                  /\ Changes("backup", Nobody) /\ UNCHANGED up

\* There is no other end, or it is closed.
Gone(c) == \/ conns[c].to \in {Nobody} \cup {s \in Servers : up[s] = "down"}
           \/ ~conns[c].open

\* A server answers what was announced and sent, in order.
Answers(c) ==
    LET asked == conns[c].asked IN
    /\ ~Gone(c)
    /\ Len(asked) >= 2 /\ asked[1] = Length /\ asked[2] # Length
    /\ \E yes \in BOOLEAN :
          conns' = [conns EXCEPT ![c].asked = SubSeq(@, 3, Len(@)),
              ![c].replies = Append(@, [op |-> commands[asked[2]], number |-> asked[2], yes |-> yes])]
    /\ UNCHANGED <<servers, fd, rtree, zkthread, mainthread>>

\* A message without its length, or a length in the place of one, is nonsense to the
\* server: it closes the connection or ends.
Breaks(c) ==
    LET asked == conns[c].asked IN
    /\ ~Gone(c)
    /\ \/ asked # << >> /\ asked[1] # Length
       \/ Len(asked) >= 2 /\ asked[2] = Length
    /\ \/ conns' = [conns EXCEPT ![c].open = FALSE] /\ UNCHANGED up
       \/ up' = [up EXCEPT ![conns[c].to] = "down"] /\ UNCHANGED conns
    /\ UNCHANGED <<calm, usurped, znode, watch, events, fd, rtree, zkthread, mainthread>>

World == \/ \E s \in Servers : Joins(s) \/ Dies(s) \/ TakesOver(s) \/ DropsBackup(s)
         \/ \E name \in Names : Expires(name)
         \/ \E c \in DOMAIN conns : Answers(c) \/ Breaks(c)

-----------------------------------------------------------------------------
(* Sockets. *)

Connection(d) == IF d = Minus1 THEN 0 ELSE fd[d]
Peer(name) == IF Connection(rtree[name]) = 0 THEN Nobody ELSE conns[Connection(rtree[name])].to

\* Of a socket that is not connected yet, s is Nobody.
NewConnection(s) == [to |-> s, open |-> TRUE, asked |-> << >>, replies |-> << >>]
LowestFree == Min({d \in Descriptors : fd[d] = 0})

\* close(2); closing a descriptor that is not open only fails.
Close(d) == fd' = IF d = Minus1 THEN fd ELSE [fd EXCEPT ![d] = 0]

-----------------------------------------------------------------------------
(* The main thread. *)

Exits == main' = "exited" /\ reading' = 0

\* The first sockets; both servers must be there.
NetworkConnect ==
    /\ \A name \in Names : up[znode[name]] = "up"
    /\ conns' = <<NewConnection(znode["primary"]), NewConnection(znode["backup"])>>
    /\ fd' = [fd EXCEPT ![1] = 1, ![2] = 2]
    /\ rtree' = [name \in Names |-> IF name = "primary" THEN 1 ELSE 2]

\* rtree_connect needs both names; tree-client ends when it fails.
RtreeConnect ==
    /\ main = "start"
    /\ \/ /\ Children = Names /\ NetworkConnect
          /\ watch' = TRUE
          /\ endereco' = znode["backup"]
          /\ main' = "idle" /\ UNCHANGED reading
       \/ /\ Children = Names => \E name \in Names : up[znode[name]] # "up"
          /\ Exits /\ UNCHANGED <<watch, sockets, endereco>>
    /\ UNCHANGED <<calm, usurped, up, znode, events, flag_alteracao, zk, commands, result>>

Returns(value, reply) ==
    /\ result' = [value |-> value, reply |-> reply,
                  misled |-> \/ result.misled
                             \/ value = "failed" /\ reply.number \notin {0, Len(commands)}]
    /\ main' = "idle" /\ reading' = 0

\* One name is missing.  rtree_get returns (struct data_t *) -1, which the command loop
\* prints; it does not survive that.
Refused(op) ==
    IF op = "get" THEN /\ result' = [result EXCEPT !.value = "wild", !.reply = Empty]
                       /\ Exits
    ELSE Returns(IF op = "verify" THEN "not done" ELSE "failed", Empty)

\* zoo_exists on the backup, then on the primary.  Bound: only in calm worlds.
Command(op) ==
    /\ main = "idle" /\ calm /\ Len(commands) < MaxCommands
    /\ commands' = Append(commands, op)
    /\ \/ znode["backup"] # Nobody /\ main' = "exists primary" /\ UNCHANGED <<reading, result>>
       \/ znode["backup"] = Nobody /\ Refused(op)
    /\ UNCHANGED <<servers, sockets, zkthread>>

ExistsPrimary ==
    /\ main = "exists primary"
    /\ \/ znode["primary"] # Nobody /\ main' = "length" /\ UNCHANGED <<reading, result>>
       \/ znode["primary"] = Nobody /\ Refused(Op)
    /\ UNCHANGED <<servers, sockets, zkthread, commands>>

\* network_close: stops at the first close that fails, and leaves the fields then.
NetworkClose(open) ==
    LET p == rtree["primary"]  b == rtree["backup"] IN
    IF p = Minus1 \/ open[p] = 0
    THEN fd' = open /\ UNCHANGED rtree
    ELSE IF b \in {Minus1, p} \/ open[b] = 0
    THEN fd' = [open EXCEPT ![p] = 0] /\ UNCHANGED rtree
    ELSE fd' = [open EXCEPT ![p] = 0, ![b] = 0] /\ rtree' = [name \in Names |-> Minus1]

\* network_send_receive returned NULL, with these descriptors left open.  Only rtree_put
\* looks at the pointer before it uses it.
Null(open) ==
    IF Op = "put" THEN Returns("failed", Empty) /\ NetworkClose(open)
    ELSE Exits /\ fd' = open /\ UNCHANGED <<rtree, result>>

\* write_All: a dead peer may be noticed or not, and a socket that is not connected always
\* fails (SIGPIPE is ignored); an error closes the descriptor, and leaves its number in
\* rtree.
Write(from, item, to) ==
    LET d == rtree[Side(Op)]  c == Connection(d) IN
    /\ main = from
    /\ \/ /\ c # 0 /\ conns[c].to # Nobody /\ main' = to
          /\ conns' = [conns EXCEPT ![c].asked = Append(@, item)]
          /\ UNCHANGED <<reading, result, fd, rtree>>
       \/ /\ c # 0 => Gone(c)
          /\ Null(IF c = 0 THEN fd ELSE [fd EXCEPT ![d] = 0])
          /\ UNCHANGED conns
    /\ UNCHANGED <<servers, zkthread, commands>>

SendLength == Write("length", Length, "message")
SendMessage == Write("message", Len(commands), "read")

\* read_All starts: from now on it is this connection, whatever its descriptor names.
Read == LET c == Connection(rtree[Side(Op)]) IN
        /\ main = "read"
        /\ IF c = 0 \/ conns[c].to = Nobody THEN Null(fd)
           ELSE main' = "reading" /\ reading' = c /\ UNCHANGED <<result, fd, rtree>>
        /\ UNCHANGED <<servers, conns, zkthread, commands>>

\* What each call makes of the answer.  OP_ERROR is a no to a del, keys or verify.
PutValueOfAny(reply) == "ok"     \* mutant: the opcode is not looked at
PutValue(reply) == IF reply.op = "put" THEN "ok" ELSE "failed"
DelValue(reply) == IF reply.op = "del" /\ reply.yes THEN "ok" ELSE "failed"
GetValue(reply) == IF reply.op = "get" /\ reply.yes THEN "data" ELSE "null"
KeysValue(reply) == IF reply.op = "keys" /\ reply.yes THEN "data" ELSE "null"
VerifyValue(reply) ==
    IF reply.op \in {"del", "keys", "verify"} /\ ~reply.yes THEN "not done" ELSE "done"
\* rtree_size and rtree_height take the number that is there, which may be none.
SizeValue(reply) == IF reply = Empty THEN "zero" ELSE "size"

Value(op, reply) ==
    CASE op = "put" -> PutValue(reply)
      [] op = "del" -> DelValue(reply)
      [] op = "get" -> GetValue(reply)
      [] op = "keys" -> KeysValue(reply)
      [] op = "size" -> SizeValue(reply)
      [] op = "verify" -> VerifyValue(reply)

\* Mutant of Received: what has been read is read again.
ReceivedAgain(c) == /\ Returns(Value(Op, Head(conns[c].replies)), Head(conns[c].replies))
                    /\ UNCHANGED conns

\* One read takes what is there; fields that come twice have their last value.
Received(c) == /\ Returns(Value(Op, Last(conns[c].replies)), Last(conns[c].replies))
               /\ conns' = [conns EXCEPT ![c].replies = << >>]

\* A dead peer may also mean no bytes, which unpack as a message without fields, or
\* an error.
Reading ==
    LET c == reading IN
    /\ main = "reading"
    /\ \/ conns[c].replies # << >> /\ Received(c) /\ UNCHANGED <<fd, rtree>>
       \/ /\ Gone(c)
          /\ \/ conns[c].replies = << >> /\ Returns(Value(Op, Empty), Empty) /\ UNCHANGED <<fd, rtree>>
             \/ Null(fd)
          /\ UNCHANGED conns
    /\ UNCHANGED <<servers, zkthread, commands>>

\* rtree_disconnect frees what it did not allocate; the process ends either way.
Quit == /\ main = "idle" /\ Exits
        /\ UNCHANGED <<servers, sockets, zkthread, commands, result>>

Main == RtreeConnect \/ (\E op \in Ops : Command(op)) \/ ExistsPrimary
        \/ SendLength \/ SendMessage \/ Read \/ Reading \/ Quit

-----------------------------------------------------------------------------
(* The ZooKeeper thread: child_watcher. *)

Calls(from, to) == Running /\ zk = from /\ zk' = to
Dead == Exits /\ UNCHANGED <<zk, flag_alteracao, endereco, sockets, commands, result>>
Rests == UNCHANGED mainthread

\* Mutant of WatchesAt: the watch is set only when the event has been handled.
WatchesLater(step) == step = "rearm"

WatchesAt(step) == step \in {"event", "rearm"}

\* Mutant of Skips: the counter is not looked at.
SkipsAlways == TRUE

Skips == flag_alteracao > 0

\* The children are read and the watch is set again.
ChildEvent ==
    /\ Running /\ zk = "idle" /\ events > 0
    /\ events' = events - 1 /\ watch' = (watch \/ WatchesAt("event"))
    /\ IF Children = {} THEN Dead
       ELSE /\ IF Skips
               THEN flag_alteracao' = flag_alteracao - 1 /\ zk' = "rearm"
               ELSE /\ zk' = IF Children = Names THEN "read backup" ELSE "exists primary"
                    /\ UNCHANGED flag_alteracao
            /\ Rests /\ UNCHANGED <<sockets, endereco>>
    /\ UNCHANGED <<calm, usurped, up, znode>>

PrimaryGone ==
    /\ Calls("exists primary", IF znode["primary"] = Nobody THEN "take over" ELSE "close backup")
    /\ Rests /\ UNCHANGED <<servers, sockets, endereco, flag_alteracao>>

\* Mutant of TakeOver: sock_primary is left as it is.
TakeOverLater ==
    /\ Running /\ zk = "take over"
    /\ IF znode["backup"] = Nobody THEN Dead
       ELSE /\ flag_alteracao' = 2 /\ zk' = "rearm"
            /\ Rests /\ UNCHANGED <<sockets, endereco>>
    /\ UNCHANGED servers

\* The backup's connection becomes the primary's, too; the two child events that the
\* backup will cause are to be skipped.
TakeOver ==
    /\ Running /\ zk = "take over"
    /\ IF znode["backup"] = Nobody THEN Dead
       ELSE /\ flag_alteracao' = 2
            /\ rtree' = [rtree EXCEPT !["primary"] = rtree["backup"]]
            /\ zk' = "rearm"
            /\ Rests /\ UNCHANGED <<conns, fd, endereco>>
    /\ UNCHANGED servers

CloseBackup == /\ Calls("close backup", "rearm")
               /\ Close(rtree["backup"])
               /\ rtree' = [rtree EXCEPT !["backup"] = Minus1]
               /\ Rests /\ UNCHANGED <<servers, conns, endereco, flag_alteracao>>

\* Mutant of Found: the address that is there already.
FoundBefore == endereco

Found == IF znode["backup"] = Nobody THEN endereco ELSE znode["backup"]

\* zoo_get may find nothing: then rtree_connect parses what malloc returned, which ends
\* the process unless an older address is still there.
ReadBackup == /\ \/ /\ Calls("read backup", "connect")
                    /\ endereco' = Found
                    /\ Rests /\ UNCHANGED <<sockets, flag_alteracao>>
                 \/ Running /\ zk = "read backup" /\ znode["backup"] = Nobody /\ Dead
              /\ UNCHANGED servers

\* network_connect2: the new descriptor is in rtree before it is connected.  The old one
\* is forgotten, not closed.
Socket == /\ Calls("connect", "connecting")
          /\ \E d \in Descriptors : fd[d] = 0
          /\ conns' = Append(conns, NewConnection(Nobody))
          /\ fd' = [fd EXCEPT ![LowestFree] = Len(conns) + 1]
          /\ rtree' = [rtree EXCEPT !["backup"] = LowestFree]
          /\ Rests /\ UNCHANGED <<servers, endereco, flag_alteracao>>

\* The call of connect; a call of the main thread may have closed the descriptor.  When
\* connect fails the descriptor is closed and rtree is freed but used on: the process
\* may end.
Connect ==
    LET c == Connection(rtree["backup"])
        connects == c # 0 /\ up[endereco] = "up" IN
    /\ \/ /\ Calls("connecting", "rearm")
          /\ IF connects THEN conns' = [conns EXCEPT ![c].to = endereco] /\ UNCHANGED fd
                         ELSE Close(rtree["backup"]) /\ UNCHANGED conns
          /\ Rests /\ UNCHANGED <<rtree, endereco, flag_alteracao>>
       \/ Running /\ zk = "connecting" /\ ~connects /\ Dead
    /\ UNCHANGED servers

Rearm == /\ Calls("rearm", "idle")
         /\ watch' = (watch \/ WatchesAt("rearm"))
         /\ Rests /\ UNCHANGED <<calm, usurped, up, znode, events, sockets, endereco, flag_alteracao>>

Watcher == ChildEvent \/ PrimaryGone \/ TakeOver \/ CloseBackup \/ ReadBackup
           \/ Socket \/ Connect \/ Rearm

-----------------------------------------------------------------------------
Next == World \/ Main \/ Watcher

Spec == Init /\ [][Next]_vars

\* Both threads go on, and servers that live answer.
Fairness == /\ WF_vars(Watcher)
            /\ WF_vars(ExistsPrimary \/ SendLength \/ SendMessage \/ Read \/ Reading)
            /\ WF_vars(\E c \in DOMAIN conns : Answers(c))

FairSpec == Spec /\ Fairness

-----------------------------------------------------------------------------
(* Properties. *)

Settled == /\ Running /\ events = 0 /\ zk = "idle"
           /\ \A name \in Names : znode[name] # Nobody /\ up[znode[name]] = "up"
           /\ znode["primary"] # znode["backup"]

\* client_stub.c:116 tells the user "you can make requests again": once the client has
\* seen two live servers, the backup's socket leads to the backup, or nowhere.
BackupLink == Settled => Peer("backup") \in {znode["backup"], Nobody}

\* ... and the primary's socket to the primary, so that no write goes to the backup.
PrimaryLink == Settled => Peer("primary") \in {znode["primary"], Nobody}

\* A client that skips the event of a newcomer (client_stub.c:45) keeps the old backup's
\* socket for its primary's (client_stub.c:83), so this is only said as long as no newcomer
\* came before the backup.
PrimaryFollowed == ~usurped => PrimaryLink

\* When every change is seen before the next one comes the backup's socket leads where it
\* should; the primary's, too, unless a newcomer took the name or a call closed a socket.
LinksLead == TypeOK /\ (calm => BackupLink /\ (commands = << >> => PrimaryFollowed))

\* network_client.h:17-24: the client waits for the answer and returns it; so a command
\* that has ended is made of its own answer.
OwnAnswer == main = "idle" /\ result.reply # Empty => result.reply.number = Len(commands)

\* A call to the backup never takes the answer to an older command for its own.
OwnAnswerFromBackup == commands # << >> /\ Side(Op) = "backup" => OwnAnswer

\* A call that reports success, or data, was answered, and this is its own answer.
SuccessIsOwn == result.value \in {"ok", "data"} /\ main = "idle" =>
                    result.reply.number = Len(commands)

\* So no call to the backup ever takes a stale answer, however the sockets were replaced
\* between its write and its read, and the first call that takes one reports a failure.
AnswersAreOwn == OwnAnswerFromBackup /\ (~result.misled => SuccessIsOwn)

\* client_stub.h:57: verify tells whether the operation was executed, so it says yes
\* only when the server did.
DoneMeansDone == result.value = "done" => result.reply.op = "verify" /\ result.reply.yes

\* client_stub.h:30: in case of error rtree_get returns NULL.
NoWildPointer == result.value # "wild"

\* network_client.h: the client waits for the answer; so a command ends.
CommandsReturn == main = "exists primary" ~> main \in {"idle", "exited"}

\* A client that has handled every child event does not go on without servers: none was
\* lost, skipped or read too early for it to notice the last server's end.
NotLeftBehind == Running /\ events = 0 /\ zk = "idle" => Children # {}
=============================================================================

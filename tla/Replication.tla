---------------------------- MODULE Replication ----------------------------
(***************************************************************************)
(* How a write reaches both servers (source/tree_skel.c, network_server.c): *)
(* the main loop of a server receives a request, forwards it through        *)
(* rtree->sock_primary (invoke_aux, conect_new), enqueues it (invoke) and    *)
(* replies, while the ZooKeeper thread (child_watcher, conecta) closes and   *)
(* opens that socket and zeroes the counters.  The server at the other end  *)
(* runs the same loop: it takes a forwarded write for one of a client,      *)
(* forwards it in its turn and replies to it.  Nobody reads that reply.     *)
(*                                                                         *)
(* A server starts, and takes its name, in one step, and a name is lost only *)
(* after its owner's death (module Membership has the single calls).        *)
(* Requests that are not writes travel the same way and change no log; they  *)
(* are left out.  Clients, sockets and ZooKeeper's answers are external.     *)
(***************************************************************************)
EXTENDS Naturals, Sequences, SequencesExt

CONSTANTS Servers,    \* the processes; a restarted server is another member
          Nobody,     \* the owner of a name that is free
          Length,     \* the four bytes that announce a message
          Mortal,     \* the processes that may crash
          Buffer,     \* bound: items that a connection holds in one direction
          MaxWrites,  \* bound: writes in a behaviour
          MaxLog      \* bound: writes that one server enqueues

ASSUME ReplicationAssumption == /\ Nobody \notin Servers
                                /\ Mortal \subseteq Servers
                                /\ Buffer \in Nat \ {0}
                                /\ MaxWrites \in Nat /\ MaxLog \in Nat
                                /\ Length \notin Nat

VARIABLES up,             \* whether each process is new, up or down
          primary,        \* who holds /kvstore/primary
          backup,         \* who holds /kvstore/backup
          watch,          \* whose one-shot child watch is set
          told,           \* child events each server has not handled yet
          watcher,        \* the next call of each ZooKeeper thread
          main,           \* the next call of each main thread
          request,        \* the write each main thread works on, and its origin
          sock_primary,   \* rtree->sock_primary of each server
          conns,          \* the connections other servers, or itself, made to each
          last_assigned,  \* the number each server gave its last write
          accepted,       \* the writes each server has enqueued, in order
          given,          \* the number each of them was answered with
          coming,         \* the writes that clients have sent to each server
          issued          \* how many writes clients have issued

names == <<primary, backup, watch, told>>
clients == <<coming, issued>>
logs == <<last_assigned, accepted, given>>
vars == <<up, names, watcher, main, request, sock_primary, conns, logs, clients>>

Writes == 1..MaxWrites
Client == 0
NoRequest == [write |-> 0, from |-> Client]

\* A socket is the connection number at of the server to, or is not connected yet
\* (at = 0); malloc left sock_primary Unset, which is the terminal's descriptor.
Sockets == [to : Servers \cup {Nobody}, at : Nat]
Unset == [to |-> Nobody, at |-> 0]
Closed == [to |-> Nobody, at |-> 1]
Connections == [from : Servers, stream : Seq(Writes \cup {Length}), unread : Nat,
                open : BOOLEAN, heard : BOOLEAN]

TypeOK ==
    /\ up \in [Servers -> {"new", "up", "down"}]
    /\ primary \in Servers \cup {Nobody}
    /\ backup \in Servers \cup {Nobody}
    /\ watch \in [Servers -> BOOLEAN]
    /\ told \in [Servers -> Nat]
    /\ watcher \in [Servers -> {"idle", "take primary", "delete backup", "watch again",
                                "find backup", "connect", "reset"}]
    /\ main \in [Servers -> {"idle", "receive", "aux", "length", "message", "enqueue", "reply"}]
    /\ request \in [Servers -> [write : Writes \cup {0}, from : Nat]]
    /\ sock_primary \in [Servers -> Sockets]
    /\ conns \in [Servers -> Seq(Connections)]
    /\ last_assigned \in [Servers -> Nat]
    /\ accepted \in [Servers -> Seq(Writes)]
    /\ given \in [Servers -> Seq(Nat)]
    /\ coming \in [Servers -> SUBSET Writes]
    /\ issued \in 0..MaxWrites

Init == /\ up = [s \in Servers |-> "new"]
        /\ primary = Nobody
        /\ backup = Nobody
        /\ watch = [s \in Servers |-> FALSE]
        /\ told = [s \in Servers |-> 0]
        /\ watcher = [s \in Servers |-> "idle"]
        /\ main = [s \in Servers |-> "idle"]
        /\ request = [s \in Servers |-> NoRequest]
        /\ sock_primary = [s \in Servers |-> Unset]
        /\ conns = [s \in Servers |-> << >>]
        /\ last_assigned = [s \in Servers |-> 0]
        /\ accepted = [s \in Servers |-> << >>]
        /\ given = [s \in Servers |-> << >>]
        /\ coming = [s \in Servers |-> {}]
        /\ issued = 0

-----------------------------------------------------------------------------
(* Names and watches. *)

\* Every watch that is set, except those of the servers in deaf, becomes an event.
Notify(deaf) ==
    /\ told' = [t \in Servers |-> IF watch[t] /\ t \notin deaf THEN told[t] + 1 ELSE told[t]]
    /\ watch' = [t \in Servers |-> FALSE]

\* tree_skel_init_private: take a free name, watch, and serve.  rtree is fresh from
\* malloc, so its sock_primary is 0, the terminal.
Start(s) ==
    /\ up[s] = "new"
    /\ \/ primary = Nobody /\ primary' = s /\ UNCHANGED backup
       \/ primary # Nobody /\ backup = Nobody /\ backup' = s /\ UNCHANGED primary
    /\ up' = [up EXCEPT ![s] = "up"]
    /\ told' = [t \in Servers |-> IF watch[t] THEN told[t] + 1 ELSE told[t]]
    /\ watch' = [t \in Servers |-> t = s]
    /\ UNCHANGED <<watcher, main, request, sock_primary, conns, logs, clients>>

\* ZooKeeper drops the name of a server that is down.
Expire(s) ==
    /\ up[s] = "down"
    /\ s \in {primary, backup}
    /\ primary' = IF primary = s THEN Nobody ELSE primary
    /\ backup' = IF backup = s THEN Nobody ELSE backup
    /\ Notify({s})
    /\ UNCHANGED <<up, watcher, main, request, sock_primary, conns, logs, clients>>

-----------------------------------------------------------------------------
(* Connections between servers. *)

\* The connection that s forwards through.
Link(s) == conns[sock_primary[s].to][sock_primary[s].at]

\* A socket() that is still to be connected: nothing can be written to it.
Raw(s) == sock_primary[s].to # Nobody /\ sock_primary[s].at = 0

\* Somebody reads what s forwards.
Heard(s) == /\ sock_primary[s].to # Nobody
            /\ sock_primary[s].at \in DOMAIN conns[sock_primary[s].to]
            /\ Link(s).heard

\* Mutant of HungUp: the peer is not told.
HangsOn(c, kept) == c

\* The sender closes.  With replies unread the system resets the connection and the
\* peer may lose what it has not read yet.
HungUp(c, kept) ==
    [c EXCEPT !.open = FALSE,
              !.stream = IF c.unread > 0 /\ kept < Len(@) THEN SubSeq(@, 1, kept) ELSE @]

\* The process ends, and with it both ends of its connections.
Exits(s) ==
    /\ up' = [up EXCEPT ![s] = "down"]
    /\ \E kept \in 0..Buffer :
          conns' = [t \in Servers |->
              IF t = s THEN << >>
              ELSE [i \in DOMAIN conns[t] |->
                      IF conns[t][i].from = s /\ conns[t][i].open
                      THEN HungUp(conns[t][i], kept) ELSE conns[t][i]]]
    /\ watch' = [watch EXCEPT ![s] = FALSE]
    /\ told' = [told EXCEPT ![s] = 0]
    /\ watcher' = [watcher EXCEPT ![s] = "idle"]
    /\ main' = [main EXCEPT ![s] = "idle"]
    /\ request' = [request EXCEPT ![s] = NoRequest]
    /\ sock_primary' = [sock_primary EXCEPT ![s] = Unset]
    /\ coming' = [coming EXCEPT ![s] = {}]
    /\ UNCHANGED <<primary, backup, logs, issued>>

Crash(s) == s \in Mortal /\ up[s] = "up" /\ Exits(s)

-----------------------------------------------------------------------------
(* Clients: before a write, rtree_put and rtree_del look for both names. *)

Issue(s) ==
    /\ primary = s /\ backup # Nobody
    /\ up[s] = "up"
    /\ issued < MaxWrites
    /\ issued' = issued + 1
    /\ coming' = [coming EXCEPT ![s] = @ \cup {issued + 1}]
    /\ UNCHANGED <<up, names, watcher, main, request, sock_primary, conns, logs>>

-----------------------------------------------------------------------------
(* The main thread: network_main_loop. *)

Does(s, from, to) == up[s] = "up" /\ main[s] = from /\ main' = [main EXCEPT ![s] = to]

Stays == UNCHANGED <<up, names, watcher, sock_primary>>

\* Mutant of ReceiveFromClient: the same bytes are read again.
ReceiveAgain(s) ==
    /\ Does(s, "idle", "aux")
    /\ \E w \in coming[s] : request' = [request EXCEPT ![s] = [write |-> w, from |-> Client]]
    /\ Stays /\ UNCHANGED <<conns, logs, coming, issued>>

ReceiveFromClient(s) ==
    /\ Does(s, "idle", "aux")
    /\ \E w \in coming[s] :
          /\ request' = [request EXCEPT ![s] = [write |-> w, from |-> Client]]
          /\ coming' = [coming EXCEPT ![s] = @ \ {w}]
    /\ Stays /\ UNCHANGED <<conns, logs, issued>>

\* Mutant of HasInput: connections are looked at only when a client has sent something.
HasInputFirst(s, i) == conns[s][i].stream # << >> /\ coming[s] # {} /\ conns[s][i].heard

HasInput(s, i) == conns[s][i].heard /\ conns[s][i].stream # << >>

Closes(s, i) == conns' = [conns EXCEPT ![s][i].heard = FALSE, ![s][i].stream = << >>]

\* network_receive on a server's connection: first a length ...
ReceiveLength(s, i) ==
    /\ Does(s, "idle", "receive")
    /\ HasInput(s, i) /\ Head(conns[s][i].stream) = Length
    /\ conns' = [conns EXCEPT ![s][i].stream = Tail(@)]
    /\ request' = [request EXCEPT ![s] = [write |-> 0, from |-> i]]
    /\ Stays /\ UNCHANGED <<logs, clients>>

\* ... then as many bytes.
ReceiveMessage(s) ==
    LET i == request[s].from IN
    /\ Len(accepted[s]) < MaxLog
    /\ Does(s, "receive", "aux")
    /\ HasInput(s, i)
    /\ request' = [request EXCEPT ![s].write = Head(conns[s][i].stream)]
    /\ conns' = [conns EXCEPT ![s][i].stream = Tail(@)]
    /\ Stays /\ UNCHANGED <<logs, clients>>

\* The sender is gone: no bytes and no error make an empty message, whose opcode is
\* OP_BAD, and the connection is closed.
ReceiveEnd(s, i) ==
    /\ Does(s, "idle", "idle")
    /\ conns[s][i].heard /\ conns[s][i].stream = << >> /\ ~conns[s][i].open
    /\ Closes(s, i)
    /\ Stays /\ UNCHANGED <<request, logs, clients>>

\* The length came but not the message, or a message without its length, whose first
\* bytes are read as one: message_t__unpack finds nonsense and returns NULL, which
\* network_main_loop dereferences; or the read fails and the connection is closed.
ReceiveBroken(s, i) ==
    /\ up[s] = "up" /\ conns[s][i].heard
    /\ \/ /\ main[s] = "receive" /\ request[s].from = i
          /\ conns[s][i].stream = << >> /\ ~conns[s][i].open
       \/ main[s] = "idle" /\ HasInput(s, i) /\ Head(conns[s][i].stream) # Length
    /\ \/ Exits(s)
       \/ /\ Does(s, main[s], "idle")
          /\ request' = [request EXCEPT ![s] = NoRequest]
          /\ Closes(s, i)
          /\ Stays /\ UNCHANGED <<logs, clients>>

\* invoke_aux: without a znode to read, strtok finds no token and atoi(NULL) ends the
\* process, unless the memory still holds an older address.  What is compared with
\* the listening descriptor is a port, so everybody forwards.
InvokeAux(s) ==
    \/ /\ Does(s, "aux", "length")
       /\ Stays /\ UNCHANGED <<request, conns, logs, clients>>
    \/ up[s] = "up" /\ main[s] = "aux" /\ backup = Nobody /\ Exits(s)

\* conect_new writes an item.  It arrives; or nobody gets it (the terminal, a dead peer,
\* whoever was given the descriptor that was closed); or the write fails.
Forward(s, from, item, to) ==
    \/ /\ Does(s, from, to)
       /\ IF Heard(s)
          THEN /\ Len(Link(s).stream) < Buffer
               /\ conns' = [conns EXCEPT
                     ![sock_primary[s].to][sock_primary[s].at].stream = Append(@, item)]
          ELSE ~Raw(s) /\ UNCHANGED conns
       /\ Stays /\ UNCHANGED <<request, logs, clients>>
    \/ /\ up[s] = "up" /\ main[s] = from
       /\ ~Heard(s) /\ sock_primary[s] # Unset
       /\ Exits(s)

ForwardLength(s) == Forward(s, "length", Length, "message")
ForwardMessage(s) == Forward(s, "message", request[s].write, "enqueue")

\* Mutant of Enqueue: the newest write comes first.
EnqueueFront(s) ==
    /\ Does(s, "enqueue", "reply")
    /\ last_assigned' = [last_assigned EXCEPT ![s] = @ + 1]
    /\ accepted' = [accepted EXCEPT ![s] = <<request[s].write>> \o @]
    /\ Stays /\ UNCHANGED <<request, conns, given, clients>>

Enqueue(s) ==
    /\ Does(s, "enqueue", "reply")
    /\ last_assigned' = [last_assigned EXCEPT ![s] = @ + 1]
    /\ accepted' = [accepted EXCEPT ![s] = Append(@, request[s].write)]
    /\ Stays /\ UNCHANGED <<request, conns, given, clients>>

\* Mutant of Number: the number before the increment.
NumberBefore(s) == last_assigned[s] - 1

Number(s) == last_assigned[s]

Reply(s) ==
    LET i == request[s].from IN
    /\ Does(s, "reply", "idle")
    /\ given' = [given EXCEPT ![s] = Append(@, Number(s))]
    /\ IF i # Client /\ conns[s][i].open
       THEN /\ conns[s][i].unread < Buffer
            /\ conns' = [conns EXCEPT ![s][i].unread = @ + 1]
       ELSE UNCHANGED conns
    /\ request' = [request EXCEPT ![s] = NoRequest]
    /\ Stays /\ UNCHANGED <<last_assigned, accepted, clients>>

Main(s) == \/ ReceiveFromClient(s)
           \/ \E i \in DOMAIN conns[s] : ReceiveLength(s, i) \/ ReceiveEnd(s, i) \/ ReceiveBroken(s, i)
           \/ ReceiveMessage(s) \/ InvokeAux(s) \/ ForwardLength(s) \/ ForwardMessage(s)
           \/ Enqueue(s) \/ Reply(s)

-----------------------------------------------------------------------------
(* The ZooKeeper thread: child_watcher. *)

Calls(s, from, to) ==
    up[s] = "up" /\ watcher[s] = from /\ watcher' = [watcher EXCEPT ![s] = to]

Rests == UNCHANGED <<up, main, request, logs, clients>>

\* Unless there are two servers the link is closed, whatever descriptor it is.
ChildEvent(s) ==
    LET two == primary # Nobody /\ backup # Nobody IN
    /\ told[s] > 0
    /\ told' = [told EXCEPT ![s] = @ - 1]
    /\ watch' = [watch EXCEPT ![s] = TRUE]
    /\ Calls(s, "idle", IF two THEN "watch again"
                        ELSE IF primary = Nobody THEN "take primary" ELSE "idle")
    /\ IF two THEN UNCHANGED <<sock_primary, conns>>
       ELSE /\ sock_primary' = [sock_primary EXCEPT ![s] = Closed]
            /\ IF Heard(s)
               THEN \E kept \in 0..Buffer :
                       conns' = [conns EXCEPT
                          ![sock_primary[s].to][sock_primary[s].at] = HungUp(@, kept)]
               ELSE UNCHANGED conns
    /\ Rests /\ UNCHANGED <<primary, backup>>

TakePrimary(s) ==
    \/ /\ Calls(s, "take primary", "delete backup")
       /\ primary = Nobody
       /\ primary' = s
       /\ Notify({})
       /\ Rests /\ UNCHANGED <<backup, sock_primary, conns>>
    \/ up[s] = "up" /\ watcher[s] = "take primary" /\ primary # Nobody /\ Exits(s)

DeleteBackup(s) ==
    /\ Calls(s, "delete backup", "idle")
    /\ backup' = Nobody
    /\ Notify({})
    /\ Rests /\ UNCHANGED <<primary, sock_primary, conns>>

WatchAgain(s) ==
    /\ Calls(s, "watch again", "find backup")
    /\ watch' = [watch EXCEPT ![s] = TRUE]
    /\ Rests /\ UNCHANGED <<primary, backup, told, sock_primary, conns>>

\* conecta: the backup's address, and a socket that replaces the old one unclosed.
FindBackup(s) ==
    \/ /\ Calls(s, "find backup", "connect")
       /\ backup # Nobody
       /\ sock_primary' = [sock_primary EXCEPT ![s] = [to |-> backup, at |-> 0]]
       /\ Rests /\ UNCHANGED <<names, conns>>
    \/ up[s] = "up" /\ watcher[s] = "find backup" /\ backup = Nobody /\ Exits(s)

NewConnection(s) ==
    [from |-> s, stream |-> << >>, unread |-> 0, open |-> TRUE, heard |-> TRUE]

Connect(s) ==
    LET t == sock_primary[s].to IN
    \/ /\ Calls(s, "connect", "reset")
       /\ up[t] = "up"
       /\ conns' = [conns EXCEPT ![t] = Append(@, NewConnection(s))]
       /\ sock_primary' = [sock_primary EXCEPT ![s].at = Len(conns[t]) + 1]
       /\ Rests /\ UNCHANGED names
    \/ up[s] = "up" /\ watcher[s] = "connect" /\ up[t] # "up" /\ Exits(s)

\* The counters are zeroed, but for the writes that went to the backup since Connect.
ResetCounters(s) ==
    /\ Calls(s, "reset", "idle")
    /\ last_assigned' = [last_assigned EXCEPT ![s] = 0]
    /\ UNCHANGED <<up, main, request, accepted, given, clients, names, sock_primary, conns>>

Watcher(s) == \/ ChildEvent(s) \/ TakePrimary(s) \/ DeleteBackup(s)
              \/ WatchAgain(s) \/ FindBackup(s) \/ Connect(s) \/ ResetCounters(s)

-----------------------------------------------------------------------------
Next == \E s \in Servers :
    Start(s) \/ Expire(s) \/ Crash(s) \/ Issue(s) \/ Main(s) \/ Watcher(s)

Spec == Init /\ [][Next]_vars

\* Every thread of a live server goes on, and ZooKeeper times out a dead one.
Fairness == \A s \in Servers : /\ WF_vars(Main(s)) /\ WF_vars(Watcher(s)) /\ WF_vars(Expire(s))

FairSpec == Spec /\ Fairness

-----------------------------------------------------------------------------
(* Properties. *)

\* The writes on their way; lengths and messages alternate in a stream.
Sent(c) == LET first == IF c.stream # << >> /\ Head(c.stream) = Length THEN 2 ELSE 1
           IN  [k \in 1..(Len(c.stream) + 2 - first) \div 2 |-> c.stream[2 * (k - 1) + first]]

\* The write a server has received but not enqueued.
InHand(s) == IF main[s] \in {"aux", "length", "message", "enqueue"}
             THEN <<request[s].write>> ELSE << >>

\* ... if it has been forwarded already.
Passed(s) == IF main[s] = "enqueue" THEN InHand(s) ELSE << >>

\* A backup fed through one connection has, or will read, exactly the last writes of
\* its primary, in its order and without a gap, however far behind it is.
BackupFollows == \A s \in Servers :
    LET t == sock_primary[s].to IN
    Heard(s) /\ t # s /\ Len(conns[t]) = 1 =>
        IsSuffix(accepted[t] \o InHand(t) \o Sent(Link(s)), accepted[s] \o Passed(s))

Consistent == TypeOK /\ BackupFollows

\* The forwarding of a backup's own writes, which nobody means to happen, repeats a
\* write only if it is connected to itself.
WritesOnce == \A t \in Servers :
    up[t] = "up" /\ (\A i \in DOMAIN conns[t] : conns[t][i].from # t) =>
        IsInjective(accepted[t] \o InHand(t))

\* Who cannot crash does not exit either.
OnlyMortalsDie == \A s \in Servers \ Mortal : up[s] # "down"

\* client_stub.h:57: verify(n), which the backup answers, tells whether the write that
\* the primary numbered n was executed; so both give a write the same number.
NumbersAgree == \A s \in Servers :
    LET t == sock_primary[s].to IN
    Heard(s) /\ t # s /\ Len(conns[t]) = 1 =>
        \A i \in DOMAIN given[s], j \in DOMAIN given[t] :
            accepted[s][i] = accepted[t][j] => given[s][i] = given[t][j]

\* README: a write goes from the primary to the backup.  A primary that has handled
\* every event answers a client's write only when it has a connection to the backup.
WritesReachBackup ==
    [][\A s \in Servers :
         /\ Len(given'[s]) > Len(given[s]) /\ request[s].from = Client
         /\ s = primary /\ backup # Nobody /\ up[backup] = "up"
         /\ watcher[s] = "idle" /\ told[s] = 0
         => sock_primary[s].to = backup]_vars

\* network_server.h:11-17: what the main loop receives it answers, unless it dies.
Answered == \A s \in Servers : main[s] # "idle" ~> main[s] = "idle"

\* In the end the backup has read all that its primary forwarded.
BackupCatchesUp == \A s \in Servers : <>[](Heard(s) => Sent(Link(s)) = << >>)
=============================================================================

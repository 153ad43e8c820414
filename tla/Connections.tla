---------------------------- MODULE Connections ----------------------------
(***************************************************************************)
(* The descriptors of a server process (source/network_server.c, and the     *)
(* calls of source/tree_skel.c that open and close some):                    *)
(*                                                                         *)
(*   main   network_main_loop: polls the table connections, accepts at most  *)
(*          one client, then goes through the table                         *)
(*   zk     ZooKeeper's thread: child_watcher closes rtree->sock_primary      *)
(*          when it is alone, and conecta opens another socket when not      *)
(*                                                                         *)
(* The system gives the lowest free number to every socket and every accept,  *)
(* and a number that was closed names whatever is opened next.  What is read  *)
(* and written is module Framing's, what is forwarded Replication's.          *)
(* Clients, the other server and the system's table are external.             *)
(***************************************************************************)
EXTENDS Naturals, Sequences, SequencesExt, FiniteSetsExt

CONSTANTS Clients,      \* the connections that clients make, as numbers
          NFDESC,       \* the size of the table: 500
          MaxFd,        \* the highest descriptor the process may have
          Role,         \* the name the server starts with
          MaxChanges    \* bound: how often the other server comes or goes

ASSUME ConnectionsAssumption == /\ Clients \subseteq Nat /\ Clients # {} /\ NFDESC \in Nat \ {0} /\ MaxFd \in Nat /\ MaxFd >= 5
                                /\ Role \in {"primary", "backup"} /\ MaxChanges \in Nat

VARIABLES file,         \* what each descriptor names
          connections,  \* the table but for its first entry, the listening socket
          revents,      \* what the last poll found for each entry
          listening,    \* ... and whether it found a client to accept
          main,         \* the next call of the main loop
          entry,        \* the entry it is at
          asker,        \* the client whose request it works on
          sock_primary, \* the number in rtree->sock_primary
          name,         \* the name the server holds
          peer,         \* whether the other server is there
          event,        \* whether a child event waits for the ZooKeeper thread
          zk,           \* whether conecta's socket waits for its connect
          changes,      \* how often the other server has come or gone
          backlog,      \* the clients that wait to be accepted
          client,       \* the state of each client
          misclosed     \* history: a thread has closed a descriptor that was not its own

zkVars == <<sock_primary, name, peer, event, zk, changes>>
mainVars == <<connections, revents, listening, main, entry, asker>>
vars == <<file, mainVars, zkVars, backlog, client, misclosed>>

Numbers == 0..MaxFd
None == <<"none", "">>
Terminal == <<"terminal", "">>
Listener == <<"listener", "">>
Link == <<"link", "">>
Own(c) == <<"client", c>>
Minus1 == MaxFd + 1           \* the descriptor -1 of an entry that is closed

Entries == [fd : 0..Minus1, who : Clients]
Idle == CHOOSE c \in Clients : TRUE

TypeOK ==
    /\ file \in [Numbers -> {None, Terminal, Listener, Link} \cup {Own(c) : c \in Clients}]
    /\ connections \in Seq(Entries) /\ Len(connections) < NFDESC
    /\ revents \in Seq(SUBSET {"IN", "HUP"}) /\ Len(revents) = Len(connections)
    /\ listening \in BOOLEAN
    /\ main \in {"poll", "accept", "entry", "aux", "send", "close", "check", "exit"}
    /\ entry \in 1..Len(connections) + 1
    /\ asker \in Clients
    /\ sock_primary \in Numbers
    /\ name \in {"primary", "backup"} /\ peer \in BOOLEAN /\ event \in BOOLEAN
    /\ zk \in {"idle", "connect"}
    /\ changes \in 0..MaxChanges
    /\ backlog \in Seq(Clients)
    /\ client \in [Clients -> [conn : {"new", "queued", "accepted", "closed"},
                               asks : BOOLEAN, waits : BOOLEAN, left : {"no", "end", "reset"}]]
    /\ misclosed \in BOOLEAN

\* 0, 1 and 2 are the terminal, 3 is the listening socket.  sock_primary is what malloc
\* left there: 0.
Init == /\ file = [d \in Numbers |-> IF d < 3 THEN Terminal ELSE IF d = 3 THEN Listener ELSE None]
        /\ connections = << >>
        /\ revents = << >>
        /\ listening = FALSE
        /\ main = "poll"
        /\ entry = 1
        /\ asker = Idle
        /\ sock_primary = 0
        /\ name = Role
        /\ peer = (Role = "backup")
        /\ event = FALSE /\ zk = "idle"
        /\ changes = 0
        /\ backlog = << >>
        /\ client = [c \in Clients |-> [conn |-> "new", asks |-> FALSE, waits |-> FALSE, left |-> "no"]]
        /\ misclosed = FALSE

-----------------------------------------------------------------------------
(* The system's table. *)

Free == {d \in Numbers : file[d] = None}

Opens(f) == file' = [file EXCEPT ![Min(Free)] = f]

\* close(d) by a thread that may close what is in mine.
Closes(d, mine) ==
    /\ file' = [file EXCEPT ![d] = None]
    /\ client' = [c \in Clients |->
                    IF file[d] = Own(c) THEN [client[c] EXCEPT !.conn = "closed"] ELSE client[c]]
    /\ misclosed' = (misclosed \/ file[d] \notin mine \cup {None})

Live == main # "exit"

-----------------------------------------------------------------------------
(* Clients. *)

\* They are numbered in the order in which they connect.
Connect(c) ==
    /\ Live /\ client[c].conn = "new"
    /\ \A b \in Clients : b < c => client[b].conn # "new"
    /\ client' = [client EXCEPT ![c].conn = "queued"]
    /\ backlog' = Append(backlog, c)
    /\ UNCHANGED <<file, mainVars, zkVars, misclosed>>

\* rtree_put and the others look for both servers before they send a request.
Ask(c) ==
    /\ Live /\ peer
    /\ client[c].conn \in {"queued", "accepted"} /\ ~client[c].waits /\ client[c].left = "no"
    /\ client' = [client EXCEPT ![c].asks = TRUE, ![c].waits = TRUE]
    /\ UNCHANGED <<file, mainVars, zkVars, backlog, misclosed>>

\* The client closes its end; with a reply unread that is a reset.
Leave(c) ==
    /\ client[c].conn # "new" /\ client[c].left = "no"
    /\ \E how \in {"end", "reset"} : client' = [client EXCEPT ![c].left = how]
    /\ UNCHANGED <<file, mainVars, zkVars, backlog, misclosed>>

-----------------------------------------------------------------------------
(* The main loop. *)

At(pc) == main = pc

\* Whether poll finds something to read on a descriptor: a request or an end.  The other
\* server's replies may be there or not.
Readable(f) == IF f \in {Own(c) : c \in Clients}
               THEN {client[f[2]].asks \/ client[f[2]].left # "no"}
               ELSE IF f = Link THEN BOOLEAN ELSE {FALSE}

\* A socket that is not connected is hung up, too.
HungUp(f) == \/ f \in {Own(c) : c \in Clients} /\ client[f[2]].left = "reset"
             \/ f = Link /\ zk = "connect"

Named(k) == IF connections[k].fd = Minus1 THEN None ELSE file[connections[k].fd]

\* poll, when it returns more than 0.  A closed descriptor is reported as such, which
\* nobody looks at.
Poll ==
    /\ At("poll")
    /\ \E found \in [DOMAIN connections -> BOOLEAN] :
          /\ \A k \in DOMAIN connections : found[k] \in Readable(Named(k))
          /\ revents' = [k \in DOMAIN connections |->
                           (IF found[k] THEN {"IN"} ELSE {}) \cup
                           (IF HungUp(Named(k)) THEN {"HUP"} ELSE {})]
    /\ listening' = (backlog # << >>)
    /\ listening' \/ (\E k \in DOMAIN connections : revents'[k] # {})
    /\ main' = "accept"
    /\ entry' = 1
    /\ UNCHANGED <<file, connections, asker, zkVars, backlog, client, misclosed>>

\* accept gives the first client that waits a descriptor; it gets an entry of the table,
\* which no poll has looked at yet, or not.
Admit(fd, enters) ==
    LET c == Head(backlog) IN
    /\ Opens(Own(c))
    /\ client' = [client EXCEPT ![c].conn = "accepted"]
    /\ backlog' = Tail(backlog)
    /\ IF enters
       THEN /\ connections' = Append(connections, [fd |-> fd, who |-> c])
            /\ revents' = Append(revents, {})
       ELSE UNCHANGED <<connections, revents>>

\* Mutant of Accept: its last entry is never used.
AcceptOneLess ==
    /\ At("accept")
    /\ main' = "entry"
    /\ IF listening /\ Len(connections) + 2 < NFDESC /\ Free # {}
       THEN Admit(Min(Free), Min(Free) > 0)
       ELSE UNCHANGED <<file, client, backlog, connections, revents>>
    /\ listening' = FALSE
    /\ UNCHANGED <<entry, asker, zkVars, misclosed>>

\* Mutant of Accept: the second client in a row gets no entry.
AcceptForgets ==
    /\ At("accept")
    /\ main' = "entry"
    /\ IF listening /\ Len(connections) + 1 < NFDESC /\ Free # {}
       THEN Admit(Min(Free), Len(backlog) = 1)
       ELSE UNCHANGED <<file, client, backlog, connections, revents>>
    /\ listening' = FALSE
    /\ UNCHANGED <<entry, asker, zkVars, misclosed>>

\* One client, if there is room in the table; the number 0 is taken for an error.
Accept ==
    /\ At("accept")
    /\ main' = "entry"
    /\ IF listening /\ Len(connections) + 1 < NFDESC /\ Free # {}
       THEN Admit(Min(Free), Min(Free) > 0)
       ELSE UNCHANGED <<file, client, backlog, connections, revents>>
    /\ listening' = FALSE
    /\ UNCHANGED <<entry, asker, zkVars, misclosed>>

Goes(to) == main' = to /\ UNCHANGED <<connections, revents, listening, entry>>

\* Mutant of NextEntry: the loop and its body both count.
NextEntryTwice == main' = "entry" /\ entry' = entry + 2 /\ UNCHANGED <<revents, listening>>

NextEntry == main' = "entry" /\ entry' = entry + 1 /\ UNCHANGED <<revents, listening>>

\* The next poll overwrites what the last one found.
StartsOver == main' = "poll" /\ entry' = 1 /\ revents' = [k \in DOMAIN connections |-> {}]

\* Mutant of EndOfTable: the last entry is not looked at.
EndOfTableEarly ==
    /\ At("entry") /\ entry >= Len(connections)
    /\ StartsOver
    /\ UNCHANGED <<file, connections, listening, asker, zkVars, backlog, client, misclosed>>

EndOfTable ==
    /\ At("entry") /\ entry > Len(connections)
    /\ StartsOver
    /\ UNCHANGED <<file, connections, listening, asker, zkVars, backlog, client, misclosed>>

Skip ==
    /\ At("entry") /\ entry <= Len(connections) /\ "IN" \notin revents[entry]
    /\ Goes("check")
    /\ UNCHANGED <<file, asker, zkVars, backlog, client, misclosed>>

\* network_receive, on whatever the entry's number names by now.  It waits while there is
\* nothing to read; an end and an error lead to close, and so do the bytes of a reply of
\* the other server, unless they end the process.
Receive ==
    /\ At("entry") /\ entry <= Len(connections) /\ "IN" \in revents[entry]
    /\ LET f == Named(entry) IN
       \/ \E c \in Clients :
             /\ f = Own(c) /\ client[c].asks
             /\ client' = [client EXCEPT ![c].asks = FALSE]
             /\ asker' = c
             /\ Goes("aux")
       \/ /\ \/ f \in {None, Link}
             \/ \E c \in Clients : f = Own(c) /\ client[c].left # "no"
                                    /\ (client[c].asks => client[c].left = "reset")
          /\ Goes("close")
          /\ UNCHANGED <<client, asker>>
       \/ f = Link /\ Goes("exit") /\ UNCHANGED <<client, asker>>
    /\ UNCHANGED <<file, zkVars, backlog, misclosed>>

\* invoke_aux writes to the number in sock_primary: another server reads it, or nobody, or
\* a client; a write that fails ends the process, and so may a missing backup.
Aux ==
    /\ At("aux")
    /\ LET f == file[sock_primary] IN
       \/ f \in {Terminal, Link} \cup {Own(c) : c \in Clients} /\ ~(f = Link /\ HungUp(f)) /\ Goes("send")
       \/ /\ \/ f \in {None, Listener} \/ (f = Link /\ HungUp(f))
             \/ ~peer /\ (f = Link \/ name = "primary")
             \/ \E c \in Clients : f = Own(c) /\ client[c].left # "no"
          /\ Goes("exit")
    /\ UNCHANGED <<file, asker, zkVars, backlog, client, misclosed>>

\* invoke, then network_send: the reply goes where the entry's number leads.  When the
\* write fails network_send closes that number, and the main loop closes it again.
Send ==
    /\ At("send")
    /\ LET f == Named(entry) IN
       \/ /\ f # None
          /\ Goes("check")
          /\ client' = IF f = Own(asker) THEN [client EXCEPT ![asker].waits = FALSE] ELSE client
          /\ UNCHANGED <<file, misclosed>>
       \/ /\ \/ f = None \/ HungUp(f)
             \/ f = Link /\ ~peer
          /\ Goes("close")
          /\ Closes(connections[entry].fd, {Own(connections[entry].who)})
    /\ asker' = Idle
    /\ UNCHANGED <<zkVars, backlog>>

\* Mutant of CloseEntry: the entry keeps the number.
CloseEntryKept ==
    /\ At("close")
    /\ Closes(connections[entry].fd, {Own(connections[entry].who)})
    /\ NextEntry
    /\ UNCHANGED <<connections, asker, zkVars, backlog>>

CloseEntry ==
    /\ At("close")
    /\ Closes(connections[entry].fd, {Own(connections[entry].who)})
    /\ connections' = [connections EXCEPT ![entry].fd = Minus1]
    /\ NextEntry
    /\ UNCHANGED <<asker, zkVars, backlog>>

\* Mutant of Check: whoever has been answered is closed.
CheckAny ==
    /\ At("check")
    /\ IF revents[entry] # {} THEN Goes("close") ELSE NextEntry /\ UNCHANGED connections
    /\ UNCHANGED <<file, asker, zkVars, backlog, client, misclosed>>

Check ==
    /\ At("check")
    /\ IF "HUP" \in revents[entry] THEN Goes("close") ELSE NextEntry /\ UNCHANGED connections
    /\ UNCHANGED <<file, asker, zkVars, backlog, client, misclosed>>

Main == Poll \/ Accept \/ EndOfTable \/ Skip \/ Receive \/ Aux \/ Send \/ CloseEntry \/ Check

-----------------------------------------------------------------------------
(* The other server, and the ZooKeeper thread. *)

Change ==
    /\ Live /\ changes < MaxChanges
    /\ changes' = changes + 1
    /\ peer' = ~peer
    /\ event' = TRUE
    /\ UNCHANGED <<file, mainVars, sock_primary, name, zk, backlog, client, misclosed>>

Exits == main' = "exit" /\ UNCHANGED <<connections, revents, listening, entry, asker>>

\* child_watcher with two children: conecta's socket replaces the old one unclosed.  The
\* process ends when there is none left, or when the address cannot be read.
Conecta ==
    /\ Live /\ zk = "idle" /\ event /\ peer
    /\ \/ /\ Free # {} /\ Opens(Link) /\ sock_primary' = Min(Free) /\ zk' = "connect"
          /\ UNCHANGED mainVars
       \/ Exits /\ UNCHANGED <<file, sock_primary, zk>>
    /\ event' = FALSE
    /\ UNCHANGED <<name, peer, changes, backlog, client, misclosed>>

\* ... and is connected only then, or the other server does not answer any more: the
\* process ends, as it does when the number names another socket by now.
ConectaConnect ==
    /\ Live /\ zk = "connect"
    /\ \/ file[sock_primary] = Link /\ UNCHANGED mainVars
       \/ Exits
    /\ zk' = "idle"
    /\ UNCHANGED <<file, sock_primary, name, peer, event, changes, backlog, client, misclosed>>

\* ... with one: the link is closed, which it may have been before.  A backup takes the
\* primary's name and deletes its own, which is an event again.
Alone ==
    /\ Live /\ zk = "idle" /\ event /\ ~peer
    /\ Closes(sock_primary, {Link})
    /\ name' = "primary"
    /\ event' = (name = "backup")
    /\ UNCHANGED <<mainVars, sock_primary, peer, zk, changes, backlog>>

Watcher == Conecta \/ ConectaConnect \/ Alone

Next == Main \/ Change \/ Watcher \/ \E c \in Clients : Connect(c) \/ Ask(c) \/ Leave(c)

Spec == Init /\ [][Next]_vars

\* The two threads go on.
FairSpec == Spec /\ WF_vars(Main) /\ WF_vars(Watcher)

-----------------------------------------------------------------------------
(* Properties. *)

\* As long as every thread has closed only what it had opened, the number in each entry
\* names the client that was accepted for it, although descriptors are closed and given
\* out again between a poll and the reads that it led to.
EntriesAreOwn ==
    Live /\ ~misclosed => \A k \in DOMAIN connections : connections[k].fd # Minus1 =>
                     \/ Named(k) = Own(connections[k].who)
                     \/ main = "close" /\ k = entry /\ Named(k) \in {None, Link}

\* ... every descriptor of a client is in the table, so that it is polled and closed, ...
NoneForgotten ==
    ~misclosed => \A d \in Numbers : \A c \in Clients : file[d] = Own(c) =>
                     \E k \in DOMAIN connections : connections[k].fd = d

TableSound == TypeOK /\ EntriesAreOwn /\ NoneForgotten

\* ... and only the connection of a client that has left is closed.
OnlyLeaversClosed ==
    ~misclosed => \A c \in Clients : client[c].conn = "closed" => client[c].left # "no"

\* A client that is accepted and asks is answered, unless it leaves or the server ends.
Answered == \A c \in Clients :
    client[c].conn = "accepted" /\ client[c].waits ~>
        ~client[c].waits \/ client[c].left # "no" \/ ~Live

\* ... as it is unless a thread has closed what was not its own.
AnsweredIfKept == \A c \in Clients :
    client[c].conn = "accepted" /\ client[c].waits ~>
        ~client[c].waits \/ client[c].left # "no" \/ ~Live \/ misclosed

\* ... and one that waits is accepted, unless the table or the process's descriptors are
\* used up or a thread has closed what was not its own.
AcceptedIfRoom == \A c \in Clients :
    client[c].conn = "queued" ~>
        \/ client[c].conn # "queued" \/ ~Live \/ misclosed
        \/ Len(connections) + 1 = NFDESC \/ Free = {}

\* network_server.h:13: the main loop accepts the connection of a client.
Accepted == \A c \in Clients :
    client[c].conn = "queued" ~> client[c].conn # "queued" \/ ~Live

\* network_server.h:17: it sends the reply to the client.
KeptUntilTheyLeave == \A c \in Clients : client[c].conn = "closed" => client[c].left # "no"
=============================================================================

------------------------- MODULE ConnectionsProofs -------------------------
(***************************************************************************)
(* The safety of Connections for any number of clients, descriptors and      *)
(* changes of the other server: as long as every thread has closed only what  *)
(* it had opened, table and descriptors agree, and only clients that have     *)
(* left are closed.                                                           *)
(***************************************************************************)
EXTENDS Connections, SequenceTheorems, WellFoundedInduction, TLAPS

\* accept is called when a client waits.
Waiting == main = "accept" /\ listening => backlog # << >>

\* What poll has found is found of an open entry, until the loop has passed it; so the
\* main loop never works on a closed one.
Polled == \A k \in DOMAIN connections :
    k >= entry /\ revents[k] # {} => connections[k].fd # Minus1

Working ==
    /\ main \in {"aux", "send", "close", "check"} => entry \in DOMAIN connections
    /\ main \in {"aux", "send", "close"} => connections[entry].fd # Minus1

\* No entry has the number of another one.
Distinct == \A j, k \in DOMAIN connections :
    connections[j].fd = connections[k].fd /\ connections[j].fd # Minus1 => j = k

\* Who is found to have hung up, or is about to be closed, has left.
Leavers ==
    /\ \A k \in DOMAIN connections :
          "HUP" \in revents[k] => client[connections[k].who].left # "no"
    /\ main = "close" /\ Named(entry) = Own(connections[entry].who) =>
          client[connections[entry].who].left # "no"

\* The number 0 is not free, so that every accept succeeds.
Kept == ~misclosed => file[0] = Terminal /\ Distinct /\ Leavers

IInv == /\ TypeOK /\ Waiting /\ Polled /\ Working /\ Kept
        /\ EntriesAreOwn /\ NoneForgotten /\ OnlyLeaversClosed

-----------------------------------------------------------------------------
(* What the system gives, and types *)

Files == {None, Terminal, Listener, Link} \cup {Own(c) : c \in Clients}

ClientStates == [conn : {"new", "queued", "accepted", "closed"},
                 asks : BOOLEAN, waits : BOOLEAN, left : {"no", "end", "reset"}]

LEMMA FilesDiffer ==
    /\ Link \notin {None, Terminal, Listener} /\ Terminal \notin {None, Listener} /\ None # Listener
    /\ \A c : Own(c) \notin {None, Terminal, Listener, Link} /\ Own(c)[2] = c
    /\ \A c, d : Own(c) = Own(d) => c = d
BY DEF Link, None, Terminal, Listener, Own

LEMMA Descriptors == Numbers \subseteq Nat /\ Minus1 \notin Numbers
BY ConnectionsAssumption DEF Numbers, Minus1

LEMMA LeastOf ==
    ASSUME NEW T \in SUBSET Nat, T # {}
    PROVE  Min(T) \in T
<1>1. PICK least \in T : \A n \in T : ~(<<n, least>> \in OpToRel(<, Nat))
    BY NatLessThanWellFounded, WFMin
<1>2. \A n \in T : ~(n < least)
    BY <1>1 DEF OpToRel
<1>3. \A n \in T : least <= n
    BY <1>2
<1> QED BY <1>3 DEF Min

LEMMA LowestFree ==
    ASSUME Free # {}
    PROVE  Min(Free) \in Numbers /\ file[Min(Free)] = None
<1>1. Free \in SUBSET Nat
    BY Descriptors DEF Free
<1>2. Min(Free) \in Free
    BY <1>1, LeastOf
<1> QED BY <1>2 DEF Free

LEMMA EntryOf ==
    ASSUME TypeOK
    PROVE  /\ DOMAIN connections = 1..Len(connections) /\ DOMAIN revents = DOMAIN connections
           /\ Len(connections) \in Nat
           /\ \A k \in DOMAIN connections : /\ connections[k] \in Entries
                                            /\ connections[k].fd \in Numbers \cup {Minus1}
                                            /\ connections[k].who \in Clients
                                            /\ revents[k] \in SUBSET {"IN", "HUP"}
<1>1. Numbers \cup {Minus1} = 0..Minus1
    BY ConnectionsAssumption DEF Numbers, Minus1
<1>2. /\ connections \in Seq(Entries) /\ revents \in Seq(SUBSET {"IN", "HUP"})
      /\ Len(revents) = Len(connections)
    BY DEF TypeOK
<1>3. /\ DOMAIN connections = 1..Len(connections) /\ Len(connections) \in Nat
      /\ DOMAIN revents = DOMAIN connections
    BY <1>2
<1>4. ASSUME NEW k \in DOMAIN connections
      PROVE  connections[k] \in Entries /\ revents[k] \in SUBSET {"IN", "HUP"}
    BY <1>2, <1>3, ElementOfSeq
<1>5. \A e \in Entries : e.fd \in Numbers \cup {Minus1} /\ e.who \in Clients
    BY <1>1 DEF Entries
<1> QED BY <1>3, <1>4, <1>5

LEMMA ClosesTypes ==
    ASSUME TypeOK, NEW d, NEW mine, Closes(d, mine)
    PROVE  file' \in [Numbers -> Files] /\ client' \in [Clients -> ClientStates]
           /\ misclosed' \in BOOLEAN
<1>1. file' \in [Numbers -> Files]
    BY DEF Closes, TypeOK, Files
<1>2. client' \in [Clients -> ClientStates]
    BY DEF Closes, TypeOK, ClientStates
<1>3. misclosed' \in BOOLEAN
    BY DEF Closes
<1> QED BY <1>1, <1>2, <1>3

LEMMA OpensTypes ==
    ASSUME TypeOK, Free # {}, NEW f \in Files, Opens(f)
    PROVE  file' \in [Numbers -> Files]
BY LowestFree DEF Opens, TypeOK, Files

LEMMA PollTypes == TypeOK /\ Poll => TypeOK'
<1> SUFFICES ASSUME TypeOK, Poll PROVE TypeOK'
    OBVIOUS
<1>1. /\ UNCHANGED <<file, connections, asker, zkVars, backlog, client, misclosed>>
      /\ main' = "accept" /\ entry' = 1 /\ listening' \in BOOLEAN
    BY DEF Poll
<1>2. revents' \in Seq(SUBSET {"IN", "HUP"}) /\ Len(revents') = Len(connections)
    <2>1. PICK found \in [DOMAIN connections -> BOOLEAN] :
             revents' = [k \in 1..Len(connections) |->
                           (IF found[k] THEN {"IN"} ELSE {}) \cup
                           (IF HungUp(Named(k)) THEN {"HUP"} ELSE {})]
        BY EntryOf DEF Poll
    <2>2. Len(connections) \in Nat
        BY EntryOf
    <2> DEFINE of(k) == (IF found[k] THEN {"IN"} ELSE {}) \cup
                        (IF HungUp(Named(k)) THEN {"HUP"} ELSE {})
    <2>3. \A k : of(k) \in SUBSET {"IN", "HUP"}
        OBVIOUS
    <2>4. revents' = [k \in 1..Len(connections) |-> of(k)]
        BY <2>1
    <2> HIDE DEF of
    <2> QED BY <2>2, <2>3, <2>4
<1>3. entry' \in 1..Len(connections) + 1
    BY <1>1, EntryOf
<1> QED BY <1>1, <1>2, <1>3 DEF TypeOK, Files, ClientStates, zkVars

LEMMA AdmitTypes ==
    ASSUME TypeOK, Free # {}, backlog # << >>, Len(connections) + 1 < NFDESC,
           NEW enters \in BOOLEAN, Admit(Min(Free), enters)
    PROVE  /\ file' \in [Numbers -> Files]
           /\ client' \in [Clients -> ClientStates]
           /\ backlog' \in Seq(Clients)
           /\ connections' \in Seq(Entries) /\ Len(connections') < NFDESC
           /\ revents' \in Seq(SUBSET {"IN", "HUP"}) /\ Len(revents') = Len(connections')
           /\ Len(connections') \in {Len(connections), Len(connections) + 1}
<1> DEFINE c == Head(backlog)
<1>1. c \in Clients /\ Tail(backlog) \in Seq(Clients)
    BY HeadTailProperties DEF TypeOK
<1>2. file' \in [Numbers -> Files]
    BY <1>1, OpensTypes DEF Admit, Files
<1>3. client' \in [Clients -> ClientStates]
    BY <1>1 DEF Admit, TypeOK, ClientStates
<1>4. [fd |-> Min(Free), who |-> c] \in Entries
    BY <1>1, LowestFree, ConnectionsAssumption DEF Entries, Numbers, Minus1
<1>5. connections \in Seq(Entries) /\ revents \in Seq(SUBSET {"IN", "HUP"})
      /\ Len(revents) = Len(connections) /\ Len(connections) \in Nat /\ NFDESC \in Nat
    BY EntryOf, ConnectionsAssumption DEF TypeOK
<1>6. CASE enters
    <2>1. connections' = Append(connections, [fd |-> Min(Free), who |-> c])
          /\ revents' = Append(revents, {})
        BY <1>6 DEF Admit
    <2>2. /\ connections' \in Seq(Entries) /\ Len(connections') = Len(connections) + 1
          /\ revents' \in Seq(SUBSET {"IN", "HUP"}) /\ Len(revents') = Len(revents) + 1
        BY <1>4, <1>5, <2>1, AppendProperties
    <2> QED BY <1>1, <1>2, <1>3, <1>5, <2>2 DEF Admit
<1>7. CASE ~enters
    <2>1. UNCHANGED <<connections, revents>>
        BY <1>7 DEF Admit
    <2> QED BY <1>1, <1>2, <1>3, <1>5, <2>1 DEF Admit
<1> QED BY <1>6, <1>7

LEMMA MainTypes == TypeOK /\ Waiting /\ Polled /\ Working /\ Main => TypeOK'
<1> SUFFICES ASSUME TypeOK, Waiting, Polled, Working, Main PROVE TypeOK'
    OBVIOUS
<1>1. CASE Poll
    BY <1>1, PollTypes
<1>2. CASE Accept
    <2>1. /\ UNCHANGED <<entry, asker, zkVars, misclosed>> /\ main = "accept"
          /\ main' = "entry" /\ listening' = FALSE
        BY <1>2 DEF Accept, At
    <2>2. Len(connections) \in Nat /\ entry \in 1..Len(connections) + 1
        BY EntryOf DEF TypeOK
    <2>3. CASE listening /\ Len(connections) + 1 < NFDESC /\ Free # {}
        <3>1. Admit(Min(Free), Min(Free) > 0) /\ backlog # << >>
            BY <1>2, <2>1, <2>3 DEF Accept, Waiting
        <3>2. (Min(Free) > 0) \in BOOLEAN
            OBVIOUS
        <3>3. /\ file' \in [Numbers -> Files]
              /\ client' \in [Clients -> ClientStates]
              /\ backlog' \in Seq(Clients)
              /\ connections' \in Seq(Entries) /\ Len(connections') < NFDESC
              /\ revents' \in Seq(SUBSET {"IN", "HUP"}) /\ Len(revents') = Len(connections')
              /\ Len(connections') \in {Len(connections), Len(connections) + 1}
            BY <2>3, <3>1, <3>2, AdmitTypes
        <3>4. entry' \in 1..Len(connections') + 1
            BY <2>1, <2>2, <3>3
        <3> QED BY <2>1, <3>3, <3>4 DEF TypeOK, Files, ClientStates, zkVars
    <2>4. CASE ~(listening /\ Len(connections) + 1 < NFDESC /\ Free # {})
        <3>1. UNCHANGED <<file, client, backlog, connections, revents>>
            BY <1>2, <2>4 DEF Accept
        <3> QED BY <2>1, <3>1 DEF TypeOK, zkVars
    <2> QED BY <2>3, <2>4
<1>3. CASE EndOfTable
    <2>1. /\ UNCHANGED <<file, connections, listening, asker, zkVars, backlog, client, misclosed>>
          /\ main' = "poll" /\ entry' = 1
        BY <1>3 DEF EndOfTable, StartsOver
    <2>2. /\ revents' \in Seq(SUBSET {"IN", "HUP"}) /\ Len(revents') = Len(connections)
          /\ entry' \in 1..Len(connections) + 1
        <3>1. revents' = [k \in 1..Len(connections) |-> {}] /\ Len(connections) \in Nat
            BY <1>3, EntryOf DEF EndOfTable, StartsOver
        <3> QED BY <2>1, <3>1
    <2> QED BY <2>1, <2>2 DEF TypeOK, zkVars
<1>4. CASE Skip
    BY <1>4 DEF Skip, Goes, TypeOK, zkVars
<1>5. CASE Receive
    <2>1. /\ UNCHANGED <<file, zkVars, backlog, misclosed, connections, revents, listening, entry>>
          /\ main' \in {"aux", "close", "exit"}
          /\ asker' \in Clients
        BY <1>5 DEF Receive, Goes, TypeOK
    <2>2. client' \in [Clients -> ClientStates]
        BY <1>5 DEF Receive, TypeOK, ClientStates
    <2> QED BY <2>1, <2>2 DEF TypeOK, Files, ClientStates, zkVars
<1>6. CASE Aux
    <2>1. /\ UNCHANGED <<file, asker, zkVars, backlog, client, misclosed, connections, revents,
                         listening, entry>>
          /\ main' \in {"send", "exit"}
        BY <1>6 DEF Aux, Goes
    <2> QED BY <2>1 DEF TypeOK, zkVars
<1>7. CASE Send
    <2>1. /\ UNCHANGED <<zkVars, backlog, connections, revents, listening, entry>>
          /\ main' \in {"check", "close"} /\ asker' \in Clients
        <3>1. Idle \in Clients
            BY ConnectionsAssumption DEF Idle
        <3> QED BY <1>7, <3>1 DEF Send, Goes
    <2>2. /\ file' \in [Numbers -> Files]
          /\ client' \in [Clients -> ClientStates]
          /\ misclosed' \in BOOLEAN
        <3>1. CASE UNCHANGED <<file, misclosed>>
                   /\ client' = IF Named(entry) = Own(asker) THEN [client EXCEPT ![asker].waits = FALSE]
                                ELSE client
            BY <3>1 DEF TypeOK, Files, ClientStates
        <3>2. CASE Closes(connections[entry].fd, {Own(connections[entry].who)})
            BY <3>2, ClosesTypes
        <3> QED BY <1>7, <3>1, <3>2 DEF Send
    <2> QED BY <2>1, <2>2 DEF TypeOK, Files, ClientStates, zkVars
<1>8. CASE CloseEntry
    <2>1. /\ UNCHANGED <<asker, zkVars, backlog, revents, listening>>
          /\ main = "close" /\ main' = "entry" /\ entry' = entry + 1
          /\ connections' = [connections EXCEPT ![entry].fd = Minus1]
          /\ Closes(connections[entry].fd, {Own(connections[entry].who)})
        BY <1>8 DEF CloseEntry, NextEntry, At
    <2>2. /\ file' \in [Numbers -> Files]
          /\ client' \in [Clients -> ClientStates]
          /\ misclosed' \in BOOLEAN
        BY <2>1, ClosesTypes
    <2>3. entry \in DOMAIN connections /\ entry' \in 1..Len(connections) + 1
        BY <2>1, EntryOf DEF Working
    <2>4. connections' \in Seq(Entries) /\ Len(connections') = Len(connections)
        <3>1. Minus1 \in 0..Minus1
            BY ConnectionsAssumption DEF Minus1
        <3>2. [connections[entry] EXCEPT !.fd = Minus1] \in Entries
            BY <2>3, <3>1, EntryOf DEF Entries
        <3>3. connections' = [connections EXCEPT ![entry] = [connections[entry] EXCEPT !.fd = Minus1]]
            BY <2>1
        <3> QED BY <2>3, <3>2, <3>3, EntryOf, ExceptSeq DEF TypeOK
    <2> QED BY <2>1, <2>2, <2>3, <2>4 DEF TypeOK, Files, ClientStates, zkVars
<1>9. CASE Check
    <2>1. /\ UNCHANGED <<file, asker, zkVars, backlog, client, misclosed, connections, revents,
                         listening>>
          /\ main = "check" /\ main' \in {"close", "entry"} /\ entry' \in {entry, entry + 1}
        BY <1>9 DEF Check, Goes, NextEntry, At
    <2>2. entry' \in 1..Len(connections) + 1
        BY <2>1, EntryOf DEF Working
    <2> QED BY <2>1, <2>2 DEF TypeOK, zkVars
<1> QED BY <1>1, <1>2, <1>3, <1>4, <1>5, <1>6, <1>7, <1>8, <1>9 DEF Main

LEMMA OthersTypes ==
    ASSUME TypeOK,
           Change \/ Watcher \/ \E c \in Clients : Connect(c) \/ Ask(c) \/ Leave(c)
    PROVE  TypeOK'
<1>1. CASE Change
    BY <1>1, ConnectionsAssumption DEF Change, TypeOK, mainVars
<1>2. CASE Conecta
    <2>1. /\ UNCHANGED <<connections, revents, listening, entry, asker, name, peer, changes, backlog,
                         client, misclosed>>
          /\ event' = FALSE /\ main' \in {main, "exit"}
        BY <1>2 DEF Conecta, Exits, mainVars
    <2>2. file' \in [Numbers -> Files] /\ sock_primary' \in Numbers /\ zk' \in {"idle", "connect"}
        <3>1. CASE Free # {} /\ Opens(Link) /\ sock_primary' = Min(Free) /\ zk' = "connect"
            BY <3>1, OpensTypes, LowestFree DEF Files
        <3>2. CASE UNCHANGED <<file, sock_primary, zk>>
            BY <3>2 DEF TypeOK, Files
        <3> QED BY <1>2, <3>1, <3>2 DEF Conecta
    <2> QED BY <2>1, <2>2 DEF TypeOK, Files, ClientStates
<1>3. CASE ConectaConnect
    BY <1>3 DEF ConectaConnect, Exits, mainVars, TypeOK
<1>4. CASE Alone
    <2>1. /\ UNCHANGED <<mainVars, sock_primary, peer, zk, changes, backlog>>
          /\ name' = "primary" /\ event' \in BOOLEAN
          /\ Closes(sock_primary, {Link})
        BY <1>4 DEF Alone
    <2>2. /\ file' \in [Numbers -> Files]
          /\ client' \in [Clients -> ClientStates]
          /\ misclosed' \in BOOLEAN
        BY <2>1, ClosesTypes
    <2> QED BY <2>1, <2>2 DEF TypeOK, Files, ClientStates, mainVars
<1>5. ASSUME NEW c \in Clients, Connect(c) \/ Ask(c) \/ Leave(c) PROVE TypeOK'
    <2>1. /\ UNCHANGED <<file, mainVars, zkVars, misclosed>>
          /\ backlog' \in {backlog, Append(backlog, c)}
        BY <1>5 DEF Connect, Ask, Leave
    <2>2. client' \in [Clients -> ClientStates]
        <3>1. client \in [Clients -> ClientStates]
            BY DEF TypeOK, ClientStates
        <3>2. CASE Connect(c)
            BY <3>1, <3>2 DEF Connect, ClientStates
        <3>3. CASE Ask(c)
            BY <3>1, <3>3 DEF Ask, ClientStates
        <3>4. CASE Leave(c)
            BY <3>1, <3>4 DEF Leave, ClientStates
        <3> QED BY <1>5, <3>2, <3>3, <3>4
    <2>3. backlog \in Seq(Clients) /\ Append(backlog, c) \in Seq(Clients)
        BY AppendProperties DEF TypeOK
    <2>4. backlog' \in Seq(Clients)
        BY <2>1, <2>3
    <2> QED BY <2>1, <2>2, <2>4 DEF TypeOK, Files, ClientStates, mainVars, zkVars
<1> QED BY <1>1, <1>2, <1>3, <1>4, <1>5 DEF Watcher

-----------------------------------------------------------------------------
(* The loop and the table *)

Elsewhere == Change \/ Watcher \/ \E c \in Clients : Connect(c) \/ Ask(c) \/ Leave(c)

LEMMA ElsewhereLeaves ==
    Elsewhere => /\ UNCHANGED <<connections, revents, listening, entry, asker>>
                 /\ main' \in {main, "exit"}
BY DEF Elsewhere, Change, Watcher, Conecta, ConectaConnect, Exits, Alone, Connect, Ask, Leave, mainVars

LEMMA WaitingStep ==
    ASSUME TypeOK, Waiting, Next PROVE Waiting'
<1>1. CASE Main
    BY <1>1 DEF Main, Waiting, Poll, Accept, EndOfTable, Skip, Receive, Aux, Send, CloseEntry, Check,
        Goes, NextEntry, StartsOver
<1>2. CASE Elsewhere
    <2>1. UNCHANGED listening /\ main' \in {main, "exit"}
        BY <1>2, ElsewhereLeaves
    <2>2. backlog' = backlog \/ \E c \in Clients : backlog' = Append(backlog, c)
        BY <1>2 DEF Elsewhere, Change, Watcher, Conecta, ConectaConnect, Alone, Connect, Ask, Leave
    <2>3. \A c \in Clients : Append(backlog, c) # << >>
        BY AppendProperties DEF TypeOK
    <2> QED BY <2>1, <2>2, <2>3 DEF Waiting
<1> QED BY <1>1, <1>2 DEF Next, Elsewhere

\* Which entries there are after an accept.
LEMMA AfterAccept ==
    ASSUME TypeOK, Waiting, Accept
    PROVE  /\ main = "accept" /\ main' = "entry" /\ UNCHANGED <<entry, misclosed>>
           /\ \/ UNCHANGED <<file, client, connections, revents>>
              \/ \E c \in Clients :
                    /\ Free # {} /\ Opens(Own(c))
                    /\ client' = [client EXCEPT ![c].conn = "accepted"]
                    /\ \/ Min(Free) = 0 /\ UNCHANGED <<connections, revents>>
                       \/ /\ connections' = Append(connections, [fd |-> Min(Free), who |-> c])
                          /\ revents' = Append(revents, {})
<1>1. /\ main = "accept" /\ main' = "entry" /\ UNCHANGED <<entry, misclosed>>
    BY DEF Accept, At
<1>2. CASE listening /\ Len(connections) + 1 < NFDESC /\ Free # {}
    <2>1. Admit(Min(Free), Min(Free) > 0) /\ backlog # << >>
        BY <1>1, <1>2 DEF Accept, Waiting
    <2>2. Head(backlog) \in Clients
        BY <2>1, HeadTailProperties DEF TypeOK
    <2>3. Min(Free) \in Nat
        BY <1>2, LowestFree, Descriptors
    <2>4. Min(Free) = 0 \/ Min(Free) > 0
        BY <2>3
    <2>5. /\ Free # {} /\ Opens(Own(Head(backlog)))
          /\ client' = [client EXCEPT ![Head(backlog)].conn = "accepted"]
          /\ \/ Min(Free) = 0 /\ UNCHANGED <<connections, revents>>
             \/ /\ connections' = Append(connections, [fd |-> Min(Free), who |-> Head(backlog)])
                /\ revents' = Append(revents, {})
        BY <1>2, <2>1, <2>4 DEF Admit
    <2> QED BY <1>1, <2>2, <2>5
<1>3. CASE ~(listening /\ Len(connections) + 1 < NFDESC /\ Free # {})
    BY <1>1, <1>3 DEF Accept
<1> QED BY <1>2, <1>3

LEMMA Appended ==
    ASSUME TypeOK, NEW e, connections' = Append(connections, e), revents' = Append(revents, {})
    PROVE  LET new == Len(connections) + 1
           IN  /\ DOMAIN connections' = DOMAIN connections \cup {new}
               /\ new \notin DOMAIN connections
               /\ \A k \in DOMAIN connections : /\ connections'[k] = connections[k]
                                                /\ revents'[k] = revents[k]
               /\ connections'[new] = e /\ revents'[new] = {}
<1>1. Len(revents) = Len(connections) /\ Len(connections) \in Nat
    BY EntryOf DEF TypeOK
<1> QED BY <1>1 DEF TypeOK

LEMMA PolledStep ==
    ASSUME TypeOK, Waiting, Polled, Working, Next PROVE Polled'
<1>1. CASE Poll
    <2>1. connections' = connections /\ DOMAIN revents' = DOMAIN connections
          /\ \A k \in DOMAIN connections : connections[k].fd = Minus1 => revents'[k] = {}
        <3>1. PICK found \in [DOMAIN connections -> BOOLEAN] :
                /\ \A k \in DOMAIN connections : found[k] \in Readable(Named(k))
                /\ revents' = [k \in DOMAIN connections |->
                                 (IF found[k] THEN {"IN"} ELSE {}) \cup
                                 (IF HungUp(Named(k)) THEN {"HUP"} ELSE {})]
            BY <1>1 DEF Poll
        <3>2. Readable(None) = {FALSE} /\ ~HungUp(None)
            BY FilesDiffer DEF Readable, HungUp
        <3>3. \A k \in DOMAIN connections : connections[k].fd = Minus1 => Named(k) = None
            BY DEF Named
        <3>4. ASSUME NEW k \in DOMAIN connections, connections[k].fd = Minus1
              PROVE  revents'[k] = {}
            <4>1. ~found[k] /\ ~HungUp(Named(k))
                BY <3>1, <3>2, <3>3, <3>4
            <4> QED BY <3>1, <4>1
        <3> QED BY <1>1, <3>1, <3>4 DEF Poll
    <2> QED BY <2>1 DEF Polled
<1>2. CASE Accept
    <2>1. entry' = entry
        BY <1>2, AfterAccept
    <2>2. CASE UNCHANGED <<connections, revents>>
        BY <2>1, <2>2 DEF Polled
    <2>3. ASSUME NEW e, connections' = Append(connections, e), revents' = Append(revents, {})
          PROVE  Polled'
        BY <2>1, <2>3, Appended DEF Polled
    <2> QED BY <1>2, <2>2, <2>3, AfterAccept
<1>3. CASE CloseEntry
    <2>1. /\ connections' = [connections EXCEPT ![entry].fd = Minus1] /\ revents' = revents
          /\ entry' = entry + 1
        BY <1>3 DEF CloseEntry, NextEntry
    <2>2. entry \in Nat /\ \A k \in DOMAIN connections : k \in Nat
        BY EntryOf DEF TypeOK
    <2>3. \A k \in DOMAIN connections : k >= entry + 1 =>
             k >= entry /\ connections'[k] = connections[k]
        BY <2>1, <2>2
    <2>4. DOMAIN connections' = DOMAIN connections
        BY <2>1
    <2> QED BY <2>1, <2>3, <2>4 DEF Polled
<1>4. CASE EndOfTable
    BY <1>4 DEF EndOfTable, StartsOver, Polled
<1>5. CASE Skip \/ Receive \/ Aux \/ Send \/ Check \/ Elsewhere
    <2>1. UNCHANGED <<connections, revents>> /\ entry' \in {entry, entry + 1}
        BY <1>5, ElsewhereLeaves DEF Skip, Receive, Aux, Send, Check, Goes, NextEntry
    <2>2. entry \in Nat /\ \A k \in DOMAIN connections : k \in Nat
        BY EntryOf DEF TypeOK
    <2> QED BY <2>1, <2>2 DEF Polled
<1> QED BY <1>1, <1>2, <1>3, <1>4, <1>5 DEF Next, Main, Elsewhere

LEMMA WorkingStep ==
    ASSUME TypeOK, Polled, Working, Next PROVE Working'
<1>1. entry \in 1..Len(connections) + 1 /\ DOMAIN connections = 1..Len(connections)
      /\ Len(connections) \in Nat
    BY EntryOf DEF TypeOK
<1>2. CASE Poll \/ Accept \/ EndOfTable \/ CloseEntry
    <2>1. main' \in {"accept", "entry", "poll"}
        BY <1>2 DEF Poll, Accept, EndOfTable, StartsOver, CloseEntry, NextEntry
    <2> QED BY <2>1 DEF Working
<1>3. CASE Skip
    BY <1>1, <1>3 DEF Skip, Goes, Working
<1>4. CASE Receive
    <2>1. /\ UNCHANGED <<connections, revents, entry>> /\ main' \in {"aux", "close", "exit"}
          /\ entry <= Len(connections) /\ "IN" \in revents[entry]
        BY <1>4 DEF Receive, Goes
    <2>2. entry \in DOMAIN connections /\ connections[entry].fd # Minus1
        BY <1>1, <2>1 DEF Polled
    <2> QED BY <2>1, <2>2 DEF Working
<1>5. CASE Aux \/ Send
    <2>1. /\ UNCHANGED <<connections, entry>> /\ main \in {"aux", "send"}
        BY <1>5 DEF Aux, Send, Goes, At
    <2> QED BY <2>1 DEF Working
<1>6. CASE Check
    <2>1. CASE "HUP" \in revents[entry]
        <3>1. /\ UNCHANGED <<connections, revents, entry>> /\ main = "check" /\ main' = "close"
            BY <1>6, <2>1 DEF Check, Goes, At
        <3>2. entry \in DOMAIN connections /\ connections[entry].fd # Minus1
            BY <1>1, <2>1, <3>1 DEF Polled, Working
        <3> QED BY <3>1, <3>2 DEF Working
    <2>2. CASE "HUP" \notin revents[entry]
        BY <1>6, <2>2 DEF Check, NextEntry, Working
    <2> QED BY <2>1, <2>2
<1>7. CASE Elsewhere
    <2>1. UNCHANGED <<connections, entry>> /\ main' \in {main, "exit"}
        BY <1>7, ElsewhereLeaves
    <2> QED BY <2>1 DEF Working
<1> QED BY <1>2, <1>3, <1>4, <1>5, <1>6, <1>7 DEF Next, Main, Elsewhere

-----------------------------------------------------------------------------
(* While every thread closes only what is its own *)

LEMMA Before ==
    ASSUME Next
    PROVE  (Live' => Live) /\ (~misclosed' => ~misclosed)
<1>1. CASE Main
    <2>1. Live
        BY <1>1 DEF Main, Live, At, Poll, Accept, EndOfTable, Skip, Receive, Aux, Send, CloseEntry,
            Check
    <2>2. ASSUME NEW d, NEW mine, Closes(d, mine) PROVE ~misclosed' => ~misclosed
        BY <2>2 DEF Closes
    <2>3. ~misclosed' => ~misclosed
        BY <1>1, <2>2 DEF Main, Poll, Accept, EndOfTable, Skip, Receive, Aux, Send, CloseEntry, Check
    <2> QED BY <2>1, <2>3
<1>2. CASE Elsewhere
    <2>1. main' \in {main, "exit"}
        BY <1>2, ElsewhereLeaves
    <2>2. ~misclosed' => ~misclosed
        BY <1>2 DEF Elsewhere, Change, Watcher, Conecta, ConectaConnect, Alone, Connect, Ask, Leave, Closes
    <2> QED BY <2>1, <2>2 DEF Live
<1> QED BY <1>1, <1>2 DEF Next, Elsewhere

LEMMA LeftForGood ==
    ASSUME TypeOK, Waiting, Next, NEW c \in Clients, client[c].left # "no"
    PROVE  client'[c].left # "no"
<1>1. client \in [Clients -> ClientStates]
    BY DEF TypeOK, ClientStates
<1>2. CASE Accept
    <2>1. client' = client \/ \E d \in Clients : client' = [client EXCEPT ![d].conn = "accepted"]
        BY <1>2, AfterAccept
    <2> QED BY <1>1, <2>1 DEF ClientStates
<1>3. ASSUME NEW d, NEW mine, Closes(d, mine) PROVE client'[c].left # "no"
    BY <1>1, <1>3 DEF Closes, ClientStates
<1>4. CASE Receive
    BY <1>1, <1>4 DEF Receive, ClientStates
<1>5. CASE Send
    <2>1. CASE Closes(connections[entry].fd, {Own(connections[entry].who)})
        BY <1>3, <2>1
    <2>2. CASE client' = IF Named(entry) = Own(asker) THEN [client EXCEPT ![asker].waits = FALSE]
                         ELSE client
        BY <1>1, <2>2 DEF ClientStates
    <2> QED BY <1>5, <2>1, <2>2 DEF Send
<1>6. CASE CloseEntry \/ Alone
    BY <1>3, <1>6 DEF CloseEntry, Alone
<1>7. ASSUME NEW d \in Clients, Connect(d) \/ Ask(d) \/ Leave(d) PROVE client'[c].left # "no"
    BY <1>1, <1>7 DEF Connect, Ask, Leave, ClientStates
<1>8. CASE Poll \/ EndOfTable \/ Skip \/ Aux \/ Check \/ Change \/ Conecta \/ ConectaConnect
    BY <1>8 DEF Poll, EndOfTable, Skip, Aux, Check, Change, Conecta, ConectaConnect
<1> QED BY <1>2, <1>4, <1>5, <1>6, <1>7, <1>8 DEF Next, Main, Watcher

\* What poll finds of an entry.
LEMMA PollFinds ==
    ASSUME Poll, NEW k \in DOMAIN connections, "HUP" \in revents'[k]
    PROVE  HungUp(Named(k))
<1>1. PICK found \in [DOMAIN connections -> BOOLEAN] :
         revents' = [j \in DOMAIN connections |->
                       (IF found[j] THEN {"IN"} ELSE {}) \cup
                       (IF HungUp(Named(j)) THEN {"HUP"} ELSE {})]
    BY DEF Poll
<1>2. revents'[k] = (IF found[k] THEN {"IN"} ELSE {}) \cup (IF HungUp(Named(k)) THEN {"HUP"} ELSE {})
    BY <1>1
<1> QED BY <1>2

LEMMA OpenIsNamed ==
    ASSUME NEW k, connections[k].fd # Minus1 PROVE Named(k) = file[connections[k].fd]
BY DEF Named

\* Only the entry that is being closed may name something else than its client.
LEMMA OwnEntry ==
    ASSUME EntriesAreOwn, Live, ~misclosed,
           NEW k \in DOMAIN connections, connections[k].fd # Minus1, main # "close" \/ k # entry
    PROVE  Named(k) = Own(connections[k].who)
BY DEF EntriesAreOwn

\* close gives back what its thread had opened.
LEMMA ClosesOwn ==
    ASSUME NEW d, NEW mine, Closes(d, mine), ~misclosed'
    PROVE  file' = [file EXCEPT ![d] = None] /\ file[d] \in mine \cup {None}
BY DEF Closes

LEMMA SameTable ==
    ASSUME Poll \/ EndOfTable \/ Skip \/ Receive \/ Aux \/ Check \/ Change \/ ConectaConnect
           \/ \E c \in Clients : Connect(c) \/ Ask(c) \/ Leave(c)
    PROVE  UNCHANGED <<file, connections, misclosed>>
BY DEF Poll, EndOfTable, StartsOver, Skip, Receive, Aux, Check, Change, ConectaConnect, Exits,
    Connect, Ask, Leave, Goes, NextEntry, mainVars, zkVars

LEMMA ZeroStep ==
    ASSUME IInv, Next, ~misclosed' PROVE file'[0] = Terminal
<1>1. ~misclosed /\ file[0] = Terminal /\ TypeOK /\ Waiting
    BY Before DEF IInv, Kept
<1>2. ASSUME NEW f, Free # {}, Opens(f) PROVE file'[0] = Terminal
    <2>1. Min(Free) # 0
        BY <1>1, <1>2, LowestFree, FilesDiffer
    <2> QED BY <1>1, <1>2, <2>1 DEF Opens
<1>3. ASSUME NEW d, NEW mine, Closes(d, mine), Terminal \notin mine PROVE file'[0] = Terminal
    <2>1. d # 0 /\ file' = [file EXCEPT ![d] = None]
        BY <1>1, <1>3, ClosesOwn, FilesDiffer
    <2> QED BY <1>1, <2>1
<1>4. CASE Accept
    BY <1>1, <1>2, <1>4, AfterAccept
<1>5. CASE Send
    <2>1. CASE Closes(connections[entry].fd, {Own(connections[entry].who)})
        BY <1>3, <2>1, FilesDiffer
    <2>2. CASE UNCHANGED file
        BY <1>1, <2>2
    <2> QED BY <1>5, <2>1, <2>2 DEF Send
<1>6. CASE CloseEntry \/ Alone
    BY <1>3, <1>6, FilesDiffer DEF CloseEntry, Alone
<1>7. CASE Conecta
    BY <1>1, <1>2, <1>7 DEF Conecta
<1>8. CASE UNCHANGED file
    BY <1>1, <1>8
<1> QED BY <1>4, <1>5, <1>6, <1>7, <1>8, SameTable DEF Next, Main, Watcher

LEMMA DistinctStep ==
    ASSUME IInv, Next, ~misclosed' PROVE Distinct'
<1>1. ~misclosed /\ Distinct /\ TypeOK /\ Waiting /\ Working /\ EntriesAreOwn
    BY Before DEF IInv, Kept
<1>2. CASE UNCHANGED connections
    BY <1>1, <1>2 DEF Distinct
<1>3. CASE Accept
    <2>1. ASSUME NEW c \in Clients, Free # {}, Opens(Own(c)),
                 connections' = Append(connections, [fd |-> Min(Free), who |-> c]),
                 revents' = Append(revents, {})
          PROVE  Distinct'
        <3>1. \A k \in DOMAIN connections : connections[k].fd # Minus1 =>
                 connections[k].fd # Min(Free)
            <4>1. main # "close" /\ Live
                BY <1>3 DEF Accept, At, Live
            <4> QED BY <1>1, <2>1, <4>1, OwnEntry, OpenIsNamed, LowestFree, FilesDiffer
        <3> DEFINE new == Len(connections) + 1
        <3>2. /\ DOMAIN connections' = DOMAIN connections \cup {new}
              /\ new \notin DOMAIN connections
              /\ \A k \in DOMAIN connections : connections'[k] = connections[k]
              /\ connections'[new].fd = Min(Free)
            BY <1>1, <2>1, Appended
        <3> HIDE DEF new
        <3> QED BY <1>1, <3>1, <3>2 DEF Distinct
    <2> QED BY <1>1, <1>2, <1>3, <2>1, AfterAccept
<1>4. CASE CloseEntry
    <2>1. connections' = [connections EXCEPT ![entry].fd = Minus1] /\ entry \in DOMAIN connections
        BY <1>1, <1>4 DEF CloseEntry, Working, At
    <2>2. \A k \in DOMAIN connections : connections'[k].fd \in {connections[k].fd, Minus1}
        BY <1>1, <2>1, EntryOf DEF Entries
    <2>3. DOMAIN connections' = DOMAIN connections
        BY <2>1
    <2> QED BY <1>1, <2>2, <2>3 DEF Distinct
<1>5. CASE Send \/ Conecta \/ Alone
    BY <1>2, <1>5 DEF Send, Conecta, Exits, Alone, Goes, mainVars
<1> QED BY <1>2, <1>3, <1>4, <1>5, SameTable DEF Next, Main, Watcher

LEMMA LeaversStep ==
    ASSUME IInv, Next, ~misclosed' PROVE Leavers'
<1>1. /\ ~misclosed /\ Leavers /\ TypeOK /\ Waiting /\ Polled /\ Working /\ EntriesAreOwn
      /\ DOMAIN revents = DOMAIN connections
      /\ \A k \in DOMAIN connections : connections[k].who \in Clients
      /\ \A c \in Clients : client[c].left # "no" => client'[c].left # "no"
    <2>1. ~misclosed /\ Leavers /\ TypeOK /\ Waiting /\ Polled /\ Working /\ EntriesAreOwn
        BY Before DEF IInv, Kept
    <2> QED BY <2>1, EntryOf, LeftForGood
<1> DEFINE Found == \A k \in DOMAIN connections :
              "HUP" \in revents[k] => client[connections[k].who].left # "no"
           Closing == main = "close" /\ Named(entry) = Own(connections[entry].who) =>
              client[connections[entry].who].left # "no"
<1>2. ASSUME UNCHANGED <<connections, revents>> PROVE Found'
    BY <1>1, <1>2 DEF Leavers
<1>3. CASE Poll
    <2>1. UNCHANGED <<connections, client>> /\ main' = "accept" /\ main = "poll"
        BY <1>3 DEF Poll, At
    <2>2. ASSUME NEW k \in DOMAIN connections, "HUP" \in revents'[k]
          PROVE  client[connections[k].who].left # "no"
        <3>1. HungUp(Named(k))
            BY <1>3, <2>2, PollFinds
        <3>2. connections[k].fd # Minus1
            BY <3>1, FilesDiffer DEF Named, HungUp
        <3>3. Named(k) = Own(connections[k].who)
            BY <1>1, <2>1, <3>2, OwnEntry DEF Live
        <3> QED BY <3>1, <3>3, FilesDiffer DEF HungUp
    <2> QED BY <2>1, <2>2 DEF Leavers
<1>4. CASE Accept
    <2>1. main' = "entry"
        BY <1>4 DEF Accept
    <2>2. ASSUME NEW e, connections' = Append(connections, e), revents' = Append(revents, {})
          PROVE  Found'
        <3> DEFINE new == Len(connections) + 1
        <3>1. /\ DOMAIN connections' = DOMAIN connections \cup {new}
              /\ \A k \in DOMAIN connections : connections'[k] = connections[k]
                                               /\ revents'[k] = revents[k]
              /\ revents'[new] = {}
            BY <1>1, <2>2, Appended
        <3> HIDE DEF new
        <3> QED BY <1>1, <3>1 DEF Leavers
    <2>3. Found'
        BY <1>1, <1>2, <1>4, <2>2, AfterAccept
    <2> QED BY <2>1, <2>3 DEF Leavers
<1>5. CASE CloseEntry
    <2>1. /\ connections' = [connections EXCEPT ![entry].fd = Minus1] /\ entry \in DOMAIN connections
          /\ revents' = revents /\ main' = "entry"
        BY <1>1, <1>5 DEF CloseEntry, NextEntry, Working, At
    <2>2. DOMAIN connections' = DOMAIN connections
          /\ \A k \in DOMAIN connections : connections'[k].who = connections[k].who
        BY <1>1, <2>1, EntryOf DEF Entries
    <2>3. Found'
        BY <1>1, <2>1, <2>2 DEF Leavers
    <2> QED BY <2>1, <2>3 DEF Leavers
<1>6. CASE Receive
    <2>1. UNCHANGED <<connections, revents, entry, file>> /\ main = "entry"
          /\ entry <= Len(connections) /\ "IN" \in revents[entry]
        BY <1>6 DEF Receive, Goes, At
    <2>2. entry \in DOMAIN connections /\ connections[entry].fd # Minus1
        <3>1. entry \in 1..Len(connections) + 1 /\ Len(connections) \in Nat
              /\ DOMAIN connections = 1..Len(connections)
            BY <1>1, EntryOf DEF TypeOK
        <3>2. entry \in DOMAIN connections
            BY <2>1, <3>1
        <3>3. revents[entry] # {} /\ entry >= entry
            BY <2>1, <3>1
        <3> QED BY <1>1, <2>1, <3>2, <3>3 DEF Polled
    <2>3. Named(entry) = Own(connections[entry].who)
        BY <1>1, <2>1, <2>2, OwnEntry DEF Live
    <2>4. ASSUME main' = "close" PROVE client[connections[entry].who].left # "no"
        BY <1>6, <2>3, <2>4, FilesDiffer DEF Receive, Goes
    <2>5. Closing'
        BY <1>1, <2>1, <2>2, <2>4
    <2> QED BY <1>2, <2>1, <2>5 DEF Leavers
<1>7. CASE Send
    <2>1. UNCHANGED <<connections, revents, entry>> /\ main = "send"
        BY <1>7 DEF Send, Goes, At
    <2>2. entry \in DOMAIN connections /\ connections[entry].fd \in Numbers
        BY <1>1, <2>1, EntryOf DEF Working
    <2>3. ASSUME main' = "close" PROVE Named(entry)' = None
        <3>1. Closes(connections[entry].fd, {Own(connections[entry].who)})
            BY <1>7, <2>3 DEF Send, Goes
        <3>2. file'[connections[entry].fd] = None
            BY <1>1, <2>2, <3>1 DEF Closes, TypeOK
        <3> QED BY <2>1, <3>2 DEF Named
    <2>4. Closing'
        BY <2>3, FilesDiffer
    <2> QED BY <1>2, <2>1, <2>4 DEF Leavers
<1>8. CASE Check
    <2>1. /\ UNCHANGED <<file, connections, revents>> /\ main = "check"
        BY <1>8 DEF Check, Goes, NextEntry, At
    <2>2. entry \in DOMAIN connections
        BY <1>1, <2>1 DEF Working
    <2>3. ASSUME main' = "close" PROVE "HUP" \in revents[entry] /\ entry' = entry
        BY <1>8, <2>3 DEF Check, Goes, NextEntry
    <2>4. Closing'
        BY <1>1, <2>1, <2>2, <2>3 DEF Leavers
    <2> QED BY <1>2, <2>1, <2>4 DEF Leavers
<1>9. CASE EndOfTable \/ Skip \/ Aux
    <2>1. connections' = connections /\ main' # "close"
        BY <1>9 DEF EndOfTable, StartsOver, Skip, Aux, Goes
    <2>2. CASE EndOfTable
        BY <2>1, <2>2 DEF EndOfTable, StartsOver, Leavers
    <2>3. CASE Skip \/ Aux
        BY <1>2, <2>1, <2>3 DEF Skip, Aux, Goes, Leavers
    <2> QED BY <1>9, <2>2, <2>3
<1>10. CASE Elsewhere
    <2>1. UNCHANGED <<connections, revents, entry>> /\ main' \in {main, "exit"}
        BY <1>10, ElsewhereLeaves
    <2>2. ASSUME main = "close", Named(entry)' = Own(connections[entry].who)
          PROVE  Named(entry) = Own(connections[entry].who)
        <3>1. connections[entry].fd \in Numbers
            BY <1>1, <2>2, EntryOf DEF Working
        <3>2. file'[connections[entry].fd] = Own(connections[entry].who)
            BY <2>1, <2>2, <3>1, FilesDiffer DEF Named
        <3>3. CASE UNCHANGED file
            BY <2>1, <2>2, <3>3 DEF Named
        <3>4. CASE Conecta /\ ~UNCHANGED file
            <4>1. file' = [file EXCEPT ![Min(Free)] = Link]
                BY <3>4 DEF Conecta, Opens
            <4>2. file[connections[entry].fd] = Own(connections[entry].who)
                BY <1>1, <3>1, <3>2, <4>1, FilesDiffer DEF TypeOK
            <4> QED BY <1>1, <2>2, <4>2 DEF Named, Working
        <3>5. CASE Alone
            <4>1. file' = [file EXCEPT ![sock_primary] = None]
                BY <3>5 DEF Alone, Closes
            <4>2. file[connections[entry].fd] = Own(connections[entry].who)
                BY <1>1, <3>1, <3>2, <4>1, FilesDiffer DEF TypeOK
            <4> QED BY <1>1, <2>2, <4>2 DEF Named, Working
        <3> QED BY <1>10, <3>3, <3>4, <3>5 DEF Elsewhere, Change, Watcher, ConectaConnect, Connect, Ask, Leave
    <2>3. ASSUME main' = "close", Named(entry)' = Own(connections[entry].who)
          PROVE  client'[connections[entry].who].left # "no"
        <3>1. main = "close"
            BY <2>1, <2>3
        <3>2. client[connections[entry].who].left # "no" /\ entry \in DOMAIN connections
            BY <1>1, <2>2, <2>3, <3>1 DEF Leavers, Working
        <3> QED BY <1>1, <3>2
    <2>4. Closing'
        BY <2>1, <2>3
    <2> QED BY <1>2, <2>1, <2>4 DEF Leavers
<1> QED BY <1>3, <1>4, <1>5, <1>6, <1>7, <1>8, <1>9, <1>10 DEF Next, Main, Elsewhere

\* Closing the descriptor of an entry leaves those of the others as they are.
LEMMA ClosesEntry ==
    ASSUME IInv, Live, ~misclosed, ~misclosed', main \in {"send", "close"},
           Closes(connections[entry].fd, {Own(connections[entry].who)})
    PROVE  /\ entry \in DOMAIN connections /\ connections[entry].fd \in Numbers
           /\ file'[connections[entry].fd] = None
           /\ \A d \in Numbers : d # connections[entry].fd => file'[d] = file[d]
           /\ \A k \in DOMAIN connections : k # entry /\ connections[k].fd # Minus1 =>
                 file'[connections[k].fd] = Own(connections[k].who)
<1>1. TypeOK /\ Working /\ Distinct /\ EntriesAreOwn
    BY DEF IInv, Kept
<1>2. entry \in DOMAIN connections /\ connections[entry].fd \in Numbers
    BY <1>1, EntryOf DEF Working
<1>3. file' = [file EXCEPT ![connections[entry].fd] = None] /\ file \in [Numbers -> Files]
    BY <1>1, ClosesOwn DEF TypeOK, Files
<1>4. ASSUME NEW k \in DOMAIN connections, k # entry, connections[k].fd # Minus1
      PROVE  file'[connections[k].fd] = Own(connections[k].who)
    <2>1. Named(k) = Own(connections[k].who)
        BY <1>1, <1>4, OwnEntry
    <2>2. connections[k].fd # connections[entry].fd
        BY <1>1, <1>2, <1>4 DEF Distinct
    <2> QED BY <1>3, <1>4, <2>1, <2>2 DEF Named
<1> QED BY <1>2, <1>3, <1>4

LEMMA EntriesStep ==
    ASSUME IInv, Next PROVE EntriesAreOwn'
<1> SUFFICES ASSUME Live', ~misclosed',
                    NEW k \in DOMAIN connections', connections'[k].fd # Minus1
             PROVE  \/ Named(k)' = Own(connections'[k].who)
                    \/ main' = "close" /\ k = entry' /\ Named(k)' \in {None, Link}
    BY DEF EntriesAreOwn
<1>1. Live /\ ~misclosed
    BY Before
<1>2. TypeOK /\ Waiting /\ Working /\ Distinct /\ EntriesAreOwn
    BY <1>1 DEF IInv, Kept
<1>3. ASSUME UNCHANGED <<file, connections>>, main # "close" \/ (main' = "close" /\ entry' = entry)
      PROVE  \/ Named(k)' = Own(connections'[k].who)
             \/ main' = "close" /\ k = entry' /\ Named(k)' \in {None, Link}
    BY <1>1, <1>2, <1>3 DEF EntriesAreOwn, Named
<1>4. CASE Poll \/ EndOfTable \/ Skip \/ Receive \/ Aux \/ Check
    BY <1>3, <1>4, SameTable DEF Poll, EndOfTable, Skip, Receive, Aux, Check, At
<1>5. CASE Accept
    <2>1. main = "accept"
        BY <1>5 DEF Accept, At
    <2>2. ASSUME NEW c \in Clients, Free # {}, Opens(Own(c)),
                 NEW j \in DOMAIN connections, connections[j].fd # Minus1
          PROVE  file'[connections[j].fd] = Own(connections[j].who)
        <3>1. Named(j) = Own(connections[j].who)
            BY <1>1, <1>2, <2>1, <2>2, OwnEntry
        <3>2. connections[j].fd \in Numbers
            BY <1>2, <2>2, EntryOf
        <3> QED BY <1>2, <2>2, <3>1, <3>2, LowestFree, FilesDiffer DEF Named, Opens, TypeOK
    <2>3. CASE UNCHANGED <<file, connections>>
        BY <1>3, <2>1, <2>3
    <2>4. ASSUME NEW c \in Clients, Free # {}, Opens(Own(c)), UNCHANGED connections
          PROVE  Named(k)' = Own(connections'[k].who)
        BY <2>2, <2>4 DEF Named
    <2>5. ASSUME NEW c \in Clients, Free # {}, Opens(Own(c)),
                 connections' = Append(connections, [fd |-> Min(Free), who |-> c]),
                 revents' = Append(revents, {})
          PROVE  Named(k)' = Own(connections'[k].who)
        <3> DEFINE new == Len(connections) + 1
        <3>1. /\ DOMAIN connections' = DOMAIN connections \cup {new}
              /\ \A j \in DOMAIN connections : connections'[j] = connections[j]
              /\ connections'[new] = [fd |-> Min(Free), who |-> c]
            BY <1>2, <2>5, Appended
        <3>2. file'[Min(Free)] = Own(c)
            BY <1>2, <2>5, LowestFree DEF Opens, TypeOK
        <3> HIDE DEF new
        <3>3. CASE k \in DOMAIN connections
            BY <2>2, <2>5, <3>1, <3>3 DEF Named
        <3>4. CASE k = new
            BY <3>1, <3>2, <3>4 DEF Named
        <3> QED BY <3>1, <3>3, <3>4
    <2> QED BY <1>2, <1>5, <2>3, <2>4, <2>5, AfterAccept
<1>6. CASE Send
    <2>1. UNCHANGED <<connections, entry>> /\ main = "send"
        BY <1>6 DEF Send, Goes, At
    <2>2. CASE UNCHANGED file
        BY <1>3, <2>1, <2>2
    <2>3. CASE main' = "close" /\ Closes(connections[entry].fd, {Own(connections[entry].who)})
        BY <1>1, <2>1, <2>3, ClosesEntry DEF Named
    <2> QED BY <1>6, <2>2, <2>3 DEF Send, Goes
<1>7. CASE CloseEntry
    <2>1. /\ connections' = [connections EXCEPT ![entry].fd = Minus1] /\ main = "close"
          /\ Closes(connections[entry].fd, {Own(connections[entry].who)})
        BY <1>7 DEF CloseEntry, At
    <2>2. entry \in DOMAIN connections /\ connections[entry] \in Entries
        BY <1>2, <2>1, EntryOf DEF Working
    <2>3. k \in DOMAIN connections /\ k # entry /\ connections'[k] = connections[k]
        BY <2>1, <2>2 DEF Entries
    <2> QED BY <1>1, <2>1, <2>3, ClosesEntry DEF Named
<1>8. CASE Conecta
    <2>1. /\ Free # {} /\ file' = [file EXCEPT ![Min(Free)] = Link]
          /\ UNCHANGED <<main, entry, connections>>
        BY <1>8 DEF Conecta, Exits, mainVars, Opens, Live
    <2>2. connections[k].fd \in Numbers
        BY <1>2, <2>1, EntryOf
    <2>3. CASE Named(k) = Own(connections[k].who)
        BY <1>2, <2>1, <2>2, <2>3, LowestFree, FilesDiffer DEF Named
    <2>4. CASE main = "close" /\ k = entry /\ Named(k) \in {None, Link}
        BY <1>2, <2>1, <2>2, <2>4 DEF Named, TypeOK
    <2> QED BY <1>1, <1>2, <2>1, <2>3, <2>4 DEF EntriesAreOwn
<1>9. CASE Alone
    <2>1. /\ file' = [file EXCEPT ![sock_primary] = None] /\ file[sock_primary] \in {Link, None}
          /\ UNCHANGED <<main, entry, connections>>
        BY <1>9, ClosesOwn DEF Alone, mainVars
    <2>2. connections[k].fd \in Numbers
        BY <1>2, <2>1, EntryOf
    <2>3. CASE Named(k) = Own(connections[k].who)
        BY <1>2, <2>1, <2>2, <2>3, FilesDiffer DEF Named
    <2>4. CASE main = "close" /\ k = entry /\ Named(k) \in {None, Link}
        BY <1>2, <2>1, <2>2, <2>4 DEF Named, TypeOK
    <2> QED BY <1>1, <1>2, <2>1, <2>3, <2>4 DEF EntriesAreOwn
<1>10. CASE Change \/ ConectaConnect \/ \E c \in Clients : Connect(c) \/ Ask(c) \/ Leave(c)
    <2>1. UNCHANGED <<main, entry>>
        BY <1>10 DEF Change, ConectaConnect, Exits, Connect, Ask, Leave, Live, mainVars
    <2> QED BY <1>3, <1>10, <2>1, SameTable
<1> QED BY <1>4, <1>5, <1>6, <1>7, <1>8, <1>9, <1>10 DEF Next, Main, Watcher

LEMMA ListedStep ==
    ASSUME IInv, Next PROVE NoneForgotten'
<1> SUFFICES ASSUME ~misclosed', NEW d \in Numbers, NEW c \in Clients, file'[d] = Own(c)
             PROVE  \E k \in DOMAIN connections' : connections'[k].fd = d
    BY DEF NoneForgotten
<1>1. TypeOK /\ Waiting /\ Working /\ NoneForgotten /\ ~misclosed /\ file[0] = Terminal
    BY Before DEF IInv, Kept
<1>2. ASSUME file[d] = Own(c)
      PROVE  \E k \in DOMAIN connections : connections[k].fd = d
    BY <1>1, <1>2 DEF NoneForgotten
<1>3. CASE UNCHANGED <<file, connections>>
    BY <1>2, <1>3
<1>4. CASE Accept
    <2>1. ASSUME NEW a \in Clients, Free # {}, Opens(Own(a)),
                 Min(Free) = 0 /\ UNCHANGED <<connections, revents>>
          PROVE  FALSE
        BY <1>1, <2>1, LowestFree, FilesDiffer
    <2>2. ASSUME NEW a \in Clients, Free # {}, Opens(Own(a)),
                 connections' = Append(connections, [fd |-> Min(Free), who |-> a]),
                 revents' = Append(revents, {})
          PROVE  \E k \in DOMAIN connections' : connections'[k].fd = d
        <3> DEFINE new == Len(connections) + 1
        <3>1. /\ DOMAIN connections' = DOMAIN connections \cup {new}
              /\ \A j \in DOMAIN connections : connections'[j] = connections[j]
              /\ connections'[new].fd = Min(Free)
            BY <1>1, <2>2, Appended
        <3> HIDE DEF new
        <3>2. d = Min(Free) \/ file[d] = Own(c)
            BY <1>1, <2>2 DEF Opens, TypeOK
        <3> QED BY <1>2, <3>1, <3>2
    <2> QED BY <1>1, <1>3, <1>4, <2>1, <2>2, AfterAccept
<1>5. ASSUME NEW e, NEW mine, Closes(e, mine) PROVE d # e /\ file[d] = Own(c)
    BY <1>1, <1>5, FilesDiffer DEF Closes, TypeOK
<1>6. CASE Send
    <2>1. UNCHANGED connections
        BY <1>6 DEF Send, Goes
    <2>2. CASE Closes(connections[entry].fd, {Own(connections[entry].who)})
        <3>1. file[d] = Own(c)
            BY <1>5, <2>2
        <3> QED BY <1>2, <2>1, <3>1
    <2> QED BY <1>3, <1>6, <2>1, <2>2 DEF Send
<1>7. CASE CloseEntry
    <2>1. /\ connections' = [connections EXCEPT ![entry].fd = Minus1]
          /\ Closes(connections[entry].fd, {Own(connections[entry].who)})
        BY <1>7 DEF CloseEntry
    <2>2. d # connections[entry].fd /\ file[d] = Own(c)
        BY <1>5, <2>1
    <2>3. PICK k \in DOMAIN connections : connections[k].fd = d
        BY <1>2, <2>2
    <2>4. k \in DOMAIN connections' /\ connections'[k] = connections[k]
        BY <2>1, <2>2, <2>3
    <2> QED BY <2>3, <2>4
<1>8. CASE Conecta
    <2>1. UNCHANGED connections
        BY <1>8 DEF Conecta, Exits, mainVars
    <2>2. CASE file' = [file EXCEPT ![Min(Free)] = Link]
        <3>1. file[d] = Own(c)
            BY <1>1, <2>2, FilesDiffer DEF TypeOK
        <3> QED BY <1>2, <2>1, <3>1
    <2> QED BY <1>3, <1>8, <2>1, <2>2 DEF Conecta, Opens
<1>9. CASE Alone
    <2>1. UNCHANGED connections /\ Closes(sock_primary, {Link})
        BY <1>9 DEF Alone, mainVars
    <2>2. file[d] = Own(c)
        BY <1>5, <2>1
    <2> QED BY <1>2, <2>1, <2>2
<1> QED BY <1>3, <1>4, <1>6, <1>7, <1>8, <1>9, SameTable DEF Next, Main, Watcher

LEMMA LeaversOnlyStep ==
    ASSUME IInv, Next PROVE OnlyLeaversClosed'
<1> SUFFICES ASSUME ~misclosed', NEW c \in Clients, client'[c].conn = "closed"
             PROVE  client'[c].left # "no"
    BY DEF OnlyLeaversClosed
<1>1. TypeOK /\ Waiting /\ Working /\ Leavers /\ EntriesAreOwn /\ OnlyLeaversClosed /\ ~misclosed
      /\ client \in [Clients -> ClientStates]
    BY Before DEF IInv, Kept, TypeOK, ClientStates
<1>2. ASSUME client[c].conn = "closed" \/ client[c].left # "no" PROVE client'[c].left # "no"
    BY <1>1, <1>2, LeftForGood DEF OnlyLeaversClosed
<1>3. CASE Accept
    <2>1. client' = client \/ \E a \in Clients : client' = [client EXCEPT ![a].conn = "accepted"]
        BY <1>1, <1>3, AfterAccept
    <2>2. client[c].conn = "closed"
        BY <1>1, <2>1 DEF ClientStates
    <2> QED BY <1>2, <2>2
<1>4. ASSUME NEW d, NEW mine, Closes(d, mine)
      PROVE  client[c].conn = "closed" \/ file[d] = Own(c)
    BY <1>1, <1>4 DEF Closes
<1>5. CASE Send
    <2>1. main = "send" /\ connections[entry].fd # Minus1
        BY <1>1, <1>5 DEF Send, At, Working
    <2>2. Named(entry) = file[connections[entry].fd]
        BY <2>1, OpenIsNamed
    <2>3. CASE client' = IF Named(entry) = Own(asker) THEN [client EXCEPT ![asker].waits = FALSE]
                         ELSE client
        <3>1. client[c].conn = "closed"
            BY <1>1, <2>3 DEF ClientStates
        <3> QED BY <1>2, <3>1
    <2>4. CASE /\ Named(entry) \in {None, Link} \/ HungUp(Named(entry))
               /\ Closes(connections[entry].fd, {Own(connections[entry].who)})
        <3>1. CASE file[connections[entry].fd] = Own(c)
            <4>1. HungUp(Own(c))
                BY <2>2, <2>4, <3>1, FilesDiffer
            <4>2. client[c].left # "no"
                BY <4>1, FilesDiffer DEF HungUp
            <4> QED BY <1>2, <4>2
        <3> QED BY <1>2, <1>4, <2>4, <3>1
    <2> QED BY <1>5, <2>3, <2>4 DEF Send
<1>6. CASE CloseEntry
    <2>1. /\ main = "close" /\ entry \in DOMAIN connections /\ connections[entry].fd # Minus1
          /\ Closes(connections[entry].fd, {Own(connections[entry].who)})
        BY <1>1, <1>6 DEF CloseEntry, At, Working
    <2>2. CASE file[connections[entry].fd] = Own(c)
        <3>1. Named(entry) = Own(c)
            BY <2>1, <2>2, OpenIsNamed
        <3>2. c = connections[entry].who
            BY <1>1, <2>1, <3>1, FilesDiffer DEF EntriesAreOwn, Live
        <3>3. client[c].left # "no"
            BY <1>1, <2>1, <3>1, <3>2 DEF Leavers
        <3> QED BY <1>2, <3>3
    <2> QED BY <1>2, <1>4, <2>1, <2>2
<1>7. CASE Alone
    <2>1. Closes(sock_primary, {Link}) /\ file[sock_primary] \in {Link, None}
        BY <1>7, ClosesOwn DEF Alone
    <2> QED BY <1>2, <1>4, <2>1, FilesDiffer
<1>8. CASE Receive
    <2>1. client[c].conn = "closed"
        BY <1>1, <1>8 DEF Receive, ClientStates
    <2> QED BY <1>2, <2>1
<1>9. ASSUME NEW a \in Clients, Connect(a) \/ Ask(a) \/ Leave(a) PROVE client'[c].left # "no"
    <2>1. client[c].conn = "closed"
        BY <1>1, <1>9 DEF Connect, Ask, Leave, ClientStates
    <2> QED BY <1>2, <2>1
<1>10. CASE Poll \/ EndOfTable \/ Skip \/ Aux \/ Check \/ Change \/ Conecta \/ ConectaConnect
    <2>1. client' = client
        BY <1>10 DEF Poll, EndOfTable, Skip, Aux, Check, Change, Conecta, ConectaConnect
    <2> QED BY <1>2, <2>1
<1> QED BY <1>3, <1>5, <1>6, <1>7, <1>8, <1>9, <1>10 DEF Next, Main, Watcher

-----------------------------------------------------------------------------
(* The theorems *)

LEMMA InitInvariant == Init => IInv
<1> SUFFICES ASSUME Init PROVE IInv
    OBVIOUS
<1>1. TypeOK
    <2>1. Idle \in Clients
        BY ConnectionsAssumption DEF Idle
    <2>2. 0 \in Numbers
        BY ConnectionsAssumption DEF Numbers
    <2>3. /\ connections \in Seq(Entries) /\ Len(connections) = 0 /\ Len(connections) < NFDESC
          /\ revents \in Seq(SUBSET {"IN", "HUP"}) /\ Len(revents) = Len(connections)
          /\ backlog \in Seq(Clients) /\ entry \in 1..Len(connections) + 1
          /\ 0 \in 0..MaxChanges
        BY ConnectionsAssumption, EmptySeq DEF Init
    <2>4. file \in [Numbers -> Files] /\ client \in [Clients -> ClientStates]
        BY DEF Init, Files, ClientStates
    <2>5. name \in {"primary", "backup"} /\ peer \in BOOLEAN
        BY ConnectionsAssumption DEF Init
    <2> QED BY <2>1, <2>2, <2>3, <2>4, <2>5, ConnectionsAssumption DEF Init, TypeOK, Files, ClientStates
<1>2. connections = << >> /\ main = "poll" /\ DOMAIN connections = {}
    BY DEF Init
<1>3. Waiting /\ Polled /\ Working /\ Distinct /\ Leavers /\ EntriesAreOwn
    BY <1>2 DEF Waiting, Polled, Working, Distinct, Leavers, EntriesAreOwn
<1>4. file[0] = Terminal /\ NoneForgotten
    <2>1. 0 \in Numbers
        BY ConnectionsAssumption DEF Numbers
    <2>2. \A d \in Numbers : file[d] \in {None, Terminal, Listener}
        BY DEF Init
    <2>3. NoneForgotten
        BY <2>2, FilesDiffer DEF NoneForgotten
    <2> QED BY <2>1, <2>3 DEF Init
<1>5. OnlyLeaversClosed
    BY DEF Init, OnlyLeaversClosed
<1> QED BY <1>1, <1>3, <1>4, <1>5 DEF IInv, Kept

LEMMA NextInvariant == IInv /\ [Next]_vars => IInv'
<1> SUFFICES ASSUME IInv, [Next]_vars PROVE IInv'
    OBVIOUS
<1>1. CASE UNCHANGED vars
    BY <1>1 DEF IInv, vars, mainVars, zkVars, TypeOK, Waiting, Polled, Working, Kept, Distinct, Leavers,
        Named, EntriesAreOwn, NoneForgotten, OnlyLeaversClosed, Live
<1>2. CASE Next
    <2>1. TypeOK /\ Waiting /\ Polled /\ Working
        BY DEF IInv
    <2>2. TypeOK'
        BY <1>2, <2>1, MainTypes, OthersTypes DEF Next
    <2>3. Waiting' /\ Polled' /\ Working'
        BY <1>2, <2>1, WaitingStep, PolledStep, WorkingStep
    <2>4. Kept'
        BY <1>2, ZeroStep, DistinctStep, LeaversStep DEF Kept
    <2>5. EntriesAreOwn' /\ NoneForgotten' /\ OnlyLeaversClosed'
        BY <1>2, EntriesStep, ListedStep, LeaversOnlyStep
    <2> QED BY <2>2, <2>3, <2>4, <2>5 DEF IInv
<1> QED BY <1>1, <1>2

\* What the other theorems rest on: in every reachable state the table, the descriptors
\* and the places of the main loop are as IInv says.
THEOREM Invariance == Spec => []IInv
BY InitInvariant, NextInvariant, PTL DEF Spec

\* The descriptors of a server stay of their types, each entry of the poll table names the
\* client accepted for it and every client's descriptor is in the table, as long as no
\* thread has closed what was not its own.
THEOREM TableStaysSound == Spec => []TableSound
<1>1. IInv => TableSound
    BY DEF IInv, TableSound
<1> QED BY <1>1, Invariance, PTL

\* The main loop and the watcher close the connection of a client only after it has left,
\* as long as no thread has closed what was not its own.
THEOREM ClosesLeaversOnly == Spec => []OnlyLeaversClosed
<1>1. IInv => OnlyLeaversClosed
    BY DEF IInv
<1> QED BY <1>1, Invariance, PTL
=============================================================================

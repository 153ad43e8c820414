------------------------- MODULE ReplicationProofs -------------------------
(***************************************************************************)
(* The safety of Replication for every number of processes and writes and   *)
(* every size of buffers: what a backup executes is what its primary does,   *)
(* in the same order, and no write is executed twice.                       *)
(***************************************************************************)
EXTENDS Replication, SequenceTheorems, WellFoundedInduction, TLAPS

\* Who holds the names.  A server that takes over holds the backup's until it has
\* deleted it.
Names ==
    /\ \A s \in Servers : up[s] = "up" => s \in {primary, backup}
    /\ primary \in Servers => up[primary] # "new"
    /\ backup \in Servers => up[backup] # "new"
    /\ \A s \in Servers :
          /\ watcher[s] = "take primary" => backup = s /\ primary # s
          /\ watcher[s] = "delete backup" => backup = s /\ primary = s
          /\ up[s] = "up" /\ backup = s /\ primary = s => watcher[s] = "delete backup"

\* A process that has not started, or has ended, is at rest.
Rested(s) ==
    /\ watcher[s] = "idle" /\ main[s] = "idle"
    /\ sock_primary[s] = Unset
    /\ conns[s] = << >>
    /\ coming[s] = {}

AtRest == \A s \in Servers :
    /\ up[s] # "up" => Rested(s)
    /\ up[s] = "new" => accepted[s] = << >>

\* Only the primary is linked to another server, and only it has clients.  A descriptor
\* leads to a connection that this server has made.
Links == \A s \in Servers :
    LET t == sock_primary[s].to  i == sock_primary[s].at IN
    /\ t \in Servers /\ t # s => primary = s
    /\ t \in Servers /\ i > 0 => \/ up[t] = "down"
                                 \/ i \in DOMAIN conns[t] /\ conns[t][i].from = s
    /\ watcher[s] = "connect" => t \in Servers

Hands == \A s \in Servers :
    /\ coming[s] # {} => primary = s
    /\ main[s] # "idle" => \/ request[s].from \in DOMAIN conns[s]
                           \/ request[s].from = Client /\ primary = s /\ main[s] # "receive"
    /\ main[s] \in {"aux", "length", "message", "enqueue"} => request[s].write \in Writes

\* A backup that nobody has connected to has done nothing.
Untouched == \A t \in Servers :
    up[t] = "up" /\ primary # t /\ conns[t] = << >> => main[t] = "idle" /\ accepted[t] = << >>

-----------------------------------------------------------------------------
\* Lengths and messages alternate in a stream, and where a message is expected none of
\* them is a length, although the socket is replaced between the two.
Alternate(q) == \A p \in 1..Len(q) - 1 : q[p] = Length <=> q[p + 1] # Length

Expects(t, i) == main[t] = "receive" /\ request[t].from = i

Framed == \A t \in Servers : \A i \in DOMAIN conns[t] :
    LET q == conns[t][i].stream IN
    /\ Alternate(q)
    /\ Expects(t, i) /\ q # << >> => q[1] # Length

Feeds(s, t, i) == /\ sock_primary[s].to = t /\ sock_primary[s].at = i
                  /\ i \in DOMAIN conns[t] /\ conns[t][i].heard

Flow == \A s, t \in Servers : \A i \in DOMAIN conns[t] : Feeds(s, t, i) =>
    LET q == conns[t][i].stream IN
    /\ q # << >> => (q[Len(q)] = Length <=> main[s] = "message")
    /\ q = << >> /\ Expects(t, i) => main[s] = "message"

-----------------------------------------------------------------------------
\* Where the writes are.
Unread(s) == {w \in Writes : \E i \in DOMAIN conns[s] : \E p \in DOMAIN conns[s][i].stream :
                                conns[s][i].stream[p] = w}

Ahead(s) == IF main[s] \in {"aux", "length", "message"} THEN {request[s].write} ELSE {}
Held(s) == IF main[s] \in {"aux", "length", "message", "enqueue"} THEN {request[s].write} ELSE {}
Logged(s) == {w \in Writes : \E k \in DOMAIN accepted[s] : accepted[s][k] = w}

ToForward(s) == coming[s] \cup Unread(s) \cup Ahead(s)
Has(s) == coming[s] \cup Unread(s) \cup Held(s) \cup Logged(s)

Issued == \A s \in Servers : \A w \in Has(s) : w <= issued

Apart(s) == \A i, j \in DOMAIN conns[s] :
    \A p \in DOMAIN conns[s][i].stream, q \in DOMAIN conns[s][j].stream :
       conns[s][i].stream[p] = conns[s][j].stream[q] =>
          conns[s][i].stream[p] = Length \/ (i = j /\ p = q)

\* A server forwards a write once ...
Unrepeated(s) ==
    /\ Apart(s)
    /\ coming[s] \cap Unread(s) = {}
    /\ Ahead(s) \cap (coming[s] \cup Unread(s)) = {}

\* ... and what the primary has yet to forward the backup does not have.
NotAhead == \A s, t \in Servers :
    primary = s /\ t # s /\ up[t] = "up" => ToForward(s) \cap Has(t) = {}

OwnFeeder(t) == \E i \in DOMAIN conns[t] : conns[t][i].from = t

\* Unless it is connected to itself, it executes a write once.
ExecutesOnce(t) == up[t] = "up" /\ ~OwnFeeder(t) =>
    /\ \A k, l \in DOMAIN accepted[t] : accepted[t][k] = accepted[t][l] => k = l
    /\ Logged(t) \cap (coming[t] \cup Unread(t) \cup Held(t)) = {}
    /\ Held(t) \cap (coming[t] \cup Unread(t)) = {}

Once == \A s \in Servers : Unrepeated(s) /\ ExecutesOnce(s)

\* The writes of a stream, as Sent has them.
WritesOf(q) == LET first == IF q # << >> /\ Head(q) = Length THEN 2 ELSE 1
               IN  [k \in 1..(Len(q) + 2 - first) \div 2 |-> q[2 * (k - 1) + first]]

Executed(t) == accepted[t] \o InHand(t)
Done(s) == accepted[s] \o Passed(s)

\* BackupFollows, of a link by its number.
KeepsUp == \A s, t \in Servers : \A i \in DOMAIN conns[t] :
    Feeds(s, t, i) /\ t # s /\ Len(conns[t]) = 1 =>
        IsSuffix(Executed(t) \o WritesOf(conns[t][i].stream), Done(s))

IInv == /\ TypeOK /\ Names /\ AtRest /\ Links /\ Hands /\ Untouched
        /\ Framed /\ Flow /\ Issued /\ NotAhead /\ Once
        /\ KeepsUp

-----------------------------------------------------------------------------
(* How a step may change the connections. *)

Items == Writes \cup {Length}

Alike(u, j) == /\ conns'[u][j].from = conns[u][j].from
               /\ conns'[u][j].heard = conns[u][j].heard
               /\ conns'[u][j].stream = conns[u][j].stream

Kept(u) == DOMAIN conns'[u] = DOMAIN conns[u] /\ \A j \in DOMAIN conns[u] : Alike(u, j)

Quiet == \A u \in Servers : Kept(u)

\* Only connection i of t changes, and not who made it.
Changes(t, i) ==
    /\ t \in Servers /\ i \in DOMAIN conns[t]
    /\ \A u \in Servers : /\ DOMAIN conns'[u] = DOMAIN conns[u]
                          /\ \A j \in DOMAIN conns[u] : u # t \/ j # i => Alike(u, j)
    /\ conns'[t][i].from = conns[t][i].from

Taken(s, i) == /\ Changes(s, i)
               /\ conns[s][i].heard /\ conns'[s][i].heard
               /\ conns[s][i].stream # << >>
               /\ conns'[s][i].stream = Tail(conns[s][i].stream)

Sends(t, i, item) == /\ Changes(t, i)
                     /\ conns[t][i].heard /\ conns'[t][i].heard
                     /\ conns'[t][i].stream = Append(conns[t][i].stream, item)

Shut(s, i) == Changes(s, i) /\ ~conns'[s][i].heard /\ conns'[s][i].stream = << >>

Cut(u, j) == \E n \in 0..Len(conns[u][j].stream) :
                conns'[u][j].stream = SubSeq(conns[u][j].stream, 1, n)

Hung(t, i) == Changes(t, i) /\ conns'[t][i].heard = conns[t][i].heard /\ Cut(t, i)

Grown(s, t) ==
    LET n == Len(conns[t]) + 1 IN
    /\ t \in Servers
    /\ \A u \in Servers \ {t} : Kept(u)
    /\ DOMAIN conns'[t] = 1..n /\ DOMAIN conns[t] = 1..n - 1
    /\ \A j \in DOMAIN conns[t] : Alike(t, j)
    /\ conns'[t][n].from = s /\ conns'[t][n].heard /\ conns'[t][n].stream = << >>

Ended(s) ==
    /\ conns'[s] = << >>
    /\ \A u \in Servers \ {s} :
          /\ DOMAIN conns'[u] = DOMAIN conns[u]
          /\ \A j \in DOMAIN conns[u] :
                /\ conns'[u][j].from = conns[u][j].from
                /\ conns'[u][j].heard = conns[u][j].heard
                /\ Cut(u, j)
                /\ conns[u][j].from # s => Alike(u, j)

ConnsType == conns \in [Servers -> Seq(Connections)]

LEMMA ConnsTypes == TypeOK => ConnsType
BY DEF TypeOK, ConnsType

\* A connection is one of the records, and its stream is a sequence of items.
LEMMA ConnOf ==
  ASSUME ConnsType, NEW t \in Servers, NEW i \in DOMAIN conns[t]
  PROVE  /\ conns[t] \in Seq(Connections) /\ i \in 1..Len(conns[t])
         /\ DOMAIN conns[t] = 1..Len(conns[t]) /\ Len(conns[t]) \in Nat
         /\ conns[t][i] \in Connections /\ i \in Nat \ {0}
         /\ conns[t][i].stream \in Seq(Items)
         /\ conns[t][i].from \in Servers /\ conns[t][i].unread \in Nat
         /\ conns[t][i].open \in BOOLEAN /\ conns[t][i].heard \in BOOLEAN
<1>1. conns[t] \in Seq(Connections) BY DEF ConnsType
<1>2. i \in 1..Len(conns[t]) /\ DOMAIN conns[t] = 1..Len(conns[t]) /\ Len(conns[t]) \in Nat BY <1>1
<1>3. conns[t][i] \in Connections BY <1>1, <1>2, ElementOfSeq
<1> QED BY <1>1, <1>2, <1>3 DEF Connections, Items

\* One connection is replaced by another.
Puts(t, i, c) == conns' = [conns EXCEPT ![t] = [conns[t] EXCEPT ![i] = c]]

LEMMA Replaced ==
  ASSUME ConnsType, NEW t \in Servers, NEW i \in DOMAIN conns[t], NEW c \in Connections,
         c.from = conns[t][i].from, Puts(t, i, c)
  PROVE  ConnsType' /\ Changes(t, i) /\ conns'[t][i] = c
<1>1. conns[t] \in Seq(Connections) /\ i \in 1..Len(conns[t]) BY ConnOf
<1>2. /\ [conns[t] EXCEPT ![i] = c] \in Seq(Connections)
      /\ Len([conns[t] EXCEPT ![i] = c]) = Len(conns[t])
      /\ \A j \in 1..Len(conns[t]) : [conns[t] EXCEPT ![i] = c][j] = IF j = i THEN c ELSE conns[t][j]
  BY <1>1, ExceptSeq
<1>3. ConnsType' BY <1>2 DEF ConnsType, Puts
<1>4. conns'[t] = [conns[t] EXCEPT ![i] = c] BY DEF ConnsType, Puts
<1>5. \A u \in Servers : u # t => conns'[u] = conns[u] BY DEF ConnsType, Puts
<1>6. DOMAIN conns'[t] = DOMAIN conns[t] BY <1>4
<1>7. conns'[t][i] = c /\ \A j \in DOMAIN conns[t] : j # i => conns'[t][j] = conns[t][j]
  BY <1>4, <1>2, <1>1
<1>8. Changes(t, i) BY <1>5, <1>6, <1>7 DEF Changes, Alike
<1> QED BY <1>3, <1>7, <1>8

LEMMA SameConns ==
  ASSUME ConnsType, UNCHANGED conns
  PROVE  ConnsType' /\ Quiet
BY DEF ConnsType, Quiet, Kept, Alike

LEMMA TakenFrom ==
  ASSUME ConnsType, NEW s \in Servers, NEW i \in DOMAIN conns[s], HasInput(s, i),
         conns' = [conns EXCEPT ![s][i].stream = Tail(@)]
  PROVE  ConnsType' /\ Taken(s, i)
<1> DEFINE c == [conns[s][i] EXCEPT !.stream = Tail(@)]
<1>1. conns[s][i] \in Connections /\ conns[s][i].stream \in Seq(Items) /\ conns[s][i].stream # << >>
  BY ConnOf DEF HasInput
<1>2. Tail(conns[s][i].stream) \in Seq(Items) BY <1>1, HeadTailProperties
<1>3. c \in Connections /\ c.from = conns[s][i].from /\ c.heard = conns[s][i].heard
      /\ c.stream = Tail(conns[s][i].stream)
  BY <1>1, <1>2 DEF Connections, Items
<1>4. Puts(s, i, c) BY DEF Puts
<1> HIDE DEF c
<1>5. ConnsType' /\ Changes(s, i) /\ conns'[s][i] = c BY <1>3, <1>4, Replaced
<1> QED BY <1>5, <1>3, <1>1 DEF Taken, HasInput

LEMMA SentTo ==
  ASSUME ConnsType, NEW t \in Servers, NEW i \in DOMAIN conns[t], NEW item \in Items,
         conns[t][i].heard,
         conns' = [conns EXCEPT ![t][i].stream = Append(@, item)]
  PROVE  ConnsType' /\ Sends(t, i, item)
<1> DEFINE c == [conns[t][i] EXCEPT !.stream = Append(@, item)]
<1>1. conns[t][i] \in Connections /\ conns[t][i].stream \in Seq(Items) BY ConnOf
<1>2. Append(conns[t][i].stream, item) \in Seq(Items) BY <1>1, AppendProperties
<1>3. c \in Connections /\ c.from = conns[t][i].from /\ c.heard = conns[t][i].heard
      /\ c.stream = Append(conns[t][i].stream, item)
  BY <1>1, <1>2 DEF Connections, Items
<1>4. Puts(t, i, c) BY DEF Puts
<1> HIDE DEF c
<1>5. ConnsType' /\ Changes(t, i) /\ conns'[t][i] = c BY <1>3, <1>4, Replaced
<1> QED BY <1>5, <1>3, <1>1 DEF Sends

LEMMA ShutOne ==
  ASSUME ConnsType, NEW s \in Servers, NEW i \in DOMAIN conns[s], Closes(s, i)
  PROVE  ConnsType' /\ Shut(s, i)
<1> DEFINE c == [conns[s][i] EXCEPT !.heard = FALSE, !.stream = << >>]
<1>1. conns[s][i] \in Connections BY ConnOf
<1>2. << >> \in Seq(Items) BY EmptySeq
<1>3. c \in Connections BY <1>1, <1>2 DEF Connections, Items
<1>4. c.from = conns[s][i].from BY <1>1 DEF Connections
<1>5. c.heard = FALSE /\ c.stream = << >> BY <1>1 DEF Connections
<1>6. Puts(s, i, c)
  <2>1. [conns EXCEPT ![s][i].heard = FALSE] =
           [conns EXCEPT ![s] = [conns[s] EXCEPT ![i] = [conns[s][i] EXCEPT !.heard = FALSE]]]
    OBVIOUS
  <2> QED BY <2>1, ConnOf DEF Closes, ConnsType, Puts
<1> HIDE DEF c
<1>7. ConnsType' /\ Changes(s, i) /\ conns'[s][i] = c BY <1>3, <1>4, <1>6, Replaced
<1> QED BY <1>5, <1>7 DEF Shut

\* Hanging up cuts the end off the stream at most.
LEMMA HungUpCuts ==
  ASSUME NEW c \in Connections, NEW kept \in Nat
  PROVE  /\ HungUp(c, kept) \in Connections
         /\ HungUp(c, kept).from = c.from
         /\ HungUp(c, kept).heard = c.heard
         /\ \E n \in 0..Len(c.stream) : HungUp(c, kept).stream = SubSeq(c.stream, 1, n)
<1> DEFINE q == IF c.unread > 0 /\ kept < Len(c.stream) THEN SubSeq(c.stream, 1, kept) ELSE c.stream
<1>1. c.stream \in Seq(Items) BY DEF Connections, Items
<1>2. SubSeq(c.stream, 1, Len(c.stream)) = c.stream BY <1>1, SubSeqFull
<1>3. Len(c.stream) \in Nat BY <1>1, LenProperties
<1>4. q \in Seq(Items)
  <2>1. CASE kept < Len(c.stream)
    <3>1. \A k \in 1..kept : c.stream[k] \in Items BY <2>1, <1>1, <1>3, ElementOfSeq
    <3>2. SubSeq(c.stream, 1, kept) \in Seq(Items) BY <3>1, SubSeqProperties
    <3> QED BY <3>2, <1>1
  <2> QED BY <2>1, <1>1
<1>5. \E n \in 0..Len(c.stream) : q = SubSeq(c.stream, 1, n)
  <2>1. CASE c.unread > 0 /\ kept < Len(c.stream) BY <2>1, <1>3
  <2>2. CASE ~(c.unread > 0 /\ kept < Len(c.stream)) BY <2>2, <1>2, <1>3
  <2> QED BY <2>1, <2>2
<1>6. HungUp(c, kept) = [c EXCEPT !.open = FALSE, !.stream = q] BY DEF HungUp
<1> HIDE DEF q
<1>7. HungUp(c, kept) =
        [from |-> c.from, stream |-> q, unread |-> c.unread, open |-> FALSE, heard |-> c.heard]
  BY <1>6 DEF Connections
<1>8. HungUp(c, kept) \in Connections BY <1>7, <1>4 DEF Connections, Items
<1>9. /\ HungUp(c, kept).from = c.from /\ HungUp(c, kept).heard = c.heard
      /\ HungUp(c, kept).stream = q
  BY <1>7
<1> QED BY <1>5, <1>8, <1>9

LEMMA HungOne ==
  ASSUME ConnsType, NEW t \in Servers, NEW i \in DOMAIN conns[t], NEW kept \in 0..Buffer,
         conns' = [conns EXCEPT ![t][i] = HungUp(@, kept)]
  PROVE  ConnsType' /\ Hung(t, i)
<1> DEFINE c == HungUp(conns[t][i], kept)
<1>1. conns[t][i] \in Connections BY ConnOf
<1>2. kept \in Nat BY ReplicationAssumption
<1>3. c \in Connections BY <1>1, <1>2, HungUpCuts
<1>4. c.from = conns[t][i].from BY <1>1, <1>2, HungUpCuts
<1>5. c.heard = conns[t][i].heard BY <1>1, <1>2, HungUpCuts
<1>6. \E n \in 0..Len(conns[t][i].stream) : c.stream = SubSeq(conns[t][i].stream, 1, n)
  BY <1>1, <1>2, HungUpCuts
<1>7. Puts(t, i, c) BY DEF Puts
<1> HIDE DEF c
<1>8. ConnsType' /\ Changes(t, i) /\ conns'[t][i] = c BY <1>3, <1>4, <1>7, Replaced
<1> QED BY <1>5, <1>6, <1>8 DEF Hung, Cut

LEMMA GrownOne ==
  ASSUME ConnsType, NEW s \in Servers, NEW t \in Servers,
         conns' = [conns EXCEPT ![t] = Append(@, NewConnection(s))]
  PROVE  ConnsType' /\ Grown(s, t)
<1> DEFINE c == NewConnection(s)
<1>1. c \in Connections /\ c.from = s /\ c.heard = TRUE /\ c.stream = << >>
  BY EmptySeq DEF Connections, NewConnection
<1>2. conns' = [conns EXCEPT ![t] = Append(conns[t], c)] OBVIOUS
<1> HIDE DEF c
<1>3. conns[t] \in Seq(Connections) BY DEF ConnsType
<1>4. /\ Append(conns[t], c) \in Seq(Connections)
      /\ Len(Append(conns[t], c)) = Len(conns[t]) + 1
      /\ \A j \in 1..Len(conns[t]) : Append(conns[t], c)[j] = conns[t][j]
      /\ Append(conns[t], c)[Len(conns[t]) + 1] = c
  BY <1>1, <1>3, AppendProperties
<1>5. conns'[t] = Append(conns[t], c) /\ \A u \in Servers : u # t => conns'[u] = conns[u]
  BY <1>2 DEF ConnsType
<1>6. ConnsType' BY <1>2, <1>4 DEF ConnsType
<1>7. /\ DOMAIN conns[t] = 1..Len(conns[t]) /\ Len(conns[t]) \in Nat
      /\ DOMAIN conns'[t] = 1..Len(conns[t]) + 1
  BY <1>3, <1>4, <1>5, LenProperties
<1>8. DOMAIN conns[t] = 1..(Len(conns[t]) + 1) - 1 BY <1>7
<1> QED BY <1>1, <1>4, <1>5, <1>6, <1>7, <1>8 DEF Grown, Kept, Alike

LEMMA EndedOnes ==
  ASSUME ConnsType, NEW s \in Servers, Exits(s)
  PROVE  ConnsType' /\ Ended(s)
<1>1. PICK kept \in 0..Buffer :
          conns' = [t \in Servers |->
              IF t = s THEN << >>
              ELSE [i \in DOMAIN conns[t] |->
                      IF conns[t][i].from = s /\ conns[t][i].open
                      THEN HungUp(conns[t][i], kept) ELSE conns[t][i]]]
  BY DEF Exits
<1>2. kept \in Nat BY ReplicationAssumption
<1>3. conns'[s] = << >> BY <1>1
<1>4. ASSUME NEW u \in Servers, u # s
      PROVE  /\ conns'[u] \in Seq(Connections)
             /\ DOMAIN conns'[u] = DOMAIN conns[u]
             /\ \A j \in DOMAIN conns[u] :
                   /\ conns'[u][j].from = conns[u][j].from
                   /\ conns'[u][j].heard = conns[u][j].heard
                   /\ Cut(u, j)
                   /\ conns[u][j].from # s => Alike(u, j)
  <2>1. conns'[u] = [i \in DOMAIN conns[u] |->
                      IF conns[u][i].from = s /\ conns[u][i].open
                      THEN HungUp(conns[u][i], kept) ELSE conns[u][i]]
    BY <1>1, <1>4
  <2>2. ASSUME NEW j \in DOMAIN conns[u]
        PROVE /\ conns'[u][j] \in Connections
              /\ conns'[u][j].from = conns[u][j].from
              /\ conns'[u][j].heard = conns[u][j].heard
              /\ Cut(u, j)
              /\ conns[u][j].from # s => Alike(u, j)
    <3>1. conns[u][j] \in Connections /\ conns[u][j].stream \in Seq(Items) BY ConnOf
    <3>2. CASE conns[u][j].from = s /\ conns[u][j].open
      <4> DEFINE d == conns[u][j]
      <4>1. conns'[u][j] = HungUp(d, kept) BY <2>1, <3>2
      <4>2. d \in Connections BY <3>1
      <4> HIDE DEF d
      <4>3. /\ HungUp(d, kept) \in Connections
            /\ HungUp(d, kept).from = d.from /\ HungUp(d, kept).heard = d.heard
            /\ \E n \in 0..Len(d.stream) : HungUp(d, kept).stream = SubSeq(d.stream, 1, n)
        BY <4>2, <1>2, HungUpCuts
      <4> QED BY <4>1, <4>3, <3>2 DEF Cut, d
    <3>3. CASE ~(conns[u][j].from = s /\ conns[u][j].open)
      <4>1. conns'[u][j] = conns[u][j] BY <2>1, <3>3
      <4>2. Len(conns[u][j].stream) \in Nat BY <3>1, LenProperties
      <4>3. SubSeq(conns[u][j].stream, 1, Len(conns[u][j].stream)) = conns[u][j].stream
        BY <3>1, SubSeqFull
      <4>4. Cut(u, j) BY <4>1, <4>2, <4>3 DEF Cut
      <4> QED BY <4>1, <4>4, <3>1 DEF Alike
    <3> QED BY <3>2, <3>3
  <2>3. DOMAIN conns'[u] = DOMAIN conns[u] BY <2>1
  <2>4. conns[u] \in Seq(Connections) BY DEF ConnsType
  <2>5. DOMAIN conns[u] = 1..Len(conns[u]) /\ Len(conns[u]) \in Nat BY <2>4, LenProperties
  <2>6. conns'[u] \in [1..Len(conns[u]) -> Connections] BY <2>1, <2>2, <2>5
  <2>7. conns'[u] \in Seq(Connections) BY <2>5, <2>6, SeqDef
  <2> QED BY <2>2, <2>3, <2>7
<1>5. << >> \in Seq(Connections) BY EmptySeq
<1>6. ConnsType' BY <1>1, <1>3, <1>4, <1>5 DEF ConnsType
<1> QED BY <1>3, <1>4, <1>6 DEF Ended

-----------------------------------------------------------------------------
(* The steps, with what they do to the connections. *)

KeepsWork == UNCHANGED <<main, request, accepted, coming, issued>>

Ends(s) == up[s] = "up" /\ Exits(s) /\ Ended(s)

Named(s) == /\ Quiet
            /\ \/ Start(s) \/ Expire(s) \/ DeleteBackup(s)
               \/ Calls(s, "take primary", "delete backup") /\ primary = Nobody /\ primary' = s
                  /\ Rests /\ UNCHANGED <<backup, sock_primary>>

\* A step of the ZooKeeper thread that leaves the socket alone.
Watched(s) == /\ Quiet /\ KeepsWork /\ UNCHANGED <<up, primary, backup, sock_primary>>
              /\ \/ Calls(s, "idle", "watch again")
                 \/ Calls(s, "watch again", "find backup")
                 \/ Calls(s, "reset", "idle")

Found(s) == /\ Quiet /\ Rests /\ UNCHANGED names
            /\ Calls(s, "find backup", "connect") /\ backup # Nobody
            /\ sock_primary' = [sock_primary EXCEPT ![s] = [to |-> backup, at |-> 0]]

HangsUp(s) == /\ primary = Nobody \/ backup = Nobody
              /\ Calls(s, "idle", IF primary = Nobody THEN "take primary" ELSE "idle")
              /\ sock_primary' = [sock_primary EXCEPT ![s] = Closed]
              /\ IF Heard(s) THEN Hung(sock_primary[s].to, sock_primary[s].at) ELSE Quiet
              /\ Rests /\ UNCHANGED <<primary, backup>>

Connects(s) == LET t == sock_primary[s].to IN
    /\ Calls(s, "connect", "reset")
    /\ up[t] = "up"
    /\ Grown(s, t)
    /\ sock_primary' = [sock_primary EXCEPT ![s].at = Len(conns[t]) + 1]
    /\ Rests /\ UNCHANGED names

Measured(s, i) == /\ Does(s, "idle", "receive")
                  /\ Taken(s, i) /\ conns[s][i].stream[1] = Length
                  /\ request' = [request EXCEPT ![s] = [write |-> 0, from |-> i]]
                  /\ Stays /\ UNCHANGED <<logs, clients>>

Received(s) == LET i == request[s].from IN
    /\ Does(s, "receive", "aux")
    /\ Taken(s, i)
    /\ request' = [request EXCEPT ![s].write = conns[s][i].stream[1]]
    /\ Stays /\ UNCHANGED <<logs, clients>>

Dropped(s, i) == /\ main[s] \in {"idle", "receive"} /\ Does(s, main[s], "idle")
                 /\ Shut(s, i)
                 /\ request' = request \/ request' = [request EXCEPT ![s] = NoRequest]
                 /\ Stays /\ UNCHANGED <<logs, clients>>

Invoked(s) == Does(s, "aux", "length") /\ Quiet /\ Stays /\ UNCHANGED <<request, logs, clients>>

Forwarded(s, from, item, to) ==
    /\ Does(s, from, to)
    /\ IF Heard(s) THEN Sends(sock_primary[s].to, sock_primary[s].at, item) ELSE Quiet
    /\ Stays /\ UNCHANGED <<request, logs, clients>>

Replied(s) == /\ Does(s, "reply", "idle") /\ Quiet
              /\ request' = [request EXCEPT ![s] = NoRequest]
              /\ Stays /\ UNCHANGED <<last_assigned, accepted, clients>>

Acts(s) ==
    \/ Ends(s)
    \/ Named(s) \/ Watched(s) \/ Found(s) \/ HangsUp(s) \/ Connects(s)
    \/ Quiet /\ Issue(s)
    \/ Quiet /\ ReceiveFromClient(s)
    \/ \E i \in DOMAIN conns[s] : Measured(s, i) \/ Dropped(s, i)
    \/ Received(s) \/ Invoked(s)
    \/ Forwarded(s, "length", Length, "message")
    \/ Forwarded(s, "message", request[s].write, "enqueue")
    \/ Quiet /\ Enqueue(s)
    \/ Replied(s)

LEMMA HeardLink ==
  ASSUME TypeOK, NEW s \in Servers, Heard(s)
  PROVE  /\ sock_primary[s].to \in Servers
         /\ sock_primary[s].at \in DOMAIN conns[sock_primary[s].to]
         /\ conns[sock_primary[s].to][sock_primary[s].at].heard
BY DEF TypeOK, Sockets, Heard, Link

LEMMA ExitsTypes ==
  ASSUME TypeOK, NEW s \in Servers, up[s] = "up", Exits(s)
  PROVE  TypeOK' /\ Ends(s)
<1>1. ConnsType' /\ Ended(s) BY ConnsTypes, EndedOnes
<1>2. NoRequest \in [write : Writes \cup {0}, from : Nat] BY DEF NoRequest, Client
<1>3. Unset \in Sockets BY DEF Unset, Sockets
<1> QED BY <1>1, <1>2, <1>3 DEF TypeOK, ConnsType, Exits, logs, Ends

LEMMA NotifyTypes ==
  ASSUME TypeOK, NEW deaf, Notify(deaf)
  PROVE  told' \in [Servers -> Nat] /\ watch' \in [Servers -> BOOLEAN]
<1>1. \A t \in Servers : told[t] \in Nat BY DEF TypeOK
<1>2. \A t \in Servers : (IF watch[t] /\ t \notin deaf THEN told[t] + 1 ELSE told[t]) \in Nat BY <1>1
<1> QED BY <1>2 DEF Notify

LEMMA NamedTypes ==
  ASSUME TypeOK, NEW s \in Servers,
         Start(s) \/ Expire(s) \/ DeleteBackup(s) \/ TakePrimary(s)
  PROVE  TypeOK' /\ (Named(s) \/ Ends(s))
<1> USE ConnsTypes
<1>1. CASE Start(s)
  <2>1. ConnsType' /\ Quiet BY <1>1, SameConns DEF Start
  <2>2. \A t \in Servers : told[t] \in Nat BY DEF TypeOK
  <2>3. \A t \in Servers : (IF watch[t] THEN told[t] + 1 ELSE told[t]) \in Nat BY <2>2
  <2>4. told' \in [Servers -> Nat] /\ watch' \in [Servers -> BOOLEAN] BY <1>1, <2>3 DEF Start
  <2>5. primary' \in Servers \cup {Nobody} /\ backup' \in Servers \cup {Nobody}
    BY <1>1 DEF Start, TypeOK
  <2>6. up' \in [Servers -> {"new", "up", "down"}] BY <1>1 DEF Start, TypeOK
  <2> QED BY <1>1, <2>1, <2>4, <2>5, <2>6 DEF Start, TypeOK, ConnsType, logs, clients, Named
<1>2. CASE Expire(s)
  <2>1. ConnsType' /\ Quiet BY <1>2, SameConns DEF Expire
  <2>2. told' \in [Servers -> Nat] /\ watch' \in [Servers -> BOOLEAN]
    BY <1>2, NotifyTypes DEF Expire
  <2> QED BY <1>2, <2>1, <2>2 DEF Expire, TypeOK, ConnsType, logs, clients, Named
<1>3. CASE DeleteBackup(s)
  <2>1. ConnsType' /\ Quiet BY <1>3, SameConns DEF DeleteBackup
  <2>2. told' \in [Servers -> Nat] /\ watch' \in [Servers -> BOOLEAN]
    BY <1>3, NotifyTypes DEF DeleteBackup
  <2> QED BY <1>3, <2>1, <2>2
      DEF DeleteBackup, Calls, Rests, TypeOK, ConnsType, logs, clients, Named
<1>4. CASE TakePrimary(s)
  <2>1. CASE primary = Nobody
    <3>1. ConnsType' /\ Quiet BY <1>4, <2>1, SameConns DEF TakePrimary
    <3>2. told' \in [Servers -> Nat] /\ watch' \in [Servers -> BOOLEAN]
      BY <1>4, <2>1, NotifyTypes DEF TakePrimary
    <3> QED BY <1>4, <2>1, <3>1, <3>2
        DEF TakePrimary, Calls, Rests, TypeOK, ConnsType, logs, clients, Named
  <2>2. CASE primary # Nobody BY <1>4, <2>2, ExitsTypes DEF TakePrimary
  <2> QED BY <2>1, <2>2
<1> QED BY <1>1, <1>2, <1>3, <1>4

LEMMA WatcherTypes ==
  ASSUME TypeOK, Links, NEW s \in Servers,
         ChildEvent(s) \/ WatchAgain(s) \/ FindBackup(s) \/ Connect(s) \/ ResetCounters(s)
  PROVE  TypeOK' /\ Acts(s)
<1> USE ConnsTypes
<1>0. ASSUME Exits(s), up[s] = "up" PROVE TypeOK' /\ Acts(s)
  BY <1>0, ExitsTypes DEF Acts
<1>1. CASE ChildEvent(s)
  <2> DEFINE two == primary # Nobody /\ backup # Nobody
  <2>0. told' \in [Servers -> Nat] /\ watch' \in [Servers -> BOOLEAN]
    <3>1. told[s] \in Nat /\ told[s] > 0 BY <1>1 DEF ChildEvent, TypeOK
    <3>2. told[s] - 1 \in Nat BY <3>1
    <3> QED BY <1>1, <3>2 DEF ChildEvent, TypeOK
  <2>1. CASE two
    <3>1. ConnsType' /\ Quiet BY <1>1, <2>1, SameConns DEF ChildEvent
    <3>2. TypeOK' BY <1>1, <2>0, <2>1, <3>1 DEF ChildEvent, Calls, Rests, TypeOK, ConnsType, logs, clients
    <3>3. Watched(s) BY <1>1, <2>1, <3>1 DEF ChildEvent, Rests, Watched, KeepsWork, logs, clients
    <3> QED BY <3>2, <3>3 DEF Acts
  <2>2. CASE ~two
    <3>1. Closed \in Sockets BY DEF Closed, Sockets
    <3>2. ConnsType' /\ IF Heard(s) THEN Hung(sock_primary[s].to, sock_primary[s].at) ELSE Quiet
      <4>1. CASE Heard(s)
        <5>1. PICK kept \in 0..Buffer :
                 conns' = [conns EXCEPT
                     ![sock_primary[s].to][sock_primary[s].at] = HungUp(@, kept)]
          BY <1>1, <2>2, <4>1 DEF ChildEvent
        <5> QED BY <4>1, <5>1, HeardLink, HungOne
      <4>2. CASE ~Heard(s) BY <1>1, <2>2, <4>2, SameConns DEF ChildEvent
      <4> QED BY <4>1, <4>2
    <3>3. TypeOK'
      BY <1>1, <2>0, <2>2, <3>1, <3>2 DEF ChildEvent, Calls, Rests, TypeOK, ConnsType, logs, clients
    <3>4. HangsUp(s) BY <1>1, <2>2, <3>2 DEF ChildEvent, HangsUp
    <3> QED BY <3>3, <3>4 DEF Acts
  <2> QED BY <2>1, <2>2
<1>2. CASE WatchAgain(s)
  <2>1. ConnsType' /\ Quiet BY <1>2, SameConns DEF WatchAgain
  <2>2. TypeOK' BY <1>2, <2>1 DEF WatchAgain, Calls, Rests, TypeOK, ConnsType, logs, clients
  <2>3. Watched(s) BY <1>2, <2>1 DEF WatchAgain, Rests, Watched, KeepsWork, logs, clients
  <2> QED BY <2>2, <2>3 DEF Acts
<1>3. CASE FindBackup(s)
  <2>1. CASE backup # Nobody
    <3>1. ConnsType' /\ Quiet BY <1>3, <2>1, SameConns DEF FindBackup
    <3>2. [to |-> backup, at |-> 0] \in Sockets BY DEF TypeOK, Sockets
    <3>3. TypeOK'
      <4>1. sock_primary' \in [Servers -> Sockets] BY <1>3, <2>1, <3>2 DEF FindBackup, TypeOK
      <4> QED
        BY <1>3, <2>1, <3>1, <4>1 DEF FindBackup, Calls, Rests, TypeOK, ConnsType, logs, clients, names
    <3>4. Found(s) BY <1>3, <2>1, <3>1 DEF FindBackup, Found
    <3> QED BY <3>3, <3>4 DEF Acts
  <2>2. CASE backup = Nobody BY <1>0, <1>3, <2>2 DEF FindBackup
  <2> QED BY <2>1, <2>2
<1>4. CASE Connect(s)
  <2>0. sock_primary[s].to \in Servers BY <1>4 DEF Connect, Calls, Links
  <2>1. CASE up[sock_primary[s].to] = "up"
    <3>1. ConnsType' /\ Grown(s, sock_primary[s].to) BY <1>4, <2>0, <2>1, GrownOne DEF Connect
    <3>2. Len(conns[sock_primary[s].to]) \in Nat BY <2>0, LenProperties DEF ConnsType
    <3>3. sock_primary' \in [Servers -> Sockets]
      <4>1. sock_primary \in [Servers -> Sockets] BY DEF TypeOK
      <4>2. [sock_primary[s] EXCEPT !.at = Len(conns[sock_primary[s].to]) + 1] \in Sockets
        BY <3>2, <4>1 DEF Sockets
      <4>3. sock_primary' = [sock_primary EXCEPT ![s] =
               [sock_primary[s] EXCEPT !.at = Len(conns[sock_primary[s].to]) + 1]]
        BY <1>4, <2>1 DEF Connect
      <4> QED BY <4>1, <4>2, <4>3
    <3>4. TypeOK'
      BY <1>4, <2>1, <3>1, <3>3 DEF Connect, Calls, Rests, TypeOK, ConnsType, logs, clients, names
    <3>5. Connects(s) BY <1>4, <2>1, <3>1 DEF Connect, Connects
    <3> QED BY <3>4, <3>5 DEF Acts
  <2>2. CASE up[sock_primary[s].to] # "up" BY <1>0, <1>4, <2>2 DEF Connect
  <2> QED BY <2>1, <2>2
<1>5. CASE ResetCounters(s)
  <2>1. ConnsType' /\ Quiet BY <1>5, SameConns DEF ResetCounters
  <2>2. TypeOK' BY <1>5, <2>1 DEF ResetCounters, Calls, Rests, TypeOK, ConnsType, names, clients
  <2>3. Watched(s) BY <1>5, <2>1 DEF ResetCounters, Watched, KeepsWork, names, clients
  <2> QED BY <2>2, <2>3 DEF Acts
<1> QED BY <1>1, <1>2, <1>3, <1>4, <1>5

LEMMA DoesTypes ==
  ASSUME TypeOK, NEW s \in Servers, NEW from,
         NEW to \in {"idle", "receive", "aux", "length", "message", "enqueue", "reply"},
         Does(s, from, to)
  PROVE  main' \in [Servers -> {"idle", "receive", "aux", "length", "message", "enqueue", "reply"}]
BY DEF TypeOK, Does

\* What a server reads when it expects a message is one.
LEMMA HeadOf ==
  ASSUME TypeOK, Framed, NEW s \in Servers, NEW i \in DOMAIN conns[s], HasInput(s, i)
  PROVE  /\ conns[s][i].stream \in Seq(Items) /\ conns[s][i].stream # << >>
         /\ Head(conns[s][i].stream) = conns[s][i].stream[1]
         /\ conns[s][i].stream[1] \in Items
         /\ Expects(s, i) => conns[s][i].stream[1] \in Writes
<1> DEFINE q == conns[s][i].stream
<1>1. q \in Seq(Items) /\ q # << >> BY ConnsTypes, ConnOf DEF HasInput
<1> HIDE DEF q
<1>2. Head(q) = q[1] /\ Len(q) \in Nat \ {0} BY <1>1, EmptySeq
<1>3. q[1] \in Items BY <1>1, <1>2, ElementOfSeq
<1>4. Expects(s, i) => q[1] # Length BY <1>1 DEF Framed, q
<1> QED BY <1>1, <1>2, <1>3, <1>4 DEF q, Items

LEMMA ReceivesTypes ==
  ASSUME TypeOK, Hands, Framed, NEW s \in Servers,
         \/ ReceiveFromClient(s) \/ ReceiveMessage(s)
         \/ \E i \in DOMAIN conns[s] : ReceiveLength(s, i) \/ ReceiveEnd(s, i) \/ ReceiveBroken(s, i)
  PROVE  TypeOK' /\ Acts(s)
<1> USE ConnsTypes
<1>r. /\ request \in [Servers -> [write : Writes \cup {0}, from : Nat]]
      /\ request[s] \in [write : Writes \cup {0}, from : Nat]
  BY DEF TypeOK
<1>1. CASE ReceiveFromClient(s)
  <2>1. ConnsType' /\ Quiet BY <1>1, SameConns DEF ReceiveFromClient
  <2>2. PICK w \in coming[s] : /\ request' = [request EXCEPT ![s] = [write |-> w, from |-> Client]]
                               /\ coming' = [coming EXCEPT ![s] = @ \ {w}]
    BY <1>1 DEF ReceiveFromClient
  <2>3. w \in Writes BY DEF TypeOK
  <2>4. request' \in [Servers -> [write : Writes \cup {0}, from : Nat]]
    BY <1>r, <2>2, <2>3 DEF Client
  <2>5. main' \in [Servers -> {"idle", "receive", "aux", "length", "message", "enqueue", "reply"}]
    BY <1>1, DoesTypes DEF ReceiveFromClient
  <2>6. TypeOK' BY <1>1, <2>1, <2>2, <2>4, <2>5 DEF ReceiveFromClient, Stays, TypeOK, ConnsType, logs, names
  <2> QED BY <1>1, <2>1, <2>6 DEF Acts
<1>2. CASE ReceiveMessage(s)
  <2> DEFINE i == request[s].from
  <2>1. i \in DOMAIN conns[s] BY <1>2 DEF ReceiveMessage, Does, Hands
  <2>2. HasInput(s, i) /\ Expects(s, i) BY <1>2 DEF ReceiveMessage, Does, Expects
  <2>3. conns' = [conns EXCEPT ![s][i].stream = Tail(@)] BY <1>2 DEF ReceiveMessage
  <2>4. Head(conns[s][i].stream) = conns[s][i].stream[1] /\ conns[s][i].stream[1] \in Writes
    BY <2>1, <2>2, HeadOf
  <2>5. request' = [request EXCEPT ![s].write = conns[s][i].stream[1]] BY <1>2, <2>4 DEF ReceiveMessage
  <2> HIDE DEF i
  <2>6. ConnsType' /\ Taken(s, i) BY <2>1, <2>2, <2>3, TakenFrom
  <2>7. request' \in [Servers -> [write : Writes \cup {0}, from : Nat]] BY <1>r, <2>4, <2>5
  <2>8. main' \in [Servers -> {"idle", "receive", "aux", "length", "message", "enqueue", "reply"}]
    BY <1>2, DoesTypes DEF ReceiveMessage
  <2>9. TypeOK' BY <1>2, <2>6, <2>7, <2>8 DEF ReceiveMessage, Stays, TypeOK, ConnsType, logs, names, clients
  <2>10. Received(s) BY <1>2, <2>5, <2>6 DEF ReceiveMessage, Received, i
  <2> QED BY <2>9, <2>10 DEF Acts
<1>3. ASSUME NEW i \in DOMAIN conns[s], ReceiveLength(s, i) PROVE TypeOK' /\ Acts(s)
  <2>1. HasInput(s, i) /\ conns' = [conns EXCEPT ![s][i].stream = Tail(@)] BY <1>3 DEF ReceiveLength
  <2>2. ConnsType' /\ Taken(s, i) BY <2>1, TakenFrom
  <2>3. conns[s][i].stream[1] = Length BY <1>3, <2>1, HeadOf DEF ReceiveLength
  <2>4. i \in Nat BY ConnOf
  <2>5. request' \in [Servers -> [write : Writes \cup {0}, from : Nat]]
    BY <1>3, <1>r, <2>4 DEF ReceiveLength
  <2>6. main' \in [Servers -> {"idle", "receive", "aux", "length", "message", "enqueue", "reply"}]
    BY <1>3, DoesTypes DEF ReceiveLength
  <2>7. TypeOK' BY <1>3, <2>2, <2>5, <2>6 DEF ReceiveLength, Stays, TypeOK, ConnsType, logs, names, clients
  <2>8. Measured(s, i) BY <1>3, <2>2, <2>3 DEF ReceiveLength, Measured
  <2> QED BY <2>7, <2>8 DEF Acts
<1>4. ASSUME NEW i \in DOMAIN conns[s], Closes(s, i), main[s] \in {"idle", "receive"},
             Does(s, main[s], "idle"),
             request' = request \/ request' = [request EXCEPT ![s] = NoRequest],
             Stays, UNCHANGED <<logs, clients>>
      PROVE  TypeOK' /\ Acts(s)
  <2>1. ConnsType' /\ Shut(s, i) BY <1>4, ShutOne
  <2>2. request' \in [Servers -> [write : Writes \cup {0}, from : Nat]]
    BY <1>4, <1>r DEF NoRequest, Client
  <2>3. main' \in [Servers -> {"idle", "receive", "aux", "length", "message", "enqueue", "reply"}]
    BY <1>4, DoesTypes
  <2>4. TypeOK' BY <1>4, <2>1, <2>2, <2>3 DEF Stays, TypeOK, ConnsType, logs, names, clients
  <2>5. Dropped(s, i) BY <1>4, <2>1 DEF Dropped
  <2> QED BY <2>4, <2>5 DEF Acts
<1>5. ASSUME NEW i \in DOMAIN conns[s], ReceiveEnd(s, i) PROVE TypeOK' /\ Acts(s)
  BY <1>4, <1>5 DEF ReceiveEnd, Does
<1>6. ASSUME NEW i \in DOMAIN conns[s], ReceiveBroken(s, i) PROVE TypeOK' /\ Acts(s)
  <2>1. up[s] = "up" /\ main[s] \in {"idle", "receive"} BY <1>6 DEF ReceiveBroken
  <2>2. CASE Exits(s) BY <2>1, <2>2, ExitsTypes DEF Acts
  <2>3. CASE ~Exits(s) BY <1>4, <1>6, <2>1, <2>3 DEF ReceiveBroken
  <2> QED BY <2>2, <2>3
<1> QED BY <1>1, <1>2, <1>3, <1>5, <1>6

LEMMA ForwardTypes ==
  ASSUME TypeOK, NEW s \in Servers, NEW from, NEW item \in Items,
         NEW to \in {"message", "enqueue"}, Forward(s, from, item, to)
  PROVE  TypeOK' /\ (Forwarded(s, from, item, to) \/ Ends(s))
<1>1. CASE Does(s, from, to) /\ Stays /\ UNCHANGED <<request, logs, clients>>
           /\ IF Heard(s)
              THEN conns' = [conns EXCEPT
                     ![sock_primary[s].to][sock_primary[s].at].stream = Append(@, item)]
              ELSE UNCHANGED conns
  <2>1. ConnsType' /\ IF Heard(s) THEN Sends(sock_primary[s].to, sock_primary[s].at, item) ELSE Quiet
    <3>1. CASE Heard(s) BY <1>1, <3>1, ConnsTypes, HeardLink, SentTo
    <3>2. CASE ~Heard(s) BY <1>1, <3>2, ConnsTypes, SameConns
    <3> QED BY <3>1, <3>2
  <2>2. main' \in [Servers -> {"idle", "receive", "aux", "length", "message", "enqueue", "reply"}]
    BY <1>1, DoesTypes
  <2>3. TypeOK' BY <1>1, <2>1, <2>2 DEF Stays, TypeOK, ConnsType, logs, names, clients
  <2> QED BY <1>1, <2>1, <2>3 DEF Forwarded
<1>2. CASE up[s] = "up" /\ Exits(s) BY <1>2, ExitsTypes
<1> QED BY <1>1, <1>2 DEF Forward

LEMMA MainTypes ==
  ASSUME TypeOK, Hands, NEW s \in Servers,
         InvokeAux(s) \/ ForwardLength(s) \/ ForwardMessage(s) \/ Enqueue(s) \/ Reply(s)
  PROVE  TypeOK' /\ Acts(s)
<1> USE ConnsTypes
<1>1. CASE InvokeAux(s)
  <2>1. CASE Does(s, "aux", "length") /\ Stays /\ UNCHANGED <<request, conns, logs, clients>>
    <3>1. ConnsType' /\ Quiet BY <2>1, SameConns
    <3>2. main' \in [Servers -> {"idle", "receive", "aux", "length", "message", "enqueue", "reply"}]
      BY <2>1, DoesTypes
    <3>3. TypeOK' BY <2>1, <3>1, <3>2 DEF Stays, TypeOK, ConnsType, logs, names, clients
    <3> QED BY <2>1, <3>1, <3>3 DEF Invoked, Acts
  <2>2. CASE up[s] = "up" /\ Exits(s) BY <2>2, ExitsTypes DEF Acts
  <2> QED BY <1>1, <2>1, <2>2 DEF InvokeAux
<1>2. CASE ForwardLength(s)
  <2>1. Length \in Items BY DEF Items
  <2> QED BY <1>2, <2>1, ForwardTypes DEF ForwardLength, Acts
<1>3. CASE ForwardMessage(s)
  <2>1. main[s] = "message" BY <1>3 DEF ForwardMessage, Forward, Does
  <2>2. request[s].write \in Items BY <2>1 DEF Hands, Items
  <2> QED BY <1>3, <2>2, ForwardTypes DEF ForwardMessage, Acts
<1>4. CASE Enqueue(s)
  <2>1. ConnsType' /\ Quiet BY <1>4, SameConns DEF Enqueue
  <2>2. request[s].write \in Writes BY <1>4 DEF Enqueue, Does, Hands
  <2>3. accepted[s] \in Seq(Writes) /\ last_assigned[s] \in Nat BY DEF TypeOK
  <2>4. Append(accepted[s], request[s].write) \in Seq(Writes) BY <2>2, <2>3, AppendProperties
  <2>5. accepted' \in [Servers -> Seq(Writes)] BY <1>4, <2>4 DEF Enqueue, TypeOK
  <2>6. last_assigned[s] + 1 \in Nat BY <2>3
  <2>7. last_assigned' \in [Servers -> Nat] BY <1>4, <2>6 DEF Enqueue, TypeOK
  <2>8. main' \in [Servers -> {"idle", "receive", "aux", "length", "message", "enqueue", "reply"}]
    BY <1>4, DoesTypes DEF Enqueue
  <2>9. TypeOK' BY <1>4, <2>1, <2>5, <2>7, <2>8 DEF Enqueue, Stays, TypeOK, ConnsType, names, clients
  <2> QED BY <1>4, <2>1, <2>9 DEF Acts
<1>5. CASE Reply(s)
  <2> DEFINE i == request[s].from
  <2>1. ConnsType' /\ Quiet
    <3>1. CASE i # Client /\ conns[s][i].open
      <4> DEFINE c == [conns[s][i] EXCEPT !.unread = @ + 1]
      <4>1. i \in DOMAIN conns[s] BY <1>5, <3>1 DEF Reply, Does, Hands
      <4>2. conns' = [conns EXCEPT ![s][i].unread = @ + 1] BY <1>5, <3>1 DEF Reply
      <4> HIDE DEF i
      <4>3. conns[s][i] \in Connections /\ conns[s][i].unread + 1 \in Nat BY <4>1, ConnOf
      <4>4. c \in Connections BY <4>3 DEF Connections
      <4>5. c.from = conns[s][i].from /\ c.heard = conns[s][i].heard /\ c.stream = conns[s][i].stream
        BY <4>3 DEF Connections
      <4>6. Puts(s, i, c) BY <4>2 DEF Puts
      <4> HIDE DEF c
      <4>7. ConnsType' /\ Changes(s, i) /\ conns'[s][i] = c BY <4>1, <4>4, <4>5, <4>6, Replaced
      <4> QED BY <4>5, <4>7 DEF Changes, Quiet, Kept, Alike
    <3>2. CASE ~(i # Client /\ conns[s][i].open) BY <1>5, <3>2, SameConns DEF Reply
    <3> QED BY <3>1, <3>2
  <2>2. NoRequest \in [write : Writes \cup {0}, from : Nat] BY DEF NoRequest, Client
  <2>3. main' \in [Servers -> {"idle", "receive", "aux", "length", "message", "enqueue", "reply"}]
    BY <1>5, DoesTypes DEF Reply
  <2>4. given[s] \in Seq(Nat) /\ Number(s) \in Nat BY DEF TypeOK, Number
  <2>5. Append(given[s], Number(s)) \in Seq(Nat) BY <2>4, AppendProperties
  <2>6. given' \in [Servers -> Seq(Nat)] BY <1>5, <2>5 DEF Reply, TypeOK
  <2>7. request' \in [Servers -> [write : Writes \cup {0}, from : Nat]] BY <1>5, <2>2 DEF Reply, TypeOK
  <2>8. TypeOK' BY <1>5, <2>1, <2>3, <2>6, <2>7 DEF Reply, Stays, TypeOK, ConnsType, names, clients
  <2>9. Replied(s) BY <1>5, <2>1 DEF Reply, Replied
  <2> QED BY <2>8, <2>9 DEF Acts
<1> QED BY <1>1, <1>2, <1>3, <1>4, <1>5

LEMMA StepActs ==
  ASSUME TypeOK, Links, Hands, Framed, NEW s \in Servers,
         Start(s) \/ Expire(s) \/ Crash(s) \/ Issue(s) \/ Main(s) \/ Watcher(s)
  PROVE  TypeOK' /\ Acts(s)
<1>1. CASE Start(s) \/ Expire(s) \/ TakePrimary(s) \/ DeleteBackup(s) BY <1>1, NamedTypes DEF Acts
<1>2. CASE Crash(s) BY <1>2, ExitsTypes DEF Crash, Acts
<1>3. CASE Issue(s)
  <2>1. ConnsType' /\ Quiet BY <1>3, ConnsTypes, SameConns DEF Issue
  <2>2. issued + 1 \in 0..MaxWrites /\ issued + 1 \in Writes
    <3>1. issued \in 0..MaxWrites /\ issued < MaxWrites /\ MaxWrites \in Nat
      BY <1>3, ReplicationAssumption DEF Issue, TypeOK
    <3>2. issued + 1 \in 1..MaxWrites BY <3>1
    <3> QED BY <3>1, <3>2 DEF Writes
  <2>3. coming' \in [Servers -> SUBSET Writes] BY <1>3, <2>2 DEF Issue, TypeOK
  <2>4. issued' \in 0..MaxWrites BY <1>3, <2>2 DEF Issue
  <2>5. TypeOK' BY <1>3, <2>1, <2>3, <2>4 DEF Issue, TypeOK, ConnsType, names, logs
  <2> QED BY <1>3, <2>1, <2>5 DEF Acts
<1>4. CASE Main(s) BY <1>4, ReceivesTypes, MainTypes DEF Main
<1>5. CASE ChildEvent(s) \/ WatchAgain(s) \/ FindBackup(s) \/ Connect(s) \/ ResetCounters(s)
  BY <1>5, WatcherTypes
<1> QED BY <1>1, <1>2, <1>3, <1>4, <1>5 DEF Watcher

-----------------------------------------------------------------------------
(* Who holds the names, and who is linked to whom. *)

LEMMA NamesStep ==
  ASSUME TypeOK, Names, AtRest, NEW s \in Servers, Acts(s)
  PROVE  Names'
<1> USE ReplicationAssumption
<1>t. /\ up \in [Servers -> {"new", "up", "down"}]
      /\ primary \in Servers \cup {Nobody} /\ backup \in Servers \cup {Nobody}
      /\ watcher \in [Servers -> {"idle", "take primary", "delete backup", "watch again",
                                  "find backup", "connect", "reset"}]
  BY DEF TypeOK
<1>1. CASE Ends(s) BY <1>1, <1>t DEF Ends, Exits, Names
<1>2. CASE Start(s)
  <2>1. /\ up' = [up EXCEPT ![s] = "up"] /\ watcher' = watcher /\ watcher[s] = "idle"
        /\ up[s] = "new"
    BY <1>2 DEF Start, AtRest, Rested
  <2>2. s # primary /\ s # backup BY <2>1 DEF Names
  <2>3. CASE primary = Nobody /\ primary' = s /\ UNCHANGED backup
    BY <2>1, <2>2, <2>3, <1>t DEF Names
  <2>4. CASE primary # Nobody /\ backup = Nobody /\ backup' = s /\ UNCHANGED primary
    BY <2>1, <2>2, <2>4, <1>t DEF Names
  <2> QED BY <1>2, <2>3, <2>4 DEF Start
<1>3. CASE Expire(s) BY <1>3, <1>t DEF Expire, Names, AtRest, Rested
<1>4. CASE DeleteBackup(s) BY <1>4, <1>t DEF DeleteBackup, Calls, Rests, Names
<1>5. CASE /\ Calls(s, "take primary", "delete backup") /\ primary = Nobody /\ primary' = s
           /\ Rests /\ UNCHANGED <<backup, sock_primary>>
  BY <1>5, <1>t DEF Calls, Rests, Names
<1>6. CASE Watched(s) BY <1>6, <1>t DEF Watched, Calls, Names
<1>7. CASE Found(s) BY <1>7, <1>t DEF Found, Calls, Rests, names, Names
<1>8. CASE HangsUp(s) BY <1>8, <1>t DEF HangsUp, Calls, Rests, Names
<1>9. CASE Connects(s) BY <1>9, <1>t DEF Connects, Calls, Rests, names, Names
<1>10. CASE UNCHANGED <<up, names, watcher>> BY <1>10 DEF names, Names
<1> QED
  BY <1>1, <1>2, <1>3, <1>4, <1>5, <1>6, <1>7, <1>8, <1>9, <1>10
  DEF Acts, Named, Issue, ReceiveFromClient, Measured, Dropped, Received, Invoked,
      Forwarded, Enqueue, Replied, Stays

\* Connections go only with the process they were made to.
Stand(u) == /\ DOMAIN conns[u] \subseteq DOMAIN conns'[u]
            /\ \A j \in DOMAIN conns[u] : conns'[u][j].from = conns[u][j].from

LEMMA QuietStands == ASSUME Quiet, NEW u \in Servers PROVE Stand(u) /\ DOMAIN conns'[u] = DOMAIN conns[u]
BY DEF Quiet, Kept, Alike, Stand

LEMMA ChangesStand ==
  ASSUME NEW t, NEW i, Changes(t, i), NEW u \in Servers
  PROVE  Stand(u) /\ DOMAIN conns'[u] = DOMAIN conns[u]
BY DEF Changes, Alike, Stand

LEMMA MostStand ==
  ASSUME NEW s \in Servers, Acts(s), ~Ends(s), ~Connects(s), NEW u \in Servers
  PROVE  Stand(u) /\ DOMAIN conns'[u] = DOMAIN conns[u]
<1>1. CASE Quiet BY <1>1, QuietStands
<1>2. CASE \E t \in Servers : \E i : Changes(t, i) BY <1>2, ChangesStand
<1>3. Quiet \/ \E t \in Servers : \E i : Changes(t, i)
  BY DEF Acts, Named, Watched, Found, HangsUp, Measured, Dropped, Received, Invoked,
         Forwarded, Replied, Hung, Taken, Shut, Sends, Changes
<1> QED BY <1>1, <1>2, <1>3

LEMMA GrownStands ==
  ASSUME NEW s, NEW t, Grown(s, t), NEW u \in Servers
  PROVE  Stand(u) /\ (u # t => DOMAIN conns'[u] = DOMAIN conns[u])
<1>1. CASE u # t BY <1>1 DEF Grown, Kept, Alike, Stand
<1>2. CASE u = t
  <2>1. DOMAIN conns'[t] = 1..Len(conns[t]) + 1 /\ DOMAIN conns[t] = 1..(Len(conns[t]) + 1) - 1
    BY DEF Grown
  <2>2. \A j \in DOMAIN conns[t] : j \in 1..(Len(conns[t]) + 1) - 1 BY <2>1
  <2>3. DOMAIN conns[t] \subseteq DOMAIN conns'[t] BY <2>1
  <2> QED BY <1>2, <2>3 DEF Grown, Alike, Stand
<1> QED BY <1>1, <1>2

LEMMA EndedStands ==
  ASSUME NEW s, Ended(s), NEW u \in Servers, u # s
  PROVE  Stand(u) /\ DOMAIN conns'[u] = DOMAIN conns[u]
BY DEF Ended, Stand

LEMMA Stands ==
  ASSUME NEW s \in Servers, Acts(s), NEW u \in Servers, u # s \/ ~Ends(s)
  PROVE  Stand(u)
<1>1. CASE Ends(s) BY <1>1, EndedStands DEF Ends
<1>2. CASE Connects(s) BY <1>2, GrownStands DEF Connects
<1> QED BY <1>1, <1>2, MostStand

LEMMA EmptyConns ==
  ASSUME NEW q \in Seq(Connections)
  PROVE  q = << >> <=> DOMAIN q = {}
<1>1. DOMAIN q = 1..Len(q) /\ Len(q) \in Nat BY LenProperties
<1>2. q # << >> => 1 \in DOMAIN q BY <1>1, EmptySeq
<1> QED BY <1>2

LEMMA AtRestStep ==
  ASSUME TypeOK, TypeOK', AtRest, Names, NEW s \in Servers, Acts(s)
  PROVE  AtRest'
<1> USE ReplicationAssumption
<1>t. /\ up \in [Servers -> {"new", "up", "down"}]
      /\ watcher \in [Servers -> {"idle", "take primary", "delete backup", "watch again",
                                  "find backup", "connect", "reset"}]
      /\ main \in [Servers -> {"idle", "receive", "aux", "length", "message", "enqueue", "reply"}]
      /\ sock_primary \in [Servers -> Sockets] /\ coming \in [Servers -> SUBSET Writes]
      /\ accepted \in [Servers -> Seq(Writes)]
  BY DEF TypeOK
<1>c. \A u \in Servers : conns[u] \in Seq(Connections) /\ conns'[u] \in Seq(Connections)
  BY DEF TypeOK
\* Whoever is not up had no connections, and gets none.
<1>1. ASSUME NEW u \in Servers, up[u] # "up", u # s \/ up'[u] # "up" PROVE conns'[u] = << >>
  <2>1. conns[u] = << >> BY <1>1 DEF AtRest, Rested
  <2>2. DOMAIN conns[u] = {} BY <2>1, <1>c, EmptyConns
  <2>3. ~Ends(s) \/ u # s BY <1>1 DEF Ends
  <2>4. DOMAIN conns'[u] = DOMAIN conns[u]
    <3>1. CASE Ends(s) BY <2>3, <3>1, EndedStands DEF Ends
    <3>2. CASE Connects(s) BY <1>1, <3>2, GrownStands DEF Connects
    <3> QED BY <3>1, <3>2, MostStand
  <2> QED BY <2>2, <2>4, <1>c, EmptyConns
<1>2. ASSUME NEW u \in Servers, up'[u] # "up", u # s
      PROVE  Rested(u)' /\ (up'[u] = "new" => accepted'[u] = << >>)
  <2>1. up'[u] = up[u]
    BY <1>2, <1>t DEF Acts, Ends, Exits, Named, Start, Expire, DeleteBackup, Rests, Watched, Found,
       HangsUp, Connects, Issue, ReceiveFromClient, Measured, Dropped, Received, Invoked,
       Forwarded, Enqueue, Replied, Stays
  <2>2. Rested(u) /\ (up[u] = "new" => accepted[u] = << >>) BY <1>2, <2>1 DEF AtRest
  <2>3. conns'[u] = << >> BY <1>1, <1>2, <2>1
  <2>4. watcher'[u] = watcher[u] /\ sock_primary'[u] = sock_primary[u]
    BY <1>2, <1>t DEF Acts, Ends, Exits, Named, Start, Expire, DeleteBackup, Rests, Calls, Watched,
       Found, HangsUp, Connects, Issue, ReceiveFromClient, Measured, Dropped, Received, Invoked,
       Forwarded, Enqueue, Replied, Stays
  <2>5. main'[u] = main[u] /\ coming'[u] = coming[u] /\ accepted'[u] = accepted[u]
    BY <1>2, <1>t DEF Acts, Ends, Exits, Named, Start, Expire, DeleteBackup, Rests, Calls, Watched,
       KeepsWork, Found, HangsUp, Connects, Issue, ReceiveFromClient, Measured, Dropped, Received,
       Invoked, Forwarded, Enqueue, Replied, Does, logs, clients
  <2> QED BY <2>1, <2>2, <2>3, <2>4, <2>5 DEF Rested, Unset
<1>3. ASSUME up'[s] # "up" PROVE Rested(s)' /\ (up'[s] = "new" => accepted'[s] = << >>)
  <2>1. CASE Ends(s)
    <3>1. conns'[s] = << >> BY <2>1 DEF Ends, Ended
    <3> QED BY <2>1, <3>1, <1>t DEF Ends, Exits, Rested, Unset
  <2>2. CASE Expire(s)
    <3>1. up'[s] # "up" /\ up[s] # "up" /\ up'[s] # "new" BY <2>2 DEF Expire
    <3>2. conns'[s] = << >> BY <1>1, <3>1
    <3> QED BY <2>2, <3>1, <3>2 DEF Expire, AtRest, Rested, Unset, logs, clients
  <2>3. ~(Start(s) \/ DeleteBackup(s)) BY <1>3, <1>t DEF Start, DeleteBackup, Calls, Rests
  <2>4. ~Watched(s) /\ ~Found(s) /\ ~HangsUp(s) /\ ~Connects(s)
    BY <1>3 DEF Calls, Rests, Watched, Found, HangsUp, Connects
  <2>5. ~(Calls(s, "take primary", "delete backup") /\ Rests) BY <1>3 DEF Calls, Rests
  <2>6. ~(Issue(s) \/ ReceiveFromClient(s) \/ Enqueue(s) \/ Received(s) \/ Invoked(s) \/ Replied(s))
    BY <1>3 DEF Issue, ReceiveFromClient, Enqueue, Received, Invoked, Replied, Does, Stays
  <2>7. ~(\E i \in DOMAIN conns[s] : Measured(s, i) \/ Dropped(s, i))
    BY <1>3 DEF Measured, Dropped, Does, Stays
  <2>8. \A from, item, to : ~Forwarded(s, from, item, to) BY <1>3 DEF Forwarded, Does, Stays
  <2> QED BY <2>1, <2>2, <2>3, <2>4, <2>5, <2>6, <2>7, <2>8 DEF Acts, Named
<1> QED BY <1>2, <1>3 DEF AtRest

LEMMA LinksStep ==
  ASSUME TypeOK, Names, AtRest, Links, NEW s \in Servers, Acts(s)
  PROVE  Links'
<1> USE ReplicationAssumption
<1>t. /\ up \in [Servers -> {"new", "up", "down"}]
      /\ primary \in Servers \cup {Nobody} /\ backup \in Servers \cup {Nobody}
      /\ watcher \in [Servers -> {"idle", "take primary", "delete backup", "watch again",
                                  "find backup", "connect", "reset"}]
      /\ sock_primary \in [Servers -> Sockets]
  BY DEF TypeOK
<1> DEFINE
      Mine(u) == /\ sock_primary[u].to \in Servers /\ sock_primary[u].to # u => primary = u
                 /\ watcher[u] = "connect" => sock_primary[u].to \in Servers
      Led(u) == sock_primary[u].to \in Servers /\ sock_primary[u].at > 0 =>
                   \/ up[sock_primary[u].to] = "down"
                   \/ /\ sock_primary[u].at \in DOMAIN conns[sock_primary[u].to]
                      /\ conns[sock_primary[u].to][sock_primary[u].at].from = u
<1>a. \A u \in Servers : Mine(u) /\ Led(u) BY DEF Links
<1>b. \A u \in Servers : up[u] # "up" => watcher[u] = "idle" /\ sock_primary[u] = Unset
  BY DEF AtRest, Rested
<1>u. Unset.to = Nobody /\ Unset.at = 0 /\ Closed.to = Nobody /\ Closed.at = 1 BY DEF Unset, Closed
\* A descriptor that is not replaced leads where it led.
<1>c. ASSUME NEW u \in Servers, sock_primary'[u] = sock_primary[u] PROVE Led(u)'
  <2> DEFINE t == sock_primary[u].to  i == sock_primary[u].at
  <2>1. SUFFICES ASSUME t \in Servers, i > 0
                 PROVE  up'[t] = "down" \/ (i \in DOMAIN conns'[t] /\ conns'[t][i].from = u)
    BY <1>c
  <2>2. CASE Ends(s) /\ t = s
    <3>1. up' = [up EXCEPT ![s] = "down"] BY <2>2 DEF Ends, Exits
    <3> QED BY <2>2, <3>1, <1>t
  <2>3. CASE ~(Ends(s) /\ t = s)
    <3>1. CASE up[t] = "down"
      <4>1. up'[t] = "down"
        BY <3>1, <1>t, <2>1 DEF Acts, Ends, Exits, Named, Start, Expire, DeleteBackup, Rests, Calls,
           Watched, KeepsWork, Found, HangsUp, Connects, Issue, ReceiveFromClient, Measured,
           Dropped, Received, Invoked, Forwarded, Enqueue, Replied, Does, Stays
      <4> QED BY <4>1
    <3>2. CASE i \in DOMAIN conns[t] /\ conns[t][i].from = u
      <4>1. Stand(t) BY <2>1, <2>3, Stands
      <4> QED BY <3>2, <4>1 DEF Stand
    <3> QED BY <3>1, <3>2, <1>a, <2>1
  <2> QED BY <2>2, <2>3
<1> SUFFICES \A u \in Servers : Mine(u)' /\ Led(u)' BY DEF Links
<1>1. CASE Ends(s)
  <2>1. /\ sock_primary' = [sock_primary EXCEPT ![s] = Unset]
        /\ watcher' = [watcher EXCEPT ![s] = "idle"] /\ primary' = primary
    BY <1>1 DEF Ends, Exits
  <2>2. \A u \in Servers : Mine(u)' BY <2>1, <1>a, <1>u, <1>t
  <2>3. Led(s)' BY <2>1, <1>u, <1>t
  <2>4. \A u \in Servers \ {s} : sock_primary'[u] = sock_primary[u] BY <2>1, <1>t
  <2> QED BY <2>2, <2>3, <2>4, <1>c
<1>2. CASE Start(s) \/ Expire(s) \/ DeleteBackup(s)
  <2>1. sock_primary' = sock_primary BY <1>2 DEF Start, Expire, DeleteBackup
  <2>2. \A u \in Servers : watcher'[u] = "connect" => watcher[u] = "connect"
    BY <1>2, <1>t DEF Start, Expire, DeleteBackup, Calls
  <2>3. \A u \in Servers : primary = u /\ up[u] = "up" => primary' = u
    BY <1>2, <1>t DEF Start, Expire, DeleteBackup
  <2>4. \A u \in Servers : Mine(u)' BY <2>1, <2>2, <2>3, <1>a, <1>b, <1>u
  <2> QED BY <2>1, <2>4, <1>c
<1>3. CASE /\ Calls(s, "take primary", "delete backup") /\ primary = Nobody /\ primary' = s
           /\ Rests /\ UNCHANGED <<backup, sock_primary>>
  <2>1. sock_primary' = sock_primary BY <1>3
  <2>2. watcher' = [watcher EXCEPT ![s] = "delete backup"] BY <1>3 DEF Calls
  <2>3. \A u \in Servers : Mine(u)' BY <2>1, <2>2, <1>3, <1>a, <1>t
  <2> QED BY <2>1, <2>3, <1>c
<1>4. CASE Watched(s)
  <2>1. sock_primary' = sock_primary /\ primary' = primary BY <1>4 DEF Watched
  <2>2. \A u \in Servers : watcher'[u] = "connect" => watcher[u] = "connect"
    BY <1>4, <1>t DEF Watched, Calls
  <2> QED BY <2>1, <2>2, <1>a, <1>c
<1>5. CASE Found(s)
  <2>1. /\ sock_primary' = [sock_primary EXCEPT ![s] = [to |-> backup, at |-> 0]]
        /\ watcher' = [watcher EXCEPT ![s] = "connect"] /\ primary' = primary
        /\ backup \in Servers /\ up[s] = "up"
    BY <1>5, <1>t DEF Found, names, Calls
  <2>2. backup # s => primary = s
    <3>1. up[s] = "up" BY <2>1
    <3>2. \A u \in Servers : up[u] = "up" => u \in {primary, backup} BY DEF Names
    <3> QED BY <3>1, <3>2
  <2>x. sock_primary'[s].to = backup /\ sock_primary'[s].at = 0 /\ primary' = primary
    BY <2>1, <1>t
  <2>3. Mine(s)' /\ Led(s)' BY <2>x, <2>1, <2>2
  <2>4. \A u \in Servers \ {s} : sock_primary'[u] = sock_primary[u] /\ watcher'[u] = watcher[u]
    BY <2>1, <1>t
  <2> QED BY <2>1, <2>3, <2>4, <1>a, <1>c
<1>6. CASE HangsUp(s)
  <2>1. /\ sock_primary' = [sock_primary EXCEPT ![s] = Closed] /\ primary' = primary
        /\ watcher'[s] # "connect" /\ \A u \in Servers \ {s} : watcher'[u] = watcher[u]
    BY <1>6, <1>t DEF HangsUp, Calls
  <2>2. Mine(s)' /\ Led(s)' BY <2>1, <1>u, <1>t
  <2>3. \A u \in Servers \ {s} : sock_primary'[u] = sock_primary[u] BY <2>1, <1>t
  <2> QED BY <2>1, <2>2, <2>3, <1>a, <1>c
<1>7. CASE Connects(s)
  <2> DEFINE t == sock_primary[s].to  n == Len(conns[t]) + 1
  <2>1. /\ sock_primary' = [sock_primary EXCEPT ![s].at = n] /\ primary' = primary
        /\ watcher' = [watcher EXCEPT ![s] = "reset"] /\ watcher[s] = "connect" /\ Grown(s, t)
    BY <1>7 DEF Connects, names, Calls
  <2>2. t \in Servers BY <2>1, <1>a
  <2>3. Len(conns[t]) \in Nat BY <2>2, LenProperties DEF TypeOK
  <2>4. DOMAIN conns'[t] = 1..n /\ conns'[t][n].from = s BY <2>1 DEF Grown
  <2>5. sock_primary'[s].to = t /\ sock_primary'[s].at = n BY <2>1, <1>t DEF Sockets
  <2>6. n \in DOMAIN conns'[t] BY <2>3, <2>4
  <2> HIDE DEF t, n
  <2>7. Mine(s)' BY <2>1, <2>5, <1>a, <1>t DEF t
  <2>8. Led(s)' BY <2>4, <2>5, <2>6
  <2>9. \A u \in Servers \ {s} : sock_primary'[u] = sock_primary[u] /\ watcher'[u] = watcher[u]
    BY <2>1, <1>t
  <2> QED BY <2>1, <2>7, <2>8, <2>9, <1>a, <1>c
<1>8. CASE UNCHANGED <<up, names, watcher, sock_primary>> BY <1>8, <1>a, <1>c DEF names
<1> QED
  BY <1>1, <1>2, <1>3, <1>4, <1>5, <1>6, <1>7, <1>8
  DEF Acts, Named, Issue, ReceiveFromClient, Measured, Dropped, Received, Invoked,
      Forwarded, Enqueue, Replied, Stays

\* From here on, one lemma for the steps that leave what the main threads work on alone.
LEMMA WorkKept ==
  ASSUME NEW s \in Servers, Named(s) \/ Watched(s) \/ Found(s) \/ HangsUp(s) \/ Connects(s)
  PROVE  KeepsWork
BY DEF Named, Start, Expire, DeleteBackup, Rests, Watched, Found, HangsUp, Connects, KeepsWork,
       logs, clients

\* A live server keeps the names it has, except that a promoted one gives the backup's up.
LEMMA NamesKept ==
  ASSUME Names, NEW s \in Servers, Acts(s), NEW u \in Servers, up[u] = "up"
  PROVE  /\ primary = u => primary' = u
         /\ primary' = u /\ primary # u => primary = Nobody /\ backup = u
<1> USE ReplicationAssumption
<1>1. CASE Named(s)
  BY <1>1 DEF Named, Start, Expire, DeleteBackup, Calls, Names
<1>2. CASE ~Named(s)
  BY <1>2 DEF Acts, Ends, Exits, Watched, Found, HangsUp, Connects, names, Issue,
     ReceiveFromClient, Measured, Dropped, Received, Invoked, Forwarded, Enqueue, Replied, Stays
<1> QED BY <1>1, <1>2

LEMMA HandsStep ==
  ASSUME TypeOK, Names, AtRest, Links, Hands, Framed, NEW s \in Servers, Acts(s)
  PROVE  Hands'
<1> USE ReplicationAssumption
<1>t. /\ up \in [Servers -> {"new", "up", "down"}]
      /\ main \in [Servers -> {"idle", "receive", "aux", "length", "message", "enqueue", "reply"}]
      /\ coming \in [Servers -> SUBSET Writes]
      /\ request \in [Servers -> [write : Writes \cup {0}, from : Nat]]
      /\ \A u \in Servers : request[u].from \in Nat
  BY DEF TypeOK
<1> DEFINE
      Wanted(u) == coming[u] # {} => primary = u
      Working(u) ==
        /\ main[u] # "idle" => \/ request[u].from \in DOMAIN conns[u]
                               \/ request[u].from = Client /\ primary = u /\ main[u] # "receive"
        /\ main[u] \in {"aux", "length", "message", "enqueue"} => request[u].write \in Writes
<1>a. \A u \in Servers : Wanted(u) /\ Working(u) BY DEF Hands
<1>b. \A u \in Servers : up[u] # "up" => coming[u] = {} /\ main[u] = "idle" BY DEF AtRest, Rested
<1>k. \A u \in Servers : up[u] = "up" /\ primary = u => primary' = u BY NamesKept
<1>d. \A u \in Servers : u # s \/ ~Ends(s) => DOMAIN conns[u] \subseteq DOMAIN conns'[u]
  BY Stands DEF Stand
<1> SUFFICES \A u \in Servers : Wanted(u)' /\ Working(u)' BY DEF Hands
<1>1. CASE Ends(s)
  <2>1. /\ main' = [main EXCEPT ![s] = "idle"] /\ request' = [request EXCEPT ![s] = NoRequest]
        /\ coming' = [coming EXCEPT ![s] = {}] /\ primary' = primary
    BY <1>1 DEF Ends, Exits
  <2>2. Wanted(s)' /\ Working(s)' BY <2>1, <1>t
  <2>3. ASSUME NEW u \in Servers, u # s PROVE Wanted(u)' /\ Working(u)'
    <3>1. main'[u] = main[u] /\ request'[u] = request[u] /\ coming'[u] = coming[u]
      BY <2>1, <2>3, <1>t
    <3> QED BY <3>1, <2>1, <2>3, <1>a, <1>d
  <2> QED BY <2>2, <2>3
\* The others keep what they work on.
<1>2. ASSUME NEW u \in Servers, ~Ends(s), main'[u] = main[u], request'[u] = request[u],
             coming'[u] = coming[u]
      PROVE  Wanted(u)' /\ Working(u)'
  <2>1. CASE up[u] = "up" BY <2>1, <1>2, <1>a, <1>k, <1>d
  <2>2. CASE up[u] # "up" BY <2>2, <1>2, <1>b
  <2> QED BY <2>1, <2>2
<1>3. CASE KeepsWork /\ ~Ends(s) BY <1>2, <1>3 DEF KeepsWork
<1>4. ASSUME ~Ends(s), NEW place, Does(s, main[s], place),
             \A u \in Servers \ {s} : request'[u] = request[u] /\ coming'[u] = coming[u],
             Wanted(s)' /\ Working(s)'
      PROVE  \A u \in Servers : Wanted(u)' /\ Working(u)'
  <2>1. \A u \in Servers \ {s} : main'[u] = main[u] BY <1>4, <1>t DEF Does
  <2> QED BY <2>1, <1>2, <1>4
<1>5. CASE ~Ends(s) /\ Issue(s)
  <2>1. /\ UNCHANGED <<main, request>> /\ primary = s /\ primary' = s
        /\ \A u \in Servers \ {s} : coming'[u] = coming[u]
    BY <1>5, <1>t DEF Issue, names
  <2>2. Wanted(s)' /\ Working(s)' BY <2>1, <1>a, <1>5, <1>d
  <2> QED BY <2>1, <2>2, <1>2, <1>5
<1>6. CASE ~Ends(s) /\ ReceiveFromClient(s)
  <2>1. PICK w \in coming[s] : /\ request' = [request EXCEPT ![s] = [write |-> w, from |-> Client]]
                               /\ coming' = [coming EXCEPT ![s] = @ \ {w}]
    BY <1>6 DEF ReceiveFromClient
  <2>2. w \in Writes /\ primary = s BY <1>a, <1>t
  <2>3. main' = [main EXCEPT ![s] = "aux"] /\ primary' = primary /\ Does(s, main[s], "aux")
    BY <1>6 DEF ReceiveFromClient, Does, Stays, names
  <2>4. Wanted(s)' /\ Working(s)' BY <2>1, <2>2, <2>3, <1>t
  <2>5. \A u \in Servers \ {s} : request'[u] = request[u] /\ coming'[u] = coming[u] BY <2>1, <1>t
  <2> QED BY <1>4, <1>6, <2>3, <2>4, <2>5
<1>7. ASSUME ~Ends(s), NEW i \in DOMAIN conns[s], Measured(s, i)
      PROVE  \A u \in Servers : Wanted(u)' /\ Working(u)'
  <2>1. /\ request' = [request EXCEPT ![s] = [write |-> 0, from |-> i]] /\ coming' = coming
        /\ main' = [main EXCEPT ![s] = "receive"] /\ primary' = primary /\ Does(s, main[s], "receive")
    BY <1>7 DEF Measured, Does, Stays, names, clients
  <2>2. Wanted(s)' /\ Working(s)' BY <2>1, <1>7, <1>a, <1>d, <1>t
  <2>3. \A u \in Servers \ {s} : request'[u] = request[u] /\ coming'[u] = coming[u] BY <2>1, <1>t
  <2> QED BY <1>4, <1>7, <2>1, <2>2, <2>3
<1>8. ASSUME ~Ends(s), NEW i \in DOMAIN conns[s], Dropped(s, i)
      PROVE  \A u \in Servers : Wanted(u)' /\ Working(u)'
  <2>1. /\ coming' = coming /\ \A u \in Servers \ {s} : request'[u] = request[u]
        /\ main'[s] = "idle" /\ primary' = primary /\ Does(s, main[s], "idle")
    BY <1>8, <1>t DEF Dropped, Does, Stays, names, clients
  <2>2. Wanted(s)' /\ Working(s)' BY <2>1, <1>a
  <2> QED BY <1>4, <1>8, <2>1, <2>2
<1>9. CASE ~Ends(s) /\ Received(s)
  <2> DEFINE i == request[s].from  w == conns[s][i].stream[1]
  <2>1. /\ request' = [request EXCEPT ![s].write = w] /\ coming' = coming
        /\ main' = [main EXCEPT ![s] = "aux"] /\ main[s] = "receive" /\ primary' = primary
        /\ Does(s, main[s], "aux") /\ Taken(s, i)
    BY <1>9 DEF Received, Does, Stays, names, clients
  <2>2. i \in DOMAIN conns[s] BY <2>1, <1>a
  <2>3. w \in Writes BY <2>1, <2>2, HeadOf DEF Expects, Taken, HasInput
  <2> HIDE DEF w
  <2>4. request'[s].write = w /\ request'[s].from = i BY <2>1, <1>t
  <2>5. Wanted(s)' /\ Working(s)' BY <2>1, <2>2, <2>3, <2>4, <1>9, <1>a, <1>d, <1>t
  <2>6. \A u \in Servers \ {s} : request'[u] = request[u] /\ coming'[u] = coming[u] BY <2>1, <1>t
  <2> QED BY <1>4, <1>9, <2>1, <2>5, <2>6
\* The next call is for the same request.
<1>10. ASSUME ~Ends(s), NEW place \in {"length", "message", "enqueue", "reply"},
              Does(s, main[s], place), main[s] \in {"aux", "length", "message", "enqueue"},
              UNCHANGED <<request, coming>>, primary' = primary
       PROVE  \A u \in Servers : Wanted(u)' /\ Working(u)'
  <2>1. Wanted(s)' /\ Working(s)' BY <1>10, <1>a, <1>d, <1>t DEF Does
  <2> QED BY <1>4, <1>10, <2>1
<1>11. CASE ~Ends(s) /\ Invoked(s)
  BY <1>10, <1>11 DEF Invoked, Does, Stays, names, clients
<1>12. CASE ~Ends(s) /\ Forwarded(s, "length", Length, "message")
  BY <1>10, <1>12 DEF Forwarded, Does, Stays, names, clients
<1>13. CASE ~Ends(s) /\ Forwarded(s, "message", request[s].write, "enqueue")
  BY <1>10, <1>13 DEF Forwarded, Does, Stays, names, clients
<1>14. CASE ~Ends(s) /\ Enqueue(s)
  BY <1>10, <1>14 DEF Enqueue, Does, Stays, names, clients
<1>15. CASE ~Ends(s) /\ Replied(s)
  <2>1. /\ coming' = coming /\ \A u \in Servers \ {s} : request'[u] = request[u]
        /\ main'[s] = "idle" /\ primary' = primary /\ Does(s, main[s], "idle")
    BY <1>15, <1>t DEF Replied, Does, Stays, names, clients
  <2>2. Wanted(s)' /\ Working(s)' BY <2>1, <1>a
  <2> QED BY <1>4, <1>15, <2>1, <2>2
<1> QED
  BY <1>1, <1>3, <1>5, <1>6, <1>7, <1>8, <1>9, <1>11, <1>12, <1>13, <1>14, <1>15, WorkKept DEF Acts

LEMMA UntouchedStep ==
  ASSUME TypeOK, TypeOK', Names, AtRest, Hands, Untouched, NEW s \in Servers, Acts(s)
  PROVE  Untouched'
<1> USE ReplicationAssumption
<1>t. /\ up \in [Servers -> {"new", "up", "down"}]
      /\ main \in [Servers -> {"idle", "receive", "aux", "length", "message", "enqueue", "reply"}]
      /\ accepted \in [Servers -> Seq(Writes)]
      /\ \A u \in Servers : conns[u] \in Seq(Connections) /\ conns'[u] \in Seq(Connections)
  BY DEF TypeOK
<1> SUFFICES ASSUME NEW u \in Servers, up'[u] = "up", primary' # u, conns'[u] = << >>
             PROVE  main'[u] = "idle" /\ accepted'[u] = << >>
  BY DEF Untouched
<1>e. u # s \/ ~Ends(s) BY <1>t DEF Ends, Exits
<1>1. CASE Start(s) /\ u = s
  <2>1. up[u] = "new" /\ UNCHANGED <<main, accepted>> BY <1>1 DEF Start, logs
  <2> QED BY <2>1 DEF AtRest, Rested
<1>2. CASE ~(Start(s) /\ u = s)
  <2>1. up[u] = "up"
    BY <1>2, <1>t DEF Acts, Ends, Exits, Named, Start, Expire, DeleteBackup, Rests, Calls,
       Watched, KeepsWork, Found, HangsUp, Connects, Issue, ReceiveFromClient, Measured,
       Dropped, Received, Invoked, Forwarded, Enqueue, Replied, Does, Stays
  <2>2. primary # u BY <2>1, NamesKept
  <2>3. conns[u] = << >>
    <3>1. DOMAIN conns[u] \subseteq DOMAIN conns'[u] BY <1>e, Stands DEF Stand
    <3> QED BY <3>1, <1>t, EmptyConns
  <2>4. main[u] = "idle" /\ accepted[u] = << >> BY <2>1, <2>2, <2>3 DEF Untouched
  <2>5. coming[u] = {} BY <2>2 DEF Hands
  <2>6. DOMAIN conns[u] = {} BY <2>3, <1>t, EmptyConns
  <2>7. CASE KeepsWork BY <2>4, <2>7 DEF KeepsWork
  <2>8. CASE Ends(s) BY <1>e, <2>4, <2>8, <1>t DEF Ends, Exits, logs
  <2>9. CASE Issue(s) BY <2>4, <2>9 DEF Issue, logs
  <2>10. CASE /\ u # s /\ accepted'[u] = accepted[u]
              /\ \E from, to : Does(s, from, to)
    BY <2>4, <2>10, <1>t DEF Does
  <2>11. u # s \/ ~ReceiveFromClient(s) BY <2>5 DEF ReceiveFromClient
  <2>12. u # s \/ ~\E i \in DOMAIN conns[s] : Measured(s, i) \/ Dropped(s, i) BY <2>6
  <2>13. u # s \/ ~(Received(s) \/ Invoked(s) \/ Forwarded(s, "length", Length, "message")
                    \/ Forwarded(s, "message", request[s].write, "enqueue")
                    \/ Enqueue(s) \/ Replied(s))
    BY <2>4 DEF Received, Invoked, Forwarded, Enqueue, Replied, Does
  <2>14. u = s \/ accepted'[u] = accepted[u] \/ ~Enqueue(s) BY <1>t DEF Enqueue
  <2> QED
    BY <2>7, <2>8, <2>9, <2>10, <2>11, <2>12, <2>13, <2>14, WorkKept
    DEF Acts, ReceiveFromClient, Measured, Dropped, Received, Invoked, Forwarded, Replied,
        Enqueue, logs
<1> QED BY <1>1, <1>2

-----------------------------------------------------------------------------
(* Lengths and messages. *)

LEMMA PrefixOf ==
  ASSUME NEW q \in Seq(Items), NEW n \in 0..Len(q)
  PROVE  LET r == SubSeq(q, 1, n) IN
         r \in Seq(Items) /\ Len(r) = n /\ \A p \in 1..n : r[p] = q[p]
<1>1. Len(q) \in Nat /\ n \in Nat /\ n <= Len(q) BY LenProperties
<1>2. \A p \in 1..n : q[p] \in Items BY <1>1, ElementOfSeq
<1>3. /\ SubSeq(q, 1, n) \in Seq(Items)
      /\ Len(SubSeq(q, 1, n)) = IF 1 <= n THEN n - 1 + 1 ELSE 0
      /\ \A p \in 1..n - 1 + 1 : SubSeq(q, 1, n)[p] = q[1 + p - 1]
  BY <1>1, <1>2, SubSeqProperties
<1>4. n - 1 + 1 = n BY <1>1
<1>5. \A p \in 1..n : SubSeq(q, 1, n)[p] = q[p]
  <2> TAKE p \in 1..n
  <2>1. 1 + p - 1 = p BY <1>1
  <2> QED BY <1>3, <1>4, <2>1
<1> QED BY <1>1, <1>3, <1>4, <1>5

LEMMA CutAlternates ==
  ASSUME NEW q \in Seq(Items), Alternate(q), NEW n \in 0..Len(q)
  PROVE  Alternate(SubSeq(q, 1, n))
<1>1. Len(SubSeq(q, 1, n)) = n /\ \A p \in 1..n : SubSeq(q, 1, n)[p] = q[p] BY PrefixOf
<1>2. Len(q) \in Nat /\ n \in Nat /\ n <= Len(q) BY LenProperties
<1>3. \A p \in 1..n - 1 : p \in 1..n /\ p + 1 \in 1..n /\ p \in 1..Len(q) - 1 BY <1>2
<1> QED BY <1>1, <1>3 DEF Alternate

LEMMA TailAlternates ==
  ASSUME NEW q \in Seq(Items), q # << >>, Alternate(q)
  PROVE  /\ Tail(q) \in Seq(Items) /\ Alternate(Tail(q))
         /\ Tail(q) # << >> => /\ Tail(q)[1] = q[2] /\ (q[1] = Length <=> q[2] # Length)
                               /\ Tail(q)[Len(Tail(q))] = q[Len(q)]
         /\ Tail(q) = << >> => Len(q) = 1
<1>1. /\ Tail(q) \in Seq(Items) /\ Len(Tail(q)) = Len(q) - 1
      /\ \A p \in 1..Len(Tail(q)) : Tail(q)[p] = q[p + 1]
  BY HeadTailProperties
<1>2. Len(q) \in Nat \ {0} BY EmptySeq
<1>3. Alternate(Tail(q))
  <2> SUFFICES ASSUME NEW p \in 1..Len(Tail(q)) - 1
               PROVE  Tail(q)[p] = Length <=> Tail(q)[p + 1] # Length
    BY DEF Alternate
  <2>1. p \in 1..Len(Tail(q)) /\ p + 1 \in 1..Len(Tail(q)) /\ p + 1 \in 1..Len(q) - 1
    BY <1>1, <1>2
  <2> QED BY <1>1, <2>1 DEF Alternate
<1>4. Tail(q) # << >> => Len(Tail(q)) \in Nat \ {0} BY <1>1, EmptySeq
<1>5. ASSUME Tail(q) # << >>
      PROVE  /\ Tail(q)[1] = q[2] /\ (q[1] = Length <=> q[2] # Length)
             /\ Tail(q)[Len(Tail(q))] = q[Len(q)]
  <2>1. 1 \in 1..Len(Tail(q)) /\ Len(Tail(q)) \in 1..Len(Tail(q)) /\ 1 \in 1..Len(q) - 1
        /\ Len(Tail(q)) + 1 = Len(q)
    BY <1>1, <1>2, <1>4, <1>5
  <2>2. Tail(q)[1] = q[1 + 1] /\ Tail(q)[Len(Tail(q))] = q[Len(Tail(q)) + 1] BY <1>1, <2>1
  <2>3. q[1] = Length <=> q[1 + 1] # Length BY <2>1 DEF Alternate
  <2> QED BY <2>1, <2>2, <2>3
<1>6. Tail(q) = << >> => Len(q) = 1 BY <1>1, <1>2, EmptySeq
<1> QED BY <1>1, <1>3, <1>5, <1>6

LEMMA AppendAlternates ==
  ASSUME NEW q \in Seq(Items), Alternate(q), NEW item \in Items,
         q # << >> => (q[Len(q)] = Length <=> item # Length)
  PROVE  /\ Append(q, item) \in Seq(Items) /\ Alternate(Append(q, item))
         /\ Append(q, item) # << >>
         /\ Append(q, item)[Len(Append(q, item))] = item
         /\ Append(q, item)[1] = IF q = << >> THEN item ELSE q[1]
<1> DEFINE r == Append(q, item)
<1>1. /\ r \in Seq(Items) /\ r # << >> /\ Len(r) = Len(q) + 1
      /\ \A p \in 1..Len(q) : r[p] = q[p]
      /\ r[Len(q) + 1] = item
  BY AppendProperties
<1>2. Len(q) \in Nat /\ (q # << >> => Len(q) # 0) BY EmptySeq, LenProperties
<1> HIDE DEF r
<1>3. Alternate(r)
  <2> SUFFICES ASSUME NEW p \in 1..Len(r) - 1 PROVE r[p] = Length <=> r[p + 1] # Length
    BY DEF Alternate
  <2>1. p \in 1..Len(q) /\ r[p] = q[p] BY <1>1, <1>2
  <2>2. CASE p = Len(q)
    <3>1. q # << >> BY <2>1, <1>2, EmptySeq
    <3> QED BY <1>1, <2>1, <2>2, <3>1
  <2>3. CASE p # Len(q)
    <3>1. p \in 1..Len(q) - 1 /\ p + 1 \in 1..Len(q) BY <2>1, <2>3, <1>2
    <3> QED BY <1>1, <2>1, <3>1 DEF Alternate
  <2> QED BY <2>2, <2>3
<1>4. q = << >> => r[1] = item BY <1>1, EmptySeq
<1>5. q # << >> => r[1] = q[1]
  <2>1. q # << >> => 1 \in 1..Len(q) BY <1>2
  <2> QED BY <1>1, <2>1
<1> QED BY <1>1, <1>3, <1>4, <1>5 DEF r

\* Whoever feeds a connection made it, and is up.
LEMMA FeederOf ==
  ASSUME TypeOK, AtRest, Links, NEW s \in Servers, NEW t \in Servers, NEW i, Feeds(s, t, i)
  PROVE  /\ conns[t][i].from = s /\ up[s] = "up" /\ up[t] = "up"
         /\ i \in DOMAIN conns[t] /\ i \in Nat \ {0} /\ conns[t][i].heard /\ Heard(s)
         /\ sock_primary[s].to = t /\ sock_primary[s].at = i
<1> USE ReplicationAssumption
<1>1. sock_primary[s].to = t /\ sock_primary[s].at = i /\ i \in DOMAIN conns[t] /\ conns[t][i].heard
  BY DEF Feeds
<1>2. i \in Nat \ {0} BY <1>1, ConnsTypes, ConnOf
<1>3. conns[t] # << >> BY <1>1
<1>4. up[t] = "up" BY <1>3 DEF AtRest, Rested
<1>5. conns[t][i].from = s BY <1>1, <1>2, <1>4 DEF Links
<1>6. up[s] = "up" BY <1>1 DEF AtRest, Rested, Unset
<1>7. Heard(s) BY <1>1 DEF Heard, Link
<1> QED BY <1>1, <1>2, <1>4, <1>5, <1>6, <1>7

LEMMA HeardFeeds ==
  ASSUME TypeOK, NEW s \in Servers, Heard(s)
  PROVE  Feeds(s, sock_primary[s].to, sock_primary[s].at) /\ sock_primary[s].to \in Servers
BY HeardLink DEF Feeds

\* Only the server that reads a length begins to expect a message.
LEMMA Expecting ==
  ASSUME TypeOK, NEW s \in Servers, Acts(s), NEW t \in Servers, NEW i, Expects(t, i)', ~Expects(t, i)
  PROVE  t = s /\ Measured(s, i)
<1>t. /\ main \in [Servers -> {"idle", "receive", "aux", "length", "message", "enqueue", "reply"}]
      /\ request \in [Servers -> [write : Writes \cup {0}, from : Nat]]
  BY DEF TypeOK
<1>0. main'[t] = "receive" /\ request'[t].from = i BY DEF Expects
<1>1. CASE KeepsWork BY <1>1 DEF KeepsWork, Expects
<1>2. CASE Ends(s) BY <1>0, <1>2, <1>t DEF Ends, Exits, Expects
<1>3. CASE Issue(s) BY <1>3 DEF Issue, Expects
<1>4. CASE ReceiveFromClient(s) BY <1>0, <1>4, <1>t DEF ReceiveFromClient, Does, Expects
<1>5. CASE \E j \in DOMAIN conns[s] : Measured(s, j)
  <2>1. PICK j \in DOMAIN conns[s] : Measured(s, j) BY <1>5
  <2>2. CASE t = s BY <1>0, <2>1, <2>2, <1>t DEF Measured
  <2>3. CASE t # s BY <1>0, <2>1, <2>3, <1>t DEF Measured, Does, Expects
  <2> QED BY <2>2, <2>3
<1>6. CASE \E j \in DOMAIN conns[s] : Dropped(s, j) BY <1>0, <1>6, <1>t DEF Dropped, Does, Expects
<1>7. CASE Received(s) BY <1>0, <1>7, <1>t DEF Received, Does, Expects
<1>8. CASE Invoked(s) BY <1>0, <1>8, <1>t DEF Invoked, Does, Expects
<1>9. CASE Forwarded(s, "length", Length, "message")
  BY <1>0, <1>9, <1>t DEF Forwarded, Does, Expects
<1>10. CASE Forwarded(s, "message", request[s].write, "enqueue")
  BY <1>0, <1>10, <1>t DEF Forwarded, Does, Expects
<1>11. CASE Enqueue(s) BY <1>0, <1>11, <1>t DEF Enqueue, Does, Expects
<1>12. CASE Replied(s) BY <1>0, <1>12, <1>t DEF Replied, Does, Expects
<1> QED
  BY <1>1, <1>2, <1>3, <1>4, <1>5, <1>6, <1>7, <1>8, <1>9, <1>10, <1>11, <1>12, WorkKept DEF Acts

LEMMA FramedStep ==
  ASSUME TypeOK, TypeOK', AtRest, Links, Hands, Framed, Flow, NEW s \in Servers, Acts(s)
  PROVE  Framed'
<1> USE ReplicationAssumption
<1>t. /\ up \in [Servers -> {"new", "up", "down"}]
      /\ main \in [Servers -> {"idle", "receive", "aux", "length", "message", "enqueue", "reply"}]
      /\ request \in [Servers -> [write : Writes \cup {0}, from : Nat]]
  BY DEF TypeOK
<1> DEFINE Good(t, i) == /\ Alternate(conns[t][i].stream)
                         /\ Expects(t, i) /\ conns[t][i].stream # << >> =>
                               conns[t][i].stream[1] # Length
<1>a. \A t \in Servers : \A i \in DOMAIN conns[t] : Good(t, i) BY DEF Framed
<1>q. \A t \in Servers : \A i \in DOMAIN conns[t] : conns[t][i].stream \in Seq(Items)
  BY ConnsTypes, ConnOf
<1>x. ASSUME NEW t \in Servers, NEW i, Expects(t, i)', ~Expects(t, i) PROVE t = s /\ Measured(s, i)
  BY <1>x, Expecting
<1> SUFFICES \A t \in Servers : \A i \in DOMAIN conns'[t] : Good(t, i)' BY DEF Framed
<1>e. Alternate(<< >>) BY DEF Alternate
\* A stream that stays as it is, or loses its end, or all.
<1>1. ASSUME NEW t \in Servers, NEW i \in DOMAIN conns[t],
             conns'[t][i].stream = conns[t][i].stream, t # s \/ ~Measured(s, i)
      PROVE  Good(t, i)'
  BY <1>1, <1>a, <1>x DEF Alternate
<1>2. ASSUME NEW t \in Servers, NEW i \in DOMAIN conns[t], Cut(t, i), t # s \/ ~Measured(s, i)
      PROVE  Good(t, i)'
  <2> DEFINE q == conns[t][i].stream
  <2>1. PICK n \in 0..Len(q) : conns'[t][i].stream = SubSeq(q, 1, n) BY <1>2 DEF Cut
  <2>2. q \in Seq(Items) /\ Alternate(q) BY <1>q, <1>a
  <2> HIDE DEF q
  <2>3. Alternate(SubSeq(q, 1, n)) BY <2>2, CutAlternates
  <2>4. SubSeq(q, 1, n) # << >> => SubSeq(q, 1, n)[1] = q[1] /\ q # << >>
    <3>1. SubSeq(q, 1, n) \in Seq(Items) /\ Len(SubSeq(q, 1, n)) = n
          /\ \A p \in 1..n : SubSeq(q, 1, n)[p] = q[p]
      BY <2>2, PrefixOf
    <3>2. Len(q) \in Nat BY <2>2, LenProperties
    <3>3. SubSeq(q, 1, n) # << >> => n \in Nat \ {0} BY <3>1, EmptySeq
    <3>4. n \in Nat \ {0} => 1 \in 1..n /\ Len(q) # 0 BY <3>2
    <3>5. q = << >> => Len(q) = 0 BY <2>2, EmptySeq
    <3> QED BY <3>1, <3>3, <3>4, <3>5
  <2>5. Expects(t, i)' => Expects(t, i) BY <1>2, <1>x
  <2> QED BY <2>1, <2>3, <2>4, <2>5, <1>a DEF q, Alternate
<1>3. CASE Quiet
  <2>1. \A t \in Servers : \A i \in DOMAIN conns'[t] :
           i \in DOMAIN conns[t] /\ conns'[t][i].stream = conns[t][i].stream
    BY <1>3 DEF Quiet, Kept, Alike
  <2>2. \A i \in DOMAIN conns[s] : ~Measured(s, i)
    <3> SUFFICES ASSUME NEW i \in DOMAIN conns[s], Measured(s, i) PROVE FALSE
      OBVIOUS
    <3>1. conns[s][i].stream = Tail(conns[s][i].stream) /\ conns[s][i].stream # << >>
      BY <2>1, <1>3 DEF Measured, Taken, Quiet, Kept, Alike
    <3>2. conns[s][i].stream \in Seq(Items) BY <1>q
    <3>3. Len(conns[s][i].stream) = Len(conns[s][i].stream) - 1 /\ Len(conns[s][i].stream) \in Nat
      BY <3>1, <3>2, HeadTailProperties, LenProperties
    <3> QED BY <3>3
  <2> QED BY <2>1, <2>2, <1>1
\* One stream changes.
<1>4. ASSUME NEW t \in Servers, NEW i \in DOMAIN conns[t], Changes(t, i), Good(t, i)',
             \A j \in DOMAIN conns[s] : j # i \/ t # s => ~Measured(s, j)
      PROVE  \A u \in Servers : \A j \in DOMAIN conns'[u] : Good(u, j)'
  <2> SUFFICES ASSUME NEW u \in Servers, NEW j \in DOMAIN conns'[u] PROVE Good(u, j)'
    OBVIOUS
  <2>1. j \in DOMAIN conns[u] BY <1>4 DEF Changes
  <2>2. CASE u = t /\ j = i BY <1>4, <2>2
  <2>3. CASE u # t \/ j # i
    <3>1. conns'[u][j].stream = conns[u][j].stream BY <1>4, <2>1, <2>3 DEF Changes, Alike
    <3>2. u # s \/ ~Measured(s, j) BY <1>4, <2>1, <2>3
    <3> QED BY <3>1, <3>2, <2>1, <1>1
  <2> QED BY <2>2, <2>3
<1>n. ASSUME NEW i, Measured(s, i)
      PROVE  Does(s, "idle", "receive") /\ request'[s].from = i /\ main[s] = "idle" /\ main'[s] = "receive"
  BY <1>n, <1>t DEF Measured, Does
<1>5. CASE Ends(s)
  <2>1. \A i : ~Measured(s, i) BY <1>5, <1>n, <1>t DEF Ends, Exits
  <2>2. conns'[s] = << >> BY <1>5 DEF Ends, Ended
  <2>3. ASSUME NEW t \in Servers, t # s, NEW i \in DOMAIN conns'[t] PROVE Good(t, i)'
    BY <1>5, <2>1, <2>3, <1>2 DEF Ends, Ended
  <2> QED BY <2>2, <2>3
<1>6. ASSUME HangsUp(s), NEW t, NEW i, Hung(t, i)
      PROVE  \A u \in Servers : \A j \in DOMAIN conns'[u] : Good(u, j)'
  <2>2. \A j : ~Measured(s, j) BY <1>6, <1>n DEF HangsUp, Rests
  <2>3. t \in Servers /\ i \in DOMAIN conns[t] /\ Changes(t, i) /\ Cut(t, i)
    BY <1>6 DEF Hung, Changes
  <2>4. Good(t, i)' BY <2>2, <2>3, <1>2
  <2> QED BY <2>2, <2>3, <2>4, <1>4
<1>7. ASSUME Connects(s), NEW t, Grown(s, t), NEW n, n = Len(conns[t]) + 1
      PROVE  \A u \in Servers : \A j \in DOMAIN conns'[u] : Good(u, j)'
  <2>1. Grown(s, t) /\ t \in Servers BY <1>7 DEF Grown
  <2>2. \A j : ~Measured(s, j) BY <1>7, <1>n DEF Connects, Rests
  <2>3. ASSUME NEW u \in Servers, NEW j \in DOMAIN conns'[u], u # t \/ j # n PROVE Good(u, j)'
    <3>1. j \in DOMAIN conns[u] /\ conns'[u][j].stream = conns[u][j].stream
      <4>1. CASE u # t BY <2>1, <2>3, <4>1 DEF Grown, Kept, Alike
      <4>2. CASE u = t
        <5>1. DOMAIN conns'[t] = 1..n /\ DOMAIN conns[t] = 1..n - 1 BY <2>1, <1>7 DEF Grown
        <5>2. Len(conns[t]) \in Nat BY <2>1, LenProperties DEF TypeOK
        <5>3. j \in 1..n /\ j # n BY <2>3, <4>2, <5>1
        <5>4. j \in 1..n - 1 BY <5>2, <5>3, <1>7
        <5> QED BY <2>1, <4>2, <5>1, <5>4 DEF Grown, Alike
      <4> QED BY <4>1, <4>2
    <3> QED BY <3>1, <2>2, <1>1
  <2>4. Good(t, n)'
    <3>1. conns'[t][n].stream = << >> BY <2>1, <1>7 DEF Grown
    <3> QED BY <3>1, <1>e DEF Alternate
  <2> QED BY <2>3, <2>4
<1>8. ASSUME NEW i \in DOMAIN conns[s], Taken(s, i),
             \/ Measured(s, i) /\ conns[s][i].stream[1] = Length
             \/ Received(s) /\ i = request[s].from
      PROVE  \A u \in Servers : \A j \in DOMAIN conns'[u] : Good(u, j)'
  <2> DEFINE q == conns[s][i].stream
  <2>1. q \in Seq(Items) /\ q # << >> /\ Alternate(q) /\ conns'[s][i].stream = Tail(q)
    BY <1>8, <1>q, <1>a DEF Taken
  <2>2. \A j \in DOMAIN conns[s] : j # i => ~Measured(s, j)
    <3>1. CASE Measured(s, i) BY <3>1, <1>n
    <3>2. CASE Received(s) BY <3>2, <1>n DEF Received, Does
    <3> QED BY <3>1, <3>2, <1>8
  <2> HIDE DEF q
  <2>3. Alternate(Tail(q)) /\ (Tail(q) # << >> => (q[1] = Length <=> Tail(q)[1] # Length))
    BY <2>1, TailAlternates
  <2>4. Expects(s, i)' => q[1] = Length
    <3>1. CASE Measured(s, i) BY <3>1, <1>8, <1>n DEF q, Received, Does
    <3>2. CASE Received(s) BY <3>2, <1>t DEF Received, Does, Expects
    <3> QED BY <3>1, <3>2, <1>8
  <2>5. Good(s, i)' BY <2>1, <2>3, <2>4 DEF Alternate
  <2> QED BY <2>2, <2>5, <1>4, <1>8 DEF Taken
<1>9. ASSUME NEW i \in DOMAIN conns[s], Dropped(s, i)
      PROVE  \A u \in Servers : \A j \in DOMAIN conns'[u] : Good(u, j)'
  <2>1. Changes(s, i) /\ conns'[s][i].stream = << >> BY <1>9 DEF Dropped, Shut
  <2>2. Good(s, i)' BY <2>1, <1>e DEF Alternate
  <2>3. \A j : ~Measured(s, j) BY <1>9, <1>n, <1>t DEF Dropped, Does
  <2> QED BY <2>1, <2>2, <2>3, <1>4
<1>10. ASSUME NEW item \in Items, NEW place \in {"length", "message"},
              item = Length <=> place = "length",
              NEW to \in {"message", "enqueue"}, Forwarded(s, place, item, to),
              NEW t \in Servers, NEW i, Feeds(s, t, i), Sends(t, i, item)
       PROVE  \A u \in Servers : \A j \in DOMAIN conns'[u] : Good(u, j)'
  <2> DEFINE q == conns[t][i].stream
  <2>1. Sends(t, i, item) /\ main[s] = place BY <1>10 DEF Forwarded, Does
  <2>2. Feeds(s, t, i) /\ t \in Servers /\ i \in DOMAIN conns[t] BY <1>10 DEF Feeds
  <2>3. \A j : ~Measured(s, j) BY <1>10, <1>n DEF Forwarded, Does
  <2>4. q \in Seq(Items) /\ Alternate(q) /\ conns'[t][i].stream = Append(q, item)
    BY <2>1, <2>2, <1>q, <1>a DEF Sends
  <2>5. q # << >> => (q[Len(q)] = Length <=> item # Length) BY <2>1, <2>2, <1>10 DEF Flow
  <2>6. Expects(t, i)' => Expects(t, i) BY <2>2, <2>3, <1>x
  <2>7. q = << >> /\ Expects(t, i) => item # Length BY <2>1, <2>2, <1>10 DEF Flow
  <2>8. q # << >> /\ Expects(t, i) => q[1] # Length BY <2>2, <1>a
  <2> HIDE DEF q
  <2>9. /\ Alternate(Append(q, item)) /\ Append(q, item)[1] = IF q = << >> THEN item ELSE q[1]
    BY <2>4, <2>5, AppendAlternates
  <2>10. Good(t, i)' BY <2>4, <2>6, <2>7, <2>8, <2>9 DEF Alternate, q
  <2> QED BY <2>1, <2>2, <2>3, <2>10, <1>4 DEF Sends
<1>h. Heard(s) => Feeds(s, sock_primary[s].to, sock_primary[s].at) /\ sock_primary[s].to \in Servers
  BY HeardFeeds
<1>11. CASE Forwarded(s, "length", Length, "message")
  <2>1. Length \in Items BY DEF Items
  <2>2. Heard(s) => Sends(sock_primary[s].to, sock_primary[s].at, Length) BY <1>11 DEF Forwarded
  <2>3. ~Heard(s) => Quiet BY <1>11 DEF Forwarded
  <2> QED BY <1>3, <1>10, <1>11, <1>h, <2>1, <2>2, <2>3
<1>12. CASE Forwarded(s, "message", request[s].write, "enqueue")
  <2>1. request[s].write \in Writes BY <1>12 DEF Forwarded, Does, Hands
  <2>2. request[s].write \in Items BY <2>1 DEF Items
  <2>3. request[s].write # Length BY <2>1 DEF Writes
  <2>4. Heard(s) => Sends(sock_primary[s].to, sock_primary[s].at, request[s].write)
    BY <1>12 DEF Forwarded
  <2>5. ~Heard(s) => Quiet BY <1>12 DEF Forwarded
  <2> QED BY <1>3, <1>10, <1>12, <1>h, <2>2, <2>3, <2>4, <2>5
<1> HIDE DEF Good
<1>13. CASE \E i \in DOMAIN conns[s] : Measured(s, i)
  <2>1. PICK i \in DOMAIN conns[s] : Measured(s, i) BY <1>13
  <2>2. Taken(s, i) BY <2>1 DEF Measured
  <2>3. conns[s][i].stream[1] = Length BY <2>1 DEF Measured
  <2> QED BY <1>8, <2>1, <2>2, <2>3
<1>14. CASE Received(s)
  <2>1. request[s].from \in DOMAIN conns[s] BY <1>14 DEF Received, Taken, Changes
  <2> QED BY <1>8, <1>14, <2>1 DEF Received
<1>15. CASE HangsUp(s) BY <1>3, <1>6, <1>15 DEF HangsUp
<1>16. CASE Connects(s) BY <1>7, <1>16 DEF Connects
<1> QED
  BY <1>3, <1>5, <1>9, <1>11, <1>12, <1>13, <1>14, <1>15, <1>16
  DEF Acts, Named, Watched, Found, Invoked, Replied

\* Only who forwards begins, or ends, to owe a message after its length.
LEMMA Owing ==
  ASSUME TypeOK, NEW s \in Servers, Acts(s), NEW a \in Servers, a # s \/ ~Ends(s),
         a # s \/ ~Forwarded(s, "length", Length, "message"),
         a # s \/ ~Forwarded(s, "message", request[s].write, "enqueue")
  PROVE  main'[a] = "message" <=> main[a] = "message"
<1>t. main \in [Servers -> {"idle", "receive", "aux", "length", "message", "enqueue", "reply"}]
  BY DEF TypeOK
<1>1. CASE KeepsWork BY <1>1 DEF KeepsWork
<1>2. CASE Issue(s) BY <1>2 DEF Issue
<1>3. CASE \E from, to : Does(s, from, to) /\ (a = s => from # "message" /\ to # "message")
  BY <1>3, <1>t DEF Does
<1>4. CASE Ends(s) BY <1>4, <1>t DEF Ends, Exits
<1>5. CASE ReceiveFromClient(s) \/ Received(s) \/ Invoked(s) \/ Enqueue(s) \/ Replied(s)
  BY <1>3, <1>5 DEF ReceiveFromClient, Received, Invoked, Enqueue, Replied
<1>6. CASE \E i \in DOMAIN conns[s] : Measured(s, i) \/ Dropped(s, i)
  BY <1>6, <1>t DEF Measured, Dropped, Does
<1>7. CASE a # s /\ \E item, from, to : Forwarded(s, from, item, to) BY <1>7, <1>t DEF Forwarded, Does
<1> QED BY <1>1, <1>2, <1>4, <1>5, <1>6, <1>7, WorkKept DEF Acts

\* A connection that is fed was fed before, or is the one just made.
LEMMA FedBefore ==
  ASSUME TypeOK, TypeOK', AtRest, AtRest', Links, NEW s \in Servers, Acts(s),
         NEW a \in Servers, NEW t \in Servers, NEW i, Feeds(a, t, i)', ~(Connects(s) /\ a = s)
  PROVE  /\ Feeds(a, t, i)
         /\ a = s => ~Ends(s) /\ ~HangsUp(s)
         /\ t = s => ~Ends(s)
<1> USE ReplicationAssumption
<1>t. sock_primary \in [Servers -> Sockets] BY DEF TypeOK
<1>1. sock_primary'[a].to = t /\ sock_primary'[a].at = i /\ i \in DOMAIN conns'[t] /\ conns'[t][i].heard
  BY DEF Feeds
<1>2. conns'[t] \in Seq(Connections) BY DEF TypeOK
<1>3. i \in Nat \ {0} BY <1>1, <1>2, LenProperties
<1>4. ~(t = s /\ Ends(s)) BY <1>1 DEF Ends, Ended
<1>5. ~(a = s /\ Ends(s)) BY <1>1, <1>t DEF Ends, Exits, Unset
<1>6. ~(a = s /\ HangsUp(s))
  <2>1. HangsUp(s) => sock_primary'[s] = Closed BY <1>t DEF HangsUp
  <2>2. Closed.to = Nobody BY DEF Closed
  <2> QED BY <1>1, <2>1, <2>2
<1>7. ~(a = s /\ Found(s))
  <2>1. Found(s) => sock_primary'[s] = [to |-> backup, at |-> 0] BY <1>t DEF Found
  <2> QED BY <1>1, <1>3, <2>1
<1>8. sock_primary'[a] = sock_primary[a]
  BY <1>5, <1>6, <1>7, <1>t DEF Acts, Ends, Exits, Named, Start, Expire, DeleteBackup, Watched,
     KeepsWork, Found, HangsUp, Connects, Issue, ReceiveFromClient, Measured, Dropped, Received,
     Invoked, Forwarded, Enqueue, Replied, Stays
<1>9. up'[t] = "up"
  <2>1. conns'[t] # << >> BY <1>1
  <2> QED BY <2>1 DEF AtRest, Rested
<1>10. up[t] # "down"
  BY <1>9 DEF Acts, Ends, Exits, Named, Start, Expire, DeleteBackup, Rests, Calls, Watched,
     KeepsWork, Found, HangsUp, Connects, Issue, ReceiveFromClient, Measured, Dropped, Received,
     Invoked, Forwarded, Enqueue, Replied, Does, Stays, TypeOK
<1>11. i \in DOMAIN conns[t] BY <1>1, <1>3, <1>8, <1>10 DEF Links
<1>12. conns[t][i] \in Connections BY <1>11, ConnsTypes, ConnOf
<1>13. conns[t][i].heard
  <2>1. CASE Quiet BY <2>1, <1>1, <1>11 DEF Quiet, Kept, Alike
  <2>2. CASE \E u, j : Changes(u, j) /\ (u # t \/ j # i) BY <2>2, <1>1, <1>11 DEF Changes, Alike
  <2>3. CASE \E u, j : Taken(u, j) /\ u = t /\ j = i BY <2>3 DEF Taken
  <2>4. CASE \E u, j, item : Sends(u, j, item) /\ u = t /\ j = i BY <2>4 DEF Sends
  <2>5. CASE \E u, j : Shut(u, j) /\ u = t /\ j = i BY <2>5, <1>1 DEF Shut
  <2>6. CASE \E u, j : Hung(u, j) /\ u = t /\ j = i BY <2>6, <1>1 DEF Hung
  <2>7. CASE Ends(s) BY <2>7, <1>1, <1>4, <1>11 DEF Ends, Ended
  <2>8. CASE Connects(s)
    <3>1. Grown(s, sock_primary[s].to) BY <2>8 DEF Connects
    <3> QED BY <3>1, <1>1, <1>11 DEF Grown, Kept, Alike
  <2>9. \/ Quiet \/ Ends(s) \/ Connects(s)
        \/ \E u, j : Taken(u, j) \/ Shut(u, j) \/ Hung(u, j)
        \/ \E u, j, item : Sends(u, j, item)
    BY DEF Acts, Named, Watched, Found, HangsUp, Measured, Dropped, Received, Invoked,
           Forwarded, Replied
  <2>10. \A u, j : Taken(u, j) \/ Shut(u, j) \/ Hung(u, j) => Changes(u, j)
    BY DEF Taken, Shut, Hung
  <2>11. \A u, j, item : Sends(u, j, item) => Changes(u, j) BY DEF Sends
  <2> QED BY <2>1, <2>2, <2>3, <2>4, <2>5, <2>6, <2>7, <2>8, <2>9, <2>10, <2>11
<1> QED BY <1>1, <1>4, <1>5, <1>6, <1>8, <1>11, <1>13 DEF Feeds

\* What the connection of a live feeder is like after a step that neither reads it nor
\* writes to it.
LEMMA StreamStays ==
  ASSUME TypeOK, AtRest, Links, NEW s \in Servers, Acts(s), NEW a \in Servers, NEW t \in Servers,
         NEW i, Feeds(a, t, i),
         a = s => ~Ends(s) /\ ~HangsUp(s),
         t = s => ~Ends(s) /\ ~Measured(s, i) /\ ~Dropped(s, i) /\ ~(Received(s) /\ request[s].from = i),
         a = s => /\ ~Forwarded(s, "length", Length, "message")
                  /\ ~Forwarded(s, "message", request[s].write, "enqueue")
  PROVE  conns'[t][i].stream = conns[t][i].stream
<1>2. i \in DOMAIN conns[t] /\ conns[t][i].from = a BY FeederOf
<1>3. CASE Quiet BY <1>2, <1>3 DEF Quiet, Kept, Alike
<1>4. ASSUME NEW u, NEW j, Changes(u, j), u # t \/ j # i PROVE conns'[t][i].stream = conns[t][i].stream
  BY <1>2, <1>4 DEF Changes, Alike
<1>5. CASE Ends(s) BY <1>2, <1>5 DEF Ends, Ended, Alike
<1>6. CASE Connects(s)
  <2>1. Grown(s, sock_primary[s].to) BY <1>6 DEF Connects
  <2> QED BY <2>1, <1>2 DEF Grown, Kept, Alike
\* Nobody else feeds this connection.
<1>7. ASSUME Heard(s), a # s PROVE sock_primary[s].to # t \/ sock_primary[s].at # i
  <2>1. Feeds(s, sock_primary[s].to, sock_primary[s].at) /\ sock_primary[s].to \in Servers
    BY <1>7, HeardFeeds
  <2>2. conns[sock_primary[s].to][sock_primary[s].at].from = s BY <2>1, FeederOf
  <2> QED BY <1>2, <1>7, <2>2
<1>8. CASE HangsUp(s)
  <2>1. CASE Heard(s)
    <3>1. Changes(sock_primary[s].to, sock_primary[s].at) BY <1>8, <2>1 DEF HangsUp, Hung
    <3> QED BY <3>1, <2>1, <1>4, <1>7, <1>8
  <2> QED BY <2>1, <1>3, <1>8 DEF HangsUp
<1>9. ASSUME NEW from, NEW item, NEW to, Forwarded(s, from, item, to), a # s
      PROVE  conns'[t][i].stream = conns[t][i].stream
  <2>1. CASE Heard(s)
    <3>1. Changes(sock_primary[s].to, sock_primary[s].at) BY <1>9, <2>1 DEF Forwarded, Sends
    <3> QED BY <3>1, <2>1, <1>4, <1>7, <1>9
  <2> QED BY <2>1, <1>3, <1>9 DEF Forwarded
<1>10. ASSUME NEW j \in DOMAIN conns[s], Measured(s, j) \/ Dropped(s, j)
       PROVE  conns'[t][i].stream = conns[t][i].stream
  <2>1. Changes(s, j) BY <1>10 DEF Measured, Dropped, Taken, Shut
  <2>2. s # t \/ j # i BY <1>10
  <2> QED BY <2>1, <2>2, <1>4
<1>11. CASE Received(s)
  <2>1. Changes(s, request[s].from) BY <1>11 DEF Received, Taken
  <2>2. s # t \/ request[s].from # i BY <1>11
  <2> QED BY <2>1, <2>2, <1>4
<1> QED
  BY <1>3, <1>5, <1>6, <1>8, <1>9, <1>10, <1>11
  DEF Acts, Named, Watched, Found, Invoked, Replied

LEMMA FlowStep ==
  ASSUME TypeOK, TypeOK', AtRest, AtRest', Links, Hands, Framed, Flow, NEW s \in Servers, Acts(s)
  PROVE  Flow'
<1> USE ReplicationAssumption
<1>t. /\ main \in [Servers -> {"idle", "receive", "aux", "length", "message", "enqueue", "reply"}]
      /\ request \in [Servers -> [write : Writes \cup {0}, from : Nat]]
      /\ sock_primary \in [Servers -> Sockets]
  BY DEF TypeOK
<1> DEFINE Runs(a, t, i) ==
        /\ conns[t][i].stream # << >> =>
              (conns[t][i].stream[Len(conns[t][i].stream)] = Length <=> main[a] = "message")
        /\ conns[t][i].stream = << >> /\ Expects(t, i) => main[a] = "message"
<1> SUFFICES ASSUME NEW a \in Servers, NEW t \in Servers, NEW i \in DOMAIN conns'[t], Feeds(a, t, i)'
             PROVE  Runs(a, t, i)'
  BY DEF Flow
<1>1. CASE Connects(s) /\ a = s
  <2>1. sock_primary'[s].to = t /\ sock_primary'[s].at = i BY <1>1 DEF Feeds
  <2>2. /\ sock_primary' = [sock_primary EXCEPT ![s].at = Len(conns[sock_primary[s].to]) + 1]
        /\ Grown(s, sock_primary[s].to)
    BY <1>1 DEF Connects
  <2>3. sock_primary[s].to = t /\ i = Len(conns[t]) + 1 BY <2>1, <2>2, <1>t DEF Sockets
  <2>4. conns'[t][i].stream = << >> /\ DOMAIN conns[t] = 1..i - 1 BY <2>2, <2>3 DEF Grown
  <2>5. Len(conns[t]) \in Nat BY LenProperties DEF TypeOK
  <2>6. i \notin DOMAIN conns[t] BY <2>3, <2>4, <2>5
  <2>7. ~Expects(t, i)
    <3>1. i # Client BY <2>3, <2>5 DEF Client
    <3> QED BY <2>6, <3>1 DEF Expects, Hands
  <2>8. ~Expects(t, i)' BY <1>1, <2>7 DEF Connects, Rests, Expects
  <2> QED BY <2>4, <2>8
<1>2. CASE ~(Connects(s) /\ a = s)
  <2>1. Feeds(a, t, i) /\ (a = s => ~Ends(s) /\ ~HangsUp(s)) /\ (t = s => ~Ends(s)) BY <1>2, FedBefore
  <2>2. Runs(a, t, i) BY <2>1 DEF Flow, Feeds
  <2>3. /\ i \in DOMAIN conns[t] /\ conns[t][i].from = a /\ conns[t][i].heard
        /\ sock_primary[a].to = t /\ sock_primary[a].at = i
        /\ Heard(a)
    BY <2>1, FeederOf
  <2>4. conns[t][i].stream \in Seq(Items) BY <2>3, ConnsTypes, ConnOf
  <2> DEFINE q == conns[t][i].stream
  <2>5. CASE a = s /\ Forwarded(s, "length", Length, "message")
    <3>1. Sends(t, i, Length) /\ main'[s] = "message" BY <2>3, <2>5, <1>t DEF Forwarded, Does
    <3>2. conns'[t][i].stream = Append(q, Length) BY <3>1 DEF Sends
    <3>3. Length \in Items BY DEF Items
    <3>4. Len(Append(q, Length)) = Len(q) + 1 /\ Append(q, Length)[Len(q) + 1] = Length
          /\ Append(q, Length) # << >>
      BY <2>4, <3>3, AppendProperties
    <3> QED BY <2>5, <3>1, <3>2, <3>4
  <2>6. CASE a = s /\ Forwarded(s, "message", request[s].write, "enqueue")
    <3>1. Sends(t, i, request[s].write) /\ main'[s] = "enqueue" /\ main[s] = "message"
      BY <2>3, <2>6, <1>t DEF Forwarded, Does
    <3>2. conns'[t][i].stream = Append(q, request[s].write) BY <3>1 DEF Sends
    <3>3. request[s].write \in Writes BY <3>1 DEF Hands
    <3>4. request[s].write \in Items /\ request[s].write # Length BY <3>3 DEF Items, Writes
    <3>5. PICK w \in Items : w = request[s].write BY <3>4
    <3>6. /\ Len(Append(q, w)) = Len(q) + 1 /\ Append(q, w)[Len(q) + 1] = w
          /\ Append(q, w) # << >>
      BY <2>4, AppendProperties
    <3> QED BY <2>6, <3>1, <3>2, <3>4, <3>5, <3>6
  <2>7. CASE ~(a = s /\ (\/ Forwarded(s, "length", Length, "message")
                         \/ Forwarded(s, "message", request[s].write, "enqueue")))
    <3>1. main'[a] = "message" <=> main[a] = "message" BY <2>1, <2>7, Owing
    <3>2. CASE t = s /\ (Measured(s, i) \/ (Received(s) /\ request[s].from = i))
      <4>1. Taken(s, i) BY <3>2 DEF Measured, Received
      <4>2. q # << >> /\ conns'[t][i].stream = Tail(q) BY <3>2, <4>1 DEF Taken
      <4>3. Alternate(q) BY <2>3 DEF Framed
      <4>4. main[s] # "message" BY <3>2 DEF Measured, Received, Does
      <4>6. Tail(q) = << >> => Len(q) = 1 BY <2>4, <4>2, <4>3, TailAlternates
      <4>7. Tail(q) # << >> => Tail(q)[Len(Tail(q))] = q[Len(q)] BY <2>4, <4>2, <4>3, TailAlternates
      <4>8. Tail(q) = << >> /\ Expects(t, i)' => main[a] = "message"
        <5>1. CASE Measured(s, i)
          <6>1. q[1] = Length BY <3>2, <5>1 DEF Measured
          <6> QED BY <2>2, <4>2, <4>6, <6>1
        <5>2. CASE Received(s)
          <6>1. main'[s] = "aux" BY <5>2, <1>t DEF Received, Does
          <6> QED BY <3>2, <6>1 DEF Expects
        <5> QED BY <3>2, <5>1, <5>2
      <4> QED BY <2>2, <3>1, <4>2, <4>7, <4>8
    <3>3. CASE ~(t = s /\ (Measured(s, i) \/ (Received(s) /\ request[s].from = i)))
      <4>1. ~(t = s /\ Dropped(s, i))
        <5>1. Dropped(s, i) => ~conns'[s][i].heard BY DEF Dropped, Shut
        <5> QED BY <5>1 DEF Feeds
      <4>2. conns'[t][i].stream = conns[t][i].stream BY <2>1, <2>7, <3>3, <4>1, StreamStays
      <4>3. Expects(t, i)' => Expects(t, i) BY <3>3, Expecting
      <4> QED BY <2>2, <3>1, <4>2, <4>3
    <3> QED BY <3>2, <3>3
  <2> QED BY <2>5, <2>6, <2>7
<1> QED BY <1>1, <1>2

-----------------------------------------------------------------------------
(* Where the writes go. *)

\* r is a part of q without a gap.
Part(r, q) == \E k \in Nat : \A p \in DOMAIN r : p + k \in DOMAIN q /\ r[p] = q[p + k]

LEMMA PartsOf ==
  ASSUME NEW q \in Seq(Items)
  PROVE  /\ Part(q, q)
         /\ \A n \in 0..Len(q) : Part(SubSeq(q, 1, n), q)
         /\ q # << >> => Part(Tail(q), q)
<1>1. DOMAIN q = 1..Len(q) /\ Len(q) \in Nat BY LenProperties
<1>2. Part(q, q)
  <2>1. \A p \in DOMAIN q : p + 0 = p BY <1>1
  <2> QED BY <2>1 DEF Part
<1>3. ASSUME NEW n \in 0..Len(q) PROVE Part(SubSeq(q, 1, n), q)
  <2>1. /\ SubSeq(q, 1, n) \in Seq(Items) /\ Len(SubSeq(q, 1, n)) = n
        /\ \A p \in 1..n : SubSeq(q, 1, n)[p] = q[p]
    BY PrefixOf
  <2>2. DOMAIN SubSeq(q, 1, n) = 1..n BY <2>1, LenProperties
  <2>3. \A p \in 1..n : p + 0 = p /\ p \in DOMAIN q BY <1>1
  <2> QED BY <2>1, <2>2, <2>3 DEF Part
<1>4. ASSUME q # << >> PROVE Part(Tail(q), q)
  <2>1. /\ Tail(q) \in Seq(Items) /\ Len(Tail(q)) = Len(q) - 1
        /\ \A p \in 1..Len(Tail(q)) : Tail(q)[p] = q[p + 1]
    BY <1>4, HeadTailProperties
  <2>2. DOMAIN Tail(q) = 1..Len(Tail(q)) BY <2>1, LenProperties
  <2>3. \A p \in 1..Len(Tail(q)) : p + 1 \in DOMAIN q BY <1>1, <2>1
  <2> QED BY <2>1, <2>2, <2>3 DEF Part
<1> QED BY <1>2, <1>3, <1>4

\* Every stream becomes a part of itself, or empty.
Reduced(u) == \A j \in DOMAIN conns'[u] :
    \/ conns'[u][j].stream = << >>
    \/ j \in DOMAIN conns[u] /\ Part(conns'[u][j].stream, conns[u][j].stream)

LEMMA PartsApart ==
  ASSUME ConnsType, ConnsType', NEW u \in Servers, Reduced(u)
  PROVE  Unread(u)' \subseteq Unread(u) /\ (Apart(u) => Apart(u)')
<1>1. ASSUME NEW j \in DOMAIN conns'[u], NEW p \in DOMAIN conns'[u][j].stream
      PROVE  /\ j \in DOMAIN conns[u]
             /\ Part(conns'[u][j].stream, conns[u][j].stream)
  <2>1. conns'[u][j].stream # << >> BY <1>1
  <2> QED BY <2>1 DEF Reduced
<1>2. Unread(u)' \subseteq Unread(u)
  <2> SUFFICES ASSUME NEW w \in Writes, NEW j \in DOMAIN conns'[u],
                      NEW p \in DOMAIN conns'[u][j].stream, conns'[u][j].stream[p] = w
               PROVE  w \in Unread(u)
    BY DEF Unread
  <2>1. PICK k \in Nat : p + k \in DOMAIN conns[u][j].stream
                         /\ conns'[u][j].stream[p] = conns[u][j].stream[p + k]
    BY <1>1 DEF Part
  <2> QED BY <1>1, <2>1 DEF Unread
<1>3. ASSUME Apart(u) PROVE Apart(u)'
  <2> SUFFICES ASSUME NEW i \in DOMAIN conns'[u], NEW j \in DOMAIN conns'[u],
                      NEW p \in DOMAIN conns'[u][i].stream, NEW q \in DOMAIN conns'[u][j].stream,
                      conns'[u][i].stream[p] = conns'[u][j].stream[q],
                      conns'[u][i].stream[p] # Length
               PROVE  i = j /\ p = q
    BY DEF Apart
  <2>1. i \in DOMAIN conns[u] /\ j \in DOMAIN conns[u] BY <1>1
  <2>2. PICK k \in Nat : \A x \in DOMAIN conns'[u][i].stream :
            /\ x + k \in DOMAIN conns[u][i].stream
            /\ conns'[u][i].stream[x] = conns[u][i].stream[x + k]
    BY <1>1 DEF Part
  <2>3. PICK l \in Nat : \A x \in DOMAIN conns'[u][j].stream :
            /\ x + l \in DOMAIN conns[u][j].stream
            /\ conns'[u][j].stream[x] = conns[u][j].stream[x + l]
    BY <1>1 DEF Part
  <2>4. i = j /\ p + k = q + l BY <1>3, <2>1, <2>2, <2>3 DEF Apart
  <2>5. p + k \in DOMAIN conns[u][i].stream /\ q + k \in DOMAIN conns[u][i].stream
        /\ conns'[u][i].stream[q] = conns[u][i].stream[q + k]
    BY <2>2, <2>4
  <2>6. conns[u][i].stream[p + k] = conns[u][i].stream[q + k]
        /\ conns[u][i].stream[p + k] # Length
    BY <2>2, <2>4, <2>5
  <2>7. p + k = q + k BY <1>3, <2>1, <2>5, <2>6 DEF Apart
  <2>8. conns'[u][i].stream \in Seq(Items)
    <3>1. conns'[u] \in Seq(Connections) BY DEF ConnsType
    <3>2. conns'[u][i] \in Connections BY <3>1, ElementOfSeq, LenProperties
    <3> QED BY <3>2 DEF Connections, Items
  <2>9. p \in Nat /\ q \in Nat BY <2>4, <2>8, LenProperties
  <2> QED BY <2>4, <2>7, <2>9
<1> QED BY <1>2, <1>3

LEMMA AddedApart ==
  ASSUME ConnsType, ConnsType', NEW t \in Servers, NEW i, NEW item \in Items, Sends(t, i, item),
         item = Length \/ item \notin Unread(t)
  PROVE  /\ Unread(t)' \subseteq Unread(t) \cup ({item} \ {Length})
         /\ Apart(t) => Apart(t)'
         /\ \A u \in Servers \ {t} : Reduced(u)
<1> USE ReplicationAssumption
<1> DEFINE q == conns[t][i].stream
<1>1. i \in DOMAIN conns[t] /\ DOMAIN conns'[t] = DOMAIN conns[t] BY DEF Sends, Changes
<1>2. q \in Seq(Items) BY <1>1, ConnOf
<1>3. conns'[t][i].stream = Append(q, item) BY DEF Sends
<1>4. \A j \in DOMAIN conns[t] : j # i => conns'[t][j].stream = conns[t][j].stream
  BY DEF Sends, Changes, Alike
<1>5. /\ Append(q, item) \in Seq(Items) /\ Len(Append(q, item)) = Len(q) + 1
      /\ \A p \in 1..Len(q) : Append(q, item)[p] = q[p]
      /\ Append(q, item)[Len(q) + 1] = item
  BY <1>2, AppendProperties
<1>6. DOMAIN q = 1..Len(q) /\ Len(q) \in Nat /\ DOMAIN Append(q, item) = 1..Len(q) + 1
  BY <1>2, <1>5, LenProperties
\* An item of a stream was there, or is the one added.
<1>7. ASSUME NEW j \in DOMAIN conns[t], NEW p \in DOMAIN conns'[t][j].stream
      PROVE  \/ p \in DOMAIN conns[t][j].stream /\ conns'[t][j].stream[p] = conns[t][j].stream[p]
             \/ j = i /\ p = Len(q) + 1 /\ conns'[t][j].stream[p] = item
  <2>1. CASE j # i BY <1>4, <2>1
  <2>2. CASE j = i
    <3>1. p \in 1..Len(q) + 1 BY <1>3, <1>6, <2>2
    <3>2. CASE p = Len(q) + 1 BY <1>3, <1>5, <2>2, <3>2
    <3>3. CASE p # Len(q) + 1
      <4>1. p \in 1..Len(q) BY <1>6, <3>1, <3>3
      <4> QED BY <1>3, <1>5, <1>6, <2>2, <4>1
    <3> QED BY <3>2, <3>3
  <2> QED BY <2>1, <2>2
<1>8. Unread(t)' \subseteq Unread(t) \cup ({item} \ {Length})
  <2> SUFFICES ASSUME NEW w \in Writes, NEW j \in DOMAIN conns'[t],
                      NEW p \in DOMAIN conns'[t][j].stream, conns'[t][j].stream[p] = w
               PROVE  w \in Unread(t) \cup ({item} \ {Length})
    BY DEF Unread
  <2>1. w # Length BY DEF Writes
  <2> QED BY <1>1, <1>7, <2>1 DEF Unread
<1>9. ASSUME Apart(t) PROVE Apart(t)'
  <2> SUFFICES ASSUME NEW a \in DOMAIN conns'[t], NEW b \in DOMAIN conns'[t],
                      NEW x \in DOMAIN conns'[t][a].stream, NEW y \in DOMAIN conns'[t][b].stream,
                      conns'[t][a].stream[x] = conns'[t][b].stream[y],
                      conns'[t][a].stream[x] # Length
               PROVE  a = b /\ x = y
    BY DEF Apart
  <2>1. a \in DOMAIN conns[t] /\ b \in DOMAIN conns[t] BY <1>1
  <2>2. \A c \in DOMAIN conns[t] : \A z \in DOMAIN conns[t][c].stream :
           conns[t][c].stream[z] = item => item = Length
    BY DEF Unread, Items
  <2>3. CASE x \in DOMAIN conns[t][a].stream /\ conns'[t][a].stream[x] = conns[t][a].stream[x]
    <3>1. conns'[t][a].stream[x] # item BY <2>1, <2>2, <2>3
    <3>2. y \in DOMAIN conns[t][b].stream /\ conns'[t][b].stream[y] = conns[t][b].stream[y]
      BY <1>7, <2>1, <3>1
    <3>3. conns[t][a].stream[x] = conns[t][b].stream[y] /\ conns[t][a].stream[x] # Length
      BY <2>3, <3>2
    <3> QED BY <1>9, <2>1, <2>3, <3>2, <3>3 DEF Apart
  <2>4. CASE a = i /\ x = Len(q) + 1 /\ conns'[t][a].stream[x] = item
    <3>1. ~(y \in DOMAIN conns[t][b].stream /\ conns'[t][b].stream[y] = conns[t][b].stream[y])
      BY <2>1, <2>2, <2>4
    <3> QED BY <1>7, <2>1, <2>4, <3>1
  <2> QED BY <1>7, <2>1, <2>3, <2>4
<1>10. ASSUME NEW u \in Servers, u # t PROVE Reduced(u)
  <2> SUFFICES ASSUME NEW j \in DOMAIN conns'[u]
               PROVE  j \in DOMAIN conns[u] /\ Part(conns'[u][j].stream, conns[u][j].stream)
    BY DEF Reduced
  <2>1. j \in DOMAIN conns[u] /\ conns'[u][j].stream = conns[u][j].stream
    BY <1>10 DEF Sends, Changes, Alike
  <2>2. conns[u][j].stream \in Seq(Items) BY <2>1, ConnOf
  <2> QED BY <2>1, <2>2, PartsOf
<1> QED BY <1>8, <1>9, <1>10

LEMMA QuietReduces ==
  ASSUME TypeOK, Quiet, NEW u \in Servers
  PROVE  Reduced(u)
<1>1. \A j \in DOMAIN conns[u] : conns[u][j].stream \in Seq(Items) BY ConnsTypes, ConnOf
<1> QED BY <1>1, PartsOf DEF Reduced, Quiet, Kept, Alike

LEMMA MostReduced ==
  ASSUME TypeOK, NEW s \in Servers, Acts(s), NEW u \in Servers,
         ~Forwarded(s, "length", Length, "message"),
         ~Forwarded(s, "message", request[s].write, "enqueue")
  PROVE  Reduced(u)
<1>q. \A j \in DOMAIN conns[u] : conns[u][j].stream \in Seq(Items) BY ConnsTypes, ConnOf
<1> SUFFICES ASSUME NEW j \in DOMAIN conns'[u], conns'[u][j].stream # << >>
             PROVE  j \in DOMAIN conns[u] /\ Part(conns'[u][j].stream, conns[u][j].stream)
  BY DEF Reduced
<1>1. ASSUME j \in DOMAIN conns[u], Alike(u, j)
      PROVE  j \in DOMAIN conns[u] /\ Part(conns'[u][j].stream, conns[u][j].stream)
  BY <1>1, <1>q, PartsOf DEF Alike
<1>2. ASSUME j \in DOMAIN conns[u], Cut(u, j)
      PROVE  j \in DOMAIN conns[u] /\ Part(conns'[u][j].stream, conns[u][j].stream)
  BY <1>2, <1>q, PartsOf DEF Cut
<1>3. CASE Quiet BY <1>1, <1>3 DEF Quiet, Kept
<1>4. ASSUME NEW t, NEW i, Changes(t, i), u # t \/ j # i
      PROVE  j \in DOMAIN conns[u] /\ Part(conns'[u][j].stream, conns[u][j].stream)
  BY <1>1, <1>4 DEF Changes
<1>5. CASE Ends(s)
  <2>1. u # s BY <1>5 DEF Ends, Ended
  <2> QED BY <1>2, <1>5, <2>1 DEF Ends, Ended
<1>6. ASSUME NEW t, NEW i, Hung(t, i)
      PROVE  j \in DOMAIN conns[u] /\ Part(conns'[u][j].stream, conns[u][j].stream)
  <2>1. CASE u = t /\ j = i BY <1>2, <1>6, <2>1 DEF Hung, Changes
  <2>2. CASE u # t \/ j # i BY <1>4, <1>6, <2>2 DEF Hung
  <2> QED BY <2>1, <2>2
<1>7. CASE Connects(s)
  <2>1. Grown(s, sock_primary[s].to) BY <1>7 DEF Connects
  <2>2. CASE u # sock_primary[s].to BY <1>1, <2>1, <2>2 DEF Grown, Kept
  <2>3. CASE u = sock_primary[s].to
    <3>1. /\ DOMAIN conns'[u] = 1..Len(conns[u]) + 1
          /\ DOMAIN conns[u] = 1..(Len(conns[u]) + 1) - 1
          /\ conns'[u][Len(conns[u]) + 1].stream = << >>
      BY <2>1, <2>3 DEF Grown
    <3>2. Len(conns[u]) \in Nat BY LenProperties DEF TypeOK
    <3>3. j \in 1..Len(conns[u]) + 1 /\ j # Len(conns[u]) + 1 BY <3>1
    <3>4. j \in 1..(Len(conns[u]) + 1) - 1 BY <3>2, <3>3
    <3>5. j \in DOMAIN conns[u] /\ Alike(u, j) BY <2>1, <2>3, <3>1, <3>4 DEF Grown
    <3> QED BY <1>1, <3>5
  <2> QED BY <2>2, <2>3
<1>8. ASSUME NEW i, Taken(s, i)
      PROVE  j \in DOMAIN conns[u] /\ Part(conns'[u][j].stream, conns[u][j].stream)
  <2>1. CASE u = s /\ j = i BY <1>8, <1>q, <2>1, PartsOf DEF Taken, Changes
  <2>2. CASE u # s \/ j # i BY <1>4, <1>8, <2>2 DEF Taken
  <2> QED BY <2>1, <2>2
<1>9. ASSUME NEW i, Shut(s, i)
      PROVE  j \in DOMAIN conns[u] /\ Part(conns'[u][j].stream, conns[u][j].stream)
  BY <1>4, <1>9 DEF Shut
<1> QED
  BY <1>3, <1>5, <1>6, <1>7, <1>8, <1>9
  DEF Acts, Named, Watched, Found, HangsUp, Measured, Dropped, Received, Invoked, Forwarded, Replied

\* A server for which nothing is new: what it holds, it held.
Still(u) == /\ coming'[u] \subseteq coming[u]
            /\ Unread(u)' \subseteq Unread(u) /\ (Apart(u) => Apart(u)')
            /\ Ahead(u)' \subseteq Ahead(u) /\ Held(u)' \subseteq Held(u)
            /\ accepted'[u] = accepted[u]

\* The main thread goes on with the same write, or drops it.
LEMMA HandStays ==
  ASSUME NEW u \in Servers, request'[u] = request[u],
         \/ main'[u] = main[u]
         \/ main'[u] \in {"idle", "receive", "reply"}
         \/ main[u] = "aux" /\ main'[u] = "length"
         \/ main[u] = "length" /\ main'[u] = "message"
  PROVE  Ahead(u)' \subseteq Ahead(u) /\ Held(u)' \subseteq Held(u)
BY DEF Ahead, Held

LEMMA HandEmpties ==
  ASSUME NEW u \in Servers, main'[u] \in {"idle", "receive", "reply"}
  PROVE  Ahead(u)' = {} /\ Held(u)' = {}
BY DEF Ahead, Held

\* The steps that move no write leave everybody still.
LEMMA StillSteps ==
  ASSUME TypeOK, TypeOK', AtRest, Links, Hands, Framed, NEW s \in Servers, Acts(s),
         ~Issue(s), ~ReceiveFromClient(s), ~Received(s), ~Enqueue(s),
         ~Forwarded(s, "message", request[s].write, "enqueue"),
         NEW u \in Servers
  PROVE  Still(u) /\ issued' = issued
<1>t. /\ main \in [Servers -> {"idle", "receive", "aux", "length", "message", "enqueue", "reply"}]
      /\ request \in [Servers -> [write : Writes \cup {0}, from : Nat]]
      /\ coming \in [Servers -> SUBSET Writes]
  BY DEF TypeOK
<1>1. issued' = issued /\ accepted' = accepted
  <2>1. CASE KeepsWork BY <2>1 DEF KeepsWork
  <2>2. CASE Ends(s) BY <2>2 DEF Ends, Exits, logs
  <2> QED
    BY <2>1, <2>2, WorkKept DEF Acts, Measured, Dropped, Invoked, Forwarded, Replied, logs, clients
<1>2. coming'[u] \subseteq coming[u]
  <2>1. CASE KeepsWork BY <2>1 DEF KeepsWork
  <2>2. CASE Ends(s) BY <2>2, <1>t DEF Ends, Exits
  <2> QED
    BY <2>1, <2>2, WorkKept DEF Acts, Measured, Dropped, Invoked, Forwarded, Replied, clients
<1>3. Ahead(u)' \subseteq Ahead(u) /\ Held(u)' \subseteq Held(u)
  <2>1. CASE KeepsWork BY <2>1, HandStays DEF KeepsWork
  <2>2. CASE Ends(s)
    <3>1. CASE u = s BY <2>2, <3>1, <1>t, HandEmpties DEF Ends, Exits
    <3>2. CASE u # s BY <2>2, <3>2, <1>t, HandStays DEF Ends, Exits
    <3> QED BY <3>1, <3>2
  <2>3. ASSUME NEW from, NEW to, Does(s, from, to), u # s => request'[u] = request[u],
               \/ u # s
               \/ to \in {"idle", "receive", "reply"}
               \/ /\ request'[u] = request[u]
                  /\ <<from, to>> \in {<<"aux", "length">>, <<"length", "message">>}
        PROVE  Ahead(u)' \subseteq Ahead(u) /\ Held(u)' \subseteq Held(u)
    <3>1. CASE u # s BY <2>3, <3>1, <1>t, HandStays DEF Does
    <3>2. CASE u = s /\ to \in {"idle", "receive", "reply"}
      <4>1. main'[u] \in {"idle", "receive", "reply"} BY <2>3, <3>2, <1>t DEF Does
      <4> QED BY <4>1, HandEmpties
    <3>3. CASE /\ u = s /\ request'[u] = request[u]
               /\ <<from, to>> \in {<<"aux", "length">>, <<"length", "message">>}
      <4>1. \/ main[u] = "aux" /\ main'[u] = "length"
            \/ main[u] = "length" /\ main'[u] = "message"
        BY <2>3, <3>3, <1>t DEF Does
      <4> QED BY <4>1, <3>3, HandStays
    <3> QED BY <2>3, <3>1, <3>2, <3>3
  <2>4. CASE \E i \in DOMAIN conns[s] : Measured(s, i) BY <2>3, <2>4, <1>t DEF Measured
  <2>5. CASE \E i \in DOMAIN conns[s] : Dropped(s, i) BY <2>3, <2>5, <1>t DEF Dropped
  <2>6. CASE Invoked(s) BY <2>3, <2>6 DEF Invoked
  <2>7. CASE Forwarded(s, "length", Length, "message") BY <2>3, <2>7 DEF Forwarded
  <2>8. CASE Replied(s) BY <2>3, <2>8, <1>t DEF Replied
  <2> QED BY <2>1, <2>2, <2>4, <2>5, <2>6, <2>7, <2>8, WorkKept DEF Acts
<1>4. Unread(u)' \subseteq Unread(u) /\ (Apart(u) => Apart(u)')
  <2>c. ConnsType /\ ConnsType' BY DEF TypeOK, ConnsType
  <2>1. CASE Reduced(u) BY <2>1, <2>c, PartsApart
  <2>2. ASSUME NEW t, NEW i, Sends(t, i, Length)
        PROVE  Unread(u)' \subseteq Unread(u) /\ (Apart(u) => Apart(u)')
    <3>1. t \in Servers /\ Length \in Items BY <2>2 DEF Sends, Changes, Items
    <3>2. CASE u = t
      <4>1. Unread(t)' \subseteq Unread(t) \cup ({Length} \ {Length}) /\ (Apart(t) => Apart(t)')
        BY <2>2, <2>c, <3>1, AddedApart
      <4> QED BY <3>2, <4>1
    <3>3. CASE u # t
      <4>1. Reduced(u) BY <2>2, <2>c, <3>1, <3>3, AddedApart
      <4> QED BY <2>1, <4>1
    <3> QED BY <3>2, <3>3
  <2>3. CASE Forwarded(s, "length", Length, "message") /\ Heard(s)
    BY <2>2, <2>3 DEF Forwarded
  <2>4. CASE ~(Forwarded(s, "length", Length, "message") /\ Heard(s))
    <3>1. Reduced(u)
      <4>1. CASE Forwarded(s, "length", Length, "message")
        <5>1. Quiet BY <2>4, <4>1 DEF Forwarded
        <5> QED BY <5>1, QuietReduces
      <4>2. CASE ~Forwarded(s, "length", Length, "message") BY <4>2, MostReduced
      <4> QED BY <4>1, <4>2
    <3> QED BY <2>1, <3>1
  <2> QED BY <2>3, <2>4
<1> QED BY <1>1, <1>2, <1>3, <1>4 DEF Still

-----------------------------------------------------------------------------
(* No write goes the same way twice. *)

LEMMA NothingHeld ==
  ASSUME NEW u \in Servers, Rested(u)
  PROVE  coming[u] = {} /\ Unread(u) = {} /\ Ahead(u) = {} /\ Held(u) = {} /\ conns[u] = << >>
BY DEF Rested, Unread, Ahead, Held

LEMMA NothingYet ==
  ASSUME AtRest, NEW u \in Servers, up[u] = "new"
  PROVE  Has(u) = {} /\ ToForward(u) = {} /\ accepted[u] = << >> /\ Held(u) = {} /\ Logged(u) = {}
<1>1. Rested(u) /\ accepted[u] = << >> BY DEF AtRest
<1>2. coming[u] = {} /\ Unread(u) = {} /\ Ahead(u) = {} /\ Held(u) = {} BY <1>1, NothingHeld
<1>3. Logged(u) = {} BY <1>1 DEF Logged
<1> QED BY <1>1, <1>2, <1>3 DEF Has, ToForward

\* Nobody but a process that starts comes up.
LEMMA UpBefore ==
  ASSUME TypeOK, NEW s \in Servers, Acts(s), NEW u \in Servers, up'[u] = "up"
  PROVE  up[u] = "up" \/ (Start(s) /\ u = s /\ up[u] = "new")
BY DEF Acts, Ends, Exits, Named, Start, Expire, DeleteBackup, Rests, Calls, Watched,
       KeepsWork, Found, HangsUp, Connects, Issue, ReceiveFromClient, Measured, Dropped, Received,
       Invoked, Forwarded, Enqueue, Replied, Does, Stays, TypeOK

\* Two servers of which one feeds the other did so before, or there is nothing to say.
LEMMA PairBefore ==
  ASSUME TypeOK, Names, Names', AtRest, NEW s \in Servers, Acts(s),
         NEW a \in Servers, NEW b \in Servers, a # b, primary' = a, up'[b] = "up"
  PROVE  \/ primary = a /\ up[b] = "up"
         \/ ToForward(a) = {}
         \/ Has(b) = {}
<1> USE ReplicationAssumption
<1>1. CASE Start(s)
  <2>1. up[s] = "new" BY <1>1 DEF Start
  <2>2. CASE a = s BY <2>1, <2>2, NothingYet
  <2>3. CASE b = s BY <2>1, <2>3, NothingYet
  <2>4. CASE a # s /\ b # s
    <3>1. primary = a BY <1>1, <2>4 DEF Start
    <3> QED BY <2>4, <3>1, UpBefore
  <2> QED BY <2>2, <2>3, <2>4
<1>2. CASE ~Start(s)
  <2>1. up[b] = "up" BY <1>2, UpBefore
  <2>2. CASE primary = a BY <2>1, <2>2
  <2>3. CASE primary # a
    <3>1. primary = Nobody /\ primary' = s /\ backup' = backup
      BY <1>2, <2>3 DEF Acts, Ends, Exits, Named, Expire, DeleteBackup, Watched,
         Found, HangsUp, Connects, names, Issue, ReceiveFromClient, Measured, Dropped, Received,
         Invoked, Forwarded, Enqueue, Replied, Stays
    <3>2. up[s] = "up" /\ b \in {primary, backup} /\ s \in {primary, backup}
      <4>1. up[s] = "up"
        BY <1>2, <2>3, <3>1 DEF Acts, Ends, Exits, Named, Expire, DeleteBackup, Calls, Watched,
           Found, HangsUp, Connects, names, Issue, ReceiveFromClient, Measured, Dropped, Received,
           Invoked, Forwarded, Enqueue, Replied, Does, Stays
      <4> QED BY <2>1, <4>1 DEF Names
    <3> QED BY <3>1, <3>2
  <2> QED BY <2>2, <2>3
<1> QED BY <1>1, <1>2

LEMMA OwnFeederStays ==
  ASSUME NEW s \in Servers, Acts(s), NEW u \in Servers, u # s \/ ~Ends(s), OwnFeeder(u)
  PROVE  OwnFeeder(u)'
<1>1. Stand(u) BY Stands
<1> QED BY <1>1 DEF OwnFeeder, Stand

WritesInv == Issued /\ NotAhead /\ Once

LEMMA StillWrites ==
  ASSUME TypeOK, Names, Names', AtRest, WritesInv, NEW s \in Servers, Acts(s),
         \A u \in Servers : Still(u), issued' = issued
  PROVE  WritesInv'
<1>1. \A u \in Servers : Logged(u)' = Logged(u) BY DEF Still, Logged
<1>2. \A u \in Servers : Has(u)' \subseteq Has(u) /\ ToForward(u)' \subseteq ToForward(u)
  BY <1>1 DEF Still, Has, ToForward
<1>3. Issued' BY <1>2 DEF WritesInv, Issued
<1>4. NotAhead'
  <2> SUFFICES ASSUME NEW a \in Servers, NEW b \in Servers, primary' = a, b # a, up'[b] = "up"
               PROVE  ToForward(a)' \cap Has(b)' = {}
    BY DEF NotAhead
  <2>1. ToForward(a) \cap Has(b) = {} BY PairBefore DEF WritesInv, NotAhead
  <2> QED BY <1>2, <2>1
<1>5. ASSUME NEW u \in Servers PROVE Unrepeated(u)'
  <2>1. Unrepeated(u) /\ Still(u) BY DEF WritesInv, Once
  <2> QED BY <2>1 DEF Unrepeated, Still
<1>6. ASSUME NEW u \in Servers PROVE ExecutesOnce(u)'
  <2> SUFFICES ASSUME up'[u] = "up", ~OwnFeeder(u)'
               PROVE  /\ \A k, l \in DOMAIN accepted'[u] : accepted'[u][k] = accepted'[u][l] => k = l
                      /\ Logged(u)' \cap (coming'[u] \cup Unread(u)' \cup Held(u)') = {}
                      /\ Held(u)' \cap (coming'[u] \cup Unread(u)') = {}
    BY DEF ExecutesOnce
  <2>1. CASE up[u] = "up"
    <3>1. ~OwnFeeder(u)
      <4>1. u # s \/ ~Ends(s) BY DEF Ends, Exits, TypeOK
      <4> QED BY <4>1, OwnFeederStays
    <3>2. ExecutesOnce(u) /\ Still(u) BY DEF WritesInv, Once
    <3> QED BY <1>1, <2>1, <3>1, <3>2 DEF ExecutesOnce, Still
  <2>2. CASE up[u] = "new"
    <3>1. accepted[u] = << >> /\ Held(u) = {} /\ Logged(u) = {} BY <2>2, NothingYet
    <3>2. Still(u) OBVIOUS
    <3> QED BY <1>1, <3>1, <3>2 DEF Still
  <2> QED BY <2>1, <2>2, UpBefore
<1> QED BY <1>3, <1>4, <1>5, <1>6 DEF WritesInv, Once

\* A step of the main thread, or of a client: the names are as they were.
LEMMA PairStays ==
  ASSUME UNCHANGED <<up, names>>, WritesInv, NEW a \in Servers, NEW b \in Servers,
         primary' = a, b # a, up'[b] = "up"
  PROVE  ToForward(a) \cap Has(b) = {}
BY DEF names, WritesInv, NotAhead

LEMMA QuietStill ==
  ASSUME TypeOK, TypeOK', Quiet, NEW u \in Servers
  PROVE  Unread(u)' \subseteq Unread(u) /\ (Apart(u) => Apart(u)')
<1>1. ConnsType /\ ConnsType' BY DEF TypeOK, ConnsType
<1> QED BY <1>1, QuietReduces, PartsApart

LEMMA OwnFeederQuiet ==
  ASSUME Quiet, NEW u \in Servers, OwnFeeder(u)
  PROVE  OwnFeeder(u)'
BY QuietStands DEF OwnFeeder, Stand

LEMMA WritesAre ==
  ASSUME TypeOK, Hands
  PROVE  issued \in Nat /\ \A u \in Servers : Has(u) \subseteq Writes
<1>1. issued \in 0..MaxWrites /\ coming \in [Servers -> SUBSET Writes] BY DEF TypeOK
<1>2. issued \in Nat BY <1>1, ReplicationAssumption
<1>3. ASSUME NEW u \in Servers PROVE Has(u) \subseteq Writes
  <2>1. coming[u] \subseteq Writes BY <1>1
  <2>2. Unread(u) \subseteq Writes /\ Logged(u) \subseteq Writes BY DEF Unread, Logged
  <2>3. Held(u) \subseteq Writes BY DEF Held, Hands
  <2> QED BY <2>1, <2>2, <2>3 DEF Has
<1> QED BY <1>2, <1>3

LEMMA IssueWrites ==
  ASSUME TypeOK, TypeOK', Hands, WritesInv, NEW s \in Servers, Quiet, Issue(s)
  PROVE  WritesInv'
<1> DEFINE w == issued + 1
<1>1. /\ UNCHANGED <<up, names>> /\ UNCHANGED <<main, request, accepted>> /\ issued' = w
      /\ coming'[s] = coming[s] \cup {w} /\ \A u \in Servers \ {s} : coming'[u] = coming[u]
      /\ primary = s
  BY DEF Issue, logs, TypeOK
<1>2. \A u \in Servers : w \notin Has(u)
  <2>1. issued \in Nat BY WritesAre
  <2>2. \A u \in Servers : \A x \in Has(u) : x <= issued BY DEF WritesInv, Issued
  <2> QED BY <2>1, <2>2
<1>3. \A u \in Servers : /\ Logged(u)' = Logged(u) /\ Ahead(u)' = Ahead(u) /\ Held(u)' = Held(u)
                         /\ Unread(u)' \subseteq Unread(u) /\ (Apart(u) => Apart(u)')
                         /\ accepted'[u] = accepted[u]
  BY <1>1, QuietStill DEF Logged, Ahead, Held
<1>4. \A u \in Servers : Ahead(u) \subseteq Held(u) BY DEF Ahead, Held
<1>5. issued \in Nat /\ issued' = issued + 1 BY <1>1, WritesAre
<1> HIDE DEF w
<1>6. \A u \in Servers \ {s} : Has(u)' \subseteq Has(u) /\ ToForward(u)' \subseteq ToForward(u)
  BY <1>1, <1>3 DEF Has, ToForward
<1>7. Has(s)' \subseteq Has(s) \cup {w} /\ ToForward(s)' \subseteq ToForward(s) \cup {w}
  BY <1>1, <1>3 DEF Has, ToForward
<1>8. Issued'
  <2>1. \A u \in Servers : \A x \in Has(u)' : x \in Has(u) \/ x = w BY <1>6, <1>7
  <2>2. \A u \in Servers : \A x \in Has(u) : x \in Nat /\ x <= issued
    <3>1. \A u \in Servers : Has(u) \subseteq Writes BY WritesAre
    <3> QED BY <3>1 DEF WritesInv, Issued, Writes
  <2> QED BY <2>1, <2>2, <1>5 DEF Issued, w
<1>9. NotAhead'
  <2> SUFFICES ASSUME NEW a \in Servers, NEW b \in Servers, primary' = a, b # a, up'[b] = "up"
               PROVE  ToForward(a)' \cap Has(b)' = {}
    BY DEF NotAhead
  <2>1. ToForward(a) \cap Has(b) = {} BY <1>1, PairStays
  <2>2. a = s BY <1>1 DEF names
  <2> QED BY <1>2, <1>6, <1>7, <2>1, <2>2
<1>10. ASSUME NEW u \in Servers PROVE Unrepeated(u)' /\ ExecutesOnce(u)'
  <2>1. Unrepeated(u) /\ ExecutesOnce(u) BY DEF WritesInv, Once
  <2>2. coming'[u] \subseteq coming[u] \cup {w} BY <1>1
  <2>3. w \notin Unread(u) /\ w \notin Held(u) /\ w \notin Logged(u) /\ w \notin Ahead(u)
    BY <1>2, <1>4 DEF Has
  <2>4. Unrepeated(u)' BY <1>3, <2>1, <2>2, <2>3 DEF Unrepeated
  <2>5. OwnFeeder(u) => OwnFeeder(u)' BY OwnFeederQuiet
  <2>6. up' = up BY <1>1
  <2>7. ExecutesOnce(u)' BY <1>3, <2>1, <2>2, <2>3, <2>5, <2>6 DEF ExecutesOnce
  <2> QED BY <2>4, <2>7
<1> QED BY <1>8, <1>9, <1>10 DEF WritesInv, Once

LEMMA FromClientWrites ==
  ASSUME TypeOK, TypeOK', WritesInv, NEW s \in Servers, Quiet, ReceiveFromClient(s)
  PROVE  WritesInv'
<1>1. PICK w \in coming[s] : /\ request' = [request EXCEPT ![s] = [write |-> w, from |-> Client]]
                             /\ coming' = [coming EXCEPT ![s] = @ \ {w}]
  BY DEF ReceiveFromClient
<1>t. /\ main \in [Servers -> {"idle", "receive", "aux", "length", "message", "enqueue", "reply"}]
      /\ request \in [Servers -> [write : Writes \cup {0}, from : Nat]]
      /\ coming \in [Servers -> SUBSET Writes]
  BY DEF TypeOK
<1>a. UNCHANGED <<up, names>> /\ UNCHANGED <<accepted, issued>>
  BY DEF ReceiveFromClient, Stays, logs
<1>b. /\ main[s] = "idle" /\ main'[s] = "aux" /\ request'[s].write = w
      /\ coming'[s] = coming[s] \ {w}
  BY <1>1, <1>t DEF ReceiveFromClient, Does
<1>c. \A u \in Servers \ {s} : /\ coming'[u] = coming[u] /\ main'[u] = main[u]
                               /\ request'[u] = request[u]
  BY <1>1, <1>t DEF ReceiveFromClient, Does
<1>2. /\ UNCHANGED <<up, names>> /\ UNCHANGED <<accepted, issued>>
      /\ main[s] = "idle" /\ main'[s] = "aux" /\ request'[s].write = w
      /\ coming'[s] = coming[s] \ {w}
      /\ \A u \in Servers \ {s} : /\ coming'[u] = coming[u] /\ main'[u] = main[u]
                                  /\ request'[u] = request[u]
  BY <1>a, <1>b, <1>c
<1>3. Ahead(s) = {} /\ Held(s) = {} /\ Ahead(s)' = {w} /\ Held(s)' = {w} BY <1>2 DEF Ahead, Held
<1>4. \A u \in Servers \ {s} : Ahead(u)' = Ahead(u) /\ Held(u)' = Held(u) BY <1>2 DEF Ahead, Held
<1>5. \A u \in Servers : /\ Logged(u)' = Logged(u) /\ accepted'[u] = accepted[u]
                         /\ Unread(u)' \subseteq Unread(u) /\ (Apart(u) => Apart(u)')
  BY <1>2, QuietStill DEF Logged
<1>6. \A u \in Servers : Has(u)' \subseteq Has(u) /\ ToForward(u)' \subseteq ToForward(u)
  BY <1>2, <1>3, <1>4, <1>5 DEF Has, ToForward
<1>7. Issued' BY <1>2, <1>6 DEF WritesInv, Issued
<1>8. NotAhead'
  <2> SUFFICES ASSUME NEW a \in Servers, NEW b \in Servers, primary' = a, b # a, up'[b] = "up"
               PROVE  ToForward(a)' \cap Has(b)' = {}
    BY DEF NotAhead
  <2>1. ToForward(a) \cap Has(b) = {} BY <1>2, PairStays
  <2> QED BY <1>6, <2>1
<1>9. ASSUME NEW u \in Servers PROVE Unrepeated(u)' /\ ExecutesOnce(u)'
  <2>1. Unrepeated(u) /\ ExecutesOnce(u) BY DEF WritesInv, Once
  <2>2. OwnFeeder(u) => OwnFeeder(u)' BY OwnFeederQuiet
  <2>3. up' = up BY <1>2
  <2>4. CASE u = s BY <1>2, <1>3, <1>5, <2>1, <2>2, <2>3, <2>4 DEF Unrepeated, ExecutesOnce
  <2>5. CASE u # s BY <1>2, <1>4, <1>5, <2>1, <2>2, <2>3, <2>5 DEF Unrepeated, ExecutesOnce
  <2> QED BY <2>4, <2>5
<1> QED BY <1>7, <1>8, <1>9 DEF WritesInv, Once

\* What is read leaves its stream.
LEMMA ReadOnce ==
  ASSUME TypeOK, TypeOK', NEW s \in Servers, NEW i, Taken(s, i), Apart(s),
         conns[s][i].stream[1] \in Writes
  PROVE  /\ conns[s][i].stream[1] \in Unread(s) /\ conns[s][i].stream[1] \notin Unread(s)'
<1> USE ReplicationAssumption
<1> DEFINE q == conns[s][i].stream  w == q[1]
<1>1. i \in DOMAIN conns[s] /\ DOMAIN conns'[s] = DOMAIN conns[s] /\ q # << >>
      /\ conns'[s][i].stream = Tail(q)
      /\ \A j \in DOMAIN conns[s] : j # i => conns'[s][j].stream = conns[s][j].stream
  BY DEF Taken, Changes, Alike
<1>2. q \in Seq(Items) BY <1>1, ConnsTypes, ConnOf
<1>3. /\ Len(q) \in Nat \ {0} /\ DOMAIN q = 1..Len(q) BY <1>1, <1>2, EmptySeq, LenProperties
<1>4. /\ Tail(q) \in Seq(Items) /\ Len(Tail(q)) = Len(q) - 1
      /\ \A p \in 1..Len(Tail(q)) : Tail(q)[p] = q[p + 1]
  BY <1>1, <1>2, HeadTailProperties
<1>5. DOMAIN Tail(q) = 1..Len(Tail(q)) BY <1>4, LenProperties
<1>6. 1 \in DOMAIN q /\ w # Length BY <1>3 DEF Writes
<1>7. w \in Unread(s) BY <1>1, <1>6 DEF Unread
<1>8. w \notin Unread(s)'
  <2> SUFFICES ASSUME NEW j \in DOMAIN conns'[s], NEW p \in DOMAIN conns'[s][j].stream,
                      conns'[s][j].stream[p] = w
               PROVE  FALSE
    BY DEF Unread
  <2>1. CASE j = i
    <3>1. p \in 1..Len(Tail(q)) /\ Tail(q)[p] = w BY <1>1, <1>5, <2>1
    <3>2. p + 1 \in DOMAIN q /\ q[p + 1] = w /\ p + 1 # 1 BY <1>3, <1>4, <3>1
    <3>3. q[1] = q[p + 1] BY <3>2
    <3> QED BY <1>1, <1>6, <3>2, <3>3 DEF Apart
  <2>2. CASE j # i
    <3>1. p \in DOMAIN conns[s][j].stream /\ conns[s][j].stream[p] = conns[s][i].stream[1]
      BY <1>1, <2>2
    <3> QED BY <1>1, <1>6, <2>2, <3>1 DEF Apart
  <2> QED BY <2>1, <2>2
<1> QED BY <1>7, <1>8

LEMMA ReceivedWrites ==
  ASSUME TypeOK, TypeOK', Hands, Framed, WritesInv, NEW s \in Servers, Acts(s), Received(s)
  PROVE  WritesInv'
<1> DEFINE i == request[s].from  w == conns[s][i].stream[1]
<1>t. /\ main \in [Servers -> {"idle", "receive", "aux", "length", "message", "enqueue", "reply"}]
      /\ request \in [Servers -> [write : Writes \cup {0}, from : Nat]]
  BY DEF TypeOK
<1>a. UNCHANGED <<up, names>> /\ UNCHANGED <<accepted, issued, coming>>
  BY DEF Received, Stays, logs, clients
<1>b. main[s] = "receive" /\ main'[s] = "aux" /\ Taken(s, i) BY <1>t DEF Received, Does
<1>c. request'[s].write = w
  <2>1. request' = [request EXCEPT ![s].write = w] BY DEF Received
  <2> HIDE DEF w
  <2> QED BY <2>1, <1>t
<1>d. \A u \in Servers \ {s} : main'[u] = main[u] /\ request'[u] = request[u]
  BY <1>t DEF Received, Does
<1>1. Apart(s) BY DEF WritesInv, Once, Unrepeated
<1>2. w \in Writes
  <2>1. i \in DOMAIN conns[s] /\ HasInput(s, i) /\ Expects(s, i)
    BY <1>b DEF Taken, Changes, HasInput, Expects
  <2> QED BY <2>1, HeadOf
<1>3. w \in Unread(s) /\ w \notin Unread(s)' BY <1>1, <1>2, <1>b, ReadOnce
<1> HIDE DEF i, w
<1>4. Ahead(s) = {} /\ Held(s) = {} /\ Ahead(s)' = {w} /\ Held(s)' = {w}
  BY <1>b, <1>c DEF Ahead, Held
<1>5. \A u \in Servers \ {s} : Ahead(u)' = Ahead(u) /\ Held(u)' = Held(u) BY <1>d DEF Ahead, Held
<1>6. ASSUME NEW u \in Servers
      PROVE  /\ Logged(u)' = Logged(u) /\ accepted'[u] = accepted[u] /\ coming'[u] = coming[u]
             /\ Unread(u)' \subseteq Unread(u) /\ (Apart(u) => Apart(u)')
             /\ OwnFeeder(u) => OwnFeeder(u)'
  <2>1. ConnsType /\ ConnsType' BY DEF TypeOK, ConnsType
  <2>2. ~Forwarded(s, "length", Length, "message")
        /\ ~Forwarded(s, "message", request[s].write, "enqueue") /\ ~Ends(s) /\ ~Connects(s)
    BY <1>b, <1>t DEF Forwarded, Does, Ends, Exits, Connects, Rests
  <2>3. Reduced(u) BY <2>2, MostReduced
  <2>4. OwnFeeder(u) => OwnFeeder(u)' BY <2>2, OwnFeederStays
  <2> QED BY <1>a, <2>1, <2>3, <2>4, PartsApart DEF Logged
<1>7. \A u \in Servers : Has(u)' \subseteq Has(u) /\ ToForward(u)' \subseteq ToForward(u)
  <2>1. Has(s)' \subseteq Has(s) /\ ToForward(s)' \subseteq ToForward(s)
    BY <1>3, <1>4, <1>6 DEF Has, ToForward
  <2>2. \A u \in Servers \ {s} : Has(u)' \subseteq Has(u) /\ ToForward(u)' \subseteq ToForward(u)
    BY <1>5, <1>6 DEF Has, ToForward
  <2> QED BY <2>1, <2>2
<1>8. Issued' BY <1>a, <1>7 DEF WritesInv, Issued
<1>9. NotAhead'
  <2> SUFFICES ASSUME NEW a \in Servers, NEW b \in Servers, primary' = a, b # a, up'[b] = "up"
               PROVE  ToForward(a)' \cap Has(b)' = {}
    BY DEF NotAhead
  <2>1. ToForward(a) \cap Has(b) = {} BY <1>a, PairStays
  <2> QED BY <1>7, <2>1
<1>10. ASSUME NEW u \in Servers PROVE Unrepeated(u)' /\ ExecutesOnce(u)'
  <2>1. Unrepeated(u) /\ ExecutesOnce(u) BY DEF WritesInv, Once
  <2>2. up' = up BY <1>a
  <2>3. CASE u = s BY <1>3, <1>4, <1>6, <2>1, <2>2, <2>3 DEF Unrepeated, ExecutesOnce
  <2>4. CASE u # s BY <1>5, <1>6, <2>1, <2>2, <2>4 DEF Unrepeated, ExecutesOnce
  <2> QED BY <2>3, <2>4
<1> QED BY <1>8, <1>9, <1>10 DEF WritesInv, Once

\* What a server forwards its peer does not have, unless they are the same.
LEMMA ForwardedWrites ==
  ASSUME TypeOK, TypeOK', AtRest, Links, Hands, WritesInv, NEW s \in Servers, Acts(s),
         Forwarded(s, "message", request[s].write, "enqueue")
  PROVE  WritesInv'
<1>t. main \in [Servers -> {"idle", "receive", "aux", "length", "message", "enqueue", "reply"}]
  BY DEF TypeOK
<1>c. ConnsType /\ ConnsType' BY DEF TypeOK, ConnsType
<1>a. UNCHANGED <<up, names>> /\ UNCHANGED <<request, accepted, issued, coming>>
  BY DEF Forwarded, Stays, logs, clients
<1>b. main[s] = "message" /\ main'[s] = "enqueue" /\ \A u \in Servers \ {s} : main'[u] = main[u]
  BY <1>t DEF Forwarded, Does
<1>1. PICK w \in Writes : w = request[s].write BY <1>b DEF Hands
<1>2. w \in Items BY DEF Items
<1>l. w # Length BY ReplicationAssumption DEF Writes
<1>3. Ahead(s) = {w} /\ Held(s) = {w} /\ Ahead(s)' = {} /\ Held(s)' = {w}
  BY <1>a, <1>b, <1>1 DEF Ahead, Held
<1>4. \A u \in Servers \ {s} : Ahead(u)' = Ahead(u) /\ Held(u)' = Held(u) BY <1>a, <1>b DEF Ahead, Held
<1>5. \A u \in Servers : /\ Logged(u)' = Logged(u) /\ accepted'[u] = accepted[u]
                         /\ coming'[u] = coming[u]
                         /\ OwnFeeder(u) => OwnFeeder(u)'
  <2>1. ~Ends(s) BY <1>b, <1>t DEF Ends, Exits
  <2> QED BY <1>a, <2>1, OwnFeederStays DEF Logged
<1>6. \A u \in Servers : Unrepeated(u) /\ ExecutesOnce(u) BY DEF WritesInv, Once
<1>7. w \notin Unread(s) /\ w \notin coming[s] BY <1>3, <1>6 DEF Unrepeated
<1>h. \A u \in Servers : Ahead(u) \subseteq Held(u) BY DEF Ahead, Held
<1>8. ASSUME NEW t,
             \A u \in Servers : /\ Unread(u)' \subseteq Unread(u) \cup {w}
                                /\ u # t => Unread(u)' \subseteq Unread(u)
                                /\ Apart(u) => Apart(u)',
             t = s => OwnFeeder(s),
             t \in Servers /\ t # s => primary = s /\ w \notin Has(t)
      PROVE  WritesInv'
  <2>1. ASSUME NEW u \in Servers
        PROVE  /\ Has(u)' \subseteq Has(u) \cup {w} /\ ToForward(u)' \subseteq ToForward(u) \cup {w}
               /\ u # t \/ u = s => Has(u)' \subseteq Has(u) /\ ToForward(u)' \subseteq ToForward(u)
    BY <1>3, <1>4, <1>5, <1>8 DEF Has, ToForward
  <2>2. t # s => w \notin ToForward(s)'
    BY <1>3, <1>5, <1>7, <1>8 DEF ToForward
  <2>3. Issued'
    <3>1. w \in Has(s) BY <1>3 DEF Has
    <3>2. w <= issued /\ issued' = issued BY <1>a, <3>1 DEF WritesInv, Issued
    <3> QED BY <2>1, <3>2 DEF WritesInv, Issued
  <2>4. NotAhead'
    <3> SUFFICES ASSUME NEW a \in Servers, NEW b \in Servers, primary' = a, b # a, up'[b] = "up"
                 PROVE  ToForward(a)' \cap Has(b)' = {}
      BY DEF NotAhead
    <3>1. ToForward(a) \cap Has(b) = {} BY <1>a, PairStays
    <3>2. primary = a BY <1>a DEF names
    <3>3. CASE t \in Servers /\ t # s
      <4>1. a = s BY <1>8, <3>2, <3>3
      <4> QED BY <2>1, <2>2, <3>1, <3>3, <4>1
    <3>4. CASE ~(t \in Servers /\ t # s) BY <2>1, <3>1, <3>4
    <3> QED BY <3>3, <3>4
  <2>5. ASSUME NEW u \in Servers PROVE Unrepeated(u)' /\ ExecutesOnce(u)'
    <3>1. up' = up BY <1>a
    <3>2. CASE u = s BY <1>3, <1>5, <1>6, <1>7, <1>8, <3>1, <3>2 DEF Unrepeated, ExecutesOnce
    <3>3. CASE u # s
      <4>1. u = t => w \notin coming[u] /\ w \notin Held(u) /\ w \notin Logged(u) /\ w \notin Ahead(u)
        BY <1>8, <1>h, <3>3 DEF Has
      <4>2. Unrepeated(u)' BY <1>4, <1>5, <1>6, <1>8, <3>3, <4>1 DEF Unrepeated
      <4>3. ExecutesOnce(u)' BY <1>4, <1>5, <1>6, <1>8, <3>1, <3>3, <4>1 DEF ExecutesOnce
      <4> QED BY <4>2, <4>3
    <3> QED BY <3>2, <3>3
  <2> QED BY <2>3, <2>4, <2>5 DEF WritesInv, Once
<1>9. CASE Heard(s)
  <2>1. PICK t \in Servers, i \in Nat : t = sock_primary[s].to /\ i = sock_primary[s].at
    BY <1>9, HeardLink DEF TypeOK, Sockets
  <2>2. Feeds(s, t, i) BY <1>9, <2>1, HeardFeeds
  <2>3. Sends(t, i, w) BY <1>1, <1>9, <2>1 DEF Forwarded
  <2>4. conns[t][i].from = s /\ up[t] = "up" /\ i \in DOMAIN conns[t] BY <2>2, FeederOf
  <2>5. t = s => OwnFeeder(s) BY <2>4 DEF OwnFeeder
  <2>6. ASSUME t # s PROVE primary = s /\ w \notin Has(t)
    <3>1. primary = s BY <2>1, <2>6 DEF Links
    <3>2. ToForward(s) \cap Has(t) = {} BY <2>4, <2>6, <3>1 DEF WritesInv, NotAhead
    <3> QED BY <1>3, <3>1, <3>2 DEF ToForward
  <2>7. w \notin Unread(t) BY <1>7, <2>6 DEF Has
  <2>8. /\ Unread(t)' \subseteq Unread(t) \cup {w}
        /\ Apart(t) => Apart(t)'
        /\ \A u \in Servers \ {t} : Reduced(u)
    BY <1>c, <1>2, <2>3, <2>7, AddedApart
  <2>9. \A u \in Servers \ {t} : Unread(u)' \subseteq Unread(u) /\ (Apart(u) => Apart(u)')
    BY <1>c, <2>8, PartsApart
  <2> QED BY <1>8, <2>5, <2>6, <2>8, <2>9
<1>10. CASE ~Heard(s)
  <2>1. Quiet BY <1>10 DEF Forwarded
  <2>2. \A u \in Servers : Unread(u)' \subseteq Unread(u) /\ (Apart(u) => Apart(u)')
    BY <2>1, QuietStill
  <2> QED BY <1>8, <2>2, ReplicationAssumption
<1> QED BY <1>9, <1>10

LEMMA EnqueueWrites ==
  ASSUME TypeOK, TypeOK', Hands, WritesInv, NEW s \in Servers, Quiet, Enqueue(s)
  PROVE  WritesInv'
<1>t. /\ main \in [Servers -> {"idle", "receive", "aux", "length", "message", "enqueue", "reply"}]
      /\ accepted \in [Servers -> Seq(Writes)] /\ accepted[s] \in Seq(Writes)
  BY DEF TypeOK
<1>a. UNCHANGED <<up, names>> /\ UNCHANGED <<request, issued, coming>>
  BY DEF Enqueue, Stays, clients
<1>b. main[s] = "enqueue" /\ main'[s] = "reply" /\ \A u \in Servers \ {s} : main'[u] = main[u]
  BY <1>t DEF Enqueue, Does
<1>1. PICK w \in Writes : w = request[s].write BY <1>b DEF Hands
<1>2. Ahead(s) = {} /\ Held(s) = {w} /\ Ahead(s)' = {} /\ Held(s)' = {}
  BY <1>b, <1>1 DEF Ahead, Held
<1>c. accepted'[s] = Append(accepted[s], w) /\ \A u \in Servers \ {s} : accepted'[u] = accepted[u]
  BY <1>t, <1>1 DEF Enqueue
<1>3. /\ DOMAIN accepted[s] = 1..Len(accepted[s]) /\ Len(accepted[s]) \in Nat
      /\ DOMAIN accepted'[s] = 1..Len(accepted[s]) + 1
      /\ accepted'[s][Len(accepted[s]) + 1] = w
      /\ \A k \in 1..Len(accepted[s]) : accepted'[s][k] = accepted[s][k]
  <2>1. /\ Append(accepted[s], w) \in Seq(Writes)
        /\ Len(Append(accepted[s], w)) = Len(accepted[s]) + 1
        /\ \A k \in 1..Len(accepted[s]) : Append(accepted[s], w)[k] = accepted[s][k]
        /\ Append(accepted[s], w)[Len(accepted[s]) + 1] = w
    BY <1>t, AppendProperties
  <2>2. DOMAIN Append(accepted[s], w) = 1..Len(accepted[s]) + 1 BY <2>1, LenProperties
  <2>3. DOMAIN accepted[s] = 1..Len(accepted[s]) /\ Len(accepted[s]) \in Nat BY <1>t, LenProperties
  <2> QED BY <1>c, <2>1, <2>2, <2>3
<1>4. \A k \in DOMAIN accepted'[s] : k \in DOMAIN accepted[s] \/ k = Len(accepted[s]) + 1 BY <1>3
<1>5. Logged(s)' \subseteq Logged(s) \cup {w}
  <2>1. ASSUME NEW x \in Writes, NEW k \in DOMAIN accepted'[s], accepted'[s][k] = x, x # w
        PROVE  x \in Logged(s)
    BY <1>3, <1>4, <2>1 DEF Logged
  <2> QED BY <2>1 DEF Logged
<1>6. \A u \in Servers \ {s} : Logged(u)' = Logged(u) /\ Ahead(u)' = Ahead(u) /\ Held(u)' = Held(u)
  BY <1>a, <1>b, <1>c DEF Logged, Ahead, Held
<1>7. \A u \in Servers : /\ Unread(u)' \subseteq Unread(u) /\ (Apart(u) => Apart(u)')
                         /\ coming'[u] = coming[u] /\ (OwnFeeder(u) => OwnFeeder(u)')
  BY <1>a, QuietStill, OwnFeederQuiet
<1>8. \A u \in Servers : Has(u)' \subseteq Has(u) /\ ToForward(u)' \subseteq ToForward(u)
  <2>1. Has(s)' \subseteq Has(s) /\ ToForward(s)' \subseteq ToForward(s)
    BY <1>2, <1>5, <1>7 DEF Has, ToForward
  <2>2. \A u \in Servers \ {s} : Has(u)' \subseteq Has(u) /\ ToForward(u)' \subseteq ToForward(u)
    BY <1>6, <1>7 DEF Has, ToForward
  <2> QED BY <2>1, <2>2
<1>9. Issued' BY <1>a, <1>8 DEF WritesInv, Issued
<1>10. NotAhead'
  <2> SUFFICES ASSUME NEW a \in Servers, NEW b \in Servers, primary' = a, b # a, up'[b] = "up"
               PROVE  ToForward(a)' \cap Has(b)' = {}
    BY DEF NotAhead
  <2>1. ToForward(a) \cap Has(b) = {} BY <1>a, PairStays
  <2> QED BY <1>8, <2>1
<1>11. ASSUME NEW u \in Servers PROVE Unrepeated(u)' /\ ExecutesOnce(u)'
  <2>1. Unrepeated(u) /\ ExecutesOnce(u) BY DEF WritesInv, Once
  <2>2. up' = up BY <1>a
  <2>3. CASE u # s BY <1>c, <1>6, <1>7, <2>1, <2>2, <2>3 DEF Unrepeated, ExecutesOnce
  <2>4. CASE u = s
    <3>1. Unrepeated(s)' BY <1>2, <1>7, <2>1, <2>4 DEF Unrepeated
    <3>2. ExecutesOnce(s)'
      <4> SUFFICES ASSUME up[s] = "up", ~OwnFeeder(s)
                   PROVE  /\ \A k, l \in DOMAIN accepted'[s] :
                                accepted'[s][k] = accepted'[s][l] => k = l
                          /\ Logged(s)' \cap (coming'[s] \cup Unread(s)' \cup Held(s)') = {}
                          /\ Held(s)' \cap (coming'[s] \cup Unread(s)') = {}
        BY <1>7, <2>2 DEF ExecutesOnce
      <4>1. /\ \A k, l \in DOMAIN accepted[s] : accepted[s][k] = accepted[s][l] => k = l
            /\ Logged(s) \cap (coming[s] \cup Unread(s) \cup Held(s)) = {}
            /\ Held(s) \cap (coming[s] \cup Unread(s)) = {}
        BY <2>1, <2>4 DEF ExecutesOnce
      <4>2. \A k \in DOMAIN accepted[s] : accepted[s][k] # w BY <1>2, <4>1 DEF Logged
      <4>3. \A k, l \in DOMAIN accepted'[s] : accepted'[s][k] = accepted'[s][l] => k = l
        BY <1>3, <1>4, <4>1, <4>2
      <4> QED BY <1>2, <1>5, <1>7, <4>1, <4>3
    <3> QED BY <2>4, <3>1, <3>2
  <2> QED BY <2>3, <2>4
<1> QED BY <1>9, <1>10, <1>11 DEF WritesInv, Once

LEMMA WritesStep ==
  ASSUME TypeOK, TypeOK', Names, Names', AtRest, Links, Hands, Framed, WritesInv,
         NEW s \in Servers, Acts(s)
  PROVE  WritesInv'
<1>1. CASE Quiet /\ Issue(s) BY <1>1, IssueWrites
<1>2. CASE Quiet /\ ReceiveFromClient(s) BY <1>2, FromClientWrites
<1>3. CASE Received(s) BY <1>3, ReceivedWrites
<1>4. CASE Forwarded(s, "message", request[s].write, "enqueue") BY <1>4, ForwardedWrites
<1>5. CASE Quiet /\ Enqueue(s) BY <1>5, EnqueueWrites
<1>6. CASE /\ ~(Quiet /\ Issue(s)) /\ ~(Quiet /\ ReceiveFromClient(s)) /\ ~Received(s)
           /\ ~Forwarded(s, "message", request[s].write, "enqueue") /\ ~(Quiet /\ Enqueue(s))
  <2>1. ASSUME Issue(s) \/ ReceiveFromClient(s) \/ Enqueue(s) PROVE Quiet
    <3>1. UNCHANGED conns BY <2>1 DEF Issue, ReceiveFromClient, Enqueue
    <3> QED BY <3>1, ConnsTypes, SameConns
  <2>2. ~Issue(s) /\ ~ReceiveFromClient(s) /\ ~Enqueue(s) BY <1>6, <2>1
  <2>3. \A u \in Servers : Still(u) /\ issued' = issued BY <1>6, <2>2, StillSteps
  <2> QED BY <2>3, StillWrites
<1> QED BY <1>1, <1>2, <1>3, <1>4, <1>5, <1>6

-----------------------------------------------------------------------------
(* Suffixes, and the writes of a stream. *)

LEMMA Reversed ==
  ASSUME NEW T, NEW X \in Seq(T)
  PROVE  /\ Reverse(X) \in Seq(T) /\ Len(Reverse(X)) = Len(X)
         /\ \A i \in 1..Len(X) : Reverse(X)[i] = X[(Len(X) - i) + 1]
<1>1. Len(X) \in Nat BY LenProperties
<1>2. \A i \in 1..Len(X) : (Len(X) - i) + 1 \in 1..Len(X) BY <1>1
<1>3. \A i \in 1..Len(X) : X[(Len(X) - i) + 1] \in T BY <1>2, ElementOfSeq
<1>4. Reverse(X) \in [1..Len(X) -> T] BY <1>3 DEF Reverse
<1>5. Reverse(X) \in Seq(T) BY <1>1, <1>4, SeqDef
<1>6. 1..Len(Reverse(X)) = 1..Len(X) /\ Len(Reverse(X)) \in Nat BY <1>4, <1>5, LenProperties
<1>7. Len(Reverse(X)) = Len(X) BY <1>1, <1>6
<1> QED BY <1>5, <1>7 DEF Reverse

LEMMA SuffixIs ==
  ASSUME NEW T, NEW X \in Seq(T), NEW Y \in Seq(T)
  PROVE  IsSuffix(X, Y) <=> /\ Len(X) <= Len(Y)
                            /\ \A k \in 1..Len(X) : X[k] = Y[(Len(Y) - Len(X)) + k]
<1> DEFINE R == Reverse(X)  S == Reverse(Y)  n == Len(X)  m == Len(Y)
<1>1. n \in Nat /\ m \in Nat BY LenProperties
<1>2. /\ R \in Seq(T) /\ Len(R) = n /\ \A i \in 1..n : R[i] = X[(n - i) + 1]
      /\ S \in Seq(T) /\ Len(S) = m /\ \A i \in 1..m : S[i] = Y[(m - i) + 1]
  BY Reversed
<1>3. IsSuffix(X, Y) <=> n <= m /\ SubSeq(R, 1, n) = SubSeq(S, 1, n)
  BY <1>2 DEF IsSuffix, IsPrefix
<1> HIDE DEF R, S, n, m
<1>4. SubSeq(R, 1, n) = R BY <1>2, SubSeqFull
<1> SUFFICES ASSUME n <= m
             PROVE  R = SubSeq(S, 1, n) <=> \A k \in 1..n : X[k] = Y[(m - n) + k]
  BY <1>3, <1>4 DEF n, m
<1>5. SubSeq(S, 1, n) \in Seq(T) /\ Len(SubSeq(S, 1, n)) = n
      /\ \A i \in 1..n : SubSeq(S, 1, n)[i] = S[i]
  <2>1. \A i \in 1..n : S[i] \in T BY <1>1, <1>2, ElementOfSeq
  <2>2. /\ SubSeq(S, 1, n) \in Seq(T)
        /\ Len(SubSeq(S, 1, n)) = IF 1 <= n THEN n - 1 + 1 ELSE 0
        /\ \A i \in 1..n - 1 + 1 : SubSeq(S, 1, n)[i] = S[1 + i - 1]
    BY <1>1, <2>1, SubSeqProperties
  <2>3. n - 1 + 1 = n BY <1>1
  <2>4. ASSUME NEW i \in 1..n PROVE SubSeq(S, 1, n)[i] = S[i]
    <3>1. 1 + i - 1 = i BY <1>1
    <3> QED BY <2>2, <2>3, <3>1
  <2> QED BY <1>1, <2>2, <2>3, <2>4
<1>6. (\A i \in 1..n : R[i] = SubSeq(S, 1, n)[i]) => R = SubSeq(S, 1, n) BY <1>2, <1>5, SeqEqual
<1>7. ASSUME NEW i \in 1..n
      PROVE  R[i] = SubSeq(S, 1, n)[i] <=> X[(n - i) + 1] = Y[(m - i) + 1]
  <2>1. i \in 1..m BY <1>1
  <2> QED BY <1>2, <1>5, <2>1
<1>8. ASSUME \A i \in 1..n : X[(n - i) + 1] = Y[(m - i) + 1], NEW k \in 1..n
      PROVE  X[k] = Y[(m - n) + k]
  <2>1. (n - k) + 1 \in 1..n BY <1>1
  <2>2. (n - ((n - k) + 1)) + 1 = k /\ (m - ((n - k) + 1)) + 1 = (m - n) + k BY <1>1
  <2> QED BY <1>8, <2>1, <2>2
<1>9. ASSUME \A k \in 1..n : X[k] = Y[(m - n) + k], NEW i \in 1..n
      PROVE  X[(n - i) + 1] = Y[(m - i) + 1]
  <2>1. (n - i) + 1 \in 1..n BY <1>1
  <2>2. (m - n) + ((n - i) + 1) = (m - i) + 1 BY <1>1
  <2> QED BY <1>9, <2>1, <2>2
<1> QED BY <1>6, <1>7, <1>8, <1>9

LEMMA SuffixEmpty ==
  ASSUME NEW T, NEW Y \in Seq(T)
  PROVE  IsSuffix(<< >>, Y)
<1>1. << >> \in Seq(T) /\ Len(<< >>) = 0 /\ Len(Y) \in Nat BY EmptySeq, LenProperties
<1>2. PICK X \in Seq(T) : X = << >> BY <1>1
<1>3. Len(X) = 0 BY <1>1, <1>2
<1>4. Len(X) <= Len(Y) /\ \A k \in 1..Len(X) : X[k] = Y[(Len(Y) - Len(X)) + k] BY <1>1, <1>3
<1>5. IsSuffix(X, Y) BY <1>4, SuffixIs
<1> QED BY <1>2, <1>5

LEMMA SuffixAppended ==
  ASSUME NEW T, NEW X \in Seq(T), NEW Y \in Seq(T), NEW w \in T, IsSuffix(X, Y)
  PROVE  IsSuffix(Append(X, w), Append(Y, w))
<1> DEFINE n == Len(X)  m == Len(Y)
<1>1. n \in Nat /\ m \in Nat BY LenProperties
<1>2. /\ Append(X, w) \in Seq(T) /\ Len(Append(X, w)) = n + 1
      /\ \A k \in 1..n : Append(X, w)[k] = X[k]
      /\ Append(X, w)[n + 1] = w
  BY AppendProperties
<1>3. /\ Append(Y, w) \in Seq(T) /\ Len(Append(Y, w)) = m + 1
      /\ \A k \in 1..m : Append(Y, w)[k] = Y[k]
      /\ Append(Y, w)[m + 1] = w
  BY AppendProperties
<1>4. n <= m /\ \A k \in 1..n : X[k] = Y[(m - n) + k] BY SuffixIs
<1> HIDE DEF n, m
<1>5. ASSUME NEW k \in 1..n + 1
      PROVE  Append(X, w)[k] = Append(Y, w)[((m + 1) - (n + 1)) + k]
  <2>1. ((m + 1) - (n + 1)) + k = (m - n) + k BY <1>1
  <2>2. CASE k = n + 1
    <3>1. (m - n) + k = m + 1 BY <1>1, <2>2
    <3> QED BY <1>2, <1>3, <2>1, <2>2, <3>1
  <2>3. CASE k # n + 1
    <3>1. k \in 1..n /\ (m - n) + k \in 1..m BY <1>1, <1>4, <2>3
    <3> QED BY <1>2, <1>3, <1>4, <2>1, <3>1
  <2> QED BY <2>2, <2>3
<1>6. n + 1 <= m + 1 BY <1>1, <1>4
<1> QED BY <1>2, <1>3, <1>5, <1>6, SuffixIs

\* Where the lengths are.
LEMMA Parity ==
  ASSUME NEW q \in Seq(Items), Alternate(q), NEW p \in 1..Len(q)
  PROVE  q[p] = Length <=> (p % 2 = 1 <=> q[1] = Length)
<1> DEFINE Fits(n) == q[n] = Length <=> (n % 2 = 1 <=> q[1] = Length)
           Odd == {n \in 1..Len(q) : ~Fits(n)}
<1>1. Len(q) \in Nat BY LenProperties
<1>2. SUFFICES ASSUME Odd # {} PROVE FALSE OBVIOUS
<1>3. Odd \subseteq Nat BY <1>1
<1> HIDE DEF Odd
<1>4. PICK least \in Odd : \A n \in Odd : <<n, least>> \notin OpToRel(<, Nat)
  BY <1>2, <1>3, NatLessThanWellFounded, WFMin
<1>5. \A n \in Odd : ~(n < least) BY <1>3, <1>4 DEF OpToRel
<1>6. least \in 1..Len(q) /\ ~Fits(least) BY <1>4 DEF Odd
<1>7. least # 1
  <2>1. Fits(1) OBVIOUS
  <2> HIDE DEF Fits
  <2> QED BY <1>6, <2>1
<1> DEFINE n == least - 1
<1>8. n \in 1..Len(q) - 1 /\ n \in 1..Len(q) /\ n < least /\ n + 1 = least BY <1>1, <1>6, <1>7
<1>9. Fits(n)
  <2>1. n \notin Odd BY <1>5, <1>8
  <2> QED BY <1>8, <2>1 DEF Odd
<1>10. q[n] = Length <=> q[least] # Length BY <1>8 DEF Alternate
<1>11. n % 2 = 1 <=> least % 2 # 1 BY <1>6, <1>7
<1> HIDE DEF n
<1> QED BY <1>6, <1>9, <1>10, <1>11

First(q) == IF q # << >> /\ q[1] = Length THEN 2 ELSE 1

LEMMA WritesOfIs ==
  ASSUME NEW q \in Seq(Items), Alternate(q)
  PROVE  /\ WritesOf(q) \in Seq(Writes)
         /\ Len(WritesOf(q)) = (Len(q) + 2 - First(q)) \div 2
         /\ Len(WritesOf(q)) \in Nat
         /\ \A k \in 1..Len(WritesOf(q)) : /\ 2 * (k - 1) + First(q) \in 1..Len(q)
                                           /\ WritesOf(q)[k] = q[2 * (k - 1) + First(q)]
<1> DEFINE n == Len(q)  f == First(q)  m == (n + 2 - f) \div 2
<1>1. n \in Nat /\ (q # << >> => n # 0) BY LenProperties, EmptySeq
<1>2. f \in {1, 2} /\ (f = 2 => q # << >>) BY DEF First
<1>3. m \in Nat BY <1>1, <1>2
<1>4. Head(q) = q[1] OBVIOUS
<1>5. WritesOf(q) = [k \in 1..m |-> q[2 * (k - 1) + f]]
  <2>1. CASE q # << >> /\ q[1] = Length BY <1>4, <2>1 DEF WritesOf, First
  <2>2. CASE ~(q # << >> /\ q[1] = Length) BY <1>4, <2>2 DEF WritesOf, First
  <2> QED BY <2>1, <2>2
<1>6. ASSUME NEW k \in 1..m
      PROVE  2 * (k - 1) + f \in 1..n /\ q[2 * (k - 1) + f] \in Writes
  <2> DEFINE p == 2 * (k - 1) + f
  <2>1. p \in 1..n
    <3> HIDE DEF f, n
    <3> QED BY <1>1, <1>2
  <2>2. p % 2 = 1 <=> f = 1
    <3> HIDE DEF f
    <3> QED BY <1>2
  <2>3. f = 1 <=> q[1] # Length
    <3>1. q # << >> BY <2>1, <1>1
    <3> QED BY <3>1 DEF First
  <2> HIDE DEF p, f
  <2>4. q[p] # Length BY <2>1, <2>2, <2>3, Parity
  <2>5. q[p] \in Items BY <2>1, ElementOfSeq
  <2> QED BY <2>1, <2>4, <2>5 DEF Items, p
<1> HIDE DEF m, f, n
<1>7. WritesOf(q) \in [1..m -> Writes] BY <1>5, <1>6
<1>8. WritesOf(q) \in Seq(Writes) BY <1>3, <1>7, SeqDef
<1>9. 1..Len(WritesOf(q)) = 1..m /\ Len(WritesOf(q)) \in Nat BY <1>7, <1>8, LenProperties
<1>10. Len(WritesOf(q)) = m BY <1>3, <1>9
<1> QED BY <1>3, <1>5, <1>6, <1>8, <1>10 DEF m, f, n

LEMMA LengthAdded ==
  ASSUME NEW q \in Seq(Items), Alternate(q), q # << >> => q[Len(q)] # Length
  PROVE  WritesOf(Append(q, Length)) = WritesOf(q)
<1> DEFINE n == Len(q)
<1>1. n \in Nat /\ (q = << >> <=> n = 0) BY LenProperties, EmptySeq
<1>l. Length \in Items BY DEF Items
<1>2. PICK r \in Seq(Items) : r = Append(q, Length) BY <1>l, AppendProperties
<1>3. /\ Alternate(r) /\ r # << >> /\ Len(r) = n + 1
      /\ r[n + 1] = Length /\ \A k \in 1..n : r[k] = q[k]
  BY <1>2, <1>l, AppendProperties, AppendAlternates
<1> HIDE DEF n
<1>5. First(r) \in {1, 2} /\ First(q) \in {1, 2} BY DEF First
<1>6. /\ WritesOf(r) \in Seq(Writes) /\ Len(WritesOf(r)) = (n + 1 + 2 - First(r)) \div 2
      /\ \A k \in 1..Len(WritesOf(r)) : 2 * (k - 1) + First(r) \in 1..n + 1
                                        /\ WritesOf(r)[k] = r[2 * (k - 1) + First(r)]
      /\ WritesOf(q) \in Seq(Writes) /\ Len(WritesOf(q)) = (n + 2 - First(q)) \div 2
      /\ \A k \in 1..Len(WritesOf(q)) : 2 * (k - 1) + First(q) \in 1..n
                                        /\ WritesOf(q)[k] = q[2 * (k - 1) + First(q)]
  BY <1>3, WritesOfIs DEF n
<1>7. CASE n = 0
  <2>1. First(r) = 2 BY <1>3, <1>7 DEF First
  <2>2. First(q) = 1 BY <1>1, <1>7 DEF First
  <2>3. Len(WritesOf(r)) = 0 /\ Len(WritesOf(q)) = 0 BY <1>6, <1>7, <2>1, <2>2
  <2>4. WritesOf(r) = WritesOf(q) BY <1>6, <2>3, EmptySeq
  <2> QED BY <1>2, <2>4
<1>8. CASE n > 0
  <2>1. First(r) = First(q) BY <1>1, <1>3, <1>8 DEF First
  <2>2. n % 2 = 1 <=> First(q) = 1
    <3>1. q[n] # Length BY <1>1, <1>8 DEF n
    <3>2. n % 2 = 1 <=> q[1] # Length
      <4>1. n \in 1..Len(q) BY <1>1, <1>8 DEF n
      <4> QED BY <3>1, <4>1, Parity
    <3> QED BY <3>2, <1>1, <1>8 DEF First
  <2>3. (n + 1 + 2 - First(q)) \div 2 = (n + 2 - First(q)) \div 2
    <3>1. CASE First(q) = 1
      <4>1. (n + 1 + 2 - 1) \div 2 = (n + 2 - 1) \div 2 BY <1>1, <2>2, <3>1
      <4> QED BY <3>1, <4>1
    <3>2. CASE First(q) = 2
      <4>1. (n + 1 + 2 - 2) \div 2 = (n + 2 - 2) \div 2 BY <1>1, <2>2, <3>2
      <4> QED BY <3>2, <4>1
    <3> QED BY <1>5, <3>1, <3>2
  <2>4. \A k \in 1..Len(WritesOf(r)) : WritesOf(r)[k] = WritesOf(q)[k]
    BY <1>3, <1>6, <2>1, <2>3
  <2>5. WritesOf(r) = WritesOf(q) BY <1>6, <2>1, <2>3, <2>4, SeqEqual
  <2> QED BY <1>2, <2>5
<1> QED BY <1>1, <1>7, <1>8

LEMMA WriteAdded ==
  ASSUME NEW q \in Seq(Items), Alternate(q), q # << >> => q[Len(q)] = Length, NEW w \in Writes
  PROVE  WritesOf(Append(q, w)) = Append(WritesOf(q), w)
<1> DEFINE n == Len(q)
<1>1. n \in Nat /\ (q = << >> <=> n = 0) BY LenProperties, EmptySeq
<1>l. w \in Items /\ w # Length BY ReplicationAssumption DEF Items, Writes
<1>2. PICK r \in Seq(Items) : r = Append(q, w) BY <1>l, AppendProperties
<1>3. /\ Alternate(r) /\ r # << >> /\ Len(r) = n + 1
      /\ r[n + 1] = w /\ \A k \in 1..n : r[k] = q[k]
  BY <1>2, <1>l, AppendProperties, AppendAlternates
<1> HIDE DEF n
<1>5. First(r) \in {1, 2} /\ First(q) \in {1, 2} BY DEF First
<1>6. /\ WritesOf(r) \in Seq(Writes) /\ Len(WritesOf(r)) = (n + 1 + 2 - First(r)) \div 2
      /\ \A k \in 1..Len(WritesOf(r)) : 2 * (k - 1) + First(r) \in 1..n + 1
                                        /\ WritesOf(r)[k] = r[2 * (k - 1) + First(r)]
      /\ WritesOf(q) \in Seq(Writes) /\ Len(WritesOf(q)) = (n + 2 - First(q)) \div 2
      /\ \A k \in 1..Len(WritesOf(q)) : 2 * (k - 1) + First(q) \in 1..n
                                        /\ WritesOf(q)[k] = q[2 * (k - 1) + First(q)]
  BY <1>3, WritesOfIs DEF n
<1>7. First(r) = First(q)
  <2>1. CASE n = 0 BY <1>1, <1>3, <1>l, <2>1 DEF First
  <2>2. CASE n > 0 BY <1>1, <1>3, <2>2 DEF First
  <2> QED BY <1>1, <2>1, <2>2
<1>8. n % 2 = 0 <=> First(q) = 1
  <2>1. CASE n = 0 BY <1>1, <2>1 DEF First
  <2>2. CASE n > 0
    <3>1. n \in 1..Len(q) /\ q[n] = Length BY <1>1, <2>2 DEF n
    <3>2. n % 2 = 1 <=> q[1] = Length BY <3>1, Parity
    <3>3. First(q) = 1 <=> q[1] # Length BY <1>1, <2>2 DEF First
    <3> QED BY <1>1, <3>2, <3>3
  <2> QED BY <1>1, <2>1, <2>2
<1>9. PICK m \in Nat : m = (n + 2 - First(q)) \div 2 BY <1>1, <1>5
<1>10. (n + 1 + 2 - First(q)) \div 2 = m + 1 /\ 2 * m + First(q) = n + 1
  <2>1. CASE First(q) = 1
    <3>1. n % 2 = 0 /\ m = (n + 2 - 1) \div 2 BY <1>8, <1>9, <2>1
    <3>2. (n + 1 + 2 - 1) \div 2 = m + 1 /\ 2 * m + 1 = n + 1 BY <1>1, <3>1
    <3> QED BY <2>1, <3>2
  <2>2. CASE First(q) = 2
    <3>1. n % 2 = 1 /\ m = (n + 2 - 2) \div 2 BY <1>1, <1>8, <1>9, <2>2
    <3>2. (n + 1 + 2 - 2) \div 2 = m + 1 /\ 2 * m + 2 = n + 1 BY <1>1, <3>1
    <3> QED BY <2>2, <3>2
  <2> QED BY <1>5, <2>1, <2>2
<1>11. PICK a \in Seq(Writes) : a = Append(WritesOf(q), w) BY <1>6, AppendProperties
<1>12. Len(a) = m + 1 /\ a[m + 1] = w /\ \A k \in 1..m : a[k] = WritesOf(q)[k]
  BY <1>6, <1>9, <1>11, AppendProperties
<1>13. ASSUME NEW k \in 1..m + 1 PROVE WritesOf(r)[k] = a[k]
  <2>1. WritesOf(r)[k] = r[2 * (k - 1) + First(q)] BY <1>6, <1>7, <1>10
  <2>2. CASE k = m + 1
    <3>1. 2 * (k - 1) + First(q) = n + 1 BY <1>10, <2>2
    <3> QED BY <1>3, <1>12, <2>1, <2>2, <3>1
  <2>3. CASE k # m + 1
    <3>1. k \in 1..m BY <2>3
    <3>2. /\ WritesOf(q)[k] = q[2 * (k - 1) + First(q)]
          /\ 2 * (k - 1) + First(q) \in 1..n
      BY <1>6, <1>9, <3>1
    <3> QED BY <1>3, <1>12, <2>1, <3>1, <3>2
  <2> QED BY <2>2, <2>3
<1>14. Len(WritesOf(r)) = Len(a) BY <1>6, <1>7, <1>10, <1>12
<1>15. WritesOf(r) = a BY <1>6, <1>12, <1>13, <1>14, SeqEqual
<1> QED BY <1>2, <1>11, <1>15

\* What has been read of a message, its length or all of it, is the head of the stream.
LEMMA HeadTaken ==
  ASSUME NEW q \in Seq(Items), Alternate(q), q # << >>
  PROVE  /\ q[1] = Length => WritesOf(Tail(q)) = WritesOf(q)
         /\ q[1] \in Writes => WritesOf(q) = << q[1] >> \o WritesOf(Tail(q))
<1> DEFINE n == Len(q)
<1>1. n \in Nat \ {0} BY EmptySeq
<1>2. PICK r \in Seq(Items) : r = Tail(q) BY HeadTailProperties
<1>3. Len(r) = n - 1 /\ \A k \in 1..n - 1 : r[k] = q[k + 1] BY <1>2, HeadTailProperties
<1>4. /\ Alternate(r)
      /\ r # << >> => r[1] = q[2] /\ (q[1] = Length <=> q[2] # Length)
  BY <1>2, TailAlternates
<1>r. r = << >> <=> n = 1 BY <1>1, <1>3, EmptySeq DEF n
<1> HIDE DEF n
<1>5. First(r) \in {1, 2} /\ First(q) \in {1, 2} BY DEF First
<1>6. /\ WritesOf(r) \in Seq(Writes) /\ Len(WritesOf(r)) = (n - 1 + 2 - First(r)) \div 2
      /\ Len(WritesOf(r)) \in Nat
      /\ \A k \in 1..Len(WritesOf(r)) : 2 * (k - 1) + First(r) \in 1..n - 1
                                        /\ WritesOf(r)[k] = r[2 * (k - 1) + First(r)]
      /\ WritesOf(q) \in Seq(Writes) /\ Len(WritesOf(q)) = (n + 2 - First(q)) \div 2
      /\ \A k \in 1..Len(WritesOf(q)) : 2 * (k - 1) + First(q) \in 1..n
                                        /\ WritesOf(q)[k] = q[2 * (k - 1) + First(q)]
  BY <1>3, <1>4, WritesOfIs DEF n
<1>7. ASSUME q[1] = Length PROVE WritesOf(r) = WritesOf(q)
  <2>1. First(q) = 2 /\ First(r) = 1 BY <1>4, <1>7 DEF First
  <2>2. (n - 1 + 2 - 1) \div 2 = (n + 2 - 2) \div 2 BY <1>1
  <2>3. Len(WritesOf(r)) = Len(WritesOf(q)) BY <1>6, <2>1, <2>2
  <2>4. ASSUME NEW k \in 1..Len(WritesOf(r)) PROVE WritesOf(r)[k] = WritesOf(q)[k]
    <3>1. WritesOf(r)[k] = r[2 * (k - 1) + 1] /\ 2 * (k - 1) + 1 \in 1..n - 1 BY <1>6, <2>1
    <3>2. WritesOf(q)[k] = q[2 * (k - 1) + 2] BY <1>6, <2>1, <2>3
    <3>3. (2 * (k - 1) + 1) + 1 = 2 * (k - 1) + 2 BY <1>6
    <3> QED BY <1>3, <3>1, <3>2, <3>3
  <2> QED BY <1>6, <2>3, <2>4, SeqEqual
<1>8. ASSUME q[1] \in Writes PROVE WritesOf(q) = << q[1] >> \o WritesOf(r)
  <2>1. q[1] # Length BY <1>8, ReplicationAssumption DEF Writes
  <2>2. First(q) = 1 BY <2>1 DEF First
  <2>3. First(r) = IF n = 1 THEN 1 ELSE 2 BY <1>4, <1>r, <2>1 DEF First
  <2>4. PICK m \in Nat : m = Len(WritesOf(r)) BY <1>6
  <2>5. Len(WritesOf(q)) = m + 1
    <3>1. Len(WritesOf(q)) = (n + 2 - 1) \div 2 BY <1>6, <2>2
    <3>2. CASE n = 1
      <4>1. m = (n - 1 + 2 - 1) \div 2 BY <1>6, <2>3, <2>4, <3>2
      <4> QED BY <3>1, <3>2, <4>1
    <3>3. CASE n # 1
      <4>1. m = (n - 1 + 2 - 2) \div 2 BY <1>6, <2>3, <2>4, <3>3
      <4>2. (n + 2 - 1) \div 2 = (n - 1 + 2 - 2) \div 2 + 1 BY <1>1
      <4> QED BY <3>1, <4>1, <4>2
    <3> QED BY <3>2, <3>3
  <2>6. << q[1] >> \in Seq(Writes) /\ Len(<< q[1] >>) = 1 /\ << q[1] >>[1] = q[1] BY <1>8
  <2>7. PICK h \in Seq(Writes) : h = << q[1] >> BY <2>6
  <2>8. PICK a \in Seq(Writes) : a = h \o WritesOf(r) BY <1>6, ConcatProperties
  <2>9. /\ Len(a) = 1 + m
        /\ \A k \in 1..1 + m : a[k] = IF k <= 1 THEN h[k] ELSE WritesOf(r)[k - 1]
    BY <1>6, <2>4, <2>6, <2>7, <2>8, ConcatProperties
  <2>10. ASSUME NEW k \in 1..m + 1 PROVE WritesOf(q)[k] = a[k]
    <3>1. WritesOf(q)[k] = q[2 * (k - 1) + 1] BY <1>6, <2>2, <2>5
    <3>2. CASE k = 1
      <4>1. 2 * (k - 1) + 1 = 1 BY <3>2
      <4>2. a[k] = q[1] BY <2>6, <2>7, <2>9, <3>2
      <4> QED BY <3>1, <4>1, <4>2
    <3>3. CASE k # 1
      <4>1. k - 1 \in 1..m BY <3>3
      <4>2. a[k] = WritesOf(r)[k - 1] BY <2>9, <3>3
      <4>3. n # 1 BY <1>6, <2>2, <2>5, <3>3
      <4>4. /\ WritesOf(r)[k - 1] = r[2 * ((k - 1) - 1) + 2]
            /\ 2 * ((k - 1) - 1) + 2 \in 1..n - 1
        BY <1>6, <2>3, <2>4, <4>1, <4>3
      <4>5. (2 * ((k - 1) - 1) + 2) + 1 = 2 * (k - 1) + 1 OBVIOUS
      <4> QED BY <1>3, <3>1, <4>2, <4>4, <4>5
    <3> QED BY <3>2, <3>3
  <2>11. Len(WritesOf(q)) = Len(a) BY <2>5, <2>9
  <2>12. WritesOf(q) = a BY <1>6, <2>5, <2>10, <2>11, SeqEqual
  <2> QED BY <2>7, <2>8, <2>12
<1> QED BY <1>2, <1>7, <1>8

-----------------------------------------------------------------------------
(* A backup follows its primary. *)

LEMMA KeepingUp ==
  ASSUME TypeOK, KeepsUp
  PROVE  BackupFollows
<1> SUFFICES ASSUME NEW s \in Servers, Heard(s), sock_primary[s].to # s,
                    Len(conns[sock_primary[s].to]) = 1
             PROVE  IsSuffix(accepted[sock_primary[s].to] \o InHand(sock_primary[s].to) \o Sent(Link(s)),
                             accepted[s] \o Passed(s))
  BY DEF BackupFollows
<1> DEFINE t == sock_primary[s].to  i == sock_primary[s].at
<1>1. Feeds(s, t, i) /\ t \in Servers BY HeardFeeds
<1>2. i \in DOMAIN conns[t] BY <1>1 DEF Feeds
<1>3. Sent(Link(s)) = WritesOf(conns[t][i].stream) BY DEF Sent, Link, WritesOf
<1> HIDE DEF t, i
<1>4. IsSuffix(Executed(t) \o WritesOf(conns[t][i].stream), Done(s))
  BY <1>1, <1>2 DEF KeepsUp, t
<1> QED BY <1>3, <1>4 DEF Executed, Done, t

LEMMA HandTypes ==
  ASSUME TypeOK, Hands, NEW u \in Servers
  PROVE  /\ accepted[u] \in Seq(Writes) /\ InHand(u) \in Seq(Writes) /\ Passed(u) \in Seq(Writes)
         /\ Executed(u) \in Seq(Writes) /\ Done(u) \in Seq(Writes)
<1>1. accepted[u] \in Seq(Writes) BY DEF TypeOK
<1>2. << >> \in Seq(Writes) BY EmptySeq
<1>3. InHand(u) \in Seq(Writes)
  <2>1. CASE main[u] \in {"aux", "length", "message", "enqueue"}
    <3>1. PICK w \in Writes : w = request[u].write BY <2>1 DEF Hands
    <3>2. << w >> \in Seq(Writes) OBVIOUS
    <3> QED BY <2>1, <3>1, <3>2 DEF InHand
  <2> QED BY <1>2, <2>1 DEF InHand
<1>4. Passed(u) \in Seq(Writes) BY <1>2, <1>3 DEF Passed
<1> QED BY <1>1, <1>3, <1>4, ConcatProperties DEF Executed, Done

LEMMA OthersKeep ==
  ASSUME TypeOK, NEW s \in Servers, Acts(s), NEW u \in Servers, u # s
  PROVE  main'[u] = main[u] /\ request'[u] = request[u] /\ accepted'[u] = accepted[u]
<1>t. /\ main \in [Servers -> {"idle", "receive", "aux", "length", "message", "enqueue", "reply"}]
      /\ request \in [Servers -> [write : Writes \cup {0}, from : Nat]]
      /\ accepted \in [Servers -> Seq(Writes)]
  BY DEF TypeOK
<1>1. CASE KeepsWork BY <1>1 DEF KeepsWork
<1>2. CASE Ends(s) BY <1>2, <1>t DEF Ends, Exits, logs
<1>3. CASE Issue(s) BY <1>3 DEF Issue, logs
<1>4. CASE ReceiveFromClient(s) BY <1>4, <1>t DEF ReceiveFromClient, Does, logs
<1>5. CASE \E i \in DOMAIN conns[s] : Measured(s, i) \/ Dropped(s, i)
  BY <1>5, <1>t DEF Measured, Dropped, Does, logs
<1>6. CASE Received(s) BY <1>6, <1>t DEF Received, Does, logs
<1>7. CASE Invoked(s) \/ Enqueue(s) \/ Replied(s)
  BY <1>7, <1>t DEF Invoked, Enqueue, Replied, Does, logs
<1>8. CASE \E item, from, to : Forwarded(s, from, item, to)
  BY <1>8, <1>t DEF Forwarded, Does, logs
<1> QED BY <1>1, <1>2, <1>3, <1>4, <1>5, <1>6, <1>7, <1>8, WorkKept DEF Acts

\* The write a main thread enqueues was in its hand, and had been forwarded.
LEMMA EnqueueMoves ==
  ASSUME TypeOK, Hands, NEW s \in Servers, Enqueue(s)
  PROVE  Executed(s)' = Executed(s) /\ Done(s)' = Done(s)
<1>t. /\ main \in [Servers -> {"idle", "receive", "aux", "length", "message", "enqueue", "reply"}]
      /\ accepted \in [Servers -> Seq(Writes)] /\ accepted[s] \in Seq(Writes)
  BY DEF TypeOK
<1>1. main[s] = "enqueue" /\ main'[s] = "reply" BY <1>t DEF Enqueue, Does
<1>2. PICK w \in Writes : w = request[s].write BY <1>1 DEF Hands
<1>3. accepted'[s] = Append(accepted[s], w) BY <1>2, <1>t DEF Enqueue
<1>4. InHand(s) = << w >> /\ Passed(s) = << w >> BY <1>1, <1>2 DEF InHand, Passed
<1>5. InHand(s)' = << >> /\ Passed(s)' = << >> BY <1>1 DEF InHand, Passed
<1>6. Append(accepted[s], w) = accepted[s] \o << w >> BY <1>t, AppendIsConcat
<1>7. Append(accepted[s], w) \in Seq(Writes) BY <1>t, AppendProperties
<1>8. Append(accepted[s], w) \o << >> = Append(accepted[s], w) BY <1>7, ConcatEmptySeq
<1> QED BY <1>3, <1>4, <1>5, <1>6, <1>8 DEF Executed, Done

LEMMA ExecutedStays ==
  ASSUME TypeOK, Hands, NEW s \in Servers, Acts(s), NEW u \in Servers,
         u = s => ~Ends(s) /\ ~ReceiveFromClient(s) /\ ~Received(s)
  PROVE  Executed(u)' = Executed(u)
<1>t. /\ main \in [Servers -> {"idle", "receive", "aux", "length", "message", "enqueue", "reply"}]
      /\ request \in [Servers -> [write : Writes \cup {0}, from : Nat]]
  BY DEF TypeOK
<1>1. CASE u # s BY <1>1, OthersKeep DEF Executed, InHand
<1>2. CASE u = s
  <2>1. CASE KeepsWork BY <2>1 DEF KeepsWork, Executed, InHand
  <2>2. CASE Issue(s) BY <2>2 DEF Issue, logs, Executed, InHand
  <2>3. CASE \E i \in DOMAIN conns[s] : Measured(s, i) \/ Dropped(s, i)
    BY <1>2, <2>3, <1>t DEF Measured, Dropped, Does, logs, Executed, InHand
  <2>4. CASE Invoked(s) \/ Replied(s)
    BY <1>2, <2>4, <1>t DEF Invoked, Replied, Does, logs, Executed, InHand
  <2>5. CASE \/ Forwarded(s, "length", Length, "message")
             \/ Forwarded(s, "message", request[s].write, "enqueue")
    BY <1>2, <2>5, <1>t DEF Forwarded, Does, logs, Executed, InHand
  <2>6. CASE Enqueue(s) BY <1>2, <2>6, EnqueueMoves
  <2> QED BY <1>2, <2>1, <2>2, <2>3, <2>4, <2>5, <2>6, WorkKept DEF Acts
<1> QED BY <1>1, <1>2

LEMMA DoneStays ==
  ASSUME TypeOK, Hands, NEW s \in Servers, Acts(s), NEW u \in Servers,
         u = s => ~Ends(s) /\ ~Forwarded(s, "message", request[s].write, "enqueue")
  PROVE  Done(u)' = Done(u)
<1>t. /\ main \in [Servers -> {"idle", "receive", "aux", "length", "message", "enqueue", "reply"}]
      /\ request \in [Servers -> [write : Writes \cup {0}, from : Nat]]
  BY DEF TypeOK
<1>1. CASE u # s BY <1>1, OthersKeep DEF Done, Passed, InHand
<1>2. CASE u = s
  <2>1. CASE KeepsWork BY <2>1 DEF KeepsWork, Done, Passed, InHand
  <2>2. CASE Issue(s) BY <2>2 DEF Issue, logs, Done, Passed, InHand
  <2>3. CASE ReceiveFromClient(s)
    BY <1>2, <2>3, <1>t DEF ReceiveFromClient, Does, logs, Done, Passed
  <2>4. CASE \E i \in DOMAIN conns[s] : Measured(s, i) \/ Dropped(s, i)
    BY <1>2, <2>4, <1>t DEF Measured, Dropped, Does, logs, Done, Passed
  <2>5. CASE Received(s) \/ Invoked(s) \/ Replied(s) \/ Forwarded(s, "length", Length, "message")
    BY <1>2, <2>5, <1>t DEF Received, Invoked, Replied, Forwarded, Does, logs, Done, Passed
  <2>6. CASE Enqueue(s) BY <1>2, <2>6, EnqueueMoves
  <2> QED BY <1>2, <2>1, <2>2, <2>3, <2>4, <2>5, <2>6, WorkKept DEF Acts
<1> QED BY <1>1, <1>2

LEMMA NothingToFollow ==
  ASSUME NEW Y \in Seq(Writes), NEW q \in Seq(Items), q = << >>
  PROVE  IsSuffix((<< >> \o << >>) \o WritesOf(q), Y)
<1>1. Len(q) = 0 /\ First(q) = 1 BY EmptySeq DEF First
<1>2. Alternate(q) BY <1>1 DEF Alternate
<1>3. WritesOf(q) \in Seq(Writes) /\ Len(WritesOf(q)) = 0
  <2>1. WritesOf(q) \in Seq(Writes) /\ Len(WritesOf(q)) = (0 + 2 - 1) \div 2 BY <1>1, <1>2, WritesOfIs
  <2> QED BY <2>1
<1>4. WritesOf(q) = << >> BY <1>3, EmptySeq
<1>5. << >> \in Seq(Writes) BY EmptySeq
<1>6. (<< >> \o << >>) \o << >> = << >> BY <1>5, ConcatEmptySeq
<1> QED BY <1>4, <1>6, SuffixEmpty

LEMMA MovedOne ==
  ASSUME NEW X \in Seq(Writes), NEW w \in Writes, NEW V \in Seq(Writes)
  PROVE  (X \o << w >>) \o V = X \o (<< w >> \o V)
<1>1. << w >> \in Seq(Writes) OBVIOUS
<1> QED BY <1>1, ConcatAssociative

\* A link just made leads to a server that has done nothing.
LEMMA FollowsFromStart ==
  ASSUME TypeOK, TypeOK', Links', Hands', Untouched, NEW s \in Servers, NEW t \in Servers, NEW i,
         Connects(s), Feeds(s, t, i)', t # s, Len(conns'[t]) = 1
  PROVE  IsSuffix(Executed(t)' \o WritesOf(conns'[t][i].stream), Done(s)')
<1>1. sock_primary'[s].to = t /\ sock_primary'[s].at = i /\ i \in DOMAIN conns'[t]
  BY DEF Feeds
<1>2. sock_primary'[s].to = sock_primary[s].to
  <2>1. sock_primary \in [Servers -> Sockets] BY DEF TypeOK
  <2>2. \E n : sock_primary' = [sock_primary EXCEPT ![s].at = n] BY DEF Connects
  <2> QED BY <2>1, <2>2 DEF Sockets
<1>3. Grown(s, t) /\ up[t] = "up" BY <1>1, <1>2 DEF Connects
<1>4. conns[t] \in Seq(Connections) /\ conns'[t] \in Seq(Connections) BY DEF TypeOK
<1>5. DOMAIN conns'[t] = 1..1 BY <1>4, LenProperties
<1>6. Len(conns[t]) = 0
  <2>1. PICK n \in Nat : n = Len(conns[t]) BY <1>4, LenProperties
  <2>2. DOMAIN conns'[t] = 1..n + 1 BY <1>3, <2>1 DEF Grown
  <2>3. n + 1 \in 1..n + 1 BY <2>1
  <2>4. n + 1 \in 1..1 BY <1>5, <2>2, <2>3
  <2> QED BY <2>1, <2>4
<1>7. conns[t] = << >> BY <1>4, <1>6, EmptySeq
<1>8. i = Len(conns[t]) + 1 BY <1>1, <1>5, <1>6
<1>9. conns'[t][i].stream = << >> BY <1>3, <1>8 DEF Grown
<1>10. primary = s
  <2>1. primary' = s BY <1>1 DEF Links
  <2> QED BY <2>1 DEF Connects, names
<1>11. main[t] = "idle" /\ accepted[t] = << >> BY <1>3, <1>7, <1>10 DEF Untouched
<1>12. Executed(t)' = << >> \o << >>
  BY <1>11 DEF Connects, Rests, logs, Executed, InHand
<1>13. Done(s)' \in Seq(Writes)
  <2>1. accepted'[s] \in Seq(Writes) /\ Passed(s)' \in Seq(Writes)
    <3>1. accepted'[s] \in Seq(Writes) BY DEF TypeOK
    <3>2. << >> \in Seq(Writes) BY EmptySeq
    <3>3. CASE main'[s] = "enqueue"
      <4>1. PICK w \in Writes : w = request'[s].write BY <3>3 DEF Hands
      <4>2. << w >> \in Seq(Writes) OBVIOUS
      <4> QED BY <3>1, <3>3, <4>1, <4>2 DEF Passed, InHand
    <3>4. CASE main'[s] # "enqueue" BY <3>1, <3>2, <3>4 DEF Passed
    <3> QED BY <3>3, <3>4
  <2> QED BY <2>1, ConcatProperties DEF Done
<1>14. << >> \in Seq(Items) BY EmptySeq
<1> QED BY <1>9, <1>12, <1>13, <1>14, NothingToFollow

LEMMA FollowsStep ==
  ASSUME TypeOK, TypeOK', AtRest, AtRest', Links, Links', Hands, Hands', Untouched, Framed, Flow,
         KeepsUp, NEW s \in Servers, Acts(s)
  PROVE  KeepsUp'
<1> SUFFICES ASSUME NEW a \in Servers, NEW t \in Servers, NEW i \in DOMAIN conns'[t],
                    Feeds(a, t, i)', t # a, Len(conns'[t]) = 1
             PROVE  IsSuffix(Executed(t)' \o WritesOf(conns'[t][i].stream), Done(a)')
  BY DEF KeepsUp
<1>1. CASE Connects(s) /\ a = s BY <1>1, FollowsFromStart
<1>2. CASE ~(Connects(s) /\ a = s)
  <2>1. Feeds(a, t, i) /\ (a = s => ~Ends(s) /\ ~HangsUp(s)) /\ (t = s => ~Ends(s))
    BY <1>2, FedBefore
  <2>2. /\ conns[t][i].from = a /\ i \in DOMAIN conns[t] /\ Heard(a)
        /\ sock_primary[a].to = t /\ sock_primary[a].at = i /\ primary = a
    BY <2>1, FeederOf DEF Links
  <2>3. Len(conns[t]) = 1 /\ i = 1 /\ DOMAIN conns[t] = 1..1
    <3>1. Stand(t) BY <2>1, Stands
    <3>2. conns'[t] \in Seq(Connections) /\ conns[t] \in Seq(Connections) BY DEF TypeOK
    <3>3. DOMAIN conns'[t] = 1..1 /\ DOMAIN conns[t] = 1..Len(conns[t]) /\ Len(conns[t]) \in Nat
      BY <3>2, LenProperties
    <3>4. i \in 1..1 /\ i \in 1..Len(conns[t]) BY <2>2, <3>3
    <3>5. Len(conns[t]) \in 1..1
      <4>1. Len(conns[t]) \in DOMAIN conns[t] BY <3>3, <3>4
      <4> QED BY <3>1, <3>3, <4>1 DEF Stand
    <3>6. Len(conns[t]) = 1 BY <3>5
    <3>7. i = 1 BY <3>4
    <3> QED BY <3>3, <3>6, <3>7
  <2> DEFINE q == conns[t][i].stream  W == WritesOf(q)
  <2>4. IsSuffix(Executed(t) \o W, Done(a)) BY <2>1, <2>2, <2>3 DEF KeepsUp
  <2>5. q \in Seq(Items) /\ Alternate(q) BY <2>2, ConnsTypes, ConnOf DEF Framed
  <2>6. W \in Seq(Writes) BY <2>5, WritesOfIs
  <2>7. /\ Executed(t) \in Seq(Writes) /\ Done(a) \in Seq(Writes)
        /\ Executed(t) \o W \in Seq(Writes)
    BY <2>6, HandTypes, ConcatProperties
  <2> DEFINE fl == Forwarded(s, "length", Length, "message")
             fm == Forwarded(s, "message", request[s].write, "enqueue")
  <2>8. CASE a = s /\ fl
    <3>1. Sends(t, i, Length) BY <2>2, <2>8 DEF Forwarded
    <3>2. conns'[t][i].stream = Append(q, Length) BY <3>1 DEF Sends
    <3>3. q # << >> => q[Len(q)] # Length
      BY <2>1, <2>2, <2>8 DEF Flow, Forwarded, Does
    <3> HIDE DEF q
    <3>4. WritesOf(Append(q, Length)) = W BY <2>5, <3>3, LengthAdded
    <3>5. main[s] = "length" BY <2>8 DEF Forwarded, Does
    <3>6. Executed(t)' = Executed(t) BY <2>8, ExecutedStays
    <3>7. Done(a)' = Done(a)
      <4>1. ~fm BY <3>5 DEF Forwarded, Does
      <4> QED BY <2>1, <2>8, <4>1, DoneStays
    <3> QED BY <2>4, <3>2, <3>4, <3>6, <3>7
  <2>9. CASE a = s /\ fm
    <3>1. main[s] = "message" /\ main'[s] = "enqueue" /\ UNCHANGED <<request, accepted>>
      BY <2>9 DEF Forwarded, Does, logs, TypeOK
    <3>2. PICK w \in Writes : w = request[s].write BY <3>1 DEF Hands
    <3>3. Sends(t, i, w) BY <2>2, <2>9, <3>2 DEF Forwarded
    <3>4. conns'[t][i].stream = Append(q, w) BY <3>3 DEF Sends
    <3>5. q # << >> => q[Len(q)] = Length BY <2>1, <2>2, <2>9, <3>1 DEF Flow
    <3> HIDE DEF q
    <3>6. WritesOf(Append(q, w)) = Append(W, w) BY <2>5, <3>5, WriteAdded
    <3> HIDE DEF W
    <3>7. Executed(t)' = Executed(t) BY <2>9, ExecutedStays
    <3>8. Done(a)' = Append(Done(a), w)
      <4>1. accepted[s] \in Seq(Writes) BY DEF TypeOK
      <4>2. Done(s) = accepted[s] BY <3>1, <4>1, ConcatEmptySeq DEF Done, Passed
      <4>3. Done(s)' = accepted[s] \o << w >> BY <3>1, <3>2 DEF Done, Passed, InHand
      <4> QED BY <2>9, <4>1, <4>2, <4>3, AppendIsConcat
    <3>9. Executed(t) \o Append(W, w) = Append(Executed(t) \o W, w)
      <4>1. << w >> \in Seq(Writes) OBVIOUS
      <4>2. Append(W, w) = W \o << w >> BY <2>6, AppendIsConcat
      <4>3. Append(Executed(t) \o W, w) = (Executed(t) \o W) \o << w >> BY <2>7, AppendIsConcat
      <4>4. (Executed(t) \o W) \o << w >> = Executed(t) \o (W \o << w >>)
        BY <2>6, <2>7, <4>1, ConcatAssociative
      <4> QED BY <4>2, <4>3, <4>4
    <3>10. IsSuffix(Append(Executed(t) \o W, w), Append(Done(a), w)) BY <2>4, <2>7, SuffixAppended
    <3> QED BY <3>4, <3>6, <3>7, <3>8, <3>9, <3>10
  <2>10. CASE t = s /\ Measured(s, i)
    <3>1. conns'[t][i].stream = Tail(q) /\ q # << >> /\ q[1] = Length
      BY <2>10 DEF Measured, Taken
    <3> HIDE DEF q
    <3>2. WritesOf(Tail(q)) = W BY <2>5, <3>1, HeadTaken
    <3>3. main[s] = "idle" /\ main'[s] = "receive" BY <2>10 DEF Measured, Does, TypeOK
    <3>4. Executed(t)' = Executed(t) BY <2>10, <3>3 DEF Measured, logs, Executed, InHand
    <3>5. Done(a)' = Done(a) BY <2>10, DoneStays
    <3> QED BY <2>4, <3>1, <3>2, <3>4, <3>5
  <2>11. CASE t = s /\ Received(s)
    <3>1. main[s] = "receive" /\ main'[s] = "aux" /\ accepted' = accepted
      BY <2>11 DEF Received, Does, logs, TypeOK
    <3>2. request[s].from = i BY <2>3, <2>11 DEF Received, Taken, Changes
    <3>3. conns'[t][i].stream = Tail(q) /\ q # << >> /\ HasInput(s, i) /\ Expects(s, i)
      BY <2>11, <3>1, <3>2 DEF Received, Taken, HasInput, Expects
    <3>4. PICK w \in Writes : w = q[1] BY <2>2, <2>11, <3>3, HeadOf
    <3>5. request'[s].write = w
      <4>1. request' = [request EXCEPT ![s].write = w] BY <2>11, <3>2, <3>4 DEF Received
      <4>2. request \in [Servers -> [write : Writes \cup {0}, from : Nat]] BY DEF TypeOK
      <4> QED BY <4>1, <4>2
    <3> HIDE DEF q
    <3>6. W = << w >> \o WritesOf(Tail(q)) BY <2>5, <3>3, <3>4, HeadTaken
    <3>7. Tail(q) \in Seq(Items) /\ Alternate(Tail(q)) BY <2>5, <3>3, TailAlternates
    <3>8. PICK V \in Seq(Writes) : V = WritesOf(Tail(q)) BY <3>7, WritesOfIs
    <3> HIDE DEF W
    <3>9. accepted[s] \in Seq(Writes) BY DEF TypeOK
    <3>10. Executed(t) = accepted[s]
      BY <2>11, <3>1, <3>9, ConcatEmptySeq DEF Executed, InHand
    <3>11. Executed(t)' = accepted[s] \o << w >> BY <2>11, <3>1, <3>5 DEF Executed, InHand
    <3>12. (accepted[s] \o << w >>) \o V = accepted[s] \o (<< w >> \o V)
      BY <3>9, MovedOne
    <3>13. Done(a)' = Done(a) BY <2>11, DoneStays
    <3> QED BY <2>4, <3>3, <3>6, <3>8, <3>10, <3>11, <3>12, <3>13
  <2>12. CASE /\ ~(a = s /\ fl) /\ ~(a = s /\ fm)
              /\ ~(t = s /\ Measured(s, i)) /\ ~(t = s /\ Received(s))
    <3>1. t = s => ~Dropped(s, i)
      <4> SUFFICES ASSUME t = s, Dropped(s, i) PROVE FALSE OBVIOUS
      <4>1. ~conns'[t][i].heard BY DEF Dropped, Shut
      <4> QED BY <4>1 DEF Feeds
    <3>2. t = s => ~ReceiveFromClient(s)
      <4> SUFFICES ASSUME t = s, ReceiveFromClient(s) PROVE FALSE OBVIOUS
      <4>1. coming[s] # {} BY DEF ReceiveFromClient
      <4> QED BY <2>2, <4>1 DEF Hands
    <3>3. conns'[t][i].stream = q BY <2>1, <2>12, <3>1, StreamStays
    <3>4. Executed(t)' = Executed(t) BY <2>1, <2>12, <3>2, ExecutedStays
    <3>5. Done(a)' = Done(a) BY <2>1, <2>12, DoneStays
    <3> QED BY <2>4, <3>3, <3>4, <3>5
  <2> QED BY <2>8, <2>9, <2>10, <2>11, <2>12
<1> QED BY <1>1, <1>2

-----------------------------------------------------------------------------
(* The theorems. *)

LEMMA InitHolds == ASSUME Init PROVE IInv
<1> USE ReplicationAssumption DEF Init
<1>1. << >> \in Seq(Writes) /\ << >> \in Seq(Connections) /\ << >> \in Seq(Nat) BY EmptySeq
<1>2. TypeOK
  <2>1. Unset \in Sockets BY DEF Unset, Sockets
  <2>2. NoRequest \in [write : Writes \cup {0}, from : Nat] BY DEF NoRequest, Client
  <2> QED BY <1>1, <2>1, <2>2 DEF TypeOK
<1>3. Names /\ Untouched BY DEF Names, Untouched
<1>4. AtRest BY DEF AtRest, Rested
<1>5. Links BY DEF Links, Unset
<1>6. Hands BY DEF Hands
<1>7. Framed /\ Flow /\ KeepsUp BY DEF Framed, Flow, KeepsUp
<1>8. \A s \in Servers : /\ coming[s] = {} /\ Unread(s) = {} /\ Ahead(s) = {} /\ Held(s) = {}
                         /\ Logged(s) = {}
  BY DEF Unread, Ahead, Held, Logged
<1>9. \A s \in Servers : Has(s) = {} /\ ToForward(s) = {} BY <1>8 DEF Has, ToForward
<1>10. Issued /\ NotAhead BY <1>9 DEF Issued, NotAhead
<1>11. Once BY <1>8 DEF Once, Unrepeated, ExecutesOnce, Apart
<1> QED BY <1>2, <1>3, <1>4, <1>5, <1>6, <1>7, <1>10, <1>11 DEF IInv

LEMMA StepHolds ==
  ASSUME IInv, NEW s \in Servers,
         Start(s) \/ Expire(s) \/ Crash(s) \/ Issue(s) \/ Main(s) \/ Watcher(s)
  PROVE  IInv'
<1>0. /\ TypeOK /\ Names /\ AtRest /\ Links /\ Hands /\ Untouched /\ Framed /\ Flow
      /\ WritesInv /\ KeepsUp
  BY DEF IInv, WritesInv
<1>1. TypeOK' /\ Acts(s) BY <1>0, StepActs
<1>2. Names' /\ Links' BY <1>0, <1>1, NamesStep, LinksStep
<1>3. AtRest' /\ Hands' /\ Untouched' BY <1>0, <1>1, AtRestStep, HandsStep, UntouchedStep
<1>4. Framed' BY <1>0, <1>1, FramedStep
<1>5. Flow' BY <1>0, <1>1, <1>3, FlowStep
<1>6. WritesInv' BY <1>0, <1>1, <1>2, WritesStep
<1>7. KeepsUp' BY <1>0, <1>1, <1>2, <1>3, FollowsStep
<1> QED BY <1>1, <1>2, <1>3, <1>4, <1>5, <1>6, <1>7 DEF IInv, WritesInv

LEMMA StutterHolds == ASSUME IInv, UNCHANGED vars PROVE IInv'
<1>1. /\ UNCHANGED <<up, primary, backup, watch, told, watcher, main, request>>
      /\ UNCHANGED <<sock_primary, conns, last_assigned, accepted, given, coming, issued>>
  BY DEF vars, names, logs, clients
<1>2. TypeOK' BY <1>1 DEF IInv, TypeOK
<1>3. Names' /\ AtRest' /\ Links' /\ Hands' /\ Untouched'
  BY <1>1 DEF IInv, Names, AtRest, Rested, Links, Hands, Untouched
<1>4. Framed' /\ Flow' BY <1>1 DEF IInv, Framed, Alternate, Expects, Flow, Feeds
<1>5. KeepsUp'
  <2>1. \A u \in Servers : Executed(u)' = Executed(u) /\ Done(u)' = Done(u)
    BY <1>1 DEF Executed, Done, InHand, Passed
  <2> QED BY <1>1, <2>1 DEF IInv, KeepsUp, Feeds
<1>6. Issued' /\ NotAhead' /\ Once'
  BY <1>1 DEF IInv, Issued, NotAhead, Once, Unrepeated, ExecutesOnce, Apart, OwnFeeder,
              ToForward, Has, Unread, Ahead, Held, Logged
<1> QED BY <1>2, <1>3, <1>4, <1>5, <1>6 DEF IInv

\* The invariant of the replication: where the names, the links, the streams and the
\* writes on their way can be, whatever thread of whatever process moves next.
THEOREM Invariance == Spec => []IInv
<1>1. Init => IInv BY InitHolds
<1>2. IInv /\ [Next]_vars => IInv'
  <2> SUFFICES ASSUME IInv, [Next]_vars PROVE IInv' OBVIOUS
  <2>1. CASE Next BY <2>1, StepHolds DEF Next
  <2>2. CASE UNCHANGED vars BY <2>2, StutterHolds
  <2> QED BY <2>1, <2>2
<1> QED BY <1>1, <1>2, PTL DEF Spec

\* A backup that is fed through one connection has executed, holds or will read the last
\* writes of its primary, in its order and with none left out (invoke, invoke_aux and
\* conect_new against child_watcher and conecta), and every variable has its type.
THEOREM Consistency == Spec => []Consistent
<1>1. IInv => Consistent BY KeepingUp DEF IInv, Consistent
<1> QED BY <1>1, Invariance, PTL

\* Although a backup forwards what it is sent, no server that is not connected to itself
\* executes a write twice.
THEOREM WriteOnlyOnce == Spec => []WritesOnce
<1>1. IInv => WritesOnce
  <2> SUFFICES ASSUME IInv, NEW t \in Servers, up[t] = "up",
                      \A i \in DOMAIN conns[t] : conns[t][i].from # t
               PROVE  IsInjective(accepted[t] \o InHand(t))
    BY DEF WritesOnce
  <2>1. ~OwnFeeder(t) BY DEF OwnFeeder
  <2>2. /\ \A k, l \in DOMAIN accepted[t] : accepted[t][k] = accepted[t][l] => k = l
        /\ Logged(t) \cap Held(t) = {}
    BY <2>1 DEF IInv, Once, ExecutesOnce
  <2>3. TypeOK /\ Hands BY DEF IInv
  <2>4. accepted[t] \in Seq(Writes) /\ InHand(t) \in Seq(Writes) BY <2>3, HandTypes
  <2>5. DOMAIN accepted[t] = 1..Len(accepted[t]) /\ Len(accepted[t]) \in Nat BY <2>4, LenProperties
  <2>6. CASE main[t] \in {"aux", "length", "message", "enqueue"}
    <3>1. PICK w \in Writes : w = request[t].write BY <2>3, <2>6 DEF Hands
    <3>2. InHand(t) = << w >> /\ Held(t) = {w} BY <2>6, <3>1 DEF InHand, Held
    <3>3. \A k \in DOMAIN accepted[t] : accepted[t][k] # w BY <2>2, <3>2 DEF Logged
    <3>4. PICK a \in Seq(Writes) : a = Append(accepted[t], w) BY <2>4, AppendProperties
    <3>5. /\ Len(a) = Len(accepted[t]) + 1 /\ a[Len(accepted[t]) + 1] = w
          /\ \A k \in 1..Len(accepted[t]) : a[k] = accepted[t][k]
      BY <2>4, <3>4, AppendProperties
    <3>6. DOMAIN a = 1..Len(accepted[t]) + 1 BY <3>5, LenProperties
    <3>7. IsInjective(a)
      <4> SUFFICES ASSUME NEW k \in DOMAIN a, NEW l \in DOMAIN a, a[k] = a[l] PROVE k = l
        BY DEF IsInjective
      <4>1. /\ k \in DOMAIN accepted[t] \/ k = Len(accepted[t]) + 1
            /\ l \in DOMAIN accepted[t] \/ l = Len(accepted[t]) + 1
        BY <2>5, <3>6
      <4> QED BY <2>2, <2>5, <3>3, <3>5, <4>1
    <3>8. a = accepted[t] \o InHand(t) BY <2>4, <3>2, <3>4, AppendIsConcat
    <3> QED BY <3>7, <3>8
  <2>7. CASE main[t] \notin {"aux", "length", "message", "enqueue"}
    <3>1. accepted[t] \o InHand(t) = accepted[t] BY <2>4, <2>7, ConcatEmptySeq DEF InHand
    <3> QED BY <2>2, <3>1 DEF IsInjective
  <2> QED BY <2>6, <2>7
<1> QED BY <1>1, Invariance, PTL
=============================================================================

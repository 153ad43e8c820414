-------------------------- MODULE ClientStubProofs --------------------------
(***************************************************************************)
(* The safety of ClientStub for any number of servers, calls and           *)
(* descriptors: where the sockets lead, whose answers are taken, and that  *)
(* no client is left behind.                                               *)
(***************************************************************************)
EXTENDS ClientStub, SequenceTheorems, WellFoundedInduction, TLAPS

Conn(name) == Connection(rtree[name])

Busy == main \in {"exists primary", "length", "message", "read", "reading"}
Unsent == main \in {"exists primary", "length", "message"}

\* What the rest refers to is there.
Rooted ==
    /\ Len(commands) <= MaxCommands
    /\ main = "start" => /\ commands = << >> /\ conns = << >> /\ result = NoResult
                         /\ zk = "idle" /\ ~watch /\ events = 0 /\ flag_alteracao = 0
    /\ ~calm => commands = << >>
    /\ Busy => commands # << >>
    /\ main = "reading" => reading # 0
    /\ Running => endereco \in Servers
    /\ \A d, e \in Descriptors : fd[d] = fd[e] /\ fd[d] # 0 => d = e
    /\ \A name \in Names : znode[name] # Nobody => up[znode[name]] # "new"

\* The watch is set, or an event tells of the change that took it away.
Watched == Running => /\ watch \/ events > 0
                      /\ Children = {} => events > 0

-----------------------------------------------------------------------------
\* Who holds the names.
Only(name) == \A other \in Names : znode[other] = Nobody <=> other # name
Both == \A name \in Names : znode[name] # Nobody
Pair == Both /\ znode["primary"] # znode["backup"]
Same == Both /\ znode["primary"] = znode["backup"]
BackupDown == Only("backup") /\ up[znode["backup"]] = "down"

\* In a calm world without usurpers flag_alteracao counts the child events that the takeover
\* has yet to cause: one when the new primary holds both names, one when it drops the
\* backup's.  A usurper's events are counted instead, and the takeover's handled later.
OnEvent ==
    \/ Pair /\ flag_alteracao = 0
    \/ usurped /\ Pair /\ flag_alteracao = 2
    \/ Same /\ flag_alteracao = 2
    \/ usurped /\ Same /\ flag_alteracao = 0
    \/ Only("primary") /\ flag_alteracao \in {0, 1}
    \/ Only("backup") /\ flag_alteracao = 0
    \/ BackupDown /\ flag_alteracao = 1
    \/ usurped /\ Only("backup") /\ flag_alteracao = 1
    \/ Children = {}

AtRest ==
    \/ Pair /\ flag_alteracao = 0
    \/ usurped /\ Pair /\ flag_alteracao = 1
    \/ Same /\ flag_alteracao \in {0, 1}
    \/ Only("primary") /\ flag_alteracao = 0
    \/ Only("backup") /\ flag_alteracao = 2
    \/ BackupDown /\ flag_alteracao = 0
    \/ usurped /\ Only("backup") /\ flag_alteracao = 0

Connecting == zk \in {"read backup", "connect", "connecting"}
Joined == Pair \/ (usurped /\ Same)

Situation ==
    /\ events <= 1
    /\ events = 1 => zk = "idle" /\ OnEvent
    /\ events = 0 /\ zk \in {"idle", "rearm"} => AtRest
    /\ zk \notin {"idle", "rearm"} => flag_alteracao = 0
    /\ zk = "exists primary" => Only("primary") \/ Only("backup")
    /\ zk = "take over" => Only("backup")
    /\ zk = "close backup" => Only("primary")
    /\ Connecting => Joined

\* The backup's address is known, or about to be read.
ToBeRead == \/ Pair /\ events = 1 /\ flag_alteracao = 0
            \/ zk = "read backup"

Address == znode["backup"] # Nobody => endereco = znode["backup"] \/ ToBeRead

BackupFollows == Conn("backup") # 0 =>
    /\ zk = "connecting" => conns[Conn("backup")].to = Nobody
    /\ zk \notin {"connect", "connecting"} => conns[Conn("backup")].to = endereco

\* Before the first command every descriptor in rtree is open, and the two differ whenever
\* the backup's may be closed.
Fresh == Pair /\ (events = 1 \/ Connecting)

Apart ==
    \/ Only("primary") /\ events = 1 /\ flag_alteracao = 0
    \/ Only("primary") /\ zk \in {"exists primary", "close backup"}
    \/ Both /\ events = 0 /\ zk \in {"idle", "rearm"} /\ flag_alteracao = 0
    \/ zk = "connecting"

PrimaryFollows ==
    /\ \A name \in Names : rtree[name] # Minus1 => fd[rtree[name]] # 0
    /\ Fresh => up[znode["backup"]] = "up"
    /\ Conn("primary") # 0 =>
          /\ znode["primary"] # Nobody => conns[Conn("primary")].to = znode["primary"]
          /\ Only("backup") /\ flag_alteracao = 2 => conns[Conn("primary")].to = znode["backup"]
    /\ Apart => rtree["primary"] # rtree["backup"]

-----------------------------------------------------------------------------
\* What is on its way belongs to the commands so far, and is answered in their order.
InTurnAt(c) ==
    LET asked == conns[c].asked  replies == conns[c].replies IN
    /\ commands = << >> => asked = << >>
    /\ \A i \in DOMAIN asked :
          /\ asked[i] <= Len(commands)
          /\ Unsent => asked[i] < Len(commands)
          /\ \A j \in DOMAIN asked : j < i /\ asked[i] # Length => asked[j] < asked[i]
    /\ \A k \in DOMAIN replies :
          /\ replies[k].number \in 1..Len(commands)
          /\ replies[k].op = commands[replies[k].number]
          /\ Unsent => replies[k].number < Len(commands)
          /\ \A i \in DOMAIN asked : asked[i] # Length => replies[k].number < asked[i]

InTurn == \A c \in DOMAIN conns : InTurnAt(c)

\* Nothing is on a socket that is not connected yet.
Unopened == \A c \in DOMAIN conns :
    conns[c].to = Nobody => conns[c].asked = << >> /\ conns[c].replies = << >>

\* No server will answer on c.
Stuck(c) == LET asked == conns[c].asked IN
    \/ Gone(c)
    \/ asked # << >> /\ asked[1] # Length
    \/ Len(asked) >= 2 /\ asked[2] = Length

Still(c) == conns[c].replies = << >> /\ (conns[c].asked = << >> \/ Stuck(c))
Announced(c) == conns[c].replies = << >> /\ conns[c].asked = <<Length>>
Pending(c) ==
    \/ conns[c].replies = << >> /\ conns[c].asked = <<Length, Len(commands)>>
    \/ Len(conns[c].replies) = 1 /\ conns[c].replies[1].number = Len(commands)
       /\ conns[c].asked = << >>

\* The present backup's connection has nothing on it but what the present command has
\* written there.
InUse(c) ==
    /\ Busy /\ Conn(Side(Op)) = c
    /\ \/ main = "message" /\ Announced(c)
       \/ main = "read" /\ Pending(c)
       \/ main = "reading" /\ reading = c /\ Pending(c)

BackupOwn == Conn("backup") # 0 => Still(Conn("backup")) \/ InUse(Conn("backup"))

ReadingOwn == main = "reading" /\ Side(Op) = "backup" => Still(reading) \/ Pending(reading)

\* Until a call was misled, what is left on a primary's connection is of calls to a backup.
Now(c) == main = "read" \/ (main = "reading" /\ reading = c)
Harmless(n, c) == Side(commands[n]) = "backup" \/ (n = Len(commands) /\ Now(c))
Tame(c) ==
    /\ \A k \in DOMAIN conns[c].replies : Harmless(conns[c].replies[k].number, c)
    /\ Stuck(c) \/ \A i \in DOMAIN conns[c].asked :
                      conns[c].asked[i] # Length => Harmless(conns[c].asked[i], c)

PrimaryOwn == ~result.misled =>
    /\ Conn("primary") # 0 => Tame(Conn("primary"))
    /\ main = "reading" /\ Side(Op) = "primary" => Tame(reading)

Own == BackupOwn /\ ReadingOwn /\ PrimaryOwn

IInv ==
    /\ TypeOK /\ Rooted /\ Watched /\ InTurn /\ Unopened /\ AnswersAreOwn
    /\ Running => BackupFollows /\ Own
    /\ Running /\ calm => Situation /\ Address
    /\ Running /\ calm /\ commands = << >> /\ ~usurped => PrimaryFollows

-----------------------------------------------------------------------------
(* Types *)

ConnType == [to : Servers \cup {Nobody}, open : BOOLEAN, asked : Seq(0..MaxCommands), replies : Seq(Replies)]

Values == {"none", "ok", "failed", "data", "null", "wild", "size", "zero", "done", "not done"}

LEMMA LeastOf ==
    ASSUME NEW T \in SUBSET Nat, T # {}
    PROVE  Min(T) \in T
<1>1. PICK least \in T : \A n \in T : ~(<<n, least>> \in OpToRel(<, Nat))
    BY NatLessThanWellFounded, WFMin
<1>2. \A n \in T : ~(n < least)
    BY <1>1 DEF OpToRel
<1>3. \A n \in T : least <= n
    BY <1>2
<1> QED BY <1>3 DEF Min

LEMMA LowestIsFree ==
    ASSUME \E d \in Descriptors : fd[d] = 0
    PROVE  LowestFree \in Descriptors /\ fd[LowestFree] = 0
<1> DEFINE T == {d \in Descriptors : fd[d] = 0}
<1>1. T \in SUBSET Nat /\ T # {}
    BY ClientAssumption DEF Descriptors
<1>2. Min(T) \in T
    BY <1>1, LeastOf
<1> QED BY <1>2 DEF LowestFree

LEMMA FunIsSeq ==
    ASSUME NEW S, NEW n \in Nat, NEW f \in [1..n -> S]
    PROVE  f \in Seq(S) /\ Len(f) = n
OBVIOUS

LEMMA ConnOf ==
    ASSUME TypeOK
    PROVE  /\ conns \in Seq(ConnType) /\ Len(conns) \in Nat /\ DOMAIN conns = 1..Len(conns)
           /\ \A c \in DOMAIN conns :
                 /\ conns[c] \in ConnType
                 /\ conns[c].to \in Servers \cup {Nobody} /\ conns[c].open \in BOOLEAN
                 /\ conns[c].asked \in Seq(0..MaxCommands) /\ conns[c].replies \in Seq(Replies)
<1>1. conns \in Seq(ConnType)
    BY DEF TypeOK, ConnType
<1>2. Len(conns) \in Nat /\ DOMAIN conns = 1..Len(conns)
    BY <1>1
<1>3. \A c \in DOMAIN conns : conns[c] \in ConnType
    BY <1>1, <1>2, ElementOfSeq
<1> QED BY <1>1, <1>2, <1>3 DEF ConnType

LEMMA AskedOf ==
    ASSUME TypeOK, NEW c \in DOMAIN conns
    PROVE  /\ DOMAIN conns[c].asked = 1..Len(conns[c].asked) /\ Len(conns[c].asked) \in Nat
           /\ \A i \in DOMAIN conns[c].asked : conns[c].asked[i] \in 0..MaxCommands
           /\ DOMAIN conns[c].replies = 1..Len(conns[c].replies) /\ Len(conns[c].replies) \in Nat
           /\ \A k \in DOMAIN conns[c].replies : conns[c].replies[k] \in Replies
<1> DEFINE Numbers == 0..MaxCommands
<1> HIDE DEF Numbers
<1>1. PICK asked \in Seq(Numbers), replies \in Seq(Replies) :
         asked = conns[c].asked /\ replies = conns[c].replies
    BY ConnOf DEF Numbers
<1>2. /\ DOMAIN asked = 1..Len(asked) /\ Len(asked) \in Nat
      /\ \A i \in DOMAIN asked : asked[i] \in Numbers
    BY ElementOfSeq
<1>3. /\ DOMAIN replies = 1..Len(replies) /\ Len(replies) \in Nat
      /\ \A k \in DOMAIN replies : replies[k] \in Replies
    BY ElementOfSeq
<1> QED BY <1>1, <1>2, <1>3 DEF Numbers

LEMMA ConnRange ==
    ASSUME TypeOK, NEW name \in Names
    PROVE  /\ Conn(name) \in 0..Len(conns)
           /\ Conn(name) # 0 => /\ Conn(name) \in DOMAIN conns
                                /\ rtree[name] \in Descriptors /\ fd[rtree[name]] = Conn(name)
<1>1. Len(conns) \in Nat /\ DOMAIN conns = 1..Len(conns)
    BY ConnOf
<1>2. rtree[name] \in {Minus1} \cup Descriptors /\ \A d \in Descriptors : fd[d] \in 0..Len(conns)
    BY DEF TypeOK
<1> QED BY <1>1, <1>2 DEF Conn, Connection, Minus1

LEMMA OpOf ==
    ASSUME TypeOK, commands # << >>
    PROVE  /\ Len(commands) \in Nat \ {0} /\ Op = commands[Len(commands)]
           /\ Op \in Ops /\ Side(Op) \in Names
<1>1. Len(commands) \in Nat \ {0} /\ commands \in Seq(Ops)
    <2>1. PICK s \in Seq(Ops) : s = commands
        BY DEF TypeOK
    <2>2. s # << >> => Len(s) \in Nat \ {0}
        OBVIOUS
    <2> QED BY <2>1, <2>2
<1>2. Op = commands[Len(commands)]
    BY DEF Op, Last
<1>3. commands[Len(commands)] \in Ops
    BY <1>1, ElementOfSeq
<1> QED BY <1>1, <1>2, <1>3 DEF Side, Names

LEMMA CommandsOf ==
    ASSUME TypeOK
    PROVE  /\ commands \in Seq(Ops) /\ Len(commands) \in Nat
           /\ \A n \in 1..Len(commands) : commands[n] \in Ops
<1>1. PICK s \in Seq(Ops) : s = commands
    BY DEF TypeOK
<1>2. Len(s) \in Nat /\ \A n \in 1..Len(s) : s[n] \in Ops
    BY ElementOfSeq
<1> QED BY <1>1, <1>2

LEMMA ValueOf ==
    ASSUME NEW op \in Ops, NEW reply \in Replies
    PROVE  Value(op, reply) \in Values
<1>1. op \in {"put", "del", "get", "size", "keys", "verify"}
    BY ClientAssumption
<1> QED
    BY <1>1 DEF Value, PutValue, DelValue, GetValue, KeysValue, SizeValue, VerifyValue, Values

LEMMA EmptyTyped == Empty \in Replies
BY ClientAssumption DEF Empty, Replies

\* One connection is replaced.
LEMMA OneReplaced ==
    ASSUME TypeOK, NEW c \in DOMAIN conns, NEW new \in ConnType
    PROVE  LET q == [conns EXCEPT ![c] = new]
           IN  /\ q \in Seq(ConnType) /\ Len(q) = Len(conns) /\ DOMAIN q = DOMAIN conns
               /\ q[c] = new /\ \A b \in DOMAIN conns : b # c => q[b] = conns[b]
<1>1. PICK old \in Seq(ConnType) : old = conns
    BY ConnOf
<1>2. c \in 1..Len(old)
    BY <1>1
<1>3. /\ [old EXCEPT ![c] = new] \in Seq(ConnType)
      /\ Len([old EXCEPT ![c] = new]) = Len(old)
    BY <1>2, ExceptSeq
<1> QED BY <1>1, <1>3

\* Asked and answered.
LEMMA AnswersOne ==
    ASSUME TypeOK, Rooted, NEW c \in DOMAIN conns, Answers(c)
    PROVE  /\ ~Gone(c) /\ Len(conns[c].asked) >= 2
           /\ conns[c].asked[1] = Length /\ conns[c].asked[2] # Length
           /\ conns[c].asked[2] \in 0..MaxCommands
           /\ \E yes \in BOOLEAN : conns' = [conns EXCEPT ![c] = [conns[c] EXCEPT
                 !.asked = SubSeq(conns[c].asked, 3, Len(conns[c].asked)),
                 !.replies = Append(conns[c].replies,
                    [op |-> commands[conns[c].asked[2]], number |-> conns[c].asked[2], yes |-> yes])]]
<1>1. conns \in Seq(ConnType) /\ conns[c] \in ConnType /\ DOMAIN conns = 1..Len(conns)
    BY ConnOf
<1>2. /\ ~Gone(c) /\ Len(conns[c].asked) >= 2
      /\ conns[c].asked[1] = Length /\ conns[c].asked[2] # Length
    BY DEF Answers
<1>3. conns[c].asked[2] \in 0..MaxCommands
    BY <1>2, AskedOf
<1>4. PICK yes \in BOOLEAN : conns' = [conns EXCEPT ![c].asked = SubSeq(@, 3, Len(@)),
              ![c].replies = Append(@, [op |-> commands[conns[c].asked[2]],
                                        number |-> conns[c].asked[2], yes |-> yes])]
    BY DEF Answers
<1>5. conns' = [conns EXCEPT ![c] = [conns[c] EXCEPT
                 !.asked = SubSeq(conns[c].asked, 3, Len(conns[c].asked)),
                 !.replies = Append(conns[c].replies,
                    [op |-> commands[conns[c].asked[2]], number |-> conns[c].asked[2], yes |-> yes])]]
    BY <1>1, <1>4 DEF ConnType
<1> QED BY <1>2, <1>3, <1>5

\* What each step does to the connections.
LEMMA AnswersChange ==
    ASSUME TypeOK, Rooted, InTurn, NEW c \in DOMAIN conns, Answers(c)
    PROVE  \E n \in 1..Len(commands), reply \in Replies :
              /\ ~Gone(c) /\ Len(conns[c].asked) >= 2 /\ conns[c].asked[1] = Length
              /\ conns[c].asked[2] = n /\ reply.number = n /\ reply.op = commands[n]
              /\ conns' \in Seq(ConnType) /\ Len(conns') = Len(conns)
              /\ DOMAIN conns' = DOMAIN conns
              /\ conns'[c].to = conns[c].to /\ conns'[c].open = conns[c].open
              /\ conns'[c].asked = SubSeq(conns[c].asked, 3, Len(conns[c].asked))
              /\ conns'[c].replies = Append(conns[c].replies, reply)
              /\ \A b \in DOMAIN conns : b # c => conns'[b] = conns[b]
<1>1. /\ conns[c] \in ConnType
      /\ conns[c].asked \in Seq(0..MaxCommands) /\ conns[c].replies \in Seq(Replies)
    BY ConnOf
<1>2. PICK yes \in BOOLEAN : conns' = [conns EXCEPT ![c] = [conns[c] EXCEPT
                 !.asked = SubSeq(conns[c].asked, 3, Len(conns[c].asked)),
                 !.replies = Append(conns[c].replies,
                    [op |-> commands[conns[c].asked[2]], number |-> conns[c].asked[2], yes |-> yes])]]
    BY AnswersOne
<1>3. /\ ~Gone(c) /\ Len(conns[c].asked) >= 2
      /\ conns[c].asked[1] = Length /\ conns[c].asked[2] # Length
      /\ conns[c].asked[2] \in 0..MaxCommands
    BY AnswersOne
<1> DEFINE n == conns[c].asked[2]
           reply == [op |-> commands[n], number |-> n, yes |-> yes]
           new == [conns[c] EXCEPT
                 !.asked = SubSeq(conns[c].asked, 3, Len(conns[c].asked)),
                 !.replies = Append(conns[c].replies, reply)]
<1>4. Len(commands) \in Nat /\ \A i \in 1..Len(commands) : commands[i] \in Ops
    <2>1. PICK s \in Seq(Ops) : s = commands
        BY DEF TypeOK
    <2>2. Len(s) \in Nat /\ \A i \in 1..Len(s) : s[i] \in Ops
        BY ElementOfSeq
    <2> QED BY <2>1, <2>2
<1>5. n \in 1..Len(commands)
    <2>1. 2 \in DOMAIN conns[c].asked
        BY <1>3, AskedOf
    <2>2. n <= Len(commands)
        BY <2>1 DEF InTurn, InTurnAt
    <2> QED BY <2>2, <1>3, <1>4, ClientAssumption DEF Length
<1>6. reply \in Replies
    BY <1>3, <1>4, <1>5 DEF Replies
<1>7. /\ SubSeq(conns[c].asked, 3, Len(conns[c].asked)) \in Seq(0..MaxCommands)
      /\ Append(conns[c].replies, reply) \in Seq(Replies)
    <2> DEFINE Numbers == 0..MaxCommands
    <2> HIDE DEF Numbers, reply
    <2>1. PICK asked \in Seq(Numbers), replies \in Seq(Replies) :
             asked = conns[c].asked /\ replies = conns[c].replies
        BY <1>1 DEF Numbers
    <2>2. Append(replies, reply) \in Seq(Replies)
        BY <1>6, AppendProperties
    <2>3. SubSeq(asked, 3, Len(asked)) \in Seq(Numbers)
        <3>1. Len(asked) \in Nat /\ \A i \in 3..Len(asked) : asked[i] \in Numbers
            BY ElementOfSeq
        <3> QED BY <3>1, SubSeqProperties
    <2> QED BY <2>1, <2>2, <2>3 DEF Numbers
<1>8. new \in ConnType
    BY <1>1, <1>7 DEF ConnType
<1>9. /\ new.to = conns[c].to /\ new.open = conns[c].open
      /\ new.asked = SubSeq(conns[c].asked, 3, Len(conns[c].asked))
      /\ new.replies = Append(conns[c].replies, reply)
    BY <1>1 DEF ConnType
<1>10. reply.number = n /\ reply.op = commands[n]
    OBVIOUS
<1>11. conns' = [conns EXCEPT ![c] = new]
    BY <1>2
<1> HIDE DEF new, reply
<1>12. LET q == [conns EXCEPT ![c] = new]
       IN  /\ q \in Seq(ConnType) /\ Len(q) = Len(conns) /\ DOMAIN q = DOMAIN conns
           /\ q[c] = new /\ \A b \in DOMAIN conns : b # c => q[b] = conns[b]
    BY <1>8, OneReplaced
<1>13. /\ conns' \in Seq(ConnType) /\ Len(conns') = Len(conns) /\ DOMAIN conns' = DOMAIN conns
       /\ conns'[c] = new /\ \A b \in DOMAIN conns : b # c => conns'[b] = conns[b]
    BY <1>11, <1>12
<1> QED BY <1>3, <1>5, <1>6, <1>9, <1>10, <1>13

LEMMA BreaksChange ==
    ASSUME TypeOK, NEW c \in DOMAIN conns, Breaks(c)
    PROVE  /\ conns' \in Seq(ConnType) /\ Len(conns') = Len(conns) /\ DOMAIN conns' = DOMAIN conns
           /\ \A b \in DOMAIN conns :
                 /\ conns'[b].to = conns[b].to /\ conns'[b].open \in {conns[b].open, FALSE}
                 /\ conns'[b].asked = conns[b].asked /\ conns'[b].replies = conns[b].replies
           /\ ~Gone(c)
           /\ up' = up \/ up' = [up EXCEPT ![conns[c].to] = "down"]
           /\ conns[c].asked # << >>
<1>1. conns[c] \in ConnType /\ conns \in Seq(ConnType)
    BY ConnOf
<1>2. conns[c].asked # << >> /\ ~Gone(c)
    <2>1. PICK asked \in Seq(0..MaxCommands) : asked = conns[c].asked
        BY ConnOf
    <2>2. Len(asked) >= 2 => asked # << >>
        OBVIOUS
    <2> QED BY <2>1, <2>2 DEF Breaks
<1>3. CASE conns' = [conns EXCEPT ![c].open = FALSE] /\ UNCHANGED up
    <2> DEFINE new == [conns[c] EXCEPT !.open = FALSE]
    <2>1. new \in ConnType
        BY <1>1 DEF ConnType
    <2>2. /\ new.to = conns[c].to /\ new.open = FALSE
          /\ new.asked = conns[c].asked /\ new.replies = conns[c].replies
        BY <1>1 DEF ConnType
    <2>3. conns' = [conns EXCEPT ![c] = new]
        BY <1>3
    <2> HIDE DEF new
    <2>4. LET q == [conns EXCEPT ![c] = new]
          IN  /\ q \in Seq(ConnType) /\ Len(q) = Len(conns) /\ DOMAIN q = DOMAIN conns
              /\ q[c] = new /\ \A b \in DOMAIN conns : b # c => q[b] = conns[b]
        BY <2>1, OneReplaced
    <2> QED BY <1>2, <1>3, <2>2, <2>3, <2>4
<1>4. CASE up' = [up EXCEPT ![conns[c].to] = "down"] /\ UNCHANGED conns
    BY <1>1, <1>2, <1>4
<1> QED BY <1>3, <1>4 DEF Breaks

\* A write that reaches the connection.
Sends(item) ==
    LET c == Conn(Side(Op)) IN
    /\ c # 0 /\ conns[c].to # Nobody
    /\ conns' = [conns EXCEPT ![c].asked = Append(@, item)]
    /\ UNCHANGED <<reading, result, fd, rtree>>

LEMMA SendsChange ==
    ASSUME TypeOK, commands # << >>, NEW item \in 0..MaxCommands, Sends(item)
    PROVE  LET c == Conn(Side(Op))
           IN  /\ c \in DOMAIN conns
               /\ conns' \in Seq(ConnType) /\ Len(conns') = Len(conns) /\ DOMAIN conns' = DOMAIN conns
               /\ conns'[c].to = conns[c].to /\ conns'[c].open = conns[c].open
               /\ conns'[c].asked = Append(conns[c].asked, item)
               /\ conns'[c].replies = conns[c].replies
               /\ \A b \in DOMAIN conns : b # c => conns'[b] = conns[b]
<1>1. PICK c : c = Conn(Side(Op)) /\ c \in DOMAIN conns
    BY OpOf, ConnRange DEF Sends
<1>2. conns[c] \in ConnType /\ conns[c].asked \in Seq(0..MaxCommands)
    BY <1>1, ConnOf
<1> DEFINE new == [conns[c] EXCEPT !.asked = Append(conns[c].asked, item)]
<1>3. Append(conns[c].asked, item) \in Seq(0..MaxCommands)
    BY <1>2, AppendProperties
<1>4. new \in ConnType
    BY <1>2, <1>3 DEF ConnType
<1>5. /\ new.to = conns[c].to /\ new.open = conns[c].open
      /\ new.asked = Append(conns[c].asked, item) /\ new.replies = conns[c].replies
    BY <1>2 DEF ConnType
<1>6. conns' = [conns EXCEPT ![c] = new]
    BY <1>1 DEF Sends
<1> HIDE DEF new
<1>7. LET q == [conns EXCEPT ![c] = new]
      IN  /\ q \in Seq(ConnType) /\ Len(q) = Len(conns) /\ DOMAIN q = DOMAIN conns
          /\ q[c] = new /\ \A b \in DOMAIN conns : b # c => q[b] = conns[b]
    BY <1>1, <1>4, OneReplaced
<1> QED BY <1>1, <1>5, <1>6, <1>7

LEMMA ReceivedChange ==
    ASSUME TypeOK, NEW c \in DOMAIN conns, Received(c)
    PROVE  /\ conns' \in Seq(ConnType) /\ Len(conns') = Len(conns) /\ DOMAIN conns' = DOMAIN conns
           /\ conns'[c].to = conns[c].to /\ conns'[c].open = conns[c].open
           /\ conns'[c].asked = conns[c].asked /\ conns'[c].replies = << >>
           /\ \A b \in DOMAIN conns : b # c => conns'[b] = conns[b]
<1>1. conns[c] \in ConnType
    BY ConnOf
<1> DEFINE new == [conns[c] EXCEPT !.replies = << >>]
<1>2. << >> \in Seq(Replies)
    OBVIOUS
<1>3. new \in ConnType
    BY <1>1, <1>2 DEF ConnType
<1>4. /\ new.to = conns[c].to /\ new.open = conns[c].open
      /\ new.asked = conns[c].asked /\ new.replies = << >>
    BY <1>1 DEF ConnType
<1>5. conns' = [conns EXCEPT ![c] = new]
    BY DEF Received
<1> HIDE DEF new
<1>6. LET q == [conns EXCEPT ![c] = new]
      IN  /\ q \in Seq(ConnType) /\ Len(q) = Len(conns) /\ DOMAIN q = DOMAIN conns
          /\ q[c] = new /\ \A b \in DOMAIN conns : b # c => q[b] = conns[b]
    BY <1>3, OneReplaced
<1> QED BY <1>4, <1>5, <1>6

LEMMA NewIsTyped ==
    ASSUME NEW s \in Servers \cup {Nobody}
    PROVE  /\ NewConnection(s) \in ConnType /\ NewConnection(s).to = s /\ NewConnection(s).open
           /\ NewConnection(s).asked = << >> /\ NewConnection(s).replies = << >>
<1>1. << >> \in Seq(0..MaxCommands) /\ << >> \in Seq(Replies)
    OBVIOUS
<1> QED BY <1>1 DEF NewConnection, ConnType

\* A connection is opened.
LEMMA OpensChange ==
    ASSUME TypeOK, NEW s \in Servers \cup {Nobody}, conns' = Append(conns, NewConnection(s))
    PROVE  /\ conns' \in Seq(ConnType) /\ Len(conns') = Len(conns) + 1
           /\ DOMAIN conns' = DOMAIN conns \cup {Len(conns) + 1}
           /\ conns'[Len(conns) + 1] = NewConnection(s)
           /\ \A c \in DOMAIN conns : conns'[c] = conns[c]
<1>1. PICK old \in Seq(ConnType), new \in ConnType : old = conns /\ new = NewConnection(s)
    BY ConnOf, NewIsTyped
<1>2. /\ Append(old, new) \in Seq(ConnType) /\ Len(Append(old, new)) = Len(old) + 1
      /\ \A i \in 1..Len(old) : Append(old, new)[i] = old[i]
      /\ Append(old, new)[Len(old) + 1] = new
    BY AppendProperties
<1>3. Len(old) \in Nat /\ DOMAIN old = 1..Len(old)
      /\ DOMAIN Append(old, new) = 1..Len(old) + 1
    BY <1>2
<1> QED BY <1>1, <1>2, <1>3

LEMMA StartChange ==
    ASSUME TypeOK, Rooted, main = "start", Children = Names, NetworkConnect
    PROVE  /\ conns' = <<NewConnection(znode["primary"]), NewConnection(znode["backup"])>>
           /\ conns' \in Seq(ConnType) /\ Len(conns') = 2 /\ DOMAIN conns' = {1, 2}
           /\ \A name \in Names : znode[name] \in Servers
           /\ fd' \in [Descriptors -> 0..Len(conns')]
           /\ fd'[1] = 1 /\ fd'[2] = 2 /\ 1 \in Descriptors /\ 2 \in Descriptors
           /\ \A d \in Descriptors \ {1, 2} : fd'[d] = 0
           /\ rtree' \in [Names -> Descriptors] /\ rtree'["primary"] = 1 /\ rtree'["backup"] = 2
           /\ DOMAIN conns = {}
<1>1. \A name \in Names : znode[name] \in Servers
    BY DEF Children, TypeOK
<1>2. 1 \in Descriptors /\ 2 \in Descriptors
    BY ClientAssumption DEF Descriptors
<1>3. conns = << >> /\ Len(conns) = 0 /\ DOMAIN conns = {}
    BY DEF Rooted
<1>4. PICK p \in ConnType, b \in ConnType :
         p = NewConnection(znode["primary"]) /\ b = NewConnection(znode["backup"])
    BY <1>1, NewIsTyped DEF Names
<1>5. conns' = <<p, b>>
    BY <1>4 DEF NetworkConnect
<1>6. <<p, b>> \in Seq(ConnType) /\ Len(<<p, b>>) = 2 /\ DOMAIN <<p, b>> = {1, 2}
    <2>1. <<p, b>> \in Seq(ConnType) /\ Len(<<p, b>>) = 2
        OBVIOUS
    <2> QED BY <2>1
<1>7. fd \in [Descriptors -> 0..0]
    BY <1>3 DEF TypeOK
<1>8. /\ fd' \in [Descriptors -> 0..2] /\ fd'[1] = 1 /\ fd'[2] = 2
      /\ \A d \in Descriptors \ {1, 2} : fd'[d] = 0
    BY <1>2, <1>7 DEF NetworkConnect
<1>9. rtree' \in [Names -> Descriptors] /\ rtree'["primary"] = 1 /\ rtree'["backup"] = 2
    BY <1>2 DEF NetworkConnect, Names
<1> QED BY <1>1, <1>2, <1>3, <1>4, <1>5, <1>6, <1>8, <1>9

LEMMA ReturnsChange ==
    ASSUME TypeOK, NEW value \in Values, NEW reply \in Replies, Returns(value, reply)
    PROVE  /\ main' = "idle" /\ reading' = 0
           /\ result'.value = value /\ result'.reply = reply
           /\ result'.misled <=>
                 result.misled \/ (value = "failed" /\ reply.number \notin {0, Len(commands)})
           /\ result' \in [value : Values, reply : Replies, misled : BOOLEAN]
<1> DEFINE m == \/ result.misled
                \/ value = "failed" /\ reply.number \notin {0, Len(commands)}
<1>1. m \in BOOLEAN
    BY DEF TypeOK
<1> HIDE DEF m
<1>2. result' = [value |-> value, reply |-> reply, misled |-> m] /\ main' = "idle" /\ reading' = 0
    BY DEF Returns, m
<1>3. /\ result'.value = value /\ result'.reply = reply /\ result'.misled = m
      /\ result' \in [value : Values, reply : Replies, misled : BOOLEAN]
    BY <1>1, <1>2
<1> QED BY <1>2, <1>3 DEF m

\* Closing descriptors.
Shut == /\ fd' \in [Descriptors -> 0..Len(conns)]
        /\ \A d \in Descriptors : fd'[d] \in {0, fd[d]}
        /\ rtree' \in [Names -> {Minus1} \cup Descriptors]
        /\ \A name \in Names : rtree'[name] \in {Minus1, rtree[name]}

LEMMA ShutConn ==
    ASSUME TypeOK, Shut, NEW name \in Names
    PROVE  Conn(name)' \in {0, Conn(name)}
<1>1. rtree[name] \in {Minus1} \cup Descriptors /\ rtree'[name] \in {Minus1, rtree[name]}
    BY DEF TypeOK, Shut
<1>2. \A d \in Descriptors : fd'[d] \in {0, fd[d]}
    BY DEF Shut
<1> QED BY <1>1, <1>2 DEF Conn, Connection

LEMMA NetworkCloseChange ==
    ASSUME TypeOK, Rooted, NEW open \in [Descriptors -> 0..Len(conns)],
           \A d \in Descriptors : open[d] \in {0, fd[d]},
           NetworkClose(open)
    PROVE  /\ Shut /\ Conn("primary")' = 0
           /\ Conn("backup") = Conn("primary") => Conn("backup")' = 0
<1> DEFINE p == rtree["primary"]  b == rtree["backup"]
<1>1. /\ p \in {Minus1} \cup Descriptors /\ b \in {Minus1} \cup Descriptors
      /\ rtree \in [Names -> {Minus1} \cup Descriptors]
    BY DEF TypeOK, Names
<1>2. Minus1 \notin Descriptors
    BY DEF Minus1, Descriptors
<1>3. \A d \in Descriptors : open[d] \in 0..Len(conns)
    OBVIOUS
<1>4. 0 \in 0..Len(conns)
    BY ConnOf
<1>5. Conn("primary") = (IF p = Minus1 THEN 0 ELSE fd[p])
      /\ Conn("backup") = (IF b = Minus1 THEN 0 ELSE fd[b])
      /\ Conn("primary")' = (IF rtree'["primary"] = Minus1 THEN 0 ELSE fd'[rtree'["primary"]])
      /\ Conn("backup")' = (IF rtree'["backup"] = Minus1 THEN 0 ELSE fd'[rtree'["backup"]])
    BY DEF Conn, Connection
<1>6. \A d, e \in Descriptors : fd[d] = fd[e] /\ fd[d] # 0 => d = e
    BY DEF Rooted
<1>7. CASE p = Minus1 \/ open[p] = 0
    <2>1. fd' = open /\ rtree' = rtree
        BY <1>7 DEF NetworkClose
    <2>2. Shut
        BY <1>1, <2>1 DEF Shut
    <2>3. Conn("primary")' = 0
        BY <1>5, <1>7, <2>1
    <2>4. Conn("backup") = Conn("primary") => Conn("backup")' = 0
        BY <1>1, <1>5, <1>6, <1>7, <2>1
    <2> QED BY <2>2, <2>3, <2>4
<1>8. CASE ~(p = Minus1 \/ open[p] = 0) /\ (b \in {Minus1, p} \/ open[b] = 0)
    <2>1. fd' = [open EXCEPT ![p] = 0] /\ rtree' = rtree
        BY <1>8 DEF NetworkClose
    <2>2. Shut
        BY <1>1, <1>3, <1>4, <2>1 DEF Shut
    <2>3. Conn("primary")' = 0 /\ Conn("backup")' = 0
        BY <1>1, <1>2, <1>5, <1>8, <2>1
    <2> QED BY <2>2, <2>3
<1>9. CASE ~(p = Minus1 \/ open[p] = 0) /\ ~(b \in {Minus1, p} \/ open[b] = 0)
    <2>1. fd' = [open EXCEPT ![p] = 0, ![b] = 0] /\ rtree' = [name \in Names |-> Minus1]
        BY <1>9 DEF NetworkClose
    <2>2. Shut
        BY <1>1, <1>3, <1>4, <2>1 DEF Shut
    <2>3. Conn("primary")' = 0 /\ Conn("backup")' = 0
        BY <1>5, <2>1 DEF Names
    <2> QED BY <2>2, <2>3
<1> QED BY <1>7, <1>8, <1>9

\* A call that fails without an answer: it ends the process, or closes the sockets.
LEMMA NullChange ==
    ASSUME TypeOK, Rooted, NEW open \in [Descriptors -> 0..Len(conns)],
           \A d \in Descriptors : open[d] \in {0, fd[d]},
           Null(open)
    PROVE  /\ Shut /\ reading' = 0
           /\ result' \in [value : Values, reply : Replies, misled : BOOLEAN]
           /\ \/ main' = "exited"
              \/ /\ Op = "put" /\ main' = "idle"
                 /\ result'.value = "failed" /\ result'.reply = Empty
                 /\ result'.misled <=> result.misled
                 /\ Conn("primary")' = 0
                 /\ Conn("backup") = Conn("primary") => Conn("backup")' = 0
<1>1. CASE Op = "put"
    <2>1. Returns("failed", Empty) /\ NetworkClose(open)
        BY <1>1 DEF Null
    <2>2. /\ main' = "idle" /\ reading' = 0
          /\ result'.value = "failed" /\ result'.reply = Empty
          /\ result'.misled <=> result.misled \/ Empty.number \notin {0, Len(commands)}
          /\ result' \in [value : Values, reply : Replies, misled : BOOLEAN]
        BY <2>1, ReturnsChange, EmptyTyped DEF Values
    <2>3. Empty.number = 0
        BY DEF Empty
    <2>4. /\ Shut /\ Conn("primary")' = 0
          /\ Conn("backup") = Conn("primary") => Conn("backup")' = 0
        BY <2>1, NetworkCloseChange
    <2> QED BY <1>1, <2>2, <2>3, <2>4
<1>2. CASE Op # "put"
    <2>1. Exits /\ fd' = open /\ UNCHANGED <<rtree, result>>
        BY <1>2 DEF Null
    <2> QED BY <2>1 DEF Exits, Shut, TypeOK, Values
<1> QED BY <1>1, <1>2

\* The same for a write and a read: what is open but for the descriptor of the call.
LEMMA OneShut ==
    ASSUME TypeOK, NEW d \in Descriptors \cup {Minus1}
    PROVE  LET open == IF Connection(d) = 0 THEN fd ELSE [fd EXCEPT ![d] = 0]
           IN  /\ open \in [Descriptors -> 0..Len(conns)]
               /\ \A e \in Descriptors : open[e] \in {0, fd[e]}
<1>1. fd \in [Descriptors -> 0..Len(conns)]
    BY DEF TypeOK
<1>2. 0 \in 0..Len(conns)
    BY ConnOf
<1> QED BY <1>1, <1>2

LEMMA CloseChange ==
    ASSUME TypeOK, CloseBackup
    PROVE  /\ Shut /\ zk = "close backup" /\ zk' = "rearm" /\ Conn("backup")' = 0
           /\ \A d \in Descriptors : d # rtree["backup"] => fd'[d] = fd[d]
           /\ rtree'["primary"] = rtree["primary"]
<1>1. /\ rtree \in [Names -> {Minus1} \cup Descriptors] /\ rtree["backup"] \in {Minus1} \cup Descriptors
      /\ fd \in [Descriptors -> 0..Len(conns)]
    BY DEF TypeOK, Names
<1>5. 0 \in 0..Len(conns)
    BY ConnOf
<1>2. /\ fd' = (IF rtree["backup"] = Minus1 THEN fd ELSE [fd EXCEPT ![rtree["backup"]] = 0])
      /\ rtree' = [rtree EXCEPT !["backup"] = Minus1]
      /\ zk = "close backup" /\ zk' = "rearm"
    BY DEF CloseBackup, Calls, Close
<1>3. Shut
    BY <1>1, <1>2, <1>5 DEF Shut, Names
<1>4. rtree'["backup"] = Minus1 /\ rtree'["primary"] = rtree["primary"]
    BY <1>1, <1>2 DEF Names
<1> QED BY <1>1, <1>2, <1>3, <1>4 DEF Conn, Connection

\* A write, in its two outcomes.
LEMMA WriteChange ==
    ASSUME TypeOK, Rooted, NEW from \in {"length", "message"}, NEW item, NEW to,
           Write(from, item, to)
    PROVE  /\ main = from /\ commands # << >> /\ UNCHANGED <<servers, zkthread, commands>>
           /\ \/ main' = to /\ Sends(item)
              \/ /\ UNCHANGED conns
                 /\ Shut /\ reading' = 0
                 /\ result' \in [value : Values, reply : Replies, misled : BOOLEAN]
                 /\ \/ main' = "exited"
                    \/ /\ Op = "put" /\ main' = "idle"
                       /\ result'.value = "failed" /\ result'.reply = Empty
                       /\ result'.misled <=> result.misled
                       /\ Conn("primary")' = 0
                       /\ Conn("backup") = Conn("primary") => Conn("backup")' = 0
<1>1. main = from /\ commands # << >> /\ UNCHANGED <<servers, zkthread, commands>>
    BY DEF Write, Rooted, Busy
<1>2. CASE main' = to /\ Sends(item)
    BY <1>1, <1>2
<1> DEFINE d == rtree[Side(Op)]
           open == IF Connection(d) = 0 THEN fd ELSE [fd EXCEPT ![d] = 0]
<1>3. CASE Null(open) /\ UNCHANGED conns
    <2>1. d \in Descriptors \cup {Minus1}
        BY <1>1, OpOf DEF TypeOK
    <2>2. /\ open \in [Descriptors -> 0..Len(conns)]
          /\ \A e \in Descriptors : open[e] \in {0, fd[e]}
        BY <2>1, OneShut
    <2> HIDE DEF open
    <2> QED BY <1>1, <1>3, <2>2, NullChange
<1> QED BY <1>2, <1>3 DEF Write, Sends, Conn

-----------------------------------------------------------------------------
(* Types and what is rooted in them *)

\* The servers' steps that change names or end a process.
Outside == \/ \E s \in Servers : Joins(s) \/ Dies(s) \/ TakesOver(s) \/ DropsBackup(s)
           \/ \E name \in Names : Expires(name)

LEMMA OutsideChange ==
    ASSUME TypeOK, Outside
    PROVE  /\ UNCHANGED <<calm, sockets, zkthread, mainthread>>
           /\ up' \in [Servers -> {"new", "up", "down"}]
           /\ znode' \in [Names -> Servers \cup {Nobody}]
           /\ events' \in {events, events + 1} /\ watch' \in {watch, FALSE}
           /\ \A s \in Servers : /\ up[s] = "down" => up'[s] = "down"
                                 /\ up[s] # "new" => up'[s] # "new"
           /\ \A name \in Names : znode'[name] \in {znode[name], Nobody} \/ up'[znode'[name]] # "new"
           /\ usurped' \in BOOLEAN /\ (usurped => usurped')
<1>1. /\ up \in [Servers -> {"new", "up", "down"}] /\ znode \in [Names -> Servers \cup {Nobody}]
      /\ "primary" \in Names /\ "backup" \in Names
    BY DEF TypeOK, Names
<1>2. ASSUME NEW name \in Names, NEW owner \in Servers \cup {Nobody}, Changes(name, owner)
      PROVE  /\ UNCHANGED <<calm, sockets, zkthread, mainthread>>
             /\ znode' = [znode EXCEPT ![name] = owner]
             /\ znode' \in [Names -> Servers \cup {Nobody}]
             /\ events' \in {events, events + 1} /\ watch' \in {watch, FALSE}
             /\ usurped' \in BOOLEAN /\ (usurped => usurped')
    BY <1>1, <1>2 DEF Changes, Usurps
<1>3. ASSUME NEW s \in Servers, Joins(s) PROVE
             /\ \E name \in Names : Changes(name, s)
             /\ up' = [up EXCEPT ![s] = "up"] /\ up[s] = "new"
    BY <1>1, <1>3 DEF Joins
<1>4. ASSUME NEW s \in Servers, TakesOver(s) PROVE Changes("primary", s) /\ up' = up /\ up[s] = "up"
    BY <1>4 DEF TakesOver
<1>5. ASSUME NEW s \in Servers, DropsBackup(s) PROVE Changes("backup", Nobody) /\ up' = up
    BY <1>5 DEF DropsBackup
<1>6. ASSUME NEW name \in Names, Expires(name) PROVE Changes(name, Nobody) /\ up' = up
    BY <1>6 DEF Expires
<1>7. CASE \E s \in Servers : Joins(s)
    <2>1. PICK s \in Servers, name \in Names :
             Changes(name, s) /\ up' = [up EXCEPT ![s] = "up"] /\ up[s] = "new"
        BY <1>3, <1>7
    <2>2. /\ UNCHANGED <<calm, sockets, zkthread, mainthread>>
          /\ znode' = [znode EXCEPT ![name] = s] /\ znode' \in [Names -> Servers \cup {Nobody}]
          /\ events' \in {events, events + 1} /\ watch' \in {watch, FALSE}
          /\ usurped' \in BOOLEAN /\ (usurped => usurped')
        BY <1>2, <2>1
    <2> QED BY <1>1, <2>1, <2>2
<1>8. CASE \E s \in Servers : TakesOver(s)
    <2>1. PICK s \in Servers : Changes("primary", s) /\ up' = up /\ up[s] = "up"
        BY <1>4, <1>8
    <2>2. /\ UNCHANGED <<calm, sockets, zkthread, mainthread>>
          /\ znode' = [znode EXCEPT !["primary"] = s] /\ znode' \in [Names -> Servers \cup {Nobody}]
          /\ events' \in {events, events + 1} /\ watch' \in {watch, FALSE}
          /\ usurped' \in BOOLEAN /\ (usurped => usurped')
        BY <1>1, <1>2, <2>1
    <2> QED BY <1>1, <2>1, <2>2
<1>9. CASE (\E s \in Servers : DropsBackup(s)) \/ (\E name \in Names : Expires(name))
    <2>1. PICK name \in Names : Changes(name, Nobody) /\ up' = up
        BY <1>1, <1>5, <1>6, <1>9
    <2>2. /\ UNCHANGED <<calm, sockets, zkthread, mainthread>>
          /\ znode' = [znode EXCEPT ![name] = Nobody] /\ znode' \in [Names -> Servers \cup {Nobody}]
          /\ events' \in {events, events + 1} /\ watch' \in {watch, FALSE}
          /\ usurped' \in BOOLEAN /\ (usurped => usurped')
        BY <1>2, <2>1
    <2> QED BY <1>1, <2>1, <2>2
<1>10. CASE \E s \in Servers : Dies(s)
    <2>1. usurped \in BOOLEAN
        BY DEF TypeOK
    <2> QED BY <1>1, <1>10, <2>1 DEF Dies
<1> QED BY <1>7, <1>8, <1>9, <1>10 DEF Outside

LEMMA AnsweringChange ==
    ASSUME TypeOK, Rooted, InTurn, \E c \in DOMAIN conns : Answers(c) \/ Breaks(c)
    PROVE  /\ UNCHANGED <<calm, usurped, znode, watch, events, fd, rtree, zkthread, mainthread>>
           /\ up' \in [Servers -> {"new", "up", "down"}]
           /\ \A s \in Servers : /\ up[s] = "down" => up'[s] = "down"
                                 /\ up[s] # "new" => up'[s] # "new"
           /\ conns' \in Seq(ConnType) /\ Len(conns') = Len(conns) /\ DOMAIN conns' = DOMAIN conns
           /\ \A c \in DOMAIN conns : conns'[c].to = conns[c].to
<1>1. PICK c \in DOMAIN conns : Answers(c) \/ Breaks(c)
    OBVIOUS
<1>2. UNCHANGED <<calm, usurped, znode, watch, events, fd, rtree, zkthread, mainthread>>
    BY <1>1 DEF Answers, Breaks, servers
<1>3. up \in [Servers -> {"new", "up", "down"}] /\ (~Gone(c) => conns[c].to \in Servers)
    BY ConnOf DEF TypeOK, Gone
<1>4. CASE Answers(c)
    <2>1. up' = up
        BY <1>4 DEF Answers, servers
    <2>2. /\ conns' \in Seq(ConnType) /\ Len(conns') = Len(conns) /\ DOMAIN conns' = DOMAIN conns
          /\ conns'[c].to = conns[c].to
          /\ \A b \in DOMAIN conns : b # c => conns'[b] = conns[b]
        BY <1>4, AnswersChange
    <2> QED BY <1>2, <1>3, <2>1, <2>2
<1>5. CASE Breaks(c)
    <2>1. /\ up' = up \/ up' = [up EXCEPT ![conns[c].to] = "down"]
          /\ conns' \in Seq(ConnType) /\ Len(conns') = Len(conns) /\ DOMAIN conns' = DOMAIN conns
          /\ \A b \in DOMAIN conns : conns'[b].to = conns[b].to
        BY <1>5, BreaksChange
    <2> QED BY <1>2, <1>3, <2>1
<1> QED BY <1>1, <1>4, <1>5

LEMMA OutsideTypes == ASSUME TypeOK, Outside PROVE TypeOK'
<1>1. /\ UNCHANGED <<calm, sockets, zkthread, mainthread>>
      /\ up' \in [Servers -> {"new", "up", "down"}]
      /\ znode' \in [Names -> Servers \cup {Nobody}]
      /\ events' \in {events, events + 1} /\ watch' \in {watch, FALSE} /\ usurped' \in BOOLEAN
    BY OutsideChange
<1>2. events' \in Nat
    <2>1. events \in Nat
        BY DEF TypeOK
    <2>2. events' \in {events, events + 1}
        BY <1>1
    <2> QED BY <2>1, <2>2
<1>3. watch' \in BOOLEAN
    BY <1>1 DEF TypeOK
<1> QED BY <1>1, <1>2, <1>3 DEF TypeOK, sockets, zkthread, mainthread

LEMMA AnsweringTypes ==
    ASSUME TypeOK, Rooted, InTurn, \E c \in DOMAIN conns : Answers(c) \/ Breaks(c)
    PROVE  TypeOK'
<1>1. /\ UNCHANGED <<calm, usurped, znode, watch, events, fd, rtree, zkthread, mainthread>>
      /\ up' \in [Servers -> {"new", "up", "down"}]
      /\ conns' \in Seq(ConnType) /\ Len(conns') = Len(conns)
    BY AnsweringChange
<1>2. UNCHANGED <<endereco, flag_alteracao, zk, main, reading, commands, result>>
    BY <1>1 DEF zkthread, mainthread
<1>3. /\ calm' \in Worlds /\ usurped' \in BOOLEAN
      /\ znode' \in [Names -> Servers \cup {Nobody}] /\ watch' \in BOOLEAN
    BY <1>1 DEF TypeOK
<1>4. events' \in Nat /\ flag_alteracao' \in 0..2
    BY <1>1, <1>2 DEF TypeOK
<1>5. fd' \in [Descriptors -> 0..Len(conns')] /\ reading' \in 0..Len(conns')
    BY <1>1, <1>2 DEF TypeOK
<1>6. /\ rtree' \in [Names -> {Minus1} \cup Descriptors] /\ endereco' \in Servers \cup {Nobody}
      /\ commands' \in Seq(Ops)
    BY <1>1, <1>2 DEF TypeOK
<1> QED BY <1>1, <1>2, <1>3, <1>4, <1>5, <1>6, Zenon DEF TypeOK, ConnType

LEMMA ConnectTypes == ASSUME TypeOK, Rooted, RtreeConnect PROVE TypeOK'
<1>1. main = "start" /\ UNCHANGED <<calm, usurped, up, znode, events, flag_alteracao, zk, commands, result>>
    BY DEF RtreeConnect
<1>2. CASE Children = Names /\ NetworkConnect /\ watch' = TRUE /\ endereco' = znode["backup"]
           /\ main' = "idle" /\ UNCHANGED reading
    <2>1. /\ conns' \in Seq(ConnType) /\ Len(conns') = 2
          /\ fd' \in [Descriptors -> 0..Len(conns')] /\ rtree' \in [Names -> Descriptors]
          /\ \A name \in Names : znode[name] \in Servers
        BY <1>1, <1>2, StartChange
    <2>2. reading' \in 0..2
        <3>1. Len(conns) = 0
            BY <1>1 DEF Rooted
        <3>2. reading \in 0..Len(conns)
            BY DEF TypeOK
        <3> QED BY <1>2, <3>1, <3>2
    <2>3. endereco' \in Servers \cup {Nobody}
        BY <1>2, <2>1 DEF Names
    <2>4. rtree' \in [Names -> {Minus1} \cup Descriptors]
        BY <2>1
    <2> QED BY <1>1, <1>2, <2>1, <2>2, <2>3, <2>4 DEF TypeOK, ConnType
<1>3. CASE Exits /\ UNCHANGED <<watch, sockets, endereco>>
    <2>1. 0 \in 0..Len(conns)
        BY ConnOf
    <2> QED BY <1>1, <1>3, <2>1 DEF TypeOK, Exits, sockets
<1> QED BY <1>2, <1>3 DEF RtreeConnect

LEMMA RefusedTypes ==
    ASSUME TypeOK, NEW op, Refused(op)
    PROVE  /\ main' \in {"idle", "exited"} /\ reading' = 0
           /\ result' \in [value : Values, reply : Replies, misled : BOOLEAN]
           /\ main' = "idle" => /\ result'.reply = Empty
                                /\ result'.misled <=> result.misled
                                /\ result'.value \in {"failed", "not done"}
<1>1. CASE op = "get"
    BY <1>1, EmptyTyped DEF Refused, Exits, TypeOK, Values
<1>2. CASE op # "get"
    <2>1. PICK value \in {"failed", "not done"} : Returns(value, Empty)
        BY <1>2 DEF Refused
    <2>2. value \in Values /\ Empty.number = 0
        BY DEF Values, Empty
    <2> QED BY <2>1, <2>2, ReturnsChange, EmptyTyped
<1> QED BY <1>1, <1>2

LEMMA CommandChange ==
    ASSUME TypeOK, Rooted, NEW op \in Ops, Command(op)
    PROVE  /\ commands' = Append(commands, op) /\ commands' \in Seq(Ops)
           /\ Len(commands') = Len(commands) + 1 /\ Len(commands') <= MaxCommands
           /\ commands'[Len(commands) + 1] = op
           /\ \A n \in 1..Len(commands) : commands'[n] = commands[n]
           /\ main = "idle" /\ calm /\ UNCHANGED <<servers, sockets, zkthread>>
           /\ Op' = op
<1>1. /\ commands' = Append(commands, op) /\ Len(commands) < MaxCommands
      /\ main = "idle" /\ calm /\ UNCHANGED <<servers, sockets, zkthread>>
    BY DEF Command
<1>2. PICK old \in Seq(Ops) : old = commands
    BY DEF TypeOK
<1>3. /\ Append(old, op) \in Seq(Ops) /\ Len(Append(old, op)) = Len(old) + 1
      /\ \A n \in 1..Len(old) : Append(old, op)[n] = old[n]
      /\ Append(old, op)[Len(old) + 1] = op
    BY AppendProperties
<1>4. Len(old) \in Nat /\ MaxCommands \in Nat
    BY ClientAssumption
<1> QED BY <1>1, <1>2, <1>3, <1>4 DEF Op, Last

LEMMA ReadChange ==
    ASSUME TypeOK, Rooted, Read
    PROVE  /\ main = "read" /\ commands # << >> /\ UNCHANGED <<servers, conns, zkthread, commands>>
           /\ \/ /\ main' = "reading" /\ reading' = Conn(Side(Op)) /\ reading' # 0
                 /\ UNCHANGED <<result, fd, rtree>>
              \/ /\ Conn(Side(Op)) = 0 \/ conns[Conn(Side(Op))].to = Nobody
                 /\ Null(fd)
<1>1. main = "read" /\ commands # << >> /\ UNCHANGED <<servers, conns, zkthread, commands>>
    BY DEF Read, Rooted, Busy
<1> QED BY <1>1 DEF Read, Conn

\* An answer is taken, no bytes are, or the call fails.
LEMMA ReadingChange ==
    ASSUME TypeOK, Rooted, Reading
    PROVE  /\ main = "reading" /\ commands # << >> /\ reading \in DOMAIN conns
           /\ UNCHANGED <<servers, zkthread, commands>>
           /\ \/ /\ conns[reading].replies # << >> /\ Received(reading) /\ UNCHANGED <<fd, rtree>>
                 /\ Len(conns[reading].replies) \in DOMAIN conns[reading].replies
                 /\ Last(conns[reading].replies) = conns[reading].replies[Len(conns[reading].replies)]
                 /\ Last(conns[reading].replies) \in Replies
              \/ /\ Gone(reading) /\ conns[reading].replies = << >> /\ Returns(Value(Op, Empty), Empty)
                 /\ UNCHANGED <<conns, fd, rtree>>
              \/ Gone(reading) /\ Null(fd) /\ UNCHANGED conns
<1>1. main = "reading" /\ commands # << >> /\ UNCHANGED <<servers, zkthread, commands>>
    BY DEF Reading, Rooted, Busy
<1>2. reading \in DOMAIN conns
    <2>1. reading # 0 /\ reading \in 0..Len(conns)
        BY <1>1 DEF Rooted, TypeOK
    <2> QED BY <2>1, ConnOf
<1>3. ASSUME conns[reading].replies # << >>
      PROVE  /\ Len(conns[reading].replies) \in DOMAIN conns[reading].replies
             /\ Last(conns[reading].replies) = conns[reading].replies[Len(conns[reading].replies)]
             /\ Last(conns[reading].replies) \in Replies
    <2>1. PICK q \in Seq(Replies) : q = conns[reading].replies
        BY <1>2, ConnOf
    <2>2. Len(q) \in DOMAIN q
        BY <1>3, <2>1
    <2>3. q[Len(q)] \in Replies
        BY <2>2, ElementOfSeq
    <2> QED BY <2>1, <2>2, <2>3 DEF Last
<1> QED BY <1>1, <1>2, <1>3 DEF Reading

LEMMA MainTypes == ASSUME TypeOK, Rooted, Main PROVE TypeOK'
<1>1. CASE RtreeConnect
    BY <1>1, ConnectTypes
<1>2. ASSUME NEW op \in Ops, Command(op) PROVE TypeOK'
    <2>1. commands' \in Seq(Ops) /\ UNCHANGED <<servers, sockets, zkthread>>
        BY <1>2, CommandChange
    <2>2. CASE main' = "exists primary" /\ UNCHANGED <<reading, result>>
        BY <2>1, <2>2 DEF TypeOK, servers, sockets, zkthread
    <2>3. CASE Refused(op)
        <3>1. /\ main' \in {"idle", "exited"} /\ reading' = 0
              /\ result' \in [value : Values, reply : Replies, misled : BOOLEAN]
            BY <2>3, RefusedTypes
        <3>2. 0 \in 0..Len(conns)
            BY ConnOf
        <3> QED BY <2>1, <3>1, <3>2 DEF TypeOK, servers, sockets, zkthread, Values
    <2> QED BY <1>2, <2>2, <2>3 DEF Command
<1>3. CASE ExistsPrimary
    <2>1. UNCHANGED <<servers, sockets, zkthread, commands>>
        BY <1>3 DEF ExistsPrimary
    <2>2. CASE main' = "length" /\ UNCHANGED <<reading, result>>
        BY <2>1, <2>2 DEF TypeOK, servers, sockets, zkthread
    <2>3. CASE Refused(Op)
        <3>1. /\ main' \in {"idle", "exited"} /\ reading' = 0
              /\ result' \in [value : Values, reply : Replies, misled : BOOLEAN]
            BY <2>3, RefusedTypes
        <3>2. 0 \in 0..Len(conns)
            BY ConnOf
        <3> QED BY <2>1, <3>1, <3>2 DEF TypeOK, servers, sockets, zkthread, Values
    <2> QED BY <1>3, <2>2, <2>3 DEF ExistsPrimary
<1>4. ASSUME UNCHANGED <<servers, conns, zkthread, commands>>, Shut, reading' = 0,
             main' \in {"idle", "exited"},
             result' \in [value : Values, reply : Replies, misled : BOOLEAN]
      PROVE  TypeOK'
    <2>1. 0 \in 0..Len(conns)
        BY ConnOf
    <2>2. fd' \in [Descriptors -> 0..Len(conns')] /\ rtree' \in [Names -> {Minus1} \cup Descriptors]
          /\ reading' \in 0..Len(conns')
        BY <1>4, <2>1 DEF Shut
    <2> QED BY <1>4, <2>2 DEF TypeOK, servers, zkthread, Values
<1>5. CASE SendLength \/ SendMessage
    <2>1. PICK from \in {"length", "message"}, item \in 0..MaxCommands, to \in {"message", "read"} :
             Write(from, item, to)
        <3>1. Len(commands) \in 0..MaxCommands /\ Length \in 0..MaxCommands
            <4>1. commands \in Seq(Ops) /\ Len(commands) <= MaxCommands
                BY DEF TypeOK, Rooted
            <4>2. Len(commands) \in Nat
                BY <4>1
            <4> QED BY <4>1, <4>2, ClientAssumption DEF Length
        <3> QED BY <1>5, <3>1 DEF SendLength, SendMessage
    <2>2. commands # << >> /\ UNCHANGED <<servers, zkthread, commands>>
        BY <2>1, WriteChange
    <2>3. CASE main' = to /\ Sends(item)
        <3>1. conns' \in Seq(ConnType) /\ Len(conns') = Len(conns)
            BY <2>2, <2>3, SendsChange
        <3>2. UNCHANGED <<reading, result, fd, rtree>>
            BY <2>3 DEF Sends
        <3> QED BY <2>2, <2>3, <3>1, <3>2 DEF TypeOK, ConnType, servers, zkthread
    <2>4. CASE ~(main' = to /\ Sends(item))
        <3>1. /\ UNCHANGED conns /\ Shut /\ reading' = 0 /\ main' \in {"idle", "exited"}
              /\ result' \in [value : Values, reply : Replies, misled : BOOLEAN]
            BY <2>1, <2>4, WriteChange
        <3> QED BY <1>4, <2>2, <3>1
    <2> QED BY <2>3, <2>4
<1>6. ASSUME Null(fd) PROVE Shut /\ reading' = 0 /\ main' \in {"idle", "exited"}
                            /\ result' \in [value : Values, reply : Replies, misled : BOOLEAN]
    <2>1. fd \in [Descriptors -> 0..Len(conns)] /\ \A d \in Descriptors : fd[d] \in {0, fd[d]}
        BY DEF TypeOK
    <2> QED BY <1>6, <2>1, NullChange
<1>7. CASE Read
    <2>1. UNCHANGED <<servers, conns, zkthread, commands>>
        BY <1>7, ReadChange
    <2>2. CASE main' = "reading" /\ reading' = Conn(Side(Op)) /\ UNCHANGED <<result, fd, rtree>>
        <3>1. reading' \in 0..Len(conns)
            BY <1>7, <2>2, ReadChange, OpOf, ConnRange
        <3> QED BY <2>1, <2>2, <3>1 DEF TypeOK, servers, zkthread
    <2>3. CASE Null(fd)
        BY <1>4, <1>6, <2>1, <2>3
    <2> QED BY <1>7, <2>2, <2>3, ReadChange
<1>8. CASE Reading
    <2>1. /\ main = "reading" /\ commands # << >> /\ reading \in DOMAIN conns
          /\ UNCHANGED <<servers, zkthread, commands>>
        BY <1>8, ReadingChange
    <2>2. Op \in Ops
        BY <2>1, OpOf
    <2>3. ASSUME NEW reply \in Replies, Returns(Value(Op, reply), reply)
          PROVE  /\ main' = "idle" /\ reading' = 0
                 /\ result' \in [value : Values, reply : Replies, misled : BOOLEAN]
        BY <2>2, <2>3, ValueOf, ReturnsChange
    <2>4. CASE Received(reading) /\ UNCHANGED <<fd, rtree>> /\ Last(conns[reading].replies) \in Replies
        <3>1. conns' \in Seq(ConnType) /\ Len(conns') = Len(conns)
            BY <2>1, <2>4, ReceivedChange
        <3>2. /\ main' = "idle" /\ reading' = 0
              /\ result' \in [value : Values, reply : Replies, misled : BOOLEAN]
            BY <2>3, <2>4 DEF Received
        <3>3. 0 \in 0..Len(conns)
            BY ConnOf
        <3> QED BY <2>1, <2>4, <3>1, <3>2, <3>3 DEF TypeOK, ConnType, servers, zkthread, Values
    <2>5. CASE Returns(Value(Op, Empty), Empty) /\ UNCHANGED <<conns, fd, rtree>>
        <3>1. /\ main' = "idle" /\ reading' = 0
              /\ result' \in [value : Values, reply : Replies, misled : BOOLEAN]
            BY <2>3, <2>5, EmptyTyped
        <3>2. 0 \in 0..Len(conns)
            BY ConnOf
        <3> QED BY <2>1, <2>5, <3>1, <3>2 DEF TypeOK, servers, zkthread, Values
    <2>6. CASE Null(fd) /\ UNCHANGED conns
        BY <1>4, <1>6, <2>1, <2>6
    <2> QED BY <1>8, <2>4, <2>5, <2>6, ReadingChange
<1>9. CASE Quit
    <2>1. 0 \in 0..Len(conns)
        BY ConnOf
    <2> QED BY <1>9, <2>1 DEF Quit, Exits, TypeOK, servers, sockets, zkthread
<1> QED BY <1>1, <1>2, <1>3, <1>5, <1>7, <1>8, <1>9 DEF Main

\* What the watcher does when it ends the process, and what it does otherwise.
LEMMA DeadTypes ==
    ASSUME TypeOK, Dead, UNCHANGED <<calm, usurped, up, znode>>, watch' \in BOOLEAN, events' \in Nat
    PROVE  TypeOK' /\ main' = "exited"
<1>1. 0 \in 0..Len(conns)
    BY ConnOf
<1> QED BY <1>1 DEF Dead, Exits, TypeOK, sockets

\* The two ends of a call of connect.
Linked == /\ Conn("backup") # 0 /\ up[endereco] = "up"
          /\ conns' = [conns EXCEPT ![Conn("backup")].to = endereco] /\ UNCHANGED <<fd, rtree>>
Unlinked == /\ Conn("backup") # 0 => up[endereco] # "up"
            /\ Close(rtree["backup"]) /\ UNCHANGED <<conns, rtree>>

\* The watcher's steps that do not end the process.
Handles ==
    \/ zk = "idle" /\ events > 0 /\ events' = events - 1 /\ watch' = TRUE /\ Children # {}
       /\ UNCHANGED <<calm, usurped, up, znode, sockets, endereco, mainthread>>
       /\ \/ Skips /\ flag_alteracao' = flag_alteracao - 1 /\ zk' = "rearm"
          \/ ~Skips /\ zk' = (IF Children = Names THEN "read backup" ELSE "exists primary")
             /\ UNCHANGED flag_alteracao
    \/ PrimaryGone
    \/ zk = "take over" /\ znode["backup"] # Nobody /\ flag_alteracao' = 2 /\ zk' = "rearm"
       /\ rtree' = [rtree EXCEPT !["primary"] = rtree["backup"]]
       /\ UNCHANGED <<servers, conns, fd, endereco, mainthread>>
    \/ CloseBackup
    \/ zk = "read backup" /\ zk' = "connect" /\ endereco' = Found
       /\ UNCHANGED <<servers, sockets, flag_alteracao, mainthread>>
    \/ Socket
    \/ zk = "connecting" /\ zk' = "rearm" /\ (Linked \/ Unlinked)
       /\ UNCHANGED <<servers, rtree, endereco, flag_alteracao, mainthread>>
    \/ Rearm

LEMMA WatcherChange ==
    ASSUME TypeOK, Watcher
    PROVE  /\ Running /\ UNCHANGED <<calm, usurped, up, znode>>
           /\ \/ Handles /\ UNCHANGED mainthread
              \/ Dead /\ watch' \in BOOLEAN /\ events' \in Nat
<1>1. watch \in BOOLEAN /\ events \in Nat
    BY DEF TypeOK
<1>2. CASE ChildEvent
    <2>1. /\ Running /\ zk = "idle" /\ events > 0 /\ events' = events - 1 /\ watch' = TRUE
          /\ UNCHANGED <<calm, usurped, up, znode>>
        BY <1>1, <1>2 DEF ChildEvent, WatchesAt
    <2>2. events' \in Nat /\ watch' \in BOOLEAN
        BY <1>1, <2>1
    <2> QED BY <1>2, <2>1, <2>2 DEF ChildEvent, Handles, Rests
<1>3. CASE PrimaryGone
    BY <1>3 DEF PrimaryGone, Calls, Handles, Rests, servers
<1>4. CASE TakeOver
    BY <1>1, <1>4 DEF TakeOver, Handles, Rests, servers
<1>5. CASE CloseBackup
    BY <1>5 DEF CloseBackup, Calls, Handles, Rests, servers
<1>6. CASE ReadBackup
    BY <1>1, <1>6 DEF ReadBackup, Calls, Handles, Rests, servers
<1>7. CASE Connect
    <2>1. Running /\ UNCHANGED servers
        BY <1>7 DEF Connect, Calls
    <2>2. CASE Dead
        BY <1>1, <2>1, <2>2 DEF servers
    <2>3. CASE ~Dead
        <3>1. /\ zk = "connecting" /\ zk' = "rearm" /\ (Linked \/ Unlinked)
              /\ UNCHANGED <<servers, rtree, endereco, flag_alteracao, mainthread>>
            BY <1>7, <2>3 DEF Connect, Calls, Rests, Conn, Linked, Unlinked
        <3> QED BY <2>1, <3>1 DEF Handles, servers
    <2> QED BY <2>2, <2>3
<1>8. CASE Rearm
    BY <1>8 DEF Rearm, Calls, Handles, Rests
<1>9. CASE Socket
    BY <1>9 DEF Socket, Calls, Handles, Rests, servers
<1> QED BY <1>2, <1>3, <1>4, <1>5, <1>6, <1>7, <1>8, <1>9 DEF Watcher

\* The backup's socket is made.
LEMMA SocketChange ==
    ASSUME TypeOK, Rooted, Socket
    PROVE  /\ conns' \in Seq(ConnType) /\ Len(conns') = Len(conns) + 1
           /\ DOMAIN conns' = DOMAIN conns \cup {Len(conns) + 1}
           /\ \A c \in DOMAIN conns : conns'[c] = conns[c]
           /\ conns'[Len(conns) + 1] = NewConnection(Nobody)
           /\ fd' \in [Descriptors -> 0..Len(conns')] /\ fd'[LowestFree] = Len(conns) + 1
           /\ rtree' \in [Names -> {Minus1} \cup Descriptors]
           /\ rtree'["backup"] = LowestFree /\ rtree'["primary"] = rtree["primary"]
           /\ LowestFree \in Descriptors /\ fd[LowestFree] = 0
           /\ \A d \in Descriptors : d # LowestFree => fd'[d] = fd[d]
           /\ Conn("backup")' = Len(conns) + 1
           /\ Conn("primary")' \in {Conn("primary"), Conn("backup")'}
           /\ rtree["primary"] # LowestFree => Conn("primary")' = Conn("primary")
           /\ Running /\ zk = "connect" /\ zk' = "connecting"
           /\ UNCHANGED <<servers, endereco, flag_alteracao, mainthread>>
<1>0. /\ \E d \in Descriptors : fd[d] = 0
      /\ Running /\ zk = "connect" /\ zk' = "connecting"
      /\ UNCHANGED <<servers, endereco, flag_alteracao, mainthread>>
    BY DEF Socket, Calls, Rests
<1>1. LowestFree \in Descriptors /\ fd[LowestFree] = 0
    BY <1>0, LowestIsFree
<1>2. /\ rtree \in [Names -> {Minus1} \cup Descriptors] /\ fd \in [Descriptors -> 0..Len(conns)]
      /\ Len(conns) \in Nat
    BY ConnOf DEF TypeOK
<1>3. /\ rtree' \in [Names -> {Minus1} \cup Descriptors]
      /\ rtree'["backup"] = LowestFree /\ rtree'["primary"] = rtree["primary"]
    BY <1>1, <1>2 DEF Names, Socket
<1>4. Minus1 \notin Descriptors
    BY DEF Minus1, Descriptors
<1>5. /\ conns' = Append(conns, NewConnection(Nobody))
      /\ fd' = [fd EXCEPT ![LowestFree] = Len(conns) + 1]
    BY DEF Socket
<1>6. /\ conns' \in Seq(ConnType) /\ Len(conns') = Len(conns) + 1
      /\ DOMAIN conns' = DOMAIN conns \cup {Len(conns) + 1}
      /\ conns'[Len(conns) + 1] = NewConnection(Nobody)
      /\ \A c \in DOMAIN conns : conns'[c] = conns[c]
    BY <1>5, OpensChange
<1>7. /\ \A d \in Descriptors : d # LowestFree => fd'[d] = fd[d]
      /\ fd'[LowestFree] = Len(conns) + 1
    BY <1>1, <1>2, <1>5
<1>8. fd' \in [Descriptors -> 0..Len(conns')]
    <2>1. 0..Len(conns) \subseteq 0..Len(conns') /\ Len(conns) + 1 \in 0..Len(conns')
        BY <1>2, <1>6
    <2> QED BY <1>1, <1>2, <1>5, <2>1
<1>9. Conn("backup")' = Len(conns) + 1
    BY <1>1, <1>3, <1>4, <1>7 DEF Conn, Connection
<1>10. rtree["primary"] # LowestFree => Conn("primary")' = Conn("primary")
    BY <1>2, <1>3, <1>7 DEF Conn, Connection, Names
<1>11. rtree["primary"] = LowestFree => Conn("primary")' = Conn("backup")'
    BY <1>3 DEF Conn
<1> QED BY <1>0, <1>1, <1>3, <1>6, <1>7, <1>8, <1>9, <1>10, <1>11

\* It is connected ...
LEMMA LinkedChange ==
    ASSUME TypeOK, Rooted, Running, Linked
    PROVE  LET c == Conn("backup")
           IN  /\ c \in DOMAIN conns /\ endereco \in Servers
               /\ conns' \in Seq(ConnType) /\ Len(conns') = Len(conns) /\ DOMAIN conns' = DOMAIN conns
               /\ conns'[c].to = endereco /\ conns'[c].open = conns[c].open
               /\ conns'[c].asked = conns[c].asked /\ conns'[c].replies = conns[c].replies
               /\ \A b \in DOMAIN conns : b # c => conns'[b] = conns[b]
               /\ \A name \in Names : Conn(name)' = Conn(name)
<1>1. PICK c : c = Conn("backup") /\ c \in DOMAIN conns
    BY ConnRange DEF Linked, Names
<1>2. conns[c] \in ConnType /\ endereco \in Servers
    BY <1>1, ConnOf DEF Rooted
<1> DEFINE new == [conns[c] EXCEPT !.to = endereco]
<1>3. new \in ConnType
    BY <1>2 DEF ConnType
<1>4. /\ new.to = endereco /\ new.open = conns[c].open
      /\ new.asked = conns[c].asked /\ new.replies = conns[c].replies
    BY <1>2 DEF ConnType
<1>5. conns' = [conns EXCEPT ![c] = new]
    BY <1>1 DEF Linked
<1> HIDE DEF new
<1>6. LET q == [conns EXCEPT ![c] = new]
      IN  /\ q \in Seq(ConnType) /\ Len(q) = Len(conns) /\ DOMAIN q = DOMAIN conns
          /\ q[c] = new /\ \A b \in DOMAIN conns : b # c => q[b] = conns[b]
    BY <1>1, <1>3, OneReplaced
<1>7. \A name \in Names : Conn(name)' = Conn(name)
    BY DEF Linked, Conn, Connection
<1> QED BY <1>1, <1>2, <1>4, <1>5, <1>6, <1>7

\* ... or closed.
LEMMA UnlinkedChange ==
    ASSUME TypeOK, Unlinked
    PROVE  /\ Shut /\ Conn("backup")' = 0 /\ UNCHANGED <<conns, rtree>>
           /\ Conn("backup") = 0 \/ up[endereco] # "up"
<1>1. /\ rtree \in [Names -> {Minus1} \cup Descriptors] /\ rtree["backup"] \in {Minus1} \cup Descriptors
      /\ fd \in [Descriptors -> 0..Len(conns)]
    BY DEF TypeOK, Names
<1>2. 0 \in 0..Len(conns)
    BY ConnOf
<1>3. /\ fd' = (IF rtree["backup"] = Minus1 THEN fd ELSE [fd EXCEPT ![rtree["backup"]] = 0])
      /\ rtree' = rtree
    BY DEF Unlinked, Close
<1>4. Shut
    BY <1>1, <1>2, <1>3 DEF Shut, Names
<1>5. Conn("backup")' = 0
    BY <1>1, <1>3 DEF Conn, Connection
<1> QED BY <1>4, <1>5 DEF Unlinked

LEMMA WatcherTypes == ASSUME TypeOK, Rooted, Watcher PROVE TypeOK'
<1>1. /\ Running /\ UNCHANGED <<calm, usurped, up, znode>>
      /\ \/ Handles /\ UNCHANGED mainthread
         \/ Dead /\ watch' \in BOOLEAN /\ events' \in Nat
    BY WatcherChange
<1>2. /\ watch \in BOOLEAN /\ events \in Nat /\ flag_alteracao \in 0..2
      /\ znode["backup"] \in Servers \cup {Nobody} /\ endereco \in Servers \cup {Nobody}
      /\ rtree \in [Names -> {Minus1} \cup Descriptors]
    BY DEF TypeOK, Names
<1>3. CASE Dead /\ watch' \in BOOLEAN /\ events' \in Nat
    BY <1>1, <1>3, DeadTypes
<1>4. CASE /\ events > 0 /\ events' = events - 1 /\ watch' = TRUE
           /\ UNCHANGED <<calm, usurped, up, znode, sockets, endereco, mainthread>>
           /\ \/ Skips /\ flag_alteracao' = flag_alteracao - 1 /\ zk' = "rearm"
              \/ ~Skips /\ zk' = (IF Children = Names THEN "read backup" ELSE "exists primary")
                 /\ UNCHANGED flag_alteracao
    <2>5. events \in Nat /\ events > 0 /\ events' = events - 1
        BY <1>2, <1>4
    <2>6. \/ flag_alteracao > 0 /\ flag_alteracao' = flag_alteracao - 1
          \/ flag_alteracao' = flag_alteracao
        BY <1>4 DEF Skips
    <2>7. flag_alteracao \in 0..2
        BY <1>2
    <2>1. events' \in Nat
        BY <2>5
    <2>4. flag_alteracao' \in 0..2
        BY <2>6, <2>7
    <2>2. zk' \in {"rearm", "read backup", "exists primary"}
        BY <1>4
    <2> QED BY <1>4, <2>1, <2>2, <2>4 DEF TypeOK, sockets, mainthread
<1>5. CASE PrimaryGone
    BY <1>5 DEF PrimaryGone, Calls, Rests, TypeOK, servers, sockets, mainthread
<1>6. CASE /\ flag_alteracao' = 2 /\ zk' = "rearm"
           /\ rtree' = [rtree EXCEPT !["primary"] = rtree["backup"]]
           /\ UNCHANGED <<servers, conns, fd, endereco, mainthread>>
    <2>1. rtree' \in [Names -> {Minus1} \cup Descriptors]
        BY <1>2, <1>6 DEF Names
    <2>2. flag_alteracao' \in 0..2 /\ zk' = "rearm"
        BY <1>6
    <2>3. UNCHANGED <<calm, usurped, up, znode, watch, events, conns, fd, endereco, mainthread>>
        BY <1>6 DEF servers
    <2> QED BY <2>1, <2>2, <2>3 DEF TypeOK, mainthread
<1>7. CASE CloseBackup
    <2>1. Shut /\ zk' = "rearm"
        BY <1>7, CloseChange
    <2>2. UNCHANGED <<servers, conns, endereco, flag_alteracao, mainthread>>
        BY <1>7 DEF CloseBackup, Rests
    <2> QED BY <2>1, <2>2 DEF Shut, TypeOK, servers, mainthread
<1>8. CASE /\ zk' = "connect" /\ endereco' = Found
           /\ UNCHANGED <<servers, sockets, flag_alteracao, mainthread>>
    <2>1. endereco' \in Servers \cup {Nobody}
        BY <1>2, <1>8 DEF Found
    <2> QED BY <1>8, <2>1 DEF TypeOK, servers, sockets, mainthread
<1>9. CASE Socket
    <2>1. /\ conns' \in Seq(ConnType) /\ Len(conns') = Len(conns) + 1
          /\ fd' \in [Descriptors -> 0..Len(conns')]
          /\ rtree' \in [Names -> {Minus1} \cup Descriptors]
          /\ zk' = "connecting" /\ UNCHANGED <<servers, endereco, flag_alteracao, mainthread>>
        BY <1>9, SocketChange
    <2>2. reading' \in 0..Len(conns')
        <3>1. reading \in 0..Len(conns) /\ Len(conns) \in Nat
            BY ConnOf DEF TypeOK
        <3> QED BY <2>1, <3>1 DEF mainthread
    <2> QED BY <2>1, <2>2 DEF TypeOK, ConnType, servers, mainthread
<1>11. CASE /\ zk' = "rearm" /\ (Linked \/ Unlinked)
            /\ UNCHANGED <<servers, rtree, endereco, flag_alteracao, mainthread>>
    <2>1. CASE Linked
        <3>1. conns' \in Seq(ConnType) /\ Len(conns') = Len(conns) /\ UNCHANGED <<fd, rtree>>
            BY <1>1, <2>1, LinkedChange DEF Linked
        <3> QED BY <1>11, <3>1 DEF TypeOK, ConnType, servers, mainthread
    <2>2. CASE Unlinked
        <3>1. Shut /\ UNCHANGED conns
            BY <2>2, UnlinkedChange
        <3> QED BY <1>11, <3>1 DEF TypeOK, Shut, servers, mainthread
    <2> QED BY <1>11, <2>1, <2>2
<1>10. CASE Rearm
    <2>1. watch' = TRUE
        BY <1>2, <1>10 DEF Rearm, WatchesAt
    <2> QED BY <1>10, <2>1 DEF Rearm, Calls, Rests, TypeOK, sockets, mainthread
<1> QED BY <1>1, <1>3, <1>4, <1>5, <1>6, <1>7, <1>8, <1>9, <1>10, <1>11 DEF Handles

LEMMA WorldCases == World => Outside \/ \E c \in DOMAIN conns : Answers(c) \/ Breaks(c)
BY DEF World, Outside

LEMMA TypesStep == ASSUME TypeOK, Rooted, InTurn, [Next]_vars PROVE TypeOK'
<1>1. CASE Next
    BY <1>1, WorldCases, OutsideTypes, AnsweringTypes, MainTypes, WatcherTypes DEF Next
<1>2. CASE UNCHANGED vars
    <2>1. UNCHANGED <<calm, usurped, up, znode, watch, events, conns, fd, rtree>>
        BY <1>2 DEF vars, servers, sockets
    <2>2. UNCHANGED <<endereco, flag_alteracao, zk, main, reading, commands, result>>
        BY <1>2 DEF vars, zkthread, mainthread
    <2>3. reading' \in 0..Len(conns') /\ fd' \in [Descriptors -> 0..Len(conns')]
        BY <2>1, <2>2 DEF TypeOK
    <2>4. events' \in Nat /\ flag_alteracao' \in 0..2
        BY <2>1, <2>2 DEF TypeOK
    <2>5. /\ calm' \in Worlds /\ usurped' \in BOOLEAN /\ up' \in [Servers -> {"new", "up", "down"}]
          /\ znode' \in [Names -> Servers \cup {Nobody}] /\ watch' \in BOOLEAN
          /\ rtree' \in [Names -> {Minus1} \cup Descriptors] /\ endereco' \in Servers \cup {Nobody}
          /\ commands' \in Seq(Ops)
        BY <2>1, <2>2 DEF TypeOK
    <2>6. conns' \in Seq([to : Servers \cup {Nobody}, open : BOOLEAN, asked : Seq(0..MaxCommands), replies : Seq(Replies)])
        BY <2>1 DEF TypeOK
    <2> QED BY <2>1, <2>2, <2>3, <2>4, <2>5, <2>6, Zenon DEF TypeOK
<1> QED BY <1>1, <1>2

\* The steps of the main thread within a call.
Calling == ExistsPrimary \/ SendLength \/ SendMessage \/ Read \/ Reading

LEMMA NullOpen ==
    ASSUME TypeOK, Rooted, Null(fd)
    PROVE  /\ Shut /\ reading' = 0
           /\ result' \in [value : Values, reply : Replies, misled : BOOLEAN]
           /\ \/ main' = "exited"
              \/ /\ Op = "put" /\ main' = "idle"
                 /\ result'.value = "failed" /\ result'.reply = Empty
                 /\ result'.misled <=> result.misled
                 /\ Conn("primary")' = 0
                 /\ Conn("backup") = Conn("primary") => Conn("backup")' = 0
<1>1. fd \in [Descriptors -> 0..Len(conns)] /\ \A d \in Descriptors : fd[d] \in {0, fd[d]}
    BY DEF TypeOK
<1> QED BY <1>1, NullChange

LEMMA SendsOf ==
    ASSUME TypeOK, Rooted, SendLength \/ SendMessage
    PROVE  \E from \in {"length", "message"}, item \in 0..MaxCommands, to \in {"message", "read"} :
              /\ Write(from, item, to)
              /\ \/ from = "length" /\ item = Length /\ to = "message"
                 \/ from = "message" /\ item = Len(commands) /\ to = "read"
<1>1. commands \in Seq(Ops) /\ Len(commands) <= MaxCommands
    BY DEF TypeOK, Rooted
<1>2. Len(commands) \in Nat
    BY <1>1
<1>3. Len(commands) \in 0..MaxCommands /\ Length \in 0..MaxCommands
    BY <1>1, <1>2, ClientAssumption DEF Length
<1> QED BY <1>3 DEF SendLength, SendMessage

LEMMA CallingChange ==
    ASSUME TypeOK, Rooted, Calling
    PROVE  /\ Busy /\ commands # << >> /\ UNCHANGED <<servers, zkthread, commands>>
           /\ Shut
           /\ main' \in {"idle", "length", "message", "read", "reading", "exited"}
           /\ main' = "reading" => reading' # 0
           /\ Len(conns') = Len(conns) /\ DOMAIN conns' = DOMAIN conns
           /\ \A c \in DOMAIN conns : conns'[c].to = conns[c].to /\ conns'[c].open = conns[c].open
<1>1. ASSUME UNCHANGED <<fd, rtree>> PROVE Shut
    BY <1>1 DEF Shut, TypeOK
<1>2. CASE ExistsPrimary
    <2>1. main' \in {"length", "idle", "exited"}
        BY <1>2, RefusedTypes DEF ExistsPrimary
    <2> QED BY <1>1, <1>2, <2>1 DEF ExistsPrimary, sockets, Rooted, Busy
<1>3. CASE SendLength \/ SendMessage
    <2>1. PICK from \in {"length", "message"}, item \in 0..MaxCommands, to \in {"message", "read"} :
             Write(from, item, to)
        BY <1>3, SendsOf
    <2>2. main = from /\ commands # << >> /\ UNCHANGED <<servers, zkthread, commands>>
        BY <2>1, WriteChange
    <2>3. CASE main' = to /\ Sends(item)
        <3>1. /\ Len(conns') = Len(conns) /\ DOMAIN conns' = DOMAIN conns
              /\ \A c \in DOMAIN conns : conns'[c].to = conns[c].to /\ conns'[c].open = conns[c].open
            BY <2>2, <2>3, SendsChange
        <3>2. UNCHANGED <<fd, rtree>>
            BY <2>3 DEF Sends
        <3> QED BY <1>1, <2>2, <2>3, <3>1, <3>2 DEF Busy
    <2>4. CASE ~(main' = to /\ Sends(item))
        <3>1. UNCHANGED conns /\ Shut /\ main' \in {"exited", "idle"}
            BY <2>1, <2>4, WriteChange
        <3> QED BY <2>2, <3>1 DEF Busy
    <2> QED BY <2>3, <2>4
<1>4. CASE Read
    <2>1. main = "read" /\ commands # << >> /\ UNCHANGED <<servers, conns, zkthread, commands>>
        BY <1>4, ReadChange
    <2>2. Shut /\ main' \in {"reading", "idle", "exited"} /\ (main' = "reading" => reading' # 0)
        BY <1>1, <1>4, ReadChange, NullOpen
    <2> QED BY <2>1, <2>2 DEF Busy
<1>5. CASE Reading
    <2>1. /\ main = "reading" /\ commands # << >> /\ reading \in DOMAIN conns
          /\ UNCHANGED <<servers, zkthread, commands>>
        BY <1>5, ReadingChange
    <2>2. CASE Received(reading) /\ UNCHANGED <<fd, rtree>>
        <3>1. /\ Len(conns') = Len(conns) /\ DOMAIN conns' = DOMAIN conns
              /\ \A c \in DOMAIN conns : conns'[c].to = conns[c].to /\ conns'[c].open = conns[c].open
            BY <2>1, <2>2, ReceivedChange
        <3>2. main' = "idle"
            BY <2>2 DEF Received, Returns
        <3> QED BY <1>1, <2>1, <2>2, <3>1, <3>2 DEF Busy
    <2>3. CASE Returns(Value(Op, Empty), Empty) /\ UNCHANGED <<conns, fd, rtree>>
        BY <1>1, <2>1, <2>3 DEF Busy, Returns
    <2>4. CASE Null(fd) /\ UNCHANGED conns
        <3>1. Shut /\ main' \in {"exited", "idle"}
            BY <2>4, NullOpen
        <3> QED BY <2>1, <2>4, <3>1 DEF Busy
    <2> QED BY <1>5, <2>2, <2>3, <2>4, ReadingChange
<1> QED BY <1>2, <1>3, <1>4, <1>5 DEF Calling

\* The steps that go round the client's threads, in one of five ways.
LEMMA StepCases ==
    ASSUME TypeOK, Rooted, InTurn, Next
    PROVE  \/ Outside
           \/ \E c \in DOMAIN conns : Answers(c) \/ Breaks(c)
           \/ RtreeConnect
           \/ \E op \in Ops : Command(op)
           \/ Calling
           \/ Quit
           \/ Running /\ Handles /\ UNCHANGED <<calm, usurped, up, znode, mainthread>>
           \/ Running /\ Dead /\ UNCHANGED <<calm, usurped, up, znode>> /\ main' = "exited"
<1>1. Watcher => \/ Running /\ Handles /\ UNCHANGED <<calm, usurped, up, znode, mainthread>>
                 \/ Running /\ Dead /\ UNCHANGED <<calm, usurped, up, znode>> /\ main' = "exited"
    BY WatcherChange DEF Dead, Exits
<1> QED BY <1>1, WorldCases DEF Next, Main, Calling

\* What the watcher does with the sockets.
LEMMA HandlesChange ==
    ASSUME TypeOK, Rooted, Running, Handles
    PROVE  \/ UNCHANGED sockets /\ (zk' # "idle" \/ Rearm)
           \/ /\ zk = "take over" /\ zk' = "rearm" /\ znode["backup"] # Nobody /\ flag_alteracao' = 2
              /\ UNCHANGED <<servers, conns, fd, endereco>>
              /\ rtree' = [rtree EXCEPT !["primary"] = rtree["backup"]]
              /\ rtree'["primary"] = rtree["backup"] /\ rtree'["backup"] = rtree["backup"]
              /\ Conn("primary")' = Conn("backup") /\ Conn("backup")' = Conn("backup")
           \/ CloseBackup /\ UNCHANGED <<servers, conns, endereco, flag_alteracao>>
           \/ Socket
           \/ /\ zk = "connecting" /\ zk' = "rearm" /\ (Linked \/ Unlinked)
              /\ UNCHANGED <<servers, rtree, endereco, flag_alteracao>>
<1>1. rtree \in [Names -> {Minus1} \cup Descriptors]
    BY DEF TypeOK
<1>2. ASSUME rtree' = [rtree EXCEPT !["primary"] = rtree["backup"]], fd' = fd
      PROVE  /\ rtree'["primary"] = rtree["backup"] /\ rtree'["backup"] = rtree["backup"]
             /\ Conn("primary")' = Conn("backup") /\ Conn("backup")' = Conn("backup")
    BY <1>1, <1>2 DEF Names, Conn, Connection
<1>3. PrimaryGone => UNCHANGED sockets /\ zk' # "idle"
    BY DEF PrimaryGone, Calls
<1>4. Rearm => UNCHANGED sockets
    BY DEF Rearm
<1>5. CloseBackup => UNCHANGED <<servers, conns, endereco, flag_alteracao>>
    BY DEF CloseBackup
<1>6. CASE /\ UNCHANGED <<calm, usurped, up, znode, sockets, endereco, mainthread>>
           /\ \/ Skips /\ flag_alteracao' = flag_alteracao - 1 /\ zk' = "rearm"
              \/ ~Skips /\ zk' = (IF Children = Names THEN "read backup" ELSE "exists primary")
                 /\ UNCHANGED flag_alteracao
    <2>1. UNCHANGED sockets
        BY <1>6
    <2>2. zk' # "idle"
        BY <1>6
    <2> QED BY <2>1, <2>2
<1>7. CASE /\ zk = "take over" /\ znode["backup"] # Nobody /\ flag_alteracao' = 2 /\ zk' = "rearm"
           /\ rtree' = [rtree EXCEPT !["primary"] = rtree["backup"]]
           /\ UNCHANGED <<servers, conns, fd, endereco, mainthread>>
    BY <1>2, <1>7
<1>8. CASE zk' = "connect" /\ UNCHANGED <<servers, sockets, flag_alteracao, mainthread>>
    <2>1. UNCHANGED sockets
        BY <1>8
    <2>2. zk' # "idle"
        BY <1>8
    <2> QED BY <2>1, <2>2
<1>9. CASE /\ zk = "connecting" /\ zk' = "rearm" /\ (Linked \/ Unlinked)
           /\ UNCHANGED <<servers, rtree, endereco, flag_alteracao, mainthread>>
    BY <1>9
<1> HIDE DEF Skips
<1> QED BY <1>3, <1>4, <1>5, <1>6, <1>7, <1>8, <1>9 DEF Handles

\* No two descriptors lead to the same connection.
LEMMA DistinctStep ==
    ASSUME TypeOK, Rooted, InTurn, Next
    PROVE  \A d, e \in Descriptors : fd'[d] = fd'[e] /\ fd'[d] # 0 => d = e
<1>1. /\ \A d, e \in Descriptors : fd[d] = fd[e] /\ fd[d] # 0 => d = e
      /\ \A d \in Descriptors : fd[d] \in 0..Len(conns)
      /\ Len(conns) \in Nat
    BY ConnOf DEF Rooted, TypeOK
<1>2. ASSUME UNCHANGED fd \/ Shut PROVE \A d, e \in Descriptors : fd'[d] = fd'[e] /\ fd'[d] # 0 => d = e
    BY <1>1, <1>2 DEF Shut
<1>3. CASE UNCHANGED sockets
    BY <1>2, <1>3 DEF sockets
<1>4. CASE RtreeConnect
    <2>1. CASE main = "start" /\ Children = Names /\ NetworkConnect
        <3>1. fd'[1] = 1 /\ fd'[2] = 2 /\ \A d \in Descriptors \ {1, 2} : fd'[d] = 0
            BY <2>1, StartChange
        <3> QED BY <3>1
    <2> QED BY <1>3, <1>4, <2>1 DEF RtreeConnect
<1>5. CASE Running /\ Handles
    <2>1. CASE CloseBackup
        BY <1>2, <2>1, CloseChange
    <2>2. CASE Socket
        <3>1. /\ LowestFree \in Descriptors /\ fd'[LowestFree] = Len(conns) + 1
              /\ \A d \in Descriptors : d # LowestFree => fd'[d] = fd[d]
            BY <2>2, SocketChange
        <3>2. \A d \in Descriptors : fd[d] # Len(conns) + 1
            BY <1>1
        <3> QED BY <1>1, <3>1, <3>2
    <2>4. Linked => UNCHANGED fd
        BY DEF Linked
    <2>5. Unlinked => Shut
        BY UnlinkedChange
    <2>3. UNCHANGED fd => \A d, e \in Descriptors : fd'[d] = fd'[e] /\ fd'[d] # 0 => d = e
        BY <1>2
    <2> QED BY <1>2, <1>3, <1>5, <2>1, <2>2, <2>3, <2>4, <2>5, HandlesChange
<1>6. Calling => Shut
    BY CallingChange
<1>7. Outside => UNCHANGED sockets
    BY OutsideChange
<1>8. (\E c \in DOMAIN conns : Answers(c) \/ Breaks(c)) => UNCHANGED fd
    BY DEF Answers, Breaks
<1>9. (\E op \in Ops : Command(op)) \/ Quit \/ Dead => UNCHANGED sockets
    BY DEF Command, Quit, Dead
<1> QED BY <1>2, <1>3, <1>4, <1>5, <1>6, <1>7, <1>8, <1>9, StepCases

\* Who holds a name has started.
LEMMA HeldStep ==
    ASSUME TypeOK, Rooted, InTurn, Next
    PROVE  \A name \in Names : znode'[name] # Nobody => up'[znode'[name]] # "new"
<1>1. \A name \in Names : znode[name] # Nobody => up[znode[name]] # "new"
    BY DEF Rooted
<1>2. \A name \in Names : znode[name] # Nobody => znode[name] \in Servers
    BY DEF TypeOK
<1>3. CASE Outside
    <2>1. /\ \A s \in Servers : up[s] # "new" => up'[s] # "new"
          /\ \A name \in Names : znode'[name] \in {znode[name], Nobody} \/ up'[znode'[name]] # "new"
        BY <1>3, OutsideChange
    <2> QED BY <1>1, <1>2, <2>1
<1>4. CASE \E c \in DOMAIN conns : Answers(c) \/ Breaks(c)
    <2>1. UNCHANGED znode /\ \A s \in Servers : up[s] # "new" => up'[s] # "new"
        BY <1>4, AnsweringChange
    <2> QED BY <1>1, <1>2, <2>1
<1>5. ASSUME UNCHANGED <<up, znode>> PROVE \A name \in Names : znode'[name] # Nobody => up'[znode'[name]] # "new"
    BY <1>1, <1>5
<1>6. RtreeConnect => UNCHANGED <<up, znode>>
    BY DEF RtreeConnect
<1>7. (\E op \in Ops : Command(op)) \/ Quit => UNCHANGED <<up, znode>>
    BY DEF Command, Quit, servers
<1>8. Calling => UNCHANGED <<up, znode>>
    BY CallingChange DEF servers
<1> QED BY <1>3, <1>4, <1>5, <1>6, <1>7, <1>8, StepCases

\* The rest of what is rooted.
Control ==
    /\ Len(commands) <= MaxCommands
    /\ main = "start" => /\ commands = << >> /\ conns = << >> /\ result = NoResult
                         /\ zk = "idle" /\ ~watch /\ events = 0 /\ flag_alteracao = 0
    /\ ~calm => commands = << >>
    /\ Busy => commands # << >>
    /\ main = "reading" => reading # 0
    /\ Running => endereco \in Servers

LEMMA ControlStep == ASSUME TypeOK, Rooted, InTurn, Next PROVE Control'
<1>1. Control
    BY DEF Rooted, Control
<1>2. CASE Outside
    <2>1. UNCHANGED <<calm, sockets, zkthread, mainthread>>
        BY <1>2, OutsideChange
    <2>2. UNCHANGED <<calm, conns, endereco, flag_alteracao, zk, main, reading, commands, result>>
        BY <2>1 DEF sockets, zkthread, mainthread
    <2>3. events = 0 /\ ~watch => events' = 0 /\ ~watch'
        <3>1. ASSUME NEW name, NEW owner, Changes(name, owner), ~watch PROVE events' = events /\ ~watch'
            BY <3>1 DEF Changes
        <3>2. ASSUME NEW s \in Servers, Dies(s) PROVE events' = events /\ watch' = watch
            BY <3>2 DEF Dies
        <3> QED BY <1>2, <3>1, <3>2 DEF Outside, Joins, TakesOver, DropsBackup, Expires
    <2> QED BY <1>1, <2>2, <2>3 DEF Control, Busy, Running
<1>3. CASE \E c \in DOMAIN conns : Answers(c) \/ Breaks(c)
    <2>1. UNCHANGED <<calm, watch, events, zkthread, mainthread>>
        BY <1>3, AnsweringChange
    <2>2. UNCHANGED <<calm, watch, events, endereco, flag_alteracao, zk, main, reading, commands, result>>
        BY <2>1 DEF zkthread, mainthread
    <2>3. conns # << >>
        BY <1>3
    <2> QED BY <1>1, <2>2, <2>3 DEF Control, Busy, Running
<1>4. CASE RtreeConnect
    <2>1. main = "start" /\ UNCHANGED <<calm, commands>> /\ main' \in {"idle", "exited"}
        BY <1>4 DEF RtreeConnect, Exits
    <2>2. main' = "idle" => endereco' \in Servers
        <3>1. CASE main = "start" /\ Children = Names /\ NetworkConnect /\ endereco' = znode["backup"]
            BY <3>1, StartChange DEF Names
        <3> QED BY <1>4, <3>1 DEF RtreeConnect, Exits
    <2> QED BY <1>1, <2>1, <2>2 DEF Control, Busy, Running
<1>5. CASE \E op \in Ops : Command(op)
    <2>1. PICK op \in Ops : Command(op)
        BY <1>5
    <2>2. /\ Len(commands') = Len(commands) + 1 /\ Len(commands') <= MaxCommands
          /\ main = "idle" /\ calm /\ UNCHANGED <<servers, sockets, zkthread>>
          /\ commands' = Append(commands, op) /\ commands' \in Seq(Ops)
        BY <2>1, CommandChange
    <2>3. main' \in {"exists primary", "idle", "exited"}
        BY <2>1, RefusedTypes DEF Command
    <2>4. commands' # << >>
        <3>1. Len(commands) \in Nat
            BY CommandsOf
        <3> QED BY <2>2, <3>1
    <2>5. calm' /\ endereco' = endereco
        BY <2>2 DEF servers, zkthread
    <2> QED BY <1>1, <2>2, <2>3, <2>4, <2>5 DEF Control, Busy, Running
<1>6. CASE Calling
    <2>1. /\ Busy /\ commands # << >> /\ UNCHANGED <<servers, zkthread, commands>>
          /\ main' \in {"idle", "length", "message", "read", "reading", "exited"}
          /\ main' = "reading" => reading' # 0
        BY <1>6, CallingChange
    <2> QED BY <1>1, <2>1 DEF Control, Busy, Running, servers, zkthread
<1>7. CASE Quit \/ (Dead /\ UNCHANGED <<calm, usurped, up, znode>>)
    <2>1. UNCHANGED <<calm, commands>> /\ main' = "exited"
        BY <1>7 DEF Quit, Dead, Exits, servers
    <2> QED BY <1>1, <2>1 DEF Control, Busy, Running
<1>8. CASE Running /\ Handles /\ UNCHANGED <<calm, usurped, up, znode, mainthread>>
    <2>1. UNCHANGED <<main, reading, commands, result>>
        BY <1>8 DEF mainthread
    <2>2. endereco' \in {endereco, Found}
        BY <1>8 DEF Handles, PrimaryGone, CloseBackup, Socket, Rearm
    <2>3. endereco' \in Servers
        <3>1. endereco \in Servers /\ (znode["backup"] = Nobody \/ znode["backup"] \in Servers)
            BY <1>1, <1>8 DEF Control, TypeOK, Names
        <3> QED BY <2>2, <3>1 DEF Found
    <2> QED BY <1>1, <1>8, <2>1, <2>3 DEF Control, Busy, Running
<1> QED BY <1>2, <1>3, <1>4, <1>5, <1>6, <1>7, <1>8, StepCases

LEMMA RootedStep == ASSUME TypeOK, Rooted, InTurn, Next PROVE Rooted'
<1>1. Control' BY ControlStep
<1>2. \A d, e \in Descriptors : fd'[d] = fd'[e] /\ fd'[d] # 0 => d = e BY DistinctStep
<1>3. \A name \in Names : znode'[name] # Nobody => up'[znode'[name]] # "new" BY HeldStep
<1> QED BY <1>1, <1>2, <1>3 DEF Control, Rooted

-----------------------------------------------------------------------------
(* The order on the connections *)

LEMMA InTurnSame ==
    ASSUME NEW c, InTurnAt(c), conns'[c].asked = conns[c].asked, conns'[c].replies = conns[c].replies,
           commands' = commands, Unsent' => Unsent
    PROVE  InTurnAt(c)'
BY DEF InTurnAt

LEMMA InTurnEmpty ==
    ASSUME NEW c, conns'[c].asked = << >>, conns'[c].replies = << >>
    PROVE  InTurnAt(c)'
BY DEF InTurnAt

LEMMA InTurnAnswers ==
    ASSUME TypeOK, Rooted, InTurn, NEW c \in DOMAIN conns, Answers(c)
    PROVE  InTurnAt(c)'
<1> DEFINE asked == conns[c].asked
           replies == conns[c].replies
<1>1. PICK n \in 1..Len(commands), reply \in Replies :
              /\ Len(asked) >= 2 /\ asked[1] = Length /\ asked[2] = n
              /\ reply.number = n /\ reply.op = commands[n]
              /\ conns'[c].asked = SubSeq(asked, 3, Len(asked))
              /\ conns'[c].replies = Append(replies, reply)
    BY AnswersChange
<1>2. commands' = commands /\ main' = main
    BY DEF Answers, mainthread
<1>3. PICK a \in Seq(0..MaxCommands), r \in Seq(Replies) : a = asked /\ r = replies
    BY ConnOf
<1>4. PICK rest, all : rest = SubSeq(a, 3, Len(a)) /\ all = Append(r, reply)
    OBVIOUS
<1>5. /\ DOMAIN rest = 1..Len(a) - 2 /\ Len(a) \in Nat
      /\ \A i \in DOMAIN rest : i + 2 \in DOMAIN a /\ rest[i] = a[i + 2]
    BY <1>1, <1>3, <1>4
<1>6. /\ DOMAIN all = 1..Len(r) + 1 /\ Len(r) \in Nat /\ DOMAIN r = 1..Len(r)
      /\ all[Len(r) + 1] = reply /\ \A k \in DOMAIN r : all[k] = r[k]
    BY <1>4, AppendProperties
<1>7. /\ commands = << >> => a = << >>
      /\ \A i \in DOMAIN a : /\ a[i] <= Len(commands)
                             /\ Unsent => a[i] < Len(commands)
                             /\ \A j \in DOMAIN a : j < i /\ a[i] # Length => a[j] < a[i]
      /\ \A k \in DOMAIN r :
            /\ r[k].number \in 1..Len(commands)
            /\ r[k].op = commands[r[k].number]
            /\ Unsent => r[k].number < Len(commands)
            /\ \A i \in DOMAIN a : a[i] # Length => r[k].number < a[i]
    BY <1>3 DEF InTurn, InTurnAt
<1>8. commands # << >> /\ 2 \in DOMAIN a /\ a[2] = n
    BY <1>1, <1>3, <1>7
<1>9. ASSUME NEW i \in DOMAIN rest
      PROVE  /\ rest[i] <= Len(commands)
             /\ Unsent => rest[i] < Len(commands)
             /\ \A j \in DOMAIN rest : j < i /\ rest[i] # Length => rest[j] < rest[i]
             /\ rest[i] # Length => n < rest[i]
    <2>1. i + 2 \in DOMAIN a /\ rest[i] = a[i + 2] /\ i \in Nat \ {0}
        BY <1>5
    <2>2. rest[i] <= Len(commands) /\ (Unsent => rest[i] < Len(commands))
        BY <1>7, <2>1
    <2>3. \A j \in DOMAIN a : j < i + 2 /\ a[i + 2] # Length => a[j] < a[i + 2]
        BY <1>7, <2>1
    <2>4. rest[i] # Length => n < rest[i]
        BY <1>8, <2>1, <2>3
    <2>5. ASSUME NEW j \in DOMAIN rest, j < i, rest[i] # Length PROVE rest[j] < rest[i]
        <3>1. j + 2 \in DOMAIN a /\ rest[j] = a[j + 2] /\ j + 2 < i + 2
            BY <1>5, <2>1, <2>5
        <3> QED BY <2>1, <2>3, <2>5, <3>1
    <2> QED BY <2>2, <2>4, <2>5
<1>10. ASSUME NEW k \in DOMAIN all
       PROVE  /\ all[k].number \in 1..Len(commands)
              /\ all[k].op = commands[all[k].number]
              /\ Unsent => all[k].number < Len(commands)
              /\ \A i \in DOMAIN rest : rest[i] # Length => all[k].number < rest[i]
    <2>1. CASE k = Len(r) + 1
        <3>1. all[k].number = n /\ all[k].op = commands[n]
            BY <1>1, <1>6, <2>1
        <3>2. Unsent => n < Len(commands)
            BY <1>7, <1>8
        <3> QED BY <1>9, <3>1, <3>2
    <2>2. CASE k \in DOMAIN r
        <3>1. all[k] = r[k]
            BY <1>6, <2>2
        <3>2. \A i \in DOMAIN rest : rest[i] # Length => r[k].number < rest[i]
            BY <1>5, <1>7, <2>2
        <3> QED BY <1>7, <2>2, <3>1, <3>2
    <2> QED BY <1>6, <2>1, <2>2
<1>11. conns'[c].asked = rest /\ conns'[c].replies = all
    BY <1>1, <1>3, <1>4
<1> HIDE DEF asked, replies
<1>12. Unsent' <=> Unsent
    BY <1>2 DEF Unsent
<1> QED BY <1>2, <1>8, <1>9, <1>10, <1>11, <1>12 DEF InTurnAt

LEMMA InTurnSends ==
    ASSUME TypeOK, Rooted, InTurn, SendLength \/ SendMessage, NEW c \in DOMAIN conns
    PROVE  InTurnAt(c)'
<1>1. PICK from \in {"length", "message"}, item \in 0..MaxCommands, to \in {"message", "read"} :
         /\ Write(from, item, to)
         /\ \/ from = "length" /\ item = Length /\ to = "message"
            \/ from = "message" /\ item = Len(commands) /\ to = "read"
    BY SendsOf
<1>2. main = from /\ commands # << >> /\ UNCHANGED <<servers, zkthread, commands>>
    BY <1>1, WriteChange
<1>3. InTurnAt(c) /\ Unsent /\ Len(commands) \in Nat \ {0} /\ commands' = commands
    BY <1>2, OpOf DEF InTurn, Unsent
<1>4. CASE ~(main' = to /\ Sends(item))
    BY <1>1, <1>3, <1>4, WriteChange, InTurnSame
<1>5. CASE main' = to /\ Sends(item) /\ c # Conn(Side(Op))
    <2>1. conns'[c] = conns[c]
        BY <1>2, <1>5, SendsChange
    <2> QED BY <1>3, <2>1, InTurnSame
<1>6. CASE main' = to /\ Sends(item) /\ c = Conn(Side(Op))
    <2>1. conns'[c].asked = Append(conns[c].asked, item) /\ conns'[c].replies = conns[c].replies
        BY <1>2, <1>6, SendsChange
    <2>9. PICK a \in Seq(0..MaxCommands) : a = conns[c].asked
        BY ConnOf
    <2>2. PICK r, all : a = conns[c].asked /\ r = conns[c].replies /\ all = Append(a, item)
        BY <2>9
    <2>3. /\ DOMAIN all = 1..Len(a) + 1 /\ Len(a) \in Nat /\ DOMAIN a = 1..Len(a)
          /\ all[Len(a) + 1] = item /\ \A i \in DOMAIN a : all[i] = a[i]
        BY <2>2, AppendProperties
    <2>4. /\ \A i \in DOMAIN a : /\ a[i] < Len(commands)
                                 /\ \A j \in DOMAIN a : j < i /\ a[i] # Length => a[j] < a[i]
          /\ \A k \in DOMAIN r :
                /\ r[k].number \in 1..Len(commands)
                /\ r[k].op = commands[r[k].number]
                /\ r[k].number < Len(commands)
                /\ \A i \in DOMAIN a : a[i] # Length => r[k].number < a[i]
        BY <1>3, <2>2 DEF InTurnAt
    <2>5. /\ item = Length \/ item = Len(commands)
          /\ Unsent' => item = Length
        BY <1>1, <1>6 DEF Unsent
    <2>6. \A i \in DOMAIN all : /\ all[i] <= Len(commands)
                                /\ Unsent' => all[i] < Len(commands)
                                /\ \A j \in DOMAIN all : j < i /\ all[i] # Length => all[j] < all[i]
        <3> SUFFICES ASSUME NEW i \in DOMAIN all
                     PROVE  /\ all[i] <= Len(commands)
                            /\ Unsent' => all[i] < Len(commands)
                            /\ \A j \in DOMAIN all : j < i /\ all[i] # Length => all[j] < all[i]
            OBVIOUS
        <3>1. CASE i \in DOMAIN a
            <4>1. all[i] = a[i] /\ a[i] < Len(commands) /\ \A j \in DOMAIN all : j < i => j \in DOMAIN a
                BY <2>3, <2>4, <3>1
            <4>2. a[i] \in Nat
                BY <3>1, ElementOfSeq, ClientAssumption
            <4> QED BY <1>3, <2>3, <2>4, <3>1, <4>1, <4>2
        <3>2. CASE i = Len(a) + 1
            <4>1. all[i] = item /\ \A j \in DOMAIN all : j < i => j \in DOMAIN a
                BY <2>3, <3>2
            <4> QED BY <1>3, <2>3, <2>4, <2>5, <4>1 DEF Length
        <3> QED BY <2>3, <3>1, <3>2
    <2>7. \A k \in DOMAIN r : \A i \in DOMAIN all : all[i] # Length => r[k].number < all[i]
        BY <2>3, <2>4, <2>5
    <2>8. conns'[c].asked = all /\ conns'[c].replies = r
        BY <2>1, <2>2
    <2> QED BY <1>3, <2>4, <2>6, <2>7, <2>8 DEF InTurnAt
<1> QED BY <1>4, <1>5, <1>6

LEMMA InTurnReading ==
    ASSUME TypeOK, Rooted, InTurn, Reading, NEW c \in DOMAIN conns
    PROVE  InTurnAt(c)'
<1>1. /\ reading \in DOMAIN conns /\ commands # << >> /\ UNCHANGED <<servers, zkthread, commands>>
    BY ReadingChange
<1>2. InTurnAt(c) /\ commands' = commands
    BY <1>1 DEF InTurn
<1>3. main' \in {"idle", "exited"}
    BY ReadingChange, NullOpen DEF Received, Returns
<1>4. ~Unsent'
    BY <1>3 DEF Unsent
<1>5. CASE UNCHANGED conns
    BY <1>2, <1>4, <1>5, InTurnSame
<1>6. CASE Received(reading)
    <2>1. CASE c # reading
        <3>1. conns'[c] = conns[c]
            BY <1>1, <1>6, <2>1, ReceivedChange
        <3> QED BY <1>2, <1>4, <3>1, InTurnSame
    <2>2. CASE c = reading
        <3>1. conns'[c].asked = conns[c].asked /\ conns'[c].replies = << >>
            BY <1>1, <1>6, <2>2, ReceivedChange
        <3> QED BY <1>2, <1>4, <3>1 DEF InTurnAt
    <2> QED BY <2>1, <2>2
<1> QED BY <1>5, <1>6, ReadingChange

LEMMA InTurnCommand ==
    ASSUME TypeOK, Rooted, InTurn, NEW op \in Ops, Command(op), NEW c \in DOMAIN conns
    PROVE  InTurnAt(c)'
<1>1. /\ Len(commands') = Len(commands) + 1
      /\ \A n \in 1..Len(commands) : commands'[n] = commands[n]
      /\ UNCHANGED sockets
    BY CommandChange
<1>2. conns' = conns /\ Len(commands) \in Nat
    BY <1>1, CommandsOf DEF sockets
<1>3. commands' # << >>
    BY <1>1, <1>2
<1>4. PICK a, r : a = conns[c].asked /\ r = conns[c].replies
    OBVIOUS
<1>5. /\ \A i \in DOMAIN a : /\ a[i] <= Len(commands)
                             /\ \A j \in DOMAIN a : j < i /\ a[i] # Length => a[j] < a[i]
      /\ \A k \in DOMAIN r :
            /\ r[k].number \in 1..Len(commands)
            /\ r[k].op = commands[r[k].number]
            /\ \A i \in DOMAIN a : a[i] # Length => r[k].number < a[i]
    BY <1>4 DEF InTurn, InTurnAt
<1>6. \A i \in DOMAIN a : a[i] \in Nat
    BY <1>4, AskedOf, ClientAssumption
<1>7. \A i \in DOMAIN a : a[i] < Len(commands')
    BY <1>1, <1>2, <1>5, <1>6
<1>8. \A k \in DOMAIN r : /\ r[k].number \in 1..Len(commands') /\ r[k].number < Len(commands')
                          /\ r[k].op = commands'[r[k].number]
    BY <1>1, <1>2, <1>5
<1>9. \A i \in DOMAIN a : a[i] <= Len(commands')
    BY <1>1, <1>2, <1>6, <1>7
<1>10. conns'[c].asked = a /\ conns'[c].replies = r
    BY <1>2, <1>4
<1> QED BY <1>3, <1>5, <1>7, <1>8, <1>9, <1>10 DEF InTurnAt

LEMMA InTurnStep == ASSUME TypeOK, Rooted, InTurn, Next PROVE InTurn'
<1>1. ASSUME UNCHANGED <<conns, commands>>, Unsent' => Unsent PROVE InTurn'
    BY <1>1, InTurnSame DEF InTurn
<1>2. CASE Outside
    <2>1. UNCHANGED <<conns, main, commands>>
        BY <1>2, OutsideChange DEF sockets, mainthread
    <2> QED BY <1>1, <2>1 DEF Unsent
<1>3. CASE \E c \in DOMAIN conns : Answers(c) \/ Breaks(c)
    <2>1. PICK c \in DOMAIN conns : Answers(c) \/ Breaks(c)
        BY <1>3
    <2>2. UNCHANGED mainthread /\ DOMAIN conns' = DOMAIN conns
        BY <1>3, AnsweringChange
    <2>3. commands' = commands /\ (Unsent' => Unsent)
        BY <2>2 DEF mainthread, Unsent
    <2>4. ASSUME NEW b \in DOMAIN conns PROVE InTurnAt(b)'
        <3>1. CASE Answers(c) /\ b # c
            <4>1. conns'[b] = conns[b]
                BY <3>1, AnswersChange
            <4> QED BY <2>3, <4>1, InTurnSame DEF InTurn
        <3>2. CASE Answers(c) /\ b = c
            BY <3>2, InTurnAnswers
        <3>3. CASE Breaks(c)
            <4>1. conns'[b].asked = conns[b].asked /\ conns'[b].replies = conns[b].replies
                BY <3>3, BreaksChange
            <4> QED BY <2>3, <4>1, InTurnSame DEF InTurn
        <3> QED BY <2>1, <3>1, <3>2, <3>3
    <2> QED BY <2>2, <2>4 DEF InTurn
<1>4. CASE RtreeConnect
    <2>1. main' \in {"idle", "exited"} /\ commands' = commands
        BY <1>4 DEF RtreeConnect, Exits
    <2>2. CASE main = "start" /\ Children = Names /\ NetworkConnect
        <3>1. /\ conns' = <<NewConnection(znode["primary"]), NewConnection(znode["backup"])>>
              /\ DOMAIN conns' = {1, 2} /\ \A name \in Names : znode[name] \in Servers
            BY <2>2, StartChange
        <3>2. \A c \in DOMAIN conns' : conns'[c].asked = << >> /\ conns'[c].replies = << >>
            BY <3>1, NewIsTyped DEF Names
        <3> QED BY <3>2, InTurnEmpty DEF InTurn
    <2>3. CASE UNCHANGED conns
        BY <1>1, <2>1, <2>3 DEF Unsent
    <2> QED BY <1>4, <2>2, <2>3 DEF RtreeConnect, sockets
<1>5. CASE \E op \in Ops : Command(op)
    <2>1. PICK op \in Ops : Command(op)
        BY <1>5
    <2>2. conns' = conns
        BY <2>1 DEF Command, sockets
    <2> QED BY <2>1, <2>2, InTurnCommand DEF InTurn
<1>6. CASE Calling
    <2>1. DOMAIN conns' = DOMAIN conns
        BY <1>6, CallingChange
    <2>2. CASE SendLength \/ SendMessage
        BY <2>1, <2>2, InTurnSends DEF InTurn
    <2>3. CASE Reading
        BY <2>1, <2>3, InTurnReading DEF InTurn
    <2>4. CASE Read
        <3>1. main' \in {"reading", "idle", "exited"} /\ UNCHANGED <<conns, commands>>
            BY <2>4, ReadChange, NullOpen
        <3> QED BY <1>1, <3>1 DEF Unsent
    <2>5. CASE ExistsPrimary
        <3>1. main = "exists primary" /\ UNCHANGED <<conns, commands>>
            BY <2>5 DEF ExistsPrimary, sockets
        <3> QED BY <1>1, <3>1 DEF Unsent
    <2> QED BY <1>6, <2>2, <2>3, <2>4, <2>5 DEF Calling
<1>7. CASE Quit \/ (Dead /\ UNCHANGED <<calm, usurped, up, znode>>)
    <2>1. UNCHANGED <<conns, commands>> /\ main' = "exited"
        BY <1>7 DEF Quit, Dead, Exits, sockets
    <2> QED BY <1>1, <2>1 DEF Unsent
<1>8. CASE Running /\ Handles /\ UNCHANGED <<calm, usurped, up, znode, mainthread>>
    <2>1. UNCHANGED <<main, commands>>
        BY <1>8 DEF mainthread
    <2>2. Unsent' => Unsent
        BY <2>1 DEF Unsent
    <2>3. CASE UNCHANGED conns
        BY <1>1, <2>1, <2>2, <2>3
    <2>4. CASE Socket
        <3>1. /\ DOMAIN conns' = DOMAIN conns \cup {Len(conns) + 1}
              /\ conns'[Len(conns) + 1] = NewConnection(Nobody)
              /\ \A c \in DOMAIN conns : conns'[c] = conns[c]
            BY <2>4, SocketChange
        <3>2. ASSUME NEW new \in {Len(conns) + 1} PROVE InTurnAt(new)'
            <4>1. conns'[new].asked = << >> /\ conns'[new].replies = << >>
                BY <3>1, NewIsTyped
            <4> QED BY <4>1, InTurnEmpty
        <3>3. \A c \in DOMAIN conns : InTurnAt(c)'
            BY <2>1, <2>2, <3>1, InTurnSame DEF InTurn
        <3>4. \A c \in DOMAIN conns' : c \in DOMAIN conns \/ c \in {Len(conns) + 1}
            BY <3>1
        <3> QED BY <3>2, <3>3, <3>4 DEF InTurn
    <2>5. CASE Linked
        <3>1. /\ DOMAIN conns' = DOMAIN conns
              /\ \A c \in DOMAIN conns : /\ conns'[c].asked = conns[c].asked
                                         /\ conns'[c].replies = conns[c].replies
            BY <1>8, <2>5, LinkedChange
        <3>2. \A c \in DOMAIN conns : InTurnAt(c)'
            BY <2>1, <2>2, <3>1, InTurnSame DEF InTurn
        <3> QED BY <3>1, <3>2 DEF InTurn
    <2>6. Unlinked => UNCHANGED conns
        BY DEF Unlinked
    <2> QED BY <1>8, <2>3, <2>4, <2>5, <2>6, HandlesChange DEF sockets
<1> QED BY <1>2, <1>3, <1>4, <1>5, <1>6, <1>7, <1>8, StepCases

LEMMA UnopenedStep == ASSUME TypeOK, Rooted, InTurn, Unopened, Next PROVE Unopened'
<1>1. ASSUME UNCHANGED conns PROVE Unopened'
    BY <1>1 DEF Unopened
<1>2. CASE Outside \/ (\E op \in Ops : Command(op)) \/ Quit \/ Dead
    BY <1>1, <1>2, OutsideChange DEF Command, Quit, Dead, sockets
<1>3. ASSUME NEW c \in DOMAIN conns, conns[c].to # Nobody, conns'[c].to = conns[c].to,
             DOMAIN conns' = DOMAIN conns, \A b \in DOMAIN conns : b # c => conns'[b] = conns[b]
      PROVE  Unopened'
    BY <1>3 DEF Unopened
<1>4. ASSUME NEW c \in DOMAIN conns, Answers(c) \/ Breaks(c) PROVE Unopened'
    <2>1. conns[c].to # Nobody
        BY <1>4 DEF Answers, Breaks, Gone
    <2>2. CASE Answers(c)
        <3>1. /\ DOMAIN conns' = DOMAIN conns /\ conns'[c].to = conns[c].to
              /\ \A b \in DOMAIN conns : b # c => conns'[b] = conns[b]
            BY <2>2, AnswersChange
        <3> QED BY <1>3, <2>1, <3>1
    <2>3. CASE Breaks(c)
        <3>1. /\ DOMAIN conns' = DOMAIN conns
              /\ \A b \in DOMAIN conns :
                    /\ conns'[b].to = conns[b].to
                    /\ conns'[b].asked = conns[b].asked /\ conns'[b].replies = conns[b].replies
            BY <2>3, BreaksChange
        <3> QED BY <3>1 DEF Unopened
    <2> QED BY <1>4, <2>2, <2>3
<1>5. CASE RtreeConnect
    <2>1. CASE main = "start" /\ Children = Names /\ NetworkConnect
        <3>1. /\ conns' = <<NewConnection(znode["primary"]), NewConnection(znode["backup"])>>
              /\ DOMAIN conns' = {1, 2} /\ \A name \in Names : znode[name] \in Servers
            BY <2>1, StartChange
        <3>2. \A c \in DOMAIN conns' : conns'[c].asked = << >> /\ conns'[c].replies = << >>
            BY <3>1, NewIsTyped DEF Names
        <3> QED BY <3>2 DEF Unopened
    <2> QED BY <1>1, <1>5, <2>1 DEF RtreeConnect, sockets
<1>6. CASE SendLength \/ SendMessage
    <2>1. PICK from \in {"length", "message"}, item \in 0..MaxCommands, to \in {"message", "read"} :
             Write(from, item, to)
        BY <1>6, SendsOf
    <2>2. CASE Sends(item)
        <3>1. commands # << >>
            BY <2>1, WriteChange
        <3>2. PICK c \in DOMAIN conns : /\ c = Conn(Side(Op)) /\ conns[c].to # Nobody
                 /\ DOMAIN conns' = DOMAIN conns /\ conns'[c].to = conns[c].to
                 /\ \A b \in DOMAIN conns : b # c => conns'[b] = conns[b]
            BY <2>2, <3>1, SendsChange DEF Sends
        <3> QED BY <1>3, <3>2
    <2> QED BY <1>1, <2>1, <2>2, WriteChange
<1>7. CASE Reading
    <2>1. CASE Received(reading)
        <3>1. /\ DOMAIN conns' = DOMAIN conns /\ conns'[reading].to = conns[reading].to
              /\ conns'[reading].replies = << >> /\ conns'[reading].asked = conns[reading].asked
              /\ reading \in DOMAIN conns
              /\ \A b \in DOMAIN conns : b # reading => conns'[b] = conns[b]
            BY <1>7, <2>1, ReadingChange, ReceivedChange
        <3> QED BY <3>1 DEF Unopened
    <2> QED BY <1>1, <1>7, <2>1, ReadingChange
<1>8. CASE ExistsPrimary \/ Read
    BY <1>1, <1>8, ReadChange DEF ExistsPrimary, sockets
<1>9. CASE Running /\ Handles
    <2>1. CASE Socket
        <3>1. /\ DOMAIN conns' = DOMAIN conns \cup {Len(conns) + 1}
              /\ conns'[Len(conns) + 1] = NewConnection(Nobody)
              /\ \A c \in DOMAIN conns : conns'[c] = conns[c]
            BY <2>1, SocketChange
        <3>2. NewConnection(Nobody).asked = << >> /\ NewConnection(Nobody).replies = << >>
            BY NewIsTyped
        <3> QED BY <3>1, <3>2 DEF Unopened
    <2>2. CASE Linked
        <3>1. PICK c \in DOMAIN conns :
                 /\ endereco \in Servers /\ DOMAIN conns' = DOMAIN conns /\ conns'[c].to = endereco
                 /\ \A b \in DOMAIN conns : b # c => conns'[b] = conns[b]
            BY <1>9, <2>2, LinkedChange
        <3> QED BY <3>1, ClientAssumption DEF Unopened
    <2> QED BY <1>1, <1>9, <2>1, <2>2, HandlesChange DEF sockets, Unlinked
<1> QED BY <1>2, <1>4, <1>5, <1>6, <1>7, <1>8, <1>9, StepCases DEF Calling

-----------------------------------------------------------------------------
(* Names, events and flag_alteracao *)

LEMMA NamesAre ==
    /\ Only("primary") <=> znode["primary"] # Nobody /\ znode["backup"] = Nobody
    /\ Only("backup") <=> znode["primary"] = Nobody /\ znode["backup"] # Nobody
    /\ Both <=> znode["primary"] # Nobody /\ znode["backup"] # Nobody
    /\ Children = {} <=> znode["primary"] = Nobody /\ znode["backup"] = Nobody
    /\ Children = Names <=> Both
BY DEF Only, Both, Children, Names

LEMMA NamesAreThen ==
    /\ Only("primary")' <=> znode'["primary"] # Nobody /\ znode'["backup"] = Nobody
    /\ Only("backup")' <=> znode'["primary"] = Nobody /\ znode'["backup"] # Nobody
    /\ Both' <=> znode'["primary"] # Nobody /\ znode'["backup"] # Nobody
    /\ Children' = {} <=> znode'["primary"] = Nobody /\ znode'["backup"] = Nobody
BY DEF Only, Both, Children, Names

LEMMA WatchedStep == ASSUME TypeOK, Rooted, InTurn, Watched, Next PROVE Watched'
<1>1. watch \in BOOLEAN /\ events \in Nat
    BY DEF TypeOK
<1>2. ASSUME UNCHANGED <<znode, watch, events>>, Running' => Running PROVE Watched'
    BY <1>2 DEF Watched, Children
<1>3. CASE Outside
    <2>1. UNCHANGED mainthread
        BY <1>3, OutsideChange
    <2>2. Running' => Running
        BY <2>1 DEF mainthread, Running
    <2>3. ASSUME NEW name, NEW owner, Changes(name, owner) PROVE Watched'
        <3>1. Running => events' > 0
            <4>1. events' = (IF watch THEN events + 1 ELSE events)
                BY <2>3 DEF Changes
            <4> QED BY <1>1, <4>1 DEF Watched
        <3> QED BY <2>2, <3>1 DEF Watched
    <2>4. ASSUME NEW s \in Servers, Dies(s) PROVE Watched'
        BY <1>2, <2>2, <2>4 DEF Dies
    <2> QED BY <1>3, <2>3, <2>4 DEF Outside, Joins, TakesOver, DropsBackup, Expires
<1>4. CASE \E c \in DOMAIN conns : Answers(c) \/ Breaks(c)
    <2>1. UNCHANGED <<znode, watch, events, mainthread>>
        BY <1>4, AnsweringChange
    <2> QED BY <1>2, <2>1 DEF mainthread, Running
<1>5. CASE RtreeConnect
    <2>1. CASE Children = Names /\ watch' = TRUE /\ UNCHANGED znode
        BY <2>1 DEF Watched, Children, Names
    <2>2. CASE Exits
        BY <2>2 DEF Exits, Watched, Running
    <2> QED BY <1>5, <2>1, <2>2 DEF RtreeConnect
<1>6. CASE \E op \in Ops : Command(op)
    <2>1. main = "idle" /\ UNCHANGED servers
        BY <1>6 DEF Command
    <2> QED BY <1>2, <2>1 DEF servers, Running
<1>7. CASE Calling
    BY <1>2, <1>7, CallingChange DEF servers, Running, Busy
<1>8. CASE Quit \/ (Dead /\ UNCHANGED <<calm, usurped, up, znode>>)
    BY <1>8 DEF Quit, Dead, Exits, Watched, Running
<1>9. CASE Running /\ Handles /\ UNCHANGED <<calm, usurped, up, znode, mainthread>>
    <2>1. CASE watch' = TRUE /\ Children # {}
        BY <1>9, <2>1 DEF Watched, Children
    <2>2. CASE UNCHANGED servers
        BY <1>2, <1>9, <2>2 DEF servers
    <2>3. CASE Rearm
        BY <1>9, <2>3 DEF Rearm, WatchesAt, Watched, Children
    <2>4. PrimaryGone \/ CloseBackup \/ Socket => UNCHANGED servers
        BY DEF PrimaryGone, CloseBackup, Socket
    <2> QED BY <1>9, <2>1, <2>2, <2>3, <2>4 DEF Handles
<1> QED BY <1>3, <1>4, <1>5, <1>6, <1>7, <1>8, <1>9, StepCases

\* In a calm world a change comes when the client has seen the last one.
LEMMA CalmChange ==
    ASSUME TypeOK, Rooted, Watched, Running, calm, Situation, Outside
    PROVE  /\ events = 0 /\ zk = "idle" /\ AtRest /\ UNCHANGED <<flag_alteracao, zk>>
           /\ \/ /\ UNCHANGED <<znode, events, usurped>>
                 /\ \A s \in Servers : up[s] = "down" => up'[s] = "down"
              \/ events' = 1 /\ OnEvent'
<1>1. /\ znode \in [Names -> Servers \cup {Nobody}] /\ watch \in BOOLEAN /\ events \in Nat
      /\ UNCHANGED <<flag_alteracao, zk>>
    BY OutsideChange DEF TypeOK, zkthread
<1>2. MayChange
    BY DEF Outside, Joins, Dies, TakesOver, DropsBackup, Expires
<1>3. events = 0 /\ zk = "idle" /\ AtRest /\ watch = TRUE
    BY <1>1, <1>2 DEF MayChange, Situation, Watched
<1>4. ASSUME NEW name, NEW owner, Changes(name, owner)
      PROVE  /\ events' = 1 /\ znode' = [znode EXCEPT ![name] = owner]
             /\ usurped' = (usurped \/ Usurps(name, owner))
    BY <1>3, <1>4 DEF Changes
<1>5. ASSUME NEW s \in Servers, Joins(s) PROVE events' = 1 /\ OnEvent'
    <2>3. CASE Changes("primary", s) /\ znode["primary"] = Nobody /\ znode["backup"] # Nobody
        <3>1. events' = 1 /\ znode'["primary"] = s /\ znode'["backup"] = znode["backup"]
            BY <1>1, <1>4, <2>3 DEF Names
        <3>2. flag_alteracao \in {0, 2}
            BY <1>3, <2>3, NamesAre DEF AtRest, Pair, Same, BackupDown
        <3>3. znode["backup"] # s
            BY <1>5, <2>3 DEF Joins, Rooted, Names
        <3>4. s # Nobody
            BY ClientAssumption
        <3>5. Pair'
            BY <2>3, <3>1, <3>3, <3>4, NamesAreThen DEF Pair
        <3>6. usurped'
            BY <1>4, <2>3, <3>3, <3>4 DEF Usurps
        <3> QED BY <1>1, <3>1, <3>2, <3>5, <3>6 DEF OnEvent
    <2>1. CASE Changes("primary", s) /\ znode["primary"] = Nobody /\ znode["backup"] = Nobody
        BY <1>3, <2>1, NamesAre DEF AtRest, Pair, Same, BackupDown
    <2>2. CASE Changes("backup", s) /\ znode["primary"] # Nobody /\ znode["backup"] = Nobody
        <3>1. events' = 1 /\ znode'["backup"] = s /\ znode'["primary"] = znode["primary"]
            BY <1>1, <1>4, <2>2 DEF Names
        <3>2. flag_alteracao = 0
            BY <1>3, <2>2, NamesAre DEF AtRest, Pair, Same, BackupDown
        <3>3. znode["primary"] # s
            BY <1>5, <2>2 DEF Joins, Rooted, Names
        <3>4. s # Nobody
            BY ClientAssumption
        <3>5. Pair'
            BY <2>2, <3>1, <3>3, <3>4, NamesAreThen DEF Pair
        <3> QED BY <1>1, <3>1, <3>2, <3>5 DEF OnEvent
    <2> QED BY <1>5, <2>1, <2>2, <2>3 DEF Joins
<1>6. ASSUME NEW s \in Servers, TakesOver(s) PROVE events' = 1 /\ OnEvent'
    <2>1. Changes("primary", s) /\ znode["backup"] = s /\ znode["primary"] = Nobody /\ up[s] = "up"
        BY <1>6 DEF TakesOver
    <2>2. events' = 1 /\ znode'["primary"] = s /\ znode'["backup"] = s
        BY <1>1, <1>4, <2>1 DEF Names
    <2>3. flag_alteracao = 2 \/ (usurped /\ flag_alteracao = 0)
        BY <1>3, <2>1, NamesAre DEF AtRest, Pair, Same, BackupDown
    <2>4. s # Nobody
        BY ClientAssumption
    <2>5. Same'
        BY <2>2, <2>4, NamesAreThen DEF Same
    <2>6. usurped => usurped'
        BY <1>4, <2>1
    <2> QED BY <1>1, <2>2, <2>3, <2>5, <2>6 DEF OnEvent
<1>7. ASSUME NEW s \in Servers, DropsBackup(s) PROVE events' = 1 /\ OnEvent'
    <2>1. Changes("backup", Nobody) /\ znode["backup"] = s /\ znode["primary"] = s
        BY <1>7 DEF DropsBackup, Names
    <2>2. events' = 1 /\ znode'["primary"] = s /\ znode'["backup"] = Nobody
        BY <1>1, <1>4, <2>1 DEF Names
    <2>3. s # Nobody
        BY ClientAssumption
    <2>4. flag_alteracao \in {0, 1}
        BY <1>3, <2>1, <2>3, NamesAre DEF AtRest, Pair, Same, BackupDown
    <2>5. Only("primary")'
        BY <2>2, <2>3, NamesAreThen
    <2> QED BY <1>1, <2>2, <2>4, <2>5 DEF OnEvent
<1>8. ASSUME Expires("primary") PROVE events' = 1 /\ OnEvent'
    <2>1. Changes("primary", Nobody) /\ znode["primary"] # Nobody /\ up[znode["primary"]] = "down" /\ up' = up
        BY <1>8 DEF Expires
    <2>2. events' = 1 /\ znode'["primary"] = Nobody /\ znode'["backup"] = znode["backup"]
        BY <1>1, <1>4, <2>1 DEF Names
    <2>3. CASE Pair
        <3>1. flag_alteracao = 0 \/ (usurped /\ flag_alteracao = 1)
            BY <1>3, <2>3, NamesAre DEF AtRest, Pair, Same, BackupDown
        <3>2. Only("backup")'
            BY <2>2, <2>3, NamesAre, NamesAreThen DEF Pair
        <3>3. usurped => usurped'
            BY <1>4, <2>1
        <3> QED BY <1>1, <2>2, <3>1, <3>2, <3>3 DEF OnEvent
    <2>4. CASE Same
        <3>1. flag_alteracao \in {0, 1}
            BY <1>3, <2>4, NamesAre DEF AtRest, Pair, Same, BackupDown
        <3>2. Only("backup")' /\ up'[znode'["backup"]] = "down"
            BY <2>1, <2>2, <2>4, NamesAre, NamesAreThen DEF Same
        <3> QED BY <1>1, <2>2, <3>1, <3>2 DEF OnEvent, BackupDown
    <2>5. CASE znode["backup"] = Nobody
        BY <2>2, <2>5, NamesAreThen DEF OnEvent
    <2> QED BY <2>1, <2>3, <2>4, <2>5, NamesAre DEF Pair, Same
<1>9. ASSUME Expires("backup") PROVE events' = 1 /\ OnEvent'
    <2>1. Changes("backup", Nobody) /\ znode["backup"] # Nobody
        BY <1>9 DEF Expires
    <2>2. events' = 1 /\ znode'["backup"] = Nobody /\ znode'["primary"] = znode["primary"]
        BY <1>1, <1>4, <2>1 DEF Names
    <2>3. CASE znode["primary"] # Nobody
        <3>1. flag_alteracao \in {0, 1}
            BY <1>3, <2>1, <2>3, NamesAre DEF AtRest, Pair, Same, BackupDown
        <3>2. Only("primary")'
            BY <2>2, <2>3, NamesAreThen
        <3> QED BY <1>1, <2>2, <3>1, <3>2 DEF OnEvent
    <2>4. CASE znode["primary"] = Nobody
        BY <2>2, <2>4, NamesAreThen DEF OnEvent
    <2> QED BY <2>3, <2>4
<1>10. ASSUME NEW s \in Servers, Dies(s)
       PROVE  /\ UNCHANGED <<znode, events, usurped>>
              /\ \A t \in Servers : up[t] = "down" => up'[t] = "down"
    BY <1>10, OutsideChange DEF Dies
<1> QED BY <1>1, <1>3, <1>5, <1>6, <1>7, <1>8, <1>9, <1>10 DEF Outside, Names

LEMMA SituationGives ==
    ASSUME TypeOK, Situation
    PROVE  /\ events = 0 \/ events = 1
           /\ zk # "idle" => events = 0
           /\ events = 1 => OnEvent
           /\ events = 0 /\ zk \in {"idle", "rearm"} => AtRest
<1>1. events \in Nat /\ events <= 1
    BY DEF TypeOK, Situation
<1>2. events = 0 \/ events = 1
    BY <1>1
<1>3. events = 1 => zk = "idle" /\ OnEvent
    BY Zenon DEF Situation
<1>4. events = 0 /\ zk \in {"idle", "rearm"} => AtRest
    BY Zenon DEF Situation
<1> QED BY <1>2, <1>3, <1>4, Zenon

LEMMA SituationHandling ==
    ASSUME TypeOK, Situation, zk \notin {"idle", "rearm"}
    PROVE  /\ events = 0 /\ flag_alteracao = 0
           /\ zk = "exists primary" => Only("primary") \/ Only("backup")
           /\ zk = "take over" => Only("backup")
           /\ zk = "close backup" => Only("primary")
           /\ Connecting => Joined
<1>1. zk # "idle"
    OBVIOUS
<1>2. events = 0
    BY <1>1, SituationGives, Zenon
<1>3. flag_alteracao = 0
    BY Zenon DEF Situation
<1>4. /\ zk = "exists primary" => Only("primary") \/ Only("backup")
      /\ zk = "take over" => Only("backup")
      /\ zk = "close backup" => Only("primary")
      /\ Connecting => Joined
    BY Zenon DEF Situation
<1> QED BY <1>2, <1>3, <1>4, Zenon

LEMMA Settles == ASSUME events' = 0, zk' \in {"idle", "rearm"}, AtRest' PROVE Situation'
<1>1. events' <= 1 /\ events' # 1
    OBVIOUS
<1>2. zk' # "exists primary" /\ zk' # "take over" /\ zk' # "close backup" /\ ~Connecting'
    BY DEF Connecting
<1> QED BY <1>1, <1>2, Zenon DEF Situation

LEMMA EventComes == ASSUME events' = 1, zk' = "idle", OnEvent' PROVE Situation'
<1>1. events' <= 1 /\ events' # 0
    OBVIOUS
<1>2. /\ zk' # "exists primary" /\ zk' # "take over" /\ zk' # "close backup"
      /\ ~Connecting' /\ zk' \in {"idle", "rearm"}
    BY DEF Connecting
<1> QED BY <1>1, <1>2, Zenon DEF Situation

LEMMA ZeroIsSmall == ASSUME NEW e, e = 0 PROVE e <= 1 /\ e # 1
OBVIOUS

LEMMA HandlingGoesOn ==
    ASSUME events' = 0, flag_alteracao' = 0,
           \/ zk' = "exists primary" /\ (Only("primary")' \/ Only("backup")')
           \/ zk' = "take over" /\ Only("backup")'
           \/ zk' = "close backup" /\ Only("primary")'
           \/ Connecting' /\ Joined'
    PROVE  Situation'
<1>1. events' <= 1 /\ events' # 1
    BY ZeroIsSmall
<1>2. zk' \notin {"idle", "rearm"}
    BY DEF Connecting
<1>3. /\ zk' = "exists primary" => Only("primary")' \/ Only("backup")'
      /\ zk' = "take over" => Only("backup")'
      /\ zk' = "close backup" => Only("primary")'
      /\ Connecting' => Joined'
    BY DEF Connecting
<1> QED BY <1>1, <1>2, <1>3, Zenon DEF Situation

LEMMA SituationStep ==
    ASSUME TypeOK, Rooted, InTurn, Watched, Running /\ calm => Situation, Next, Running', calm'
    PROVE  Situation'
<1>1. ASSUME UNCHANGED <<usurped, znode, events, flag_alteracao, zk>>, Situation,
             \A s \in Servers : up[s] = "down" => up'[s] = "down"
      PROVE  Situation'
    <2>1. /\ Pair' = Pair /\ Same' = Same /\ Only("primary")' = Only("primary")
          /\ Only("backup")' = Only("backup") /\ Children' = Children
        BY <1>1 DEF Pair, Same, Only, Both, Children
    <2>2. BackupDown => BackupDown'
        <3>1. Only("backup") => znode["backup"] \in Servers
            BY NamesAre DEF TypeOK, Names
        <3> QED BY <1>1, <2>1, <3>1 DEF BackupDown
    <2>3. OnEvent => OnEvent'
        BY <1>1, <2>1, <2>2 DEF OnEvent
    <2>4. AtRest => AtRest'
        BY <1>1, <2>1, <2>2 DEF AtRest
    <2>5. Connecting' = Connecting /\ Joined' = Joined
        BY <1>1, <2>1 DEF Connecting, Joined
    <2> QED BY <1>1, <2>1, <2>3, <2>4, <2>5 DEF Situation
<1>2. CASE Outside
    <2>1. UNCHANGED <<calm, mainthread>>
        BY <1>2, OutsideChange
    <2>2. Running /\ calm /\ Situation
        BY <2>1 DEF mainthread, Running
    <2>3. CASE events' = 1 /\ OnEvent'
        <3>1. zk' = "idle"
            BY <1>2, <2>2, CalmChange
        <3> QED BY <2>3, <3>1, EventComes
    <2>4. CASE /\ UNCHANGED <<znode, events, usurped>>
               /\ \A s \in Servers : up[s] = "down" => up'[s] = "down"
        BY <1>1, <1>2, <2>2, <2>4, CalmChange
    <2> QED BY <1>2, <2>2, <2>3, <2>4, CalmChange
<1>3. CASE \E c \in DOMAIN conns : Answers(c) \/ Breaks(c)
    <2>1. /\ UNCHANGED <<calm, usurped, znode, events, zkthread, mainthread>>
          /\ \A s \in Servers : up[s] = "down" => up'[s] = "down"
        BY <1>3, AnsweringChange
    <2> QED BY <1>1, <2>1 DEF mainthread, zkthread, Running
<1>4. CASE RtreeConnect
    <2>1. CASE main = "start" /\ Children = Names /\ UNCHANGED <<znode, events, flag_alteracao, zk>>
        <3>1. events' = 0 /\ zk' = "idle" /\ flag_alteracao' = 0
            BY <2>1 DEF Rooted
        <3>2. Both'
            BY <2>1, NamesAre, NamesAreThen
        <3>3. AtRest'
            BY <3>1, <3>2 DEF AtRest, Pair, Same
        <3> QED BY <3>1, <3>3, Settles
    <2>2. CASE Exits
        BY <2>2 DEF Exits, Running
    <2> QED BY <1>4, <2>1, <2>2 DEF RtreeConnect
<1>5. CASE (\E op \in Ops : Command(op)) \/ Calling
    <2>1. UNCHANGED <<servers, zkthread>> /\ Running
        BY <1>5, CallingChange DEF Command, Running, Busy
    <2> QED BY <1>1, <2>1 DEF servers, zkthread
<1>6. CASE Quit \/ (Dead /\ UNCHANGED <<calm, usurped, up, znode>>)
    BY <1>6 DEF Quit, Dead, Exits, Running
<1>7. CASE Running /\ Handles /\ UNCHANGED <<calm, usurped, up, znode, mainthread>>
    <2>1. Situation
        BY <1>7
    <2>2. /\ Pair' = Pair /\ Same' = Same /\ Only("primary")' = Only("primary")
          /\ Only("backup")' = Only("backup") /\ BackupDown' = BackupDown /\ Both' = Both
          /\ Children' = Children /\ usurped' = usurped /\ Joined' = Joined
        BY <1>7 DEF Pair, Same, Only, Both, BackupDown, Children, Joined
    <2>3. events \in Nat /\ flag_alteracao \in 0..2
        BY DEF TypeOK
    <2>4. CASE zk = "idle" /\ events > 0 /\ events' = events - 1 /\ Children # {}
               /\ \/ Skips /\ flag_alteracao' = flag_alteracao - 1 /\ zk' = "rearm"
                  \/ ~Skips /\ zk' = (IF Children = Names THEN "read backup" ELSE "exists primary")
                     /\ UNCHANGED flag_alteracao
        <3>1. events = 1 /\ events' = 0 /\ OnEvent
            <4>1. events = 0 \/ events = 1
                BY <2>1, SituationGives
            <4>2. events > 0 /\ events' = events - 1
                BY <2>4, Zenon
            <4>3. events = 1 /\ events' = 0
                BY <4>1, <4>2
            <4> QED BY <2>1, <4>3, SituationGives, Zenon
        <3>2. CASE Skips /\ flag_alteracao' = flag_alteracao - 1 /\ zk' = "rearm"
            <4>1. AtRest'
                BY <2>2, <2>3, <2>4, <3>1, <3>2, NamesAre DEF OnEvent, AtRest, Skips, Pair, Same, BackupDown
            <4> QED BY <3>1, <3>2, <4>1, Settles
        <3>3. CASE ~Skips /\ zk' = (IF Children = Names THEN "read backup" ELSE "exists primary")
                   /\ UNCHANGED flag_alteracao
            <4>1. flag_alteracao = 0
                <5>1. ~Skips
                    BY <3>3, Zenon
                <5> QED BY <2>3, <5>1 DEF Skips
            <4>2. Joined \/ Only("primary") \/ Only("backup")
                <5>1. Children # {}
                    BY <2>4, Zenon
                <5>2. flag_alteracao # 1 /\ flag_alteracao # 2
                    BY <4>1
                <5> QED BY <3>1, <5>1, <5>2, Zenon DEF OnEvent, Joined, BackupDown
            <4>3. Joined <=> Children = Names
                BY <4>2, NamesAre DEF Joined, Pair, Same
            <4>4. flag_alteracao' = 0
                BY <3>3, <4>1
            <4>5. \/ zk' = "exists primary" /\ (Only("primary")' \/ Only("backup")')
                  \/ Connecting' /\ Joined'
                BY <2>2, <3>3, <4>2, <4>3 DEF Connecting
            <4> QED BY <3>1, <4>4, <4>5, HandlingGoesOn
        <3> QED BY <2>4, <3>2, <3>3
    <2>7. CASE PrimaryGone
        <3>1. UNCHANGED <<events, flag_alteracao>> /\ zk = "exists primary"
              /\ zk' = (IF znode["primary"] = Nobody THEN "take over" ELSE "close backup")
            BY <2>7 DEF PrimaryGone, Calls, servers
        <3>2. events = 0 /\ flag_alteracao = 0 /\ (Only("primary") \/ Only("backup"))
            BY <2>1, <3>1, SituationHandling
        <3>3. zk' = "take over" => Only("backup")
            BY <3>1, <3>2, NamesAre
        <3>4. zk' = "close backup" => Only("primary")
            BY <3>1, <3>2, NamesAre
        <3>5. events' = 0 /\ flag_alteracao' = 0
            BY <3>1, <3>2
        <3> QED BY <2>2, <3>1, <3>3, <3>4, <3>5, HandlingGoesOn
    <2>8. CASE zk = "take over" /\ flag_alteracao' = 2 /\ zk' = "rearm" /\ UNCHANGED servers
        <3>1. events' = 0 /\ Only("backup")
            BY <2>1, <2>8, SituationHandling DEF servers
        <3>2. AtRest'
            BY <2>2, <2>8, <3>1 DEF AtRest
        <3> QED BY <2>8, <3>1, <3>2, Settles
    <2>9. CASE CloseBackup
        <3>1. zk = "close backup" /\ zk' = "rearm" /\ UNCHANGED <<events, flag_alteracao>>
            BY <2>9 DEF CloseBackup, Calls, servers
        <3>2. events' = 0 /\ Only("primary") /\ flag_alteracao' = 0
            BY <2>1, <3>1, SituationHandling
        <3>3. AtRest'
            BY <2>2, <3>2 DEF AtRest
        <3> QED BY <3>1, <3>2, <3>3, Settles
    <2>10. CASE zk \in {"read backup", "connect"} /\ Connecting' /\ UNCHANGED <<servers, flag_alteracao>>
        <3>1. zk \notin {"idle", "rearm"} /\ Connecting
            BY <2>10 DEF Connecting
        <3>2. events' = 0 /\ Joined /\ flag_alteracao' = 0
            BY <2>1, <2>10, <3>1, SituationHandling DEF servers
        <3> QED BY <2>2, <2>10, <3>2, HandlingGoesOn
    <2>11. CASE zk = "connecting" /\ zk' = "rearm" /\ UNCHANGED <<servers, flag_alteracao>>
        <3>1. zk \notin {"idle", "rearm"} /\ Connecting
            BY <2>11 DEF Connecting
        <3>2. events' = 0 /\ Joined /\ flag_alteracao' = 0
            BY <2>1, <2>11, <3>1, SituationHandling DEF servers
        <3>3. AtRest'
            BY <2>2, <3>2 DEF AtRest, Joined
        <3> QED BY <2>11, <3>2, <3>3, Settles
    <2>12. CASE Rearm
        <3>1. zk = "rearm" /\ zk' = "idle" /\ UNCHANGED <<events, flag_alteracao>>
            BY <2>12 DEF Rearm, Calls
        <3>2. events' = 0 /\ AtRest
            BY <2>1, <3>1, SituationGives
        <3>3. AtRest'
            BY <2>2, <3>1, <3>2 DEF AtRest
        <3> QED BY <3>1, <3>2, <3>3, Settles
    <2>13. Socket => zk = "connect" /\ Connecting' /\ UNCHANGED <<servers, flag_alteracao>>
        BY DEF Socket, Calls, Connecting
    <2>14. zk' = "connect" => Connecting'
        BY DEF Connecting
    <2> QED BY <1>7, <2>4, <2>7, <2>8, <2>9, <2>10, <2>11, <2>12, <2>13, <2>14 DEF Handles
<1> QED BY <1>2, <1>3, <1>4, <1>5, <1>6, <1>7, StepCases

-----------------------------------------------------------------------------
(* The backup's address, and where its socket leads *)

LEMMA BackupChange ==
    ASSUME TypeOK, Rooted, Outside
    PROVE  znode'["backup"] \in {znode["backup"], Nobody} \/ (Pair' /\ Only("primary"))
<1>1. znode \in [Names -> Servers \cup {Nobody}]
    BY DEF TypeOK
<1>2. ASSUME NEW owner, Changes("primary", owner) PROVE znode'["backup"] = znode["backup"]
    BY <1>1, <1>2 DEF Changes, Names
<1>3. Changes("backup", Nobody) => znode'["backup"] = Nobody
    BY <1>1 DEF Changes, Names
<1>4. ASSUME NEW s \in Servers, up[s] = "new", znode["primary"] # Nobody,
             znode["backup"] = Nobody, Changes("backup", s)
      PROVE  Pair' /\ Only("primary")
    <2>1. znode'["backup"] = s /\ znode'["primary"] = znode["primary"]
        BY <1>1, <1>4 DEF Changes, Names
    <2>2. znode["primary"] # s
        BY <1>4 DEF Rooted, Names
    <2>3. s # Nobody
        BY ClientAssumption
    <2> QED BY <1>4, <2>1, <2>2, <2>3, NamesAre, NamesAreThen DEF Pair
<1>5. (\E s \in Servers : Dies(s)) => UNCHANGED znode
    BY DEF Dies
<1> QED BY <1>2, <1>3, <1>4, <1>5 DEF Outside, Joins, TakesOver, DropsBackup, Expires, Names

LEMMA AddressStep ==
    ASSUME TypeOK, Rooted, InTurn, Watched, Running /\ calm => Situation /\ Address,
           Next, Running', calm'
    PROVE  Address'
<1>1. ASSUME UNCHANGED <<znode, events, endereco, flag_alteracao, zk>>, Address PROVE Address'
    BY <1>1 DEF Address, ToBeRead, Pair, Both
<1>2. CASE Outside
    <2>1. UNCHANGED <<calm, zkthread, mainthread>>
        BY <1>2, OutsideChange
    <2>2. Running /\ calm /\ Situation /\ Address /\ UNCHANGED <<endereco, flag_alteracao, zk>>
        BY <2>1 DEF mainthread, zkthread, Running
    <2>3. /\ events = 0 /\ zk = "idle" /\ AtRest
          /\ UNCHANGED <<znode, events>> \/ events' = 1
        BY <1>2, <2>2, CalmChange
    <2>4. znode["backup"] # Nobody => endereco = znode["backup"]
        <3>1. events # 1
            BY <2>3
        <3> QED BY <2>2, <2>3, <3>1 DEF Address, ToBeRead
    <2>5. CASE events' = 1
        <3>1. CASE Pair' /\ Only("primary")
            <4>1. flag_alteracao = 0
                BY <2>3, <3>1, NamesAre DEF AtRest, Pair, Same, BackupDown
            <4> QED BY <2>2, <2>5, <3>1, <4>1 DEF Address, ToBeRead
        <3>2. CASE znode'["backup"] \in {znode["backup"], Nobody}
            BY <2>2, <2>4, <3>2 DEF Address
        <3> QED BY <1>2, <3>1, <3>2, BackupChange
    <2> QED BY <1>1, <2>2, <2>3, <2>5
<1>3. CASE \E c \in DOMAIN conns : Answers(c) \/ Breaks(c)
    <2>1. UNCHANGED <<calm, usurped, znode, events, zkthread, mainthread>>
        BY <1>3, AnsweringChange
    <2> QED BY <1>1, <2>1 DEF mainthread, zkthread, Running
<1>4. CASE RtreeConnect
    <2>1. CASE UNCHANGED znode /\ endereco' = znode["backup"]
        BY <2>1 DEF Address
    <2>2. CASE Exits
        BY <2>2 DEF Exits, Running
    <2> QED BY <1>4, <2>1, <2>2 DEF RtreeConnect
<1>5. CASE (\E op \in Ops : Command(op)) \/ Calling
    <2>1. UNCHANGED <<servers, zkthread>> /\ Running
        BY <1>5, CallingChange DEF Command, Running, Busy
    <2> QED BY <1>1, <2>1 DEF servers, zkthread
<1>6. CASE Quit \/ (Dead /\ UNCHANGED <<calm, usurped, up, znode>>)
    BY <1>6 DEF Quit, Dead, Exits, Running
<1>7. CASE Running /\ Handles /\ UNCHANGED <<calm, usurped, up, znode, mainthread>>
    <2>1. Situation /\ Address /\ UNCHANGED znode
        BY <1>7
    <2>2. ASSUME zk # "idle", zk # "read backup", UNCHANGED endereco PROVE Address'
        <3>1. events = 0
            BY <2>1, <2>2, SituationGives
        <3>2. events # 1
            BY <3>1
        <3> QED BY <2>1, <2>2, <3>2 DEF Address, ToBeRead
    <2>3. CASE zk = "idle" /\ events > 0 /\ UNCHANGED endereco
               /\ \/ Skips
                  \/ ~Skips /\ zk' = (IF Children = Names THEN "read backup" ELSE "exists primary")
        <3>1. CASE Pair /\ flag_alteracao = 0
            <4>1. ~Skips
                BY <3>1 DEF Skips
            <4>2. zk' = "read backup"
                BY <2>3, <3>1, <4>1, NamesAre, Zenon DEF Pair, Both
            <4> QED BY <4>2 DEF Address, ToBeRead
        <3>2. CASE ~(Pair /\ flag_alteracao = 0)
            BY <2>1, <2>3, <3>2 DEF Address, ToBeRead
        <3> QED BY <3>1, <3>2
    <2>4. CASE zk = "read backup" /\ endereco' = Found
        BY <2>1, <2>4 DEF Address, Found
    <2>5. PrimaryGone \/ CloseBackup \/ Socket \/ Rearm =>
             zk # "idle" /\ zk # "read backup" /\ UNCHANGED endereco
        BY DEF PrimaryGone, CloseBackup, Socket, Rearm, Calls
    <2> QED BY <1>7, <2>2, <2>3, <2>4, <2>5 DEF Handles
<1> QED BY <1>2, <1>3, <1>4, <1>5, <1>6, <1>7, StepCases

LEMMA FollowsStep ==
    ASSUME TypeOK, Rooted, InTurn, Running => BackupFollows, Next, Running'
    PROVE  BackupFollows'
<1>1. Conn("backup") \in 0..Len(conns) /\ (Conn("backup") # 0 => Conn("backup") \in DOMAIN conns)
    BY ConnRange DEF Names
<1>2. ASSUME UNCHANGED <<endereco, zk>>, Conn("backup")' \in {0, Conn("backup")}, BackupFollows,
             \A c \in DOMAIN conns : conns'[c].to = conns[c].to
      PROVE  BackupFollows'
    BY <1>1, <1>2 DEF BackupFollows
<1>3. CASE Outside
    <2>1. UNCHANGED <<sockets, zkthread, mainthread>>
        BY <1>3, OutsideChange
    <2> QED BY <1>2, <2>1 DEF sockets, zkthread, mainthread, Running, Conn, Connection
<1>4. CASE \E c \in DOMAIN conns : Answers(c) \/ Breaks(c)
    <2>1. /\ UNCHANGED <<fd, rtree, zkthread, mainthread>>
          /\ \A c \in DOMAIN conns : conns'[c].to = conns[c].to
        BY <1>4, AnsweringChange
    <2> QED BY <1>2, <2>1 DEF zkthread, mainthread, Running, Conn, Connection
<1>5. CASE RtreeConnect
    <2>1. CASE main = "start" /\ Children = Names /\ NetworkConnect /\ endereco' = znode["backup"]
        <3>1. /\ conns' = <<NewConnection(znode["primary"]), NewConnection(znode["backup"])>>
              /\ fd'[2] = 2 /\ rtree'["backup"] = 2
            BY <2>1, StartChange
        <3>2. conns'[2].to = znode["backup"]
            BY <3>1 DEF NewConnection
        <3>4. zk' # "connecting"
            BY <1>5, <2>1 DEF RtreeConnect, Rooted
        <3>3. Conn("backup")' = 2
            BY <3>1 DEF Conn, Connection, Minus1
        <3> QED BY <2>1, <3>2, <3>3, <3>4 DEF BackupFollows
    <2>2. CASE Exits
        BY <2>2 DEF Exits, Running
    <2> QED BY <1>5, <2>1, <2>2 DEF RtreeConnect
<1>6. CASE \E op \in Ops : Command(op)
    <2>1. UNCHANGED <<sockets, zkthread>> /\ Running
        BY <1>6 DEF Command, Running
    <2> QED BY <1>2, <2>1 DEF sockets, zkthread, Conn, Connection
<1>7. CASE Calling
    <2>1. /\ Shut /\ UNCHANGED zkthread /\ Running
          /\ \A c \in DOMAIN conns : conns'[c].to = conns[c].to
        BY <1>7, CallingChange DEF Running, Busy
    <2>2. Conn("backup")' \in {0, Conn("backup")}
        BY <2>1, ShutConn DEF Names
    <2> QED BY <1>2, <2>1, <2>2 DEF zkthread
<1>8. CASE Quit \/ (Dead /\ UNCHANGED <<calm, usurped, up, znode>>)
    BY <1>8 DEF Quit, Dead, Exits, Running
<1>9. CASE Running /\ Handles /\ UNCHANGED <<calm, usurped, up, znode, mainthread>>
    <2>1. BackupFollows
        BY <1>9
    <2>2. CASE UNCHANGED sockets /\ zk # "connecting"
        <3>1. Conn("backup")' = Conn("backup") /\ UNCHANGED conns
            BY <2>2 DEF sockets, Conn, Connection
        <3>2. CASE zk' = "connect"
            BY <3>2 DEF BackupFollows
        <3>3. CASE zk # "connect" /\ zk' # "connecting" /\ UNCHANGED endereco
            BY <2>1, <2>2, <3>1, <3>3 DEF BackupFollows
        <3>4. ~Socket
            <4>1. Socket => Len(conns') = Len(conns) + 1
                BY SocketChange
            <4>2. Len(conns') = Len(conns) /\ Len(conns) \in Nat
                BY <3>1, ConnOf
            <4> QED BY <4>1, <4>2
        <3> QED BY <1>9, <2>2, <3>2, <3>3, <3>4 DEF Handles, PrimaryGone, CloseBackup, Rearm, Calls
    <2>3. CASE /\ zk = "take over" /\ zk' = "rearm" /\ UNCHANGED <<conns, endereco>>
               /\ Conn("backup")' = Conn("backup")
        BY <2>1, <2>3 DEF BackupFollows
    <2>4. CASE CloseBackup
        BY <2>4, CloseChange DEF BackupFollows
    <2>5. CASE Socket
        <3>1. Conn("backup")' = Len(conns) + 1 /\ conns'[Len(conns) + 1] = NewConnection(Nobody)
            BY <2>5, SocketChange
        <3>2. zk' = "connecting"
            BY <2>5, SocketChange
        <3>3. conns'[Conn("backup")'].to = Nobody
            BY <3>1 DEF NewConnection
        <3> QED BY <3>2, <3>3 DEF BackupFollows
    <2>6. CASE zk = "connecting" /\ zk' = "rearm" /\ Linked /\ UNCHANGED endereco
        <3>1. conns'[Conn("backup")].to = endereco /\ Conn("backup")' = Conn("backup")
            BY <1>9, <2>6, LinkedChange DEF Names
        <3>2. zk' # "connect" /\ zk' # "connecting"
            BY <2>6
        <3> QED BY <2>6, <3>1, <3>2 DEF BackupFollows
    <2>7. CASE Unlinked
        BY <2>7, UnlinkedChange DEF BackupFollows
    <2>8. zk = "connecting" => zk' = "rearm" /\ (Linked \/ Unlinked) /\ UNCHANGED endereco
        BY <1>9 DEF Handles, PrimaryGone, CloseBackup, Socket, Rearm, Calls
    <2> QED BY <1>9, <2>2, <2>3, <2>4, <2>5, <2>6, <2>7, <2>8, HandlesChange
<1> QED BY <1>3, <1>4, <1>5, <1>6, <1>7, <1>8, <1>9, StepCases

-----------------------------------------------------------------------------
(* Where the primary's socket leads before the first command *)

LEMMA PrimaryKept ==
    ASSUME PrimaryFollows, UNCHANGED sockets,
           Fresh' => up'[znode'["backup"]] = "up",
           Conn("primary") # 0 =>
              /\ znode'["primary"] # Nobody => conns[Conn("primary")].to = znode'["primary"]
              /\ Only("backup")' /\ flag_alteracao' = 2 => conns[Conn("primary")].to = znode'["backup"],
           Apart' => rtree["primary"] # rtree["backup"]
    PROVE  PrimaryFollows'
<1>1. Conn("primary")' = Conn("primary") /\ UNCHANGED <<conns, fd, rtree>>
    BY DEF sockets, Conn, Connection
<1> QED BY <1>1 DEF PrimaryFollows

\* What names and events say when the client is at rest.
LEMMA RestChange ==
    ASSUME TypeOK, Rooted, Watched, Running, calm, Situation, Outside, ~usurped'
    PROVE  /\ Fresh' => up'[znode'["backup"]] = "up"
           /\ \/ znode'["primary"] \in {znode["primary"], Nobody}
              \/ Only("backup") /\ flag_alteracao = 2 /\ znode'["primary"] = znode["backup"]
           /\ Only("backup")' /\ flag_alteracao' = 2 =>
                 Only("backup") /\ flag_alteracao = 2 /\ znode'["backup"] = znode["backup"]
           /\ Apart' => Apart
<1>1. /\ events = 0 /\ zk = "idle" /\ AtRest /\ UNCHANGED <<flag_alteracao, zk>>
      /\ (UNCHANGED <<znode, events>> \/ events' = 1) /\ ~usurped
    BY CalmChange, OutsideChange
<1>2. znode \in [Names -> Servers \cup {Nobody}] /\ up \in [Servers -> {"new", "up", "down"}]
    BY DEF TypeOK
<1>3. events # 1 /\ zk' \notin {"connecting", "exists primary", "close backup"} /\ ~Connecting'
      /\ zk' \in {"idle", "rearm"} /\ zk \in {"idle", "rearm"} /\ zk' # "connecting"
    BY <1>1 DEF Connecting
<1>4. Children # {}
    BY <1>1, NamesAre, Zenon DEF AtRest, Pair, Same, BackupDown
<1>5. CASE UNCHANGED <<znode, events>>
    <2>1. ~Fresh'
        BY <1>3, <1>5 DEF Fresh
    <2>2. Apart' => Apart
        BY <1>1, <1>3, <1>5, Zenon DEF Apart, Only, Both
    <2> QED BY <1>1, <1>5, <2>1, <2>2 DEF Only
<1>6. ASSUME NEW name, NEW owner, Changes(name, owner)
      PROVE  znode' = [znode EXCEPT ![name] = owner] /\ ~Usurps(name, owner)
    BY <1>6 DEF Changes
<1>7. CASE events' = 1
    <2>1. ASSUME NEW s \in Servers, up[s] = "new", up' = [up EXCEPT ![s] = "up"],
                 znode["primary"] # Nobody, znode["backup"] = Nobody, Changes("backup", s)
          PROVE  /\ Both' /\ up'[znode'["backup"]] = "up" /\ znode'["primary"] = znode["primary"]
        <3>1. znode'["backup"] = s /\ znode'["primary"] = znode["primary"] /\ up'[s] = "up"
            BY <1>2, <1>6, <2>1 DEF Names
        <3>2. s # Nobody
            BY ClientAssumption
        <3> QED BY <2>1, <3>1, <3>2, NamesAreThen
    <2>2. ASSUME NEW s \in Servers, up[s] = "up", Changes("primary", s), znode["primary"] = Nobody,
                 znode["backup"] = s
          PROVE  /\ Both' /\ ~Pair' /\ znode'["primary"] = znode["backup"]
                 /\ Only("backup") /\ flag_alteracao = 2
        <3>1. znode'["backup"] = s /\ znode'["primary"] = s
            BY <1>2, <1>6, <2>2 DEF Names
        <3>2. s # Nobody
            BY ClientAssumption
        <3>3. Only("backup")
            BY <2>2, <3>2, NamesAre
        <3>4. up[znode["backup"]] # "down"
            BY <2>2
        <3>5. flag_alteracao = 2
            BY <1>1, <3>3, <3>4, NamesAre, Zenon DEF AtRest, Pair, Same, BackupDown
        <3> QED BY <2>2, <3>1, <3>2, <3>3, <3>5, NamesAreThen DEF Pair
    <2>3. Changes("backup", Nobody) => /\ znode'["backup"] = Nobody /\ ~Pair' /\ ~Only("backup")'
                                       /\ znode'["primary"] = znode["primary"]
        BY <1>2, <1>6, NamesAreThen DEF Names, Pair
    <2>4. Changes("primary", Nobody) => /\ znode'["primary"] = Nobody /\ ~Pair'
                                        /\ znode'["backup"] = znode["backup"]
                                        /\ ~Only("primary")'
        BY <1>2, <1>6, NamesAreThen DEF Names, Pair
    <2>5. (\E s \in Servers : Dies(s)) => UNCHANGED <<znode, events>>
        BY DEF Dies
    <2>6. CASE \E s \in Servers : Joins(s)
        <3>1. PICK s \in Servers : Joins(s)
            BY <2>6
        <3>2. up[s] = "new" /\ up' = [up EXCEPT ![s] = "up"] /\ s # Nobody /\ znode["backup"] # s
            BY <3>1, ClientAssumption DEF Joins, Rooted, Names
        <3>6. ~(znode["primary"] = Nobody /\ Changes("primary", s))
            BY <1>4, <1>6, <3>2, NamesAre DEF Usurps
        <3>7. znode["primary"] # Nobody /\ znode["backup"] = Nobody /\ Changes("backup", s)
            BY <3>1, <3>6 DEF Joins
        <3>3. Both' /\ up'[znode'["backup"]] = "up" /\ znode'["primary"] = znode["primary"]
            BY <2>1, <3>2, <3>7
        <3>4. ~Only("backup")' /\ ~Only("primary")'
            BY <3>3, NamesAreThen
        <3>5. ~Apart'
            <4>1. events' # 0
                BY <1>7
            <4> QED BY <1>3, <3>4, <4>1, Zenon DEF Apart
        <3> QED BY <3>3, <3>4, <3>5
    <2>7. CASE \E s \in Servers : TakesOver(s)
        <3>1. /\ Both' /\ ~Pair' /\ znode'["primary"] = znode["backup"]
              /\ Only("backup") /\ flag_alteracao = 2
            BY <2>2, <2>7 DEF TakesOver
        <3>2. ~Only("backup")' /\ ~Only("primary")'
            BY <3>1, NamesAreThen
        <3>3. ~Apart'
            <4>1. events' # 0
                BY <1>7
            <4> QED BY <1>3, <3>2, <4>1, Zenon DEF Apart
        <3>4. ~Fresh'
            BY <3>1, Zenon DEF Fresh
        <3> QED BY <3>1, <3>2, <3>3, <3>4
    <2>8. CASE Changes("backup", Nobody) /\ znode["backup"] # Nobody
        <3>1. /\ ~Pair' /\ ~Only("backup")' /\ znode'["primary"] = znode["primary"]
              /\ znode'["backup"] = Nobody
            BY <2>3, <2>8
        <3>2. Apart' => Apart
            <4>1. SUFFICES ASSUME Apart' PROVE Apart
                OBVIOUS
            <4>2. events' # 0
                BY <1>7
            <4>3. Only("primary")' /\ flag_alteracao' = 0
                BY <1>3, <4>1, <4>2, Zenon DEF Apart
            <4>4. Both
                BY <2>8, <3>1, <4>3, NamesAre, NamesAreThen
            <4> QED BY <1>1, <1>3, <4>3, <4>4, Zenon DEF Apart
        <3>3. ~Fresh'
            BY <3>1, Zenon DEF Fresh
        <3> QED BY <3>1, <3>2, <3>3
    <2>9. CASE Changes("primary", Nobody) /\ znode["primary"] # Nobody
        <3>1. /\ ~Pair' /\ ~Only("primary")' /\ znode'["primary"] = Nobody
              /\ znode'["backup"] = znode["backup"]
            BY <2>4, <2>9
        <3>2. ~Apart'
            <4>1. events' # 0
                BY <1>7
            <4> QED BY <1>3, <3>1, <4>1, Zenon DEF Apart
        <3>3. ~Fresh'
            BY <3>1, Zenon DEF Fresh
        <3>4. flag_alteracao # 2
            <4>1. ~Only("backup")
                BY <2>9, NamesAre
            <4>2. CASE flag_alteracao \in {0, 1}
                BY <4>2
            <4> QED BY <1>1, <4>1, <4>2 DEF AtRest, BackupDown
        <3> QED BY <1>1, <3>1, <3>2, <3>3, <3>4
    <2>10. (\E s \in Servers : DropsBackup(s)) => Changes("backup", Nobody) /\ znode["backup"] # Nobody
        BY ClientAssumption DEF DropsBackup, Names
    <2>11. ASSUME NEW name \in Names, Expires(name)
           PROVE  \/ Changes("primary", Nobody) /\ znode["primary"] # Nobody
                  \/ Changes("backup", Nobody) /\ znode["backup"] # Nobody
        BY <2>11 DEF Expires, Names
    <2> QED BY <1>5, <2>5, <2>6, <2>7, <2>8, <2>9, <2>10, <2>11 DEF Outside
<1> QED BY <1>1, <1>5, <1>7

LEMMA PrimaryStart ==
    ASSUME TypeOK, Rooted, RtreeConnect, Running'
    PROVE  PrimaryFollows'
<1>1. main = "start" /\ Children = Names /\ NetworkConnect /\ UNCHANGED <<znode, events, zk>>
    BY DEF RtreeConnect, Exits, Running
<1>2. /\ conns' = <<NewConnection(znode["primary"]), NewConnection(znode["backup"])>>
      /\ fd'[1] = 1 /\ fd'[2] = 2 /\ rtree'["primary"] = 1 /\ rtree'["backup"] = 2
    BY <1>1, StartChange
<1>3. conns'[1].to = znode["primary"]
    BY <1>2 DEF NewConnection
<1>4. Conn("primary")' = 1
    BY <1>2 DEF Conn, Connection, Minus1
<1>5. \A name \in Names : fd'[rtree'[name]] # 0
    BY <1>2 DEF Names
<1>6. Both' /\ ~Only("backup")' /\ ~Only("primary")'
    BY <1>1, NamesAre, NamesAreThen
<1>7. ~Fresh'
    <2>1. events = 0 /\ zk = "idle"
        BY <1>1, Zenon DEF Rooted
    <2>2. events' # 1
        BY <1>1, <2>1
    <2>3. ~Connecting'
        BY <1>1, <2>1 DEF Connecting
    <2> QED BY <2>2, <2>3, Zenon DEF Fresh
<1>8. rtree'["primary"] # rtree'["backup"]
    BY <1>2
<1> QED BY <1>1, <1>3, <1>4, <1>5, <1>6, <1>7, <1>8, Zenon DEF PrimaryFollows

\* The two links while the watcher works.
LEMMA PrimaryTakeOver ==
    ASSUME TypeOK, Rooted, Running, Situation, Address, BackupFollows, PrimaryFollows,
           zk = "take over", zk' = "rearm", flag_alteracao' = 2,
           rtree' = [rtree EXCEPT !["primary"] = rtree["backup"]],
           UNCHANGED <<servers, conns, fd, endereco>>,
           Conn("primary")' = Conn("backup")
    PROVE  PrimaryFollows'
<1>1. events = 0 /\ Only("backup")
    <2>1. zk \notin {"idle", "rearm"}
        OBVIOUS
    <2> QED BY <2>1, SituationHandling
<1>2. Only("backup")' /\ ~Only("primary")' /\ ~Both' /\ ~Pair' /\ UNCHANGED <<znode, conns, fd>>
      /\ znode["primary"] = Nobody
    BY <1>1, NamesAre, NamesAreThen DEF servers, Pair
<1>3. Conn("backup") # 0 => conns[Conn("backup")].to = znode["backup"]
    <2>1. zk # "connect" /\ zk # "connecting" /\ zk # "read backup"
        OBVIOUS
    <2>2. endereco = znode["backup"]
        BY <1>1, <1>2, <2>1, NamesAre DEF Address, ToBeRead, Pair
    <2> QED BY <2>1, <2>2 DEF BackupFollows
<1>4. rtree'["primary"] = rtree["backup"] /\ rtree'["backup"] = rtree["backup"]
    <2>1. rtree \in [Names -> {Minus1} \cup Descriptors]
        BY DEF TypeOK
    <2> QED BY <2>1 DEF Names
<1>5. \A name \in Names : rtree'[name] # Minus1 => fd'[rtree'[name]] # 0
    BY <1>2, <1>4 DEF PrimaryFollows, Names
<1>6. ~Fresh' /\ ~Apart'
    <2>1. zk' # "connecting"
        OBVIOUS
    <2> QED BY <1>2, <2>1, Zenon DEF Fresh, Apart
<1>7. Conn("primary")' # 0 => conns'[Conn("primary")'].to = znode'["backup"]
    BY <1>2, <1>3
<1> QED BY <1>2, <1>5, <1>6, <1>7, Zenon DEF PrimaryFollows

LEMMA PrimaryCloses ==
    ASSUME TypeOK, Rooted, Running, Situation, PrimaryFollows, CloseBackup
    PROVE  PrimaryFollows'
<1>1. /\ Shut /\ zk = "close backup" /\ zk' = "rearm" /\ Conn("backup")' = 0
      /\ \A d \in Descriptors : d # rtree["backup"] => fd'[d] = fd[d]
      /\ rtree'["primary"] = rtree["primary"]
    BY CloseChange
<1>2. UNCHANGED <<servers, conns, flag_alteracao>> /\ rtree' = [rtree EXCEPT !["backup"] = Minus1]
    BY DEF CloseBackup
<1>3. events = 0 /\ flag_alteracao = 0 /\ Only("primary")
    <2>1. zk \notin {"idle", "rearm"}
        BY <1>1
    <2> QED BY <1>1, <2>1, SituationHandling
<1>4. UNCHANGED <<znode, events>> /\ Only("primary")' /\ ~Only("backup")' /\ ~Both' /\ ~Pair'
    BY <1>2, <1>3, NamesAre, NamesAreThen DEF servers, Pair
<1>5. rtree["primary"] # rtree["backup"]
    BY <1>1, <1>3, Zenon DEF PrimaryFollows, Apart
<1>6. rtree \in [Names -> {Minus1} \cup Descriptors]
    BY DEF TypeOK
<1>7. rtree'["backup"] = Minus1
    BY <1>2, <1>6 DEF Names
<1>8. Conn("primary")' = Conn("primary")
    BY <1>1, <1>5, <1>6 DEF Conn, Connection, Names
<1>9. \A name \in Names : rtree'[name] # Minus1 => fd'[rtree'[name]] # 0
    <2>1. rtree'["primary"] # Minus1 => fd'[rtree'["primary"]] # 0
        BY <1>1, <1>5, <1>6 DEF PrimaryFollows, Names
    <2> QED BY <1>7, <2>1 DEF Names
<1>10. ~Fresh' /\ ~Apart'
    <2>1. events' # 1
        BY <1>3, <1>4
    <2>2. zk' \notin {"exists primary", "close backup"} /\ zk' # "connecting"
        BY <1>1
    <2> QED BY <1>4, <2>1, <2>2, Zenon DEF Fresh, Apart
<1>11. Conn("primary")' # 0 /\ znode'["primary"] # Nobody =>
          conns'[Conn("primary")'].to = znode'["primary"]
    BY <1>2, <1>4, <1>8 DEF PrimaryFollows
<1> QED BY <1>4, <1>9, <1>10, <1>11, Zenon DEF PrimaryFollows

LEMMA PrimarySocket ==
    ASSUME TypeOK, Rooted, Running, Situation, PrimaryFollows, ~usurped, Socket, UNCHANGED servers
    PROVE  PrimaryFollows'
<1>1. zk = "connect" /\ zk' = "connecting" /\ Connecting /\ zk \notin {"idle", "rearm"}
    BY SocketChange DEF Connecting
<1>2. Pair
    BY <1>1, SituationHandling DEF Joined
<1>3. Pair' /\ Both' /\ ~Only("backup")' /\ ~Only("primary")' /\ UNCHANGED <<up, znode>>
    BY <1>2, NamesAre, NamesAreThen DEF servers, Pair
<1>4. /\ \A c \in DOMAIN conns : conns'[c] = conns[c]
      /\ rtree'["backup"] = LowestFree /\ rtree'["primary"] = rtree["primary"]
      /\ LowestFree \in Descriptors /\ fd[LowestFree] = 0 /\ fd'[LowestFree] = Len(conns) + 1
      /\ \A d \in Descriptors : d # LowestFree => fd'[d] = fd[d]
      /\ rtree["primary"] # LowestFree => Conn("primary")' = Conn("primary")
    BY SocketChange
<1>5. fd'[LowestFree] # 0
    BY <1>4, ConnOf
<1>6. rtree["primary"] \in {Minus1} \cup Descriptors /\ Minus1 \notin Descriptors
    <2>1. rtree["primary"] \in {Minus1} \cup Descriptors
        BY DEF TypeOK, Names
    <2>2. Minus1 \notin Descriptors
        BY DEF Minus1, Descriptors
    <2> QED BY <2>1, <2>2
<1>7. rtree["primary"] # LowestFree
    BY <1>4, <1>6 DEF PrimaryFollows, Names
<1>8. \A name \in Names : rtree'[name] # Minus1 => fd'[rtree'[name]] # 0
    BY <1>4, <1>5, <1>6, <1>7 DEF PrimaryFollows, Names
<1>9. up'[znode'["backup"]] = "up"
    BY <1>1, <1>2, <1>3 DEF PrimaryFollows, Fresh
<1>10. Conn("primary")' # 0 /\ znode'["primary"] # Nobody =>
          conns'[Conn("primary")'].to = znode'["primary"]
    <2>1. Conn("primary") # 0 => Conn("primary") \in DOMAIN conns
        BY ConnRange DEF Names
    <2> QED BY <1>3, <1>4, <1>7, <2>1 DEF PrimaryFollows
<1>11. rtree'["primary"] # rtree'["backup"]
    BY <1>4, <1>7
<1> QED BY <1>3, <1>8, <1>9, <1>10, <1>11, Zenon DEF PrimaryFollows

\* The new backup was up when it joined, so that connect does not fail.
LEMMA PrimaryConnects ==
    ASSUME TypeOK, Rooted, Running, Situation, Address, PrimaryFollows, ~usurped,
           zk = "connecting", zk' = "rearm", Linked \/ Unlinked,
           UNCHANGED <<servers, rtree, endereco, flag_alteracao>>
    PROVE  PrimaryFollows'
<1>1. Connecting /\ zk \notin {"idle", "rearm"} /\ zk # "read backup" /\ ~Connecting' /\ zk' # "connecting"
    BY DEF Connecting
<1>2. Pair /\ events = 0
    BY <1>1, SituationHandling DEF Joined
<1>3. /\ Pair' /\ Both' /\ ~Only("backup")' /\ ~Only("primary")'
      /\ UNCHANGED <<up, znode, events>>
    BY <1>2, NamesAre, NamesAreThen DEF servers, Pair
<1>4. up[endereco] = "up"
    <2>1. up[znode["backup"]] = "up"
        BY <1>1, <1>2 DEF PrimaryFollows, Fresh
    <2>2. events # 1
        BY <1>2
    <2>3. endereco = znode["backup"]
        BY <1>1, <1>2, <2>2, NamesAre DEF Address, ToBeRead, Pair
    <2> QED BY <2>1, <2>3
<1>5. /\ rtree \in [Names -> {Minus1} \cup Descriptors] /\ fd \in [Descriptors -> 0..Len(conns)]
      /\ "primary" \in Names /\ "backup" \in Names
    BY DEF TypeOK, Names
<1>6. fd' = fd /\ \A c \in DOMAIN conns : c # Conn("backup") => conns'[c] = conns[c]
    <2>1. CASE Linked
        BY <2>1, LinkedChange DEF Linked
    <2>2. CASE Unlinked
        <3>1. Conn("backup") = 0 /\ conns' = conns
            BY <1>4, <2>2, UnlinkedChange
        <3>2. rtree["backup"] = Minus1
            BY <1>5, <3>1 DEF PrimaryFollows, Conn, Connection
        <3> QED BY <2>2, <3>1, <3>2 DEF Unlinked, Close
    <2> QED BY <2>1, <2>2
<1>7. rtree["primary"] # rtree["backup"]
    BY DEF PrimaryFollows, Apart
<1>8. Conn("primary")' = Conn("primary")
    BY <1>6 DEF Conn, Connection
<1>9. Conn("primary") # 0 => Conn("primary") # Conn("backup")
    BY <1>5, <1>7 DEF Conn, Connection, Rooted
<1>10. Conn("primary")' # 0 /\ znode'["primary"] # Nobody =>
          conns'[Conn("primary")'].to = znode'["primary"]
    <2>1. Conn("primary") # 0 => Conn("primary") \in DOMAIN conns
        BY <1>5, ConnRange
    <2> QED BY <1>3, <1>6, <1>8, <1>9, <2>1 DEF PrimaryFollows
<1>11. ~Fresh'
    <2>1. events' # 1
        BY <1>2, <1>3
    <2> QED BY <1>1, <2>1, Zenon DEF Fresh
<1>12. /\ \A name \in Names : rtree'[name] # Minus1 => fd'[rtree'[name]] # 0
       /\ rtree'["primary"] # rtree'["backup"]
    BY <1>6, <1>7 DEF PrimaryFollows
<1> QED BY <1>3, <1>10, <1>11, <1>12, Zenon DEF PrimaryFollows

HandlesEvent ==
    /\ zk = "idle" /\ events > 0 /\ events' = events - 1 /\ Children # {} /\ UNCHANGED sockets
    /\ \/ Skips /\ flag_alteracao' = flag_alteracao - 1 /\ zk' = "rearm"
       \/ ~Skips /\ zk' = (IF Children = Names THEN "read backup" ELSE "exists primary")
          /\ UNCHANGED flag_alteracao

LEMMA PrimaryEvent ==
    ASSUME TypeOK, Rooted, Running, Situation, PrimaryFollows, ~usurped, UNCHANGED <<znode, up>>, HandlesEvent
    PROVE  PrimaryFollows'
<1>1. events = 1 /\ OnEvent /\ events' # 1
    <2>1. events = 0 \/ events = 1
        BY SituationGives
    <2>2. events > 0 /\ events' = events - 1
        BY Zenon DEF HandlesEvent
    <2>3. events = 1 /\ events' # 1
        BY <2>1, <2>2
    <2> QED BY <2>3, SituationGives
<1>2. /\ Only("primary")' = Only("primary") /\ Only("backup")' = Only("backup")
      /\ Both' = Both /\ Pair' = Pair
    BY DEF Only, Both, Pair
<1>3. flag_alteracao \in {0, 1, 2}
    <2>1. flag_alteracao \in 0..2
        BY DEF TypeOK
    <2> QED BY <2>1
<1>6. UNCHANGED <<up, znode, sockets>>
    BY Zenon DEF HandlesEvent
<1>4. CASE Skips /\ flag_alteracao' = flag_alteracao - 1 /\ zk' = "rearm"
    <2>1. flag_alteracao \in {1, 2}
        <3>1. Skips
            BY <1>4, Zenon
        <3> QED BY <1>3, <3>1 DEF Skips
    <2>2. flag_alteracao' \in {0, 1} /\ (flag_alteracao' = 0 => flag_alteracao = 1)
        <3>1. flag_alteracao' = flag_alteracao - 1
            BY <1>4, Zenon
        <3> QED BY <2>1, <3>1
    <2>3. flag_alteracao' # 2 /\ flag_alteracao # 0
        BY <2>1, <2>2
    <2>4. flag_alteracao = 1 => flag_alteracao # 2 /\ flag_alteracao # 0
        OBVIOUS
    <2>5. zk' \notin {"exists primary", "close backup"} /\ ~Connecting' /\ zk' # "connecting"
        BY <1>4 DEF Connecting
    <2>6. ~Fresh'
        BY <1>1, <2>5, Zenon DEF Fresh
    <2>7. ~Apart'
        <3>1. SUFFICES ASSUME Apart' PROVE FALSE
            OBVIOUS
        <3>2. Both' /\ flag_alteracao' = 0
            BY <1>1, <2>5, <3>1, Zenon DEF Apart
        <3>3. flag_alteracao = 1
            BY <2>2, <3>2
        <3>4. flag_alteracao # 0 /\ flag_alteracao # 2
            BY <2>4, <3>3
        <3>5. Both /\ Children # {}
            BY <1>2, <3>2, Zenon DEF HandlesEvent
        <3> QED BY <1>1, <3>4, <3>5, NamesAre, Zenon DEF OnEvent, Pair, Same, BackupDown
    <2> QED BY <1>6, <2>3, <2>6, <2>7, PrimaryKept, Zenon DEF PrimaryFollows
<1>5. CASE ~Skips /\ zk' = (IF Children = Names THEN "read backup" ELSE "exists primary")
           /\ UNCHANGED flag_alteracao
    <2>1. flag_alteracao = 0
        <3>1. ~Skips
            BY <1>5, Zenon
        <3> QED BY <1>3, <3>1 DEF Skips
    <2>2. flag_alteracao' # 2
        <3>1. flag_alteracao' = flag_alteracao
            BY <1>5, Zenon
        <3> QED BY <2>1, <3>1
    <2>3. Fresh' => Fresh
        BY <1>1, <1>2, Zenon DEF Fresh
    <2>4. Apart' => Apart
        <3>1. zk' \in {"read backup", "exists primary"}
            BY <1>5
        <3>2. zk' \notin {"idle", "rearm"} /\ zk' # "connecting"
            BY <3>1
        <3> QED BY <1>1, <1>2, <2>1, <3>2, Zenon DEF Apart
    <2> QED BY <1>6, <2>2, <2>3, <2>4, PrimaryKept, Zenon DEF PrimaryFollows
<1> QED BY <1>4, <1>5, Zenon DEF HandlesEvent

\* The handler's calls that only look.
LEMMA PrimaryLooks ==
    ASSUME TypeOK, Rooted, Running, Situation, PrimaryFollows, UNCHANGED <<up, znode, events, sockets>>,
           \/ PrimaryGone
           \/ zk = "read backup" /\ zk' = "connect" /\ UNCHANGED flag_alteracao
           \/ Rearm
    PROVE  PrimaryFollows'
<1>1. /\ UNCHANGED flag_alteracao
      /\ \/ zk = "exists primary" /\ zk' \in {"take over", "close backup"}
         \/ zk = "read backup" /\ zk' = "connect"
         \/ zk = "rearm" /\ zk' = "idle"
    BY DEF PrimaryGone, Rearm, Calls
<1>2. events = 0
    <2>1. zk # "idle"
        BY <1>1
    <2> QED BY <2>1, SituationGives
<1>3. /\ Only("primary")' = Only("primary") /\ Only("backup")' = Only("backup")
      /\ Both' = Both /\ Pair' = Pair
    BY DEF Only, Both, Pair
<1>4. events # 1
    BY <1>2, ZeroIsSmall, Zenon
<1>5. Fresh' => Fresh
    <2>1. Connecting' => Connecting
        BY <1>1 DEF Connecting
    <2> QED BY <1>3, <1>4, <2>1, Zenon DEF Fresh
<1>6. Apart' => Apart
    <2>1. /\ zk' \in {"exists primary", "close backup"} => zk \in {"exists primary", "close backup"}
          /\ zk' \in {"idle", "rearm"} => zk \in {"idle", "rearm"}
          /\ zk' # "connecting"
        BY <1>1
    <2> QED BY <1>1, <1>3, <1>4, <2>1, Zenon DEF Apart
<1> QED BY <1>1, <1>3, <1>5, <1>6, PrimaryKept, Zenon DEF PrimaryFollows

LEMMA PrimaryFollowsStep ==
    ASSUME TypeOK, Rooted, InTurn, Watched, Running => BackupFollows,
           Running /\ calm => Situation /\ Address,
           Running /\ calm /\ commands = << >> /\ ~usurped => PrimaryFollows,
           Next, Running', calm', commands' = << >>, ~usurped'
    PROVE  PrimaryFollows'
<1>1. CASE Outside
    <2>1. UNCHANGED <<calm, sockets, zkthread, mainthread>>
        BY <1>1, OutsideChange
    <2>6. ~usurped
        BY <1>1, OutsideChange
    <2>2. Running /\ calm /\ commands = << >> /\ Situation /\ PrimaryFollows
        BY <2>1, <2>6 DEF mainthread, Running
    <2>3. /\ Fresh' => up'[znode'["backup"]] = "up"
          /\ \/ znode'["primary"] \in {znode["primary"], Nobody}
             \/ Only("backup") /\ flag_alteracao = 2 /\ znode'["primary"] = znode["backup"]
          /\ Only("backup")' /\ flag_alteracao' = 2 =>
                Only("backup") /\ flag_alteracao = 2 /\ znode'["backup"] = znode["backup"]
          /\ Apart' => Apart
        BY <1>1, <2>2, RestChange
    <2>4. Conn("primary") # 0 =>
              /\ znode'["primary"] # Nobody => conns[Conn("primary")].to = znode'["primary"]
              /\ Only("backup")' /\ flag_alteracao' = 2 => conns[Conn("primary")].to = znode'["backup"]
        BY <2>2, <2>3 DEF PrimaryFollows
    <2>5. Apart' => rtree["primary"] # rtree["backup"]
        BY <2>2, <2>3 DEF PrimaryFollows
    <2> QED BY <2>1, <2>2, <2>3, <2>4, <2>5, PrimaryKept
<1>2. ASSUME NEW c \in DOMAIN conns, Answers(c) \/ Breaks(c) PROVE FALSE
    <2>1. commands = << >>
        BY <1>2, AnsweringChange DEF mainthread
    <2>2. conns[c].asked = << >>
        BY <2>1 DEF InTurn, InTurnAt
    <2>3. Len(conns[c].asked) = 0
        BY <2>2
    <2>4. CASE Answers(c)
        BY <2>3, <2>4 DEF Answers
    <2>5. CASE Breaks(c)
        BY <2>2, <2>3, <2>5 DEF Breaks
    <2> QED BY <1>2, <2>4, <2>5
<1>3. CASE RtreeConnect
    BY <1>3, PrimaryStart
<1>4. ASSUME NEW op \in Ops, Command(op) PROVE FALSE
    <2>1. Len(commands') = Len(commands) + 1 /\ Len(commands) \in Nat
        BY <1>4, CommandChange, CommandsOf
    <2> QED BY <2>1
<1>5. CASE Calling
    BY <1>5, CallingChange
<1>6. CASE Quit \/ (Dead /\ UNCHANGED <<calm, usurped, up, znode>>)
    BY <1>6 DEF Quit, Dead, Exits, Running
<1>7. CASE Running /\ Handles /\ UNCHANGED <<calm, usurped, up, znode, mainthread>>
    <2>1. calm /\ commands = << >> /\ ~usurped /\ UNCHANGED <<up, znode>>
        BY <1>7 DEF mainthread
    <2>2. Situation /\ Address /\ BackupFollows /\ PrimaryFollows
        BY <1>7, <2>1
    <2>3. CASE HandlesEvent
        BY <1>7, <2>1, <2>2, <2>3, PrimaryEvent
    <2>4. CASE PrimaryGone
        <3>1. UNCHANGED <<events, sockets>>
            BY <2>4 DEF PrimaryGone, servers
        <3> QED BY <1>7, <2>1, <2>2, <2>4, <3>1, PrimaryLooks
    <2>5. CASE /\ zk = "take over" /\ znode["backup"] # Nobody /\ flag_alteracao' = 2 /\ zk' = "rearm"
               /\ rtree' = [rtree EXCEPT !["primary"] = rtree["backup"]]
               /\ UNCHANGED <<servers, conns, fd, endereco>>
        <3>1. Conn("primary")' = Conn("backup")
            <4>1. rtree \in [Names -> {Minus1} \cup Descriptors]
                BY DEF TypeOK
            <4>2. rtree'["primary"] = rtree["backup"]
                BY <2>5, <4>1 DEF Names
            <4>3. fd' = fd
                BY <2>5
            <4> QED BY <4>2, <4>3, Zenon DEF Conn, Connection
        <3> QED BY <1>7, <2>2, <2>5, <3>1, PrimaryTakeOver
    <2>6. CASE CloseBackup
        BY <1>7, <2>2, <2>6, PrimaryCloses
    <2>7. CASE zk = "read backup" /\ zk' = "connect" /\ UNCHANGED <<servers, sockets, flag_alteracao>>
        <3>1. UNCHANGED events
            BY <2>7 DEF servers
        <3> QED BY <1>7, <2>1, <2>2, <2>7, <3>1, PrimaryLooks
    <2>8. CASE /\ zk = "connecting" /\ zk' = "rearm" /\ (Linked \/ Unlinked)
               /\ UNCHANGED <<servers, rtree, endereco, flag_alteracao>>
        BY <1>7, <2>1, <2>2, <2>8, PrimaryConnects
    <2>10. CASE Socket
        <3>1. UNCHANGED servers
            BY <2>10 DEF Socket
        <3> QED BY <1>7, <2>1, <2>2, <2>10, <3>1, PrimarySocket
    <2>9. CASE Rearm
        <3>1. UNCHANGED <<events, sockets>>
            BY <2>9 DEF Rearm
        <3> QED BY <1>7, <2>1, <2>2, <2>9, <3>1, PrimaryLooks
    <2> QED BY <1>7, <2>3, <2>4, <2>5, <2>6, <2>7, <2>8, <2>9, <2>10, Zenon DEF Handles, HandlesEvent
<1> QED BY <1>1, <1>2, <1>3, <1>4, <1>5, <1>6, <1>7, StepCases

-----------------------------------------------------------------------------
(* What lies on the connections, and whose it is *)

LEMMA StuckKept ==
    ASSUME TypeOK, NEW c \in DOMAIN conns,
           conns'[c].to = conns[c].to, conns'[c].open \in {conns[c].open, FALSE},
           \A s \in Servers : up[s] = "down" => up'[s] = "down",
           conns'[c].asked = conns[c].asked
    PROVE  (Gone(c) => Gone(c)') /\ (Stuck(c) => Stuck(c)')
<1>1. conns[c].to \in Servers \cup {Nobody} /\ conns[c].open \in BOOLEAN
    BY ConnOf
<1>2. Gone(c) => Gone(c)'
    BY <1>1 DEF Gone
<1> QED BY <1>2 DEF Stuck

\* What a step of another actor keeps of a connection.
Kept(c) == /\ Still(c) => Still(c)'
           /\ Announced(c) => Announced(c)'
           /\ Pending(c) => Pending(c)'
           /\ Tame(c) => Tame(c)'

LEMMA SameKept ==
    ASSUME TypeOK, NEW c \in DOMAIN conns,
           conns'[c].to = conns[c].to, conns'[c].open \in {conns[c].open, FALSE},
           \A s \in Servers : up[s] = "down" => up'[s] = "down",
           conns'[c].asked = conns[c].asked, conns'[c].replies = conns[c].replies,
           UNCHANGED mainthread
    PROVE  Kept(c)
<1>1. Stuck(c) => Stuck(c)'
    BY StuckKept
<1>2. UNCHANGED <<main, reading, commands>>
    BY DEF mainthread
<1>3. Still(c) => Still(c)'
    BY <1>1 DEF Still
<1>4. Announced(c) => Announced(c)'
    BY DEF Announced
<1>5. Pending(c) => Pending(c)'
    BY <1>2 DEF Pending
<1>6. \A n : Harmless(n, c) => Harmless(n, c)'
    BY <1>2 DEF Harmless, Now
<1>7. Tame(c) => Tame(c)'
    BY <1>1, <1>6 DEF Tame
<1> QED BY <1>3, <1>4, <1>5, <1>7 DEF Kept

LEMMA SubSeqOfTwo ==
    ASSUME NEW S, NEW a \in S, NEW b \in S
    PROVE  SubSeq(<<a, b>>, 3, 2) = << >>
OBVIOUS

LEMMA AnsweredKept ==
    ASSUME TypeOK, Rooted, InTurn, NEW c \in DOMAIN conns, Answers(c)
    PROVE  Kept(c)
<1>1. PICK n \in 1..Len(commands), reply \in Replies :
              /\ ~Gone(c) /\ Len(conns[c].asked) >= 2 /\ conns[c].asked[1] = Length
              /\ conns[c].asked[2] = n /\ reply.number = n /\ reply.op = commands[n]
              /\ conns' \in Seq(ConnType) /\ Len(conns') = Len(conns)
              /\ DOMAIN conns' = DOMAIN conns
              /\ conns'[c].to = conns[c].to /\ conns'[c].open = conns[c].open
              /\ conns'[c].asked = SubSeq(conns[c].asked, 3, Len(conns[c].asked))
              /\ conns'[c].replies = Append(conns[c].replies, reply)
              /\ \A b \in DOMAIN conns : b # c => conns'[b] = conns[b]
    BY AnswersChange
<1> DEFINE asked == conns[c].asked  replies == conns[c].replies
<1>2. asked \in Seq(0..MaxCommands) /\ replies \in Seq(Replies)
    BY ConnOf
<1>3. UNCHANGED <<main, reading, commands>> /\ n # Length
    <2>1. n # Length
        BY CommandsOf DEF Length
    <2> QED BY <2>1 DEF Answers, mainthread
<1>4. ~Stuck(c)
    BY <1>1, <1>3 DEF Stuck
<1>5. asked # << >> /\ asked # <<Length>>
    <2>1. Len(asked) # 0 /\ Len(asked) # 1
        BY <1>1, <1>2
    <2>2. Len(<< >>) = 0 /\ Len(<<Length>>) = 1
        OBVIOUS
    <2> QED BY <2>1, <2>2, Zenon
<1>6. ~Still(c) /\ ~Announced(c)
    BY <1>4, <1>5 DEF Still, Announced
<1>7. Pending(c) => Pending(c)'
    <2>1. SUFFICES ASSUME Pending(c) PROVE Pending(c)'
        OBVIOUS
    <2>2. replies = << >> /\ asked = <<Length, Len(commands)>>
        BY <1>5, <2>1 DEF Pending
    <2>3. n = Len(commands) /\ Len(asked) = 2
        BY <1>1, <2>2
    <2>4. conns'[c].asked = << >>
        <3>1. asked[1] \in 0..MaxCommands /\ asked[2] \in 0..MaxCommands
            <4>1. 1 \in DOMAIN asked /\ 2 \in DOMAIN asked
                BY <2>3, AskedOf
            <4> QED BY <4>1, AskedOf
        <3>2. asked = <<asked[1], asked[2]>>
            BY <2>2
        <3>3. SubSeq(asked, 3, 2) = << >>
            BY <3>1, <3>2, SubSeqOfTwo
        <3> QED BY <1>1, <2>3, <3>3
    <2>5. conns'[c].replies = <<reply>>
        BY <1>1, <2>2
    <2>6. Len(conns'[c].replies) = 1 /\ conns'[c].replies[1].number = Len(commands)
        BY <1>1, <2>3, <2>5
    <2> QED BY <1>3, <2>4, <2>6 DEF Pending
<1>8. Tame(c) => Tame(c)'
    <2>1. SUFFICES ASSUME Tame(c) PROVE Tame(c)'
        OBVIOUS
    <2>2. /\ \A k \in DOMAIN replies : Harmless(replies[k].number, c)
          /\ \A i \in DOMAIN asked : asked[i] # Length => Harmless(asked[i], c)
        BY <1>4, <2>1 DEF Tame
    <2>3. \A m : Harmless(m, c) => Harmless(m, c)'
        BY <1>3 DEF Harmless, Now
    <2>4. Harmless(n, c)
        <3>1. 2 \in DOMAIN asked
            BY <1>1, <1>2
        <3> QED BY <1>1, <1>3, <2>2, <3>1
    <2>5. \A k \in DOMAIN conns'[c].replies : Harmless(conns'[c].replies[k].number, c)
        <3>1. TAKE k \in DOMAIN conns'[c].replies
        <3>2. k \in 1..(Len(replies) + 1)
            BY <1>1, <1>2
        <3>3. CASE k = Len(replies) + 1
            <4>1. conns'[c].replies[k] = reply
                BY <1>1, <1>2, <3>3
            <4> QED BY <1>1, <2>4, <4>1
        <3>4. CASE k \in 1..Len(replies)
            <4>1. conns'[c].replies[k] = replies[k] /\ k \in DOMAIN replies
                BY <1>1, <1>2, <3>4
            <4> QED BY <2>2, <4>1
        <3> QED BY <1>2, <3>2, <3>3, <3>4
    <2>6. \A i \in DOMAIN conns'[c].asked : conns'[c].asked[i] # Length => Harmless(conns'[c].asked[i], c)
        <3>1. TAKE i \in DOMAIN conns'[c].asked
        <3>2. conns'[c].asked[i] = asked[i + 2] /\ i + 2 \in DOMAIN asked
            BY <1>1, <1>2
        <3> QED BY <2>2, <3>2
    <2> QED BY <2>3, <2>5, <2>6 DEF Tame
<1> QED BY <1>6, <1>7, <1>8 DEF Kept

\* Nothing is on a connection when it is made.
LEMMA LinkedKept ==
    ASSUME NEW c \in DOMAIN conns, conns[c].asked = << >>, conns[c].replies = << >>,
           conns'[c].asked = << >>, conns'[c].replies = << >>
    PROVE  Kept(c)
<1>1. Still(c)' /\ Tame(c)'
    BY DEF Still, Tame
<1>2. ~Announced(c) /\ ~Pending(c)
    <2>1. Len(<< >>) = 0 /\ Len(<<Length>>) = 1 /\ Len(<<Length, Len(commands)>>) = 2
        OBVIOUS
    <2>2. << >> # <<Length>> /\ << >> # <<Length, Len(commands)>> /\ Len(<< >>) # 1
        BY <2>1
    <2> QED BY <2>2, Zenon DEF Announced, Pending
<1> QED BY <1>1, <1>2 DEF Kept

LEMMA OthersKept ==
    ASSUME TypeOK, Rooted, InTurn, Unopened, Running => BackupFollows, NEW c \in DOMAIN conns,
           \/ Outside
           \/ \E b \in DOMAIN conns : Answers(b) \/ Breaks(b)
           \/ Running /\ Handles /\ UNCHANGED <<calm, usurped, up, znode, mainthread>>
    PROVE  Kept(c)
<1>1. CASE Outside
    <2>1. UNCHANGED <<sockets, mainthread>> /\ \A s \in Servers : up[s] = "down" => up'[s] = "down"
        BY <1>1, OutsideChange
    <2>2. conns'[c] = conns[c]
        BY <2>1 DEF sockets
    <2> QED BY <2>1, <2>2, SameKept
<1>2. CASE \E b \in DOMAIN conns : Answers(b) \/ Breaks(b)
    <2>1. UNCHANGED mainthread /\ \A s \in Servers : up[s] = "down" => up'[s] = "down"
        BY <1>2, AnsweringChange
    <2>2. ASSUME NEW b \in DOMAIN conns, Answers(b), b # c PROVE Kept(c)
        <3>1. conns'[c] = conns[c]
            BY <2>2, AnswersChange
        <3> QED BY <2>1, <3>1, SameKept
    <2>3. ASSUME NEW b \in DOMAIN conns, Breaks(b) PROVE Kept(c)
        BY <2>1, <2>3, BreaksChange, SameKept
    <2> QED BY <1>2, <2>2, <2>3, AnsweredKept
<1>3. CASE Running /\ Handles /\ UNCHANGED <<calm, usurped, up, znode, mainthread>>
    <2>1. CASE conns'[c] = conns[c]
        BY <1>3, <2>1, SameKept
    <2>2. CASE UNCHANGED conns
        BY <2>1, <2>2
    <2>3. CASE Socket
        BY <2>1, <2>3, SocketChange
    <2>4. CASE zk = "connecting" /\ Linked
        <3>1. CASE c # Conn("backup")
            BY <1>3, <2>1, <2>4, <3>1, LinkedChange
        <3>2. CASE c = Conn("backup")
            <4>1. Conn("backup") # 0 /\ conns[c].to = Nobody
                BY <1>3, <2>4, <3>2 DEF BackupFollows, Linked
            <4>2. conns[c].asked = << >> /\ conns[c].replies = << >>
                BY <4>1 DEF Unopened
            <4>3. conns'[c].asked = conns[c].asked /\ conns'[c].replies = conns[c].replies
                BY <1>3, <2>4, <3>2, LinkedChange
            <4> QED BY <4>2, <4>3, LinkedKept
        <3> QED BY <3>1, <3>2
    <2>5. Unlinked => UNCHANGED conns
        BY DEF Unlinked
    <2> QED BY <1>3, <2>2, <2>3, <2>4, <2>5, HandlesChange DEF sockets, CloseBackup
<1> QED BY <1>1, <1>2, <1>3

\* The same, of the connection that a field names after the step.
LEMMA StillAt == ASSUME NEW n, Conn("backup")' = n, Still(n)' PROVE Still(Conn("backup"))'
BY DEF Still, Stuck, Gone

LEMMA InUseAt == ASSUME NEW n, Conn("backup")' = n, InUse(n)' PROVE InUse(Conn("backup"))'
BY DEF InUse, Announced, Pending

LEMMA TameAt == ASSUME NEW n, Conn("primary")' = n, Tame(n)' PROVE Tame(Conn("primary"))'
BY DEF Tame, Stuck, Gone, Harmless, Now

LEMMA ReadingAt ==
    ASSUME NEW n, reading' = n
    PROVE  /\ Still(n)' => Still(reading)'
           /\ Pending(n)' => Pending(reading)'
           /\ Tame(n)' => Tame(reading)'
BY DEF Still, Pending, Tame, Stuck, Gone, Harmless, Now

LEMMA SideThen ==
    ASSUME TypeOK, commands # << >>, UNCHANGED commands
    PROVE  /\ Op' = Op /\ Side(Op)' = Side(Op)
           /\ \/ /\ Side(Op) = "primary" /\ Conn(Side(Op)) = Conn("primary")
                 /\ Conn(Side(Op))' = Conn("primary")'
              \/ /\ Side(Op) = "backup" /\ Conn(Side(Op)) = Conn("backup")
                 /\ Conn(Side(Op))' = Conn("backup")'
<1>1. Op' = Op
    BY DEF Op
<1>2. Side(Op)' = Side(Op) /\ Side(Op) \in {"primary", "backup"}
    BY <1>1 DEF Side
<1>3. Conn(Side(Op))' = Connection(rtree[Side(Op)])'
    BY DEF Conn
<1> QED BY <1>1, <1>2 DEF Conn, Connection

LEMMA OwnIsTame ==
    ASSUME TypeOK, Rooted, NEW c \in DOMAIN conns, Still(c) \/ InUse(c)
    PROVE  Tame(c)
<1> DEFINE asked == conns[c].asked  replies == conns[c].replies
<1>1. CASE Still(c)
    BY <1>1 DEF Still, Tame
<1>2. CASE InUse(c) /\ Announced(c)
    <2>1. replies = << >> /\ asked = <<Length>>
        BY <1>2 DEF Announced
    <2>2. DOMAIN replies = {} /\ \A i \in DOMAIN asked : asked[i] = Length
        BY <2>1
    <2> QED BY <2>2 DEF Tame
<1>3. CASE Pending(c) /\ Now(c)
    <2>1. Harmless(Len(commands), c)
        BY <1>3 DEF Harmless
    <2>2. CASE replies = << >> /\ asked = <<Length, Len(commands)>>
        <3>1. DOMAIN replies = {} /\ \A i \in DOMAIN asked : asked[i] = Length \/ asked[i] = Len(commands)
            BY <2>2
        <3> QED BY <2>1, <3>1 DEF Tame
    <2>3. CASE Len(replies) = 1 /\ replies[1].number = Len(commands) /\ asked = << >>
        <3>1. DOMAIN replies = {1} /\ DOMAIN asked = {}
            <4>1. DOMAIN replies = 1..Len(replies)
                BY AskedOf
            <4> QED BY <2>3, <4>1
        <3> QED BY <2>1, <2>3, <3>1 DEF Tame
    <2> QED BY <1>3, <2>2, <2>3 DEF Pending
<1> QED BY <1>1, <1>2, <1>3 DEF InUse, Now

\* When another actor moves, what the client's own thread relies on is kept.
LEMMA OwnKept ==
    ASSUME TypeOK, Rooted, Own, UNCHANGED mainthread,
           \A c \in DOMAIN conns : Kept(c),
           \/ Conn("backup")' = 0
           \/ /\ Conn("backup")' = Conn("backup")
              /\ Conn("primary")' \in {Conn("primary"), Conn("backup")}
           \/ \E n : Conn("backup")' = n /\ Still(n)',
           \/ Conn("primary")' \in {0, Conn("primary"), Conn("backup")}
           \/ \E n : Conn("primary")' = n /\ Tame(n)'
    PROVE  Own'
<1>1. /\ Conn("primary") # 0 => Conn("primary") \in DOMAIN conns
      /\ Conn("backup") # 0 => Conn("backup") \in DOMAIN conns
    BY ConnRange DEF Names
<1>2. UNCHANGED <<main, reading, commands, result>> /\ Busy' = Busy
    BY DEF mainthread, Busy
<1>3. main = "reading" => reading \in DOMAIN conns /\ commands # << >>
    <2>1. reading \in 0..Len(conns) /\ DOMAIN conns = 1..Len(conns)
        BY ConnOf DEF TypeOK
    <2> QED BY <2>1 DEF Rooted, Busy
<1>4. BackupOwn'
    <2>1. ASSUME Conn("backup")' = Conn("backup"), Conn("primary")' \in {Conn("primary"), Conn("backup")},
                 Conn("backup") # 0
          PROVE  BackupOwn'
        <3>1. PICK n : n = Conn("backup")
            OBVIOUS
        <3>2. n \in DOMAIN conns /\ Conn("backup")' = n /\ Kept(n)
            BY <1>1, <2>1, <3>1
        <3>3. CASE Still(n)
            <4>1. Still(n)'
                BY <3>2, <3>3 DEF Kept
            <4> QED BY <3>2, <4>1, StillAt DEF BackupOwn
        <3>4. CASE InUse(n)
            <4>1. Busy /\ commands # << >> /\ Conn(Side(Op)) = n
                BY <3>4 DEF InUse, Rooted
            <4>2. Conn(Side(Op))' = n
                BY <1>2, <2>1, <3>1, <4>1, SideThen
            <4>3. InUse(n)'
                BY <1>2, <3>2, <3>4, <4>2 DEF InUse, Kept
            <4> QED BY <3>2, <4>3, InUseAt DEF BackupOwn
        <3>5. Still(n) \/ InUse(n)
            BY <2>1, <3>1 DEF Own, BackupOwn
        <3> QED BY <3>3, <3>4, <3>5
    <2>2. ASSUME NEW n, Conn("backup")' = n, Still(n)' PROVE BackupOwn'
        BY <2>2, StillAt DEF BackupOwn
    <2>3. Conn("backup")' = 0 => BackupOwn'
        BY DEF BackupOwn
    <2> QED BY <2>1, <2>2, <2>3
<1>5. ReadingOwn'
    <2>1. SUFFICES ASSUME main = "reading", Side(Op) = "backup"
                   PROVE  Still(reading)' \/ Pending(reading)'
        BY <1>2, <1>3, SideThen DEF ReadingOwn
    <2>2. PICK n : n = reading
        OBVIOUS
    <2>3. Kept(n) /\ (Still(n) \/ Pending(n)) /\ reading' = n
        BY <1>2, <1>3, <2>1, <2>2 DEF Own, ReadingOwn
    <2> QED BY <2>3, ReadingAt DEF Kept
<1>6. PrimaryOwn'
    <2>1. SUFFICES ASSUME ~result.misled
                   PROVE  /\ Conn("primary")' # 0 => Tame(Conn("primary"))'
                          /\ main = "reading" /\ Side(Op) = "primary" => Tame(reading)'
        BY <1>2, <1>3, SideThen DEF PrimaryOwn
    <2>2. ASSUME NEW n \in DOMAIN conns, Conn("primary")' = n, Tame(n) PROVE Tame(Conn("primary"))'
        BY <2>2, TameAt DEF Kept
    <2>3. ASSUME NEW n, Conn("primary")' = n, Tame(n)' PROVE Tame(Conn("primary"))'
        BY <2>3, TameAt
    <2>4. ASSUME Conn("primary")' = Conn("primary"), Conn("primary") # 0
          PROVE  Tame(Conn("primary"))'
        <3>1. Tame(Conn("primary"))
            BY <2>1, <2>4 DEF Own, PrimaryOwn
        <3>2. PICK n \in DOMAIN conns : n = Conn("primary")
            BY <1>1, <2>4
        <3>3. Tame(n) /\ Conn("primary")' = n
            BY <2>4, <3>1, <3>2
        <3> QED BY <2>2, <3>3
    <2>5. ASSUME Conn("primary")' = Conn("backup"), Conn("backup") # 0
          PROVE  Tame(Conn("primary"))'
        <3>1. Still(Conn("backup")) \/ InUse(Conn("backup"))
            BY <2>5 DEF Own, BackupOwn
        <3>2. PICK n \in DOMAIN conns : n = Conn("backup")
            BY <1>1, <2>5
        <3>3. Tame(n)
            BY <3>1, <3>2, OwnIsTame
        <3>4. Conn("primary")' = n
            BY <2>5, <3>2
        <3> QED BY <2>2, <3>3, <3>4
    <2>6. Conn("primary")' # 0 => Tame(Conn("primary"))'
        BY <2>3, <2>4, <2>5
    <2>7. ASSUME main = "reading", Side(Op) = "primary" PROVE Tame(reading)'
        <3>1. PICK n : n = reading
            OBVIOUS
        <3>2. Kept(n) /\ Tame(n) /\ reading' = n
            BY <1>2, <1>3, <2>1, <2>7, <3>1 DEF Own, PrimaryOwn
        <3> QED BY <3>2, ReadingAt DEF Kept
    <2> QED BY <2>6, <2>7
<1> QED BY <1>4, <1>5, <1>6 DEF Own

LEMMA FreshConn ==
    ASSUME NEW s, NEW n, conns'[n] = NewConnection(s)
    PROVE  Still(n)' /\ Tame(n)'
<1>1. conns'[n].asked = << >> /\ conns'[n].replies = << >>
    BY DEF NewConnection
<1>2. Still(n)'
    BY <1>1 DEF Still
<1>3. Tame(n)'
    BY <1>1 DEF Tame
<1> QED BY <1>2, <1>3

LEMMA OwnOthers ==
    ASSUME TypeOK, Rooted, InTurn, Unopened, Running => BackupFollows, Own,
           \/ Outside
           \/ \E b \in DOMAIN conns : Answers(b) \/ Breaks(b)
           \/ Running /\ Handles /\ UNCHANGED <<calm, usurped, up, znode, mainthread>>
    PROVE  Own'
<1>1. \A c \in DOMAIN conns : Kept(c)
    BY OthersKept
<1>2. UNCHANGED mainthread
    BY OutsideChange, AnsweringChange
<1>3. ASSUME UNCHANGED <<fd, rtree>> PROVE Own'
    <2>1. Conn("primary")' = Conn("primary") /\ Conn("backup")' = Conn("backup")
        BY <1>3 DEF Conn, Connection
    <2> QED BY <1>1, <1>2, <2>1, OwnKept
<1>4. Outside => UNCHANGED <<fd, rtree>>
    BY OutsideChange DEF sockets
<1>5. (\E b \in DOMAIN conns : Answers(b) \/ Breaks(b)) => UNCHANGED <<fd, rtree>>
    BY DEF Answers, Breaks
<1>6. CASE Running /\ Handles
    <2>1. CASE UNCHANGED sockets
        BY <1>3, <2>1 DEF sockets
    <2>2. CASE Conn("primary")' = Conn("backup") /\ Conn("backup")' = Conn("backup")
        BY <1>1, <1>2, <2>2, OwnKept
    <2>3. CASE CloseBackup
        <3>1. Conn("backup")' = 0 /\ Shut
            BY <2>3, CloseChange
        <3>2. Conn("primary")' \in {0, Conn("primary")}
            BY <3>1, ShutConn DEF Names
        <3> QED BY <1>1, <1>2, <3>1, <3>2, OwnKept
    <2>4. CASE Socket
        <3>1. /\ Conn("backup")' = Len(conns) + 1 /\ conns'[Len(conns) + 1] = NewConnection(Nobody)
              /\ Conn("primary")' \in {Conn("primary"), Conn("backup")'}
            BY <2>4, SocketChange
        <3>2. PICK n : n = Len(conns) + 1
            OBVIOUS
        <3>3. Conn("backup")' = n /\ conns'[n] = NewConnection(Nobody)
            BY <3>1, <3>2
        <3>4. Still(n)' /\ Tame(n)'
            BY <3>3, FreshConn
        <3>5. Conn("primary")' = Conn("primary") \/ Conn("primary")' = n
            BY <3>1, <3>3
        <3>6. \E m : Conn("backup")' = m /\ Still(m)'
            BY <3>3, <3>4
        <3>7. Conn("primary")' = n => \E m : Conn("primary")' = m /\ Tame(m)'
            BY <3>4
        <3> QED BY <1>1, <1>2, <3>5, <3>6, <3>7, OwnKept
    <2>5. Linked => UNCHANGED <<fd, rtree>>
        BY DEF Linked
    <2>6. CASE Unlinked
        <3>1. Conn("backup")' = 0 /\ Shut
            BY <2>6, UnlinkedChange
        <3>2. Conn("primary")' \in {0, Conn("primary")}
            BY <3>1, ShutConn DEF Names
        <3> QED BY <1>1, <1>2, <3>1, <3>2, OwnKept
    <2> QED BY <1>3, <1>6, <2>1, <2>2, <2>3, <2>4, <2>5, <2>6, HandlesChange
<1> QED BY <1>3, <1>4, <1>5, <1>6

LEMMA OwnStart ==
    ASSUME TypeOK, Rooted, RtreeConnect, Running'
    PROVE  Own' /\ AnswersAreOwn'
<1>1. /\ main = "start" /\ Children = Names /\ NetworkConnect /\ main' = "idle"
      /\ UNCHANGED <<commands, result>>
    BY DEF RtreeConnect, Exits, Running
<1>2. /\ conns' = <<NewConnection(znode["primary"]), NewConnection(znode["backup"])>>
      /\ \A name \in Names : znode[name] \in Servers
      /\ fd'[1] = 1 /\ fd'[2] = 2 /\ rtree'["primary"] = 1 /\ rtree'["backup"] = 2
    BY <1>1, StartChange
<1>3. Conn("primary")' = 1 /\ Conn("backup")' = 2
    BY <1>2 DEF Conn, Connection, Minus1
<1>4. conns'[1] = NewConnection(znode["primary"]) /\ conns'[2] = NewConnection(znode["backup"])
    BY <1>2
<1>5. Still(2)' /\ Tame(1)'
    BY <1>2, <1>4, FreshConn DEF Names
<1>6. BackupOwn'
    BY <1>3, <1>5, StillAt DEF BackupOwn
<1>7. ReadingOwn' /\ PrimaryOwn'
    BY <1>1, <1>3, <1>5, TameAt DEF ReadingOwn, PrimaryOwn
<1>8. result' = NoResult
    BY <1>1 DEF Rooted
<1>9. AnswersAreOwn'
    BY <1>8 DEF AnswersAreOwn, OwnAnswerFromBackup, OwnAnswer, SuccessIsOwn, NoResult
<1> QED BY <1>6, <1>7, <1>9 DEF Own

-----------------------------------------------------------------------------
(* The main thread's steps *)

LEMMA NumbersOf ==
    ASSUME TypeOK, InTurn, NEW c \in DOMAIN conns
    PROVE  /\ \A k \in DOMAIN conns[c].replies : conns[c].replies[k].number \in 1..Len(commands)
           /\ \A i \in DOMAIN conns[c].asked :
                 conns[c].asked[i] # Length => conns[c].asked[i] \in 1..Len(commands)
<1>1. /\ \A i \in DOMAIN conns[c].asked : conns[c].asked[i] <= Len(commands)
      /\ \A k \in DOMAIN conns[c].replies : conns[c].replies[k].number \in 1..Len(commands)
    BY DEF InTurn, InTurnAt
<1>2. \A i \in DOMAIN conns[c].asked : conns[c].asked[i] \in 0..MaxCommands
    BY AskedOf
<1>3. Len(commands) \in Nat /\ MaxCommands \in Nat
    BY CommandsOf, ClientAssumption
<1>4. ASSUME NEW i \in DOMAIN conns[c].asked, conns[c].asked[i] # Length
      PROVE  conns[c].asked[i] \in 1..Len(commands)
    <2>1. PICK x : x = conns[c].asked[i]
        OBVIOUS
    <2>2. x \in 0..MaxCommands /\ x <= Len(commands) /\ x # 0
        BY <1>1, <1>2, <1>4, <2>1 DEF Length
    <2>3. x \in 1..Len(commands)
        BY <1>3, <2>2
    <2> QED BY <2>1, <2>3
<1> QED BY <1>1, <1>4

LEMMA TameKept ==
    ASSUME TypeOK, InTurn, NEW c \in DOMAIN conns, Tame(c), Stuck(c) => Stuck(c)',
           conns'[c].replies = conns[c].replies, conns'[c].asked = conns[c].asked,
           \A n \in 1..Len(commands) : Harmless(n, c) => Harmless(n, c)'
    PROVE  Tame(c)'
<1>1. /\ \A k \in DOMAIN conns[c].replies : Harmless(conns[c].replies[k].number, c)'
    BY NumbersOf DEF Tame
<1>2. Stuck(c)' \/ \A i \in DOMAIN conns[c].asked :
                     conns[c].asked[i] # Length => Harmless(conns[c].asked[i], c)'
    BY NumbersOf DEF Tame
<1> QED BY <1>1, <1>2 DEF Tame

LEMMA AnswersLater == ASSUME main' # "idle" PROVE AnswersAreOwn'
BY DEF AnswersAreOwn, OwnAnswerFromBackup, OwnAnswer, SuccessIsOwn

LEMMA AnswersNothing ==
    ASSUME result'.reply = Empty, result'.value \notin {"ok", "data"}
    PROVE  AnswersAreOwn'
BY DEF AnswersAreOwn, OwnAnswerFromBackup, OwnAnswer, SuccessIsOwn

\* Steps between two calls' reads and writes.
LEMMA OwnQuiet ==
    ASSUME TypeOK, Rooted, InTurn, Own, main \in {"idle", "exists primary"}, main' # "reading",
           UNCHANGED <<up, sockets>>, result'.misled <=> result.misled,
           \A n \in 1..Len(commands) : commands'[n] = commands[n]
    PROVE  Own'
<1>1. /\ Conn("primary") # 0 => Conn("primary") \in DOMAIN conns
      /\ Conn("backup") # 0 => Conn("backup") \in DOMAIN conns
    BY ConnRange DEF Names
<1>2. /\ Conn("primary")' = Conn("primary") /\ Conn("backup")' = Conn("backup")
      /\ UNCHANGED <<conns, up>>
    BY DEF sockets, Conn, Connection
<1>3. \A c \in DOMAIN conns : Stuck(c) => Stuck(c)'
    BY <1>2, StuckKept
<1>4. BackupOwn'
    <2>1. SUFFICES ASSUME Conn("backup") # 0 PROVE BackupOwn'
        BY <1>2 DEF BackupOwn
    <2>2. PICK n \in DOMAIN conns : n = Conn("backup")
        BY <1>1, <2>1
    <2>3. Still(n)
        BY <2>1, <2>2 DEF Own, BackupOwn, InUse
    <2>4. Still(n)'
        BY <1>2, <1>3, <2>3 DEF Still
    <2> QED BY <1>2, <2>2, <2>4, StillAt DEF BackupOwn
<1>5. ReadingOwn'
    BY DEF ReadingOwn
<1>6. PrimaryOwn'
    <2>1. SUFFICES ASSUME Conn("primary") # 0, ~result.misled PROVE PrimaryOwn'
        BY <1>2 DEF PrimaryOwn
    <2>2. PICK n \in DOMAIN conns : n = Conn("primary")
        BY <1>1, <2>1
    <2>3. Tame(n)
        BY <2>1, <2>2 DEF Own, PrimaryOwn
    <2>4. \A m \in 1..Len(commands) : Harmless(m, n) => Harmless(m, n)'
        BY DEF Harmless, Now
    <2>5. Tame(n)'
        BY <1>2, <1>3, <2>3, <2>4, TameKept
    <2> QED BY <1>2, <2>2, <2>5, TameAt DEF PrimaryOwn
<1> QED BY <1>4, <1>5, <1>6 DEF Own

LEMMA OwnCommand ==
    ASSUME TypeOK, Rooted, InTurn, Own, NEW op \in Ops, Command(op)
    PROVE  main' # "exited" => Own' /\ AnswersAreOwn'
<1>1. /\ main = "idle" /\ UNCHANGED <<servers, sockets>>
      /\ \A n \in 1..Len(commands) : commands'[n] = commands[n]
    BY CommandChange
<1>2. CASE main' = "exists primary" /\ UNCHANGED result
    BY <1>1, <1>2, OwnQuiet, AnswersLater DEF servers
<1>3. CASE Refused(op)
    <2>1. /\ main' \in {"idle", "exited"}
          /\ main' = "idle" => /\ result'.reply = Empty
                               /\ result'.misled <=> result.misled
                               /\ result'.value \in {"failed", "not done"}
        BY <1>3, RefusedTypes
    <2> QED BY <1>1, <2>1, OwnQuiet, AnswersNothing DEF servers
<1> QED BY <1>2, <1>3 DEF Command

LEMMA OwnExists ==
    ASSUME TypeOK, Rooted, InTurn, Own, ExistsPrimary
    PROVE  main' # "exited" => Own' /\ AnswersAreOwn'
<1>1. main = "exists primary" /\ UNCHANGED <<servers, sockets, commands>>
    BY DEF ExistsPrimary
<1>2. CASE main' = "length" /\ UNCHANGED result
    BY <1>1, <1>2, OwnQuiet, AnswersLater DEF servers
<1>3. CASE Refused(Op)
    <2>1. /\ main' \in {"idle", "exited"}
          /\ main' = "idle" => /\ result'.reply = Empty
                               /\ result'.misled <=> result.misled
                               /\ result'.value \in {"failed", "not done"}
        BY <1>3, RefusedTypes
    <2> QED BY <1>1, <2>1, OwnQuiet, AnswersNothing DEF servers
<1> QED BY <1>2, <1>3 DEF ExistsPrimary

\* network_send_receive has failed, and rtree_put has closed the sockets.
LEMMA OwnNull ==
    ASSUME TypeOK, Rooted, Own, commands # << >>, UNCHANGED <<up, conns, commands>>, Shut,
           Op = "put", main' = "idle",
           result'.value = "failed", result'.reply = Empty, result'.misled <=> result.misled,
           Conn("primary")' = 0, Conn("backup") = Conn("primary") => Conn("backup")' = 0
    PROVE  Own' /\ AnswersAreOwn'
<1>1. BackupOwn'
    <2>1. SUFFICES ASSUME Conn("backup")' # 0 PROVE BackupOwn'
        BY DEF BackupOwn
    <2>2. Conn("backup")' = Conn("backup") /\ Conn("backup") # 0 /\ Conn("backup") # Conn("primary")
        BY <2>1, ShutConn DEF Names
    <2>3. PICK n \in DOMAIN conns : n = Conn("backup")
        BY <2>2, ConnRange DEF Names
    <2>4. Conn(Side(Op)) = Conn("primary")
        BY DEF Side
    <2>5. Still(n)
        BY <2>2, <2>3, <2>4 DEF Own, BackupOwn, InUse
    <2>6. Stuck(n) => Stuck(n)'
        BY StuckKept
    <2>7. Still(n)'
        BY <2>5, <2>6 DEF Still
    <2> QED BY <2>2, <2>3, <2>7, StillAt DEF BackupOwn
<1>2. ReadingOwn' /\ PrimaryOwn'
    BY DEF ReadingOwn, PrimaryOwn
<1> QED BY <1>1, <1>2, AnswersNothing DEF Own

LEMMA TwoItems == ASSUME NEW a \in Nat, NEW b \in Nat PROVE Append(<<a>>, b) = <<a, b>>
<1>1. <<a>> \in Seq(Nat) /\ Len(<<a>>) = 1
    OBVIOUS
<1>2. Append(<<a>>, b) \in Seq(Nat) /\ Len(Append(<<a>>, b)) = 2
    BY <1>1
<1>3. Append(<<a>>, b)[1] = a /\ Append(<<a>>, b)[2] = b
    BY <1>1
<1>4. <<a, b>> \in Seq(Nat) /\ Len(<<a, b>>) = 2 /\ <<a, b>>[1] = a /\ <<a, b>>[2] = b
    OBVIOUS
<1>5. ASSUME NEW i \in 1..2 PROVE Append(<<a>>, b)[i] = <<a, b>>[i]
    BY <1>3, <1>4
<1> QED BY <1>2, <1>4, <1>5, SeqEqual

\* A write that reaches the connection.
LEMMA OwnSends ==
    ASSUME TypeOK, Rooted, InTurn, Own, commands # << >>, NEW item \in 0..MaxCommands, Sends(item),
           UNCHANGED <<servers, commands>>,
           \/ main = "length" /\ item = Length /\ main' = "message"
           \/ main = "message" /\ item = Len(commands) /\ main' = "read"
    PROVE  Own'
<1>1. PICK c \in DOMAIN conns :
         /\ c = Conn(Side(Op))
         /\ conns'[c].to = conns[c].to /\ conns'[c].open = conns[c].open
         /\ conns'[c].asked = Append(conns[c].asked, item)
         /\ conns'[c].replies = conns[c].replies
         /\ \A b \in DOMAIN conns : b # c => conns'[b] = conns[b]
    BY SendsChange
<1> DEFINE asked == conns[c].asked
<1>2. asked \in Seq(0..MaxCommands) /\ Len(asked) \in Nat
    BY ConnOf, AskedOf
<1>3. /\ UNCHANGED <<up, reading, result, fd, rtree, commands>>
      /\ Conn("primary")' = Conn("primary") /\ Conn("backup")' = Conn("backup")
    BY DEF Sends, servers, Conn, Connection
<1>4. Len(commands) \in Nat \ {0}
    BY OpOf
<1>5. \A b \in DOMAIN conns : b # c => (Stuck(b) => Stuck(b)') /\ (Still(b) => Still(b)')
    BY <1>1, <1>3, StuckKept DEF Still
<1>6. Stuck(c) => Stuck(c)'
    <2>1. CASE Gone(c)
        BY <1>1, <1>3, <2>1 DEF Gone, Stuck
    <2>2. CASE asked # << >> /\ asked[1] # Length
        <3>1. Len(asked) >= 1
            BY <1>2, <2>2
        <3>2. conns'[c].asked[1] = asked[1] /\ Len(conns'[c].asked) = Len(asked) + 1
            BY <1>1, <1>2, <3>1
        <3>3. conns'[c].asked # << >>
            BY <1>2, <3>2
        <3> QED BY <2>2, <3>2, <3>3 DEF Stuck
    <2>3. CASE Len(asked) >= 2 /\ asked[2] = Length
        <3>1. conns'[c].asked[2] = asked[2] /\ Len(conns'[c].asked) = Len(asked) + 1
            BY <1>1, <1>2, <2>3
        <3>2. Len(conns'[c].asked) >= 2
            BY <1>2, <2>3, <3>1
        <3> QED BY <2>3, <3>1, <3>2 DEF Stuck
    <2> QED BY <2>1, <2>2, <2>3 DEF Stuck
<1>7. Still(c) => Still(c)' \/ (main = "length" /\ Announced(c)')
    <2>1. SUFFICES ASSUME Still(c), asked = << >> PROVE Still(c)' \/ (main = "length" /\ Announced(c)')
        BY <1>1, <1>6 DEF Still
    <2>2. conns'[c].asked = <<item>> /\ conns'[c].replies = << >>
        BY <1>1, <2>1 DEF Still
    <2>3. CASE main = "length" /\ item = Length
        BY <2>2, <2>3 DEF Announced
    <2>4. CASE item = Len(commands)
        <3>1. item # Length
            BY <1>4, <2>4 DEF Length
        <3>2. conns'[c].asked[1] = item /\ conns'[c].asked # << >>
            BY <2>2
        <3>3. Stuck(c)'
            BY <3>1, <3>2 DEF Stuck
        <3> QED BY <2>2, <3>3 DEF Still
    <2> QED BY <2>3, <2>4
<1>8. CASE BackupOwn' /\ PrimaryOwn'
    BY <1>8 DEF ReadingOwn, Own
<1>9. BackupOwn'
    <2>1. SUFFICES ASSUME Conn("backup") # 0 PROVE BackupOwn'
        BY <1>3 DEF BackupOwn
    <2>2. PICK n \in DOMAIN conns : n = Conn("backup")
        BY <2>1, ConnRange DEF Names
    <2>3. Still(n) \/ InUse(n)
        BY <2>1, <2>2 DEF Own, BackupOwn
    <2>4. CASE n # c
        <3>1. Still(n)'
            BY <1>1, <1>5, <2>3, <2>4 DEF InUse
        <3> QED BY <1>3, <2>2, <3>1, StillAt DEF BackupOwn
    <2>5. CASE n = c
        <3>1. Conn(Side(Op))' = c
            BY <1>1, <1>3, SideThen
        <3>2. CASE Still(c)'
            BY <1>3, <2>2, <2>5, <3>2, StillAt DEF BackupOwn
        <3>3. CASE main = "length" /\ Announced(c)'
            <4>1. main' = "message"
                BY <3>3
            <4>2. InUse(c)'
                BY <3>1, <3>3, <4>1 DEF InUse, Busy
            <4> QED BY <1>3, <2>2, <2>5, <4>2, InUseAt DEF BackupOwn
        <3>4. CASE InUse(c)
            <4>1. main = "message" /\ Announced(c) /\ item = Len(commands) /\ main' = "read"
                BY <3>4 DEF InUse
            <4>2. conns'[c].replies = << >> /\ conns'[c].asked = <<Length, Len(commands)>>
                <5>1. asked = <<Length>> /\ conns[c].replies = << >>
                    BY <4>1 DEF Announced
                <5>2. conns'[c].asked = Append(<<Length>>, Len(commands))
                    BY <1>1, <4>1, <5>1
                <5>3. Length \in Nat /\ Len(commands) \in Nat
                    BY CommandsOf DEF Length
                <5> QED BY <1>1, <5>1, <5>2, <5>3, TwoItems
            <4>3. Pending(c)'
                BY <1>3, <4>2 DEF Pending
            <4>4. InUse(c)'
                BY <3>1, <4>1, <4>3 DEF InUse, Busy
            <4> QED BY <1>3, <2>2, <2>5, <4>4, InUseAt DEF BackupOwn
        <3> QED BY <1>7, <2>3, <2>5, <3>2, <3>3, <3>4
    <2> QED BY <2>4, <2>5
<1>10. PrimaryOwn'
    <2>1. SUFFICES ASSUME Conn("primary") # 0, ~result.misled PROVE PrimaryOwn'
        BY <1>3 DEF PrimaryOwn
    <2>2. PICK n \in DOMAIN conns : n = Conn("primary")
        BY <2>1, ConnRange DEF Names
    <2>3. Tame(n)
        BY <2>1, <2>2 DEF Own, PrimaryOwn
    <2>4. \A m : Harmless(m, n) => Harmless(m, n)'
        BY <1>3 DEF Harmless, Now
    <2>5. Tame(n)'
        <3>1. CASE n # c
            BY <1>1, <1>5, <2>3, <2>4, <3>1, TameKept
        <3>2. CASE n = c
            <4>1. \A k \in DOMAIN conns'[c].replies : Harmless(conns'[c].replies[k].number, c)
                BY <1>1, <2>3, <3>2 DEF Tame
            <4>2. CASE Stuck(c)
                BY <1>6, <2>4, <3>2, <4>1, <4>2 DEF Tame
            <4>3. CASE \A i \in DOMAIN asked : asked[i] # Length => Harmless(asked[i], c)
                <5>1. item # Length => Harmless(item, c)'
                    <6>1. SUFFICES ASSUME item # Length PROVE Harmless(item, c)'
                        OBVIOUS
                    <6>2. item = Len(commands) /\ main' = "read"
                        BY <6>1
                    <6> QED BY <1>3, <6>2 DEF Harmless, Now
                <5>2. ASSUME NEW i \in DOMAIN conns'[c].asked
                      PROVE  \/ conns'[c].asked[i] = item
                             \/ i \in DOMAIN asked /\ conns'[c].asked[i] = asked[i]
                    <6>1. i \in 1..(Len(asked) + 1)
                        BY <1>1, <1>2
                    <6>2. CASE i = Len(asked) + 1
                        BY <1>1, <1>2, <6>2
                    <6>3. CASE i \in 1..Len(asked)
                        BY <1>1, <1>2, <6>3
                    <6> QED BY <1>2, <6>1, <6>2, <6>3
                <5>3. \A m : Harmless(m, c) \/ (m = item /\ item # Length) => Harmless(m, c)'
                    BY <2>4, <3>2, <5>1
                <5>4. \A i \in DOMAIN conns'[c].asked : conns'[c].asked[i] # Length =>
                         \/ Harmless(conns'[c].asked[i], c)
                         \/ conns'[c].asked[i] = item /\ item # Length
                    BY <4>3, <5>2
                <5> QED BY <3>2, <4>1, <5>3, <5>4 DEF Tame
            <4> QED BY <2>3, <3>2, <4>2, <4>3 DEF Tame
        <3> QED BY <3>1, <3>2
    <2> QED BY <1>3, <2>2, <2>5, TameAt DEF PrimaryOwn
<1> QED BY <1>8, <1>9, <1>10

LEMMA OwnWrites ==
    ASSUME TypeOK, Rooted, InTurn, Own, SendLength \/ SendMessage
    PROVE  main' # "exited" => Own' /\ AnswersAreOwn'
<1>1. PICK from \in {"length", "message"}, item \in 0..MaxCommands, to \in {"message", "read"} :
              /\ Write(from, item, to)
              /\ \/ from = "length" /\ item = Length /\ to = "message"
                 \/ from = "message" /\ item = Len(commands) /\ to = "read"
    BY SendsOf
<1>2. main = from /\ commands # << >> /\ UNCHANGED <<servers, zkthread, commands>>
    BY <1>1, WriteChange
<1>3. CASE main' = to /\ Sends(item)
    <2>1. Own'
        BY <1>1, <1>2, <1>3, OwnSends
    <2> QED BY <1>3, <2>1, AnswersLater
<1>4. CASE /\ UNCHANGED conns
           /\ Shut /\ reading' = 0
           /\ result' \in [value : Values, reply : Replies, misled : BOOLEAN]
           /\ \/ main' = "exited"
              \/ /\ Op = "put" /\ main' = "idle"
                 /\ result'.value = "failed" /\ result'.reply = Empty
                 /\ result'.misled <=> result.misled
                 /\ Conn("primary")' = 0
                 /\ Conn("backup") = Conn("primary") => Conn("backup")' = 0
    BY <1>2, <1>4, OwnNull DEF servers
<1> QED BY <1>1, <1>3, <1>4, WriteChange

LEMMA OwnRead ==
    ASSUME TypeOK, Rooted, InTurn, Own, Read
    PROVE  main' # "exited" => Own' /\ AnswersAreOwn'
<1>1. main = "read" /\ commands # << >> /\ UNCHANGED <<up, conns, commands>>
    BY ReadChange DEF servers
<1>2. CASE /\ main' = "reading" /\ reading' = Conn(Side(Op)) /\ reading' # 0
           /\ UNCHANGED <<result, fd, rtree>>
    <2>1. Conn("primary")' = Conn("primary") /\ Conn("backup")' = Conn("backup")
        BY <1>2 DEF Conn, Connection
    <2>2. PICK c : c = Conn(Side(Op))
        OBVIOUS
    <2>3. reading' = c /\ Conn(Side(Op))' = c /\ Side(Op)' = Side(Op)
        BY <1>1, <1>2, <2>1, <2>2, SideThen
    <2>4. \A b \in DOMAIN conns : Stuck(b) => Stuck(b)'
        BY <1>1, StuckKept
    <2>5. \A b \in DOMAIN conns : (Still(b) => Still(b)') /\ (Pending(b) => Pending(b)')
        BY <1>1, <2>4 DEF Still, Pending
    <2>6. Conn("backup") # 0 => Conn("backup") \in DOMAIN conns
        BY ConnRange DEF Names
    <2>7. BackupOwn'
        <3>1. SUFFICES ASSUME Conn("backup") # 0 PROVE BackupOwn'
            BY <2>1 DEF BackupOwn
        <3>2. PICK n \in DOMAIN conns : n = Conn("backup")
            BY <2>6, <3>1
        <3>3. Still(n) => Still(n)'
            BY <2>5
        <3>4. InUse(n) => InUse(n)'
            <4>1. InUse(n) => n = c /\ Pending(n)
                BY <1>1, <2>2 DEF InUse
            <4> QED BY <1>2, <2>3, <2>5, <4>1 DEF InUse, Busy
        <3>5. Still(n) \/ InUse(n)
            BY <3>1, <3>2 DEF Own, BackupOwn
        <3> QED BY <2>1, <3>2, <3>3, <3>4, <3>5, StillAt, InUseAt DEF BackupOwn
    <2>8. ReadingOwn'
        <3>1. SUFFICES ASSUME Side(Op) = "backup" PROVE Still(reading)' \/ Pending(reading)'
            BY <2>3 DEF ReadingOwn
        <3>2. c = Conn("backup") /\ c # 0
            BY <1>2, <2>2, <3>1
        <3>3. Still(c) \/ InUse(c)
            BY <3>2 DEF Own, BackupOwn
        <3>4. c \in DOMAIN conns /\ (Still(c) \/ Pending(c))
            BY <1>1, <2>6, <3>2, <3>3 DEF InUse
        <3> QED BY <2>3, <2>5, <3>4, ReadingAt
    <2>9. PrimaryOwn'
        <3>1. SUFFICES ASSUME ~result.misled PROVE PrimaryOwn'
            BY <1>2 DEF PrimaryOwn
        <3>2. ASSUME Conn("primary") # 0
              PROVE  Tame(Conn("primary"))' /\ (c = Conn("primary") => Tame(c)')
            <4>1. PICK n \in DOMAIN conns : n = Conn("primary")
                BY <3>2, ConnRange DEF Names
            <4>2. Tame(n)
                BY <3>1, <3>2, <4>1 DEF Own, PrimaryOwn
            <4>3. ASSUME NEW m, Harmless(m, n) PROVE Harmless(m, n)'
                <5>1. CASE Side(commands[m]) = "backup"
                    <6>1. Side(commands[m])' = Side(commands[m])
                        <7>1. (commands[m])' = commands[m]
                            BY <1>1
                        <7> QED BY <7>1 DEF Side
                    <6> QED BY <5>1, <6>1 DEF Harmless
                <5>2. CASE m = Len(commands) /\ n = c
                    BY <1>1, <1>2, <2>3, <5>2 DEF Harmless, Now
                <5>3. CASE m = Len(commands) /\ n # c
                    <6>1. Side(Op) = "backup"
                        BY <1>1, <2>2, <4>1, <5>3, SideThen
                    <6>2. commands[m] = Op
                        BY <1>1, <5>3, OpOf
                    <6> QED BY <5>1, <6>1, <6>2
                <5> QED BY <4>3, <5>1, <5>2, <5>3 DEF Harmless
            <4>4. Tame(n)'
                BY <1>1, <2>4, <4>2, <4>3, TameKept
            <4>5. Tame(Conn("primary"))'
                BY <2>1, <4>1, <4>4, TameAt
            <4> QED BY <4>1, <4>4, <4>5
        <3>3. Side(Op) = "primary" => c = Conn("primary") /\ c # 0
            BY <1>2, <2>2
        <3>4. Side(Op) = "primary" => Tame(reading)'
            BY <2>3, <3>2, <3>3, ReadingAt
        <3> QED BY <2>1, <2>3, <3>2, <3>4 DEF PrimaryOwn
    <2> QED BY <1>2, <2>7, <2>8, <2>9, AnswersLater DEF Own
<1>3. CASE Null(fd)
    <2>1. /\ Shut
          /\ \/ main' = "exited"
             \/ /\ Op = "put" /\ main' = "idle"
                /\ result'.value = "failed" /\ result'.reply = Empty
                /\ result'.misled <=> result.misled
                /\ Conn("primary")' = 0
                /\ Conn("backup") = Conn("primary") => Conn("backup")' = 0
        BY <1>3, NullOpen
    <2> QED BY <1>1, <2>1, OwnNull
<1> QED BY <1>2, <1>3, ReadChange

\* What a read takes is the answer to the present command, or a call to the primary says
\* that it failed.
LEMMA ReceivedOwn ==
    ASSUME TypeOK, Rooted, InTurn, Own, main = "reading", commands # << >>,
           reading \in DOMAIN conns, conns[reading].replies # << >>, Received(reading),
           NEW last \in Replies, last = Last(conns[reading].replies),
           last = conns[reading].replies[Len(conns[reading].replies)],
           Len(conns[reading].replies) \in DOMAIN conns[reading].replies
    PROVE  /\ main' = "idle" /\ result'.reply = last
           /\ ~result'.misled => ~result.misled
           /\ last.number \in 1..Len(commands)
           /\ Side(Op) = "backup" => last.number = Len(commands)
           /\ ~result'.misled => last.number = Len(commands)
<1> DEFINE replies == conns[reading].replies  asked == conns[reading].asked
<1>1. Op \in Ops /\ Op = commands[Len(commands)] /\ Side(Op) \in {"primary", "backup"}
    BY OpOf DEF Side
<1>2. Value(Op, last) \in Values
    BY <1>1, ValueOf
<1>3. Returns(Value(Op, last), last)
    BY DEF Received
<1>4. /\ main' = "idle" /\ result'.reply = last
      /\ result'.misled <=>
            result.misled \/ (Value(Op, last) = "failed" /\ last.number \notin {0, Len(commands)})
    BY <1>2, <1>3, ReturnsChange
<1>5. last.number \in 1..Len(commands) /\ last.op = commands[last.number]
    BY DEF InTurn, InTurnAt
<1>6. Side(Op) = "backup" => last.number = Len(commands)
    <2>1. SUFFICES ASSUME Side(Op) = "backup" PROVE last.number = Len(commands)
        OBVIOUS
    <2>2. Pending(reading)
        BY <2>1 DEF Own, ReadingOwn, Still
    <2> QED BY <2>2 DEF Pending
<1>7. ~result'.misled => last.number = Len(commands)
    <2>1. SUFFICES ASSUME ~result'.misled, Side(Op) = "primary", last.number # Len(commands) PROVE FALSE
        BY <1>1, <1>6
    <2>2. Tame(reading)
        BY <1>4, <2>1 DEF Own, PrimaryOwn
    <2>3. Side(last.op) = "backup"
        BY <1>5, <2>1, <2>2 DEF Tame, Harmless
    <2>4. Op \in {"put", "del"} /\ last.op \notin {"put", "del"}
        BY <2>1, <2>3 DEF Side
    <2>5. Value(Op, last) = "failed"
        <3>1. CASE Op = "put"
            BY <2>4, <3>1 DEF Value, PutValue
        <3>2. CASE Op = "del"
            BY <2>4, <3>2 DEF Value, DelValue
        <3> QED BY <2>4, <3>1, <3>2
    <2>6. last.number # 0
        BY <1>5, CommandsOf
    <2> QED BY <1>4, <2>1, <2>5, <2>6
<1> QED BY <1>4, <1>5, <1>6, <1>7

LEMMA OwnReceived ==
    ASSUME TypeOK, Rooted, InTurn, Own, main = "reading", commands # << >>,
           reading \in DOMAIN conns, conns[reading].replies # << >>, Received(reading),
           Len(conns[reading].replies) \in DOMAIN conns[reading].replies,
           Last(conns[reading].replies) = conns[reading].replies[Len(conns[reading].replies)],
           Last(conns[reading].replies) \in Replies,
           UNCHANGED <<up, commands, fd, rtree>>
    PROVE  Own' /\ AnswersAreOwn'
<1>1. PICK c \in DOMAIN conns : c = reading
    OBVIOUS
<1>2. PICK last \in Replies : last = Last(conns[reading].replies)
    OBVIOUS
<1>3. /\ main' = "idle" /\ result'.reply = last
      /\ ~result'.misled => ~result.misled
      /\ last.number \in 1..Len(commands)
      /\ Side(Op) = "backup" => last.number = Len(commands)
      /\ ~result'.misled => last.number = Len(commands)
    BY <1>2, ReceivedOwn
<1>4. Received(c)
    BY <1>1
<1>5. /\ conns'[c].to = conns[c].to /\ conns'[c].open = conns[c].open
      /\ conns'[c].asked = conns[c].asked /\ conns'[c].replies = << >>
      /\ \A b \in DOMAIN conns : b # c => conns'[b] = conns[b]
    BY <1>4, ReceivedChange
<1>6. Conn("primary")' = Conn("primary") /\ Conn("backup")' = Conn("backup")
    BY DEF Conn, Connection
<1>7. Side(Op)' = Side(Op) /\ Side(Op) \in {"primary", "backup"}
    BY SideThen
<1>8. \A b \in DOMAIN conns : Stuck(b) => Stuck(b)'
    BY <1>5, StuckKept
<1>9. \A b \in DOMAIN conns : Still(b) => Still(b)'
    BY <1>5, <1>8 DEF Still
<1>10. BackupOwn'
    <2>1. SUFFICES ASSUME Conn("backup") # 0 PROVE BackupOwn'
        BY <1>6 DEF BackupOwn
    <2>2. PICK n \in DOMAIN conns : n = Conn("backup")
        BY <2>1, ConnRange DEF Names
    <2>3. Still(n) \/ InUse(n)
        BY <2>1, <2>2 DEF Own, BackupOwn
    <2>4. InUse(n) => Still(n)'
        <3>1. SUFFICES ASSUME InUse(n) PROVE Still(n)'
            OBVIOUS
        <3>2. n = c /\ Pending(n)
            BY <1>1, <3>1 DEF InUse
        <3>3. conns[c].asked = << >>
            BY <1>1, <3>2 DEF Pending
        <3> QED BY <1>5, <3>2, <3>3 DEF Still
    <2>5. Still(n)'
        BY <1>9, <2>3, <2>4
    <2> QED BY <1>6, <2>2, <2>5, StillAt DEF BackupOwn
<1>11. ReadingOwn'
    BY <1>3 DEF ReadingOwn
<1>12. PrimaryOwn'
    <2>1. SUFFICES ASSUME Conn("primary") # 0, ~result'.misled PROVE PrimaryOwn'
        BY <1>3, <1>6 DEF PrimaryOwn
    <2>2. PICK n \in DOMAIN conns : n = Conn("primary")
        BY <2>1, ConnRange DEF Names
    <2>3. Tame(n)
        BY <1>3, <2>1, <2>2 DEF Own, PrimaryOwn
    <2>4. CASE n # c
        <3>1. \A m : Harmless(m, n) => Harmless(m, n)'
            BY <1>1, <2>4 DEF Harmless, Now
        <3> QED BY <1>3, <1>5, <1>6, <1>8, <2>2, <2>3, <2>4, <3>1, TameKept, TameAt DEF PrimaryOwn
    <2>5. CASE n = c
        <3>1. \A i \in DOMAIN conns[c].asked : conns[c].asked[i] # Length =>
                 conns[c].asked[i] <= Len(commands) /\ last.number < conns[c].asked[i]
            BY <1>1, <1>2 DEF InTurn, InTurnAt
        <3>2. \A i \in DOMAIN conns[c].asked : conns[c].asked[i] = Length
            <4>1. SUFFICES ASSUME NEW i \in DOMAIN conns[c].asked, conns[c].asked[i] # Length PROVE FALSE
                OBVIOUS
            <4>2. PICK x : x = conns[c].asked[i]
                OBVIOUS
            <4>3. x \in 1..Len(commands) /\ last.number < x /\ last.number = Len(commands)
                BY <1>3, <2>1, <3>1, <4>1, <4>2, NumbersOf
            <4>4. Len(commands) \in Nat
                BY CommandsOf
            <4> QED BY <4>3, <4>4
        <3>3. Tame(c)'
            BY <1>5, <3>2 DEF Tame
        <3> QED BY <1>3, <1>6, <2>2, <2>5, <3>3, TameAt DEF PrimaryOwn
    <2> QED BY <2>4, <2>5
<1>13. AnswersAreOwn'
    <2>1. OwnAnswerFromBackup'
        BY <1>3, <1>7 DEF OwnAnswerFromBackup, OwnAnswer
    <2>2. ~result'.misled => SuccessIsOwn'
        BY <1>3 DEF SuccessIsOwn
    <2> QED BY <2>1, <2>2 DEF AnswersAreOwn
<1> QED BY <1>10, <1>11, <1>12, <1>13 DEF Own

\* The other end is closed and nothing is left to read.
LEMMA OwnNoBytes ==
    ASSUME TypeOK, Rooted, InTurn, Own, main = "reading", commands # << >>,
           reading \in DOMAIN conns, Gone(reading), conns[reading].replies = << >>,
           Returns(Value(Op, Empty), Empty), UNCHANGED <<up, commands, conns, fd, rtree>>
    PROVE  Own' /\ AnswersAreOwn'
<1>1. PICK c \in DOMAIN conns : c = reading
    OBVIOUS
<1>2. Op \in Ops
    BY OpOf
<1>3. Value(Op, Empty) \in Values
    BY <1>2, ValueOf, EmptyTyped
<1>4. /\ main' = "idle" /\ result'.reply = Empty /\ result'.value = Value(Op, Empty)
      /\ result'.misled <=> result.misled
    BY <1>3, EmptyTyped, ReturnsChange DEF Empty
<1>5. Value(Op, Empty) \notin {"ok", "data"}
    BY <1>2, ClientAssumption DEF Value, PutValue, DelValue, GetValue, KeysValue, VerifyValue,
                                  SizeValue, Empty
<1>6. Conn("primary")' = Conn("primary") /\ Conn("backup")' = Conn("backup")
    BY DEF Conn, Connection
<1>7. \A b \in DOMAIN conns : (Gone(b) => Gone(b)') /\ (Stuck(b) => Stuck(b)')
    BY StuckKept
<1>8. Stuck(c)' /\ Still(c)'
    BY <1>1, <1>7 DEF Stuck, Still
<1>9. \A b \in DOMAIN conns : Still(b) => Still(b)'
    BY <1>7 DEF Still
<1>10. BackupOwn'
    <2>1. SUFFICES ASSUME Conn("backup") # 0 PROVE BackupOwn'
        BY <1>6 DEF BackupOwn
    <2>2. PICK n \in DOMAIN conns : n = Conn("backup")
        BY <2>1, ConnRange DEF Names
    <2>3. Still(n) \/ InUse(n)
        BY <2>1, <2>2 DEF Own, BackupOwn
    <2>4. InUse(n) => n = c
        BY <1>1 DEF InUse
    <2>5. Still(n)'
        BY <1>8, <1>9, <2>3, <2>4
    <2> QED BY <1>6, <2>2, <2>5, StillAt DEF BackupOwn
<1>11. ReadingOwn'
    BY <1>4 DEF ReadingOwn
<1>12. PrimaryOwn'
    <2>1. SUFFICES ASSUME Conn("primary") # 0, ~result.misled PROVE PrimaryOwn'
        BY <1>4, <1>6 DEF PrimaryOwn
    <2>2. PICK n \in DOMAIN conns : n = Conn("primary")
        BY <2>1, ConnRange DEF Names
    <2>3. Tame(n)
        BY <2>1, <2>2 DEF Own, PrimaryOwn
    <2>4. CASE n # c
        <3>1. \A m : Harmless(m, n) => Harmless(m, n)'
            BY <1>1, <2>4 DEF Harmless, Now
        <3>2. Tame(n)'
            BY <1>7, <2>3, <3>1, TameKept
        <3> QED BY <1>4, <1>6, <2>2, <3>2, TameAt DEF PrimaryOwn
    <2>5. CASE n = c
        <3>1. conns'[c].replies = << >>
            BY <1>1
        <3>2. Tame(c)'
            BY <1>8, <3>1 DEF Tame
        <3> QED BY <1>4, <1>6, <2>2, <2>5, <3>2, TameAt DEF PrimaryOwn
    <2> QED BY <2>4, <2>5
<1> QED BY <1>4, <1>5, <1>10, <1>11, <1>12, AnswersNothing DEF Own

LEMMA OwnReading ==
    ASSUME TypeOK, Rooted, InTurn, Own, Reading
    PROVE  main' # "exited" => Own' /\ AnswersAreOwn'
<1>1. /\ main = "reading" /\ commands # << >> /\ reading \in DOMAIN conns
      /\ UNCHANGED <<up, commands>>
    BY ReadingChange DEF servers
<1>2. CASE /\ conns[reading].replies # << >> /\ Received(reading) /\ UNCHANGED <<fd, rtree>>
           /\ Len(conns[reading].replies) \in DOMAIN conns[reading].replies
           /\ Last(conns[reading].replies) = conns[reading].replies[Len(conns[reading].replies)]
           /\ Last(conns[reading].replies) \in Replies
    BY <1>1, <1>2, OwnReceived
<1>3. CASE /\ Gone(reading) /\ conns[reading].replies = << >> /\ Returns(Value(Op, Empty), Empty)
           /\ UNCHANGED <<conns, fd, rtree>>
    BY <1>1, <1>3, OwnNoBytes
<1>4. CASE Null(fd) /\ UNCHANGED conns
    <2>1. /\ Shut
          /\ \/ main' = "exited"
             \/ /\ Op = "put" /\ main' = "idle"
                /\ result'.value = "failed" /\ result'.reply = Empty
                /\ result'.misled <=> result.misled
                /\ Conn("primary")' = 0
                /\ Conn("backup") = Conn("primary") => Conn("backup")' = 0
        BY <1>4, NullOpen
    <2> QED BY <1>1, <1>4, <2>1, OwnNull
<1> QED BY <1>2, <1>3, <1>4, ReadingChange

LEMMA OwnStep ==
    ASSUME TypeOK, Rooted, InTurn, Unopened, Running => BackupFollows /\ Own, AnswersAreOwn, Next
    PROVE  (Running' => Own') /\ AnswersAreOwn'
<1>1. UNCHANGED mainthread => (Running' => Running) /\ AnswersAreOwn'
    BY DEF mainthread, Running, AnswersAreOwn, OwnAnswerFromBackup, OwnAnswer, SuccessIsOwn, Side, Op
<1>2. main' = "exited" => ~Running' /\ AnswersAreOwn'
    BY AnswersLater DEF Running
<1>3. CASE \/ Outside
           \/ \E b \in DOMAIN conns : Answers(b) \/ Breaks(b)
           \/ Running /\ Handles /\ UNCHANGED <<calm, usurped, up, znode, mainthread>>
    <2>1. UNCHANGED mainthread
        BY <1>3, OutsideChange, AnsweringChange
    <2> QED BY <1>1, <1>3, <2>1, OwnOthers
<1>4. CASE RtreeConnect
    <2>1. main' = "exited" \/ Running'
        BY <1>4 DEF RtreeConnect, Exits, Running
    <2> QED BY <1>2, <1>4, <2>1, OwnStart
<1>5. CASE \E op \in Ops : Command(op)
    <2>1. Running
        BY <1>5 DEF Command, Running
    <2> QED BY <1>2, <1>5, <2>1, OwnCommand
<1>6. CASE Calling
    <2>1. Running
        BY <1>6, CallingChange DEF Busy, Running
    <2> QED BY <1>2, <1>6, <2>1, OwnExists, OwnWrites, OwnRead, OwnReading DEF Calling
<1>7. Quit => main' = "exited"
    BY DEF Quit, Exits
<1> QED BY <1>2, <1>3, <1>4, <1>5, <1>6, <1>7, StepCases

-----------------------------------------------------------------------------
(* The theorems *)

LEMMA InitInvariant == Init => IInv
<1> SUFFICES ASSUME Init PROVE IInv
    OBVIOUS
<1>1. ~Running /\ ~Busy
    BY DEF Init, Running, Busy
<1>2. TypeOK
    <2>1. /\ conns \in Seq([to : Servers \cup {Nobody}, open : BOOLEAN, asked : Seq(0..MaxCommands), replies : Seq(Replies)])
          /\ Len(conns) = 0 /\ commands \in Seq(Ops)
        BY DEF Init
    <2>2. 0 \in 0..Len(conns)
        BY <2>1
    <2>3. fd \in [Descriptors -> 0..Len(conns)] /\ reading \in 0..Len(conns)
        BY <2>2 DEF Init
    <2>4. flag_alteracao \in 0..2 /\ events \in Nat
        BY DEF Init
    <2>5. result \in [value : Values, reply : Replies, misled : BOOLEAN]
        BY EmptyTyped DEF Init, NoResult, Values
    <2> QED BY <2>1, <2>3, <2>4, <2>5 DEF Init, TypeOK, Minus1, Values
<1>3. Rooted
    <2>1. Len(commands) = 0 /\ MaxCommands \in Nat
        BY ClientAssumption DEF Init
    <2>2. Len(commands) <= MaxCommands
        BY <2>1
    <2> QED BY <1>1, <2>2 DEF Init, Rooted
<1>4. InTurn /\ Unopened
    BY DEF Init, InTurn, Unopened
<1>5. AnswersAreOwn
    BY DEF Init, AnswersAreOwn, OwnAnswerFromBackup, OwnAnswer, SuccessIsOwn, NoResult
<1> QED BY <1>1, <1>2, <1>3, <1>4, <1>5 DEF IInv, Watched

LEMMA NextInvariant == IInv /\ [Next]_vars => IInv'
<1> SUFFICES ASSUME IInv, [Next]_vars PROVE IInv'
    OBVIOUS
<1>1. /\ TypeOK /\ Rooted /\ Watched /\ InTurn /\ Unopened /\ AnswersAreOwn
      /\ Running => BackupFollows /\ Own
      /\ Running /\ calm => Situation /\ Address
      /\ Running /\ calm /\ commands = << >> /\ ~usurped => PrimaryFollows
    BY DEF IInv
<1>2. CASE Next
    <2>1. TypeOK' /\ Rooted' /\ Watched' /\ InTurn' /\ Unopened'
        BY <1>1, <1>2, TypesStep, RootedStep, WatchedStep, InTurnStep, UnopenedStep
    <2>2. AnswersAreOwn' /\ (Running' => Own')
        BY <1>1, <1>2, OwnStep
    <2>3. Running' => BackupFollows'
        BY <1>1, <1>2, FollowsStep
    <2>4. Running' /\ calm' => Situation'
        BY <1>1, <1>2, SituationStep
    <2>5. Running' /\ calm' => Address'
        BY <1>1, <1>2, AddressStep
    <2>6. Running' /\ calm' /\ commands' = << >> /\ ~usurped' => PrimaryFollows'
        BY <1>1, <1>2, PrimaryFollowsStep
    <2> QED BY <2>1, <2>2, <2>3, <2>4, <2>5, <2>6 DEF IInv
<1>3. CASE UNCHANGED vars
    <2>1. UNCHANGED <<calm, usurped, up, znode, watch, events, conns, fd, rtree, endereco, flag_alteracao, zk,
                      main, reading, commands, result>>
        BY <1>3 DEF vars, servers, sockets, zkthread, mainthread
    <2>2. /\ TypeOK' /\ Rooted' /\ Watched' /\ InTurn' /\ Unopened' /\ AnswersAreOwn'
          /\ Running' <=> Running
        <3>1. TypeOK'
            BY <1>1, <1>3, TypesStep
        <3>2. Rooted'
            BY <1>1, <2>1 DEF Rooted, Busy, Running
        <3>3. Watched' /\ (Running' <=> Running)
            BY <1>1, <2>1 DEF Watched, Running, Children
        <3>4. InTurn' /\ Unopened'
            BY <1>1, <2>1 DEF InTurn, InTurnAt, Unsent, Unopened
        <3>5. AnswersAreOwn'
            BY <1>1, <2>1 DEF AnswersAreOwn, OwnAnswerFromBackup, OwnAnswer, SuccessIsOwn, Side, Op
        <3> QED BY <3>1, <3>2, <3>3, <3>4, <3>5
    <2>3. Conn("primary")' = Conn("primary") /\ Conn("backup")' = Conn("backup")
        BY <2>1 DEF Conn, Connection
    <2>4. /\ Pair' = Pair /\ Same' = Same /\ Only("primary")' = Only("primary")
          /\ Only("backup")' = Only("backup") /\ Both' = Both /\ BackupDown' = BackupDown
          /\ Children' = Children /\ Joined' = Joined /\ Connecting' = Connecting
        BY <2>1 DEF Pair, Same, Only, Both, BackupDown, Children, Joined, Connecting
    <2>5. BackupFollows => BackupFollows'
        BY <2>1, <2>3 DEF BackupFollows
    <2>6. Situation => Situation'
        <3>1. OnEvent' = OnEvent /\ AtRest' = AtRest
            BY <2>1, <2>4 DEF OnEvent, AtRest
        <3> QED BY <2>1, <2>4, <3>1 DEF Situation
    <2>7. Address => Address'
        BY <2>1, <2>4 DEF Address, ToBeRead
    <2>8. PrimaryFollows => PrimaryFollows'
        BY <2>1, <2>3, <2>4 DEF PrimaryFollows, Fresh, Apart
    <2>9. Running => Own'
        <3>1. SUFFICES ASSUME Running PROVE Own'
            OBVIOUS
        <3>2. \A c \in DOMAIN conns : Kept(c)
            BY <1>1, <2>1, SameKept DEF mainthread
        <3>3. UNCHANGED mainthread
            BY <2>1 DEF mainthread
        <3> QED BY <1>1, <2>3, <3>1, <3>2, <3>3, OwnKept
    <2> QED BY <1>1, <2>1, <2>2, <2>5, <2>6, <2>7, <2>8, <2>9 DEF IInv
<1> QED BY <1>2, <1>3

\* The inductive invariant: types, the order of what is on the connections, whose answers
\* they are, and in a calm world what flag_alteracao, addresses and sockets stand for, with
\* and without newcomers that come before the backup.
THEOREM Invariance == Spec => []IInv
BY InitInvariant, NextInvariant, PTL DEF Spec

\* The types are right, and in a calm world each socket leads to the server that holds its
\* name once the client has handled the change: the backup's always; the primary's before
\* the first command, as long as no newcomer took the primary's name while a backup waited.
THEOREM SocketsLead == Spec => []LinksLead
<1>1. IInv => LinksLead
    <2>1. SUFFICES ASSUME IInv, calm, Settled
                   PROVE  /\ Peer("backup") \in {znode["backup"], Nobody}
                          /\ commands = << >> /\ ~usurped =>
                                Peer("primary") \in {znode["primary"], Nobody}
        BY DEF IInv, LinksLead, BackupLink, PrimaryLink, PrimaryFollowed
    <2>2. /\ Running /\ Both /\ events = 0 /\ zk = "idle"
          /\ Address /\ BackupFollows /\ (commands = << >> /\ ~usurped => PrimaryFollows)
        BY <2>1 DEF IInv, Settled, Both
    <2>3. /\ znode["primary"] # Nobody /\ znode["backup"] # Nobody
        BY <2>2, NamesAre
    <2>4. Conn("backup") # 0 => conns[Conn("backup")].to = znode["backup"]
        <3>1. zk \notin {"connect", "connecting"} /\ zk # "read backup"
            BY <2>2
        <3>2. events # 1
            BY <2>2
        <3>3. endereco = znode["backup"]
            BY <2>2, <2>3, <3>1, <3>2 DEF Address, ToBeRead
        <3> QED BY <2>2, <3>1, <3>3 DEF BackupFollows
    <2>5. commands = << >> /\ ~usurped /\ Conn("primary") # 0 =>
             conns[Conn("primary")].to = znode["primary"]
        BY <2>2, <2>3 DEF PrimaryFollows
    <2> QED BY <2>4, <2>5 DEF Peer, Conn
<1> QED BY <1>1, Invariance, PTL

\* However the sockets are replaced between a call's write and its read, what a call to the
\* backup takes is its own answer; and so is every success, until a call that took another
\* one's answer has failed.
THEOREM AnswersBelong == Spec => []AnswersAreOwn
<1>1. IInv => AnswersAreOwn
    BY DEF IInv
<1> QED BY <1>1, Invariance, PTL

\* A client whose thread rests and which has handled every event sees a server: the one-shot
\* watch misses no change.
THEOREM NobodyLeftBehind == Spec => []NotLeftBehind
<1>1. IInv => NotLeftBehind
    <2>1. SUFFICES ASSUME IInv, Running, events = 0, Children = {} PROVE FALSE
        BY DEF NotLeftBehind
    <2>2. events > 0
        BY <2>1 DEF IInv, Watched
    <2> QED BY <2>1, <2>2
<1> QED BY <1>1, Invariance, PTL
=============================================================================

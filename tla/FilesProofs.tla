---------------------------- MODULE FilesProofs ----------------------------
(***************************************************************************)
(* Files.tla keeps its types and implements the service, for any number of *)
(* clients and children, whoever is interrupted when.                      *)
(***************************************************************************)
EXTENDS Files, FiniteSetTheorems, TLAPS

-----------------------------------------------------------------------------
(* The inductive invariant: what holds of every process.                   *)

Handshaking == {"tell", "told", "up"}
Joining == {"read", "ask", "askKill", "armPath", "waitPath"}
Joined == {"ack", "ackKill", "ready", "kill", "arm", "wait"}
Late == {"start", "read", "ask"}

\* The semaphore is up at most as often as children have released the server.
Released == {k \in Child : child[k] \notin {"none"} \cup Handshaking}
Semaphore == sem # Removed => sem \in Nat /\ sem <= Cardinality(Released)

\* Who has the public file open, and whose pid it has.
Place(c) ==
    /\ fd[c] = Public => client[c] \in Joining \cup {"exitKill"}
    /\ client[c] \in Joining => fd[c] = Public /\ other[c] \in {Parent, Nobody}
    /\ client[c] \in {"start", "gone"} => fd[c] = Bad /\ other[c] = Nobody
    /\ other[c] = Parent => fd[c] = Public
    /\ fd[c] \in Child => other[c] = fd[c]
    /\ c \in mixed => client[c] \in Joining \cup Joined
    /\ c \in woken => client[c] \in {"waitPath", "wait"}

\* A process has the pid of a child only after the child has told it, and of a
\* client only after the client has asked.
Told(k) == k \in Child /\ child[k] \notin {"none", "tell"}
Known(p) == /\ p \in Child => Told(p)
            /\ p \in Client => client[p] \notin Late
Pids ==
    /\ \A c \in Client : Known(other[c])
    /\ \A k \in Child : Known(peer[k])
    /\ Known(pub.body.of)
    /\ pub.body.kind = "path" <=> pub.body.of \in Child
    /\ \A k \in Child : k > cliCount => child[k] = "none"
    /\ \A k \in Child : k \in woken => child[k] \in {"ack", "serve"}
    /\ \A k \in Child : child[k] \in {"none", "gone"} => peer[k] = Nobody

-----------------------------------------------------------------------------
(* What holds of a client that connected in order.                         *)

Orderly(c) == c \notin mixed /\ client[c] \in Joining \cup Joined

\* Child k is there for c, and nobody else can write to its file or signal it.
Private(k, c) ==
    /\ k \in Child
    /\ \A d \in Client \ {c} : other[d] # k
    /\ \A j \in Child : peer[j] # k /\ (peer[j] = c => j = k)
    /\ child[k] # "gone" => peer[k] = c

\* Nobody signals c but the child that was forked for it.
Unknown(c) ==
    /\ \A d \in Client : other[d] # c
    /\ \A j, k \in Child : peer[j] = c /\ peer[k] = c => j = k

\* From the open of the public file until the path is read c has the file, the
\* server and every child that is still in the handshake for itself.
Connects(c) ==
    LET AskedFor == pub.body = Message("connect", c, 0)
        k == pub.body.of
    IN /\ \A d \in Client \ {c} : fd[d] # Public
       /\ Parent \in woken => parent = "accept" /\ AskedFor /\ \A j \in Child : peer[j] # c
       /\ \A j \in Child : child[j] \in Handshaking => peer[j] = c
       /\ client[c] \in {"read", "ask", "askKill"} =>
             /\ Parent \notin woken /\ parent \in {"accept", "gone"}
             /\ \A j \in Child : peer[j] # c
       /\ client[c] = "askKill" => AskedFor
       /\ client[c] \in {"armPath", "waitPath"} =>
             \/ AskedFor /\ c \notin woken /\ \A j \in Child : peer[j] = c => child[j] = "tell"
             \/ /\ Private(k, c) /\ k \notin woken
                /\ child[k] \in {"told", "up", "armAck", "ack", "gone"}
                /\ child[k] = "told" => c \notin woken
                /\ \A j \in Child : child[j] # "tell"

\* The path of a child in use is still in the public file only while nobody
\* will read it and the server is not told to.
Stale(k) ==
    /\ Parent \notin woken
    /\ \A d \in Client : /\ client[d] \notin {"askKill", "armPath", "waitPath"}
                         /\ client[d] = "exitKill" => other[d] # Parent

\* Between c and its child there is one command at most, the last one, or the
\* answer to it.
LastCommand(c, m) == m.kind = "request" /\ m.of = c /\ m.bit = asked[c]
LastAnswer(c, m) == m.kind = "answer" /\ m.of = c /\ m.bit = asked[c]
Line(c, k) ==
    /\ client[c] \in {"ack", "ackKill"} =>
          k \notin woken /\ child[k] \notin {"arm", "serve", "execute"}
    /\ client[c] \in {"ready", "kill"} =>
          child[k] # "execute" /\ (k \in woken => child[k] = "ack")
    /\ client[c] = "kill" => LastCommand(c, priv[k])
    /\ client[c] \in {"arm", "wait"} =>
          /\ k \in woken /\ child[k] = "serve" => LastCommand(c, priv[k])
          /\ child[k] = "execute" => LastCommand(c, seen[k])
          /\ c \in woken => LastAnswer(c, priv[k]) /\ k \notin woken /\ child[k] # "execute"
Session(c) ==
    LET k == other[c]
    IN /\ Private(k, c) /\ fd[c] \in {k, Bad} /\ child[k] # "told"
       /\ pub.body.of # c
       /\ pub.body.of = k => Stale(k)
       /\ fd[c] = k => Line(c, k)

Order(c) ==
    Orderly(c) => /\ Unknown(c)
                  /\ client[c] \in Joining => Connects(c)
                  /\ client[c] \in Joined => Session(c)

IInv ==
    /\ TypeOK /\ pub \in [pid : BOOLEAN, body : Messages]
    /\ Semaphore /\ Pids
    /\ \A c \in Client : Place(c) /\ Order(c)


-----------------------------------------------------------------------------
(* The steps, and what they leave alone.                                   *)

ParentMoves == WritePid \/ Suspend \/ AcceptError \/ ParentInterrupt \/ WaitSync
ChildSyncs(k) == WakeClient(k) \/ ReleaseServer(k) \/ SuspendChild(k) \/ Synced(k)
ChildServes(k) == Receive(k) \/ Answer(k) \/ AnswerTooLong(k) \/ Ignore(k)
ChildQuits(k) ==
    SyncError(k) \/ SyncNull(k) \/ ChildInterrupt(k) \/ ChildExits(k) \/ ChildFails(k)
ChildOf(k) == TellPath(k) \/ ChildSyncs(k) \/ ChildServes(k) \/ ChildQuits(k)
Writes(c) == Ask(c) \/ Ack(c) \/ Send(c)
Kills(c) == AskKill(c) \/ AckKill(c) \/ SendKill(c)
Reads(c) == ReadPid(c) \/ SuspendClient(c) \/ ReadPath(c) \/ Take(c)
Quits(c) == TakeNull(c) \/ SendExit(c) \/ ExitKill(c) \/ Leave(c)
ClientOf(c) ==
    Start(c) \/ Writes(c) \/ Kills(c) \/ Reads(c) \/ SendTooLong(c) \/ Quits(c)

\* The steps, by who takes them.
LEMMA NextCases ==
    ASSUME [Next]_vars
    PROVE  \/ UNCHANGED vars
           \/ ParentMoves \/ Accept
           \/ \E k \in Child : ChildOf(k)
           \/ \E c \in Client : ClientOf(c)
<1>1. CASE UNCHANGED vars BY <1>1
<1>2. CASE ParentStep \/ ParentInterrupt BY <1>2 DEF ParentStep, ParentMoves
<1>3. ASSUME NEW k \in Child, ChildStep(k) \/ ChildFails(k) \/ ChildInterrupt(k)
      PROVE  ChildOf(k)
  BY <1>3 DEF ChildStep, ChildOf, ChildSyncs, ChildServes, ChildQuits
<1>4. ASSUME NEW c \in Client,
             ClientStep(c) \/ Start(c) \/ Send(c) \/ SendTooLong(c) \/ SendExit(c) \/ Leave(c)
      PROVE  ClientOf(c)
  BY <1>4 DEF ClientStep, ClientOf, Writes, Kills, Reads, Quits
<1>5. QED BY <1>1, <1>2, <1>3, <1>4 DEF Next

\* Parent, children, clients and nobody are different.
LEMMA Distinct ==
    /\ \A k \in Child : k \in Int /\ 1 <= k /\ k <= MaxChild /\ k # Parent /\ k # Nobody
    /\ \A c \in Client : c \notin Child /\ c # Parent /\ c # Nobody
    /\ Parent # Nobody /\ Parent = Public /\ Nobody = Bad /\ Parent \notin Child
    /\ Nobody \notin Child
<1>1. MaxChild \in Nat /\ Client \cap (-1..MaxChild) = {} BY FilesAssumption
<1>2. \A k \in Child : k \in Int /\ 1 <= k /\ k <= MaxChild BY <1>1 DEF Child
<1>3. -1 \in -1..MaxChild /\ 0 \in -1..MaxChild /\ \A k \in Child : k \in -1..MaxChild
  BY <1>1, <1>2
<1>4. \A c \in Client : c \notin Child /\ c # 0 /\ c # -1 BY <1>1, <1>3
<1>5. QED BY <1>1, <1>2, <1>4 DEF Parent, Nobody, Public, Bad

Labels == {"start"} \cup Joining \cup Joined \cup {"exitKill", "gone"}
ChildLabels ==
    {"none", "tell", "told", "up", "armAck", "ack", "arm", "serve", "execute", "gone"}
Pid == Client \cup Child \cup {Nobody}

\* Types, as the lemmas below need them.
LEMMA Types ==
    ASSUME TypeOK
    PROVE  /\ child \in [Child -> ChildLabels] /\ peer \in [Child -> Pid]
           /\ seen \in [Child -> Messages] /\ priv \in [Child -> Messages]
           /\ client \in [Client -> Labels] /\ other \in [Client -> Pid \cup {Parent}]
           /\ fd \in [Client -> Child \cup {Public, Bad}]
           /\ asked \in [Client -> {0, 1}] /\ got \in [Client -> Messages]
<1>1. \A l : l \in {"start"} \cup Joining \cup Joined \cup {"exitKill", "gone"} <=>
             l \in {"start", "read", "ask", "askKill", "armPath", "waitPath",
                    "ack", "ackKill", "ready", "kill", "arm", "wait", "exitKill", "gone"}
  BY DEF Joining, Joined
<1>2. client \in [Client -> Labels] BY <1>1 DEF TypeOK, Labels
<1>3. other \in [Client -> Pid \cup {Parent}] BY DEF TypeOK, Pid
<1>4. QED BY <1>2, <1>3 DEF TypeOK, ChildLabels, Pid

\* What a signal does to the one it is sent to.
LEMMA SignalEffects ==
    ASSUME NEW p, NEW c, Signal(p, c)
    PROVE  /\ woken \subseteq woken' /\ woken' \subseteq woken \cup {p}
           /\ woken' = woken \/ p \in {Parent} \cup Child \cup Client
           /\ p \in Client => woken' = woken \/ client[p] \in {"waitPath", "wait"}
           /\ p \in Child => woken' = woken \/ child[p] \in {"ack", "serve"}
           /\ p = Parent => woken' = woken \/ parent \in {"accept", "waitsync"}
           /\ unheard' \subseteq unheard \cup ({c} \cap Client)
<1>1. CASE p \in {Parent} \cup Child \cup Client /\ Suspended(p)
  BY <1>1, Distinct DEF Signal, Suspended
<1>2. CASE ~(p \in {Parent} \cup Child \cup Client /\ Suspended(p))
  BY <1>2, Distinct DEF Signal, Unheard, Present
<1>3. QED BY <1>1, <1>2

\* The accepting process: what it does without a new client.
LEMMA ParentEffects ==
    ASSUME TypeOK, pub \in [pid : BOOLEAN, body : Messages], ParentMoves
    PROVE  /\ UNCHANGED <<cliCount, childVars, clientVars, priv, unheard, mixed>>
           /\ pub' \in [pid : BOOLEAN, body : Messages] /\ pub'.body = pub.body
           /\ there' \subseteq there
           /\ \/ sem' = sem \/ sem' = Removed
              \/ sem \in Nat /\ sem > 0 /\ sem' = sem - 1
           /\ woken' \subseteq woken /\ woken \ {Parent} \subseteq woken'
           /\ parent # "gone" /\ parent' \in {"pid", "arm", "accept", "gone"}
           /\ parent = "accept" => parent' = "gone" /\ Parent \notin woken'
<1>0. sem = Removed \/ sem \in Nat BY FilesAssumption DEF TypeOK
<1>1. CASE WritePid \/ Suspend
  BY <1>1 DEF WritePid, Suspend, ParentAt, childVars, clientVars, fileVars, signalVars
<1>2. CASE AcceptError \/ ParentInterrupt
  BY <1>2 DEF AcceptError, ParentInterrupt, ParentEnds, Awake, ParentAt, childVars, clientVars
<1>3. CASE WaitSync
  BY <1>0, <1>3 DEF WaitSync, Removed, Awake, ParentAt, childVars, clientVars, fileVars
<1>4. QED BY <1>1, <1>2, <1>3 DEF ParentMoves

\* The fork: of a child that was not there.
LEMMA AcceptEffects ==
    ASSUME TypeOK, Accept
    PROVE  /\ UNCHANGED <<sem, seen, clientVars, fileVars, unheard, mixed>>
           /\ parent = "accept" /\ parent' = "waitsync"
           /\ Parent \in woken /\ woken' = woken \ {Parent}
           /\ pub.body.kind \in {"connect", "path"}
           /\ cliCount' \in Child /\ cliCount' = cliCount + 1
           /\ child' = [child EXCEPT ![cliCount'] = "tell"]
           /\ peer' = [peer EXCEPT ![cliCount'] = pub.body.of]
<1>1. cliCount + 1 \in Child BY FilesAssumption DEF Accept, TypeOK, Child
<1>2. QED BY <1>1 DEF Accept, Awake, ParentAt, ChildAt

\* A child has to do with its own file and its peer, and no client moves.
ChildLeaves(k) ==
    /\ UNCHANGED <<parent, cliCount, client, other, fd, asked, got, mixed>>
    /\ child' \in [Child -> ChildLabels]
    /\ peer' \in [Child -> Pid] /\ seen' \in [Child -> Messages] /\ priv' \in [Child -> Messages]
    /\ \A j \in Child \ {k} : /\ child'[j] = child[j] /\ peer'[j] = peer[j]
                              /\ seen'[j] = seen[j] /\ priv'[j] = priv[j]
    /\ woken \ {k} \subseteq woken' /\ woken' \subseteq woken \cup {peer[k]}
    /\ unheard' \subseteq unheard \cup Client

\* The path and the pid of a child, in the public file.
LEMMA TellEffects ==
    ASSUME TypeOK, NEW k \in Child, TellPath(k)
    PROVE  /\ ChildLeaves(k) /\ UNCHANGED <<sem, peer, seen, priv, woken>>
           /\ child[k] = "tell" /\ child'[k] = "told"
           /\ pub' = [pid |-> FALSE, body |-> Message("path", k, 0)]
           /\ there' = there \cup {k}
BY Types DEF TellPath, ChildLeaves, ChildAt, ChildLabels, serverVars, clientVars, signalVars

\* The rest of ipc_sync, as far as it goes well.
LEMMA SyncsEffects ==
    ASSUME TypeOK, NEW k \in Child, ChildSyncs(k)
    PROVE  /\ ChildLeaves(k) /\ UNCHANGED <<peer, seen, fileVars>>
           /\ \/ /\ child[k] = "told" /\ child'[k] = "up" /\ sem' = sem
                 /\ Signal(peer[k], peer[k])
              \/ /\ child[k] = "up" /\ child'[k] = "armAck" /\ woken' = woken
                 /\ sem' = IF sem = Removed THEN Removed ELSE sem + 1
              \/ /\ \/ child[k] = "armAck" /\ child'[k] = "ack"
                    \/ child[k] = "arm" /\ child'[k] = "serve"
                 /\ sem' = sem /\ woken' = woken
              \/ /\ child[k] = "ack" /\ child'[k] = "arm" /\ sem' = sem
                 /\ k \in woken /\ woken' = woken \ {k}
<1>1. CASE WakeClient(k)
  <2>1. /\ woken \subseteq woken' /\ woken' \subseteq woken \cup {peer[k]}
        /\ unheard' \subseteq unheard \cup Client
    BY <1>1, SignalEffects DEF WakeClient
  <2>2. QED BY <1>1, <2>1, Types DEF WakeClient, ChildLeaves, ChildAt, ChildLabels, serverVars,
           clientVars, fileVars
<1>2. CASE ReleaseServer(k)
  BY <1>2, Types DEF ReleaseServer, ChildLeaves, ChildAt, ChildLabels, clientVars, fileVars,
     signalVars
<1>3. CASE SuspendChild(k)
  BY <1>3, Types DEF SuspendChild, ChildLeaves, ChildAt, ChildLabels, serverVars, clientVars,
     fileVars, signalVars
<1>4. CASE Synced(k)
  BY <1>4, Types DEF Synced, Awake, ChildLeaves, ChildAt, ChildLabels, serverVars, clientVars,
     fileVars
<1>5. QED BY <1>1, <1>2, <1>3, <1>4 DEF ChildSyncs

\* A message has the fields it is made of.
LEMMA MessageFacts ==
    ASSUME NEW kind, NEW p, NEW bit
    PROVE  /\ Message(kind, p, bit).kind = kind /\ Message(kind, p, bit).of = p
           /\ Message(kind, p, bit).bit = bit
           /\ kind \in {"empty", "connect", "path", "request", "answer", "exit"} /\ p \in Pid
              /\ bit \in {0, 1} => Message(kind, p, bit) \in Messages
BY DEF Message, Messages, Pid

\* Who a message is of, and its bit.
LEMMA MessageFields ==
    ASSUME NEW m \in Messages
    PROVE  m.of \in Pid /\ m.bit \in {0, 1}
BY DEF Messages, Pid

\* What an empty file holds.
LEMMA EmptyMessage == Empty \in Messages
BY MessageFacts DEF Empty, Pid

\* A command is read, and answered or not.
LEMMA ServesEffects ==
    ASSUME TypeOK, NEW k \in Child, ChildServes(k)
    PROVE  /\ ChildLeaves(k) /\ UNCHANGED <<sem, peer, pub, there>>
           /\ \/ /\ child[k] = "serve" /\ child'[k] = "execute" /\ priv' = priv
                 /\ seen'[k] = priv[k] /\ k \in woken /\ woken' = woken \ {k}
              \/ /\ child[k] = "execute" /\ child'[k] = "arm"
                 /\ priv'[k] = Message("answer", seen[k].of, seen[k].bit)
                 /\ Signal(peer[k], peer[k])
              \/ /\ child[k] = "execute" /\ child'[k] = "arm" /\ UNCHANGED <<priv, woken>>
<1>1. CASE Receive(k)
  BY <1>1, Types DEF Receive, Awake, ChildLeaves, ChildAt, ChildLabels, serverVars, clientVars,
     fileVars
<1>2. CASE Answer(k)
  <2>. DEFINE m == Message("answer", seen[k].of, seen[k].bit)
  <2>1. m \in Messages BY Types, MessageFacts, MessageFields
  <2>. HIDE DEF m
  <2>2. WriteTo(k, m) BY <1>2 DEF Answer, m
  <2>3. UNCHANGED <<pub, there>> /\ priv' = [priv EXCEPT ![k] = m]
    BY <2>2, Distinct DEF WriteTo
  <2>4. /\ woken \subseteq woken' /\ woken' \subseteq woken \cup {peer[k]}
        /\ unheard' \subseteq unheard \cup Client
    BY <1>2, SignalEffects DEF Answer
  <2>5. /\ child[k] = "execute" /\ Signal(peer[k], peer[k]) /\ ChildAt(k, "arm")
        /\ seen' = [seen EXCEPT ![k] = Empty]
        /\ UNCHANGED <<serverVars, peer, clientVars, mixed>>
    BY <1>2 DEF Answer
  <2>6. ChildLeaves(k)
    BY <2>1, <2>3, <2>4, <2>5, Types, EmptyMessage DEF ChildLeaves, ChildAt, ChildLabels, serverVars,
       clientVars
  <2>7. child'[k] = "arm" /\ priv'[k] = m BY <2>3, <2>5, Types DEF ChildAt
  <2>8. QED BY <2>3, <2>5, <2>6, <2>7 DEF serverVars, m
<1>3. CASE AnswerTooLong(k) \/ Ignore(k)
  <2>1. unheard' \subseteq unheard \cup Client
    BY <1>3 DEF AnswerTooLong, Ignore, Unheard, Present, signalVars
  <2>2. /\ child[k] = "execute" /\ ChildAt(k, "arm") /\ seen' = [seen EXCEPT ![k] = Empty]
        /\ UNCHANGED <<serverVars, peer, clientVars, fileVars, woken, mixed>>
    BY <1>3 DEF AnswerTooLong, Ignore, signalVars
  <2>3. QED BY <2>1, <2>2, Types, EmptyMessage DEF ChildLeaves, ChildAt, ChildLabels, serverVars,
           clientVars, fileVars
<1>4. QED BY <1>1, <1>2, <1>3 DEF ChildServes

\* The end of a child, in order or not.
LEMMA ChildQuitsEffects ==
    ASSUME TypeOK, Pids, NEW k \in Child, ChildQuits(k)
    PROVE  /\ ChildLeaves(k) /\ UNCHANGED <<pub, priv>>
           /\ there' \subseteq there
           /\ \/ sem' = sem \/ sem' = Removed
              \/ sem \in Nat /\ sem > 0 /\ sem' = sem - 1
           /\ child[k] \notin {"none", "gone"} /\ child'[k] = "gone" /\ peer'[k] = Nobody
           /\ k \notin woken' /\ woken' \subseteq woken
<1>1. sem = Removed \/ sem \in Nat BY FilesAssumption DEF TypeOK
<1>2. /\ ChildEnds(k) /\ child[k] \notin {"none", "gone"} /\ there' \subseteq there
      /\ woken' = woken \ {k}
  BY DEF ChildQuits, SyncError, SyncNull, ChildInterrupt, ChildExits, ChildFails, Awake, Pids
<1>3. /\ \/ sem' = sem \/ sem' = Removed
         \/ sem \in Nat /\ sem > 0 /\ sem' = sem - 1
  BY <1>1 DEF ChildQuits, SyncError, SyncNull, ChildInterrupt, ChildExits, ChildFails, Undone,
     Removed
<1>4. Nobody \in Pid BY DEF Pid
<1>5. QED BY <1>2, <1>3, <1>4, Types, EmptyMessage DEF ChildEnds, ChildLeaves, ChildAt, ChildLabels,
         clientVars, Unheard, Present

\* A client has to do with the file it has open and the process whose pid it
\* has; of other clients it only learns with whom it connects together.
ClientLeaves(c) ==
    /\ UNCHANGED <<serverVars, childVars, there>>
    /\ client' \in [Client -> Labels] /\ other' \in [Client -> Pid \cup {Parent}]
    /\ fd' \in [Client -> Child \cup {Public, Bad}]
    /\ asked' \in [Client -> {0, 1}] /\ got' \in [Client -> Messages]
    /\ \A d \in Client \ {c} : /\ client'[d] = client[d] /\ other'[d] = other[d]
                               /\ fd'[d] = fd[d] /\ asked'[d] = asked[d] /\ got'[d] = got[d]
    /\ pub' \in [pid : BOOLEAN, body : Messages] /\ priv' \in [Child -> Messages]
    /\ fd[c] # Public => pub' = pub
    /\ \A j \in Child : j # fd[c] => priv'[j] = priv[j]
    /\ woken \ {c} \subseteq woken' /\ woken' \subseteq woken \cup {other[c]}
    /\ unheard' \subseteq unheard \cup Client /\ mixed' \subseteq Client

\* The first part of the invariant, which the effects of the steps rest on.
Typed == TypeOK /\ pub \in [pid : BOOLEAN, body : Messages]

\* The open of the public file: in order if the server waits and nobody
\* connects.
LEMMA StartEffects ==
    ASSUME Typed, NEW c \in Client, Start(c)
    PROVE  /\ ClientLeaves(c) /\ UNCHANGED <<fileVars, woken, other, asked, got>>
           /\ client[c] = "start"
           /\ \/ client'[c] = "gone" /\ UNCHANGED <<fd, mixed>>
              \/ /\ client'[c] = "read" /\ fd'[c] = Public
                 /\ \/ Quiet /\ mixed' = mixed
                    \/ mixed' = mixed \cup {c} \cup {d \in Present : Connecting(d)}
<1>1. CASE Public \in there
  <2>1. /\ client[c] = "start" /\ ClientAt(c, "read") /\ fd' = [fd EXCEPT ![c] = Public]
        /\ \/ Quiet /\ mixed' = mixed
           \/ mixed' = mixed \cup {c} \cup {d \in Present : Connecting(d)}
        /\ unheard' \subseteq unheard
        /\ UNCHANGED <<serverVars, childVars, other, asked, got, fileVars, woken>>
    BY <1>1 DEF Start
  <2>2. mixed' \subseteq Client BY <2>1 DEF Present, Typed, TypeOK
  <2>3. client'[c] = "read" /\ fd'[c] = Public BY <2>1, Types DEF ClientAt, Typed
  <2>4. ClientLeaves(c)
    BY <2>1, <2>2, Types DEF ClientLeaves, ClientAt, Labels, Joining, Typed, TypeOK, fileVars
  <2>5. QED BY <2>1, <2>3, <2>4
<1>2. CASE Public \notin there
  <2>1. /\ client[c] = "start" /\ ClientAt(c, "gone") /\ UNCHANGED <<fd, mixed, unheard>>
        /\ UNCHANGED <<serverVars, childVars, other, asked, got, fileVars, woken>>
    BY <1>2 DEF Start
  <2>2. client'[c] = "gone" BY <2>1, Types DEF ClientAt, Typed
  <2>4. ClientLeaves(c)
    BY <2>1, Types DEF ClientLeaves, ClientAt, Labels, Typed, TypeOK, fileVars
  <2>5. QED BY <2>1, <2>2, <2>4
<1>3. QED BY <1>1, <1>2

\* A write goes to one file.
LEMMA WriteEffects ==
    ASSUME Typed, NEW f \in Child \cup {Public, Bad}, NEW m \in Messages, WriteTo(f, m)
    PROVE  /\ there' = there
           /\ pub' \in [pid : BOOLEAN, body : Messages] /\ priv' \in [Child -> Messages]
           /\ f = Public => pub'.body = m
           /\ f # Public => pub' = pub
           /\ f \in Child => priv'[f] = m
           /\ \A j \in Child : j # f => priv'[j] = priv[j]
BY Types, Distinct DEF Typed, WriteTo

\* What a client writes.
LEMMA WritesEffects ==
    ASSUME Typed, NEW c \in Client, Writes(c)
    PROVE  /\ ClientLeaves(c) /\ UNCHANGED <<other, fd, got, woken, mixed>>
           /\ \/ /\ client[c] = "ask" /\ client'[c] = "askKill" /\ asked' = asked
                 /\ fd[c] = Public => pub'.body = Message("connect", c, 0)
              \/ client[c] = "ack" /\ client'[c] = "ackKill" /\ asked' = asked
              \/ /\ client[c] = "ready" /\ client'[c] = "kill"
                 /\ asked' = [asked EXCEPT ![c] = 1 - @]
                 /\ fd[c] \in Child => priv'[fd[c]] = Message("request", c, asked'[c])
<1>. DEFINE Wrote(m) == /\ WriteTo(fd[c], m)
                        /\ UNCHANGED <<serverVars, childVars, other, fd, got, signalVars, mixed>>
<1>1. ASSUME NEW m \in Messages, Wrote(m), client' \in [Client -> Labels],
             asked' \in [Client -> {0, 1}],
             \A d \in Client \ {c} : client'[d] = client[d] /\ asked'[d] = asked[d]
      PROVE  /\ ClientLeaves(c) /\ UNCHANGED <<other, fd, got, woken, mixed>>
             /\ fd[c] = Public => pub'.body = m
             /\ fd[c] \in Child => priv'[fd[c]] = m
  <2>1. fd[c] \in Child \cup {Public, Bad} BY Types DEF Typed
  <2>2. /\ there' = there
        /\ pub' \in [pid : BOOLEAN, body : Messages] /\ priv' \in [Child -> Messages]
        /\ fd[c] = Public => pub'.body = m
        /\ fd[c] # Public => pub' = pub
        /\ fd[c] \in Child => priv'[fd[c]] = m
        /\ \A j \in Child : j # fd[c] => priv'[j] = priv[j]
    BY <1>1, <2>1, WriteEffects
  <2>3. QED BY <1>1, <2>2, Types DEF ClientLeaves, Typed, TypeOK, signalVars
<1>2. CASE Ask(c)
  <2>1. Wrote(Message("connect", c, 0)) /\ client[c] = "ask" /\ ClientAt(c, "askKill") /\ asked' = asked
    BY <1>2 DEF Ask, Write
  <2>2. Message("connect", c, 0) \in Messages BY MessageFacts DEF Pid
  <2>3. /\ client' \in [Client -> Labels] /\ client'[c] = "askKill" /\ asked' \in [Client -> {0, 1}]
        /\ \A d \in Client \ {c} : client'[d] = client[d] /\ asked'[d] = asked[d]
    BY <2>1, Types DEF Typed, ClientAt, Labels, Joining
  <2>. HIDE DEF Wrote
  <2>4. QED BY <1>1, <2>1, <2>2, <2>3
<1>3. CASE Ack(c)
  <2>1. Wrote(Message("connect", Nobody, 0)) /\ client[c] = "ack" /\ ClientAt(c, "ackKill")
        /\ asked' = asked
    BY <1>3 DEF Ack, Write
  <2>2. Message("connect", Nobody, 0) \in Messages BY MessageFacts DEF Pid
  <2>3. /\ client' \in [Client -> Labels] /\ client'[c] = "ackKill" /\ asked' \in [Client -> {0, 1}]
        /\ \A d \in Client \ {c} : client'[d] = client[d] /\ asked'[d] = asked[d]
    BY <2>1, Types DEF Typed, ClientAt, Labels, Joined
  <2>. HIDE DEF Wrote
  <2>4. QED BY <1>1, <2>1, <2>2, <2>3
<1>4. CASE Send(c)
  <2>1. /\ Wrote(Message("request", c, asked'[c])) /\ client[c] = "ready" /\ ClientAt(c, "kill")
        /\ asked' = [asked EXCEPT ![c] = 1 - @]
    BY <1>4 DEF Send, Write
  <2>2. asked' \in [Client -> {0, 1}] BY <2>1, Types DEF Typed
  <2>3. Message("request", c, asked'[c]) \in Messages BY <2>2, MessageFacts DEF Pid
  <2>4. /\ client' \in [Client -> Labels] /\ client'[c] = "kill"
        /\ \A d \in Client \ {c} : client'[d] = client[d] /\ asked'[d] = asked[d]
    BY <2>1, Types DEF Typed, ClientAt, Labels, Joined
  <2>. HIDE DEF Wrote
  <2>5. QED BY <1>1, <2>1, <2>2, <2>3, <2>4
<1>5. QED BY <1>2, <1>3, <1>4 DEF Writes

\* Whom a client wakes.
LEMMA KillsEffects ==
    ASSUME Typed, NEW c \in Client, Kills(c)
    PROVE  /\ ClientLeaves(c) /\ UNCHANGED <<other, fd, asked, got, fileVars, mixed>>
           /\ Signal(other[c], c)
           /\ \/ client[c] = "askKill" /\ client'[c] = "armPath"
              \/ client[c] = "ackKill" /\ client'[c] = "ready"
              \/ client[c] = "kill" /\ client'[c] = "arm"
<1>1. PICK from, to : /\ Kill(c, from, to)
                      /\ <<from, to>> \in {<<"askKill", "armPath">>, <<"ackKill", "ready">>,
                                           <<"kill", "arm">>}
  BY DEF Kills, AskKill, AckKill, SendKill
<1>2. /\ Signal(other[c], c) /\ client[c] = from /\ ClientAt(c, to)
      /\ UNCHANGED <<serverVars, childVars, other, fd, asked, got, fileVars, mixed>>
  BY <1>1 DEF Kill
<1>3. /\ woken \subseteq woken' /\ woken' \subseteq woken \cup {other[c]}
      /\ unheard' \subseteq unheard \cup Client
  BY <1>2, SignalEffects
<1>4. to \in {"armPath", "ready", "arm"} BY <1>1
<1>5. client' \in [Client -> Labels] /\ client'[c] = to
      /\ \A d \in Client \ {c} : client'[d] = client[d]
  BY <1>2, <1>4, Types DEF Typed, ClientAt, Labels, Joining, Joined
<1>6. ClientLeaves(c)
  BY <1>2, <1>3, <1>5, Types DEF ClientLeaves, Typed, TypeOK, fileVars
<1>7. QED BY <1>1, <1>2, <1>5, <1>6

\* What a client reads, and where it waits.
LEMMA ReadsEffects ==
    ASSUME Typed, NEW c \in Client, Reads(c)
    PROVE  /\ ClientLeaves(c) /\ UNCHANGED <<asked, fileVars, mixed>>
           /\ \/ /\ client[c] = "read" /\ client'[c] = "ask" /\ UNCHANGED <<fd, got, woken>>
                 /\ other'[c] \in {Parent, Nobody}
              \/ /\ \/ client[c] = "armPath" /\ client'[c] = "waitPath"
                    \/ client[c] = "arm" /\ client'[c] = "wait"
                 /\ UNCHANGED <<other, fd, got, woken>>
              \/ /\ client[c] = "waitPath" /\ client'[c] = "ack" /\ c \in woken
                 /\ woken' = woken \ {c} /\ got' = got
                 /\ other'[c] = pub.body.of
                 /\ \/ fd'[c] = Bad
                    \/ fd'[c] = pub.body.of /\ pub.body.kind = "path"
              \/ /\ client[c] = "wait" /\ client'[c] = "ready" /\ c \in woken
                 /\ woken' = woken \ {c} /\ fd[c] \in Child /\ UNCHANGED <<other, fd>>
                 /\ got'[c] = priv[fd[c]]
<1>0. /\ pub.body \in Messages /\ pub.body.of \in Pid
  BY MessageFields DEF Typed
<1>1. CASE ReadPid(c)
  <2>1. /\ client[c] = "read" /\ ClientAt(c, "ask")
        /\ UNCHANGED <<serverVars, childVars, fd, asked, got, fileVars, signalVars, mixed>>
    BY <1>1 DEF ReadPid
  <2>2. PICK p \in {Parent, Nobody} : other' = [other EXCEPT ![c] = p]
    BY <1>1 DEF ReadPid
  <2>3. p \in Pid \cup {Parent} BY DEF Pid
  <2>4. /\ other' \in [Client -> Pid \cup {Parent}] /\ other'[c] = p
        /\ \A d \in Client \ {c} : other'[d] = other[d]
    BY <2>2, <2>3, Types DEF Typed
  <2>5. /\ client' \in [Client -> Labels] /\ client'[c] = "ask"
        /\ \A d \in Client \ {c} : client'[d] = client[d]
    BY <2>1, Types DEF Typed, ClientAt, Labels, Joining
  <2>6. ClientLeaves(c)
    BY <2>1, <2>4, <2>5, Types DEF ClientLeaves, Typed, TypeOK, fileVars, signalVars
  <2>7. QED BY <2>1, <2>4, <2>5, <2>6 DEF signalVars
<1>2. CASE SuspendClient(c)
  <2>1. /\ \/ client[c] = "armPath" /\ ClientAt(c, "waitPath")
           \/ client[c] = "arm" /\ ClientAt(c, "wait")
        /\ UNCHANGED <<serverVars, childVars, other, fd, asked, got, fileVars, signalVars, mixed>>
    BY <1>2 DEF SuspendClient
  <2>2. /\ client' \in [Client -> Labels]
        /\ \/ client[c] = "armPath" /\ client'[c] = "waitPath"
           \/ client[c] = "arm" /\ client'[c] = "wait"
        /\ \A d \in Client \ {c} : client'[d] = client[d]
    BY <2>1, Types DEF Typed, ClientAt, Labels, Joining, Joined
  <2>3. ClientLeaves(c)
    BY <2>1, <2>2, Types DEF ClientLeaves, Typed, TypeOK, fileVars, signalVars
  <2>4. QED BY <2>1, <2>2, <2>3 DEF signalVars
<1>3. CASE ReadPath(c)
  <2>1. /\ client[c] = "waitPath" /\ c \in woken /\ woken' = woken \ {c} /\ ClientAt(c, "ack")
        /\ other' = [other EXCEPT ![c] = pub.body.of]
        /\ UNCHANGED <<serverVars, childVars, asked, got, fileVars, unheard, mixed>>
    BY <1>3 DEF ReadPath, Awake
  <2>. DEFINE f == IF pub.body.kind = "path" /\ pub.body.of \in there THEN pub.body.of ELSE Bad
  <2>2. fd' = [fd EXCEPT ![c] = f] BY <1>3 DEF ReadPath
  <2>3. there \subseteq {Public} \cup 1..cliCount /\ cliCount \in 0..MaxChild BY DEF Typed, TypeOK
  <2>4. \/ f = Bad
        \/ f = pub.body.of /\ pub.body.kind = "path" /\ f \in Child \cup {Public}
    <3>1. CASE pub.body.kind = "path" /\ pub.body.of \in there
      BY <2>3, <3>1, FilesAssumption DEF Child
    <3>2. CASE ~(pub.body.kind = "path" /\ pub.body.of \in there) BY <3>2
    <3>3. QED BY <3>1, <3>2
  <2>. HIDE DEF f
  <2>5. /\ fd' \in [Client -> Child \cup {Public, Bad}] /\ fd'[c] = f
        /\ \A d \in Client \ {c} : fd'[d] = fd[d]
    BY <2>2, <2>4, Types DEF Typed
  <2>6. /\ other' \in [Client -> Pid \cup {Parent}] /\ other'[c] = pub.body.of
        /\ \A d \in Client \ {c} : other'[d] = other[d]
    BY <1>0, <2>1, Types DEF Typed
  <2>7. /\ client' \in [Client -> Labels] /\ client'[c] = "ack"
        /\ \A d \in Client \ {c} : client'[d] = client[d]
    BY <2>1, Types DEF Typed, ClientAt, Labels, Joined
  <2>8. ClientLeaves(c)
    BY <2>1, <2>5, <2>6, <2>7, Types DEF ClientLeaves, Typed, TypeOK, fileVars
  <2>9. QED BY <2>1, <2>4, <2>5, <2>6, <2>7, <2>8
<1>4. CASE Take(c)
  <2>1. /\ client[c] = "wait" /\ c \in woken /\ woken' = woken \ {c} /\ fd[c] \in Child
        /\ got' = [got EXCEPT ![c] = priv[fd[c]]] /\ ClientAt(c, "ready")
        /\ UNCHANGED <<serverVars, childVars, other, fd, asked, fileVars, unheard, mixed>>
    BY <1>4 DEF Take, Awake
  <2>2. /\ got' \in [Client -> Messages] /\ got'[c] = priv[fd[c]]
        /\ \A d \in Client \ {c} : got'[d] = got[d]
    BY <2>1, Types DEF Typed
  <2>3. /\ client' \in [Client -> Labels] /\ client'[c] = "ready"
        /\ \A d \in Client \ {c} : client'[d] = client[d]
    BY <2>1, Types DEF Typed, ClientAt, Labels, Joined
  <2>4. ClientLeaves(c)
    BY <2>1, <2>2, <2>3, Types DEF ClientLeaves, Typed, TypeOK, fileVars
  <2>5. QED BY <2>1, <2>2, <2>3, <2>4
<1>5. QED BY <1>1, <1>2, <1>3, <1>4 DEF Reads

\* A command that ipc_send refuses.
LEMMA SendTooLongEffects ==
    ASSUME Typed, NEW c \in Client, SendTooLong(c)
    PROVE  /\ ClientLeaves(c) /\ UNCHANGED <<other, fd, got, fileVars, woken, mixed>>
           /\ client[c] = "ready" /\ client'[c] = "arm"
           /\ asked' = [asked EXCEPT ![c] = 1 - @]
<1>1. /\ client[c] = "ready" /\ ClientAt(c, "arm") /\ asked' = [asked EXCEPT ![c] = 1 - @]
      /\ Unheard(c)
      /\ UNCHANGED <<serverVars, childVars, other, fd, got, fileVars, woken, mixed>>
  BY DEF SendTooLong
<1>2. unheard' \subseteq unheard \cup Client BY <1>1 DEF Unheard
<1>3. asked' \in [Client -> {0, 1}] /\ \A d \in Client \ {c} : asked'[d] = asked[d]
  BY <1>1, Types DEF Typed
<1>4. /\ client' \in [Client -> Labels] /\ client'[c] = "arm"
      /\ \A d \in Client \ {c} : client'[d] = client[d]
  BY <1>1, Types DEF Typed, ClientAt, Labels, Joined
<1>5. ClientLeaves(c)
  BY <1>1, <1>2, <1>3, <1>4, Types DEF ClientLeaves, Typed, TypeOK, fileVars
<1>6. QED BY <1>1, <1>4, <1>5

\* The end of a client: OP_EXIT first, or none.
LEMMA QuitsEffects ==
    ASSUME Typed, NEW c \in Client, Place(c), Quits(c)
    PROVE  /\ ClientLeaves(c) /\ client[c] # "gone"
           /\ mixed' = mixed \ {c} /\ c \notin woken'
           /\ client[c] = "exitKill" => UNCHANGED <<asked, got>>
           /\ \/ /\ client[c] \notin {"start", "exitKill"} /\ client'[c] = "exitKill"
                 /\ UNCHANGED <<other, fd>> /\ woken' \subseteq woken
                 /\ fd[c] = Public => pub'.body = Message("exit", Nobody, 0)
              \/ /\ client'[c] = "gone" /\ other'[c] = Nobody /\ fd'[c] = Bad
                 /\ UNCHANGED fileVars
                 /\ \/ woken' \subseteq woken
                    \/ client[c] = "exitKill" /\ Signal(other[c], Nobody)
<1>0. Nobody \in Pid /\ Bad \in Child \cup {Public, Bad} BY DEF Pid
<1>1. CASE SendExit(c)
  <2>. DEFINE m == Message("exit", Nobody, 0)
  <2>1. m \in Messages BY MessageFacts DEF Pid
  <2>. HIDE DEF m
  <2>2. /\ client[c] \notin {"start", "exitKill", "gone"} /\ WriteTo(fd[c], m)
        /\ ClientAt(c, "exitKill") /\ Forget(c) /\ woken' = woken \ {c}
        /\ UNCHANGED <<serverVars, childVars, other, fd>>
    BY <1>1 DEF SendExit, m
  <2>3. fd[c] \in Child \cup {Public, Bad} BY Types DEF Typed
  <2>4. /\ there' = there
        /\ pub' \in [pid : BOOLEAN, body : Messages] /\ priv' \in [Child -> Messages]
        /\ fd[c] = Public => pub'.body = m
        /\ fd[c] # Public => pub' = pub
        /\ \A j \in Child : j # fd[c] => priv'[j] = priv[j]
    BY <2>1, <2>2, <2>3, WriteEffects
  <2>5. /\ client' \in [Client -> Labels] /\ client'[c] = "exitKill"
        /\ asked' \in [Client -> {0, 1}] /\ got' \in [Client -> Messages]
        /\ \A d \in Client \ {c} : client'[d] = client[d] /\ asked'[d] = asked[d] /\ got'[d] = got[d]
        /\ mixed' = mixed \ {c} /\ unheard' \subseteq unheard
    BY <2>2, Types, EmptyMessage DEF Typed, ClientAt, Labels, Forget
  <2>6. ClientLeaves(c) BY <2>2, <2>4, <2>5, Types DEF ClientLeaves, Typed, TypeOK
  <2>7. QED BY <2>2, <2>4, <2>5, <2>6 DEF m
<1>2. ASSUME ClientEnds(c)
      PROVE  /\ client' \in [Client -> Labels] /\ client'[c] = "gone"
             /\ other' \in [Client -> Pid \cup {Parent}] /\ other'[c] = Nobody
             /\ fd' \in [Client -> Child \cup {Public, Bad}] /\ fd'[c] = Bad
             /\ \A d \in Client \ {c} : client'[d] = client[d] /\ other'[d] = other[d] /\ fd'[d] = fd[d]
             /\ UNCHANGED <<serverVars, childVars>>
  BY <1>0, <1>2, Types DEF Typed, ClientEnds, ClientAt, Labels
<1>3. CASE TakeNull(c) \/ Leave(c)
  <2>1. /\ client[c] \notin {"exitKill", "gone"} /\ ClientEnds(c) /\ Forget(c)
        /\ UNCHANGED fileVars
        /\ c \notin woken' /\ woken \ {c} \subseteq woken' /\ woken' \subseteq woken
    BY <1>3 DEF TakeNull, Leave, Awake, Place
  <2>2. /\ asked' \in [Client -> {0, 1}] /\ got' \in [Client -> Messages]
        /\ \A d \in Client \ {c} : asked'[d] = asked[d] /\ got'[d] = got[d]
        /\ mixed' = mixed \ {c} /\ unheard' \subseteq unheard
    BY <2>1, Types, EmptyMessage DEF Typed, Forget
  <2>3. ClientLeaves(c)
    BY <1>2, <2>1, <2>2, Types DEF ClientLeaves, Typed, TypeOK, fileVars
  <2>4. QED BY <1>2, <2>1, <2>2, <2>3
<1>4. CASE ExitKill(c)
  <2>1. /\ client[c] = "exitKill" /\ Signal(other[c], Nobody) /\ ClientEnds(c)
        /\ UNCHANGED <<asked, got, fileVars, mixed>>
    BY <1>4 DEF ExitKill
  <2>2. /\ woken \subseteq woken' /\ woken' \subseteq woken \cup {other[c]}
        /\ other[c] \in Client => woken' = woken \/ client[other[c]] \in {"waitPath", "wait"}
        /\ unheard' \subseteq unheard \cup Client
    BY <2>1, SignalEffects
  <2>3. c \notin woken /\ mixed = mixed \ {c} BY <2>1 DEF Place, Joining, Joined
  <2>4. c \notin woken' BY <2>1, <2>2, <2>3
  <2>5. ClientLeaves(c)
    BY <1>2, <2>1, <2>2, Types DEF ClientLeaves, Typed, TypeOK, fileVars
  <2>6. QED BY <1>2, <2>1, <2>3, <2>4, <2>5
<1>5. QED BY <1>1, <1>3, <1>4 DEF Quits

\* A client leaves alone what is not its own, whatever it does.
LEMMA ClientEffects ==
    ASSUME Typed, NEW c \in Client, Place(c), ClientOf(c)
    PROVE  /\ ClientLeaves(c)
           /\ client[c] # "gone" /\ client'[c] # "start"
           /\ client[c] \notin Late => client'[c] \notin Late
           /\ Start(c) \/ (mixed' \subseteq mixed /\ mixed \ {c} \subseteq mixed')
BY StartEffects, WritesEffects, KillsEffects, ReadsEffects, SendTooLongEffects, QuitsEffects
   DEF ClientOf, Late

-----------------------------------------------------------------------------
(* Types and the semaphore.                                                *)

\* Sets of children can be counted, and there are MaxChild at most.
LEMMA ChildSets ==
    ASSUME NEW R, R \subseteq Child
    PROVE  /\ IsFiniteSet(R) /\ Cardinality(R) \in Nat /\ Cardinality(R) <= MaxChild
           /\ \A Q : Q \subseteq R => IsFiniteSet(Q) /\ Cardinality(Q) \in Nat
                                      /\ Cardinality(Q) <= Cardinality(R)
           /\ \A k : k \notin R => Cardinality(R \cup {k}) = Cardinality(R) + 1
<1>1. IsFiniteSet(Child) /\ Cardinality(Child) = MaxChild
  <2>1. MaxChild \in Nat /\ 1 \in Int /\ MaxChild \in Int BY FilesAssumption
  <2>2. Cardinality(1..MaxChild) = IF 1 > MaxChild THEN 0 ELSE MaxChild - 1 + 1
    BY <2>1, FS_Interval
  <2>3. IsFiniteSet(1..MaxChild) BY <2>1, FS_Interval
  <2>4. Cardinality(1..MaxChild) = MaxChild BY <2>1, <2>2
  <2>5. QED BY <2>3, <2>4 DEF Child
<1>2. IsFiniteSet(R) /\ Cardinality(R) <= MaxChild BY <1>1, FS_Subset
<1>3. \A Q : Q \subseteq R => IsFiniteSet(Q) /\ Cardinality(Q) <= Cardinality(R) BY <1>2, FS_Subset
<1>4. \A Q : IsFiniteSet(Q) => Cardinality(Q) \in Nat BY FS_CardinalityType
<1>5. \A k : k \notin R => Cardinality(R \cup {k}) = Cardinality(R) + 1 BY <1>2, FS_AddElement
<1>6. QED BY <1>2, <1>3, <1>4, <1>5

\* No step takes a child back to the handshake.
LEMMA ReleasedGrows ==
    ASSUME Typed, Pids, \A c \in Client : Place(c), [Next]_vars
    PROVE  Released \subseteq Released'
<1>1. CASE UNCHANGED vars BY <1>1 DEF vars, childVars, Released
<1>2. CASE ParentMoves BY <1>2, ParentEffects DEF Typed, childVars, Released
<1>3. CASE Accept
  <2>1. /\ cliCount' \in Child /\ cliCount' = cliCount + 1 /\ cliCount \in Nat
        /\ child' = [child EXCEPT ![cliCount'] = "tell"]
    BY <1>3, AcceptEffects, FilesAssumption DEF Typed, TypeOK
  <2>2. child[cliCount'] = "none" BY <2>1 DEF Pids
  <2>3. \A j \in Child : j # cliCount' => child'[j] = child[j] BY <2>1, Types DEF Typed
  <2>4. QED BY <2>2, <2>3 DEF Released
<1>4. ASSUME NEW k \in Child, ChildOf(k) PROVE Released \subseteq Released'
  <2>1. /\ \A j \in Child \ {k} : child'[j] = child[j]
        /\ child[k] \in {"none"} \cup Handshaking \/ child'[k] \notin {"none"} \cup Handshaking
    BY <1>4, TellEffects, SyncsEffects, ServesEffects, ChildQuitsEffects
       DEF ChildOf, ChildLeaves, Handshaking, Typed
  <2>2. QED BY <2>1 DEF Released
<1>5. ASSUME NEW c \in Client, ClientOf(c) PROVE Released \subseteq Released'
  BY <1>5, ClientEffects DEF ClientLeaves, childVars, Released
<1>6. QED BY <1>1, <1>2, <1>3, <1>4, <1>5, NextCases

\* An up belongs to one child, which is released by it.
LEMMA SemaphoreStep ==
    ASSUME Typed, Pids, Semaphore, \A c \in Client : Place(c), [Next]_vars
    PROVE  Semaphore'
<1>1. Released' \subseteq Child BY DEF Released
<1>2. /\ Cardinality(Released) \in Nat /\ Cardinality(Released') \in Nat
      /\ Cardinality(Released) <= Cardinality(Released')
  BY <1>1, ReleasedGrows, ChildSets
<1>3. ASSUME \/ sem' = sem \/ sem' = Removed
             \/ sem \in Nat /\ sem > 0 /\ sem' = sem - 1
      PROVE  Semaphore'
  <2>1. ASSUME sem' = sem PROVE Semaphore' BY <1>2, <2>1 DEF Semaphore, Removed
  <2>2. ASSUME sem \in Nat, sem > 0, sem' = sem - 1 PROVE Semaphore'
    BY <1>2, <2>2 DEF Semaphore, Removed
  <2>3. QED BY <1>3, <2>1, <2>2 DEF Semaphore
<1>4. CASE UNCHANGED vars BY <1>3, <1>4 DEF vars, serverVars
<1>5. CASE ParentMoves BY <1>3, <1>5, ParentEffects DEF Typed
<1>6. CASE Accept BY <1>3, <1>6, AcceptEffects DEF Typed
<1>7. ASSUME NEW k \in Child, ChildOf(k) PROVE Semaphore'
  <2>1. CASE TellPath(k) \/ ChildServes(k) \/ ChildQuits(k)
    BY <1>3, <2>1, TellEffects, ServesEffects, ChildQuitsEffects DEF Typed
  <2>2. CASE ChildSyncs(k)
    <3>1. CASE sem' = sem BY <1>3, <3>1
    <3>2. CASE sem' # sem
      <4>1. /\ child[k] = "up" /\ child'[k] = "armAck"
            /\ sem' = IF sem = Removed THEN Removed ELSE sem + 1
        BY <2>2, <3>2, SyncsEffects DEF Typed
      <4>2. Released \cup {k} \subseteq Released' /\ k \notin Released
        BY <4>1, ReleasedGrows DEF Released, Handshaking
      <4>3. Cardinality(Released \cup {k}) = Cardinality(Released) + 1
        <5>1. Released \subseteq Child BY DEF Released
        <5>2. QED BY <4>2, <5>1, ChildSets
      <4>4. Cardinality(Released \cup {k}) <= Cardinality(Released') BY <1>1, <4>2, ChildSets
      <4>5. QED BY <1>2, <4>1, <4>3, <4>4 DEF Semaphore, Removed
    <3>3. QED BY <3>1, <3>2
  <2>3. QED BY <1>7, <2>1, <2>2 DEF ChildOf
<1>8. ASSUME NEW c \in Client, ClientOf(c) PROVE Semaphore'
  BY <1>3, <1>8, ClientEffects DEF ClientLeaves, serverVars
<1>9. QED BY <1>4, <1>5, <1>6, <1>7, <1>8, NextCases

\* The types, given the bound of the semaphore.
LEMMA TypesFrom ==
    ASSUME /\ parent' \in {"pid", "arm", "accept", "waitsync", "gone"}
           /\ cliCount' \in 0..MaxChild /\ Semaphore'
           /\ child' \in [Child -> ChildLabels] /\ peer' \in [Child -> Pid]
           /\ seen' \in [Child -> Messages] /\ priv' \in [Child -> Messages]
           /\ client' \in [Client -> Labels] /\ other' \in [Client -> Pid \cup {Parent}]
           /\ fd' \in [Client -> Child \cup {Public, Bad}]
           /\ asked' \in [Client -> {0, 1}] /\ got' \in [Client -> Messages]
           /\ pub' \in [pid : BOOLEAN, body : Messages]
           /\ there' \subseteq {Public} \cup 1..cliCount'
           /\ woken' \subseteq {Parent} \cup Child \cup Client
           /\ unheard' \subseteq Client /\ mixed' \subseteq Client
    PROVE  Typed'
<1>1. sem' \in {Removed} \cup 0..MaxChild
  <2>1. Released' \subseteq Child BY DEF Released
  <2>2. Cardinality(Released') \in Nat /\ Cardinality(Released') <= MaxChild BY <2>1, ChildSets
  <2>3. QED BY <2>2, FilesAssumption DEF Semaphore
<1>2. \A l : l \in {"start"} \cup Joining \cup Joined \cup {"exitKill", "gone"} <=>
             l \in {"start", "read", "ask", "askKill", "armPath", "waitPath",
                    "ack", "ackKill", "ready", "kill", "arm", "wait", "exitKill", "gone"}
  BY DEF Joining, Joined
<1>3. client' \in [Client -> {"start", "read", "ask", "askKill", "armPath", "waitPath",
                              "ack", "ackKill", "ready", "kill", "arm", "wait",
                              "exitKill", "gone"}]
  BY <1>2 DEF Labels
<1>4. other' \in [Client -> Client \cup Child \cup {Parent, Nobody}] BY DEF Pid
<1>5. pub'.pid \in BOOLEAN /\ pub'.body \in Messages OBVIOUS
<1>6. QED BY <1>1, <1>3, <1>4, <1>5 DEF Typed, TypeOK, ChildLabels, Pid

\* Types are kept; a file belongs to a child that was forked.
LEMMA TypedStep ==
    ASSUME Typed, Pids, Semaphore, \A c \in Client : Place(c), [Next]_vars
    PROVE  Typed'
<1>1. Semaphore' BY SemaphoreStep
<1>2. /\ parent \in {"pid", "arm", "accept", "waitsync", "gone"} /\ cliCount \in 0..MaxChild
      /\ there \subseteq {Public} \cup 1..cliCount
      /\ woken \subseteq {Parent} \cup Child \cup Client
      /\ unheard \subseteq Client /\ mixed \subseteq Client
      /\ pub \in [pid : BOOLEAN, body : Messages] /\ TypeOK
  BY DEF Typed, TypeOK
<1>3. CASE UNCHANGED vars
  BY <1>1, <1>2, <1>3, Types, TypesFrom DEF vars, serverVars, childVars, clientVars, fileVars,
     signalVars
<1>4. CASE ParentMoves
  BY <1>1, <1>2, <1>4, ParentEffects, Types, TypesFrom DEF childVars, clientVars
<1>5. CASE Accept
  <2>1. /\ cliCount' \in Child /\ cliCount' = cliCount + 1
        /\ child' = [child EXCEPT ![cliCount'] = "tell"]
        /\ peer' = [peer EXCEPT ![cliCount'] = pub.body.of]
        /\ parent' = "waitsync" /\ woken' = woken \ {Parent}
        /\ UNCHANGED <<sem, seen, clientVars, fileVars, unheard, mixed>>
    BY <1>2, <1>5, AcceptEffects
  <2>2. pub.body.of \in Pid BY <1>2, MessageFields
  <2>3. cliCount' \in 0..MaxChild /\ 1..cliCount \subseteq 1..cliCount'
    BY <1>2, <2>1, Distinct, FilesAssumption
  <2>4. child' \in [Child -> ChildLabels] /\ peer' \in [Child -> Pid]
    BY <1>2, <2>1, <2>2, Types DEF ChildLabels
  <2>5. QED BY <1>1, <1>2, <2>1, <2>3, <2>4, Types, TypesFrom DEF clientVars, fileVars
<1>6. ASSUME NEW k \in Child, ChildOf(k) PROVE Typed'
  <2>1. ChildLeaves(k) /\ child[k] # "none"
    BY <1>2, <1>6, TellEffects, SyncsEffects, ServesEffects, ChildQuitsEffects DEF ChildOf
  <2>2. there' \subseteq there \cup {k} /\ (pub' = pub \/ TellPath(k))
    BY <1>2, <1>6, TellEffects, SyncsEffects, ServesEffects, ChildQuitsEffects DEF ChildOf, fileVars
  <2>3. k \in 1..cliCount BY <1>2, <2>1, Distinct, FilesAssumption DEF Pids
  <2>4. pub' \in [pid : BOOLEAN, body : Messages]
    <3>. DEFINE m == Message("path", k, 0)
    <3>1. m \in Messages BY MessageFacts DEF Pid
    <3>2. TellPath(k) => pub' = [pid |-> FALSE, body |-> m] BY <1>2, TellEffects
    <3>. HIDE DEF m
    <3>3. [pid |-> FALSE, body |-> m] \in [pid : BOOLEAN, body : Messages] BY <3>1
    <3>4. QED BY <1>2, <2>2, <3>2, <3>3
  <2>5. peer[k] # Parent /\ peer[k] \in Pid BY <1>2, Types, Distinct DEF Pid
  <2>6. woken' \subseteq {Parent} \cup Child \cup Client
    <3>1. CASE woken' \subseteq woken BY <1>2, <3>1
    <3>2. CASE Signal(peer[k], peer[k])
      BY <1>2, <3>2, SignalEffects
    <3>3. QED BY <1>2, <1>6, <3>1, <3>2, TellEffects, SyncsEffects, ServesEffects, ChildQuitsEffects
             DEF ChildOf
  <2>7. QED BY <1>1, <1>2, <2>1, <2>2, <2>3, <2>4, <2>6, Types, TypesFrom DEF ChildLeaves
<1>7. ASSUME NEW c \in Client, ClientOf(c) PROVE Typed'
  <2>1. ClientLeaves(c) BY <1>7, ClientEffects
  <2>2. woken' \subseteq {Parent} \cup Child \cup Client
    <3>1. CASE woken' \subseteq woken BY <1>2, <3>1
    <3>2. CASE \E d : Signal(other[c], d)
      BY <1>2, <3>2, SignalEffects
    <3>3. QED BY <1>7, <3>1, <3>2, StartEffects, WritesEffects, KillsEffects, ReadsEffects,
             SendTooLongEffects, QuitsEffects DEF ClientOf
  <2>3. QED BY <1>1, <1>2, <2>1, <2>2, Types, TypesFrom DEF ClientLeaves, serverVars, childVars
<1>8. QED BY <1>3, <1>4, <1>5, <1>6, <1>7, NextCases

-----------------------------------------------------------------------------
(* Where the clients are.                                                  *)

\* Place, for a client whose own state does not change.
LEMMA PlaceKept ==
    ASSUME NEW c \in Client, Place(c),
           client'[c] = client[c], other'[c] = other[c], fd'[c] = fd[c],
           c \in mixed' => c \in mixed \/ client[c] \in Joining \cup Joined,
           c \in woken' => c \in woken \/ client[c] \in {"waitPath", "wait"}
    PROVE  Place(c)'
BY DEF Place

\* A child wakes a client only in sigsuspend.
LEMMA PlaceOfChildStep ==
    ASSUME Typed, Pids, NEW k \in Child, ChildOf(k), NEW c \in Client, Place(c)
    PROVE  Place(c)'
<1>1. ChildLeaves(k)
  BY TellEffects, SyncsEffects, ServesEffects, ChildQuitsEffects DEF ChildOf, Typed
<1>2. c \in woken' => c \in woken \/ client[c] \in {"waitPath", "wait"}
  <2>1. CASE woken' \subseteq woken BY <2>1
  <2>2. CASE Signal(peer[k], peer[k]) BY <2>2, SignalEffects
  <2>3. QED BY <2>1, <2>2, TellEffects, SyncsEffects, ServesEffects, ChildQuitsEffects
           DEF ChildOf, Typed
<1>3. QED BY <1>1, <1>2, PlaceKept DEF ChildLeaves

\* A client wakes another one only in sigsuspend, and mixes up only those
\* that connect.
LEMMA PlaceOfOthers ==
    ASSUME Typed, NEW d \in Client, Place(d), ClientOf(d), NEW c \in Client \ {d}, Place(c)
    PROVE  Place(c)'
<1>1. ClientLeaves(d) BY ClientEffects
<1>2. c \in woken' => c \in woken \/ client[c] \in {"waitPath", "wait"}
  <2>1. CASE woken' \subseteq woken BY <2>1
  <2>2. CASE \E e : Signal(other[d], e) BY <2>2, SignalEffects
  <2>3. QED BY <2>1, <2>2, StartEffects, WritesEffects, KillsEffects, ReadsEffects,
           SendTooLongEffects, QuitsEffects DEF ClientOf
<1>3. c \in mixed' => c \in mixed \/ client[c] \in Joining \cup Joined
  <2>1. CASE mixed' \subseteq mixed BY <2>1
  <2>2. CASE mixed' = mixed \cup {d} \cup {e \in Present : Connecting(e)}
    <3>1. client[c] \in Labels BY Types DEF Typed
    <3>2. QED BY <2>2, <3>1 DEF Present, Connecting, Labels, Joining, Joined
  <2>3. QED BY <2>1, <2>2, ClientEffects, StartEffects
<1>4. QED BY <1>1, <1>2, <1>3, PlaceKept DEF ClientLeaves

\* A client has the public file until it is told its own.
LEMMA PlaceOfSelf ==
    ASSUME Typed, Pids, NEW c \in Client, Place(c), ClientOf(c)
    PROVE  Place(c)'
<1>1. c \notin Child /\ c # Parent /\ c # Nobody BY Distinct
<1>2. ASSUME other'[c] = other[c], fd'[c] = fd[c], mixed' = mixed, woken' \subseteq woken,
             \/ client[c] \in Joining /\ client'[c] \in Joining
             \/ client[c] \in Joined /\ client'[c] \in Joined,
             client[c] \notin {"waitPath", "wait"} \/ client'[c] = client[c]
      PROVE  Place(c)'
  BY <1>2 DEF Place, Joining, Joined
<1>3. CASE Start(c)
  <2>1. client[c] = "start" /\ UNCHANGED <<woken, other>> BY <1>3, StartEffects
  <2>2. c \notin woken /\ other[c] = Nobody /\ c \notin mixed /\ fd[c] = Bad
    BY <2>1 DEF Place, Joining, Joined
  <2>3. CASE client'[c] = "gone" /\ UNCHANGED <<fd, mixed>>
    BY <2>1, <2>2, <2>3, Distinct DEF Place, Joining, Joined
  <2>4. CASE client'[c] = "read" /\ fd'[c] = Public
    BY <2>1, <2>2, <2>4, Distinct DEF Place, Joining, Joined
  <2>5. QED BY <1>3, <2>3, <2>4, StartEffects
<1>4. CASE Writes(c) \/ SendTooLong(c)
  BY <1>2, <1>4, WritesEffects, SendTooLongEffects DEF Joining, Joined
<1>5. CASE Kills(c)
  <2>1. /\ Signal(other[c], c) /\ UNCHANGED <<other, fd, mixed>>
        /\ \/ client[c] = "askKill" /\ client'[c] = "armPath"
           \/ client[c] = "ackKill" /\ client'[c] = "ready"
           \/ client[c] = "kill" /\ client'[c] = "arm"
    BY <1>5, KillsEffects
  <2>2. c \in woken' => c \in woken BY <2>1, SignalEffects
  <2>3. QED BY <2>1, <2>2 DEF Place, Joining, Joined
<1>6. CASE Reads(c)
  <2>1. CASE client[c] = "read" /\ client'[c] = "ask"
    <3>1. /\ mixed' = mixed /\ other'[c] \in {Parent, Nobody} /\ UNCHANGED <<fd, woken>>
      BY <1>6, <2>1, ReadsEffects
    <3>2. QED BY <2>1, <3>1, Distinct DEF Place, Joining, Joined
  <2>2. CASE \/ client[c] = "armPath" /\ client'[c] = "waitPath"
             \/ client[c] = "arm" /\ client'[c] = "wait"
    <3>1. UNCHANGED <<other, fd, woken, mixed>> BY <1>6, <2>2, ReadsEffects
    <3>2. QED BY <2>2, <3>1, <1>2 DEF Joining, Joined
  <2>3. CASE client[c] = "waitPath" /\ client'[c] = "ack"
    <3>1. /\ mixed' = mixed /\ c \notin woken' /\ other'[c] = pub.body.of
          /\ \/ fd'[c] = Bad
             \/ fd'[c] = pub.body.of /\ pub.body.kind = "path"
      BY <1>6, <2>3, ReadsEffects
    <3>2. fd'[c] # Bad => fd'[c] = other'[c] /\ fd'[c] \in Child BY <3>1 DEF Pids
    <3>3. other'[c] # Parent
      <4>1. pub.body.of \in Pid BY MessageFields DEF Typed
      <4>2. QED BY <3>1, <4>1, Distinct DEF Pid
    <3>4. QED BY <2>3, <3>1, <3>2, <3>3, Distinct DEF Place, Joining, Joined
  <2>4. CASE client[c] = "wait" /\ client'[c] = "ready"
    <3>1. UNCHANGED <<other, fd, mixed>> /\ c \notin woken' BY <1>6, <2>4, ReadsEffects
    <3>2. QED BY <2>4, <3>1 DEF Place, Joining, Joined
  <2>5. QED BY <1>6, <2>1, <2>2, <2>3, <2>4, ReadsEffects
<1>7. CASE Quits(c)
  <2>1. /\ client[c] # "gone" /\ c \notin mixed' /\ c \notin woken'
        /\ \/ client[c] \notin {"start", "exitKill"} /\ client'[c] = "exitKill"
              /\ UNCHANGED <<other, fd>>
           \/ client'[c] = "gone" /\ other'[c] = Nobody /\ fd'[c] = Bad
    BY <1>7, QuitsEffects
  <2>2. QED BY <2>1, Distinct DEF Place, Joining, Joined
<1>8. QED BY <1>3, <1>4, <1>5, <1>6, <1>7 DEF ClientOf

\* Place is kept by every step.
LEMMA PlaceStep ==
    ASSUME Typed, Pids, \A c \in Client : Place(c), [Next]_vars
    PROVE  \A c \in Client : Place(c)'
<1>1. ASSUME UNCHANGED <<clientVars, mixed>>, woken' \subseteq woken, NEW c \in Client
      PROVE  Place(c)'
  BY <1>1, PlaceKept DEF clientVars
<1>2. CASE UNCHANGED vars \/ ParentMoves \/ Accept
  BY <1>1, <1>2, ParentEffects, AcceptEffects DEF Typed, vars, signalVars
<1>3. ASSUME NEW k \in Child, ChildOf(k), NEW c \in Client PROVE Place(c)'
  BY <1>3, PlaceOfChildStep
<1>4. ASSUME NEW d \in Client, ClientOf(d), NEW c \in Client PROVE Place(c)'
  BY <1>4, PlaceOfSelf, PlaceOfOthers
<1>5. QED BY <1>2, <1>3, <1>4, NextCases

-----------------------------------------------------------------------------
(* Who knows whose pid.                                                    *)

\* Nobody moves back to where nobody knows it.
LEMMA KnownKept ==
    ASSUME NEW p, Known(p),
           p \in Child => (Told(p) => Told(p)'),
           p \in Client => (client[p] \notin Late => client'[p] \notin Late)
    PROVE  Known(p)'
BY DEF Known

\* Without a new client nobody learns a pid.
LEMMA PidsOfParent ==
    ASSUME Typed, Pids, ParentMoves
    PROVE  Pids'
<1>1. /\ UNCHANGED <<cliCount, childVars, clientVars>> /\ pub'.body = pub.body /\ woken' \subseteq woken
  BY ParentEffects DEF Typed
<1>2. \A p : Known(p)' <=> Known(p) BY <1>1 DEF Known, Told, childVars, clientVars
<1>3. QED BY <1>1, <1>2 DEF Pids, childVars, clientVars

\* A new child has the pid that is in the file; nobody has its own.
LEMMA PidsOfAccept ==
    ASSUME Typed, Pids, Accept
    PROVE  Pids'
<1>. DEFINE n == cliCount'
<1>1. /\ n \in Child /\ n = cliCount + 1 /\ cliCount \in Nat
      /\ UNCHANGED <<clientVars, pub>> /\ woken' = woken \ {Parent}
      /\ child' = [child EXCEPT ![n] = "tell"] /\ peer' = [peer EXCEPT ![n] = pub.body.of]
  BY AcceptEffects, FilesAssumption DEF Typed, TypeOK, fileVars
<1>2. child[n] = "none" BY <1>1 DEF Pids
<1>. HIDE DEF n
<1>3. /\ \A j \in Child : j # n => child'[j] = child[j] /\ peer'[j] = peer[j]
      /\ child'[n] = "tell" /\ peer'[n] = pub.body.of
  BY <1>1, Types DEF Typed
<1>4. \A p : Known(p) => Known(p)'
  BY <1>1, <1>2, <1>3 DEF Known, Told, clientVars
<1>5. \A c \in Client : Known(other[c])' BY <1>1, <1>4 DEF Pids, clientVars
<1>6. Known(pub.body.of)' /\ (pub'.body.kind = "path" <=> pub'.body.of \in Child)
  BY <1>1, <1>4 DEF Pids
<1>7. \A k \in Child : Known(peer[k])' BY <1>1, <1>3, <1>4 DEF Pids
<1>8. /\ \A k \in Child : k > cliCount' => child'[k] = "none"
      /\ \A k \in Child : k \in woken' => child'[k] \in {"ack", "serve"}
      /\ \A k \in Child : child'[k] \in {"none", "gone"} => peer'[k] = Nobody
  <2>1. \A k \in Child : k > n => k # n /\ k > cliCount BY <1>1, Distinct
  <2>2. QED BY <1>1, <1>2, <1>3, <2>1 DEF Pids, n
<1>9. QED BY <1>5, <1>6, <1>7, <1>8 DEF Pids

\* A child makes itself known in the public file, and forgets its peer at
\* its end.
LEMMA PidsOfChild ==
    ASSUME Typed, Pids, NEW k \in Child, ChildOf(k)
    PROVE  Pids'
<1>1. /\ ChildLeaves(k) /\ child[k] \notin {"none", "gone"} /\ child'[k] \notin {"none", "tell"}
      /\ \/ peer'[k] = peer[k] /\ child'[k] # "gone"
         \/ peer'[k] = Nobody
  BY TellEffects, SyncsEffects, ServesEffects, ChildQuitsEffects DEF ChildOf, Typed
<1>2. \/ pub'.body = pub.body
      \/ pub'.body = Message("path", k, 0) /\ child'[k] = "told"
  <2>1. CASE TellPath(k)
    <3>. DEFINE m == Message("path", k, 0)
    <3>1. pub' = [pid |-> FALSE, body |-> m] /\ child'[k] = "told" BY <2>1, TellEffects DEF Typed
    <3>. HIDE DEF m
    <3>2. pub'.body = m /\ child'[k] = "told" BY <3>1
    <3>3. QED BY <3>2 DEF m
  <2>2. CASE ChildSyncs(k) \/ ChildServes(k) \/ ChildQuits(k)
    BY <2>2, SyncsEffects, ServesEffects, ChildQuitsEffects DEF Typed, fileVars
  <2>3. QED BY <2>1, <2>2 DEF ChildOf
<1>3. \A p : Known(p) => Known(p)' BY <1>1 DEF Known, Told, ChildLeaves
<1>4. Known(Nobody)' /\ (child'[k] = "told" => Known(k)') BY Distinct DEF Known, Told
<1>5. \A c \in Client : Known(other[c])' BY <1>1, <1>3 DEF Pids, ChildLeaves
<1>6. \A j \in Child : Known(peer[j])' BY <1>1, <1>3, <1>4 DEF Pids, ChildLeaves
<1>7. Known(pub.body.of)' /\ (pub'.body.kind = "path" <=> pub'.body.of \in Child)
  BY <1>2, <1>3, <1>4, MessageFacts DEF Pids
<1>8. \A j \in Child : j > cliCount' => child'[j] = "none" BY <1>1 DEF Pids, ChildLeaves
<1>9. \A j \in Child : child'[j] \in {"none", "gone"} => peer'[j] = Nobody
  BY <1>1 DEF Pids, ChildLeaves
<1>10. \A j \in Child : j \in woken' => child'[j] \in {"ack", "serve"}
  <2>1. ASSUME woken' \subseteq woken, k \notin woken' \/ child'[k] \in {"ack", "serve"}
        PROVE  \A j \in Child : j \in woken' => child'[j] \in {"ack", "serve"}
    BY <1>1, <2>1 DEF Pids, ChildLeaves
  <2>2. CASE TellPath(k) \/ ChildQuits(k)
    BY <2>1, <2>2, TellEffects, ChildQuitsEffects DEF Typed, Pids
  <2>3. CASE Signal(peer[k], peer[k]) /\ child[k] \in {"told", "execute"}
    <3>1. k \notin woken BY <2>3 DEF Pids
    <3>2. /\ woken' \subseteq woken \cup {peer[k]}
          /\ peer[k] \in Child => woken' = woken \/ child[peer[k]] \in {"ack", "serve"}
      BY <2>3, SignalEffects
    <3>3. QED BY <1>1, <2>3, <3>1, <3>2 DEF Pids, ChildLeaves
  <2>4. CASE ChildSyncs(k) \/ ChildServes(k)
    BY <2>1, <2>3, <2>4, SyncsEffects, ServesEffects DEF Typed, Pids
  <2>5. QED BY <2>2, <2>4 DEF ChildOf
<1>11. QED BY <1>5, <1>6, <1>7, <1>8, <1>9, <1>10 DEF Pids

\* A client learns the pid that is in the file, and makes itself known
\* there.
LEMMA PidsOfClient ==
    ASSUME Typed, Pids, NEW c \in Client, Place(c), ClientOf(c)
    PROVE  Pids'
<1>1. ClientLeaves(c) /\ (client[c] \notin Late => client'[c] \notin Late)
  BY ClientEffects
<1>2. \A p : Known(p) => Known(p)' BY <1>1 DEF Known, Told, ClientLeaves, childVars
<1>3. Known(Parent)' /\ Known(Nobody)' BY Distinct DEF Known
<1>4. \A d \in Client : Known(other[d])'
  <2>1. other'[c] \in {other[c], Parent, Nobody, pub.body.of}
    BY StartEffects, WritesEffects, KillsEffects, ReadsEffects, SendTooLongEffects, QuitsEffects
       DEF ClientOf
  <2>2. QED BY <1>1, <1>2, <1>3, <2>1 DEF Pids, ClientLeaves
<1>5. \A k \in Child : Known(peer[k])' BY <1>1, <1>2 DEF Pids, ClientLeaves, childVars
<1>6. Known(pub.body.of)' /\ (pub'.body.kind = "path" <=> pub'.body.of \in Child)
  <2>1. ASSUME pub' = pub
        PROVE  Known(pub.body.of)' /\ (pub'.body.kind = "path" <=> pub'.body.of \in Child)
    BY <1>2, <2>1 DEF Pids
  <2>2. CASE Start(c) \/ Kills(c) \/ Reads(c) \/ SendTooLong(c) \/ fd[c] # Public
    <3>1. pub' = pub
      BY <1>1, <2>2, StartEffects, KillsEffects, ReadsEffects, SendTooLongEffects
         DEF ClientLeaves, fileVars
    <3>2. QED BY <2>1, <3>1
  <2>3. CASE Writes(c) /\ fd[c] = Public
    <3>1. client[c] \in Joining \cup {"exitKill"} BY <2>3 DEF Place
    <3>2. pub'.body = Message("connect", c, 0) /\ client'[c] = "askKill"
      BY <2>3, <3>1, WritesEffects DEF Joining
    <3>3. pub'.body.of = c /\ pub'.body.kind = "connect" BY <3>2, MessageFacts
    <3>4. Known(c)' BY <3>2, Distinct DEF Known, Late
    <3>5. QED BY <3>3, <3>4, Distinct
  <2>4. CASE Quits(c) /\ fd[c] = Public
    <3>1. CASE pub'.body = Message("exit", Nobody, 0)
      <4>1. pub'.body.of = Nobody /\ pub'.body.kind = "exit" BY <3>1, MessageFacts
      <4>2. QED BY <1>3, <4>1, Distinct
    <3>2. CASE pub' = pub BY <2>1, <3>2
    <3>3. QED BY <2>4, <3>1, <3>2, QuitsEffects DEF fileVars
  <2>5. QED BY <2>2, <2>3, <2>4 DEF ClientOf
<1>7. /\ \A k \in Child : k > cliCount' => child'[k] = "none"
      /\ \A k \in Child : child'[k] \in {"none", "gone"} => peer'[k] = Nobody
  BY <1>1 DEF Pids, ClientLeaves, serverVars, childVars
<1>8. \A k \in Child : k \in woken' => child'[k] \in {"ack", "serve"}
  <2>1. child' = child BY <1>1 DEF ClientLeaves, childVars
  <2>2. CASE woken' \subseteq woken BY <2>1, <2>2 DEF Pids
  <2>3. CASE \E d : Signal(other[c], d) BY <2>1, <2>3, SignalEffects DEF Pids
  <2>4. QED BY <2>2, <2>3, StartEffects, WritesEffects, KillsEffects, ReadsEffects,
           SendTooLongEffects, QuitsEffects DEF ClientOf
<1>9. QED BY <1>4, <1>5, <1>6, <1>7, <1>8 DEF Pids

\* Pids is kept by every step.
LEMMA PidsStep ==
    ASSUME Typed, Pids, \A c \in Client : Place(c), [Next]_vars
    PROVE  Pids'
<1>1. CASE UNCHANGED vars
  <2>1. UNCHANGED <<cliCount, child, peer, client, other, pub, woken>>
    BY <1>1 DEF vars, serverVars, childVars, clientVars, fileVars, signalVars
  <2>2. QED BY <2>1 DEF Pids, Known, Told
<1>2. QED BY <1>1, PidsOfParent, PidsOfAccept, PidsOfChild, PidsOfClient, NextCases

-----------------------------------------------------------------------------
(* Order, in the steps of the accepting process.                           *)

\* The first part of the invariant.
Base == Typed /\ Pids /\ Semaphore /\ \A c \in Client : Place(c)

\* Without a new client the server changes nothing for those that are
\* there.
LEMMA OrderOfParent ==
    ASSUME Base, ParentMoves, NEW c \in Client, Order(c)
    PROVE  Order(c)'
<1>. SUFFICES ASSUME Orderly(c)'
              PROVE  /\ Unknown(c)'
                     /\ client'[c] \in Joining => Connects(c)'
                     /\ client'[c] \in Joined => Session(c)'
  BY DEF Order
<1>1. /\ UNCHANGED <<childVars, clientVars, priv, mixed>> /\ pub'.body = pub.body
      /\ woken' \subseteq woken /\ woken \ {Parent} \subseteq woken'
      /\ parent # "gone" /\ (parent = "accept" => parent' = "gone" /\ Parent \notin woken')
  BY ParentEffects DEF Base, Typed
<1>2. UNCHANGED <<child, peer, seen, client, other, fd, asked>>
  BY <1>1 DEF childVars, clientVars
<1>3. \A p \in Child \cup Client : p \in woken' <=> p \in woken BY <1>1, Distinct
<1>4. Orderly(c) BY <1>1, <1>2 DEF Orderly
<1>5. Unknown(c)' BY <1>2, <1>4 DEF Order, Unknown
<1>6. CASE client[c] \in Joining
  <2>1. Connects(c) BY <1>4, <1>6 DEF Order
  <2>2. Parent \notin woken' BY <1>1, <2>1 DEF Connects
  <2>3. client[c] \in {"read", "ask", "askKill"} => parent' \in {"accept", "gone"}
    BY <1>1, <2>1 DEF Connects
  <2>4. Private(pub.body.of, c) <=> Private(pub.body.of, c)' BY <1>1, <1>2 DEF Private
  <2>5. Connects(c)'
    BY <1>1, <1>2, <1>3, <2>1, <2>2, <2>3, <2>4 DEF Connects
  <2>6. QED BY <1>2, <1>5, <1>6, <2>5 DEF Joining, Joined
<1>7. CASE client[c] \in Joined
  <2>1. Session(c) BY <1>4, <1>7 DEF Order
  <2>2. other[c] \in Child BY <2>1 DEF Session, Private
  <2>3. Stale(other[c]) => Stale(other[c])' BY <1>1, <1>2 DEF Stale
  <2>4. Line(c, other[c]) => Line(c, other[c])'
    BY <1>1, <1>2, <1>3, <2>2 DEF Line, LastCommand, LastAnswer
  <2>5. Private(other[c], c)' BY <1>2, <2>1 DEF Session, Private
  <2>6. Session(c)' BY <1>1, <1>2, <2>1, <2>3, <2>4, <2>5 DEF Session
  <2>7. QED BY <1>2, <1>5, <1>7, <2>6 DEF Joining, Joined
<1>8. QED BY <1>4, <1>6, <1>7 DEF Orderly

\* The pid the server finds in the file is that of an orderly client only if
\* this one asks, and that of a child in use never.
LEMMA OrderOfAccept ==
    ASSUME Base, Accept, NEW c \in Client, Order(c)
    PROVE  Order(c)'
<1>. SUFFICES ASSUME Orderly(c)'
              PROVE  /\ Unknown(c)'
                     /\ client'[c] \in Joining => Connects(c)'
                     /\ client'[c] \in Joined => Session(c)'
  BY DEF Order
<1>. DEFINE n == cliCount'
            of == pub.body.of
<1>1. /\ n \in Child /\ n = cliCount + 1 /\ cliCount \in Nat
      /\ UNCHANGED <<seen, clientVars, pub, priv, mixed>>
      /\ Parent \in woken /\ woken' = woken \ {Parent}
      /\ parent = "accept" /\ parent' = "waitsync"
      /\ child' = [child EXCEPT ![n] = "tell"] /\ peer' = [peer EXCEPT ![n] = of]
  BY AcceptEffects, FilesAssumption DEF Base, Typed, TypeOK, fileVars
<1>2. child[n] = "none" /\ peer[n] = Nobody BY <1>1 DEF Base, Pids
<1>3. \A p \in Client \cup Child \cup {Nobody} : p \in woken' <=> p \in woken
  BY <1>1, Distinct
<1>4. UNCHANGED <<client, other, fd, asked>> BY <1>1 DEF clientVars
<1>. HIDE DEF n, of
<1>5. /\ \A j \in Child : j # n => child'[j] = child[j] /\ peer'[j] = peer[j]
      /\ child'[n] = "tell" /\ peer'[n] = of
  BY <1>1, Types DEF Base, Typed
<1>6. Orderly(c) BY <1>1, <1>4 DEF Orderly
<1>7. CASE client[c] \in Joining
  <2>1. Connects(c) /\ Unknown(c) BY <1>6, <1>7 DEF Order
  <2>2. pub.body = Message("connect", c, 0) /\ \A j \in Child : peer[j] # c
    BY <1>1, <2>1 DEF Connects
  <2>3. of = c /\ of \notin Child BY <2>2, MessageFacts, Distinct DEF of
  <2>4. Unknown(c)' BY <1>1, <1>4, <1>5, <2>1, <2>2 DEF Unknown
  <2>5. client[c] \in {"armPath", "waitPath"} /\ c \notin woken
    <3>1. client[c] \notin {"read", "ask", "askKill"} BY <1>1, <2>1 DEF Connects
    <3>2. client[c] \in {"armPath", "waitPath"} BY <1>7, <3>1 DEF Joining
    <3>3. ~Private(pub.body.of, c) BY <2>3 DEF Private, of
    <3>4. QED BY <2>1, <3>2, <3>3 DEF Connects
  <2>6. \A j \in Child : peer'[j] = c => child'[j] = "tell" BY <1>5, <2>2
  <2>7. \A j \in Child : child'[j] \in Handshaking => peer'[j] = c
    BY <1>5, <2>1, <2>3 DEF Connects
  <2>8. Parent \notin woken' /\ c \notin woken' BY <1>1, <2>5
  <2>9. \A d \in Client \ {c} : fd'[d] # Public BY <1>4, <2>1 DEF Connects
  <2>10. Connects(c)' BY <1>1, <1>4, <2>2, <2>5, <2>6, <2>7, <2>8, <2>9 DEF Connects
  <2>11. QED BY <1>4, <1>7, <2>4, <2>10 DEF Joining, Joined
<1>8. CASE client[c] \in Joined
  <2>1. Session(c) /\ Unknown(c) BY <1>6, <1>8 DEF Order
  <2>2. other[c] \in Child /\ Told(other[c]) BY <2>1 DEF Session, Private, Base, Pids, Known
  <2>3. other[c] # n BY <1>2, <2>2 DEF Told
  <2>4. of # c /\ of # other[c] BY <1>1, <2>1 DEF Session, Stale, of
  <2>5. Unknown(c)' BY <1>4, <1>5, <2>1, <2>4 DEF Unknown
  <2>6. Private(other[c], c)' BY <1>4, <1>5, <2>1, <2>3, <2>4 DEF Session, Private
  <2>7. fd[c] = other[c] => Line(c, other[c])'
    BY <1>1, <1>3, <1>4, <1>5, <2>1, <2>2, <2>3 DEF Session, Line, LastCommand, LastAnswer
  <2>8. Session(c)' BY <1>1, <1>4, <1>5, <2>1, <2>2, <2>3, <2>4, <2>6, <2>7 DEF Session, of
  <2>9. QED BY <1>4, <1>8, <2>5, <2>8 DEF Joining, Joined
<1>9. QED BY <1>6, <1>7, <1>8 DEF Orderly

-----------------------------------------------------------------------------
(* Order, in the steps of a child.                                         *)

\* What the steps of a child have in common.
LEMMA ChildFacts ==
    ASSUME Base, NEW k \in Child, ChildOf(k)
    PROVE  /\ ChildLeaves(k)
           /\ child[k] \notin {"none", "gone"} /\ child'[k] \notin {"none", "tell"}
           /\ \/ peer'[k] = peer[k] /\ child'[k] # "gone"
              \/ peer'[k] = Nobody /\ child'[k] = "gone"
           /\ child'[k] \in Handshaking => child[k] \in Handshaking
           /\ woken' \subseteq woken \/ child[k] \in {"told", "execute"}
           /\ Parent \in woken' <=> Parent \in woken
<1>1. Typed /\ TypeOK /\ Pids BY DEF Base, Typed
<1>2. peer[k] \in Pid BY <1>1, Types
<1>3. /\ ChildLeaves(k)
      /\ child[k] \notin {"none", "gone"} /\ child'[k] \notin {"none", "tell"}
      /\ \/ peer'[k] = peer[k] /\ child'[k] # "gone"
         \/ peer'[k] = Nobody /\ child'[k] = "gone"
      /\ child'[k] \in Handshaking => child[k] \in Handshaking
      /\ woken' \subseteq woken \/ child[k] \in {"told", "execute"}
  BY <1>1, TellEffects, SyncsEffects, ServesEffects, ChildQuitsEffects DEF ChildOf, Handshaking
<1>4. Parent \in woken' <=> Parent \in woken
  BY <1>2, <1>3, Distinct DEF ChildLeaves, Pid
<1>5. QED BY <1>3, <1>4

\* No child learns a pid after the fork.
LEMMA UnknownOfChild ==
    ASSUME Base, NEW k \in Child, ChildOf(k), NEW c \in Client, Unknown(c)
    PROVE  Unknown(c)'
<1>1. /\ other' = other /\ \A j \in Child : peer'[j] = peer[j] \/ peer'[j] = Nobody
  BY ChildFacts DEF ChildLeaves
<1>2. c # Nobody BY Distinct
<1>3. QED BY <1>1, <1>2 DEF Unknown

\* The path of a new child: nobody else knows it.
LEMMA ConnectsOfTell ==
    ASSUME Base, NEW k \in Child, TellPath(k), NEW c \in Client, Unknown(c), Connects(c),
           client[c] \in Joining
    PROVE  Connects(c)'
<1>. DEFINE m == Message("path", k, 0)
<1>1. /\ ChildLeaves(k) /\ UNCHANGED <<peer, woken>>
      /\ child[k] = "tell" /\ child'[k] = "told"
      /\ pub' = [pid |-> FALSE, body |-> m]
  BY TellEffects DEF Base, Typed
<1>. HIDE DEF m
<1>2. pub'.body = m /\ m.of = k BY <1>1, MessageFacts DEF m
<1>3. /\ UNCHANGED <<parent, client, other, fd>>
      /\ \A j \in Child : j # k => child'[j] = child[j]
  BY <1>1 DEF ChildLeaves
<1>4. peer[k] = c BY <1>1 DEF Connects, Handshaking
<1>5. client[c] \in {"armPath", "waitPath"} /\ Parent \notin woken
  BY <1>4 DEF Connects, Joining
<1>6. c \notin woken BY <1>1, <1>5 DEF Connects
<1>7. ~Told(k) /\ k \notin woken BY <1>1 DEF Told, Base, Pids
<1>8. Private(k, c)'
  <2>1. \A d \in Client : other[d] # k BY <1>7 DEF Base, Pids, Known
  <2>2. \A j \in Child : peer[j] # k BY <1>7 DEF Base, Pids, Known
  <2>3. \A j \in Child : peer[j] = c => j = k BY <1>4 DEF Unknown
  <2>4. QED BY <1>1, <1>3, <1>4, <2>1, <2>2, <2>3 DEF Private
<1>9. \A j \in Child : child'[j] # "tell"
  BY <1>1, <1>3, <1>4 DEF Connects, Handshaking, Unknown
<1>10. \A j \in Child : child'[j] \in Handshaking => peer'[j] = c
  BY <1>1, <1>3, <1>4 DEF Connects, Handshaking
<1>11. Private(pub.body.of, c)' BY <1>2, <1>8 DEF Private
<1>12. pub'.body.of = k BY <1>2
<1>13. QED BY <1>1, <1>3, <1>5, <1>6, <1>7, <1>9, <1>10, <1>11, <1>12 DEF Connects

\* The rest of the handshake.
LEMMA ConnectsOfChild ==
    ASSUME Base, NEW k \in Child, ChildSyncs(k) \/ ChildServes(k) \/ ChildQuits(k),
           NEW c \in Client, Unknown(c), Connects(c), client[c] \in Joining
    PROVE  Connects(c)'
<1>1. ChildOf(k) /\ pub' = pub
  BY SyncsEffects, ServesEffects, ChildQuitsEffects DEF ChildOf, Base, Typed, fileVars
<1>2. /\ UNCHANGED <<parent, client, other, fd>>
      /\ \A j \in Child : j # k => child'[j] = child[j] /\ peer'[j] = peer[j]
      /\ woken \ {k} \subseteq woken' /\ woken' \subseteq woken \cup {peer[k]}
      /\ child[k] \notin {"none", "gone"} /\ child'[k] \notin {"none", "tell"}
      /\ \/ peer'[k] = peer[k] /\ child'[k] # "gone"
         \/ peer'[k] = Nobody /\ child'[k] = "gone"
      /\ child'[k] \in Handshaking => child[k] \in Handshaking
      /\ woken' \subseteq woken \/ child[k] \in {"told", "execute"}
      /\ Parent \in woken' <=> Parent \in woken
  BY <1>1, ChildFacts DEF ChildLeaves
<1>3. c # Nobody /\ c \notin Child BY Distinct
<1>4. \A j \in Child : peer'[j] = c => peer[j] = c BY <1>2, <1>3
<1>5. \A j \in Child : child'[j] \in Handshaking => peer'[j] = c
  <2>1. child'[k] \in Handshaking => child'[k] # "gone" BY DEF Handshaking
  <2>2. QED BY <1>2, <2>1 DEF Connects
<1>6. /\ \A d \in Client \ {c} : fd'[d] # Public
      /\ Parent \in woken' => /\ parent' = "accept" /\ pub'.body = Message("connect", c, 0)
                              /\ \A j \in Child : peer'[j] # c
      /\ client'[c] \in {"read", "ask", "askKill"} =>
            /\ Parent \notin woken' /\ parent' \in {"accept", "gone"}
            /\ \A j \in Child : peer'[j] # c
      /\ client'[c] = "askKill" => pub'.body = Message("connect", c, 0)
  BY <1>1, <1>2, <1>4 DEF Connects
<1>7. CASE client[c] \notin {"armPath", "waitPath"}
  BY <1>2, <1>5, <1>6, <1>7 DEF Connects
<1>8. CASE /\ client[c] \in {"armPath", "waitPath"}
           /\ pub.body = Message("connect", c, 0) /\ c \notin woken
           /\ \A j \in Child : peer[j] = c => child[j] = "tell"
  <2>1. c \notin woken' BY <1>2, <1>8
  <2>2. \A j \in Child : peer'[j] = c => child'[j] = "tell"
    <3>1. ASSUME child[k] = "tell" PROVE peer'[k] = Nobody
      BY <3>1, SyncsEffects, ServesEffects, ChildQuitsEffects DEF Base, Typed
    <3>2. QED BY <1>2, <1>3, <1>4, <1>8, <3>1
  <2>3. QED BY <1>1, <1>2, <1>5, <1>6, <1>8, <2>1, <2>2 DEF Connects
<1>9. ASSUME client[c] \in {"armPath", "waitPath"},
             Private(pub.body.of, c), pub.body.of \notin woken,
             child[pub.body.of] \in {"told", "up", "armAck", "ack", "gone"},
             child[pub.body.of] = "told" => c \notin woken,
             \A j \in Child : child[j] # "tell"
      PROVE  Connects(c)'
  <2>0. PICK n \in Child : n = pub.body.of BY <1>9 DEF Private
  <2>1. n \notin woken /\ child[n] \in {"told", "up", "armAck", "ack", "gone"}
        /\ (child[n] = "told" => c \notin woken) /\ Private(n, c)
    BY <1>9, <2>0
  <2>2. pub'.body.of = n BY <1>1, <2>0
  <2>3. Private(n, c)' BY <1>2, <1>3, <2>1, Distinct DEF Private
  <2>4. n \notin woken' BY <1>2, <2>1 DEF Private
  <2>5. child'[n] \in {"told", "up", "armAck", "ack", "gone"}
        /\ (child'[n] = "told" => child[n] = "told" /\ n # k)
    <3>1. CASE n # k BY <1>2, <2>1, <3>1
    <3>2. CASE n = k
      BY <2>1, <3>2, SyncsEffects, ServesEffects, ChildQuitsEffects DEF Base, Typed
    <3>3. QED BY <3>1, <3>2
  <2>6. child'[n] = "told" => c \notin woken'
    <3>1. ASSUME child'[n] = "told" PROVE c \notin woken'
      <4>1. c \notin woken /\ n # k BY <2>1, <2>5, <3>1
      <4>2. peer[k] # c BY <2>1, <4>1 DEF Private
      <4>3. QED BY <1>2, <4>1, <4>2
    <3>2. QED BY <3>1
  <2>7. \A j \in Child : child'[j] # "tell" BY <1>2, <1>9
  <2>8. Private(pub.body.of, c)' BY <2>2, <2>3 DEF Private
  <2>9. QED BY <1>1, <1>2, <1>5, <1>6, <1>9, <2>2, <2>4, <2>5, <2>6, <2>7, <2>8 DEF Connects
<1>10. QED BY <1>7, <1>8, <1>9 DEF Connects

\* A child that does not serve c.
LEMMA SessionOfOtherChild ==
    ASSUME Base, NEW k \in Child, ChildOf(k), NEW c \in Client, Unknown(c), Session(c),
           other[c] # k
    PROVE  Session(c)'
<1>1. /\ UNCHANGED <<client, other, fd, asked>>
      /\ \A j \in Child : j # k => /\ child'[j] = child[j] /\ peer'[j] = peer[j]
                                   /\ seen'[j] = seen[j] /\ priv'[j] = priv[j]
      /\ woken \ {k} \subseteq woken' /\ woken' \subseteq woken \cup {peer[k]}
      /\ \/ peer'[k] = peer[k] /\ child'[k] # "gone"
         \/ peer'[k] = Nobody /\ child'[k] = "gone"
      /\ Parent \in woken' <=> Parent \in woken
  BY ChildFacts DEF ChildLeaves
<1>2. PICK n \in Child : n = other[c] BY DEF Session, Private
<1>3. n # k /\ Private(n, c) /\ c \notin Child /\ c # Nobody BY <1>2, Distinct DEF Session
<1>4. peer[k] # n /\ peer[k] # c BY <1>3 DEF Private
<1>5. Private(n, c)' BY <1>1, <1>3, <1>4, Distinct DEF Private
<1>6. \/ pub'.body.of = pub.body.of
      \/ pub'.body.of = k
  <2>1. CASE TellPath(k)
    <3>. DEFINE m == Message("path", k, 0)
    <3>1. pub' = [pid |-> FALSE, body |-> m] BY <2>1, TellEffects DEF Base, Typed
    <3>2. m.of = k BY MessageFacts
    <3>. HIDE DEF m
    <3>3. QED BY <3>1, <3>2
  <2>2. CASE ChildSyncs(k) \/ ChildServes(k) \/ ChildQuits(k)
    BY <2>2, SyncsEffects, ServesEffects, ChildQuitsEffects DEF Base, Typed, fileVars
  <2>3. QED BY <2>1, <2>2 DEF ChildOf
<1>7. pub'.body.of # c /\ (pub'.body.of = n => Stale(n)')
  BY <1>1, <1>2, <1>3, <1>6, Distinct DEF Session, Stale
<1>8. /\ n \in woken' <=> n \in woken
      /\ c \in woken' <=> c \in woken
  BY <1>1, <1>3, <1>4
<1>9. fd[c] = n => Line(c, n)'
  BY <1>1, <1>2, <1>3, <1>8 DEF Session, Line, LastCommand, LastAnswer
<1>10. /\ fd'[c] \in {n, Bad} /\ child'[n] # "told" /\ other'[c] = n /\ fd'[c] = fd[c]
  BY <1>1, <1>2, <1>3 DEF Session
<1>11. Private(other[c], c)' BY <1>5, <1>10 DEF Private
<1>12. (pub'.body.of = n => Stale(other[c])') /\ (fd'[c] = n => Line(c, other[c])')
  BY <1>7, <1>9, <1>10 DEF Stale, Line, LastCommand, LastAnswer
<1>13. QED BY <1>7, <1>10, <1>11, <1>12 DEF Session

\* The child that serves c: it is woken once for each command, and wakes c
\* when the answer is in the file.
LEMMA LineOfChild ==
    ASSUME Base, NEW c \in Client, NEW k \in Child, ChildOf(k), Private(k, c), Line(c, k),
           child[k] \notin {"tell", "told"}, Place(c), client[c] \in Joined
    PROVE  Line(c, k)'
<1>1. UNCHANGED <<client, asked>> BY ChildFacts DEF ChildLeaves
<1>2. peer[k] \in {c, Nobody} /\ peer[k] # k /\ c \notin Child
  BY Distinct DEF Private, Base, Pids
<1>3. Typed /\ TypeOK /\ Pids BY DEF Base, Typed
<1>4. CASE ChildSyncs(k)
  <2>1. /\ UNCHANGED <<seen, priv>>
        /\ \/ child[k] = "up" /\ child'[k] = "armAck" /\ woken' = woken
           \/ child[k] = "armAck" /\ child'[k] = "ack" /\ woken' = woken
           \/ child[k] = "arm" /\ child'[k] = "serve" /\ woken' = woken
           \/ child[k] = "ack" /\ child'[k] = "arm" /\ k \in woken /\ woken' = woken \ {k}
    BY <1>3, <1>4, SyncsEffects DEF fileVars
  <2>2. k \in woken => child[k] \in {"ack", "serve"} BY <1>3 DEF Pids
  <2>3. c # k BY <1>2
  <2>4. QED BY <1>1, <2>1, <2>2, <2>3 DEF Line, LastCommand, LastAnswer
<1>5. CASE ChildQuits(k)
  <2>1. /\ priv' = priv /\ child'[k] = "gone" /\ k \notin woken' /\ woken' \subseteq woken
    BY <1>3, <1>5, ChildQuitsEffects
  <2>2. QED BY <1>1, <2>1 DEF Line, LastCommand, LastAnswer
<1>6. CASE ChildServes(k)
  <2>1. CASE /\ child[k] = "serve" /\ child'[k] = "execute" /\ priv' = priv
             /\ seen'[k] = priv[k] /\ k \in woken /\ woken' = woken \ {k}
    BY <1>1, <2>1 DEF Line, LastCommand, LastAnswer
  <2>2. CASE /\ child[k] = "execute" /\ child'[k] = "arm"
             /\ priv'[k] = Message("answer", seen[k].of, seen[k].bit)
             /\ Signal(peer[k], peer[k])
    <3>1. k \notin woken BY <1>3, <2>2 DEF Pids
    <3>2. k \notin woken' BY <1>2, <2>2, <3>1, SignalEffects
    <3>3. client[c] \in {"arm", "wait"} BY <2>2 DEF Line, Joined
    <3>4. LastCommand(c, seen[k]) BY <2>2, <3>3 DEF Line
    <3>5. /\ priv'[k].kind = "answer" /\ priv'[k].of = c /\ priv'[k].bit = asked[c]
      BY <2>2, <3>4, MessageFacts DEF LastCommand
    <3>6. LastAnswer(c, priv[k])' BY <1>1, <3>5 DEF LastAnswer
    <3>7. QED BY <1>1, <2>2, <3>2, <3>3, <3>6 DEF Line
  <2>3. CASE child[k] = "execute" /\ child'[k] = "arm" /\ UNCHANGED <<priv, woken>>
    <3>1. k \notin woken BY <1>3, <2>3 DEF Pids
    <3>2. QED BY <1>1, <2>3, <3>1 DEF Line, LastCommand, LastAnswer
  <2>4. QED BY <1>3, <1>6, <2>1, <2>2, <2>3, ServesEffects
<1>7. CASE TellPath(k) BY <1>3, <1>7, TellEffects
<1>8. QED BY <1>4, <1>5, <1>6, <1>7 DEF ChildOf

\* The child that serves c.
LEMMA SessionOfOwnChild ==
    ASSUME Base, NEW k \in Child, ChildOf(k), NEW c \in Client, Session(c), other[c] = k,
           client[c] \in Joined
    PROVE  Session(c)'
<1>1. /\ UNCHANGED <<client, other, fd, asked>>
      /\ \A j \in Child : j # k => child'[j] = child[j] /\ peer'[j] = peer[j]
      /\ \/ peer'[k] = peer[k] /\ child'[k] # "gone"
         \/ peer'[k] = Nobody /\ child'[k] = "gone"
      /\ Parent \in woken' <=> Parent \in woken
      /\ child[k] # "gone"
  BY ChildFacts DEF ChildLeaves
<1>2. /\ Private(k, c) /\ fd[c] \in {k, Bad} /\ child[k] # "told" /\ pub.body.of # c
      /\ pub.body.of = k => Stale(k)
      /\ fd[c] = k => Line(c, k)
  BY DEF Session
<1>3. child[k] # "tell" BY DEF Base, Pids, Known, Told
<1>4. Private(k, c)' BY <1>1, <1>2, Distinct DEF Private
<1>5. pub' = pub /\ child'[k] # "told"
  BY <1>2, <1>3, TellEffects, SyncsEffects, ServesEffects, ChildQuitsEffects
     DEF ChildOf, Base, Typed, fileVars
<1>6. Stale(k) => Stale(k)' BY <1>1 DEF Stale
<1>7. fd[c] = k => Line(c, k)' BY <1>2, <1>3, LineOfChild DEF Base
<1>8. Private(other[c], c)' BY <1>1, <1>4 DEF Private
<1>9. (pub.body.of = k => Stale(other[c])') /\ (fd[c] = k => Line(c, other[c])')
  BY <1>1, <1>2, <1>6, <1>7 DEF Stale, Line, LastCommand, LastAnswer
<1>10. QED BY <1>1, <1>2, <1>5, <1>8, <1>9 DEF Session

\* Order is kept by the steps of a child.
LEMMA OrderOfChild ==
    ASSUME Base, NEW k \in Child, ChildOf(k), NEW c \in Client, Order(c)
    PROVE  Order(c)'
<1>. SUFFICES ASSUME Orderly(c)'
              PROVE  /\ Unknown(c)'
                     /\ client'[c] \in Joining => Connects(c)'
                     /\ client'[c] \in Joined => Session(c)'
  BY DEF Order
<1>1. UNCHANGED <<client, mixed>> BY ChildFacts DEF ChildLeaves
<1>2. Orderly(c) BY <1>1 DEF Orderly
<1>3. Unknown(c) /\ Unknown(c)' BY <1>2, UnknownOfChild DEF Order
<1>4. ASSUME client[c] \in Joining PROVE Connects(c)'
  <2>1. Connects(c) BY <1>2, <1>4 DEF Order
  <2>2. QED BY <1>3, <1>4, <2>1, ConnectsOfTell, ConnectsOfChild DEF ChildOf
<1>5. ASSUME client[c] \in Joined PROVE Session(c)'
  <2>1. Session(c) BY <1>2, <1>5 DEF Order
  <2>2. QED BY <1>3, <1>5, <2>1, SessionOfOtherChild, SessionOfOwnChild
<1>6. QED BY <1>1, <1>3, <1>4, <1>5

-----------------------------------------------------------------------------
(* Order, in the steps of another client.                                  *)

\* Another client that opens the public file finds c with a session, or c is
\* mixed up with it.
LEMMA OrderlyBefore ==
    ASSUME Base, NEW d \in Client, ClientOf(d), NEW c \in Client \ {d}, Orderly(c)'
    PROVE  Orderly(c) /\ (client[c] \in Joining => fd'[d] # Public \/ fd'[d] = fd[d])
<1>1. Start(d) \/ (mixed' \subseteq mixed /\ mixed \ {d} \subseteq mixed')
  BY ClientEffects DEF Base
<1>2. client'[c] = client[c] BY ClientEffects DEF Base, ClientLeaves
<1>3. c \notin mixed /\ client[c] \in Joining \cup Joined
  <2>1. mixed \ {d} \subseteq mixed' BY <1>1, StartEffects DEF Base
  <2>2. QED BY <1>2, <2>1 DEF Orderly
<1>4. ASSUME client[c] \in Joining, Start(d), fd'[d] = Public, fd[d] # Public PROVE FALSE
  <2>1. c \in Present /\ Connecting(c) BY <1>4 DEF Present, Connecting, Joining
  <2>2. ~Quiet BY <2>1 DEF Quiet
  <2>3. c \in mixed' BY <1>4, <2>1, <2>2, StartEffects DEF Base
  <2>4. QED BY <2>3 DEF Orderly
<1>5. ASSUME ~Start(d) PROVE fd'[d] # Public \/ fd'[d] = fd[d]
  <2>1. CASE Reads(d)
    <3>1. \/ fd' = fd \/ fd'[d] = Bad
          \/ fd'[d] = pub.body.of /\ pub.body.kind = "path"
      BY <2>1, ReadsEffects DEF Base
    <3>2. QED BY <3>1, Distinct DEF Base, Pids
  <2>2. CASE Writes(d) \/ Kills(d) \/ SendTooLong(d)
    BY <2>2, WritesEffects, KillsEffects, SendTooLongEffects DEF Base
  <2>3. CASE Quits(d) BY <2>3, QuitsEffects, Distinct DEF Base
  <2>4. QED BY <1>5, <2>1, <2>2, <2>3 DEF ClientOf
<1>6. QED BY <1>3, <1>4, <1>5 DEF Orderly

\* What another client learns and whom it wakes.
LEMMA OtherFacts ==
    ASSUME Base, NEW d \in Client, ClientOf(d)
    PROVE  /\ ClientLeaves(d)
           /\ \/ other'[d] \in {other[d], Parent, Nobody}
              \/ other'[d] = pub.body.of /\ client[d] = "waitPath"
           /\ \/ woken' \subseteq woken
              \/ client[d] \in {"askKill", "ackKill", "kill", "exitKill"}
BY StartEffects, WritesEffects, KillsEffects, ReadsEffects, SendTooLongEffects, QuitsEffects
   DEF Base, ClientOf

\* Another client does not learn the pid of c: c is the only one to read
\* the file while it is there.
LEMMA UnknownOfOther ==
    ASSUME Base, NEW d \in Client, ClientOf(d), NEW c \in Client \ {d}, Orderly(c)', Order(c)
    PROVE  Unknown(c)'
<1>1. Orderly(c) BY OrderlyBefore
<1>2. Unknown(c) /\ c # Parent /\ c # Nobody BY <1>1, Distinct DEF Order
<1>3. peer' = peer /\ \A e \in Client \ {d} : other'[e] = other[e]
  BY OtherFacts DEF ClientLeaves, childVars
<1>4. ASSUME client[d] = "waitPath" PROVE pub.body.of # c
  <2>1. CASE client[c] \in Joined BY <1>1, <2>1 DEF Order, Session
  <2>2. CASE client[c] \in Joining
    <3>1. fd[d] # Public BY <1>1, <2>2 DEF Order, Connects
    <3>2. QED BY <1>4, <3>1 DEF Base, Place, Joining
  <2>3. QED BY <1>1, <2>1, <2>2 DEF Orderly
<1>5. other'[d] # c BY <1>2, <1>4, OtherFacts DEF Unknown
<1>6. QED BY <1>2, <1>3, <1>5 DEF Unknown

\* Another client has no part in the handshake of c.
LEMMA ConnectsOfOther ==
    ASSUME Base, NEW d \in Client, ClientOf(d), NEW c \in Client \ {d}, Orderly(c)', Order(c),
           client[c] \in Joining
    PROVE  Connects(c)'
<1>1. Unknown(c) /\ Connects(c) BY OrderlyBefore DEF Order
<1>2. /\ UNCHANGED <<parent, child, peer>> /\ client'[c] = client[c]
      /\ \A e \in Client \ {d} : fd'[e] = fd[e] /\ other'[e] = other[e]
      /\ woken \ {d} \subseteq woken' /\ woken' \subseteq woken \cup {other[d]}
      /\ fd[d] # Public => pub' = pub
  BY OtherFacts DEF ClientLeaves, serverVars, childVars
<1>3. fd[d] # Public /\ fd'[d] # Public BY <1>1, OrderlyBefore DEF Connects
<1>4. client[d] # "waitPath" /\ other[d] # Parent BY <1>3 DEF Base, Place, Joining
<1>5. /\ pub' = pub
      /\ Parent \in woken' <=> Parent \in woken
      /\ c \in woken' <=> c \in woken
  BY <1>1, <1>2, <1>3, <1>4, Distinct DEF Unknown
<1>6. \A e \in Client \ {c} : fd'[e] # Public BY <1>1, <1>2, <1>3 DEF Connects
<1>7. CASE client[c] \notin {"armPath", "waitPath"}
  BY <1>1, <1>2, <1>5, <1>6, <1>7 DEF Connects
<1>8. CASE /\ client[c] \in {"armPath", "waitPath"}
           /\ pub.body = Message("connect", c, 0) /\ c \notin woken
           /\ \A j \in Child : peer[j] = c => child[j] = "tell"
  BY <1>1, <1>2, <1>5, <1>6, <1>8 DEF Connects
<1>9. ASSUME client[c] \in {"armPath", "waitPath"}, Private(pub.body.of, c),
             pub.body.of \notin woken,
             child[pub.body.of] \in {"told", "up", "armAck", "ack", "gone"},
             child[pub.body.of] = "told" => c \notin woken,
             \A j \in Child : child[j] # "tell"
      PROVE  Connects(c)'
  <2>1. PICK n \in Child : n = pub.body.of BY <1>9 DEF Private
  <2>2. other[d] # n /\ n # d BY <1>9, <2>1, Distinct DEF Private
  <2>3. n \notin woken' BY <1>2, <1>9, <2>1, <2>2
  <2>4. other'[d] # n BY <1>4, <2>2, OtherFacts, Distinct
  <2>5. Private(n, c)' BY <1>2, <1>9, <2>1, <2>4 DEF Private
  <2>6. Private(pub.body.of, c)' BY <1>5, <2>1, <2>5 DEF Private
  <2>7. QED BY <1>1, <1>2, <1>5, <1>6, <1>9, <2>1, <2>3, <2>6 DEF Connects
<1>10. QED BY <1>1, <1>7, <1>8, <1>9 DEF Connects

\* Another client has no part in the session of c: it neither writes to its
\* file nor learns the pid of its child nor has the server fork for it.
LEMMA SessionOfOther ==
    ASSUME Base, NEW d \in Client, ClientOf(d), NEW c \in Client \ {d}, Unknown(c), Session(c),
           client[c] \in Joined
    PROVE  Session(c)'
<1>1. /\ UNCHANGED <<child, peer, seen>> /\ client'[c] = client[c]
      /\ \A e \in Client \ {d} : /\ client'[e] = client[e] /\ other'[e] = other[e]
                                 /\ fd'[e] = fd[e] /\ asked'[e] = asked[e]
      /\ woken \ {d} \subseteq woken' /\ woken' \subseteq woken \cup {other[d]}
      /\ fd[d] # Public => pub' = pub
      /\ \A j \in Child : j # fd[d] => priv'[j] = priv[j]
  BY OtherFacts DEF ClientLeaves, childVars
<1>2. PICK n \in Child : n = other[c] BY DEF Session, Private
<1>3. /\ Private(n, c) /\ fd[c] \in {n, Bad} /\ child[n] # "told" /\ pub.body.of # c
      /\ pub.body.of = n => Stale(n)
      /\ fd[c] = n => Line(c, n)
  BY <1>2 DEF Session
<1>4. other[d] # n /\ other[d] # c /\ n # d /\ fd[d] # n
  <2>1. other[d] # n /\ other[d] # c BY <1>3 DEF Private, Unknown
  <2>2. QED BY <2>1, Distinct DEF Base, Place
<1>5. other'[d] # n
  <2>1. client[d] = "waitPath" => pub.body.of # n BY <1>3 DEF Stale
  <2>2. QED BY <1>4, <2>1, OtherFacts, Distinct
<1>6. Private(n, c)' BY <1>1, <1>3, <1>5 DEF Private
<1>7. /\ n \in woken' <=> n \in woken
      /\ c \in woken' <=> c \in woken
      /\ priv'[n] = priv[n]
  BY <1>1, <1>4
<1>8. fd[c] = n => Line(c, n)' BY <1>1, <1>3, <1>7 DEF Line, LastCommand, LastAnswer
<1>9. pub'.body.of # c /\ (pub'.body.of = n => pub.body.of = n /\ pub' = pub)
  <2>1. CASE Writes(d)
    <3>1. CASE fd[d] # Public BY <1>1, <1>3, <3>1
    <3>2. CASE fd[d] = Public
      <4>1. client[d] \in Joining \cup {"exitKill"} BY <3>2 DEF Base, Place
      <4>2. pub'.body = Message("connect", d, 0)
        BY <2>1, <3>2, <4>1, WritesEffects DEF Base, Joining
      <4>3. pub'.body.of = d BY <4>2, MessageFacts
      <4>4. QED BY <1>4, <4>3
    <3>3. QED BY <3>1, <3>2
  <2>2. CASE Quits(d)
    <3>1. CASE pub' = pub BY <1>3, <3>1
    <3>2. CASE pub'.body = Message("exit", Nobody, 0)
      <4>1. pub'.body.of = Nobody BY <3>2, MessageFacts
      <4>2. QED BY <4>1, Distinct
    <3>3. QED BY <1>1, <2>2, <3>1, <3>2, QuitsEffects DEF Base, fileVars
  <2>3. CASE Start(d) \/ Kills(d) \/ Reads(d) \/ SendTooLong(d)
    <3>1. pub' = pub
      BY <2>3, StartEffects, KillsEffects, ReadsEffects, SendTooLongEffects DEF Base, fileVars
    <3>2. QED BY <1>3, <3>1
  <2>4. QED BY <2>1, <2>2, <2>3 DEF ClientOf
<1>10. ASSUME pub'.body.of = n PROVE Stale(n)'
  <2>1. Stale(n) /\ pub' = pub BY <1>3, <1>9, <1>10
  <2>2. pub.body.of = n /\ pub'.body # Message("connect", d, 0) /\ pub'.body # Message("exit", Nobody, 0)
    <3>1. Message("connect", d, 0).of = d /\ Message("exit", Nobody, 0).of = Nobody BY MessageFacts
    <3>2. QED BY <1>4, <1>9, <1>10, <2>1, <3>1, Distinct
  <2>3. /\ client[d] \notin {"askKill", "armPath", "waitPath"}
        /\ client[d] = "exitKill" => other[d] # Parent
    BY <2>1 DEF Stale
  <2>4. client[d] \in {"ackKill", "kill", "exitKill"} => other[d] # Parent
    BY <2>3 DEF Base, Place, Joining
  <2>5. Parent \notin woken' BY <1>1, <2>1, <2>3, <2>4, OtherFacts DEF Stale
  <2>6. /\ client'[d] \notin {"askKill", "armPath", "waitPath"}
        /\ client'[d] = "exitKill" => other'[d] # Parent
    <3>1. CASE Writes(d)
      <4>1. client[d] = "ask" => fd[d] = Public BY DEF Base, Place, Joining
      <4>2. QED BY <2>2, <3>1, <4>1, WritesEffects DEF Base
    <3>2. CASE Quits(d)
      <4>1. other[d] = Parent => fd[d] = Public BY DEF Base, Place
      <4>2. QED BY <2>2, <3>2, <4>1, QuitsEffects DEF Base
    <3>3. CASE Start(d) BY <3>3, StartEffects DEF Base
    <3>4. CASE Kills(d) \/ Reads(d) \/ SendTooLong(d)
      BY <2>3, <3>4, KillsEffects, ReadsEffects, SendTooLongEffects DEF Base
    <3>5. QED BY <3>1, <3>2, <3>3, <3>4 DEF ClientOf
  <2>7. QED BY <1>1, <2>1, <2>5, <2>6 DEF Stale
<1>11. other'[c] = n /\ fd'[c] = fd[c] /\ child'[n] # "told" BY <1>1, <1>2, <1>3
<1>12. /\ Private(other[c], c)' /\ (pub'.body.of = n => Stale(other[c])')
       /\ fd'[c] = n => Line(c, other[c])'
  BY <1>6, <1>8, <1>10, <1>11 DEF Private, Stale, Line, LastCommand, LastAnswer
<1>13. QED BY <1>3, <1>9, <1>11, <1>12 DEF Session

\* Order of c is kept by the steps of another client.
LEMMA OrderOfOther ==
    ASSUME Base, NEW d \in Client, ClientOf(d), NEW c \in Client \ {d}, Order(c)
    PROVE  Order(c)'
<1>1. ASSUME Orderly(c)'
      PROVE  /\ Unknown(c)'
             /\ client'[c] \in Joining => Connects(c)'
             /\ client'[c] \in Joined => Session(c)'
  <2>1. Orderly(c) /\ client'[c] = client[c]
    BY <1>1, OrderlyBefore, OtherFacts DEF ClientLeaves
  <2>2. Unknown(c) /\ Unknown(c)' BY <1>1, <2>1, UnknownOfOther DEF Order
  <2>3. client[c] \in Joining => Connects(c)' BY <1>1, ConnectsOfOther
  <2>4. client[c] \in Joined => Session(c)' BY <2>1, <2>2, SessionOfOther DEF Order
  <2>5. QED BY <2>1, <2>2, <2>3, <2>4
<1>2. QED BY <1>1 DEF Order

-----------------------------------------------------------------------------
(* Order, in the steps of the client itself.                               *)

\* The open of the public file while the server waits and nobody connects.
LEMMA OrderOfStart ==
    ASSUME Base, NEW c \in Client, Start(c), Orderly(c)'
    PROVE  Unknown(c)' /\ client'[c] = "read" /\ Connects(c)'
<1>1. /\ ClientLeaves(c) /\ UNCHANGED <<woken, other>> /\ client[c] = "start"
      /\ client'[c] = "read" /\ Quiet
  <2>1. client'[c] \in Joining \cup Joined /\ c \notin mixed' BY DEF Orderly
  <2>2. QED BY <2>1, StartEffects DEF Base, Joining, Joined
<1>2. /\ UNCHANGED <<parent, child, peer>> /\ \A d \in Client \ {c} : fd'[d] = fd[d]
  BY <1>1 DEF ClientLeaves, serverVars, childVars
<1>3. ~Known(c) BY <1>1 DEF Known, Late
<1>4. (\A d \in Client : other[d] # c) /\ \A j \in Child : peer[j] # c
  BY <1>3 DEF Base, Pids
<1>5. Unknown(c)' BY <1>1, <1>2, <1>4 DEF Unknown
<1>6. \A d \in Client \ {c} : fd[d] # Public
  <2>1. ASSUME NEW d \in Client PROVE client[d] \notin Joining \cup {"exitKill"}
    BY <1>1 DEF Quiet, Connecting, Joining
  <2>2. QED BY <2>1 DEF Base, Place
<1>7. Parent \notin woken /\ parent = "accept" /\ \A j \in Child : child[j] \notin Handshaking
  BY <1>1 DEF Quiet, Handshaking
<1>8. Connects(c)' BY <1>1, <1>2, <1>4, <1>6, <1>7 DEF Connects
<1>9. QED BY <1>1, <1>5, <1>8

\* A client on its way to the path: nobody else touches the public file.
LEMMA OrderOfJoining ==
    ASSUME Base, NEW c \in Client, Order(c), Orderly(c), client[c] \in Joining,
           Writes(c) \/ Kills(c) \/ Reads(c), client'[c] \in Joining
    PROVE  Unknown(c)' /\ Connects(c)'
<1>1. Unknown(c) /\ Connects(c) /\ Place(c) BY DEF Order, Base
<1>2. /\ ClientLeaves(c) /\ fd' = fd BY WritesEffects, KillsEffects, ReadsEffects DEF Base, Joining
<1>3. UNCHANGED <<parent, child, peer>> /\ \A d \in Client \ {c} : other'[d] = other[d]
  BY <1>2 DEF ClientLeaves, serverVars, childVars
<1>4. fd[c] = Public /\ other[c] \in {Parent, Nobody} BY <1>1 DEF Place
<1>5. other'[c] \in {Parent, Nobody}
  BY <1>4, WritesEffects, KillsEffects, ReadsEffects DEF Base, Joining
<1>6. Unknown(c)' BY <1>1, <1>3, <1>5, Distinct DEF Unknown
<1>7. CASE Writes(c)
  <2>1. /\ client[c] = "ask" /\ client'[c] = "askKill" /\ woken' = woken
        /\ pub'.body = Message("connect", c, 0)
    BY <1>4, <1>7, WritesEffects DEF Base, Joining
  <2>2. QED BY <1>1, <1>2, <1>3, <1>6, <2>1 DEF Connects
<1>8. CASE Kills(c)
  <2>1. /\ client[c] = "askKill" /\ client'[c] = "armPath" /\ pub' = pub /\ Signal(other[c], c)
    BY <1>8, KillsEffects DEF Base, Joining, fileVars
  <2>2. c \notin woken BY <1>1, <2>1 DEF Place
  <2>3. /\ Parent \notin woken /\ parent \in {"accept", "gone"} /\ \A j \in Child : peer[j] # c
        /\ pub.body = Message("connect", c, 0)
    BY <1>1, <2>1 DEF Connects
  <2>4. /\ woken' \subseteq woken \cup {other[c]}
        /\ other[c] = Parent => woken' = woken \/ parent \in {"accept", "waitsync"}
        /\ woken' = woken \/ other[c] \in {Parent} \cup Child \cup Client
    BY <2>1, SignalEffects
  <2>5. c \notin woken' BY <1>4, <2>2, <2>4, Distinct
  <2>6. Parent \in woken' => parent = "accept" BY <1>4, <2>3, <2>4, Distinct
  <2>7. QED BY <1>1, <1>2, <1>3, <1>6, <2>1, <2>3, <2>5, <2>6 DEF Connects
<1>9. CASE Reads(c)
  <2>1. /\ woken' = woken /\ pub' = pub
        /\ \/ client[c] = "read" /\ client'[c] = "ask"
           \/ client[c] = "armPath" /\ client'[c] = "waitPath"
    BY <1>9, ReadsEffects DEF Base, Joining, fileVars
  <2>2. CASE client[c] = "read" /\ client'[c] = "ask"
    BY <1>1, <1>2, <1>3, <1>6, <2>1, <2>2 DEF Connects
  <2>3. CASE client[c] = "armPath" /\ client'[c] = "waitPath"
    <3>1. Private(pub.body.of, c) => Private(pub.body.of, c)'
      BY <1>3, <2>1 DEF Private
    <3>2. QED BY <1>1, <1>2, <1>3, <1>6, <2>1, <2>3, <3>1 DEF Connects
  <2>4. QED BY <2>1, <2>2, <2>3
<1>10. QED BY <1>7, <1>8, <1>9

\* The path that c reads is that of the child that was forked for it.
LEMMA OrderOfReadPath ==
    ASSUME Base, NEW c \in Client, Order(c), Orderly(c), Reads(c), client[c] = "waitPath"
    PROVE  Unknown(c)' /\ client'[c] = "ack" /\ Session(c)'
<1>1. Unknown(c) /\ Connects(c) BY DEF Order, Joining
<1>2. /\ ClientLeaves(c) /\ client'[c] = "ack" /\ c \in woken /\ woken' = woken \ {c}
      /\ UNCHANGED <<asked, pub, priv>> /\ other'[c] = pub.body.of
      /\ fd'[c] = Bad \/ fd'[c] = pub.body.of
  BY ReadsEffects DEF Base, fileVars
<1>3. /\ UNCHANGED <<child, peer, seen>>
      /\ \A d \in Client \ {c} : /\ client'[d] = client[d] /\ other'[d] = other[d] /\ fd'[d] = fd[d]
  BY <1>2 DEF ClientLeaves, childVars
<1>4. /\ Private(pub.body.of, c) /\ pub.body.of \notin woken
      /\ child[pub.body.of] \in {"up", "armAck", "ack", "gone"}
  BY <1>1, <1>2 DEF Connects
<1>5. PICK n \in Child : n = pub.body.of BY <1>4 DEF Private
<1>6. n # c /\ n \notin woken /\ Private(n, c) /\ child[n] \in {"up", "armAck", "ack", "gone"}
  BY <1>4, <1>5, Distinct
<1>7. Unknown(c)' BY <1>1, <1>2, <1>3, <1>5, <1>6 DEF Unknown
<1>8. Private(n, c)' BY <1>3, <1>6 DEF Private
<1>9. Stale(n)'
  <2>1. Parent \notin woken BY <1>1, <1>5, <1>6, MessageFacts DEF Connects
  <2>2. \A d \in Client \ {c} : fd[d] # Public BY <1>1 DEF Connects
  <2>3. \A d \in Client \ {c} : /\ client[d] \notin {"askKill", "armPath", "waitPath"}
                                /\ other[d] # Parent
    BY <2>2 DEF Base, Place, Joining
  <2>4. QED BY <1>2, <1>3, <2>1, <2>3 DEF Stale
<1>10. Line(c, n)' BY <1>2, <1>3, <1>6 DEF Line
<1>11. other'[c] = n /\ pub'.body.of = n BY <1>2, <1>5
<1>12. Private(other[c], c)' /\ Stale(other[c])' /\ Line(c, other[c])'
  BY <1>8, <1>9, <1>10, <1>11 DEF Private, Stale, Line, LastCommand, LastAnswer
<1>13. Session(c)' BY <1>2, <1>3, <1>6, <1>11, <1>12 DEF Session
<1>14. QED BY <1>2, <1>7, <1>13

\* The turns of c and its child.
LEMMA LineOfClient ==
    ASSUME Base, NEW c \in Client, NEW n \in Child, Line(c, n), Place(c),
           fd[c] = n, client[c] \in Joined,
           Writes(c) \/ Kills(c) \/ Reads(c) \/ SendTooLong(c)
    PROVE  Line(c, n)'
<1>1. other[c] = n /\ c # n BY Distinct DEF Place
<1>2. UNCHANGED <<child, seen>>
  BY WritesEffects, KillsEffects, ReadsEffects, SendTooLongEffects
     DEF Base, ClientLeaves, childVars
<1>3. n \in woken => child[n] \in {"ack", "serve"} BY DEF Base, Pids
<1>4. CASE Writes(c)
  <2>1. CASE client[c] = "ack" /\ client'[c] = "ackKill"
    <3>1. woken' = woken BY <1>4, WritesEffects DEF Base
    <3>2. QED BY <1>2, <2>1, <3>1 DEF Line
  <2>2. CASE client[c] = "ready" /\ client'[c] = "kill"
    <3>1. woken' = woken /\ priv'[n] = Message("request", c, asked'[c])
      BY <1>4, <2>2, WritesEffects DEF Base
    <3>2. LastCommand(c, priv[n])' BY <3>1, MessageFacts DEF LastCommand
    <3>3. QED BY <1>2, <2>2, <3>1, <3>2 DEF Line
  <2>3. QED BY <1>4, <2>1, <2>2, WritesEffects DEF Base, Joined
<1>5. CASE Kills(c)
  <2>1. /\ UNCHANGED <<asked, priv>> /\ Signal(n, c)
        /\ \/ client[c] = "ackKill" /\ client'[c] = "ready"
           \/ client[c] = "kill" /\ client'[c] = "arm"
    BY <1>1, <1>5, KillsEffects DEF Base, fileVars, Joined
  <2>2. /\ woken' \subseteq woken \cup {n} /\ (woken' = woken \/ child[n] \in {"ack", "serve"})
    BY <2>1, SignalEffects
  <2>3. c \notin woken' BY <1>1, <2>1, <2>2 DEF Place
  <2>4. QED BY <1>2, <1>3, <2>1, <2>2, <2>3 DEF Line, LastCommand
<1>6. CASE Reads(c)
  <2>1. CASE client[c] = "arm" /\ client'[c] = "wait"
    <3>1. UNCHANGED <<woken, asked, priv>> BY <1>6, <2>1, ReadsEffects DEF Base, fileVars
    <3>2. QED BY <1>2, <2>1, <3>1 DEF Line, LastCommand, LastAnswer
  <2>2. CASE client[c] = "wait" /\ client'[c] = "ready"
    <3>1. c \in woken /\ woken' = woken \ {c} BY <1>6, <2>2, ReadsEffects DEF Base
    <3>2. QED BY <1>2, <2>2, <3>1 DEF Line
  <2>3. QED BY <1>6, <2>1, <2>2, ReadsEffects DEF Base, Joined
<1>7. CASE SendTooLong(c)
  <2>1. client[c] = "ready" /\ client'[c] = "arm" /\ woken' = woken
    BY <1>7, SendTooLongEffects DEF Base
  <2>2. c \notin woken BY <2>1 DEF Place
  <2>3. QED BY <1>2, <2>1, <2>2 DEF Line
<1>8. QED BY <1>4, <1>5, <1>6, <1>7

\* What c does in its session.
LEMMA OrderOfJoined ==
    ASSUME Base, NEW c \in Client, Order(c), Orderly(c), client[c] \in Joined,
           Writes(c) \/ Kills(c) \/ Reads(c) \/ SendTooLong(c)
    PROVE  Unknown(c)' /\ client'[c] \in Joined /\ Session(c)'
<1>1. Unknown(c) /\ Session(c) /\ Place(c) BY DEF Order, Base
<1>2. PICK n \in Child : n = other[c] BY <1>1 DEF Session, Private
<1>3. /\ Private(n, c) /\ fd[c] \in {n, Bad} /\ child[n] # "told" /\ pub.body.of # c
      /\ pub.body.of = n => Stale(n)
      /\ fd[c] = n => Line(c, n)
  BY <1>1, <1>2 DEF Session
<1>4. /\ ClientLeaves(c) /\ UNCHANGED <<other, fd>> /\ client'[c] \in Joined
  BY WritesEffects, KillsEffects, ReadsEffects, SendTooLongEffects DEF Base, Joined
<1>5. /\ UNCHANGED <<child, peer>> /\ \A d \in Client \ {c} : client'[d] = client[d]
      /\ woken' \subseteq woken \cup {n} /\ pub' = pub
  BY <1>2, <1>3, <1>4, Distinct DEF ClientLeaves, childVars
<1>6. Unknown(c)' BY <1>1, <1>4, <1>5 DEF Unknown
<1>7. Private(n, c)' BY <1>3, <1>4, <1>5 DEF Private
<1>8. Stale(n) => Stale(n)' BY <1>4, <1>5, Distinct DEF Stale, Joined
<1>9. fd[c] = n => Line(c, n)' BY <1>1, <1>3, LineOfClient
<1>10. other'[c] = n BY <1>2, <1>4
<1>11. /\ Private(other[c], c)' /\ (pub.body.of = n => Stale(other[c])')
       /\ fd[c] = n => Line(c, other[c])'
  BY <1>3, <1>7, <1>8, <1>9, <1>10 DEF Private, Stale, Line, LastCommand, LastAnswer
<1>12. Session(c)' BY <1>3, <1>4, <1>5, <1>10, <1>11 DEF Session
<1>13. QED BY <1>4, <1>6, <1>12

\* Order of c is kept by its own steps.
LEMMA OrderOfSelf ==
    ASSUME Base, NEW c \in Client, ClientOf(c), Order(c)
    PROVE  Order(c)'
<1>1. ASSUME Orderly(c)'
      PROVE  /\ Unknown(c)'
             /\ client'[c] \in Joining => Connects(c)'
             /\ client'[c] \in Joined => Session(c)'
  <2>1. client'[c] \in Joining \cup Joined /\ c \notin mixed' BY <1>1 DEF Orderly
  <2>2. ~Quits(c) BY <2>1, QuitsEffects DEF Base, Joining, Joined
  <2>3. CASE Start(c) BY <1>1, <2>3, OrderOfStart DEF Joining, Joined
  <2>4. CASE Writes(c) \/ Kills(c) \/ Reads(c) \/ SendTooLong(c)
    <3>1. /\ mixed' = mixed /\ client[c] \in Joining \cup Joined
      BY <2>4, WritesEffects, KillsEffects, ReadsEffects, SendTooLongEffects DEF Base, Joining, Joined
    <3>2. Orderly(c) BY <2>1, <3>1 DEF Orderly
    <3>3. CASE client[c] \in Joined BY <2>4, <3>2, <3>3, OrderOfJoined DEF Joining, Joined
    <3>4. CASE client[c] = "waitPath"
      <4>1. Reads(c)
        BY <2>4, <3>4, WritesEffects, KillsEffects, SendTooLongEffects DEF Base
      <4>2. QED BY <3>2, <3>4, <4>1, OrderOfReadPath DEF Joining, Joined
    <3>5. CASE client[c] \in Joining /\ client[c] # "waitPath"
      <4>1. client'[c] \in Joining /\ (Writes(c) \/ Kills(c) \/ Reads(c))
        BY <2>4, <3>5, WritesEffects, KillsEffects, ReadsEffects, SendTooLongEffects DEF Base, Joining
      <4>2. QED BY <3>2, <3>5, <4>1, OrderOfJoining DEF Joining, Joined
    <3>6. QED BY <3>1, <3>3, <3>4, <3>5
  <2>5. QED BY <2>2, <2>3, <2>4 DEF ClientOf
<1>2. QED BY <1>1 DEF Order

-----------------------------------------------------------------------------
(* The invariant.                                                          *)

\* The invariant is inductive.
LEMMA NextIInv ==
    ASSUME IInv, [Next]_vars
    PROVE  IInv'
<1>1. Base /\ \A c \in Client : Order(c) BY DEF IInv, Base, Typed
<1>2. Base'
  <2>1. Typed' /\ Pids' /\ Semaphore' BY <1>1, TypedStep, PidsStep, SemaphoreStep DEF Base
  <2>2. \A c \in Client : Place(c)' BY <1>1, PlaceStep DEF Base
  <2>3. QED BY <2>1, <2>2 DEF Base
<1>3. ASSUME NEW c \in Client PROVE Order(c)'
  <2>1. Order(c) BY <1>1
  <2>2. CASE UNCHANGED vars
    <3>1. UNCHANGED <<parent, child, peer, seen, client, other, fd, asked, pub, priv, woken, mixed>>
      BY <2>2 DEF vars, serverVars, childVars, clientVars, fileVars, signalVars
    <3>2. /\ Orderly(c)' <=> Orderly(c)
          /\ Unknown(c)' <=> Unknown(c)
      BY <3>1 DEF Orderly, Unknown
    <3>3. Connects(c)' <=> Connects(c) BY <3>1 DEF Connects, Private
    <3>4. Session(c)' <=> Session(c)
      BY <3>1 DEF Session, Private, Stale, Line, LastCommand, LastAnswer
    <3>5. QED BY <2>1, <3>1, <3>2, <3>3, <3>4 DEF Order
  <2>3. CASE ParentMoves \/ Accept BY <1>1, <2>1, <2>3, OrderOfParent, OrderOfAccept
  <2>4. ASSUME NEW k \in Child, ChildOf(k) PROVE Order(c)' BY <1>1, <2>1, <2>4, OrderOfChild
  <2>5. ASSUME NEW d \in Client, ClientOf(d) PROVE Order(c)'
    BY <1>1, <2>1, <2>5, OrderOfSelf, OrderOfOther
  <2>6. QED BY <2>2, <2>3, <2>4, <2>5, NextCases
<1>4. QED BY <1>2, <1>3 DEF IInv, Base, Typed

\* The server waits for the first client.
LEMMA InitIInv == Init => IInv
<1>. SUFFICES ASSUME Init PROVE IInv
  OBVIOUS
<1>1. Empty \in Messages /\ Empty.kind = "empty" /\ Empty.of = Nobody
  BY EmptyMessage, MessageFacts DEF Empty
<1>2. pub = [pid |-> FALSE, body |-> Empty] BY DEF Init
<1>3. pub.pid = FALSE /\ pub.body = Empty /\ pub \in [pid : BOOLEAN, body : Messages]
  BY <1>1, <1>2
<1>4. TypeOK
  BY <1>1, <1>3, FilesAssumption DEF Init, TypeOK, Public
<1>5. Semaphore
  <2>1. Released \subseteq Child BY DEF Released
  <2>2. Cardinality(Released) \in Nat BY <2>1, ChildSets
  <2>3. QED BY <2>2 DEF Init, Semaphore
<1>6. Pids
  <2>1. Known(Nobody) BY Distinct DEF Known
  <2>2. QED BY <1>1, <1>3, <2>1, Distinct DEF Init, Pids
<1>7. ASSUME NEW c \in Client PROVE Place(c) /\ Order(c)
  <2>1. client[c] = "start" /\ fd[c] = Bad /\ other[c] = Nobody /\ mixed = {} /\ woken = {}
    BY DEF Init
  <2>2. Place(c) BY <2>1, Distinct DEF Place, Joining
  <2>3. ~Orderly(c) BY <2>1 DEF Orderly, Joining, Joined
  <2>4. QED BY <2>2, <2>3 DEF Order
<1>8. QED BY <1>3, <1>4, <1>5, <1>6, <1>7 DEF IInv

-----------------------------------------------------------------------------
(* Every step is a step of the service, or none.                           *)

\* The phase of a client, by where it is and whether it is mixed up.
PhaseIs(here, lost) ==
    IF here \in {"gone", "exitKill"} THEN "left" ELSE IF lost THEN "lost"
    ELSE IF here = "ready" THEN "idle"
    ELSE IF here \in {"kill", "arm", "wait"} THEN "waiting" ELSE "out"

\* The phase of a client, before and after a step.
LEMMA PhaseCases ==
    ASSUME IInv, IInv', NEW d \in Client
    PROVE  /\ Phase(d) = PhaseIs(client[d], d \in mixed)
           /\ Phase(d)' = PhaseIs(client'[d], d \in mixed')
<1>1. /\ client[d] \in Labels /\ (d \in mixed => client[d] # "start")
      /\ client'[d] \in Labels /\ (d \in mixed' => client'[d] # "start")
  <2>1. TypeOK /\ TypeOK' /\ Place(d) /\ Place(d)' BY DEF IInv
  <2>2. client \in [Client -> Labels] /\ client' \in [Client -> Labels]
    BY <2>1, Types DEF TypeOK, Labels, Joining, Joined
  <2>3. QED BY <2>1, <2>2 DEF Place, Joining, Joined
<1>2. Phase(d) = PhaseIs(client[d], d \in mixed)
  BY <1>1 DEF Phase, PhaseIs, Connecting, Labels, Joining, Joined
<1>3. Phase(d)' = PhaseIs(client'[d], d \in mixed')
  BY <1>1 DEF Phase, PhaseIs, Connecting, Labels, Joining, Joined
<1>4. QED BY <1>2, <1>3

\* A client that notices nothing, and one that loses its connection or ends.
Keeps(d) == Phase(d)' = Phase(d) /\ asked'[d] = asked[d] /\ Heard(d)' = Heard(d)
Drops(d) == Phase(d) # "left" /\ Phase(d)' \in {"lost", "left"}

\* If there are only such clients, the service may lose the ones and keep the
\* others.
LEMMA LossStep ==
    ASSUME \A d \in Client : Keeps(d) \/ Drops(d)
    PROVE  S!Loss
BY DEF S!Loss, Keeps, Drops

\* A client that does nothing may be mixed up with another one.
LEMMA StaysOrDrops ==
    ASSUME IInv, IInv', NEW d \in Client,
           client'[d] = client[d], asked'[d] = asked[d], got'[d] = got[d],
           d \in mixed => d \in mixed'
    PROVE  /\ Keeps(d) \/ Drops(d)
           /\ (d \in mixed' => d \in mixed) => Keeps(d)
<1>1. Heard(d)' = Heard(d) BY DEF Heard
<1>2. CASE d \in mixed' <=> d \in mixed
  <2>1. Phase(d)' = Phase(d) BY <1>2, PhaseCases DEF PhaseIs
  <2>2. QED BY <1>1, <2>1 DEF Keeps
<1>3. CASE d \notin mixed /\ d \in mixed'
  <2>1. client'[d] \in Joining \cup Joined BY <1>3 DEF IInv, Place
  <2>2. Phase(d) # "left" /\ Phase(d)' = "lost"
    BY <1>3, <2>1, PhaseCases DEF PhaseIs, Joining, Joined
  <2>3. QED BY <1>3, <2>2 DEF Drops
<1>4. QED BY <1>2, <1>3

\* The other clients, in a step of one.
LEMMA OthersKeep ==
    ASSUME IInv, IInv', NEW c \in Client, ClientOf(c), NEW d \in Client \ {c}
    PROVE  /\ Keeps(d) \/ Drops(d)
           /\ mixed' \subseteq mixed => Keeps(d)
<1>1. Typed /\ Place(c) BY DEF IInv, Typed
<1>2. /\ client'[d] = client[d] /\ asked'[d] = asked[d] /\ got'[d] = got[d]
  BY <1>1, ClientEffects DEF ClientLeaves
<1>3. d \in mixed => d \in mixed' BY <1>1, ClientEffects, StartEffects
<1>4. QED BY <1>2, <1>3, StaysOrDrops

\* A step of a client that the service does not see, and the last one.
LEMMA SelfKeeps ==
    ASSUME IInv, IInv', NEW c \in Client, ClientOf(c),
           \/ Start(c) \/ Quits(c)
           \/ Writes(c) /\ client[c] # "ready"
           \/ Kills(c) /\ client[c] # "ackKill"
           \/ Reads(c) /\ client[c] # "wait"
           \/ c \in mixed
    PROVE  S!Loss
<1>1. Typed /\ Place(c) /\ Place(c)' BY DEF IInv, Typed
<1>2. Keeps(c) \/ Drops(c)
  <2>1. ASSUME asked' = asked, got' = got,
               PhaseIs(client[c], c \in mixed) = PhaseIs(client'[c], c \in mixed')
        PROVE  Keeps(c)
    BY <2>1, PhaseCases DEF Keeps, Heard
  <2>2. ASSUME PhaseIs(client[c], c \in mixed) # "left",
               PhaseIs(client'[c], c \in mixed') \in {"lost", "left"}
        PROVE  Drops(c)
    BY <2>2, PhaseCases DEF Drops
  <2>3. CASE Start(c)
    <3>1. /\ client[c] = "start" /\ client'[c] \in {"gone", "read"} /\ UNCHANGED <<asked, got>>
          /\ c \notin mixed
      BY <1>1, <2>3, StartEffects DEF Place, Joining, Joined
    <3>2. CASE client'[c] = "gone" BY <2>2, <3>1, <3>2 DEF PhaseIs
    <3>3. CASE client'[c] = "read" /\ c \in mixed' BY <2>2, <3>1, <3>3 DEF PhaseIs
    <3>4. CASE client'[c] = "read" /\ c \notin mixed' BY <2>1, <3>1, <3>4 DEF PhaseIs
    <3>5. QED BY <3>1, <3>2, <3>3, <3>4
  <2>4. CASE Quits(c)
    <3>1. client[c] # "gone" /\ client'[c] \in {"gone", "exitKill"}
          /\ (client[c] = "exitKill" => UNCHANGED <<asked, got>>)
      BY <1>1, <2>4, QuitsEffects
    <3>2. CASE client[c] = "exitKill" BY <2>1, <3>1, <3>2 DEF PhaseIs
    <3>3. CASE client[c] # "exitKill" BY <2>2, <3>1, <3>3 DEF PhaseIs
    <3>4. QED BY <3>2, <3>3
  <2>5. CASE c \in mixed /\ ~Start(c) /\ ~Quits(c)
    <3>1. mixed' = mixed
      BY <1>1, <2>5, WritesEffects, KillsEffects, ReadsEffects, SendTooLongEffects DEF ClientOf
    <3>2. client[c] \in Joining \cup Joined /\ client'[c] \in Joining \cup Joined
      BY <1>1, <2>5, <3>1 DEF Place
    <3>3. QED BY <2>2, <2>5, <3>1, <3>2 DEF PhaseIs, Joining, Joined
  <2>6. CASE /\ c \notin mixed
             /\ \/ Writes(c) /\ client[c] # "ready"
                \/ Kills(c) /\ client[c] # "ackKill"
                \/ Reads(c) /\ client[c] # "wait"
    <3>1. UNCHANGED <<asked, got, mixed>>
      BY <1>1, <2>6, WritesEffects, KillsEffects, ReadsEffects
    <3>2. PhaseIs(client[c], FALSE) = PhaseIs(client'[c], FALSE)
      BY <1>1, <2>6, WritesEffects, KillsEffects, ReadsEffects DEF PhaseIs
    <3>3. QED BY <2>1, <2>6, <3>1, <3>2 DEF PhaseIs
  <2>7. QED BY <2>3, <2>4, <2>5, <2>6
<1>3. QED BY <1>2, OthersKeep, LossStep

\* The end of the handshake is Connect of the service.
LEMMA AckIsConnect ==
    ASSUME IInv, IInv', NEW c \in Client, Kills(c), client[c] = "ackKill", c \notin mixed
    PROVE  S!Connect(c)
<1>1. Typed BY DEF IInv, Typed
<1>2. /\ client'[c] = "ready" /\ UNCHANGED <<asked, got, mixed>> BY <1>1, KillsEffects
<1>3. \A d \in Client \ {c} : Keeps(d) BY <1>2, OthersKeep DEF ClientOf
<1>4. Phase(c) = "out" /\ Phase(c)' = "idle" BY <1>2, PhaseCases DEF PhaseIs
<1>5. Heard(c)' = Heard(c) BY <1>2 DEF Heard
<1>6. QED BY <1>2, <1>3, <1>4, <1>5 DEF S!Connect, S!To, Keeps

\* ipc_send of a command is Ask, even if it refuses the datagram.
LEMMA SendIsAsk ==
    ASSUME IInv, IInv', NEW c \in Client, Writes(c) \/ SendTooLong(c), client[c] = "ready",
           c \notin mixed
    PROVE  S!Ask(c)
<1>1. Typed BY DEF IInv, Typed
<1>2. /\ client'[c] \in {"kill", "arm"} /\ UNCHANGED <<got, mixed>>
      /\ asked' = [asked EXCEPT ![c] = 1 - @]
  BY <1>1, WritesEffects, SendTooLongEffects
<1>3. \A d \in Client \ {c} : Keeps(d) BY <1>2, OthersKeep DEF ClientOf
<1>4. Phase(c) = "idle" /\ Phase(c)' = "waiting" BY <1>2, PhaseCases DEF PhaseIs
<1>5. Heard(c)' = Heard(c) BY <1>2 DEF Heard
<1>6. QED BY <1>2, <1>3, <1>4, <1>5 DEF S!Ask, S!To, Keeps

\* A client that a signal ends the wait of finds the answer to its last command
\* in the file.
LEMMA TakeIsTake ==
    ASSUME IInv, IInv', NEW c \in Client, Reads(c), client[c] = "wait", c \notin mixed
    PROVE  S!Take(c)
<1>1. Typed BY DEF IInv, Typed
<1>2. /\ client'[c] = "ready" /\ c \in woken /\ fd[c] \in Child /\ got'[c] = priv[fd[c]]
      /\ UNCHANGED <<asked, mixed>>
  BY <1>1, ReadsEffects
<1>3. Session(c) BY DEF IInv, Order, Orderly, Joined
<1>4. fd[c] = other[c] BY <1>2, <1>3, Distinct DEF Session
<1>5. Line(c, fd[c]) BY <1>3, <1>4 DEF Session
<1>6. LastAnswer(c, priv[fd[c]]) BY <1>2, <1>5 DEF Line
<1>7. Heard(c)' = asked[c] BY <1>2, <1>6 DEF Heard, LastAnswer
<1>8. Phase(c) = "waiting" /\ Phase(c)' = "idle" BY <1>2, PhaseCases DEF PhaseIs
<1>9. \A d \in Client \ {c} : Keeps(d) BY <1>2, OthersKeep DEF ClientOf
<1>10. QED BY <1>2, <1>7, <1>8, <1>9 DEF S!Take, S!To, Keeps

\* Whatever happens, to every client happens what the service allows.
LEMMA NextIsService ==
    ASSUME IInv, IInv', [Next]_vars
    PROVE  [S!ServiceNext]_(S!serviceVars)
<1>1. Base BY DEF IInv, Base, Typed
<1>2. ASSUME UNCHANGED <<clientVars, mixed>> PROVE S!Loss
  BY <1>2, StaysOrDrops, LossStep DEF clientVars
<1>3. CASE UNCHANGED vars \/ ParentMoves \/ Accept
  <2>1. UNCHANGED <<clientVars, mixed>>
    BY <1>1, <1>3, ParentEffects, AcceptEffects DEF Base, Typed, vars
  <2>2. QED BY <1>2, <2>1 DEF S!ServiceNext
<1>4. ASSUME NEW k \in Child, ChildOf(k) PROVE S!Loss
  BY <1>1, <1>2, <1>4, ChildFacts DEF ChildLeaves, clientVars
<1>5. ASSUME NEW c \in Client, ClientOf(c)
      PROVE  S!Loss \/ S!Connect(c) \/ S!Ask(c) \/ S!Take(c)
  <2>1. CASE c \in mixed \/ Start(c) \/ Quits(c) BY <1>5, <2>1, SelfKeeps
  <2>2. CASE c \notin mixed /\ (Writes(c) \/ SendTooLong(c))
    <3>1. SendTooLong(c) => client[c] = "ready" BY <1>1, SendTooLongEffects DEF Base
    <3>2. QED BY <1>5, <2>2, <3>1, SelfKeeps, SendIsAsk
  <2>3. CASE c \notin mixed /\ Kills(c) BY <1>5, <2>3, SelfKeeps, AckIsConnect
  <2>4. CASE c \notin mixed /\ Reads(c) BY <1>5, <2>4, SelfKeeps, TakeIsTake
  <2>5. QED BY <1>5, <2>1, <2>2, <2>3, <2>4 DEF ClientOf
<1>6. QED BY <1>3, <1>4, <1>5, NextCases DEF S!ServiceNext

-----------------------------------------------------------------------------
(* The theorems.                                                           *)

\* The invariant holds, whichever signals are lost and whoever is interrupted.
THEOREM Invariance == Spec => []IInv
<1>1. IInv /\ [Next]_vars => IInv' BY NextIInv
<1>2. QED BY <1>1, InitIInv, PTL DEF Spec

\* The state of files.c keeps to its types: every process has the pid of a
\* process or none, a private file belongs to a child that was forked, and the
\* queue semaphore is never up more often than children were forked.
THEOREM FilesTypesSafety == Spec => []TypeOK
<1>1. IInv => TypeOK BY DEF IInv
<1>2. QED BY <1>1, Invariance, PTL

\* A client that connects in order keeps a session of its own: files.c keeps
\* the promise of ipc.h to it, whatever others do and whichever signals are
\* lost.
THEOREM ImplementsService == Spec => RefinesService
<1>1. Init => S!ServiceInit
  <2>1. ASSUME Init, NEW c \in Client PROVE Phase(c) = "out" /\ Heard(c) = 0
    <3>1. client[c] = "start" /\ got[c] = Empty /\ mixed = {} BY <2>1 DEF Init
    <3>2. Empty.bit = 0 BY MessageFacts DEF Empty
    <3>3. QED BY <3>1, <3>2 DEF Phase, Heard, Connecting
  <2>2. QED BY <2>1 DEF Init, S!ServiceInit
<1>2. IInv /\ IInv' /\ [Next]_vars => [S!ServiceNext]_(S!serviceVars) BY NextIsService
<1>3. QED BY <1>1, <1>2, Invariance, PTL DEF Spec, RefinesService, S!ServiceSpec
=============================================================================

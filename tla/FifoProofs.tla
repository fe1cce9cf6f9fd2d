----------------------------- MODULE FifoProofs -----------------------------
(***************************************************************************)
(* Fifo.tla keeps its types and implements the service, for any number of  *)
(* clients and children, whoever is interrupted when.                      *)
(***************************************************************************)
EXTENDS Fifo, TLAPS

-----------------------------------------------------------------------------
(* The inductive invariant.                                                *)

\* As long as there is a semaphore it is up at most once, and only while the
\* accepting process waits for it: the child that was forked last puts it up,
\* and the next one is not forked before.
Syncs(k) == child[k] \in {"tell", "release"}
Semaphore ==
    sem # Removed =>
        /\ sem \in {0, 1}
        /\ sem = 1 => parent = "waitsync" /\ cliCount > 0
        /\ \A k \in Child : Syncs(k) => sem = 0 /\ parent = "waitsync" /\ k = cliCount

\* A path is told once, to one client.
Told(k) == k <= cliCount /\ child[k] \notin {"none", "tell"}
Paths ==
    /\ \A k \in Child : k > cliCount => child[k] = "none"
    /\ \A i \in DOMAIN pubW : Told(pubW[i])
    /\ \A i, j \in DOMAIN pubW : pubW[i] = pubW[j] => i = j
    /\ \A c \in Client : \A i \in DOMAIN pubW : path[c] # pubW[i]
    /\ \A c \in Client : path[c] # 0 => Told(path[c])
    /\ \A c, d \in Client : path[c] = path[d] /\ path[c] # 0 => c = d

\* A client has no path until it is told one.
Public == {"start", "openR", "openW", "connect", "path"}
Private == {"privW", "privR", "ack", "ready", "wait"}
HasPath(c) ==
    /\ client[c] \in Public => path[c] = 0
    /\ client[c] \in Private => path[c] # 0

\* FIFOs that nobody was told are empty.
Working(k) == child[k] = "execute" /\ seen[k].kind = "request"
Quiet(k) == privR[k] = <<>> /\ privW[k] = <<>> /\ child[k] # "execute"
Untold(k) == (\A c \in Client : path[c] # k) => Quiet(k)

\* In the FIFOs of a client and in the hands of its child there is one command
\* at most, the last one, or the answer to it; before it no more than an
\* OP_CONNECT.
NoRequest(buf) == \A i \in DOMAIN buf : buf[i].kind # "request"
LastCommand(c, m) == m.of = c /\ m.bit = asked[c]
Idle(c, k) ==
    /\ Len(privR[k]) <= 1 /\ NoRequest(privR[k])
    /\ privW[k] = <<>> /\ ~Working(k)
Busy(c, k) ==
    /\ Len(privR[k]) <= 2
    /\ NoRequest(privR[k]) => Len(privR[k]) <= 1
    /\ \A i \in DOMAIN privR[k] : privR[k][i].kind = "request" => LastCommand(c, privR[k][i])
    /\ Working(k) => LastCommand(c, seen[k]) /\ NoRequest(privR[k]) /\ privW[k] = <<>>
    /\ privW[k] # <<>> => LastCommand(c, privW[k][1]) /\ NoRequest(privR[k])
Line(c) ==
    /\ client[c] \in {"privW", "privR", "ack"} => Quiet(path[c])
    /\ client[c] = "ready" => Idle(c, path[c])
    /\ client[c] = "wait" => Busy(c, path[c])

IInv ==
    /\ TypeOK /\ Semaphore /\ Paths
    /\ \A k \in Child : Untold(k)
    /\ \A c \in Client : HasPath(c) /\ Line(c)

-----------------------------------------------------------------------------
(* The steps, and what they leave alone.                                   *)

ParentMoves ==
    \/ OpenR \/ OpenW \/ OpenFails \/ Accept \/ AcceptError \/ AcceptNull
    \/ ParentInterrupt \/ WaitSync
ChildCloses(k) == TellNobody(k) \/ SyncError(k) \/ AnswerGone(k) \/ ChildInterrupt(k)
ChildQuits(k) == ReceiveNull(k) \/ ChildExits(k) \/ ChildFails(k)
ChildServes(k) == Receive(k) \/ Answer(k) \/ AnswerTooLong(k)
ChildOf(k) ==
    \/ TellPath(k) \/ Release(k) \/ Synced(k) \/ ChildCloses(k) \/ ChildQuits(k)
    \/ ChildServes(k)
Opens(c) == Start(c) \/ ClientOpenR(c) \/ ClientOpenW(c) \/ Connect(c)
Asks(c) == Send(c) \/ SendTooLong(c)
Quits(c) == ConnectFails(c) \/ ClientOpenFails(c) \/ SendExit(c) \/ Leave(c)
ClientOf(c) == Opens(c) \/ ReadPath(c) \/ Ack(c) \/ Asks(c) \/ Take(c) \/ Quits(c)

\* The steps, by who takes them.
LEMMA NextCases ==
    ASSUME [Next]_vars
    PROVE  \/ UNCHANGED vars
           \/ ParentMoves
           \/ \E k \in Child : ChildOf(k)
           \/ \E k \in Child, c \in Client : Meet(k, c)
           \/ \E c \in Client : ClientOf(c)
<1>1. CASE UNCHANGED vars BY <1>1
<1>2. CASE ParentStep \/ ParentInterrupt BY <1>2 DEF ParentStep, ParentMoves
<1>3. ASSUME NEW k \in Child, ChildStep(k) \/ ChildFails(k) \/ ChildInterrupt(k)
      PROVE  ChildOf(k) \/ \E c \in Client : Meet(k, c)
  BY <1>3 DEF ChildStep, ChildOf, ChildCloses, ChildQuits, ChildServes
<1>4. ASSUME NEW c \in Client,
             \/ ClientStep(c) \/ Start(c) \/ ClientOpenFails(c)
             \/ Send(c) \/ SendTooLong(c) \/ SendExit(c) \/ Leave(c)
      PROVE  ClientOf(c)
  BY <1>4 DEF ClientStep, ClientOf, Opens, Asks, Quits
<1>5. QED BY <1>1, <1>2, <1>3, <1>4 DEF Next

ClientLabels == Public \cup Private \cup {"gone"}
ChildLabels ==
    {"none", "tell", "release", "privW", "privR", "ack", "serve", "execute", "gone"}

\* The fork of ipc_accept.
Forks ==
    /\ parent = "read" /\ parent' = "waitsync" /\ sem' = sem
    /\ cliCount < MaxChild /\ cliCount' = cliCount + 1
    /\ child' = [child EXCEPT ![cliCount + 1] = "tell"]

\* The accepting process forks, and it moves clients that wait in an open.
LEMMA ParentEffects ==
    ASSUME TypeOK, ParentMoves
    PROVE  /\ UNCHANGED <<pubW, seen, privR, privW, path, asked, got>>
           /\ \/ UNCHANGED <<cliCount, child>>
              \/ Forks
           /\ client' \in [Client -> ClientLabels]
           /\ \A c \in Client : client'[c] = client[c] \/ {client[c], client'[c]} \subseteq Public
<1>1. client \in [Client -> ClientLabels] BY DEF TypeOK, ClientLabels, Public, Private
<1>2. CASE OpenR \/ OpenW
  BY <1>1, <1>2 DEF OpenR, OpenW, At, publicVars, childVars, privateVars, Public, ClientLabels
<1>3. CASE OpenFails \/ AcceptNull \/ WaitSync
  BY <1>1, <1>3 DEF OpenFails, AcceptNull, WaitSync, publicVars, childVars, privateVars, clientVars
<1>4. CASE AcceptError \/ ParentInterrupt
  BY <1>1, <1>4 DEF AcceptError, ParentInterrupt, ParentEnds, publicVars, childVars, privateVars,
     clientVars
<1>5. CASE Accept
  BY <1>1, <1>5 DEF Accept, Forks, ParentAt, ChildAt, publicVars, childVars, privateVars, clientVars
<1>6. QED BY <1>2, <1>3, <1>4, <1>5 DEF ParentMoves

\* A child has to do with its own FIFOs, and no client moves.
LEMMA ChildEffects ==
    ASSUME TypeOK, NEW k \in Child, ChildOf(k)
    PROVE  /\ UNCHANGED <<parent, cliCount, pubR, client, path, asked, got>>
           /\ child' \in [Child -> ChildLabels] /\ child[k] \notin {"none", "gone"}
           /\ child'[k] # "none" /\ (child'[k] = "tell" => child[k] = "tell")
           /\ \A j \in Child \ {k} : /\ child'[j] = child[j] /\ seen'[j] = seen[j]
                                     /\ privR'[j] = privR[j] /\ privW'[j] = privW[j]
           /\ pubW' = pubW \/ TellPath(k)
<1>1. /\ child \in [Child -> ChildLabels] /\ DOMAIN seen = Child /\ DOMAIN privR = Child
      /\ DOMAIN privW = Child
  BY DEF TypeOK, ChildLabels
<1>2. CASE TellPath(k) \/ Release(k) \/ Synced(k)
  BY <1>1, <1>2 DEF TellPath, Release, Synced, Drain, ChildAt, ChildLabels, serverVars, publicVars,
     privateVars, clientVars
<1>3. CASE ChildCloses(k)
  BY <1>1, <1>3 DEF ChildCloses, TellNobody, SyncError, AnswerGone, ChildInterrupt, CloseConn,
     ChildEnds, Drain, ChildAt, ChildLabels, privateVars, clientVars, Alive
<1>4. CASE ChildQuits(k)
  BY <1>1, <1>4 DEF ChildQuits, ReceiveNull, ChildExits, ChildFails,
     ChildEnds, ChildAt, ChildLabels, privateVars, clientVars
<1>5. CASE ChildServes(k)
  BY <1>1, <1>5 DEF ChildServes, Receive, Answer, AnswerTooLong, Executed, Drain, ChildAt,
     ChildLabels, serverVars, publicVars, clientVars
<1>6. QED BY <1>2, <1>3, <1>4, <1>5 DEF ChildOf

\* A client and its child meet in an open.
LEMMA MeetEffects ==
    ASSUME TypeOK, NEW k \in Child, NEW c \in Client, Meet(k, c)
    PROVE  /\ UNCHANGED <<parent, cliCount, sem, there, pubR, pubW, seen, privR, privW, path, asked,
                         got, unheard>>
           /\ path[c] = k
           /\ child' \in [Child -> ChildLabels] /\ client' \in [Client -> ClientLabels]
           /\ child[k] \in {"privW", "privR"} /\ child'[k] \in {"privR", "ack"}
           /\ client[c] \in {"privW", "privR"} /\ client'[c] \in {"privR", "ack"}
           /\ \A j \in Child \ {k} : child'[j] = child[j]
           /\ \A d \in Client \ {c} : client'[d] = client[d]
<1>1. /\ child \in [Child -> ChildLabels] /\ client \in [Client -> ClientLabels]
  BY DEF TypeOK, ChildLabels, ClientLabels, Public, Private
<1>2. /\ UNCHANGED <<parent, cliCount, sem, there, pubR, pubW, seen, privR, privW, path, asked,
                      got, unheard>>
      /\ path[c] = k
  BY DEF Meet, serverVars, publicVars, privateVars
<1>3. CASE child[k] = "privW" /\ client[c] = "privW" /\ ChildAt(k, "privR") /\ ClientAt(c, "privR")
  BY <1>1, <1>2, <1>3 DEF ChildAt, ClientAt, ChildLabels, ClientLabels, Private
<1>4. CASE child[k] = "privR" /\ client[c] = "privR" /\ ChildAt(k, "ack") /\ ClientAt(c, "ack")
  BY <1>1, <1>2, <1>4 DEF ChildAt, ClientAt, ChildLabels, ClientLabels, Private
<1>5. QED BY <1>3, <1>4 DEF Meet

\* A client has to do with the FIFOs it was told.
LEMMA ClientEffects ==
    ASSUME TypeOK, NEW c \in Client, ClientOf(c)
    PROVE  /\ UNCHANGED <<cliCount, sem, there, child, seen>>
           /\ client' \in [Client -> ClientLabels] /\ client[c] # "gone"
           /\ \A d \in Client \ {c} : /\ client'[d] = client[d] /\ path'[d] = path[d]
                                      /\ asked'[d] = asked[d] /\ got'[d] = got[d]
           /\ \A k \in Child : k # path[c] => privR'[k] = privR[k] /\ privW'[k] = privW[k]
           /\ UNCHANGED <<path, pubW>> \/ ReadPath(c)
<1>1. /\ client \in [Client -> ClientLabels] /\ DOMAIN path = Client /\ DOMAIN asked = Client
      /\ DOMAIN got = Client /\ DOMAIN privR = Child /\ DOMAIN privW = Child
  BY DEF TypeOK, ClientLabels, Public, Private
<1>2. CASE Opens(c)
  BY <1>1, <1>2 DEF Opens, Start, ClientOpenR, ClientOpenW, Connect, ClientAt, serverVars, publicVars,
     childVars, privateVars, ClientLabels, Public
<1>3. CASE ReadPath(c)
  BY <1>1, <1>3 DEF ReadPath, ClientAt, serverVars, childVars, privateVars, ClientLabels, Private
<1>4. CASE Ack(c) \/ Asks(c)
  BY <1>1, <1>4 DEF Asks, Ack, Send, SendTooLong, Write, ClientAt, serverVars, publicVars, childVars,
     privateVars, ClientLabels, Private
<1>5. CASE Take(c)
  BY <1>1, <1>5 DEF Take, ClientAt, serverVars, publicVars, childVars, ClientLabels, Private
<1>6. CASE Quits(c)
  <2>1. ClientEnds(c) BY <1>6 DEF Quits, ConnectFails, ClientOpenFails, SendExit, Leave
  <2>2. client[c] # "gone" BY <1>6 DEF Quits, ConnectFails, ClientOpenFails, SendExit, Leave, WritersR
  <2>3. \A k \in Child : k # path[c] => privR'[k] = privR[k]
    BY <1>1, <1>6 DEF Quits, ConnectFails, ClientOpenFails, SendExit, Leave
  <2>4. QED BY <1>1, <2>1, <2>2, <2>3 DEF ClientEnds, ClientAt, serverVars, childVars, ClientLabels
<1>7. QED BY <1>2, <1>3, <1>4, <1>5, <1>6 DEF ClientOf

-----------------------------------------------------------------------------
(* The semaphore.                                                          *)

\* Nobody but a waiting server may meet a semaphore that is up, and nobody
\* else a child that has not put it up yet.
LEMMA NotWaiting ==
    ASSUME Semaphore, sem # Removed, parent # "waitsync"
    PROVE  sem = 0 /\ \A k \in Child : ~Syncs(k)
BY DEF Semaphore

\* The children are counted.
LEMMA Children ==
    /\ MaxChild \in Nat /\ Removed \notin Nat /\ 0 \notin Child
    /\ \A k \in Child : k \in Nat /\ k > 0 /\ k <= MaxChild
BY FifoAssumption DEF Child, Removed

\* The semaphore is put up once for each accept.
LEMMA SemaphoreStep ==
    ASSUME TypeOK, Semaphore, [Next]_vars
    PROVE  Semaphore'
<1>0. cliCount \in Nat /\ child \in [Child -> ChildLabels] BY Children DEF TypeOK, ChildLabels
<1>. SUFFICES ASSUME sem' # Removed
             PROVE  /\ sem' \in {0, 1}
                    /\ sem' = 1 => parent' = "waitsync" /\ cliCount' > 0
                    /\ \A j \in Child : Syncs(j)' => sem' = 0 /\ parent' = "waitsync" /\ j = cliCount'
  BY DEF Semaphore
<1>1. CASE UNCHANGED <<parent, cliCount, sem>> /\ \A j \in Child : Syncs(j)' => Syncs(j)
  BY <1>1 DEF Semaphore
<1>2. CASE UNCHANGED vars BY <1>1, <1>2 DEF vars, serverVars, childVars, Syncs
<1>3. CASE parent # "waitsync" /\ UNCHANGED <<sem, child, cliCount>>
  BY <1>3, NotWaiting DEF Syncs
<1>4. CASE ParentMoves
  <2>1. CASE Accept
    <3>1. Forks BY <2>1 DEF Accept, Forks, ParentAt, ChildAt
    <3>2. sem' = 0 /\ parent' = "waitsync" /\ \A j \in Child : ~Syncs(j)
      BY <3>1, NotWaiting DEF Forks
    <3>3. \A j \in Child : Syncs(j)' => j = cliCount'
      BY <1>0, <3>1, <3>2 DEF Forks, Syncs
    <3>4. QED BY <3>2, <3>3
  <2>2. CASE WaitSync
    <3>1. UNCHANGED <<cliCount, child>> BY <2>2 DEF WaitSync, childVars
    <3>2. sem # Removed /\ sem > 0 /\ sem' = sem - 1 BY <2>2 DEF WaitSync, Removed
    <3>3. sem = 1 /\ sem' = 0 BY <3>2 DEF Semaphore
    <3>4. \A j \in Child : ~Syncs(j)' BY <3>1, <3>2, <3>3 DEF Semaphore, Syncs
    <3>5. QED BY <3>3, <3>4
  <2>3. CASE OpenR \/ OpenW \/ OpenFails \/ AcceptNull
    BY <1>3, <2>3 DEF OpenR, OpenW, OpenFails, AcceptNull, childVars
  <2>4. CASE AcceptError \/ ParentInterrupt
    BY <2>4 DEF AcceptError, ParentInterrupt, ParentEnds
  <2>5. QED BY <1>4, <2>1, <2>2, <2>3, <2>4 DEF ParentMoves
<1>5. ASSUME NEW k \in Child, ChildOf(k) PROVE Semaphore'
  <2>0. /\ UNCHANGED <<parent, cliCount>> /\ child' \in [Child -> ChildLabels]
        /\ \A j \in Child \ {k} : Syncs(j)' <=> Syncs(j)
    BY <1>5, ChildEffects DEF Syncs
  <2>1. CASE TellPath(k)
    BY <1>0, <1>1, <2>0, <2>1 DEF TellPath, serverVars, Syncs, Semaphore
  <2>2. CASE Release(k)
    <3>1. Syncs(k) /\ ~Syncs(k)' BY <1>0, <2>2 DEF Release, ChildAt, Syncs
    <3>2. sem # Removed /\ sem' = sem + 1 BY <2>2 DEF Release
    <3>3. sem = 0 /\ parent = "waitsync" /\ k = cliCount BY <3>1, <3>2 DEF Semaphore
    <3>4. \A j \in Child : ~Syncs(j)' BY <2>0, <3>1, <3>2, <3>3 DEF Semaphore
    <3>5. QED BY <2>0, <3>2, <3>3, <3>4, Children DEF Semaphore
  <2>3. CASE Synced(k) \/ ChildServes(k)
    <3>1. ~Syncs(k)' /\ sem' = sem
      BY <1>0, <2>3 DEF Synced, ChildServes, Receive, Answer, AnswerTooLong, Executed, ChildAt, Syncs,
         serverVars
    <3>2. QED BY <1>1, <2>0, <3>1 DEF Semaphore
  <2>4. CASE ChildCloses(k)
    BY <2>4 DEF ChildCloses, TellNobody, SyncError, AnswerGone, ChildInterrupt, CloseConn
  <2>5. CASE ChildQuits(k)
    <3>1. ~Syncs(k)' /\ ~Syncs(k)
      BY <1>0, <2>5 DEF ChildQuits, ReceiveNull, ChildExits, ChildFails, ChildEnds, ChildAt, Syncs
    <3>2. sem' = sem \/ (sem > 0 /\ sem' = sem - 1)
      BY <2>5 DEF ChildQuits, ReceiveNull, ChildExits, ChildFails, Undone
    <3>3. CASE sem' = sem BY <1>1, <2>0, <3>1, <3>3 DEF Semaphore
    <3>4. CASE sem > 0 /\ sem' = sem - 1
      <4>1. sem = 1 /\ sem' = 0 BY <3>4 DEF Semaphore, Removed
      <4>2. \A j \in Child : ~Syncs(j)' BY <2>0, <3>1, <4>1 DEF Semaphore, Removed
      <4>3. QED BY <4>1, <4>2 DEF Semaphore
    <3>5. QED BY <3>2, <3>3, <3>4
  <2>6. QED BY <1>5, <2>1, <2>2, <2>3, <2>4, <2>5 DEF ChildOf, Semaphore
<1>6. ASSUME NEW k \in Child, NEW c \in Client, Meet(k, c) PROVE Semaphore'
  <2>1. UNCHANGED <<parent, cliCount, sem>> /\ \A j \in Child : Syncs(j)' => Syncs(j)
    BY <1>6, MeetEffects DEF Syncs
  <2>2. QED BY <1>1, <2>1 DEF Semaphore
<1>7. ASSUME NEW c \in Client, ClientOf(c) PROVE Semaphore'
  <2>1. UNCHANGED <<cliCount, sem, child>> BY <1>7, ClientEffects
  <2>2. parent' = parent \/ parent \in {"openR", "openW"}
    BY <1>7 DEF ClientOf, Opens, Start, ClientOpenR, ClientOpenW, Connect, ReadPath, Ack, Asks, Send,
       SendTooLong, Write, Take, Quits, ConnectFails, ClientOpenFails, SendExit, Leave, ClientEnds,
       serverVars
  <2>3. QED BY <1>1, <1>3, <2>1, <2>2 DEF Syncs, Semaphore
<1>8. QED BY <1>2, <1>4, <1>5, <1>6, <1>7, NextCases DEF Semaphore

-----------------------------------------------------------------------------
(* The paths.                                                              *)

\* The first path in the public FIFO, and one more.
LEMMA PathFacts ==
    ASSUME TypeOK
    PROVE  /\ cliCount \in Nat /\ 1..cliCount \subseteq Child
           /\ \A i \in DOMAIN pubW : pubW[i] \in Child
           /\ pubW # <<>> => 1 \in DOMAIN pubW /\ Head(pubW) = pubW[1]
           /\ \A k \in Child :
                 LET n == Len(pubW) + 1
                 IN /\ DOMAIN Append(pubW, k) = DOMAIN pubW \cup {n} /\ n \notin DOMAIN pubW
                    /\ Append(pubW, k)[n] = k
                    /\ \A i \in DOMAIN pubW : Append(pubW, k)[i] = pubW[i]
<1>1. cliCount \in Nat /\ cliCount <= MaxChild BY Children DEF TypeOK
<1>2. pubW \in Seq(1..cliCount) /\ Len(pubW) \in Nat /\ DOMAIN pubW = 1..Len(pubW) BY DEF TypeOK
<1>3. 1..cliCount \subseteq Child BY <1>1, Children DEF Child
<1>4. \A i \in DOMAIN pubW : pubW[i] \in Child
  <2>1. ASSUME NEW T, pubW \in Seq(T), NEW i \in DOMAIN pubW PROVE pubW[i] \in T BY <2>1
  <2>2. QED BY <1>2, <1>3, <2>1
<1>5. pubW # <<>> => 1 \in DOMAIN pubW /\ Head(pubW) = pubW[1] BY <1>2
<1>6. pubW \in Seq(Child) BY <1>2, <1>4
<1>7. ASSUME NEW k \in Child
      PROVE  LET n == Len(pubW) + 1
             IN /\ DOMAIN Append(pubW, k) = DOMAIN pubW \cup {n} /\ n \notin DOMAIN pubW
                /\ Append(pubW, k)[n] = k
                /\ \A i \in DOMAIN pubW : Append(pubW, k)[i] = pubW[i]
  BY <1>2, <1>6
<1>8. QED BY <1>1, <1>3, <1>4, <1>5, <1>7

\* Nobody is told the path of another.
LEMMA PathsStep ==
    ASSUME TypeOK, Paths, \A c \in Client : HasPath(c), [Next]_vars
    PROVE  Paths' /\ \A c \in Client : HasPath(c)'
<1>0. /\ cliCount \in Nat /\ child \in [Child -> ChildLabels] /\ 1..cliCount \subseteq Child
      /\ \A c \in Client : path[c] # 0 => path[c] \in Child
      /\ \A i \in DOMAIN pubW : pubW[i] \in Child
  <2>1. \A c \in Client : path[c] \in 0..cliCount BY DEF TypeOK
  <2>2. QED BY <2>1, PathFacts DEF TypeOK, ChildLabels
<1>1. ASSUME cliCount' \in Nat, UNCHANGED <<pubW, path>>,
             \A k \in Child : k > cliCount' => child'[k] = "none",
             \A k \in Child : Told(k) => Told(k)'
      PROVE  Paths'
  BY <1>0, <1>1 DEF Paths
<1>2. ASSUME UNCHANGED path,
             \A c \in Client : \/ client'[c] = client[c] \/ client'[c] = "gone"
                               \/ {client[c], client'[c]} \subseteq Public
                               \/ {client[c], client'[c]} \subseteq Private
      PROVE  \A c \in Client : HasPath(c)'
  BY <1>2 DEF HasPath, Public, Private
<1>3. CASE UNCHANGED vars
  BY <1>0, <1>1, <1>2, <1>3 DEF vars, serverVars, publicVars, childVars, clientVars, Told, Paths
<1>4. CASE ParentMoves
  <2>0. /\ UNCHANGED <<pubW, path>>
        /\ \A c \in Client : client'[c] = client[c] \/ {client[c], client'[c]} \subseteq Public
    BY <1>4, ParentEffects
  <2>1. CASE UNCHANGED <<cliCount, child>>
    BY <1>0, <1>1, <1>2, <2>0, <2>1 DEF Told, Paths
  <2>2. CASE Forks
    <3>1. \A k \in Child : k > cliCount' => child'[k] = "none" BY <1>0, <2>2, Children DEF Forks, Paths
    <3>2. \A k \in Child : Told(k) => Told(k)' BY <1>0, <2>2, Children DEF Forks, Told
    <3>3. cliCount' \in Nat BY <1>0, <2>2 DEF Forks
    <3>4. QED BY <1>1, <1>2, <2>0, <3>1, <3>2, <3>3
  <2>3. QED BY <1>4, <2>1, <2>2, ParentEffects
<1>5. ASSUME NEW k \in Child, ChildOf(k) PROVE Paths' /\ \A c \in Client : HasPath(c)'
  <2>0. /\ UNCHANGED <<cliCount, client, path>> /\ child[k] # "none" /\ child'[k] # "none"
        /\ child'[k] = "tell" => child[k] = "tell"
        /\ \A j \in Child \ {k} : child'[j] = child[j]
        /\ pubW' = pubW \/ TellPath(k)
    BY <1>5, ChildEffects
  <2>1. \A j \in Child : j > cliCount' => child'[j] = "none" BY <2>0 DEF Paths
  <2>2. \A j \in Child : Told(j) => Told(j)' BY <2>0 DEF Told
  <2>3. CASE pubW' = pubW BY <1>0, <1>1, <1>2, <2>0, <2>1, <2>2, <2>3
  <2>4. CASE TellPath(k)
    <3>1. child[k] = "tell" /\ child'[k] = "release" /\ pubW' = Append(pubW, k)
      BY <1>0, <2>4 DEF TellPath, ChildAt
    <3>2. ~Told(k) /\ Told(k)' BY <1>0, <2>0, <3>1, Children DEF Told, Paths
    <3>. DEFINE n == Len(pubW) + 1
    <3>3. /\ DOMAIN pubW' = DOMAIN pubW \cup {n} /\ n \notin DOMAIN pubW /\ pubW'[n] = k
          /\ \A i \in DOMAIN pubW : pubW'[i] = pubW[i]
      BY <3>1, PathFacts
    <3>. HIDE DEF n
    <3>4. \A i \in DOMAIN pubW : Told(pubW[i]) /\ pubW[i] # k BY <3>2 DEF Paths
    <3>5. \A c \in Client : path[c] # k BY <3>2, Children DEF Paths
    <3>6. \A i \in DOMAIN pubW' : Told(pubW[i])' BY <1>0, <2>2, <3>2, <3>3, <3>4
    <3>7. \A i, j \in DOMAIN pubW' : pubW'[i] = pubW'[j] => i = j BY <3>3, <3>4 DEF Paths
    <3>8. \A c \in Client : \A i \in DOMAIN pubW' : path'[c] # pubW'[i]
      BY <2>0, <3>3, <3>5 DEF Paths
    <3>9. \A c \in Client : path'[c] # 0 => Told(path[c])' BY <1>0, <2>0, <2>2 DEF Paths
    <3>10. \A c, d \in Client : path'[c] = path'[d] /\ path'[c] # 0 => c = d BY <2>0 DEF Paths
    <3>11. Paths' BY <2>1, <3>6, <3>7, <3>8, <3>9, <3>10 DEF Paths
    <3>12. QED BY <1>2, <2>0, <3>11
  <2>5. QED BY <2>0, <2>3, <2>4
<1>6. ASSUME NEW k \in Child, NEW c \in Client, Meet(k, c) PROVE Paths' /\ \A d \in Client : HasPath(d)'
  <2>1. /\ UNCHANGED <<cliCount, pubW, path>>
        /\ child[k] \in {"privW", "privR"} /\ child'[k] \in {"privR", "ack"}
        /\ client[c] \in {"privW", "privR"} /\ client'[c] \in {"privR", "ack"}
        /\ \A j \in Child \ {k} : child'[j] = child[j]
        /\ \A d \in Client \ {c} : client'[d] = client[d]
    BY <1>6, MeetEffects
  <2>2. /\ \A j \in Child : j > cliCount' => child'[j] = "none"
        /\ \A j \in Child : Told(j) => Told(j)'
    BY <2>1 DEF Paths, Told
  <2>3. Paths' BY <1>0, <1>1, <2>1, <2>2
  <2>4. \A d \in Client : HasPath(d)' BY <1>2, <2>1 DEF Private
  <2>5. QED BY <2>3, <2>4
<1>7. ASSUME NEW c \in Client, ClientOf(c) PROVE Paths' /\ \A d \in Client : HasPath(d)'
  <2>0. /\ UNCHANGED <<cliCount, child>> /\ client \in [Client -> ClientLabels]
        /\ \A d \in Client \ {c} : client'[d] = client[d] /\ path'[d] = path[d]
        /\ UNCHANGED <<path, pubW>> \/ ReadPath(c)
    BY <1>7, ClientEffects DEF TypeOK, ClientLabels, Public, Private
  <2>1. \A k \in Child : (Told(k) => Told(k)') /\ (k > cliCount' => child'[k] = "none")
    BY <2>0 DEF Told, Paths
  <2>2. CASE ReadPath(c)
    <3>1. /\ client[c] = "path" /\ client'[c] = "privW" /\ pubW # <<>> /\ pubW' = <<>>
          /\ path' = [path EXCEPT ![c] = Head(pubW)]
      BY <2>0, <2>2 DEF ReadPath, ClientAt
    <3>2. 1 \in DOMAIN pubW /\ Head(pubW) = pubW[1] /\ pubW[1] \in Child BY <3>1, PathFacts
    <3>3. path'[c] = pubW[1] BY <3>1, <3>2 DEF TypeOK
    <3>4. Told(pubW[1]) /\ \A d \in Client : path[d] # pubW[1] BY <3>2 DEF Paths
    <3>5. \A d \in Client : path'[d] # 0 => Told(path[d])'
      BY <1>0, <2>0, <2>1, <3>2, <3>3, <3>4 DEF Paths
    <3>6. \A d, e \in Client : path'[d] = path'[e] /\ path'[d] # 0 => d = e
      BY <2>0, <3>3, <3>4 DEF Paths
    <3>7. Paths' BY <2>1, <3>1, <3>5, <3>6 DEF Paths
    <3>8. \A d \in Client \ {c} : HasPath(d)' BY <2>0 DEF HasPath
    <3>9. HasPath(c)' BY <3>1, <3>2, <3>3, Children DEF HasPath, Public
    <3>10. QED BY <3>7, <3>8, <3>9
  <2>3. CASE UNCHANGED <<path, pubW>> /\ ~ReadPath(c)
    <3>1. Paths' BY <1>0, <1>1, <2>0, <2>1, <2>3
    <3>2. \/ client'[c] = "gone" \/ {client[c], client'[c]} \subseteq Public
          \/ {client[c], client'[c]} \subseteq Private
      BY <1>7, <2>0, <2>3 DEF ClientOf, Opens, Start, ClientOpenR, ClientOpenW, Connect, Ack, Asks, Send,
         SendTooLong, Take, Quits, ConnectFails, ClientOpenFails, SendExit, Leave, ClientEnds,
         ClientAt, Public, Private
    <3>3. QED BY <1>2, <2>0, <2>3, <3>1, <3>2
  <2>4. QED BY <2>0, <2>2, <2>3
<1>8. QED BY <1>3, <1>4, <1>5, <1>6, <1>7, NextCases

-----------------------------------------------------------------------------
(* What is in the FIFOs.                                                   *)

\* Datagrams have their types.
LEMMA MessageFacts ==
    ASSUME NEW kind \in {"connect", "request", "answer", "exit"}, NEW c \in Client, NEW bit \in {0, 1}
    PROVE  /\ Message(kind, c, bit) \in Messages /\ Message(kind, c, bit).kind = kind
           /\ Message(kind, c, bit).of = c /\ Message(kind, c, bit).bit = bit
BY DEF Message, Messages

\* Nothing is nobody's.
LEMMA NothingFacts ==
    /\ Nothing.kind = "nothing" /\ Nothing.bit = 0
    /\ \A m \in Messages : m # Nothing /\ m.of \in Client /\ m.bit \in {0, 1}
<1>1. Nothing.kind = "nothing" /\ Nothing.bit = 0 BY DEF Nothing, Message
<1>2. \A m \in Messages : m.kind # "nothing" /\ m.of \in Client /\ m.bit \in {0, 1} BY DEF Messages
<1>3. QED BY <1>1, <1>2

\* A FIFO with one datagram more, and the first one of it.
LEMMA BufferFacts ==
    ASSUME NEW s \in Seq(Messages), NEW m \in Messages
    PROVE  /\ Append(s, m) \in Seq(Messages) /\ Len(Append(s, m)) = Len(s) + 1
           /\ Len(s) \in Nat
           /\ DOMAIN Append(s, m) = DOMAIN s \cup {Len(s) + 1}
           /\ Append(s, m)[Len(s) + 1] = m
           /\ \A i \in DOMAIN s : Append(s, m)[i] = s[i]
           /\ s = <<>> => Append(s, m)[1] = m /\ Len(Append(s, m)) = 1 /\ Append(s, m) # <<>>
<1>1. /\ Append(s, m) \in Seq(Messages) /\ Len(Append(s, m)) = Len(s) + 1 /\ Len(s) \in Nat
      /\ DOMAIN s = 1..Len(s) /\ DOMAIN Append(s, m) = 1..(Len(s) + 1)
      /\ Append(s, m)[Len(s) + 1] = m
      /\ \A i \in 1..Len(s) : Append(s, m)[i] = s[i]
  OBVIOUS
<1>2. DOMAIN Append(s, m) = DOMAIN s \cup {Len(s) + 1} BY <1>1
<1>3. s = <<>> => Len(s) = 0 OBVIOUS
<1>4. s = <<>> => Append(s, m)[1] = m /\ Len(Append(s, m)) = 1 /\ Append(s, m) # <<>>
  BY <1>1, <1>3
<1>5. QED BY <1>1, <1>2, <1>4

\* The first datagram of a read.
LEMMA HeadFacts ==
    ASSUME NEW s \in Seq(Messages), s # <<>>
    PROVE  1 \in DOMAIN s /\ Head(s) = s[1] /\ Head(s) \in Messages
OBVIOUS

\* An empty FIFO.
LEMMA EmptyFacts ==
    /\ <<>> \in Seq(Messages) /\ NoRequest(<<>>)
    /\ Len(<<>>) = 0 /\ Len(<<>>) <= 1 /\ Len(<<>>) <= 3
    /\ \A i \in DOMAIN <<>> : FALSE
BY DEF NoRequest

\* The FIFOs, read and written.
LEMMA FifoTypes ==
    ASSUME TypeOK, NEW k \in Child
    PROVE  /\ privR[k] \in Seq(Messages) /\ privW[k] \in Seq(Messages)
           /\ seen[k] \in Messages \cup {Nothing}
           /\ DOMAIN privR = Child /\ DOMAIN privW = Child /\ DOMAIN seen = Child
           /\ child \in [Child -> ChildLabels]
BY DEF TypeOK, ChildLabels

\* What a child does with its FIFOs: nothing; it reads the OP_CONNECT, or the
\* next datagram; or it answers.
Leaves(k) ==
    UNCHANGED <<privR, privW>> /\ child'[k] # "execute"
ReadsConnect(k) ==
    privR[k] # <<>> /\ privR'[k] = <<>> /\ privW'[k] = privW[k] /\ child'[k] # "execute"
ReadsNext(k) ==
    /\ privR[k] # <<>> /\ privR'[k] = <<>> /\ privW'[k] = privW[k]
    /\ child'[k] = "execute" /\ seen'[k] = Head(privR[k])
Writes(k) ==
    /\ ReaderOf(k) # {} /\ Working(k)
    /\ privR'[k] = privR[k]
    /\ privW'[k] = Append(privW[k], Message("answer", seen[k].of, seen[k].bit))
    /\ child'[k] # "execute"

\* There is no other way.
LEMMA ChildKinds ==
    ASSUME TypeOK, NEW k \in Child, ChildOf(k)
    PROVE  /\ Leaves(k) \/ ReadsConnect(k) \/ ReadsNext(k) \/ Writes(k)
           /\ seen' \in [Child -> Messages \cup {Nothing}]
           /\ privR' = [j \in Child |-> privR'[j]] /\ privW' = [j \in Child |-> privW'[j]]
<1>1. /\ privR \in [Child -> Seq(Messages)] /\ privW \in [Child -> Seq(Messages)]
      /\ child \in [Child -> ChildLabels]
      /\ seen \in [Child -> Messages \cup {Nothing}]
  BY FifoTypes DEF TypeOK
<1>2. CASE TellPath(k) \/ Release(k)
  BY <1>1, <1>2 DEF TellPath, Release, ChildAt, privateVars, Leaves
<1>3. CASE Synced(k)
  BY <1>1, <1>3 DEF Synced, Drain, ChildAt, ReadsConnect
<1>4. CASE SyncError(k)
  BY <1>1, <1>4 DEF SyncError, Drain, CloseConn, ChildEnds, ChildAt, ReadsConnect
<1>5. CASE TellNobody(k) \/ AnswerGone(k) \/ ChildInterrupt(k)
  BY <1>1, <1>5 DEF TellNobody, AnswerGone, ChildInterrupt, CloseConn, ChildEnds, ChildAt, privateVars,
     Leaves
<1>6. CASE ChildQuits(k)
  BY <1>1, <1>6 DEF ChildQuits, ReceiveNull, ChildExits, ChildFails, ChildEnds, ChildAt, privateVars,
     Leaves
<1>7. CASE Receive(k)
  <2>1. privR[k] # <<>> BY <1>7 DEF Receive, Drain
  <2>2. Head(privR[k]) \in Messages BY <2>1, FifoTypes, HeadFacts
  <2>3. QED BY <1>1, <1>7, <2>1, <2>2 DEF Receive, Drain, ChildAt, ReadsNext
<1>8. CASE Answer(k)
  BY <1>1, <1>8 DEF Answer, Executed, ChildAt, Writes, Working
<1>9. CASE AnswerTooLong(k)
  BY <1>1, <1>9 DEF AnswerTooLong, Executed, ChildAt, Leaves
<1>10. QED
  BY <1>2, <1>3, <1>4, <1>5, <1>6, <1>7, <1>8, <1>9 DEF ChildOf, ChildCloses, ChildServes

\* Empty FIFOs stay empty until the client writes.
LEMMA QuietChild ==
    ASSUME TypeOK, NEW k \in Child, ChildOf(k), Quiet(k)
    PROVE  Quiet(k)'
<1>1. CASE Leaves(k) BY <1>1 DEF Leaves, Quiet
<1>2. CASE ReadsConnect(k) \/ ReadsNext(k) \/ Writes(k)
  BY <1>2 DEF ReadsConnect, ReadsNext, Writes, Quiet, Working
<1>3. QED BY <1>1, <1>2, ChildKinds

\* An idle client's child finds no command.
LEMMA IdleChild ==
    ASSUME TypeOK, NEW k \in Child, ChildOf(k), NEW c \in Client, Idle(c, k)
    PROVE  Idle(c, k)'
<1>1. CASE Leaves(k) BY <1>1 DEF Leaves, Idle, Working
<1>2. CASE ReadsConnect(k) BY <1>2, EmptyFacts DEF ReadsConnect, Idle, Working
<1>3. CASE ReadsNext(k)
  <2>1. Head(privR[k]).kind # "request"
    BY <1>3, FifoTypes, HeadFacts DEF ReadsNext, Idle, NoRequest
  <2>2. QED BY <1>3, <2>1, EmptyFacts DEF ReadsNext, Idle, Working
<1>4. CASE Writes(k) BY <1>4 DEF Writes, Idle
<1>5. QED BY <1>1, <1>2, <1>3, <1>4, ChildKinds

\* The child of a waiting client reads its command or answers it.
LEMMA BusyChild ==
    ASSUME TypeOK, NEW k \in Child, ChildOf(k), NEW c \in Client, Busy(c, k)
    PROVE  Busy(c, k)'
<1>0. UNCHANGED asked BY ChildEffects
<1>1. CASE Leaves(k) BY <1>0, <1>1 DEF Leaves, Busy, Working, LastCommand
<1>2. CASE ReadsConnect(k)
  BY <1>0, <1>2, EmptyFacts DEF ReadsConnect, Busy, Working, LastCommand
<1>3. CASE ReadsNext(k)
  <2>1. 1 \in DOMAIN privR[k] /\ Head(privR[k]) = privR[k][1]
    BY <1>3, FifoTypes, HeadFacts DEF ReadsNext
  <2>2. Working(k)' => LastCommand(c, seen[k])' /\ privW'[k] = <<>>
    BY <1>0, <1>3, <2>1 DEF ReadsNext, Busy, Working, LastCommand, NoRequest
  <2>3. privW'[k] # <<>> => LastCommand(c, privW[k][1])'
    BY <1>0, <1>3 DEF ReadsNext, Busy, LastCommand
  <2>4. privR'[k] = <<>> BY <1>3 DEF ReadsNext
  <2>5. QED BY <2>2, <2>3, <2>4, EmptyFacts DEF Busy
<1>4. CASE Writes(k)
  <2>1. Working(k) /\ LastCommand(c, seen[k]) /\ NoRequest(privR[k]) /\ privW[k] = <<>>
    BY <1>4 DEF Writes, Busy
  <2>2. seen[k] \in Messages BY <2>1, FifoTypes, NothingFacts DEF Working
  <2>3. seen[k].of \in Client /\ seen[k].bit \in {0, 1} BY <2>2, NothingFacts
  <2>4. LastCommand(c, Message("answer", seen[k].of, seen[k].bit))
    BY <2>1, <2>3, MessageFacts DEF LastCommand
  <2>5. privW'[k][1] = Message("answer", seen[k].of, seen[k].bit)
    BY <1>4, <2>1, <2>3, FifoTypes, MessageFacts, BufferFacts DEF Writes
  <2>6. LastCommand(c, privW[k][1])' BY <1>0, <2>4, <2>5 DEF LastCommand
  <2>7. ~Working(k)' /\ privR'[k] = privR[k] BY <1>4 DEF Writes, Working
  <2>8. QED BY <1>0, <2>1, <2>6, <2>7 DEF Busy, LastCommand
<1>5. QED BY <1>1, <1>2, <1>3, <1>4, ChildKinds

\* Steps that leave the FIFOs of a client as they are.
LEMMA LineFrame ==
    ASSUME NEW c \in Client, Line(c), path'[c] = path[c], asked'[c] = asked[c],
           \/ client'[c] = client[c]
           \/ client'[c] \notin Private
           \/ {client[c], client'[c]} \subseteq {"privW", "privR", "ack"},
           client'[c] \in Private => /\ privR'[path[c]] = privR[path[c]]
                                     /\ privW'[path[c]] = privW[path[c]]
                                     /\ seen'[path[c]] = seen[path[c]]
                                     /\ child'[path[c]] = "execute" => child[path[c]] = "execute"
    PROVE  Line(c)'
<1>1. CASE client'[c] \notin Private BY <1>1 DEF Line, Private
<1>2. CASE client'[c] \in Private /\ client[c] \in Private
  <2>1. /\ Quiet(path[c]) => Quiet(path[c])'
        /\ Idle(c, path[c]) => Idle(c, path[c])'
        /\ Busy(c, path[c]) => Busy(c, path[c])'
    BY <1>2 DEF Quiet, Idle, Busy, Working, LastCommand
  <2>2. \/ client'[c] = client[c]
        \/ client[c] \in {"privW", "privR", "ack"} /\ client'[c] \in {"privW", "privR", "ack"}
    BY <1>2
  <2>3. QED BY <2>1, <2>2 DEF Line
<1>3. QED BY <1>1, <1>2 DEF Private

\* A client at its private FIFOs has a child of its own.
LEMMA PrivatePath ==
    ASSUME TypeOK, Paths, \A c \in Client : HasPath(c), NEW c \in Client, client[c] \in Private
    PROVE  path[c] \in Child /\ \A d \in Client \ {c} : path[d] # path[c]
<1>1. path[c] # 0 /\ path[c] \in 0..cliCount BY DEF HasPath, TypeOK
<1>2. cliCount \in Nat /\ 1..cliCount \subseteq Child BY PathFacts
<1>3. path[c] \in Child BY <1>1, <1>2
<1>4. QED BY <1>1, <1>3 DEF Paths

\* The connect of a client that has its path, and its commands and exit.
LEMMA WriteLine ==
    ASSUME IInv, NEW c \in Client, Ack(c) \/ Send(c) \/ SendTooLong(c) \/ Take(c)
    PROVE  Line(c)'
<1>1. /\ TypeOK /\ Paths /\ Line(c) /\ client[c] \in Private /\ \A d \in Client : HasPath(d)
  BY DEF IInv, Ack, Send, SendTooLong, Take, Private
<1>. DEFINE k == path[c]
<1>2. k \in Child BY <1>1, PrivatePath
<1>. HIDE DEF k
<1>3. /\ privR[k] \in Seq(Messages) /\ privW[k] \in Seq(Messages) /\ DOMAIN privR = Child
      /\ DOMAIN privW = Child
  BY <1>1, <1>2, FifoTypes
<1>4. /\ DOMAIN client = Client /\ DOMAIN asked = Client /\ asked[c] \in {0, 1} /\ 1 - asked[c] \in {0, 1}
  BY <1>1 DEF TypeOK
<1>5. UNCHANGED <<path, child, seen>> /\ path'[c] = k
  BY DEF Ack, Send, SendTooLong, Take, Write, childVars, k
<1>6. CASE Ack(c)
  <2>1. client'[c] = "ready" /\ privW' = privW /\ Quiet(k)
    BY <1>1, <1>4, <1>6 DEF Ack, Write, ClientAt, Line, k
  <2>. DEFINE m == Message("connect", c, 0)
  <2>2. m \in Messages /\ m.kind = "connect" BY MessageFacts
  <2>3. privR'[k] = Append(privR[k], m) BY <1>2, <1>3, <1>6 DEF Ack, Write, k
  <2>. HIDE DEF m
  <2>4. /\ Len(privR'[k]) = 1 /\ DOMAIN privR'[k] = {1} /\ privR'[k][1] = m
    <3>1. privR[k] = <<>> /\ Len(<<>>) = 0 /\ DOMAIN privR[k] = {} BY <2>1 DEF Quiet
    <3>2. /\ Append(privR[k], m)[1] = m /\ Len(Append(privR[k], m)) = 1
          /\ DOMAIN Append(privR[k], m) = DOMAIN privR[k] \cup {Len(privR[k]) + 1}
      BY <1>3, <2>2, <3>1, BufferFacts
    <3>3. QED BY <2>3, <3>1, <3>2
  <2>5. NoRequest(privR'[k]) BY <2>2, <2>4 DEF NoRequest
  <2>6. privW'[k] = <<>> /\ ~Working(k)' BY <1>5, <2>1 DEF Quiet, Working, k
  <2>7. Len(privR'[k]) <= 1 BY <2>4
  <2>8. Idle(c, path[c])' BY <1>5, <2>5, <2>6, <2>7 DEF Idle, Working, k
  <2>9. QED BY <2>1, <2>8 DEF Line
<1>7. CASE Send(c)
  <2>1. /\ client'[c] = "wait" /\ privW' = privW /\ Idle(c, k) /\ asked'[c] \in {0, 1}
    BY <1>1, <1>4, <1>7 DEF Send, Write, ClientAt, Line, k
  <2>. DEFINE m == Message("request", c, asked'[c])
               n == Len(privR[k]) + 1
  <2>2. m \in Messages /\ m.kind = "request" /\ m.of = c /\ m.bit = asked'[c] BY <2>1, MessageFacts
  <2>3. privR'[k] = Append(privR[k], m) BY <1>2, <1>3, <1>7 DEF Send, Write, k
  <2>. HIDE DEF m
  <2>4. /\ Len(privR'[k]) = n /\ n <= 2 /\ DOMAIN privR'[k] = DOMAIN privR[k] \cup {n}
        /\ privR'[k][n] = m /\ \A i \in DOMAIN privR[k] : privR'[k][i] = privR[k][i]
    BY <1>3, <2>1, <2>2, <2>3, BufferFacts DEF Idle
  <2>. HIDE DEF n
  <2>5. ~NoRequest(privR'[k]) BY <2>2, <2>4 DEF NoRequest
  <2>6. \A i \in DOMAIN privR'[k] : privR'[k][i].kind = "request" => LastCommand(c, privR[k][i])'
    BY <1>5, <2>1, <2>2, <2>4 DEF NoRequest, Idle, LastCommand, k
  <2>7. privW'[k] = <<>> /\ ~Working(k)' BY <1>5, <2>1 DEF Idle, Working, k
  <2>8. Len(privR'[k]) <= 2 BY <2>4
  <2>9. Busy(c, path[c])' BY <1>5, <2>5, <2>6, <2>7, <2>8 DEF Busy, Working, k
  <2>10. QED BY <2>1, <2>9 DEF Line
<1>8. CASE SendTooLong(c)
  <2>1. /\ client'[c] = "wait" /\ UNCHANGED <<privR, privW>> /\ Idle(c, k)
    BY <1>1, <1>4, <1>8 DEF SendTooLong, ClientAt, Line, privateVars, k
  <2>2. Len(privR[k]) <= 1 /\ NoRequest(privR[k]) /\ privW[k] = <<>> /\ ~Working(k)
    BY <2>1 DEF Idle
  <2>3. Len(privR[k]) <= 2 BY <1>3, <2>2
  <2>4. ~Working(k)' BY <1>5, <2>2 DEF Working, k
  <2>5. Busy(c, path[c])' BY <1>5, <2>1, <2>2, <2>3, <2>4 DEF Busy, NoRequest, Working, k
  <2>6. QED BY <2>1, <2>5 DEF Line
<1>9. CASE Take(c)
  <2>1. /\ client'[c] = "ready" /\ privR' = privR /\ Busy(c, k) /\ privW[k] # <<>> /\ privW'[k] = <<>>
    BY <1>1, <1>2, <1>3, <1>4, <1>9 DEF Take, ClientAt, Line, k
  <2>2. NoRequest(privR[k]) /\ Len(privR[k]) <= 1 /\ ~Working(k) BY <2>1 DEF Busy
  <2>3. ~Working(k)' BY <1>5, <2>2 DEF Working, k
  <2>4. Idle(c, path[c])' BY <1>5, <2>1, <2>2, <2>3 DEF Idle, Working, k
  <2>5. QED BY <2>1, <2>4 DEF Line
<1>10. QED BY <1>6, <1>7, <1>8, <1>9

\* The FIFOs of a client hold what they should after every step.
LEMMA LineStep ==
    ASSUME IInv, [Next]_vars
    PROVE  (\A k \in Child : Untold(k)') /\ (\A c \in Client : Line(c)')
<1>0. /\ TypeOK /\ Semaphore /\ Paths /\ (\A k \in Child : Untold(k))
      /\ \A c \in Client : HasPath(c) /\ Line(c)
  BY DEF IInv
<1>1. \A c \in Client : client[c] \in Private => path[c] \in Child BY <1>0, PrivatePath
<1>2. ASSUME UNCHANGED <<path, asked, seen, privR, privW>>,
             \A k \in Child : child'[k] = "execute" => child[k] = "execute",
             \A c \in Client : \/ client'[c] = client[c] \/ client'[c] \notin Private
                               \/ {client[c], client'[c]} \subseteq {"privW", "privR", "ack"}
      PROVE  (\A k \in Child : Untold(k)') /\ (\A c \in Client : Line(c)')
  <2>1. \A k \in Child : Untold(k)' BY <1>0, <1>2 DEF Untold, Quiet
  <2>2. ASSUME NEW c \in Client PROVE Line(c)'
    <3>1. client'[c] \in Private => path[c] \in Child BY <1>1, <1>2 DEF Private
    <3>2. QED BY <1>0, <1>2, <3>1, LineFrame
  <2>3. QED BY <2>1, <2>2
<1>3. CASE UNCHANGED vars
  BY <1>2, <1>3 DEF vars, childVars, privateVars, clientVars
<1>4. CASE ParentMoves
  <2>1. /\ UNCHANGED <<path, asked, seen, privR, privW>>
        /\ \A c \in Client : client'[c] = client[c] \/ client'[c] \notin Private
    BY <1>0, <1>4, ParentEffects DEF Public, Private
  <2>2. \A k \in Child : child'[k] = "execute" => child[k] = "execute"
    BY <1>0, <1>4, ParentEffects DEF Forks, TypeOK
  <2>3. QED BY <1>2, <2>1, <2>2
<1>5. ASSUME NEW k \in Child, NEW c \in Client, Meet(k, c)
      PROVE  (\A j \in Child : Untold(j)') /\ (\A d \in Client : Line(d)')
  <2>1. /\ UNCHANGED <<path, asked, seen, privR, privW>>
        /\ client[c] \in {"privW", "privR"} /\ client'[c] \in {"privR", "ack"}
        /\ child'[k] \in {"privR", "ack"}
        /\ \A j \in Child \ {k} : child'[j] = child[j]
        /\ \A d \in Client \ {c} : client'[d] = client[d]
    BY <1>0, <1>5, MeetEffects
  <2>2. \A d \in Client : \/ client'[d] = client[d]
                          \/ {client[d], client'[d]} \subseteq {"privW", "privR", "ack"}
    BY <2>1
  <2>3. \A j \in Child : child'[j] = "execute" => child[j] = "execute" BY <2>1
  <2>4. QED BY <1>2, <2>1, <2>2, <2>3
<1>6. ASSUME NEW k \in Child, ChildOf(k)
      PROVE  (\A j \in Child : Untold(j)') /\ (\A d \in Client : Line(d)')
  <2>1. /\ UNCHANGED <<client, path, asked>>
        /\ \A j \in Child \ {k} : /\ child'[j] = child[j] /\ seen'[j] = seen[j]
                                  /\ privR'[j] = privR[j] /\ privW'[j] = privW[j]
    BY <1>0, <1>6, ChildEffects
  <2>2. \A j \in Child \ {k} : Untold(j)' BY <1>0, <2>1 DEF Untold, Quiet
  <2>3. Untold(k)' BY <1>0, <1>6, <2>1, QuietChild DEF Untold
  <2>4. ASSUME NEW c \in Client, client[c] \in Private, path[c] = k PROVE Line(c)'
    <3>1. /\ Quiet(k) => Quiet(k)'
          /\ Idle(c, k) => Idle(c, k)'
          /\ Busy(c, k) => Busy(c, k)'
      BY <1>0, <1>6, QuietChild, IdleChild, BusyChild
    <3>2. client'[c] = client[c] /\ path'[c] = k BY <2>1, <2>4
    <3>3. /\ Quiet(path[c])' <=> Quiet(k)'
          /\ Idle(c, path[c])' <=> Idle(c, k)'
          /\ Busy(c, path[c])' <=> Busy(c, k)'
      BY <3>2 DEF Quiet, Idle, Busy, Working
    <3>4. QED BY <1>0, <2>4, <3>1, <3>2, <3>3 DEF Line
  <2>5. ASSUME NEW c \in Client, ~(client[c] \in Private /\ path[c] = k) PROVE Line(c)'
    BY <1>0, <1>1, <2>1, <2>5, LineFrame
  <2>6. QED BY <2>2, <2>3, <2>4, <2>5
<1>7. ASSUME NEW c \in Client, ClientOf(c)
      PROVE  (\A j \in Child : Untold(j)') /\ (\A d \in Client : Line(d)')
  <2>1. /\ UNCHANGED <<child, seen>>
        /\ \A d \in Client \ {c} : client'[d] = client[d] /\ path'[d] = path[d] /\ asked'[d] = asked[d]
        /\ \A k \in Child : k # path[c] => privR'[k] = privR[k] /\ privW'[k] = privW[k]
        /\ UNCHANGED path \/ ReadPath(c)
    BY <1>0, <1>7, ClientEffects
  <2>2. ReadPath(c) => client[c] = "path" /\ path[c] = 0
    BY <1>0 DEF ReadPath, HasPath, Public
  <2>3. ASSUME NEW k \in Child, \A d \in Client : path'[d] # k PROVE Quiet(k)'
    <3>1. \A d \in Client : path[d] # k BY <2>1, <2>2, <2>3, Children
    <3>2. Quiet(k) BY <1>0, <3>1 DEF Untold
    <3>3. QED BY <2>1, <3>1, <3>2 DEF Quiet
  <2>4. \A k \in Child : Untold(k)' BY <2>3 DEF Untold
  <2>5. ASSUME NEW d \in Client \ {c} PROVE Line(d)'
    <3>1. client[d] \in Private => path[d] \in Child /\ path[c] # path[d] BY <1>0, PrivatePath
    <3>2. QED BY <1>0, <2>1, <3>1, LineFrame
  <2>6. Line(c)'
    <3>1. CASE Ack(c) \/ Asks(c) \/ Take(c) BY <3>1, WriteLine DEF Asks
    <3>2. CASE ReadPath(c)
      <4>1. /\ client'[c] = "privW" /\ pubW # <<>> /\ UNCHANGED <<privR, privW>>
            /\ path'[c] = Head(pubW)
        BY <1>0, <3>2 DEF ReadPath, ClientAt, privateVars, TypeOK
      <4>2. path'[c] \in Child /\ \A d \in Client : path[d] # path'[c]
        <5>1. 1 \in DOMAIN pubW /\ Head(pubW) = pubW[1] /\ pubW[1] \in Child BY <1>0, <4>1, PathFacts
        <5>2. QED BY <1>0, <4>1, <5>1 DEF Paths
      <4>3. ASSUME NEW k, k = path'[c] PROVE Quiet(k)
        BY <1>0, <4>2, <4>3 DEF Untold
      <4>4. Quiet(path[c])' BY <2>1, <4>1, <4>3 DEF Quiet
      <4>5. QED BY <4>1, <4>4 DEF Line
    <3>3. CASE Opens(c) \/ Quits(c)
      <4>1. client'[c] \notin Private
        BY <1>0, <3>3 DEF Opens, Start, ClientOpenR, ClientOpenW, Connect, Quits, ConnectFails,
           ClientOpenFails, SendExit,
           Leave, ClientEnds, ClientAt, TypeOK, Private
      <4>2. QED BY <4>1 DEF Line, Private
    <3>4. QED BY <1>7, <3>1, <3>2, <3>3 DEF ClientOf
  <2>7. QED BY <2>4, <2>5, <2>6
<1>8. QED BY <1>3, <1>4, <1>5, <1>6, <1>7, NextCases

-----------------------------------------------------------------------------
(* The types.                                                              *)

\* A sequence of smaller numbers is one of small numbers.
LEMMA LargerCount ==
    ASSUME TypeOK, cliCount' \in 0..MaxChild, cliCount' >= cliCount
    PROVE  pubW \in Seq(1..cliCount') /\ path \in [Client -> 0..cliCount']
<1>1. cliCount \in Nat /\ cliCount' \in Nat BY Children DEF TypeOK
<1>2. 1..cliCount \subseteq 1..cliCount' /\ 0..cliCount \subseteq 0..cliCount' BY <1>1
<1>3. ASSUME NEW A, NEW B, A \subseteq B, pubW \in Seq(A) PROVE pubW \in Seq(B) BY <1>3
<1>4. QED BY <1>2, <1>3 DEF TypeOK

\* A read takes the senders of what is lost from those who are there.
LEMMA MergedTypes ==
    ASSUME NEW buf
    PROVE  Merged(buf) \subseteq Client
BY DEF Merged

\* Everything keeps its type, and the private FIFOs their limits.
LEMMA TypesStep ==
    ASSUME IInv, Semaphore', [Next]_vars
    PROVE  TypeOK'
<1>0. /\ TypeOK /\ Semaphore /\ Paths
      /\ \A c \in Client : HasPath(c) /\ Line(c)
  BY DEF IInv
<1>1. ASSUME cliCount' \in 0..MaxChild PROVE sem' \in {Removed} \cup 0..MaxChild
  BY <1>1, Children DEF Semaphore
<1>2. CASE UNCHANGED vars
  BY <1>0, <1>2 DEF vars, serverVars, publicVars, childVars, privateVars, clientVars, TypeOK
<1>3. CASE ParentMoves
  <2>1. /\ UNCHANGED <<pubW, seen, privR, privW, path, asked, got>>
        /\ client' \in [Client -> ClientLabels]
        /\ UNCHANGED <<cliCount, child>> \/ Forks
    BY <1>0, <1>3, ParentEffects
  <2>2. cliCount' \in 0..MaxChild /\ cliCount' >= cliCount
    BY <1>0, <2>1, Children DEF Forks, TypeOK
  <2>3. child' \in [Child -> ChildLabels] BY <1>0, <2>1 DEF Forks, TypeOK, ChildLabels
  <2>4. parent' \in {"openR", "openW", "read", "waitsync", "stuck", "gone"}
    BY <1>3 DEF ParentMoves, OpenR, OpenW, OpenFails, Accept, AcceptError, AcceptNull, ParentInterrupt,
       ParentEnds, WaitSync, ParentAt
  <2>5. there' \subseteq {"r", "w"} /\ pubR' \in Seq(Messages)
    BY <1>0, <1>3, EmptyFacts DEF ParentMoves, OpenR, OpenW, OpenFails, Accept, AcceptError, AcceptNull,
       ParentInterrupt, ParentEnds, WaitSync, publicVars, TypeOK
  <2>6. unheard' \subseteq Client
    BY <1>0, <1>3, MergedTypes DEF ParentMoves, OpenR, OpenW, OpenFails, Accept, AcceptError,
       AcceptNull, ParentInterrupt, ParentEnds, WaitSync, Lose, TypeOK
  <2>7. pubW' \in Seq(1..cliCount') /\ path' \in [Client -> 0..cliCount']
    BY <1>0, <2>1, <2>2, LargerCount
  <2>8. QED
    BY <1>0, <1>1, <2>1, <2>2, <2>3, <2>4, <2>5, <2>6, <2>7 DEF TypeOK, ChildLabels, ClientLabels, Public,
       Private
<1>4. ASSUME NEW k \in Child, ChildOf(k) PROVE TypeOK'
  <2>1. /\ UNCHANGED <<parent, cliCount, pubR, client, path, asked, got>>
        /\ child' \in [Child -> ChildLabels] /\ child[k] # "none"
        /\ \A j \in Child \ {k} : privR'[j] = privR[j] /\ privW'[j] = privW[j]
        /\ pubW' = pubW \/ TellPath(k)
    BY <1>0, <1>4, ChildEffects
  <2>2. /\ seen' \in [Child -> Messages \cup {Nothing}]
        /\ privR' = [j \in Child |-> privR'[j]] /\ privW' = [j \in Child |-> privW'[j]]
        /\ Leaves(k) \/ ReadsConnect(k) \/ ReadsNext(k) \/ Writes(k)
    BY <1>0, <1>4, ChildKinds
  <2>3. \A j \in Child : /\ privR[j] \in Seq(Messages) /\ Len(privR[j]) <= 3
                         /\ privW[j] \in Seq(Messages) /\ Len(privW[j]) <= 1
    BY <1>0 DEF TypeOK
  <2>4. privR'[k] \in Seq(Messages) /\ Len(privR'[k]) <= 3
    <3>1. privR'[k] = privR[k] \/ privR'[k] = <<>>
      BY <2>2 DEF Leaves, ReadsConnect, ReadsNext, Writes
    <3>2. QED BY <2>3, <3>1, EmptyFacts
  <2>5. privW'[k] \in Seq(Messages) /\ Len(privW'[k]) <= 1
    <3>1. CASE ~Writes(k) BY <2>2, <2>3, <3>1 DEF Leaves, ReadsConnect, ReadsNext
    <3>2. CASE Writes(k)
      <4>1. PICK c \in Client : path[c] = k /\ client[c] \in {"privR", "ack", "ready", "wait"}
        BY <3>2 DEF Writes, ReaderOf
      <4>2. Working(k) BY <3>2 DEF Writes
      <4>3. client[c] = "wait" BY <1>0, <4>1, <4>2 DEF Line, Quiet, Idle, Working
      <4>4. privW[k] = <<>> BY <1>0, <4>1, <4>2, <4>3 DEF Line, Busy
      <4>5. seen[k] \in Messages BY <1>0, <4>2, FifoTypes, NothingFacts DEF Working
      <4>6. Message("answer", seen[k].of, seen[k].bit) \in Messages
        BY <4>5, NothingFacts, MessageFacts
      <4>7. QED BY <2>3, <3>2, <4>4, <4>6, BufferFacts DEF Writes
    <3>3. QED BY <3>1, <3>2
  <2>6. /\ privR' \in [Child -> Seq(Messages)] /\ \A j \in Child : Len(privR'[j]) <= 3
        /\ privW' \in [Child -> Seq(Messages)] /\ \A j \in Child : Len(privW'[j]) <= 1
    <3>1. \A j \in Child : /\ privR'[j] \in Seq(Messages) /\ Len(privR'[j]) <= 3
                           /\ privW'[j] \in Seq(Messages) /\ Len(privW'[j]) <= 1
      BY <2>1, <2>3, <2>4, <2>5
    <3>2. QED BY <2>2, <3>1
  <2>7. pubW' \in Seq(1..cliCount)
    <3>1. k \in 1..cliCount
      <4>1. ~(k > cliCount) BY <1>0, <2>1 DEF Paths
      <4>2. QED BY <1>0, <4>1, Children, PathFacts
    <3>2. pubW \in Seq(1..cliCount) BY <1>0 DEF TypeOK
    <3>3. ASSUME NEW A, pubW \in Seq(A), k \in A PROVE Append(pubW, k) \in Seq(A) BY <3>3
    <3>4. QED BY <2>1, <3>1, <3>2, <3>3 DEF TellPath
  <2>8. there' \subseteq {"r", "w"}
    BY <1>0, <1>4 DEF ChildOf, TellPath, Release, Synced, ChildCloses, TellNobody, SyncError, AnswerGone,
       ChildInterrupt, CloseConn, ChildQuits, ReceiveNull, ChildExits, ChildFails, ChildServes, Receive,
       Answer, AnswerTooLong, Executed, publicVars, TypeOK
  <2>9. unheard' \subseteq Client
    BY <1>0, <1>4, MergedTypes DEF ChildOf, TellPath, Release, Synced, ChildCloses, TellNobody, SyncError,
       AnswerGone, ChildInterrupt, ChildQuits, ReceiveNull, ChildExits, ChildFails, ChildServes, Receive,
       Answer, AnswerTooLong, Executed, Drain, Lose, ReaderOf, TypeOK
  <2>10. QED BY <1>0, <1>1, <2>1, <2>2, <2>6, <2>7, <2>8, <2>9 DEF TypeOK, ChildLabels
<1>5. ASSUME NEW k \in Child, NEW c \in Client, Meet(k, c) PROVE TypeOK'
  <2>1. /\ UNCHANGED <<parent, cliCount, sem, there, pubR, pubW, seen, privR, privW, path, asked,
                       got, unheard>>
        /\ child' \in [Child -> ChildLabels] /\ client' \in [Client -> ClientLabels]
    BY <1>0, <1>5, MeetEffects
  <2>2. QED BY <1>0, <2>1 DEF TypeOK, ChildLabels, ClientLabels, Public, Private
<1>6. ASSUME NEW c \in Client, ClientOf(c) PROVE TypeOK'
  <2>1. /\ UNCHANGED <<cliCount, sem, there, child, seen>>
        /\ client' \in [Client -> ClientLabels]
    BY <1>0, <1>6, ClientEffects
  <2>2. parent' \in {"openR", "openW", "read", "waitsync", "stuck", "gone"}
    BY <1>0, <1>6 DEF ClientOf, Opens, Start, ClientOpenR, ClientOpenW, Connect, ReadPath, Ack, Asks, Send,
       SendTooLong, Write, Take, Quits, ConnectFails, ClientOpenFails, SendExit, Leave, ClientEnds,
       serverVars, TypeOK
  <2>3. /\ Message("connect", c, 0) \in Messages /\ Message("exit", c, 0) \in Messages
        /\ Message("request", c, 1 - asked[c]) \in Messages /\ 1 - asked[c] \in {0, 1}
    <3>1. asked[c] \in {0, 1} BY <1>0 DEF TypeOK
    <3>2. 1 - asked[c] \in {0, 1} BY <3>1
    <3>3. QED BY <3>2, MessageFacts
  <2>4. pubR' \in Seq(Messages)
    <3>1. pubR \in Seq(Messages) BY <1>0 DEF TypeOK
    <3>2. pubR' \in {pubR, Append(pubR, Message("connect", c, 0)), Append(pubR, Message("exit", c, 0))}
      BY <1>6 DEF ClientOf, Opens, Start, ClientOpenR, ClientOpenW, Connect, ReadPath, Ack, Asks, Send,
         SendTooLong, Write, Take, Quits, ConnectFails, ClientOpenFails, SendExit, Leave, publicVars
    <3>3. QED BY <2>3, <3>1, <3>2, BufferFacts
  <2>5. /\ privR' \in [Child -> Seq(Messages)] /\ \A j \in Child : Len(privR'[j]) <= 3
    <3>1. privR \in [Child -> Seq(Messages)] /\ \A j \in Child : Len(privR[j]) <= 3 BY <1>0 DEF TypeOK
    <3>2. ASSUME NEW m \in Messages, client[c] \in {"ack", "ready", "wait"},
                 privR' = [privR EXCEPT ![path[c]] = Append(@, m)]
          PROVE  privR' \in [Child -> Seq(Messages)] /\ \A j \in Child : Len(privR'[j]) <= 3
      <4>1. path[c] \in Child BY <1>0, <3>2, PrivatePath DEF Private
      <4>2. privR[path[c]] \in Seq(Messages) /\ Len(privR[path[c]]) \in Nat BY <3>1, <4>1
      <4>3. Len(privR[path[c]]) <= 2 BY <1>0, <3>2, <4>2 DEF Line, Quiet, Idle, Busy
      <4>4. Append(privR[path[c]], m) \in Seq(Messages) /\ Len(Append(privR[path[c]], m)) <= 3
        BY <3>2, <4>2, <4>3, BufferFacts
      <4>5. QED BY <3>1, <3>2, <4>1, <4>4
    <3>3. CASE UNCHANGED privR BY <3>1, <3>3
    <3>4. CASE Ack(c) BY <2>3, <3>2, <3>4 DEF Ack, Write
    <3>5. CASE Send(c)
      <4>1. asked'[c] = 1 - asked[c] BY <1>0, <3>5 DEF Send, TypeOK
      <4>2. QED BY <2>3, <3>2, <3>5, <4>1 DEF Send, Write
    <3>6. CASE SendExit(c) BY <2>3, <3>2, <3>3, <3>6 DEF SendExit
    <3>7. CASE ~(Ack(c) \/ Send(c) \/ SendExit(c))
      BY <1>6, <3>3, <3>7 DEF ClientOf, Opens, Start, ClientOpenR, ClientOpenW, Connect, ReadPath, Asks,
         SendTooLong, Take, Quits, ConnectFails, ClientOpenFails, Leave, privateVars
    <3>8. QED BY <3>4, <3>5, <3>6, <3>7
  <2>6. /\ privW' \in [Child -> Seq(Messages)] /\ \A j \in Child : Len(privW'[j]) <= 1
    <3>1. privW \in [Child -> Seq(Messages)] /\ \A j \in Child : Len(privW[j]) <= 1 BY <1>0 DEF TypeOK
    <3>2. CASE Take(c)
      <4>1. privW' = [privW EXCEPT ![path[c]] = <<>>] BY <3>2 DEF Take
      <4>2. QED BY <3>1, <4>1, EmptyFacts
    <3>3. CASE ~Take(c)
      <4>1. UNCHANGED privW
        BY <1>6, <3>3 DEF ClientOf, Opens, Start, ClientOpenR, ClientOpenW, Connect, ReadPath, Ack, Asks,
           Send, SendTooLong, Write, Quits, ConnectFails, ClientOpenFails, SendExit, Leave,
           ClientEnds, privateVars
      <4>2. QED BY <3>1, <4>1
    <3>4. QED BY <3>2, <3>3
  <2>7. pubW' \in Seq(1..cliCount) /\ path' \in [Client -> 0..cliCount]
    <3>1. pubW \in Seq(1..cliCount) /\ path \in [Client -> 0..cliCount] /\ <<>> \in Seq(1..cliCount)
      BY <1>0 DEF TypeOK
    <3>2. CASE UNCHANGED <<path, pubW>> BY <3>1, <3>2
    <3>3. CASE ReadPath(c)
      <4>1. pubW # <<>> /\ pubW' = <<>> /\ path' = [path EXCEPT ![c] = Head(pubW)]
        BY <3>3 DEF ReadPath
      <4>2. ASSUME NEW A, pubW \in Seq(A) PROVE Head(pubW) \in A BY <4>1, <4>2
      <4>3. Head(pubW) \in 1..cliCount BY <3>1, <4>2
      <4>4. Head(pubW) \in 0..cliCount BY <1>0, <4>3, PathFacts
      <4>5. QED BY <3>1, <4>1, <4>4
    <3>4. QED BY <1>0, <1>6, <3>2, <3>3, ClientEffects
  <2>8. asked' \in [Client -> {0, 1}]
    BY <1>0, <1>6, <2>3 DEF ClientOf, Opens, Start, ClientOpenR, ClientOpenW, Connect, ReadPath, Ack, Asks,
       Send, SendTooLong, Take, Quits, ConnectFails, ClientOpenFails, SendExit, Leave, ClientEnds, TypeOK
  <2>9. got' \in [Client -> Messages \cup {Nothing}]
    <3>1. CASE Take(c)
      <4>1. path[c] \in Child BY <1>0, <3>1, PrivatePath DEF Take, Private
      <4>2. Head(privW[path[c]]) \in Messages BY <1>0, <3>1, <4>1, FifoTypes, HeadFacts DEF Take
      <4>3. QED BY <1>0, <3>1, <4>2 DEF Take, TypeOK
    <3>2. CASE ~Take(c)
      BY <1>0, <1>6, <3>2 DEF ClientOf, Opens, Start, ClientOpenR, ClientOpenW, Connect, ReadPath, Ack, Asks,
         Send, SendTooLong, Write, Quits, ConnectFails, ClientOpenFails, SendExit, Leave, ClientEnds, TypeOK
    <3>3. QED BY <3>1, <3>2
  <2>10. unheard' \subseteq Client
    BY <1>0, <1>6 DEF ClientOf, Opens, Start, ClientOpenR, ClientOpenW, Connect, ReadPath, Ack, Asks, Send,
       SendTooLong, Write, Take, Quits, ConnectFails, ClientOpenFails, SendExit, Leave, ClientEnds,
       Lose, TypeOK
  <2>11. QED
    BY <1>0, <2>1, <2>2, <2>4, <2>5, <2>6, <2>7, <2>8, <2>9, <2>10
       DEF TypeOK, ClientLabels, Public, Private
<1>7. QED BY <1>2, <1>3, <1>4, <1>5, <1>6, NextCases

\* The inductive invariant is one.
LEMMA NextIInv ==
    ASSUME IInv, [Next]_vars
    PROVE  IInv'
<1>1. /\ TypeOK /\ Semaphore /\ Paths /\ \A c \in Client : HasPath(c) BY DEF IInv
<1>2. Semaphore' BY <1>1, SemaphoreStep
<1>3. Paths' /\ \A c \in Client : HasPath(c)' BY <1>1, PathsStep
<1>4. TypeOK' BY <1>2, TypesStep
<1>5. QED BY <1>2, <1>3, <1>4, LineStep DEF IInv

-----------------------------------------------------------------------------
(* Every step is a step of the service, or none.                           *)

\* A client that notices nothing, and one that ends.
Keeps(d) == Phase(d)' = Phase(d) /\ asked'[d] = asked[d] /\ Heard(d)' = Heard(d)
Drops(d) == Phase(d) # "left" /\ Phase(d)' = "left"

\* If there are only such clients, the service may lose the ones and keep the
\* others.
LEMMA LossStep ==
    ASSUME \A d \in Client : Keeps(d) \/ Drops(d)
    PROVE  S!Loss
BY DEF S!Loss, Keeps, Drops

\* A client is out of the service until it has its own FIFOs.
LEMMA OutStays ==
    ASSUME NEW d \in Client, asked'[d] = asked[d], got'[d] = got[d],
           \/ client'[d] = client[d]
           \/ {client[d], client'[d]} \subseteq Public \cup {"privW", "privR", "ack"}
    PROVE  Keeps(d)
<1>1. Phase(d)' = Phase(d) BY DEF Phase, Public
<1>2. QED BY <1>1 DEF Keeps, Heard

\* The acknowledged path is Connect of the service, a command Ask, and the
\* answer a client takes is the one to the command it sent last.
LEMMA ClientIsService ==
    ASSUME IInv, NEW c \in Client, ClientOf(c)
    PROVE  S!Loss \/ S!Connect(c) \/ S!Ask(c) \/ S!Take(c)
<1>1. TypeOK /\ Paths /\ Line(c) /\ \A d \in Client : HasPath(d) BY DEF IInv
<1>2. /\ DOMAIN client = Client /\ DOMAIN got = Client /\ client[c] \in ClientLabels
      /\ asked \in [Client -> {0, 1}]
  BY <1>1 DEF TypeOK, ClientLabels, Public, Private
<1>3. \A d \in Client \ {c} : Keeps(d) BY <1>1, ClientEffects, OutStays
<1>4. CASE Opens(c) \/ ReadPath(c)
  <2>1. \/ client[c] = "start" /\ client'[c] = "gone"
        \/ /\ {client[c], client'[c]} \subseteq Public \cup {"privW", "privR", "ack"}
           /\ UNCHANGED <<asked, got>>
    BY <1>2, <1>4 DEF Opens, Start, ClientOpenR, ClientOpenW, Connect, ReadPath, ClientAt, Public
  <2>2. Keeps(c) \/ Drops(c)
    <3>1. CASE client[c] = "start" /\ client'[c] = "gone" BY <3>1 DEF Drops, Phase
    <3>2. QED BY <2>1, <3>1, OutStays
  <2>3. QED BY <1>3, <2>2, LossStep
<1>5. CASE Quits(c)
  <2>1. client[c] # "gone" BY <1>1, ClientEffects
  <2>2. client'[c] = "gone"
    BY <1>2, <1>5 DEF Quits, ConnectFails, ClientOpenFails, SendExit, Leave, ClientEnds, ClientAt
  <2>3. Drops(c) BY <2>1, <2>2 DEF Drops, Phase
  <2>4. QED BY <1>3, <2>3, LossStep
<1>6. CASE Ack(c)
  <2>1. client[c] = "ack" /\ client'[c] = "ready" /\ UNCHANGED <<asked, got>>
    BY <1>2, <1>6 DEF Ack, Write, ClientAt
  <2>2. Phase(c) = "out" /\ Phase(c)' = "idle" /\ Heard(c)' = Heard(c) BY <2>1 DEF Phase, Heard
  <2>3. QED BY <1>3, <2>1, <2>2 DEF S!Connect, S!To, Keeps
<1>7. CASE Asks(c)
  <2>1. /\ client[c] = "ready" /\ client'[c] = "wait" /\ UNCHANGED got
        /\ asked' = [asked EXCEPT ![c] = 1 - @]
    BY <1>2, <1>7 DEF Asks, Send, SendTooLong, Write, ClientAt
  <2>2. Phase(c) = "idle" /\ Phase(c)' = "waiting" /\ Heard(c)' = Heard(c) BY <2>1 DEF Phase, Heard
  <2>3. QED BY <1>3, <2>1, <2>2 DEF S!Ask, S!To, Keeps
<1>8. CASE Take(c)
  <2>1. /\ client[c] = "wait" /\ client'[c] = "ready" /\ UNCHANGED asked
        /\ privW[path[c]] # <<>> /\ got'[c] = Head(privW[path[c]])
    BY <1>2, <1>8 DEF Take, ClientAt
  <2>2. Phase(c) = "waiting" /\ Phase(c)' = "idle" BY <2>1 DEF Phase
  <2>3. path[c] \in Child BY <1>1, <2>1, PrivatePath DEF Private
  <2>4. Head(privW[path[c]]) = privW[path[c]][1]
    BY <1>1, <2>1, <2>3, FifoTypes, HeadFacts
  <2>5. LastCommand(c, privW[path[c]][1]) BY <1>1, <2>1 DEF Line, Busy
  <2>6. Heard(c)' = asked[c] BY <2>1, <2>4, <2>5 DEF Heard, LastCommand
  <2>7. QED BY <1>3, <2>1, <2>2, <2>6 DEF S!Take, S!To, Keeps
<1>9. QED BY <1>4, <1>5, <1>6, <1>7, <1>8 DEF ClientOf

\* Whatever happens, to every client happens what the service allows.
LEMMA NextIsService ==
    ASSUME IInv, [Next]_vars
    PROVE  [S!ServiceNext]_(S!serviceVars)
<1>1. TypeOK BY DEF IInv
<1>2. ASSUME UNCHANGED <<asked, got>>,
             \A d \in Client :
                 \/ client'[d] = client[d]
                 \/ {client[d], client'[d]} \subseteq Public \cup {"privW", "privR", "ack"}
      PROVE  S!ServiceNext
  BY <1>2, OutStays, LossStep DEF S!ServiceNext
<1>3. CASE UNCHANGED vars BY <1>2, <1>3 DEF vars, clientVars
<1>4. CASE ParentMoves BY <1>1, <1>2, <1>4, ParentEffects
<1>5. CASE \E k \in Child : ChildOf(k) BY <1>1, <1>2, <1>5, ChildEffects
<1>6. ASSUME NEW k \in Child, NEW c \in Client, Meet(k, c) PROVE S!ServiceNext
  <2>1. /\ UNCHANGED <<asked, got>>
        /\ client[c] \in {"privW", "privR"} /\ client'[c] \in {"privR", "ack"}
        /\ \A d \in Client \ {c} : client'[d] = client[d]
    BY <1>1, <1>6, MeetEffects
  <2>2. QED BY <1>2, <2>1
<1>7. CASE \E c \in Client : ClientOf(c) BY <1>7, ClientIsService DEF S!ServiceNext
<1>8. QED BY <1>3, <1>4, <1>5, <1>6, <1>7, NextCases

-----------------------------------------------------------------------------
(* The theorems.                                                           *)

\* The first state is one of the invariant, with nobody connected.
LEMMA InitIInv == Init => IInv
<1>. SUFFICES ASSUME Init PROVE IInv
  OBVIOUS
<1>1. TypeOK
  <2>1. 0 \in 0..MaxChild /\ 0 \in 0..cliCount /\ <<>> \in Seq(1..cliCount) BY Children DEF Init
  <2>2. QED BY <2>1, EmptyFacts DEF Init, TypeOK
<1>2. Semaphore BY DEF Init, Semaphore, Syncs
<1>3. Paths BY DEF Init, Paths
<1>4. \A k \in Child : Untold(k) BY DEF Init, Untold, Quiet
<1>5. \A c \in Client : HasPath(c) /\ Line(c) BY DEF Init, HasPath, Line, Private
<1>6. QED BY <1>1, <1>2, <1>3, <1>4, <1>5 DEF IInv

\* The invariant holds, whoever connects, ends or is interrupted when.
THEOREM Invariance == Spec => []IInv
<1>1. IInv /\ [Next]_vars => IInv' BY NextIInv
<1>2. QED BY <1>1, InitIInv, PTL DEF Spec

\* Types, and the limits of the private FIFOs: no more than three datagrams to
\* a child are written between two of its reads, and never two answers.
THEOREM FifoTypesSafety == Spec => []TypeOK
<1>1. IInv => TypeOK BY DEF IInv
<1>2. QED BY <1>1, Invariance, PTL

\* However clients meet at the public FIFOs, and whoever is interrupted there, a
\* client that got through has FIFOs of its own and is answered its own
\* commands.
THEOREM ImplementsService == Spec => RefinesService
<1>1. Init => S!ServiceInit
  <2>1. ASSUME Init, NEW c \in Client PROVE Phase(c) = "out" /\ Heard(c) = 0
    BY <2>1 DEF Init, Phase, Heard, Nothing, Message
  <2>2. QED BY <2>1 DEF Init, S!ServiceInit
<1>2. IInv /\ [Next]_vars => [S!ServiceNext]_(S!serviceVars) BY NextIsService
<1>3. QED BY <1>1, <1>2, Invariance, PTL DEF Spec, RefinesService, S!ServiceSpec
=============================================================================

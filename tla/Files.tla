------------------------------- MODULE Files -------------------------------
(***************************************************************************)
(* ipc/files.c with the semaphore of ipc/lib/semaphore.c, under            *)
(* server/server.c and client/client.c: datagrams are left in a file and   *)
(* announced with SIGUSR1.  Clients find the pid of the server in a public *)
(* file, write OP_CONNECT over it, and read there the path of a private    *)
(* file and the pid of the child that serves them.                         *)
(*                                                                         *)
(* Signals (external): SIGUSR1 is never blocked, so that it wakes a        *)
(* process only while that is in sigsuspend; the handler does nothing and  *)
(* at any other moment the signal is forgotten.  It also ends a semop that *)
(* blocks (EINTR), and nobody looks at the result of semop.                *)
(*                                                                         *)
(* A client is one process; execute_datagram is one step (see              *)
(* Database.tla), and it may end the child.  One run of the server.        *)
(***************************************************************************)
EXTENDS Integers, FiniteSets

CONSTANTS
    Client,     \* client processes
    Talker,     \* those of them that send commands
    Interrupted,\* the processes that may get a SIGINT
    MaxChild    \* bound: children the server forks

ASSUME FilesAssumption ==
    /\ MaxChild \in Nat /\ Client \cap (-1..MaxChild) = {}
    /\ Talker \subseteq Client
    /\ Interrupted \subseteq Client \cup 0..MaxChild
Child == 1..MaxChild

VARIABLES
    parent,    \* where the accepting process is
    cliCount,  \* cli_count
    sem,       \* SEM_QUEUE, or Removed
    child,     \* child[k]: where the process of the k-th accept is
    peer,      \* peer[k]: its otherpid
    seen,      \* seen[k]: the datagram it is working on
    client,    \* client[c]: where client c is
    other,     \* other[c]: its otherpid
    fd,        \* fd[c]: the file it has open
    asked,     \* asked[c]: a bit that tells its last command from the one before
    got,       \* got[c]: what it took for an answer last
    pub,       \* the public file: is the server's pid at its start, and the rest
    priv,      \* priv[k]: what is in the private file of child k
    there,     \* the files that have not been unlinked
    woken,     \* the processes that a signal has met in sigsuspend (or semop)
    unheard,   \* history: clients with a signal forgotten, or a datagram that
               \* ipc_send refused, on their connection, or whose child ended
    mixed      \* history: clients that connected while the server was not
               \* waiting, or together with another one

serverVars == <<parent, cliCount, sem>>
childVars == <<child, peer, seen>>
clientVars == <<client, other, fd, asked, got>>
fileVars == <<pub, priv, there>>
signalVars == <<woken, unheard>>
vars == <<serverVars, childVars, clientVars, fileVars, signalVars, mixed>>

-----------------------------------------------------------------------------
\* Processes and files are numbered; the children and their files count from 1.
Parent == 0
Nobody == -1      \* a pid that atoi or malloc made up
Public == 0
Bad == -1         \* the result of an open that failed
Removed == -1
Message(kind, p, bit) == [kind |-> kind, of |-> p, bit |-> bit]
Empty == Message("empty", Nobody, 0)
Messages == [kind : {"empty", "connect", "path", "request", "answer", "exit"},
             of : Client \cup Child \cup {Nobody}, bit : {0, 1}]

ParentAt(label) == parent' = label
ChildAt(k, label) == child' = [child EXCEPT ![k] = label]
ClientAt(c, label) == client' = [client EXCEPT ![c] = label]

Suspended(p) ==
    \/ p = Parent /\ parent = "accept"
    \/ p \in Child /\ child[p] \in {"ack", "serve"}
    \/ p \in Client /\ client[p] \in {"waitPath", "wait"}

\* History is kept of the clients that are there and not mixed up yet.
Present == {c \in Client : client[c] \notin {"exitKill", "gone"}}
Unheard(c) == unheard' = unheard \cup ({c} \cap (Present \ mixed))

\* kill(p, SIGUSR1), on behalf of client c.  A parent in ipc_waitsync may be in
\* semop or not yet.
Signal(p, c) ==
    IF p \in {Parent} \cup Child \cup Client /\ Suspended(p)
    THEN woken' = woken \cup {p} /\ UNCHANGED unheard
    ELSE /\ Unheard(c)
         /\ \/ UNCHANGED woken
            \/ p = Parent /\ parent = "waitsync" /\ woken' = woken \cup {Parent}

Awake(p) == p \in woken /\ woken' = woken \ {p}

\* A datagram is written over what a file has, the pid included.
WriteTo(f, m) ==
    /\ pub' = IF f = Public THEN [pid |-> FALSE, body |-> m] ELSE pub
    /\ priv' = IF f \in Child THEN [priv EXCEPT ![f] = m] ELSE priv
    /\ UNCHANGED there

-----------------------------------------------------------------------------
(* The accepting process.                                                  *)

\* ipc_accept: the pid goes to the start of the file ...
WritePid ==
    /\ parent = "pid"
    /\ pub' = [pub EXCEPT !.pid = TRUE]
    /\ ParentAt("arm")
    /\ UNCHANGED <<cliCount, sem, childVars, clientVars, priv, there, signalVars, mixed>>

\* ... and only then comes sigsuspend.
Suspend ==
    /\ parent = "arm"
    /\ ParentAt("accept")
    /\ UNCHANGED <<cliCount, sem, childVars, clientVars, fileVars, signalVars, mixed>>

\* The datagram must be OP_CONNECT; fork.  The opcode of a child's answer is
\* never set.
Accept ==
    /\ parent = "accept"
    /\ Awake(Parent)
    /\ cliCount < MaxChild
    /\ pub.body.kind \in {"connect", "path"}
    /\ cliCount' = cliCount + 1
    /\ ChildAt(cliCount', "tell")
    /\ peer' = [peer EXCEPT ![cliCount'] = pub.body.of]
    /\ ParentAt("waitsync")
    /\ UNCHANGED <<sem, seen, clientVars, fileVars, unheard, mixed>>

\* ipc_disconnect and ipc_free of the parent: the public file and the queue
\* semaphore are removed.
ParentEnds ==
    /\ ParentAt("gone")
    /\ there' = there \ {Public}
    /\ sem' = Removed
    /\ UNCHANGED <<cliCount, childVars, clientVars, pub, priv, unheard, mixed>>

AcceptError ==
    /\ parent = "accept"
    /\ Awake(Parent)
    /\ pub.body.kind # "connect"
    /\ ParentEnds

\* SIGINT: close_conn.
ParentInterrupt ==
    /\ parent # "gone" /\ Parent \in Interrupted
    /\ woken' = woken \ {Parent}
    /\ ParentEnds

\* ipc_waitsync: semop succeeds, or fails because of a signal or because the
\* semaphore was removed.
WaitSync ==
    /\ parent = "waitsync"
    /\ \/ sem > 0 /\ sem' = sem - 1 /\ UNCHANGED woken
       \/ sem = Removed /\ UNCHANGED <<sem, woken>>
       \/ Awake(Parent) /\ UNCHANGED sem
    /\ ParentAt("pid")
    /\ UNCHANGED <<cliCount, childVars, clientVars, fileVars, unheard, mixed>>

-----------------------------------------------------------------------------
(* A child: ipc_sync.                                                      *)

\* The private file is there before its path is in the public one.
TellPath(k) ==
    /\ child[k] = "tell"
    /\ pub' = [pid |-> FALSE, body |-> Message("path", k, 0)]
    /\ there' = there \cup {k}
    /\ ChildAt(k, "told")
    /\ UNCHANGED <<serverVars, peer, seen, clientVars, priv, signalVars, mixed>>

WakeClient(k) ==
    /\ child[k] = "told"
    /\ Signal(peer[k], peer[k])
    /\ ChildAt(k, "up")
    /\ UNCHANGED <<serverVars, peer, seen, clientVars, fileVars, mixed>>

\* Mutant: the parent is not released.
ReleaseNobody(k) ==
    /\ child[k] = "up"
    /\ ChildAt(k, "armAck")
    /\ UNCHANGED <<serverVars, peer, seen, clientVars, fileVars, signalVars, mixed>>

\* sem_up: the parent may write its pid and accept the next client.
ReleaseServer(k) ==
    /\ child[k] = "up"
    /\ sem' = IF sem = Removed THEN Removed ELSE sem + 1
    /\ ChildAt(k, "armAck")
    /\ UNCHANGED <<parent, cliCount, peer, seen, clientVars, fileVars, signalVars, mixed>>

SuspendChild(k) ==
    /\ \/ child[k] = "armAck" /\ ChildAt(k, "ack")
       \/ child[k] = "arm" /\ ChildAt(k, "serve")
    /\ UNCHANGED <<serverVars, peer, seen, clientVars, fileVars, signalVars, mixed>>

\* The first datagram in the private file must be OP_CONNECT; db_open.
Synced(k) ==
    /\ child[k] = "ack"
    /\ Awake(k)
    /\ priv[k].kind = "connect"
    /\ ChildAt(k, "arm")
    /\ UNCHANGED <<serverVars, peer, seen, clientVars, fileVars, unheard, mixed>>

\* The end of a child: the up of its semaphore may be undone (sem_flg is not
\* initialised).
ChildEnds(k) ==
    /\ ChildAt(k, "gone")
    /\ seen' = [seen EXCEPT ![k] = Empty]
    /\ peer' = [peer EXCEPT ![k] = Nobody]
    /\ Unheard(peer[k])
    /\ UNCHANGED <<parent, cliCount, clientVars, pub, priv, mixed>>

Undone(k) ==
    sem' \in {sem} \cup (IF sem > 0 /\ child[k] \notin {"tell", "told", "up"}
                         THEN {sem - 1} ELSE {})

\* session->path is the public one until the client has been told, and for a
\* moment after that.
OwnFile(k) ==
    CASE child[k] \in {"tell", "told"} -> {Public}
      [] child[k] = "up" -> {Public, k}
      [] OTHER -> {k}

\* ipc_disconnect and ipc_free: anything but OP_CONNECT was read, or SIGINT.
SyncError(k) ==
    /\ child[k] = "ack"
    /\ Awake(k)
    /\ priv[k].kind \notin {"empty", "connect"}
    /\ there' = there \ {k}
    /\ sem' = Removed
    /\ ChildEnds(k)

\* A file with nothing in it: realloc(datagram, 0), and NULL is read.
SyncNull(k) ==
    /\ child[k] = "ack"
    /\ Awake(k)
    /\ priv[k].kind = "empty"
    /\ Undone(k)
    /\ UNCHANGED there
    /\ ChildEnds(k)

ChildInterrupt(k) ==
    /\ child[k] \notin {"none", "gone"} /\ k \in Interrupted
    /\ \E f \in OwnFile(k) : there' = there \ {f}
    /\ sem' = Removed
    /\ woken' = woken \ {k}
    /\ ChildEnds(k)

-----------------------------------------------------------------------------
(* A child: serve.                                                         *)

Receive(k) ==
    /\ child[k] = "serve"
    /\ Awake(k)
    /\ seen' = [seen EXCEPT ![k] = priv[k]]
    /\ ChildAt(k, "execute")
    /\ UNCHANGED <<serverVars, peer, clientVars, fileVars, unheard, mixed>>

\* Mutant: the client is not woken.
AnswerSilently(k) ==
    /\ child[k] = "execute"
    /\ seen[k].kind \in {"request", "answer"}
    /\ WriteTo(k, Message("answer", seen[k].of, seen[k].bit))
    /\ ChildAt(k, "arm")
    /\ seen' = [seen EXCEPT ![k] = Empty]
    /\ UNCHANGED <<serverVars, peer, clientVars, signalVars, mixed>>

\* execute_datagram and ipc_send (in one step: only the client, which waits,
\* has the file open).  An answer read back has the opcode of its command and
\* is executed, too.
Answer(k) ==
    /\ child[k] = "execute"
    /\ seen[k].kind \in {"request", "answer"}
    /\ WriteTo(k, Message("answer", seen[k].of, seen[k].bit))
    /\ Signal(peer[k], peer[k])
    /\ ChildAt(k, "arm")
    /\ seen' = [seen EXCEPT ![k] = Empty]
    /\ UNCHANGED <<serverVars, peer, clientVars, mixed>>

\* An answer longer than DATAGRAM_MAXSIZE: ipc_send returns -1, and serve does
\* not look.
AnswerTooLong(k) ==
    /\ child[k] = "execute"
    /\ seen[k].kind \in {"request", "answer"}
    /\ Unheard(peer[k])
    /\ ChildAt(k, "arm")
    /\ seen' = [seen EXCEPT ![k] = Empty]
    /\ UNCHANGED <<serverVars, peer, clientVars, fileVars, woken, mixed>>

\* Neither a command nor OP_EXIT: execute_datagram returns NULL.
Ignore(k) ==
    /\ child[k] = "execute"
    /\ seen[k].kind \in {"answer", "connect"}
    /\ ChildAt(k, "arm")
    /\ seen' = [seen EXCEPT ![k] = Empty]
    /\ UNCHANGED <<serverVars, peer, clientVars, fileVars, signalVars, mixed>>

\* OP_EXIT: the file is unlinked.
ChildExits(k) ==
    /\ child[k] = "execute"
    /\ seen[k].kind = "exit"
    /\ there' = there \ {k}
    /\ Undone(k)
    /\ UNCHANGED woken
    /\ ChildEnds(k)

\* exit(1) of the database: the file stays.
ChildFails(k) ==
    /\ child[k] = "execute"
    /\ seen[k].kind \in {"request", "answer"}
    /\ Undone(k)
    /\ UNCHANGED <<there, woken>>
    /\ ChildEnds(k)

-----------------------------------------------------------------------------
(* A client: ipc_connect.                                                  *)

Connecting(c) == client[c] \notin {"start", "ready", "kill", "arm", "wait", "gone"}

\* The server waits for a client, and nobody is connecting.
Quiet ==
    /\ parent = "accept" /\ Parent \notin woken
    /\ \A c \in Client : ~Connecting(c)
    /\ \A k \in Child : child[k] \notin {"tell", "told", "up"}

\* Without the file the client ends.
Start(c) ==
    /\ client[c] = "start"
    /\ IF Public \in there
       THEN /\ ClientAt(c, "read")
            /\ fd' = [fd EXCEPT ![c] = Public]
            /\ mixed' = IF Quiet THEN mixed
                        ELSE mixed \cup {c} \cup {d \in Present : Connecting(d)}
            /\ unheard' = unheard \ mixed'
       ELSE ClientAt(c, "gone") /\ UNCHANGED <<fd, mixed, unheard>>
    /\ UNCHANGED <<serverVars, childVars, other, asked, got, fileVars, woken>>

\* The pid of the server is at the start of the file, or a datagram is.
ReadPid(c) ==
    /\ client[c] = "read"
    /\ other' = [other EXCEPT ![c] = IF pub.pid THEN Parent ELSE Nobody]
    /\ ClientAt(c, "ask")
    /\ UNCHANGED <<serverVars, childVars, fd, asked, got, fileVars, signalVars, mixed>>

\* ipc_send writes to the file that is open ...
Write(c, m, from, to) ==
    /\ client[c] = from
    /\ WriteTo(fd[c], m)
    /\ ClientAt(c, to)
    /\ UNCHANGED <<serverVars, childVars, other, fd, got, signalVars, mixed>>

\* ... and signals the other side.
Kill(c, from, to) ==
    /\ client[c] = from
    /\ Signal(other[c], c)
    /\ ClientAt(c, to)
    /\ UNCHANGED <<serverVars, childVars, other, fd, asked, got, fileVars, mixed>>

Ask(c) == Write(c, Message("connect", c, 0), "ask", "askKill") /\ UNCHANGED asked
AskKill(c) == Kill(c, "askKill", "armPath")

SuspendClient(c) ==
    /\ \/ client[c] = "armPath" /\ ClientAt(c, "waitPath")
       \/ client[c] = "arm" /\ ClientAt(c, "wait")
    /\ UNCHANGED <<serverVars, childVars, other, fd, asked, got, fileVars, signalVars, mixed>>

\* Mutant: whatever the file holds is taken for a path.
ReadAnyPath(c) ==
    /\ client[c] = "waitPath"
    /\ Awake(c)
    /\ other' = [other EXCEPT ![c] = pub.body.of]
    /\ fd' = other'
    /\ ClientAt(c, "ack")
    /\ UNCHANGED <<serverVars, childVars, asked, got, fileVars, unheard, mixed>>

\* The new path and pid; the pid of a client comes without a path.
ReadPath(c) ==
    /\ client[c] = "waitPath"
    /\ Awake(c)
    /\ other' = [other EXCEPT ![c] = pub.body.of]
    /\ fd' = [fd EXCEPT ![c] =
                  IF pub.body.kind = "path" /\ pub.body.of \in there
                  THEN pub.body.of ELSE Bad]
    /\ ClientAt(c, "ack")
    /\ UNCHANGED <<serverVars, childVars, asked, got, fileVars, unheard, mixed>>

Ack(c) == Write(c, Message("connect", Nobody, 0), "ack", "ackKill") /\ UNCHANGED asked
AckKill(c) == Kill(c, "ackKill", "ready")

-----------------------------------------------------------------------------
(* A client: commands.                                                     *)

Send(c) ==
    /\ c \in Talker
    /\ asked' = [asked EXCEPT ![c] = 1 - @]
    /\ Write(c, Message("request", c, asked'[c]), "ready", "kill")
SendKill(c) == Kill(c, "kill", "arm")

\* A command longer than DATAGRAM_MAXSIZE: ipc_send returns -1, main does not
\* look and waits for the answer.
SendTooLong(c) ==
    /\ client[c] = "ready" /\ c \in Talker
    /\ asked' = [asked EXCEPT ![c] = 1 - @]
    /\ Unheard(c)
    /\ ClientAt(c, "arm")
    /\ UNCHANGED <<serverVars, childVars, other, fd, got, fileVars, woken, mixed>>

\* Mutant: the client reads the file without waiting for the signal.
TakeEarly(c) ==
    /\ client[c] = "wait"
    /\ fd[c] \in Child
    /\ got' = [got EXCEPT ![c] = priv[fd[c]]]
    /\ ClientAt(c, "ready")
    /\ UNCHANGED <<serverVars, childVars, other, fd, asked, fileVars, signalVars, mixed>>

\* ipc_receive of the client.
Take(c) ==
    /\ client[c] = "wait"
    /\ Awake(c)
    /\ fd[c] \in Child
    /\ got' = [got EXCEPT ![c] = priv[fd[c]]]
    /\ ClientAt(c, "ready")
    /\ UNCHANGED <<serverVars, childVars, other, fd, asked, fileVars, unheard, mixed>>

\* What a process that ends has asked and taken does not matter any more, nor
\* does its history.
Forget(c) ==
    /\ asked' = [asked EXCEPT ![c] = 0]
    /\ got' = [got EXCEPT ![c] = Empty]
    /\ unheard' = unheard \ {c}
    /\ mixed' = mixed \ {c}

ClientEnds(c) ==
    /\ ClientAt(c, "gone")
    /\ other' = [other EXCEPT ![c] = Nobody]
    /\ fd' = [fd EXCEPT ![c] = Bad]
    /\ UNCHANGED <<serverVars, childVars>>

\* read fails: ipc_receive returns NULL, and parse_answer reads it.
TakeNull(c) ==
    /\ client[c] = "wait"
    /\ Awake(c)
    /\ fd[c] = Bad
    /\ ClientEnds(c)
    /\ Forget(c)
    /\ UNCHANGED fileVars

\* send_exit: "exit", or SIGINT at any moment, before otherpid is set included.
SendExit(c) ==
    /\ client[c] \notin {"start", "exitKill", "gone"}
    /\ client[c] = "ready" \/ c \in Interrupted
    /\ WriteTo(fd[c], Message("exit", Nobody, 0))
    /\ ClientAt(c, "exitKill")
    /\ Forget(c)
    /\ woken' = woken \ {c}
    /\ UNCHANGED <<serverVars, childVars, other, fd>>

ExitKill(c) ==
    /\ client[c] = "exitKill"
    /\ Signal(other[c], Nobody)
    /\ ClientEnds(c)
    /\ UNCHANGED <<asked, got, fileVars, mixed>>

\* The end of the input; or SIGINT before there is a file to write to.
Leave(c) ==
    /\ client[c] \in {"start", "ready"}
    /\ ClientEnds(c)
    /\ Forget(c)
    /\ UNCHANGED <<fileVars, woken>>

-----------------------------------------------------------------------------
\* After ipc_listen.
Init ==
    /\ parent = "pid" /\ cliCount = 0 /\ sem = 0
    /\ child = [k \in Child |-> "none"]
    /\ peer = [k \in Child |-> Nobody]
    /\ seen = [k \in Child |-> Empty]
    /\ client = [c \in Client |-> "start"]
    /\ other = [c \in Client |-> Nobody]
    /\ fd = [c \in Client |-> Bad]
    /\ asked = [c \in Client |-> 0]
    /\ got = [c \in Client |-> Empty]
    /\ pub = [pid |-> FALSE, body |-> Empty]
    /\ priv = [k \in Child |-> Empty]
    /\ there = {Public}
    /\ woken = {} /\ unheard = {} /\ mixed = {}

ParentStep == WritePid \/ Suspend \/ Accept \/ AcceptError \/ WaitSync

ChildStep(k) ==
    \/ TellPath(k) \/ WakeClient(k) \/ ReleaseServer(k) \/ SuspendChild(k)
    \/ Synced(k) \/ SyncError(k) \/ SyncNull(k) \/ Receive(k) \/ Answer(k)
    \/ AnswerTooLong(k) \/ Ignore(k) \/ ChildExits(k)

ClientStep(c) ==
    \/ ReadPid(c) \/ Ask(c) \/ AskKill(c) \/ SuspendClient(c) \/ ReadPath(c)
    \/ Ack(c) \/ AckKill(c) \/ SendKill(c) \/ Take(c) \/ TakeNull(c) \/ ExitKill(c)

Next ==
    \/ ParentStep \/ ParentInterrupt
    \/ \E k \in Child : ChildStep(k) \/ ChildFails(k) \/ ChildInterrupt(k)
    \/ \E c \in Client :
          \/ ClientStep(c) \/ Start(c)
          \/ Send(c) \/ SendTooLong(c) \/ SendExit(c) \/ Leave(c)

\* Every process that can go on is scheduled.
Spec == /\ Init /\ [][Next]_vars
        /\ WF_vars(ParentStep)
        /\ \A k \in Child : WF_vars(ChildStep(k))
        /\ \A c \in Client : WF_vars(ClientStep(c))

-----------------------------------------------------------------------------
\* Types, and that a private file belongs to a child that was forked.
TypeOK ==
    /\ parent \in {"pid", "arm", "accept", "waitsync", "gone"}
    /\ cliCount \in 0..MaxChild
    /\ sem \in {Removed} \cup 0..MaxChild
    /\ child \in [Child -> {"none", "tell", "told", "up", "armAck", "ack",
                            "arm", "serve", "execute", "gone"}]
    /\ peer \in [Child -> Client \cup Child \cup {Nobody}]
    /\ seen \in [Child -> Messages]
    /\ client \in [Client -> {"start", "read", "ask", "askKill", "armPath", "waitPath",
                              "ack", "ackKill", "ready", "kill", "arm", "wait",
                              "exitKill", "gone"}]
    /\ other \in [Client -> Client \cup Child \cup {Parent, Nobody}]
    /\ fd \in [Client -> Child \cup {Public, Bad}]
    /\ asked \in [Client -> {0, 1}]
    /\ got \in [Client -> Messages]
    /\ pub.pid \in BOOLEAN /\ pub.body \in Messages
    /\ priv \in [Child -> Messages]
    /\ there \subseteq {Public} \cup 1..cliCount
    /\ woken \subseteq {Parent} \cup Child \cup Client
    /\ unheard \subseteq Client /\ mixed \subseteq Client

Phase(c) ==
    CASE client[c] \in {"gone", "exitKill"} -> "left"
      [] client[c] \notin {"gone", "exitKill"} /\ c \in mixed -> "lost"
      [] Connecting(c) /\ client[c] # "exitKill" /\ c \notin mixed -> "out"
      [] client[c] = "start" -> "out"
      [] client[c] = "ready" /\ c \notin mixed -> "idle"
      [] client[c] \in {"kill", "arm", "wait"} /\ c \notin mixed -> "waiting"

\* The bit of the answer a client has, if it is an answer to it (else 2).
Heard(c) ==
    IF got[c] = Empty \/ (got[c].kind = "answer" /\ got[c].of = c) THEN got[c].bit ELSE 2

S == INSTANCE Service WITH
        phase <- [c \in Client |-> Phase(c)],
        heard <- [c \in Client |-> Heard(c)]

\* A client that starts to connect when the server is in sigsuspend, and meets
\* no other client on the way, has a session of its own afterwards: it is
\* answered its own commands and nothing else, whatever others do, and
\* whichever signals are lost.
RefinesService == S!ServiceSpec

\* A client waits for ever only if one of the signals of its session came
\* while its receiver was not in sigsuspend, if a datagram of it was too long,
\* if the process that serves it has ended, or after a disorderly connect.
Answered ==
    \A c \in Client :
        (client[c] \in {"waitPath", "wait"})
            ~> \/ client[c] \notin {"waitPath", "wait"}
               \/ c \in unheard \cup mixed
               \/ other[c] = Parent /\ (parent = "gone" \/ cliCount = MaxChild)

\* The server accepts again after each client, unless a child has ended: its
\* end may take back an up, its own or that of another child.
AcceptsAgain ==
    (parent = "waitsync")
        ~> (parent # "waitsync" \/ \E k \in Child : child[k] = "gone")
=============================================================================

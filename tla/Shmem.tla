------------------------------- MODULE Shmem -------------------------------
(***************************************************************************)
(* ipc/shmem.c with ipc/lib/semaphore.c, the loop of server/server.c and   *)
(* client/client.c: clients meet the server in a public segment, in four   *)
(* steps (STEP-0 .. STEP-3), and each is then served by a child of its own *)
(* through a private segment.                                              *)
(*                                                                         *)
(* The semaphores are System V ones (external): a down blocks at zero, a   *)
(* SETVAL forgets every undo, a process that ends has its undo applied     *)
(* (never below zero), and on a set that was removed every operation fails *)
(* at once, which nobody looks at.  sem_down sets SEM_UNDO; sem_up leaves  *)
(* sem_flg uninitialised, so that each up may or may not have it.          *)
(*                                                                         *)
(* execute_datagram is one step here (see Database.tla); it may also end   *)
(* the child.  A datagram is its kind and the client it belongs to.        *)
(***************************************************************************)
EXTENDS Integers, FiniteSets

CONSTANTS
    Client,      \* client processes, each of which may be started again
    MaxStart,    \* bound: times a client is started
    MaxChild,    \* bound: children the server forks (below 0xFF)
    MaxAmiss,    \* bound: kinds of disturbance in one behaviour
    Eager,       \* clients that are started at any moment; the others only
                 \* when the server is waiting in ipc_accept and nobody else
                 \* is connecting
    Flagged,     \* processes whose uninitialised sem_flg may hold SEM_UNDO
    Interrupted  \* processes that SIGINT may hit at any moment

ASSUME BoundAssumption == {MaxStart, MaxChild, MaxAmiss} \subseteq Nat
Child == 1..MaxChild
Parent == 0
Process == Client \cup Child
ASSUME NamesAssumption == Client \cap (Child \cup {Parent}) = {}
ASSUME EnvironmentAssumption ==
    /\ Eager \subseteq Client
    /\ Flagged \subseteq Process
    /\ Interrupted \subseteq Process \cup {Parent}

VARIABLES
    parent,    \* where the accepting process is
    cliCount,  \* cli_count
    child,     \* child[k]: where the process of the k-th accept is
    seen,      \* seen[k]: the datagram child k is working on
    client,    \* client[c]: where client c is
    key,       \* key[c]: private key client c was given
    started,   \* how many clients have been started
    got,       \* got[c]: the last datagram c took for an answer
    pub,       \* the public segment: opcode and key
    priv,      \* priv[k]: datagram in the private segment of child k
    there,     \* the keys with a private segment and semaphores
    sets,      \* the public sets of semaphores that have not been removed
               \* (the public segment goes with "sync")
    sem,       \* values of the public semaphores
    psem,      \* values of the private ones
    undo,      \* undo[p]: what the end of process p adds to each of them
    unheard,   \* history: clients with a datagram that was too long to send
    amiss      \* history: what has disturbed the protocol so far: a "client"
               \* started early or interrupted, the "server" or a child of it
               \* interrupted, an "undo" of an up

serverVars == <<parent, cliCount, child, seen>>
clientVars == <<client, key, got, started>>
memoryVars == <<pub, priv, there>>
semVars == <<sem, psem, undo>>
history == <<unheard, amiss>>
still == <<sets, semVars, history>>
vars == <<serverVars, clientVars, memoryVars, still>>

-----------------------------------------------------------------------------
MaxUps == 3     \* most ups of one process on one public semaphore
Public == {"SEM_CLIENT", "SEM_SERVER", "SEM_QUEUE", "SEM_SRV_QUEUE"}
Private == {"SEM_CLIENT", "SEM_SERVER"}
SetOf(s) == IF s \in {"SEM_QUEUE", "SEM_SRV_QUEUE"} THEN "queue" ELSE "sync"
Nobody == 0

Message(kind, c) == [kind |-> kind, of |-> c]
Zeroed == Message("zero", Nobody)          \* a segment after memset
Blank == [opcode |-> "zero", key |-> 0]    \* the public one
Garbage == -1    \* a key left uninitialised, of no segment; key 0 is IPC_PRIVATE
Messages == [kind : {"zero", "request", "answer", "exit"}, of : Client \cup {Nobody}]

\* The downs and ups of a process on the public semaphores since the last
\* SETVAL, and what they leave behind when it ends: every down is undone, and
\* every up that happened to have SEM_UNDO.  Before it ends the process removes
\* some of the sets.
NoUndo == [s \in Public |-> [down |-> 0, up |-> 0]]
AtLeastZero(n) == IF n < 0 THEN 0 ELSE n

Disturb(why) ==
    /\ amiss' = amiss \cup why
    /\ Cardinality(amiss') <= MaxAmiss

Kept(old, left) == [s \in Public |-> IF SetOf(s) \in left THEN old[s] ELSE NoUndo[s]]

Undone(p, removed, why) ==
    /\ sets' = sets \ removed
    /\ undo' = [q \in Process |-> IF q = p THEN NoUndo ELSE Kept(undo[q], sets')]
    /\ LET Ups(s) == IF p \in Flagged /\ SetOf(s) \in sets' THEN 0..undo[p][s].up ELSE {0} IN
       \E c \in Ups("SEM_CLIENT"), s \in Ups("SEM_SERVER"),
          q \in Ups("SEM_QUEUE"), r \in Ups("SEM_SRV_QUEUE") :
         LET n == [SEM_CLIENT |-> c, SEM_SERVER |-> s, SEM_QUEUE |-> q, SEM_SRV_QUEUE |-> r]
         IN /\ sem' = [i \in Public |->
                        IF SetOf(i) \in sets'
                        THEN AtLeastZero(sem[i] + undo[p][i].down - n[i]) ELSE 0]
            /\ Disturb(why \cup {w \in {"undo"} : \E i \in Public : n[i] > 0})

\* sem_down and sem_up of process p on a public semaphore.
sem_down(p, s) ==
    /\ IF SetOf(s) \in sets
       THEN /\ sem[s] > 0
            /\ sem' = [sem EXCEPT ![s] = @ - 1]
            /\ undo' = [undo EXCEPT ![p][s].down = @ + 1]
       ELSE UNCHANGED <<sem, undo>>
    /\ UNCHANGED <<psem, sets, history>>

sem_up(p, s) ==
    /\ IF SetOf(s) \in sets
       THEN /\ sem' = [sem EXCEPT ![s] = @ + 1]
            /\ undo' = [undo EXCEPT ![p][s].up = @ + 1]
       ELSE UNCHANGED <<sem, undo>>
    /\ UNCHANGED <<psem, sets, history>>

\* The downs of the accepting process: when it ends it removes the semaphores
\* first, so that nothing is left to undo.
ServerDown(s) ==
    /\ IF SetOf(s) \in sets
       THEN sem[s] > 0 /\ sem' = [sem EXCEPT ![s] = @ - 1]
       ELSE UNCHANGED sem
    /\ UNCHANGED <<psem, undo, sets, history>>

\* SETVAL.
sem_set(s, n) ==
    /\ IF SetOf(s) \in sets
       THEN /\ sem' = [sem EXCEPT ![s] = n]
            /\ undo' = [p \in Process |-> [undo[p] EXCEPT ![s] = NoUndo[s]]]
       ELSE UNCHANGED <<sem, undo>>
    /\ UNCHANGED <<psem, sets, history>>

\* Downs and ups on the semaphores of private key k.  Of their undo only the
\* ups of the client can be noticed, and only when it ends.
PrivDown(k, s) ==
    /\ psem[k][s] > 0
    /\ psem' = [psem EXCEPT ![k][s] = @ - 1]
    /\ UNCHANGED <<sem, undo, sets, history>>

PrivUp(k, s) ==
    /\ psem' = [psem EXCEPT ![k][s] = @ + 1]
    /\ UNCHANGED <<sem, undo, sets, history>>

ServerAt(label) == parent' = label
ChildAt(k, label) == child' = [child EXCEPT ![k] = label]
ClientAt(c, label) == client' = [client EXCEPT ![c] = label]

-----------------------------------------------------------------------------
(* The accepting process: main of server.c, ipc_accept, ipc_waitsync.      *)

\* sem_reset of ipc_accept, one SETVAL after the other.
ResetClient ==
    /\ parent = "resetClient"
    /\ sem_set("SEM_CLIENT", 0)
    /\ ServerAt("resetServer")
    /\ UNCHANGED <<cliCount, child, seen, clientVars, memoryVars>>

ResetServer ==
    /\ parent = "resetServer"
    /\ sem_set("SEM_SERVER", 0)
    /\ ServerAt("accept")
    /\ UNCHANGED <<cliCount, child, seen, clientVars, memoryVars>>

\* STEP-0: somebody connects; cli_count is raised and the child forked.
Accept ==
    /\ parent = "accept"
    /\ cliCount < MaxChild
    /\ ServerDown("SEM_CLIENT")
    /\ cliCount' = cliCount + 1
    /\ ChildAt(cliCount', "step1")
    /\ ServerAt("waitsync")
    /\ UNCHANGED <<seen, clientVars, memoryVars>>

\* Mutant: the server does not wait for the child.
WaitSyncNot ==
    /\ parent = "waitsync"
    /\ ServerAt("resetClient")
    /\ UNCHANGED <<cliCount, child, seen, clientVars, memoryVars, still>>

WaitSync ==
    /\ parent = "waitsync"
    /\ ServerDown("SEM_SRV_QUEUE")
    /\ ServerAt("resetClient")
    /\ UNCHANGED <<cliCount, child, seen, clientVars, memoryVars>>

\* SIGINT: close_conn removes the public segment and all its semaphores.
int_handler ==
    /\ Parent \in Interrupted
    /\ parent # "gone"
    /\ ServerAt("gone")
    /\ sets' = {}
    /\ sem' = [s \in Public |-> 0]
    /\ undo' = [p \in Process |-> NoUndo]
    /\ Disturb({"server"})
    /\ UNCHANGED <<cliCount, child, seen, clientVars, memoryVars, psem, unheard>>

-----------------------------------------------------------------------------
(* A child: ipc_sync, then serve.                                          *)

ChildDies(k, removed, why) ==
    /\ ChildAt(k, "gone")
    /\ Undone(k, removed, why)
    /\ UNCHANGED <<psem, unheard>>

Wake(k) ==
    /\ child[k] = "step1"
    /\ sem_down(k, "SEM_CLIENT")
    /\ ChildAt(k, "check")
    /\ UNCHANGED <<parent, cliCount, seen, clientVars, memoryVars>>

\* The datagram in the public segment must be OP_CONNECT.
CheckConnect(k) ==
    /\ child[k] = "check"
    /\ pub.opcode = "connect"
    /\ ChildAt(k, "fill")
    /\ UNCHANGED <<parent, cliCount, seen, clientVars, memoryVars, still>>

SyncError(k) ==
    /\ child[k] = "check"
    /\ pub.opcode # "connect"
    /\ ChildDies(k, {}, {})
    /\ UNCHANGED <<parent, cliCount, seen, clientVars, memoryVars>>

\* Mutant: the same key for everybody.
FillSameKey(k) ==
    /\ child[k] = "fill"
    /\ pub' = [pub EXCEPT !.key = 1]
    /\ ChildAt(k, "create")
    /\ UNCHANGED <<parent, cliCount, seen, clientVars, priv, there, still>>

\* The key of the private segment, ftok(.., cli_count), goes to the client.
FillKey(k) ==
    /\ child[k] = "fill"
    /\ pub' = [pub EXCEPT !.key = k]
    /\ ChildAt(k, "create")
    /\ UNCHANGED <<parent, cliCount, seen, clientVars, priv, there, still>>

\* shmem_create_with_key, shmem_attach, sem_init_with_key and sem_reset.
Create(k) ==
    /\ child[k] = "create"
    /\ there' = there \cup {k}
    /\ priv' = [priv EXCEPT ![k] = Zeroed]
    /\ psem' = [psem EXCEPT ![k] = [s \in Private |-> 0]]
    /\ ChildAt(k, "step2")
    /\ UNCHANGED <<parent, cliCount, seen, clientVars, pub, sem, undo, sets, history>>

\* Mutant: STEP-2 raises the semaphore that STEP-3 waits for.
WakeClientWrongly(k) ==
    /\ child[k] = "step2"
    /\ sem_up(k, "SEM_CLIENT")
    /\ ChildAt(k, "step3")
    /\ UNCHANGED <<parent, cliCount, seen, clientVars, memoryVars>>

WakeClient(k) ==
    /\ child[k] = "step2"
    /\ sem_up(k, "SEM_SERVER")
    /\ ChildAt(k, "step3")
    /\ UNCHANGED <<parent, cliCount, seen, clientVars, memoryVars>>

WaitAttach(k) ==
    /\ child[k] = "step3"
    /\ sem_down(k, "SEM_CLIENT")
    /\ ChildAt(k, "synced")
    /\ UNCHANGED <<parent, cliCount, seen, clientVars, memoryVars>>

\* Mutant: the parent is not told.
SyncedSilently(k) ==
    /\ child[k] = "synced"
    /\ ChildAt(k, "serve")
    /\ UNCHANGED <<parent, cliCount, seen, clientVars, memoryVars, still>>

\* The parent may accept the next client; db_open.
Synced(k) ==
    /\ child[k] = "synced"
    /\ sem_up(k, "SEM_SRV_QUEUE")
    /\ ChildAt(k, "serve")
    /\ UNCHANGED <<parent, cliCount, seen, clientVars, memoryVars>>

\* ipc_receive: the datagram is copied after the down.
TakeRequest(k) ==
    /\ child[k] = "serve"
    /\ PrivDown(k, "SEM_CLIENT")
    /\ ChildAt(k, "copy")
    /\ UNCHANGED <<parent, cliCount, seen, clientVars, memoryVars>>

CopyRequest(k) ==
    /\ child[k] = "copy"
    /\ seen' = [seen EXCEPT ![k] = priv[k]]
    /\ ChildAt(k, "execute")
    /\ UNCHANGED <<parent, cliCount, clientVars, memoryVars, still>>

\* execute_datagram and the memcpy of ipc_send.
Answer(k) ==
    /\ child[k] = "execute"
    /\ seen[k].kind # "exit"
    /\ priv' = [priv EXCEPT ![k] = Message("answer", seen[k].of)]
    /\ ChildAt(k, "answer")
    /\ UNCHANGED <<parent, cliCount, seen, clientVars, pub, there, still>>

\* An answer longer than the segment: ipc_send returns -1, and serve does not
\* look at it.
AnswerTooLong(k) ==
    /\ child[k] = "execute"
    /\ seen[k].kind = "request"
    /\ unheard' = unheard \cup {seen[k].of}
    /\ ChildAt(k, "serve")
    /\ UNCHANGED <<parent, cliCount, seen, clientVars, memoryVars, sets, semVars, amiss>>

\* Mutant: the server raises the client's semaphore.
SendAnswerToItself(k) ==
    /\ child[k] = "answer"
    /\ PrivUp(k, "SEM_CLIENT")
    /\ ChildAt(k, "serve")
    /\ UNCHANGED <<parent, cliCount, seen, clientVars, memoryVars>>

SendAnswer(k) ==
    /\ child[k] = "answer"
    /\ PrivUp(k, "SEM_SERVER")
    /\ ChildAt(k, "serve")
    /\ UNCHANGED <<parent, cliCount, seen, clientVars, memoryVars>>

\* An OP_PONG, or garbage, is none of execute_datagram's opcodes.
Ignore(k) ==
    /\ child[k] = "execute"
    /\ seen[k].kind \in {"answer", "zero"}
    /\ ChildAt(k, "serve")
    /\ UNCHANGED <<parent, cliCount, seen, clientVars, memoryVars, still>>

\* The database ends the child with exit(1): the segment stays.
ChildFails(k) ==
    /\ child[k] = "execute"
    /\ seen[k].kind # "exit"
    /\ ChildDies(k, {}, {})
    /\ UNCHANGED <<parent, cliCount, seen, clientVars, memoryVars>>

\* OP_EXIT: ipc_disconnect removes segment and semaphores, exit(0).  Of a
\* zeroed datagram no byte is copied, so that its opcode is what malloc left.
ChildExits(k) ==
    /\ child[k] = "execute"
    /\ seen[k].kind \in {"exit", "zero"}
    /\ ChildDies(k, {}, {})
    /\ there' = there \ {k}
    /\ UNCHANGED <<parent, cliCount, seen, clientVars, pub, priv>>

\* SIGINT: close_conn removes the segment and the semaphores of the session,
\* which are the public ones until the child has its own, and with ipc_free the
\* queue of everybody.
int_handler_child(k) ==
    /\ k \in Interrupted
    /\ child[k] \notin {"none", "gone"}
    /\ IF child[k] \in {"step1", "check", "fill", "create"}
       THEN ChildDies(k, {"sync", "queue"}, {"server"}) /\ UNCHANGED there
       ELSE ChildDies(k, {"queue"}, {"server"}) /\ there' = there \ {k}
    /\ UNCHANGED <<parent, cliCount, seen, clientVars, pub, priv>>

-----------------------------------------------------------------------------
(* A client: ipc_connect.                                                  *)

Connecting == {"stuck", "queue", "step0", "ask", "step1", "step2", "key", "wipe", "join",
               "step3", "release"}
Connected == {"step3", "release", "ready", "send", "wait"}
Quiet == parent = "accept" /\ \A c \in Client : client[c] \notin Connecting

\* shmem_attach zeroes the public segment, whoever is using it.  Without the
\* queue semaphores sem_queue_init makes some that are zero, and nobody's.
Attach(c) ==
    /\ client[c] = "down"
    /\ c \in Eager \/ Quiet
    /\ "sync" \in sets
    /\ started < MaxStart
    /\ started' = started + 1
    /\ pub' = Blank
    /\ ClientAt(c, IF "queue" \in sets THEN "queue" ELSE "stuck")
    /\ key' = [key EXCEPT ![c] = 0]
    /\ got' = [got EXCEPT ![c] = Zeroed]
    /\ unheard' = unheard \ {c}
    /\ Disturb(IF Quiet THEN {} ELSE {"client"})
    /\ UNCHANGED <<serverVars, priv, there, sets, semVars>>

\* Mutant: the client does not wait in the queue.
PassQueueAtOnce(c) ==
    /\ client[c] = "queue"
    /\ ClientAt(c, "step0")
    /\ UNCHANGED <<serverVars, key, got, started, memoryVars, still>>

PassQueue(c) ==
    /\ client[c] = "queue"
    /\ sem_down(c, "SEM_QUEUE")
    /\ ClientAt(c, "step0")
    /\ UNCHANGED <<serverVars, key, got, started, memoryVars>>

WakeServer(c) ==
    /\ client[c] = "step0"
    /\ sem_up(c, "SEM_CLIENT")
    /\ ClientAt(c, "ask")
    /\ UNCHANGED <<serverVars, key, got, started, memoryVars>>

Ask(c) ==
    /\ client[c] = "ask"
    /\ pub' = [pub EXCEPT !.opcode = "connect"]
    /\ ClientAt(c, "step1")
    /\ UNCHANGED <<serverVars, key, got, started, priv, there, still>>

WakeChild(c) ==
    /\ client[c] = "step1"
    /\ sem_up(c, "SEM_CLIENT")
    /\ ClientAt(c, "step2")
    /\ UNCHANGED <<serverVars, key, got, started, memoryVars>>

WaitKey(c) ==
    /\ client[c] = "step2"
    /\ sem_down(c, "SEM_SERVER")
    /\ ClientAt(c, "key")
    /\ UNCHANGED <<serverVars, key, got, started, memoryVars>>

TakeKey(c) ==
    /\ client[c] = "key"
    /\ key' = [key EXCEPT ![c] = pub.key]
    /\ ClientAt(c, "wipe")
    /\ UNCHANGED <<serverVars, got, started, memoryVars, still>>

Wipe(c) ==
    /\ client[c] = "wipe"
    /\ pub' = Blank
    /\ ClientAt(c, "join")
    /\ UNCHANGED <<serverVars, key, got, started, priv, there, still>>

\* shmem_get_with_key and shmem_attach; IPC_PRIVATE makes a segment, and
\* semaphores, that nobody else has.
Join(c) ==
    /\ client[c] = "join"
    /\ key[c] \in there \cup {0}
    /\ priv' = IF key[c] \in there THEN [priv EXCEPT ![key[c]] = Zeroed] ELSE priv
    /\ ClientAt(c, "step3")
    /\ UNCHANGED <<serverVars, key, got, started, pub, there, still>>

Attached(c) ==
    /\ client[c] = "step3"
    /\ sem_up(c, "SEM_CLIENT")
    /\ ClientAt(c, "release")
    /\ UNCHANGED <<serverVars, key, got, started, memoryVars>>

FreeQueue(c) ==
    /\ client[c] = "release"
    /\ sem_up(c, "SEM_QUEUE")
    /\ ClientAt(c, "ready")
    /\ UNCHANGED <<serverVars, key, got, started, memoryVars>>

-----------------------------------------------------------------------------
(* A client: main and int_handler of client.c.                             *)

\* A segment stays with who has attached it, whether or not it was removed.
InSegment(c, m) ==
    priv' = IF key[c] \in Child THEN [priv EXCEPT ![key[c]] = m] ELSE priv

\* On semaphores that were removed semop fails at once; nobody looks.
SignalServer(c) ==
    IF key[c] \in there THEN PrivUp(key[c], "SEM_CLIENT") ELSE UNCHANGED still

Send(c) ==
    /\ client[c] = "ready"
    /\ InSegment(c, Message("request", c))
    /\ ClientAt(c, "send")
    /\ UNCHANGED <<serverVars, key, got, started, pub, there, still>>

\* A command longer than the segment: ipc_send returns -1, main does not look
\* at it and waits for the answer.
SendTooLong(c) ==
    /\ client[c] = "ready"
    /\ unheard' = unheard \cup {c}
    /\ ClientAt(c, "wait")
    /\ UNCHANGED <<serverVars, key, got, started, memoryVars, sets, semVars, amiss>>

Sent(c) ==
    /\ client[c] = "send"
    /\ SignalServer(c)
    /\ ClientAt(c, "wait")
    /\ UNCHANGED <<serverVars, key, got, started, memoryVars>>

TakeAnswer(c) ==
    /\ client[c] = "wait"
    /\ key[c] \in Child
    /\ IF key[c] \in there THEN PrivDown(key[c], "SEM_SERVER") ELSE UNCHANGED still
    /\ got' = [got EXCEPT ![c] = priv[key[c]]]
    /\ ClientAt(c, "ready")
    /\ UNCHANGED <<serverVars, key, started, memoryVars>>

\* OP_EXIT goes into the segment, whatever it holds.
send_exit(c) ==
    /\ InSegment(c, Message("exit", c))
    /\ ClientAt(c, "exit")
    /\ UNCHANGED <<serverVars, key, got, started, pub, there, sets, semVars, unheard>>

\* "exit".
Exit(c) ==
    /\ client[c] = "ready"
    /\ send_exit(c)
    /\ UNCHANGED amiss

\* SIGINT once the client has attached its segment.
int_handler_client(c) ==
    /\ c \in Interrupted
    /\ client[c] \in Connected
    /\ send_exit(c)
    /\ Disturb({"client"})

\* The end of the input: no OP_EXIT.
EndOfInput(c) ==
    /\ client[c] = "ready"
    /\ ClientAt(c, "end of input")
    /\ UNCHANGED <<serverVars, key, got, started, memoryVars, still>>

\* Mutant: OP_EXIT is written and the server not woken.
ExitUnsent(c) ==
    /\ client[c] = "exit"
    /\ ClientAt(c, "end")
    /\ UNCHANGED <<serverVars, key, got, started, memoryVars, still>>

ExitSent(c) ==
    /\ client[c] = "exit"
    /\ SignalServer(c)
    /\ ClientAt(c, "end")
    /\ UNCHANGED <<serverVars, key, got, started, memoryVars>>

\* SIGINT while the client still has the public segment: OP_EXIT goes there,
\* and with it what malloc left where the key is.
Abandon(c) ==
    /\ c \in Interrupted
    /\ client[c] \in Connecting \ {"join", "step3", "release"}
    /\ \E k \in {0, Garbage} : pub' = [opcode |-> "exit", key |-> k]
    /\ ClientAt(c, "abandon")
    /\ Disturb({"client"})
    /\ UNCHANGED <<serverVars, key, got, started, priv, there, sets, semVars, unheard>>

Abandoned(c) ==
    /\ client[c] = "abandon"
    /\ sem_up(c, "SEM_CLIENT")
    /\ ClientAt(c, "end")
    /\ UNCHANGED <<serverVars, key, got, started, memoryVars>>

\* The process ends: after OP_EXIT or the end of the input, or because shmget
\* fails.  The ups on its private semaphore are undone as well.
ClientDies(c, why) ==
    /\ IF c \in Flagged /\ key[c] \in there
       THEN \E left \in 0..psem[key[c]]["SEM_CLIENT"] :
              /\ psem' = [psem EXCEPT ![key[c]]["SEM_CLIENT"] = left]
              /\ Undone(c, {}, why \cup {w \in {"undo"} : psem' # psem})
       ELSE UNCHANGED psem /\ Undone(c, {}, why)
    /\ ClientAt(c, "down")
    /\ UNCHANGED <<serverVars, key, got, started, memoryVars, unheard>>

End(c) ==
    /\ \/ client[c] \in {"end", "end of input"}
       \/ client[c] = "join" /\ key[c] \notin there \cup {0}
    /\ ClientDies(c, {})

\* SIGINT between two segments: int_handler writes to memory that is not mapped.
Crash(c) ==
    /\ c \in Interrupted
    /\ client[c] = "join"
    /\ ClientDies(c, {"client"})

-----------------------------------------------------------------------------
ServerStep == ResetClient \/ ResetServer \/ Accept \/ WaitSync
ChildStep(k) ==
    \/ Wake(k) \/ CheckConnect(k) \/ SyncError(k) \/ FillKey(k) \/ Create(k)
    \/ WakeClient(k) \/ WaitAttach(k) \/ Synced(k)
    \/ TakeRequest(k) \/ CopyRequest(k) \/ Answer(k) \/ SendAnswer(k)
    \/ AnswerTooLong(k) \/ Ignore(k) \/ ChildExits(k)
ConnectStep(c) ==
    \/ PassQueue(c) \/ WakeServer(c) \/ Ask(c) \/ WakeChild(c) \/ WaitKey(c)
    \/ TakeKey(c) \/ Wipe(c) \/ Join(c) \/ Attached(c) \/ FreeQueue(c)
ClientStep(c) ==
    ConnectStep(c) \/ Sent(c) \/ TakeAnswer(c) \/ ExitSent(c) \/ Abandoned(c) \/ End(c)

Init ==
    /\ parent = "resetClient" /\ cliCount = 0
    /\ child = [k \in Child |-> "none"]
    /\ seen = [k \in Child |-> Zeroed]
    /\ client = [c \in Client |-> "down"]
    /\ key = [c \in Client |-> 0]
    /\ got = [c \in Client |-> Zeroed]
    /\ started = 0
    /\ pub = Blank
    /\ priv = [k \in Child |-> Zeroed]
    /\ there = {}
    /\ sem = [s \in Public |-> IF s = "SEM_QUEUE" THEN 1 ELSE 0]
    /\ psem = [k \in Child |-> [s \in Private |-> 0]]
    /\ undo = [p \in Process |-> NoUndo]
    /\ sets = {"sync", "queue"} /\ unheard = {} /\ amiss = {}

Next ==
    \/ ServerStep \/ int_handler
    \/ \E k \in Child : ChildStep(k) \/ ChildFails(k) \/ int_handler_child(k)
    \/ \E c \in Client :
          \/ ClientStep(c) \/ Attach(c) \/ Send(c) \/ SendTooLong(c) \/ Exit(c)
          \/ EndOfInput(c) \/ int_handler_client(c) \/ Abandon(c) \/ Crash(c)

Spec == Init /\ [][Next]_vars

\* Every process that can go on is scheduled.
FairSpec ==
    /\ Spec
    /\ WF_vars(ServerStep)
    /\ \A k \in Child : WF_vars(ChildStep(k))
    /\ \A c \in Client : WF_vars(ClientStep(c))

-----------------------------------------------------------------------------
Keys == Child \cup {0, Garbage}
Syncing == {"step1", "check", "fill", "create", "step2", "step3", "synced"}
Handshake == Connecting \ {"queue", "stuck"}

\* Types.  A semaphore never goes below zero, and a key is that of a child.
TypeOK ==
    /\ parent \in {"resetClient", "resetServer", "accept", "waitsync", "gone"}
    /\ cliCount \in 0..MaxChild
    /\ child \in [Child -> Syncing \cup
                            {"none", "serve", "copy", "execute", "answer", "gone"}]
    /\ seen \in [Child -> Messages]
    /\ client \in [Client -> Connecting \cup Connected \cup
                       {"down", "exit", "abandon", "end", "end of input"}]
    /\ key \in [Client -> Keys]
    /\ got \in [Client -> Messages]
    /\ started \in 0..MaxStart
    /\ pub \in [opcode : {"zero", "connect", "exit"}, key : Keys]
    /\ priv \in [Child -> Messages]
    /\ there \in SUBSET Child
    /\ sets \subseteq {"sync", "queue"}
    /\ sem \in [Public -> Nat]
    /\ psem \in [Child -> [Private -> Nat]]
    /\ undo \in [Process -> [Public -> [down : Nat, up : 0..MaxUps]]]
    /\ unheard \subseteq Client
    /\ amiss \subseteq {"client", "server", "undo"}

\* The server does not listen for the next client, nor reset the semaphores
\* of the handshake, while the child of the last one is still in it.  This
\* holds whatever the clients do, and whatever is undone; SIGINT of a child
\* removes the semaphore the server waits for.
AcceptAfterSync ==
    "server" \notin amiss /\ parent # "waitsync" =>
        \A k \in Child : child[k] \notin Syncing

\* SEM_QUEUE lets one client at a time into the handshake, whenever clients come
\* and whoever is interrupted, until the first client ends: from then on its
\* undone down makes room for two (and SIGINT of a child removes the queue).
QueueHolds ==
    /\ "server" \notin amiss
    /\ started = Cardinality({c \in Client : client[c] # "down"})
    => Cardinality({c \in Client : client[c] \in Handshake}) <= 1

\* Two connected clients never share a private segment.
SessionsApart ==
    \A c, d \in Client :
        c # d /\ {client[c], client[d]} \subseteq Connected => key[c] # key[d]

\* What a client takes for an answer is the answer to its own command, never
\* its request, another client's answer or a segment just zeroed.
OwnAnswers == \A c \in Client : got[c] \in {Zeroed, Message("answer", c)}

\* What a child executes is a command of its client, never its own answer.
ServesCommands ==
    \A k \in Child : child[k] = "execute" => seen[k].kind \in {"request", "exit"}

\* The types; and as long as clients come one at a time and nobody is
\* interrupted, sessions have segments of their own, through which commands go
\* one way and answers the other, whatever is undone.
SessionsSound ==
    /\ TypeOK
    /\ amiss \subseteq {"undo"} => SessionsApart /\ OwnAnswers /\ ServesCommands

\* A client in the handshake gets through it, unless the protocol is disturbed.
Connects ==
    \A c \in Client :
        (client[c] \in Handshake) ~> (client[c] \notin Handshake \/ amiss # {})

Childless(c) == \A k \in Child : k = key[c] => child[k] = "gone"

\* A client that waits for an answer gets one, unless one of the two datagrams
\* was too long, the database has ended its child, or the protocol is disturbed.
Answered ==
    \A c \in Client :
        (client[c] = "wait")
            ~> (client[c] # "wait" \/ c \in unheard \/ amiss # {} \/ Childless(c))

\* The server listens again after every client, however the client behaves
\* once it is connected, unless the protocol is disturbed.
AcceptsAgain == (parent = "waitsync") ~> (parent = "accept" \/ amiss # {})

\* The child of a client that says OP_EXIT ends, and removes its segment, unless
\* the protocol is disturbed.
ExitHeard ==
    \A c \in Client : (client[c] = "end") ~> (Childless(c) \/ amiss # {})
=============================================================================

-------------------------------- MODULE Fifo --------------------------------
(***************************************************************************)
(* ipc/fifo.c with the semaphore of ipc/lib/semaphore.c, under             *)
(* server/server.c and client/client.c.  All clients connect through one   *)
(* pair of public FIFOs; each is told there the path of a pair of its own, *)
(* which it shares with the child that serves it.                          *)
(*                                                                         *)
(* FIFOs (external): open blocks until the other end is open, or opened    *)
(* at the same time; a read takes all there is (it fits in                 *)
(* DATAGRAM_MAXSIZE), blocks while there is nothing but a writer, and      *)
(* returns 0 without one; a write without a reader is SIGPIPE.  Who has    *)
(* which end open follows from where the processes are.  Only the first of *)
(* the datagrams of a read is looked at.  After a read of 0 bytes          *)
(* ipc_receive returns NULL, and every caller reads it: the process is     *)
(* gone, and its files stay.                                               *)
(*                                                                         *)
(* A client is one process; execute_datagram is one step (see              *)
(* Database.tla), and it may end the child.  One run of the server.        *)
(***************************************************************************)
EXTENDS Integers, Sequences, FiniteSets

CONSTANTS
    Client,       \* client processes
    Talker,       \* those of them that send commands
    Interrupted,  \* the processes that may get a SIGINT (0: the server)
    MaxChild      \* bound: children the server forks

ASSUME FifoAssumption ==
    /\ MaxChild \in Nat /\ Client \cap (0..MaxChild) = {}
    /\ Talker \subseteq Client
    /\ Interrupted \subseteq Client \cup 0..MaxChild

Child == 1..MaxChild

VARIABLES
    parent,    \* where the accepting process is
    cliCount,  \* cli_count
    sem,       \* SEM_QUEUE, or Removed
    there,     \* the public FIFOs that have not been unlinked
    pubR,      \* what is in the public FIFO to the server
    pubW,      \* the paths in the public FIFO from the server
    child,     \* child[k]: where the process of the k-th accept is
    seen,      \* seen[k]: the datagram it is working on
    privR,     \* privR[k]: what is in the FIFO to child k
    privW,     \* privW[k]: what is in the FIFO from child k
    client,    \* client[c]: where client c is
    path,      \* path[c]: the child whose FIFOs it was told (0: none)
    asked,     \* asked[c]: a bit that tells its last command from the one before
    got,       \* got[c]: the answer it took last
    unheard    \* history: clients with a datagram that was lost or not sent

serverVars == <<parent, cliCount, sem>>
publicVars == <<there, pubR, pubW>>
childVars == <<child, seen>>
privateVars == <<privR, privW>>
clientVars == <<client, path, asked, got>>
vars == <<serverVars, publicVars, childVars, privateVars, clientVars, unheard>>

-----------------------------------------------------------------------------
Removed == -1
Message(kind, c, bit) == [kind |-> kind, of |-> c, bit |-> bit]
Messages ==
    [kind : {"connect", "request", "answer", "exit"}, of : Client, bit : {0, 1}]
Nothing == Message("nothing", 0, 0)

ParentAt(label) == parent' = label
ChildAt(k, label) == child' = [child EXCEPT ![k] = label]
ClientAt(c, label) == client' = [client EXCEPT ![c] = label]

Alive(k) == child[k] \notin {"none", "gone"}

\* The accepting process never closes what it opens, and a child inherits all
\* of it and closes the last pair: the later children keep the FIFOs open.
ChildHolds == \E k \in Child : Alive(k) /\ (k > 1 \/ child[k] \in {"tell", "release"})
HoldsR == ChildHolds \/ (parent # "gone" /\ (cliCount > 0 \/ parent \in {"openW", "read"}))
HoldsW == ChildHolds \/ (parent # "gone" /\ (cliCount > 0 \/ parent = "read"))

\* The clients at the other ends.
WritersR == {c \in Client : client[c] \in {"openW", "connect", "path"}}
ReadersW == {c \in Client : client[c] \in {"connect", "path"}}

\* The client of child k, by the end of the private FIFOs that it has open.
WriterOf(k) == {c \in Client : path[c] = k /\ client[c] \in {"ack", "ready", "wait"}}
ReaderOf(k) == {c \in Client : path[c] = k /\ client[c] \in {"privR", "ack", "ready", "wait"}}

\* Everything behind the first of the datagrams in a FIFO is lost; all their
\* senders may be the ones to miss it, since nobody is named in an answer.
Merged(buf) ==
    IF Len(buf) > 1
    THEN {buf[i].of : i \in DOMAIN buf} \cap {c \in Client : client[c] # "gone"}
    ELSE {}
Lose(cs) == unheard' = unheard \cup cs

-----------------------------------------------------------------------------
(* The accepting process: ipc_accept and ipc_waitsync.                     *)

At(here, next) == [c \in Client |-> IF client[c] = here THEN next ELSE client[c]]

\* open(-r, O_RDONLY) lets the clients go that are in the open of the other end.
OpenR ==
    /\ parent = "openR" /\ "r" \in there
    /\ WritersR # {} \/ \E c \in Client : client[c] = "openR"
    /\ ParentAt("openW")
    /\ client' = At("openR", "openW")
    /\ UNCHANGED <<cliCount, sem, publicVars, childVars, privateVars, path, asked, got, unheard>>

OpenW ==
    /\ parent = "openW" /\ "w" \in there
    /\ ReadersW # {} \/ \E c \in Client : client[c] = "openW"
    /\ ParentAt("read")
    /\ client' = At("openW", "connect")
    /\ UNCHANGED <<cliCount, sem, publicVars, childVars, privateVars, path, asked, got, unheard>>

\* A child has unlinked a public FIFO: open fails, and the server ends with the
\* NULL of ipc_receive or hangs before it.
OpenFails ==
    /\ \/ parent = "openR" /\ "r" \notin there
       \/ parent = "openW" /\ "w" \notin there
    /\ ParentAt("gone") \/ ParentAt("stuck")
    /\ UNCHANGED <<cliCount, sem, publicVars, childVars, privateVars, clientVars, unheard>>

Accept ==
    /\ parent = "read"
    /\ cliCount < MaxChild
    /\ pubR # <<>> /\ Head(pubR).kind = "connect"
    /\ pubR' = <<>>
    /\ Lose({c \in Merged(pubR) : client[c] = "path"})
    /\ cliCount' = cliCount + 1
    /\ ChildAt(cliCount', "tell")
    /\ ParentAt("waitsync")
    /\ UNCHANGED <<sem, there, pubW, seen, privateVars, clientVars>>

\* ipc_disconnect and ipc_free of the server.
ParentEnds ==
    /\ ParentAt("gone")
    /\ there' = {}
    /\ sem' = Removed
    /\ UNCHANGED <<cliCount, pubR, pubW, childVars, privateVars, clientVars, unheard>>

\* The OP_EXIT of a client that was interrupted.
AcceptError ==
    /\ parent = "read"
    /\ pubR # <<>> /\ Head(pubR).kind # "connect"
    /\ ParentEnds

\* All clients have closed the FIFO.
AcceptNull ==
    /\ parent = "read"
    /\ pubR = <<>> /\ WritersR = {}
    /\ ParentAt("gone")
    /\ UNCHANGED <<cliCount, sem, publicVars, childVars, privateVars, clientVars, unheard>>

\* SIGINT: close_conn.
ParentInterrupt ==
    /\ parent # "gone" /\ 0 \in Interrupted
    /\ ParentEnds

WaitSync ==
    /\ parent = "waitsync"
    /\ \/ sem > 0 /\ sem' = sem - 1
       \/ sem = Removed /\ UNCHANGED sem
    /\ ParentAt("openR")
    /\ UNCHANGED <<cliCount, publicVars, childVars, privateVars, clientVars, unheard>>

-----------------------------------------------------------------------------
(* The end of a child.                                                     *)

ChildEnds(k) ==
    /\ ChildAt(k, "gone")
    /\ seen' = [seen EXCEPT ![k] = Nothing]
    /\ UNCHANGED <<parent, cliCount, pubR, pubW, clientVars>>

\* exit or a crash: an up of the semaphore may be undone (sem_flg is not
\* initialised).
Undone(k) ==
    sem' \in {sem} \cup (IF sem > 0 /\ child[k] \notin {"tell", "release"}
                         THEN {sem - 1} ELSE {})

\* ipc_disconnect and ipc_free of a child: session->path_w and session->path_r
\* are the public ones until the private ones have been opened.
CloseConn(k) ==
    /\ there' = CASE child[k] \in {"tell", "release", "privW"} -> {}
                  [] child[k] = "privR" -> there \ {"r"}
                  [] OTHER -> there
    /\ sem' = Removed
    /\ ChildEnds(k)

\* SIGINT: close_conn.
ChildInterrupt(k) ==
    /\ Alive(k) /\ k \in Interrupted
    /\ CloseConn(k)
    /\ UNCHANGED <<privateVars, unheard>>

-----------------------------------------------------------------------------
(* A child: ipc_sync.                                                      *)

\* Mutant: the path is not sent.
TellNot(k) ==
    /\ child[k] = "tell"
    /\ ReadersW # {}
    /\ ChildAt(k, "release")
    /\ UNCHANGED <<serverVars, publicVars, seen, privateVars, clientVars, unheard>>

TellPath(k) ==
    /\ child[k] = "tell"
    /\ ReadersW # {}
    /\ pubW' = Append(pubW, k)
    /\ ChildAt(k, "release")
    /\ UNCHANGED <<serverVars, there, pubR, seen, privateVars, clientVars, unheard>>

\* SIGPIPE: the client is gone.
TellNobody(k) ==
    /\ child[k] = "tell"
    /\ ReadersW = {}
    /\ CloseConn(k)
    /\ UNCHANGED <<privateVars, unheard>>

\* The public FIFOs are closed; sem_up.
Release(k) ==
    /\ child[k] = "release"
    /\ sem' = IF sem = Removed THEN Removed ELSE sem + 1
    /\ ChildAt(k, "privW")
    /\ UNCHANGED <<parent, cliCount, publicVars, seen, privateVars, clientVars, unheard>>

\* Child and client open the private FIFOs in the same order, and wait for each
\* other.
Meet(k, c) ==
    /\ path[c] = k
    /\ \/ child[k] = "privW" /\ client[c] = "privW" /\ ChildAt(k, "privR") /\ ClientAt(c, "privR")
       \/ child[k] = "privR" /\ client[c] = "privR" /\ ChildAt(k, "ack") /\ ClientAt(c, "ack")
    /\ UNCHANGED <<serverVars, publicVars, seen, privateVars, path, asked, got, unheard>>

\* A read of the private FIFO.
Drain(k) ==
    /\ privR[k] # <<>>
    /\ privR' = [privR EXCEPT ![k] = <<>>]
    /\ Lose(Merged(privR[k]))
    /\ UNCHANGED privW

\* The first datagram must be OP_CONNECT; db_open.
Synced(k) ==
    /\ child[k] = "ack"
    /\ Drain(k)
    /\ Head(privR[k]).kind = "connect"
    /\ ChildAt(k, "serve")
    /\ UNCHANGED <<serverVars, publicVars, seen, clientVars>>

SyncError(k) ==
    /\ child[k] = "ack"
    /\ Drain(k)
    /\ Head(privR[k]).kind # "connect"
    /\ CloseConn(k)

\* Mutant: a read of 0 bytes is tried again.
ReceiveAgain(k) ==
    /\ child[k] \in {"ack", "serve"}
    /\ privR[k] = <<>> /\ WriterOf(k) = {}
    /\ UNCHANGED vars

\* The client has closed the FIFO.
ReceiveNull(k) ==
    /\ child[k] \in {"ack", "serve"}
    /\ privR[k] = <<>> /\ WriterOf(k) = {}
    /\ Undone(k)
    /\ ChildEnds(k)
    /\ UNCHANGED <<there, privateVars, unheard>>

-----------------------------------------------------------------------------
(* A child: serve.                                                         *)

Receive(k) ==
    /\ child[k] = "serve"
    /\ Drain(k)
    /\ seen' = [seen EXCEPT ![k] = Head(privR[k])]
    /\ ChildAt(k, "execute")
    /\ UNCHANGED <<serverVars, publicVars, clientVars>>

Executed(k) ==
    /\ child[k] = "execute"
    /\ seen[k].kind = "request"
    /\ ChildAt(k, "serve")
    /\ seen' = [seen EXCEPT ![k] = Nothing]
    /\ UNCHANGED <<serverVars, publicVars, privR, clientVars>>

\* Mutant: the answer is not sent.
AnswerNot(k) == Executed(k) /\ UNCHANGED <<privW, unheard>>

\* Mutant: the child sends again what it has sent already.
AnswerAgain(k) ==
    /\ child[k] = "execute"
    /\ seen[k].kind = "request"
    /\ ReaderOf(k) # {}
    /\ privW' = [privW EXCEPT ![k] = Append(@, Message("answer", seen[k].of, seen[k].bit))]
    /\ ChildAt(k, "execute") \/ ChildAt(k, "serve")
    /\ UNCHANGED <<serverVars, publicVars, seen, privR, clientVars, unheard>>

Answer(k) ==
    /\ ReaderOf(k) # {}
    /\ Executed(k)
    /\ privW' = [privW EXCEPT ![k] = Append(@, Message("answer", seen[k].of, seen[k].bit))]
    /\ UNCHANGED unheard

\* SIGPIPE: close_conn, which removes the semaphore of the queue, too.
AnswerGone(k) ==
    /\ child[k] = "execute"
    /\ seen[k].kind = "request"
    /\ ReaderOf(k) = {}
    /\ CloseConn(k)
    /\ UNCHANGED <<privateVars, unheard>>

\* An answer longer than DATAGRAM_MAXSIZE: ipc_send returns -1, and serve does
\* not look.
AnswerTooLong(k) ==
    /\ Executed(k)
    /\ Lose(ReaderOf(k))
    /\ UNCHANGED privW

\* OP_EXIT: the private FIFOs are unlinked.  Or exit(1) of the database.
ChildExits(k) ==
    /\ child[k] = "execute"
    /\ seen[k].kind = "exit"
    /\ Undone(k)
    /\ ChildEnds(k)
    /\ UNCHANGED <<there, privateVars, unheard>>

ChildFails(k) ==
    /\ child[k] = "execute"
    /\ seen[k].kind = "request"
    /\ Undone(k)
    /\ ChildEnds(k)
    /\ UNCHANGED <<there, privateVars, unheard>>

-----------------------------------------------------------------------------
(* A client.                                                               *)

\* What a process that ends has asked and taken does not matter any more.
ClientEnds(c) ==
    /\ ClientAt(c, "gone")
    /\ asked' = [asked EXCEPT ![c] = 0]
    /\ got' = [got EXCEPT ![c] = Nothing]
    /\ unheard' = unheard \ {c}
    /\ UNCHANGED <<serverVars, there, pubW, childVars, privW, path>>

Start(c) ==
    /\ client[c] = "start"
    /\ ClientAt(c, IF there = {"r", "w"} THEN "openR" ELSE "gone")
    /\ UNCHANGED <<serverVars, publicVars, childVars, privateVars, path, asked, got, unheard>>

\* ipc_connect: the opens of the public FIFOs let the server go if it is in the
\* open of the other end.
ClientOpenR(c) ==
    /\ client[c] = "openR" /\ "r" \in there
    /\ HoldsR
    /\ ClientAt(c, "openW")
    /\ parent' = IF parent = "openR" THEN "openW" ELSE parent
    /\ UNCHANGED <<cliCount, sem, publicVars, childVars, privateVars, path, asked, got, unheard>>

ClientOpenW(c) ==
    /\ client[c] = "openW" /\ "w" \in there
    /\ HoldsW
    /\ ClientAt(c, "connect")
    /\ parent' = IF parent = "openW" THEN "read" ELSE parent
    /\ UNCHANGED <<cliCount, sem, publicVars, childVars, privateVars, path, asked, got, unheard>>

\* The FIFO was unlinked meanwhile: open fails, and the client ends with the
\* NULL of ipc_receive.  Or it has been in open since before, and stays there:
\* the step need not happen.
ClientOpenFails(c) ==
    /\ \/ client[c] = "openR" /\ "r" \notin there
       \/ client[c] = "openW" /\ "w" \notin there
    /\ ClientEnds(c)
    /\ UNCHANGED <<pubR, privR>>

\* Nobody has the other end of the FIFO any more: SIGPIPE, or the NULL of
\* ipc_receive.
ConnectFails(c) ==
    /\ \/ client[c] = "connect" /\ ~HoldsR
       \/ client[c] = "path" /\ pubW = <<>> /\ ~HoldsW
       \/ client[c] \in {"ack", "ready"} /\ ~Alive(path[c])
       \/ client[c] = "wait" /\ ~Alive(path[c]) /\ privW[path[c]] = <<>>
    /\ ClientEnds(c)
    /\ UNCHANGED <<pubR, privR>>

Connect(c) ==
    /\ client[c] = "connect"
    /\ HoldsR
    /\ pubR' = Append(pubR, Message("connect", c, 0))
    /\ ClientAt(c, "path")
    /\ UNCHANGED <<serverVars, there, pubW, childVars, privateVars, path, asked, got, unheard>>

\* The first path in the FIFO, whoever it was for; the public FIFOs are closed.
ReadPath(c) ==
    /\ client[c] = "path"
    /\ pubW # <<>>
    /\ path' = [path EXCEPT ![c] = Head(pubW)]
    /\ pubW' = <<>>
    /\ unheard' = (unheard \cup IF Len(pubW) > 1 THEN {d \in Client : client[d] = "path"} ELSE {})
                     \ {c}
    /\ ClientAt(c, "privW")
    /\ UNCHANGED <<serverVars, there, pubR, childVars, privateVars, asked, got>>

\* ipc_send of a client.
Write(c, m) ==
    /\ Alive(path[c])
    /\ privR' = [privR EXCEPT ![path[c]] = Append(@, m)]
    /\ UNCHANGED <<serverVars, publicVars, childVars, privW, path, got, unheard>>

Ack(c) ==
    /\ client[c] = "ack"
    /\ Write(c, Message("connect", c, 0))
    /\ ClientAt(c, "ready")
    /\ UNCHANGED asked

Send(c) ==
    /\ client[c] = "ready" /\ c \in Talker
    /\ asked' = [asked EXCEPT ![c] = 1 - @]
    /\ Write(c, Message("request", c, asked'[c]))
    /\ ClientAt(c, "wait")

\* A command longer than DATAGRAM_MAXSIZE: ipc_send returns -1, main does not
\* look and waits for the answer.
SendTooLong(c) ==
    /\ client[c] = "ready" /\ c \in Talker
    /\ asked' = [asked EXCEPT ![c] = 1 - @]
    /\ Lose({c})
    /\ ClientAt(c, "wait")
    /\ UNCHANGED <<serverVars, publicVars, childVars, privateVars, path, got>>

Take(c) ==
    /\ client[c] = "wait"
    /\ privW[path[c]] # <<>>
    /\ got' = [got EXCEPT ![c] = Head(privW[path[c]])]
    /\ privW' = [privW EXCEPT ![path[c]] = <<>>]
    /\ ClientAt(c, "ready")
    /\ UNCHANGED <<serverVars, publicVars, childVars, privR, path, asked, unheard>>

\* send_exit: "exit", or SIGINT at any moment; it goes where serverfd_r leads.
SendExit(c) ==
    /\ client[c] = "ready" \/ c \in Interrupted
    /\ \/ /\ c \in WritersR
          /\ pubR' = IF HoldsR THEN Append(pubR, Message("exit", c, 0)) ELSE pubR
          /\ UNCHANGED privR
       \/ /\ client[c] \in {"ack", "ready", "wait"}
          /\ privR' = IF Alive(path[c])
                      THEN [privR EXCEPT ![path[c]] = Append(@, Message("exit", c, 0))]
                      ELSE privR
          /\ UNCHANGED pubR
    /\ ClientEnds(c)

\* The end of the input; or SIGINT while serverfd_r leads nowhere.
Leave(c) ==
    /\ \/ client[c] = "ready"
       \/ c \in Interrupted /\ client[c] \in {"openR", "privW", "privR"}
    /\ ClientEnds(c)
    /\ UNCHANGED <<pubR, privR>>

-----------------------------------------------------------------------------
\* After ipc_listen.
Init ==
    /\ parent = "openR" /\ cliCount = 0 /\ sem = 0
    /\ there = {"r", "w"} /\ pubR = <<>> /\ pubW = <<>>
    /\ child = [k \in Child |-> "none"]
    /\ seen = [k \in Child |-> Nothing]
    /\ privR = [k \in Child |-> <<>>]
    /\ privW = [k \in Child |-> <<>>]
    /\ client = [c \in Client |-> "start"]
    /\ path = [c \in Client |-> 0]
    /\ asked = [c \in Client |-> 0]
    /\ got = [c \in Client |-> Nothing]
    /\ unheard = {}

ParentStep ==
    OpenR \/ OpenW \/ OpenFails \/ Accept \/ AcceptError \/ AcceptNull \/ WaitSync

ChildStep(k) ==
    \/ TellPath(k) \/ TellNobody(k) \/ Release(k) \/ Synced(k) \/ SyncError(k)
    \/ ReceiveNull(k) \/ Receive(k) \/ Answer(k) \/ AnswerGone(k) \/ AnswerTooLong(k)
    \/ ChildExits(k) \/ \E c \in Client : Meet(k, c)

ClientStep(c) ==
    \/ ClientOpenR(c) \/ ClientOpenW(c) \/ ConnectFails(c) \/ Connect(c)
    \/ ReadPath(c) \/ Ack(c) \/ Take(c)

Next ==
    \/ ParentStep \/ ParentInterrupt
    \/ \E k \in Child : ChildStep(k) \/ ChildFails(k) \/ ChildInterrupt(k)
    \/ \E c \in Client :
          \/ ClientStep(c) \/ Start(c) \/ ClientOpenFails(c)
          \/ Send(c) \/ SendTooLong(c) \/ SendExit(c) \/ Leave(c)

\* Every process that can go on is scheduled.
Spec == /\ Init /\ [][Next]_vars
        /\ WF_vars(ParentStep)
        /\ \A k \in Child : WF_vars(ChildStep(k))
        /\ \A c \in Client : WF_vars(ClientStep(c))

-----------------------------------------------------------------------------
Phase(c) ==
    CASE client[c] = "gone" -> "left"
      [] client[c] = "ready" -> "idle"
      [] client[c] = "wait" -> "waiting"
      [] OTHER -> "out"

\* The bit of the answer a client has, if it is an answer to it (else 2).
Heard(c) == IF got[c] = Nothing \/ got[c].of = c THEN got[c].bit ELSE 2

S == INSTANCE Service WITH
        phase <- [c \in Client |-> Phase(c)],
        heard <- [c \in Client |-> Heard(c)]

\* Types, and that a FIFO never holds more than what was written between two
\* reads.
TypeOK ==
    /\ parent \in {"openR", "openW", "read", "waitsync", "stuck", "gone"}
    /\ cliCount \in 0..MaxChild
    /\ sem \in {Removed} \cup 0..MaxChild
    /\ there \subseteq {"r", "w"}
    /\ pubR \in Seq(Messages)
    /\ pubW \in Seq(1..cliCount)
    /\ child \in [Child -> {"none", "tell", "release", "privW", "privR", "ack", "serve",
                            "execute", "gone"}]
    /\ seen \in [Child -> Messages \cup {Nothing}]
    /\ privR \in [Child -> Seq(Messages)] /\ \A k \in Child : Len(privR[k]) <= 3
    /\ privW \in [Child -> Seq(Messages)] /\ \A k \in Child : Len(privW[k]) <= 1
    /\ client \in [Client -> {"start", "openR", "openW", "connect", "path", "privW",
                              "privR", "ack", "ready", "wait", "gone"}]
    /\ path \in [Client -> 0..cliCount]
    /\ asked \in [Client -> {0, 1}]
    /\ got \in [Client -> Messages \cup {Nothing}]
    /\ unheard \subseteq Client

\* However clients meet at the public FIFOs, and whoever is interrupted there,
\* a client that got through has FIFOs of its own: it is answered its own
\* commands, and no connection is lost.
RefinesService == S!ServiceSpec

\* A client that waits for an answer gets it or ends; it waits for ever only if
\* a command or an answer was too long, or the command reached the child
\* together with the OP_CONNECT before it.
Answered ==
    \A c \in Client :
        (client[c] = "wait") ~> (client[c] # "wait" \/ c \in unheard)

\* A client that asked for a connection gets FIFOs of its own that a child has
\* opened, or ends; it waits for ever only if its OP_CONNECT or a path was lost
\* in a read that took two, or if a process of the server ended meanwhile: the
\* accepting one, or a child, which then takes the public FIFOs or an up of
\* the semaphore with it.
Connected ==
    \A c \in Client :
        (client[c] \in {"path", "privW", "privR"})
            ~> \/ client[c] \notin {"path", "privW", "privR"}
               \/ c \in unheard
               \/ parent = "gone"
               \/ there # {"r", "w"}
               \/ parent = "waitsync" /\ \E k \in Child : child[k] = "gone"

\* A child whose client has left ends, whether it was told so or not.
ChildrenEnd ==
    \A k \in Child :
        (child[k] \in {"ack", "serve", "execute"} /\ ReaderOf(k) = {}) ~> (child[k] = "gone")

\* "En caso de ser necesario, esperamos que el cliente termine de sincronizar
\* con el servidor para aceptar el proximo cliente" (server.c): when the server
\* goes back to the public FIFOs, no client that it has accepted still has them
\* open.  (If one has, its close is the end of the file, and of the server.)
AcceptAfterSync ==
    parent \in {"openW", "read"} =>
        \A c \in Client : client[c] = "path" =>
            \E i \in DOMAIN pubR : pubR[i].of = c
=============================================================================

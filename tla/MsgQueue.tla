------------------------------ MODULE MsgQueue ------------------------------
(***************************************************************************)
(* ipc/msgqueue.c under server/server.c and client/client.c.  Two System V *)
(* queues (external) are shared by all: commands go to queue r, answers    *)
(* to queue w under the pid of the client.  ipc_shouldfork is FALSE: the   *)
(* first client to connect turns the server itself into the process that   *)
(* serves, and it serves everybody.                                        *)
(*                                                                         *)
(* A client here is one process, with one pid; execute_datagram is one     *)
(* step (see Database.tla), and it may end the server.                     *)
(***************************************************************************)
EXTENDS Integers, Sequences, FiniteSets

CONSTANTS
    Client,     \* client processes
    MaxRun,     \* bound: times the server is started
    Capacity    \* messages that fit in a queue (MSGMNB bytes)

ASSUME QueueAssumption == MaxRun \in Nat /\ Capacity \in Nat \ {0}

VARIABLES
    server,   \* where the server is
    runs,     \* how many times it was started
    id,       \* id[q]: the queue that key q stands for (0: none)
    inbox,    \* what is in queue r
    outbox,   \* outbox[c]: what is in queue w with the pid of c
    seen,     \* the datagram the server is working on
    client,   \* client[c]: where client c is
    at,       \* at[c][q]: the queue client c attached to
    asked,    \* asked[c]: a bit that tells its last command from the one before
    got,      \* got[c]: what it took for an answer last
    overlong  \* history: the clients whose answer did not fit in a datagram

serverVars == <<server, runs, seen>>
queueVars == <<id, inbox, outbox>>
clientVars == <<client, at, asked, got>>
vars == <<serverVars, queueVars, clientVars, overlong>>

-----------------------------------------------------------------------------
Key == {"r", "w"}
Message(kind, c, bit) == [kind |-> kind, of |-> c, bit |-> bit]
Messages ==
    [kind : {"connect", "request", "exit", "answer", "long"}, of : Client, bit : {0, 1}]
Nobody == "nobody"
Nothing == Message("nothing", Nobody, 0)
Garbage == Message("garbage", Nobody, 0)   \* what malloc left

ServerAt(label) == server' = label
Done(label) == ServerAt(label) /\ seen' = Nothing    \* free(datagram)
ClientAt(c, label) == client' = [client EXCEPT ![c] = label]

\* The queue that client c attached to is still there.
Knows(c, q) == at[c][q] # 0 /\ at[c][q] = id[q]

\* msgsnd to queue r: blocks when it is full, fails (and nobody looks) when
\* the queue the client knows was removed.
ToServer(c, m) ==
    IF Knows(c, "r")
    THEN Len(inbox) < Capacity /\ inbox' = Append(inbox, m)
    ELSE UNCHANGED inbox

\* Messages in queue w.
Waiting == {p \in Client \X (1..Capacity) : p[2] <= Len(outbox[p[1]])}

-----------------------------------------------------------------------------
(* The server.                                                             *)

\* Mutant: without IPC_EXCL a queue that was left behind is taken over.
CreateOrTakeOver(q, label) ==
    /\ id' = IF id[q] = 0 THEN [id EXCEPT ![q] = runs'] ELSE id
    /\ ServerAt(label)

\* msgget with IPC_EXCL: a queue that was left behind ends the server.
msgqueue_create(q, label) ==
    IF id[q] = 0
    THEN id' = [id EXCEPT ![q] = runs'] /\ ServerAt(label)
    ELSE UNCHANGED id /\ ServerAt("down")

ipc_listen ==
    /\ server = "down"
    /\ runs < MaxRun
    /\ runs' = runs + 1
    /\ msgqueue_create("r", "create")
    /\ UNCHANGED <<inbox, outbox, seen, clientVars, overlong>>

CreateAnswers ==
    /\ server = "create"
    /\ UNCHANGED <<runs, inbox, outbox, seen, clientVars, overlong>>
    /\ msgqueue_create("w", "accept")

\* ipc_receive: any message, in the order of arrival.
ipc_receive(label, m) ==
    /\ inbox # <<>>
    /\ inbox' = Tail(inbox)
    /\ seen' = m
    /\ ServerAt(label)
    /\ UNCHANGED <<runs, id, outbox, clientVars, overlong>>

\* The first message must be OP_CONNECT, or the server ends with exit(1) and
\* its queues stay; db_open.
ipc_accept ==
    /\ server = "accept"
    /\ ipc_receive(IF Head(inbox).kind = "connect" THEN "serve" ELSE "down", Nothing)

Receive ==
    /\ server = "serve"
    /\ inbox # <<>> => Head(inbox).kind # "long"
    /\ ipc_receive("execute", Head(inbox))

\* A command that is too long stays at the head of the queue and msgrcv fails
\* again and again.  What malloc left is taken for a datagram: it ends the
\* server, or is an earlier command once more, whose answer (left out) goes to
\* a client that has lost the server anyway, see Jammed.
ReceiveGarbage ==
    /\ server = "serve"
    /\ inbox # <<>>
    /\ Head(inbox).kind = "long"
    /\ ServerAt("down")
    /\ UNCHANGED <<runs, seen, queueVars, clientVars, overlong>>

\* The connect of a later client is none of execute_datagram's opcodes.
Ignore ==
    /\ server = "execute"
    /\ seen.kind = "connect"
    /\ Done("serve")
    /\ UNCHANGED <<runs, queueVars, clientVars, overlong>>

\* Mutant: the answer goes to the queue of the commands.
AnswerWrongQueue ==
    /\ server = "execute"
    /\ seen.kind = "request"
    /\ Len(inbox) < Capacity
    /\ inbox' = Append(inbox, Message("connect", seen.of, seen.bit))
    /\ Done("serve")
    /\ UNCHANGED <<runs, id, outbox, clientVars, overlong>>

\* execute_datagram and ipc_send, to the sender of the command; msgsnd blocks
\* when queue w is full.
Answer ==
    /\ server = "execute"
    /\ seen.kind = "request"
    /\ Cardinality(Waiting) < Capacity
    /\ outbox' = [outbox EXCEPT ![seen.of] =
                      Append(@, Message("answer", seen.of, seen.bit))]
    /\ Done("serve")
    /\ UNCHANGED <<runs, id, inbox, clientVars, overlong>>

\* ipc_send does not look at the size: a list of 26 flights does not fit in
\* DATAGRAM_MAXSIZE.  It is sent, or msgsnd fails (MSGMAX) and nobody looks.
AnswerTooLong ==
    /\ server = "execute"
    /\ seen.kind = "request"
    /\ \/ /\ Cardinality(Waiting) < Capacity
          /\ outbox' = [outbox EXCEPT ![seen.of] =
                            Append(@, Message("long", seen.of, seen.bit))]
       \/ UNCHANGED outbox
    /\ overlong' = overlong \cup {seen.of}
    /\ Done("serve")
    /\ UNCHANGED <<runs, id, inbox, clientVars>>

\* The database ends the server with exit(1): the queues stay.
ServerFails ==
    /\ server = "execute"
    /\ seen.kind = "request"
    /\ Done("down")
    /\ UNCHANGED <<runs, queueVars, clientVars, overlong>>

\* ipc_disconnect removes the two queues, one after the other, and the server
\* ends.
ipc_disconnect ==
    /\ id' = [id EXCEPT !["r"] = 0]
    /\ inbox' = <<>>
    /\ Done("closing")
    /\ UNCHANGED <<runs, outbox, clientVars, overlong>>

\* OP_EXIT of whichever client.
ServerExits ==
    /\ server = "execute"
    /\ seen.kind = "exit"
    /\ ipc_disconnect

\* SIGINT: close_conn.
ServerInterrupt ==
    /\ server \in {"create", "accept", "serve", "execute"}
    /\ ipc_disconnect

Disconnected ==
    /\ server = "closing"
    /\ IF id["w"] = runs
       THEN id' = [id EXCEPT !["w"] = 0] /\ outbox' = [c \in Client |-> <<>>]
       ELSE UNCHANGED <<id, outbox>>
    /\ ServerAt("down")
    /\ UNCHANGED <<runs, inbox, seen, clientVars, overlong>>

-----------------------------------------------------------------------------
(* A client.                                                               *)

\* msgqueue_attach: without the queue the client ends.
Attach(c, q, from, to) ==
    /\ client[c] = from
    /\ at' = [at EXCEPT ![c][q] = id[q]]
    /\ ClientAt(c, IF id[q] # 0 THEN to ELSE "gone")
    /\ UNCHANGED <<serverVars, queueVars, asked, got, overlong>>

AttachCommands(c) == Attach(c, "r", "start", "attach")
AttachAnswers(c) == Attach(c, "w", "attach", "connect")

\* ipc_connect: OP_CONNECT is sent and nothing waited for.
ipc_connect(c) ==
    /\ client[c] = "connect"
    /\ ToServer(c, Message("connect", c, asked[c]))
    /\ ClientAt(c, "ready")
    /\ UNCHANGED <<serverVars, id, outbox, at, asked, got, overlong>>

ipc_send(c) ==
    /\ client[c] = "ready"
    /\ asked' = [asked EXCEPT ![c] = 1 - @]
    /\ ToServer(c, Message("request", c, asked'[c]))
    /\ ClientAt(c, "wait")
    /\ UNCHANGED <<serverVars, id, outbox, at, got, overlong>>

\* A ping of more than DATAGRAM_MAXSIZE bytes; there is no check of the size.
SendTooLong(c) ==
    /\ client[c] = "ready"
    /\ asked' = [asked EXCEPT ![c] = 1 - @]
    /\ ToServer(c, Message("long", c, asked'[c]))
    /\ ClientAt(c, "wait")
    /\ UNCHANGED <<serverVars, id, outbox, at, got, overlong>>

\* Mutant: msgrcv with type 0, the next message whoever it is for.
TakeAny(c) ==
    /\ client[c] = "wait"
    /\ Knows(c, "w")
    /\ \E d \in Client :
          /\ outbox[d] # <<>>
          /\ got' = [got EXCEPT ![c] = Head(outbox[d])]
          /\ outbox' = [outbox EXCEPT ![d] = Tail(@)]
    /\ ClientAt(c, "ready")
    /\ UNCHANGED <<serverVars, id, inbox, at, asked, overlong>>

\* ipc_receive of the client: the first message with its pid.
TakeAnswer(c) ==
    /\ client[c] = "wait"
    /\ Knows(c, "w")
    /\ outbox[c] # <<>>
    /\ Head(outbox[c]).kind = "answer"
    /\ got' = [got EXCEPT ![c] = Head(outbox[c])]
    /\ outbox' = [outbox EXCEPT ![c] = Tail(@)]
    /\ ClientAt(c, "ready")
    /\ UNCHANGED <<serverVars, id, inbox, at, asked, overlong>>

\* msgrcv fails, because the queue was removed or because the message is too
\* long (and stays): what malloc left is taken for a datagram, or it ends the
\* client.
TakeGarbage(c) ==
    /\ client[c] = "wait"
    /\ \/ ~Knows(c, "w")
       \/ outbox[c] # <<>> /\ Head(outbox[c]).kind = "long"
    /\ \/ got' = [got EXCEPT ![c] = Garbage] /\ ClientAt(c, "ready")
       \/ UNCHANGED got /\ ClientAt(c, "gone")
    /\ UNCHANGED <<serverVars, queueVars, at, asked, overlong>>

\* send_exit: "exit", or SIGINT at any moment after queue r is attached.
send_exit(c) ==
    /\ client[c] \in {"attach", "connect", "ready", "wait"}
    /\ ToServer(c, Message("exit", c, asked[c]))
    /\ ClientAt(c, "gone")
    /\ UNCHANGED <<serverVars, id, outbox, at, asked, got, overlong>>

\* SIGINT before: the id of the queue is what malloc left, zero perhaps, which
\* is also the id of the first queue of the machine.
ExitAstray(c) ==
    /\ client[c] = "start"
    /\ id["r"] # 0
    /\ Len(inbox) < Capacity
    /\ inbox' = Append(inbox, Message("exit", c, asked[c]))
    /\ ClientAt(c, "gone")
    /\ UNCHANGED <<serverVars, id, outbox, at, asked, got, overlong>>

\* The end of the input, or the same SIGINT with an id of no queue.
Leave(c) ==
    /\ client[c] \in {"start", "ready"}
    /\ ClientAt(c, "gone")
    /\ UNCHANGED <<serverVars, queueVars, at, asked, got, overlong>>

-----------------------------------------------------------------------------
Init ==
    /\ server = "down" /\ runs = 0 /\ seen = Nothing
    /\ id = [q \in Key |-> 0]
    /\ inbox = <<>>
    /\ outbox = [c \in Client |-> <<>>]
    /\ client = [c \in Client |-> "start"]
    /\ at = [c \in Client |-> [q \in Key |-> 0]]
    /\ asked = [c \in Client |-> 0]
    /\ got = [c \in Client |-> Nothing]
    /\ overlong = {}

ServerStep ==
    \/ CreateAnswers \/ ipc_accept \/ Receive \/ Ignore \/ Answer \/ AnswerTooLong
    \/ ServerExits \/ Disconnected
ClientStep(c) == ipc_connect(c) \/ TakeAnswer(c) \/ TakeGarbage(c)

Next ==
    \/ ServerStep \/ ipc_listen \/ ReceiveGarbage \/ ServerFails \/ ServerInterrupt
    \/ \E c \in Client :
          \/ AttachCommands(c) \/ AttachAnswers(c) \/ ClientStep(c)
          \/ ipc_send(c) \/ SendTooLong(c) \/ send_exit(c) \/ ExitAstray(c) \/ Leave(c)

\* Every process that can go on is scheduled.
Spec == /\ Init /\ [][Next]_vars
        /\ WF_vars(ServerStep)
        /\ \A c \in Client : WF_vars(ClientStep(c))

-----------------------------------------------------------------------------
\* Types, and the bound that the kernel keeps on both queues.
TypeOK ==
    /\ server \in {"down", "create", "accept", "serve", "execute", "closing"}
    /\ runs \in 0..MaxRun
    /\ id \in [Key -> 0..MaxRun]
    /\ inbox \in Seq(Messages) /\ Len(inbox) <= Capacity
    /\ outbox \in [Client -> Seq(Messages)] /\ Cardinality(Waiting) <= Capacity
    /\ seen \in Messages \cup {Nothing}
    /\ client \in [Client -> {"start", "attach", "connect", "ready", "wait", "gone"}]
    /\ at \in [Client -> [Key -> 0..MaxRun]]
    /\ asked \in [Client -> {0, 1}]
    /\ got \in [Client -> Messages \cup {Nothing, Garbage}]
    /\ overlong \subseteq Client

\* A server that is started again serves queues of its own, and meets neither
\* commands nor answers of an earlier run, whatever ended that run.  (Only the
\* OP_EXIT of a client that had no queue yet may stray into any run.)
FreshQueues ==
    server \in {"accept", "serve", "execute"} =>
        /\ \A q \in Key : id[q] = runs
        /\ \A i \in DOMAIN inbox : at[inbox[i].of]["r"] = runs \/ inbox[i].kind = "exit"
        /\ \A p \in Waiting : at[p[1]]["r"] = runs

\* The types, with queues within their limits, and queues of this run only.
QueueInv == TypeOK /\ FreshQueues

\* A command that cannot be received is in the way of all others.
Jammed == \E i \in DOMAIN inbox : inbox[i].kind = "long"

\* Client c has lost its server: its queues were removed (by the exit of any
\* client, or with the server), it was sent an answer it cannot receive, or
\* somebody has jammed the queue.
Lost(c) ==
    \/ c \in overlong
    \/ Knows(c, "r") /\ Jammed
    \/ client[c] # "start" /\ ~Knows(c, "r")
    \/ client[c] \notin {"start", "attach"} /\ ~Knows(c, "w")

Phase(c) ==
    CASE client[c] = "gone" -> "left"
      [] client[c] # "gone" /\ Lost(c) -> "lost"
      [] client[c] \in {"start", "attach", "connect"} /\ ~Lost(c) -> "out"
      [] client[c] = "ready" /\ ~Lost(c) -> "idle"
      [] client[c] = "wait" /\ ~Lost(c) -> "waiting"

\* The bit of the answer a client has, if the answer is its own (else 2).
Heard(c) == IF got[c] = Nothing \/ got[c].of = c THEN got[c].bit ELSE 2

S == INSTANCE Service WITH
        phase <- [c \in Client |-> Phase(c)],
        heard <- [c \in Client |-> Heard(c)]

\* One server for all keeps the promise of ipc.h to each: as long as the
\* queues are there and no answer was too long, a client is answered its own
\* commands, each by its own answer, whatever the other clients send.
RefinesService == S!ServiceSpec

\* A client that waits is answered, or fails; it waits for ever only if the
\* server ended with exit(1) and left the queues there, if it attached to the
\* queues of two runs of the server, if its own answer was too long to be
\* sent, or if a command that the server cannot receive, or answers that
\* nobody can receive, fill the queues.
Answered ==
    \A c \in Client :
        (client[c] = "wait")
            ~> \/ client[c] # "wait"
               \/ server = "down" /\ id["w"] # 0
               \/ at[c]["r"] # at[c]["w"]
               \/ c \in overlong
               \/ Jammed
               \/ Cardinality(Waiting) = Capacity
=============================================================================

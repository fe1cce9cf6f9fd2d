------------------------------- MODULE Socket -------------------------------
(***************************************************************************)
(* ipc/socket.c under server/server.c and client/client.c: a TCP           *)
(* connection per client, and a child of the server for each.  The stream  *)
(* (external) knows no datagrams: recv returns what is there, at most      *)
(* DATAGRAM_MAXSIZE bytes of it, and ipc_receive takes whatever it         *)
(* returned for one datagram.                                              *)
(*                                                                         *)
(* A datagram travels as its head (the opcode) and the rest; one that does *)
(* not fit in DATAGRAM_MAXSIZE has more parts than recv returns at once.   *)
(* A client is one process with one connection; execute_datagram is one    *)
(* step (see Database.tla), and it may end the child.                      *)
(***************************************************************************)
EXTENDS Integers, Sequences, FiniteSets

CONSTANTS
    Client,    \* client processes
    Wild,      \* bound: the clients with long datagrams and a network that splits
    MaxRun,    \* bound: times the server is started
    Buffer,    \* parts that recv returns at most
    Window,    \* parts that fit in a stream: write waits
    Backlog    \* connections waiting for accept (SOCKET_BACKLOG): connect waits

ASSUME SocketAssumption ==
    /\ {MaxRun, Buffer, Window, Backlog} \subseteq Nat
    /\ Wild \subseteq Client
    /\ Buffer > 2 /\ Window > Buffer /\ Backlog > 0

VARIABLES
    split,     \* the clients whose network may deliver a datagram in pieces
               \* (never changes)
    parent,    \* where the accepting process is
    runs,      \* how many times the server was started
    bound,     \* bind has given it the port
    current,   \* the connection whose descriptor the parent has as well
    backlog,   \* connections that wait for accept
    child,     \* child[c]: where the child that serves client c is
    seen,      \* seen[c]: the datagram it is working on
    client,    \* client[c]: where client c is
    asked,     \* asked[c]: a bit that tells its last command from the one before
    got,       \* got[c]: what it took for an answer last
    up,        \* up[c]: the stream from c to its child
    down,      \* down[c]: the stream back
    torn,      \* history: connections where recv did not return one datagram
    unruly     \* history: clients interrupted while an answer was due, or with
               \* a command or an answer longer than DATAGRAM_MAXSIZE

parentVars == <<parent, runs, bound, current>>
childVars == <<child, seen>>
clientVars == <<client, asked, got>>
streamVars == <<up, down, torn>>
vars == <<split, parentVars, backlog, childVars, clientVars, streamVars, unruly>>

-----------------------------------------------------------------------------
Message(kind, c, bit, long) == [kind |-> kind, of |-> c, bit |-> bit, long |-> long]
Nobody == "nobody"
Messages == [kind : {"request", "exit", "answer"}, of : Client, bit : {0, 1}, long : BOOLEAN]
Nothing == Message("nothing", Nobody, 0, FALSE)
Garbage == Message("garbage", Nobody, 0, FALSE)

\* The parts of a datagram, in order; only part 1 has the opcode.
Size(m) == IF m.long THEN Buffer + 1 ELSE 2
Parts(m) == [i \in 1..Size(m) |-> [of |-> m, part |-> i]]

\* The lengths recv may return from a stream that is not empty.
Lengths(c, s) ==
    LET most == IF Len(s) < Buffer THEN Len(s) ELSE Buffer
    IN IF c \in split THEN 1..most ELSE {most}

\* What the first n parts look like to who takes them for a datagram.
Datagram(s, n) == IF s[1].part = 1 THEN s[1].of ELSE Garbage

\* ... and whether it is one datagram, neither less nor more.
Whole(s, n) == s[1].part = 1 /\ n = Size(s[1].of)
Rest(s, n) == SubSeq(s, n + 1, Len(s))

Sizes(c) == IF c \in Wild THEN BOOLEAN ELSE {FALSE}
Fits(s, m) == Len(s) + Size(m) <= Window

ParentAt(label) == parent' = label
ChildAt(c, label) == child' = [child EXCEPT ![c] = label]
ClientAt(c, label) == client' = [client EXCEPT ![c] = label]

\* Every child inherits the listening socket and keeps it open.
Alive(c) == child[c] \notin {"none", "gone"}
Serving == {c \in Client : Alive(c)}
Listening == (parent # "down" /\ bound) \/ Serving # {}

\* The kernel closes the connections nobody can accept any more.
KeepBacklog(holders) == backlog' = IF holders THEN backlog ELSE <<>>

-----------------------------------------------------------------------------
(* The accepting process.                                                  *)

\* ipc_listen: bind fails, and nobody looks, while the children of an earlier
\* server have the port, or the kernel still keeps it (TIME_WAIT); listen then
\* takes some other port.
ipc_listen ==
    /\ parent = "down"
    /\ runs < MaxRun
    /\ runs' = runs + 1
    /\ bound' \in {FALSE, Serving = {}}
    /\ ParentAt("accept")
    /\ UNCHANGED <<split, current, backlog, childVars, clientVars, streamVars, unruly>>

\* ipc_accept and fork; cli_count is of no use here.
ipc_accept ==
    /\ parent = "accept"
    /\ bound
    /\ backlog # <<>>
    /\ current' = Head(backlog)
    /\ backlog' = Tail(backlog)
    /\ ChildAt(current', "serve")
    /\ ParentAt("waitsync")
    /\ UNCHANGED <<split, runs, bound, seen, clientVars, streamVars, unruly>>

\* ipc_waitsync closes the parent's descriptor.
ipc_waitsync ==
    /\ parent = "waitsync"
    /\ current' = Nobody
    /\ ParentAt("accept")
    /\ UNCHANGED <<split, runs, bound, backlog, childVars, clientVars, streamVars, unruly>>

\* SIGINT: close_conn.
ParentInterrupt ==
    /\ parent # "down"
    /\ ParentAt("down")
    /\ bound' = FALSE
    /\ current' = Nobody
    /\ KeepBacklog(Serving # {})
    /\ UNCHANGED <<split, runs, childVars, clientVars, streamVars, unruly>>

-----------------------------------------------------------------------------
(* A child: db_open, serve.                                                *)

\* ipc_receive.
Receive(c) ==
    /\ child[c] = "serve"
    /\ up[c] # <<>>
    /\ \E n \in Lengths(c, up[c]) :
          /\ seen' = [seen EXCEPT ![c] = Datagram(up[c], n)]
          /\ torn' = IF Whole(up[c], n) THEN torn ELSE torn \cup {c}
          /\ up' = [up EXCEPT ![c] = Rest(@, n)]
    /\ ChildAt(c, "execute")
    /\ UNCHANGED <<split, parentVars, backlog, clientVars, down, unruly>>

\* The child ends, in whatever way; the last process with the listening socket
\* takes the backlog with it.
ChildEnds(c) ==
    /\ ChildAt(c, "gone")
    /\ seen' = [seen EXCEPT ![c] = Nothing]
    /\ KeepBacklog((parent # "down" /\ bound) \/ Serving # {c})
    /\ up' = [up EXCEPT ![c] = <<>>]
    /\ UNCHANGED <<split, parentVars, clientVars, down, torn, unruly>>

\* Mutant: a read of nothing is tried again.
ReceiveAgain(c) ==
    /\ child[c] = "serve"
    /\ up[c] = <<>>
    /\ client[c] = "gone"
    /\ UNCHANGED vars

\* The client has closed: recv returns 0 and serve follows the NULL pointer of
\* ipc_receive, or recv fails and the child ends with exit(1).
ReceiveNothing(c) ==
    /\ child[c] = "serve"
    /\ up[c] = <<>>
    /\ client[c] = "gone"
    /\ ChildEnds(c)

Served(c) ==
    /\ ChildAt(c, "serve")
    /\ seen' = [seen EXCEPT ![c] = Nothing]
    /\ UNCHANGED <<split, parentVars, backlog, clientVars, up, torn>>

\* Mutant: the answer is written twice.
AnswerTwice(c) ==
    /\ child[c] = "execute"
    /\ seen[c].kind = "request"
    /\ client[c] # "gone"
    /\ LET m == Message("answer", c, seen[c].bit, FALSE)
       IN down' = [down EXCEPT ![c] = @ \o Parts(m) \o Parts(m)]
    /\ UNCHANGED unruly
    /\ Served(c)

\* Mutant: serve has the test of ans the wrong way round.
AnswerNot(c) ==
    /\ child[c] = "execute"
    /\ seen[c].kind = "request"
    /\ client[c] # "gone"
    /\ UNCHANGED <<down, unruly>>
    /\ Served(c)

\* execute_datagram and ipc_send, which does not look at the size.
Answer(c) ==
    /\ child[c] = "execute"
    /\ seen[c].kind = "request"
    /\ client[c] # "gone"
    /\ \E long \in Sizes(c) :
          LET m == Message("answer", c, seen[c].bit, long)
          IN /\ Fits(down[c], m)
             /\ down' = [down EXCEPT ![c] = @ \o Parts(m)]
             /\ unruly' = IF long THEN unruly \cup {c} ELSE unruly
    /\ Served(c)

\* The client is gone, and write goes nowhere; or what was read is none of
\* execute_datagram's opcodes.
AnswerNobody(c) ==
    /\ child[c] = "execute"
    /\ seen[c] = Garbage \/ (seen[c].kind = "request" /\ client[c] = "gone")
    /\ UNCHANGED <<down, unruly>>
    /\ Served(c)

\* Garbage with the opcode of a command is executed and answered.
AnswerGarbage(c) ==
    /\ child[c] = "execute"
    /\ seen[c] = Garbage
    /\ client[c] # "gone"
    /\ Fits(down[c], Garbage)
    /\ down' = [down EXCEPT ![c] = @ \o Parts(Garbage)]
    /\ UNCHANGED unruly
    /\ Served(c)

\* OP_EXIT, or garbage that looks like it.
Exit(c) ==
    /\ child[c] = "execute"
    /\ seen[c].kind \in {"exit", "garbage"}
    /\ ChildEnds(c)

\* SIGINT; exit(1) of the database; or SIGPIPE, for which only the FIFO server
\* has a handler.
ChildDies(c) ==
    /\ Alive(c)
    /\ ChildEnds(c)

-----------------------------------------------------------------------------
(* A client.                                                               *)

\* ipc_connect; the kernel connects for whoever has the listening socket.
ipc_connect(c) ==
    /\ client[c] = "start"
    /\ IF Listening
       THEN /\ Len(backlog) < Backlog
            /\ backlog' = Append(backlog, c)
            /\ ClientAt(c, "ready")
       ELSE ClientAt(c, "refused") /\ UNCHANGED backlog
    /\ UNCHANGED <<split, parentVars, childVars, asked, got, streamVars, unruly>>

\* Both ends of the connection of c are there.
InBacklog(c) == \E i \in DOMAIN backlog : backlog[i] = c
Connected(c) == InBacklog(c) \/ Alive(c) \/ current = c

\* write of a client.
Write(c, m) ==
    IF InBacklog(c) \/ Alive(c)
    THEN Fits(up[c], m) /\ up' = [up EXCEPT ![c] = @ \o Parts(m)]
    ELSE UNCHANGED up

\* ipc_send; the text of a ping may be longer than DATAGRAM_MAXSIZE.  (Bound:
\* on a torn connection, where an answer may be the rest of the last one, no
\* further commands are followed.)
ipc_send(c) ==
    /\ client[c] = "ready"
    /\ c \notin torn
    /\ asked' = [asked EXCEPT ![c] = 1 - @]
    /\ \E long \in Sizes(c) :
          /\ Write(c, Message("request", c, asked'[c], long))
          /\ unruly' = IF long THEN unruly \cup {c} ELSE unruly
    /\ ClientAt(c, "wait")
    /\ UNCHANGED <<split, parentVars, backlog, childVars, got, down, torn>>

\* Mutant: the answer is looked at and stays in the stream.
TakePeek(c) ==
    /\ client[c] = "wait"
    /\ down[c] # <<>>
    /\ \E n \in Lengths(c, down[c]) :
          /\ got' = [got EXCEPT ![c] = Datagram(down[c], n)]
          /\ torn' = IF Whole(down[c], n) THEN torn ELSE torn \cup {c}
    /\ ClientAt(c, "ready")
    /\ UNCHANGED <<split, parentVars, backlog, childVars, asked, up, down, unruly>>

\* ipc_receive of the client.
Take(c) ==
    /\ client[c] = "wait"
    /\ down[c] # <<>>
    /\ \E n \in Lengths(c, down[c]) :
          /\ got' = [got EXCEPT ![c] = Datagram(down[c], n)]
          /\ torn' = IF Whole(down[c], n) THEN torn ELSE torn \cup {c}
          /\ down' = [down EXCEPT ![c] = Rest(@, n)]
    /\ ClientAt(c, "ready")
    /\ UNCHANGED <<split, parentVars, backlog, childVars, asked, up, unruly>>

\* The process ends, with its memory and what it did not read.
ClientEnds(c) ==
    /\ ClientAt(c, "gone")
    /\ down' = [down EXCEPT ![c] = <<>>]
    /\ asked' = [asked EXCEPT ![c] = 0]
    /\ got' = [got EXCEPT ![c] = Nothing]
    /\ UNCHANGED <<split, parentVars, backlog, childVars, torn>>

\* The child is gone: recv returns 0, and parse_answer follows a NULL pointer,
\* or the connection was reset and recv fails.
TakeNothing(c) ==
    /\ client[c] = "wait"
    /\ ~Connected(c)
    /\ UNCHANGED <<up, unruly>>
    /\ ClientEnds(c)

\* "exit", or SIGINT.
send_exit(c) ==
    /\ client[c] \in {"ready", "wait"}
    /\ Write(c, Message("exit", c, asked[c], FALSE))
    /\ unruly' = IF client[c] = "wait" THEN unruly \cup {c} ELSE unruly
    /\ ClientEnds(c)

\* The end of the input, or SIGINT without a connection.  Also: main takes the
\* 1 of a failed connect for a success, and the first command ends the client.
Leave(c) ==
    /\ client[c] \in {"start", "refused", "ready"}
    /\ UNCHANGED <<up, unruly>>
    /\ ClientEnds(c)

-----------------------------------------------------------------------------
Init ==
    /\ split \in SUBSET Wild
    /\ parent = "down" /\ runs = 0 /\ bound = FALSE /\ current = Nobody
    /\ backlog = <<>>
    /\ child = [c \in Client |-> "none"]
    /\ seen = [c \in Client |-> Nothing]
    /\ client = [c \in Client |-> "start"]
    /\ asked = [c \in Client |-> 0]
    /\ got = [c \in Client |-> Nothing]
    /\ up = [c \in Client |-> <<>>]
    /\ down = [c \in Client |-> <<>>]
    /\ torn = {} /\ unruly = {}

ServerStep == ipc_accept \/ ipc_waitsync
ChildStep(c) ==
    \/ Receive(c) \/ ReceiveNothing(c) \/ Answer(c) \/ AnswerNobody(c)
    \/ AnswerGarbage(c) \/ Exit(c)
ClientStep(c) == Take(c) \/ TakeNothing(c)

Next ==
    \/ ServerStep \/ ipc_listen \/ ParentInterrupt
    \/ \E c \in Client :
          \/ ChildStep(c) \/ ChildDies(c)
          \/ ClientStep(c) \/ ipc_connect(c) \/ ipc_send(c) \/ send_exit(c) \/ Leave(c)

\* Every process that can go on is scheduled.
Spec == /\ Init /\ [][Next]_vars
        /\ WF_vars(ServerStep)
        /\ \A c \in Client : WF_vars(ChildStep(c)) /\ WF_vars(ClientStep(c))

-----------------------------------------------------------------------------
\* Types, and the limits that the kernel keeps.
TypeOK ==
    /\ split \in SUBSET Wild
    /\ parent \in {"down", "accept", "waitsync"}
    /\ runs \in 0..MaxRun
    /\ bound \in BOOLEAN
    /\ current \in Client \cup {Nobody}
    /\ backlog \in Seq(Client) /\ Len(backlog) <= Backlog
    /\ child \in [Client -> {"none", "serve", "execute", "gone"}]
    /\ seen \in [Client -> Messages \cup {Nothing, Garbage}]
    /\ client \in [Client -> {"start", "refused", "ready", "wait", "gone"}]
    /\ asked \in [Client -> {0, 1}]
    /\ got \in [Client -> Messages \cup {Nothing, Garbage}]
    /\ \A c \in Client : Len(up[c]) <= Window /\ Len(down[c]) <= Window
    /\ torn \subseteq Client /\ unruly \subseteq Client

\* Commands and answers take turns, which is all that frames them: as long as
\* the network delivers a datagram in one piece, every recv returns exactly
\* one, unless the client was interrupted while an answer was due or one of
\* its datagrams was too long.
Framed == torn \subseteq split \cup unruly

\* The types, with backlog and streams within their limits, and the framing.
SocketInv == TypeOK /\ Framed

Lost(c) == c \in torn \/ (client[c] \in {"ready", "wait"} /\ ~(InBacklog(c) \/ Alive(c)))

Phase(c) ==
    CASE client[c] = "gone" -> "left"
      [] client[c] # "gone" /\ Lost(c) -> "lost"
      [] client[c] \in {"start", "refused"} /\ ~Lost(c) -> "out"
      [] client[c] = "ready" /\ ~Lost(c) -> "idle"
      [] client[c] = "wait" /\ ~Lost(c) -> "waiting"

\* The bit of the answer a client has, if the answer is its own (else 2).
Heard(c) ==
    IF got[c] = Nothing \/ (got[c].kind = "answer" /\ got[c].of = c) THEN got[c].bit ELSE 2

S == INSTANCE Service WITH
        phase <- [c \in Client |-> Phase(c)],
        heard <- [c \in Client |-> Heard(c)]

\* The promise of ipc.h: until its child ends, or a recv returns less or more
\* than one datagram, a client is answered its own commands in their order.
RefinesService == S!ServiceSpec

\* A client that waits is answered or fails; it waits for ever only if a recv
\* has lost its command, or if nobody accepts: children of a server that is
\* gone keep its port open.
Answered ==
    \A c \in Client :
        (client[c] = "wait")
            ~> \/ client[c] # "wait"
               \/ c \in torn
               \/ InBacklog(c) /\ ~bound

\* The child of a client that is gone ends: by OP_EXIT, or by the end of the
\* stream.
ChildrenEnd == \A c \in Client : (client[c] = "gone") ~> ~Alive(c)
=============================================================================

--------------------------- MODULE MsgQueueProofs ---------------------------
(***************************************************************************)
(* The safety properties of MsgQueue.tla for any number of clients, of     *)
(* restarts of the server and for queues of any size, and that the one     *)
(* server keeps the promise of Service.tla to every client.                *)
(***************************************************************************)
EXTENDS MsgQueue, FiniteSetTheorems, TLAPS

-----------------------------------------------------------------------------
(* The inductive invariant.                                                *)

Up == {"create", "accept", "serve", "execute"}

\* Queue w as a whole is within its limit, so what is in it for one client is.
Slots == IsFiniteSet(Waiting) /\ \A c \in Client : Len(outbox[c]) <= Capacity

\* A queue has the number of the run that created it: what a client attached to
\* is never newer than the run, and never the queue that is about to be created.
Numbered ==
    /\ \A q \in Key : id[q] <= runs
    /\ \A c \in Client, q \in Key : at[c][q] <= runs
    /\ \A c \in Client : client[c] = "start" => at[c]["r"] = 0
    /\ server \in Up => runs > 0 /\ id["r"] = runs
    /\ server = "create" => id["w"] < runs /\ \A c \in Client : at[c]["w"] < runs
    /\ server \in Up \ {"create"} => id["w"] = runs

\* A queue that was removed, or not yet created, holds nothing.
Emptied ==
    /\ id["r"] = 0 => inbox = <<>>
    /\ id["w"] = 0 => \A c \in Client : outbox[c] = <<>>

\* Messages of this run: what the server may meet, and what it works on.
OfThisRun(m) == at[m.of]["r"] = runs \/ m.kind = "exit"
CurrentRun ==
    /\ server \in Up => \A i \in DOMAIN inbox : OfThisRun(inbox[i])
    /\ server \in Up \ {"create"} =>
          \A c \in Client : outbox[c] # <<>> => at[c]["r"] = runs
    /\ server = "execute" => seen \in Messages /\ OfThisRun(seen)
    /\ server # "execute" => seen = Nothing

\* The first message the server reads is no command: a client connects first.
ConnectFirst ==
    server \in {"create", "accept"} =>
        /\ inbox # <<>> => Head(inbox).kind \in {"connect", "exit"}
        /\ \A c \in Client : at[c]["r"] = runs /\ client[c] \in {"ready", "wait"} => inbox # <<>>

\* What is in queue w for client c.
Outgoing(c) ==
    \A i \in DOMAIN outbox[c] : /\ outbox[c][i].of = c
                                /\ outbox[c][i].kind \in {"answer", "long"}
                                /\ outbox[c][i].kind = "long" => c \in overlong

\* There is one command of a client at most between the queues and the server,
\* the one it waits for.
IsCommand(m, c) == m.kind = "request" /\ m.of = c
Quiet(c) ==
    /\ \A i \in DOMAIN inbox : ~IsCommand(inbox[i], c)
    /\ ~IsCommand(seen, c)
    /\ outbox[c] = <<>>
OneCommand(c) ==
    /\ \A i \in DOMAIN inbox : IsCommand(inbox[i], c) =>
          /\ inbox[i].bit = asked[c]
          /\ ~IsCommand(seen, c) /\ outbox[c] = <<>>
          /\ \A j \in DOMAIN inbox : IsCommand(inbox[j], c) => i = j
    /\ IsCommand(seen, c) => seen.bit = asked[c] /\ outbox[c] = <<>>
    /\ outbox[c] # <<>> => Len(outbox[c]) = 1 /\ outbox[c][1].bit = asked[c]
Pending(c) ==
    client[c] # "gone" /\ ~Lost(c) =>
        IF client[c] = "wait" THEN OneCommand(c) ELSE Quiet(c)

QueueState ==
    /\ TypeOK /\ Slots /\ Numbered /\ Emptied /\ CurrentRun /\ ConnectFirst
    /\ \A c \in Client : Outgoing(c)
IInv == QueueState /\ \A c \in Client : Pending(c)

-----------------------------------------------------------------------------
(* Lemmas about the queues.                                                *)

\* A message behind the others.
LEMMA AppendFacts ==
    ASSUME NEW E, NEW s \in Seq(E), NEW x \in E
    PROVE  /\ Append(s, x) \in Seq(E)
           /\ Len(Append(s, x)) = Len(s) + 1
           /\ DOMAIN Append(s, x) = 1..(Len(s) + 1) /\ DOMAIN s = 1..Len(s)
           /\ \A i \in DOMAIN s : Append(s, x)[i] = s[i]
           /\ Append(s, x)[Len(s) + 1] = x
           /\ Append(s, x) # <<>>
           /\ s # <<>> => Head(Append(s, x)) = Head(s)
           /\ s = <<>> => Head(Append(s, x)) = x
OBVIOUS

\* The first message is taken.
LEMMA TailFacts ==
    ASSUME NEW E, NEW s \in Seq(E), s # <<>>
    PROVE  /\ Tail(s) \in Seq(E)
           /\ Len(s) > 0 /\ Len(Tail(s)) = Len(s) - 1
           /\ DOMAIN s = 1..Len(s) /\ DOMAIN Tail(s) = 1..(Len(s) - 1)
           /\ Head(s) = s[1] /\ Head(s) \in E
           /\ \A i \in DOMAIN Tail(s) : Tail(s)[i] = s[i + 1]
           /\ Len(s) = 1 => Tail(s) = <<>>
OBVIOUS

\* What is taken from queue w leaves room in it.
LEMMA SlotsShrink ==
    ASSUME TypeOK, Slots, \A c \in Client : Len(outbox'[c]) <= Len(outbox[c]),
           outbox' \in [Client -> Seq(Messages)]
    PROVE  Slots' /\ Cardinality(Waiting)' <= Capacity
<1>1. /\ \A c \in Client : Len(outbox[c]) \in Nat /\ Len(outbox'[c]) \in Nat
      /\ Capacity \in Nat
  BY QueueAssumption DEF TypeOK
<1>2. \A p \in Client \X (1..Capacity) :
         p[1] \in Client /\ p[2] \in Nat
  BY <1>1
<1>3. Waiting' \subseteq Waiting
  BY <1>1, <1>2 DEF Waiting
<1>4. IsFiniteSet(Waiting) BY DEF Slots
<1>5. /\ IsFiniteSet(Waiting') /\ Cardinality(Waiting') <= Cardinality(Waiting)
      /\ Cardinality(Waiting') \in Nat /\ Cardinality(Waiting) \in Nat
  BY <1>3, <1>4, FS_Subset, FS_CardinalityType
<1>6. \A c \in Client : Len(outbox'[c]) <= Capacity
  BY <1>1 DEF Slots
<1>7. QED BY <1>1, <1>5, <1>6 DEF Slots, TypeOK

\* What is sent to a client when queue w is not full fits in it.
LEMMA SlotsGrow ==
    ASSUME TypeOK, Slots, NEW c \in Client, NEW m \in Messages,
           Cardinality(Waiting) < Capacity,
           outbox' = [outbox EXCEPT ![c] = Append(@, m)]
    PROVE  /\ Slots' /\ Cardinality(Waiting)' <= Capacity
           /\ outbox' \in [Client -> Seq(Messages)]
<1>1. /\ \A d \in Client : outbox[d] \in Seq(Messages) /\ Len(outbox[d]) \in Nat
      /\ Capacity \in Nat
  BY QueueAssumption DEF TypeOK
<1>2. /\ outbox' \in [Client -> Seq(Messages)]
      /\ \A d \in Client : d # c => outbox'[d] = outbox[d]
      /\ outbox'[c] = Append(outbox[c], m)
      /\ Len(outbox'[c]) = Len(outbox[c]) + 1
  BY <1>1, AppendFacts DEF TypeOK
<1>3. IsFiniteSet(Waiting) /\ Cardinality(Waiting) \in Nat BY FS_CardinalityType DEF Slots
<1>4. Len(outbox[c]) < Capacity
  <2>1. SUFFICES ASSUME Len(outbox[c]) >= Capacity PROVE FALSE
    BY <1>1
  <2>2. {c} \X (1..Capacity) \subseteq Waiting
    BY <1>1, <2>1 DEF Waiting
  <2>3. IsFiniteSet({c}) /\ Cardinality({c}) = 1 BY FS_Singleton
  <2>4. IsFiniteSet(1..Capacity) /\ Cardinality(1..Capacity) = Capacity
    <3>1. 1 \in Int /\ Capacity \in Int BY <1>1
    <3>2. Cardinality(1..Capacity) = IF 1 > Capacity THEN 0 ELSE Capacity - 1 + 1
      BY <3>1, FS_Interval
    <3>3. QED BY <1>1, <3>1, <3>2, FS_Interval
  <2>5. Cardinality({c} \X (1..Capacity)) = 1 * Capacity
    <3>1. Cardinality({c} \X (1..Capacity)) = Cardinality({c}) * Cardinality(1..Capacity)
      BY ONLY <2>3, <2>4, FS_Product
    <3>2. QED BY ONLY <2>3, <2>4, <3>1
  <2>6. Cardinality({c} \X (1..Capacity)) <= Cardinality(Waiting) BY <1>3, <2>2, FS_Subset
  <2>7. QED BY <1>1, <1>3, <2>5, <2>6
<1>5. Waiting' \subseteq Waiting \cup {<<c, Len(outbox[c]) + 1>>}
  <2>1. ASSUME NEW p \in Waiting' PROVE p \in Waiting \cup {<<c, Len(outbox[c]) + 1>>}
    <3>1. /\ p = <<p[1], p[2]>> /\ p[1] \in Client /\ p[2] \in 1..Capacity
          /\ p[2] <= Len(outbox'[p[1]])
      BY <2>1 DEF Waiting
    <3>2. CASE p[1] # c BY <1>2, <3>1, <3>2 DEF Waiting
    <3>3. CASE p[1] = c
      <4>1. p[2] <= Len(outbox[c]) \/ p[2] = Len(outbox[c]) + 1 BY <1>1, <1>2, <3>1, <3>3
      <4>2. QED BY <3>1, <3>3, <4>1 DEF Waiting
    <3>4. QED BY <3>2, <3>3
  <2>2. QED BY <2>1
<1>6. /\ IsFiniteSet(Waiting \cup {<<c, Len(outbox[c]) + 1>>})
      /\ Cardinality(Waiting \cup {<<c, Len(outbox[c]) + 1>>}) <= Cardinality(Waiting) + 1
      /\ Cardinality(Waiting \cup {<<c, Len(outbox[c]) + 1>>}) \in Nat
  <2>1. /\ IsFiniteSet(Waiting \cup {<<c, Len(outbox[c]) + 1>>})
        /\ \/ Cardinality(Waiting \cup {<<c, Len(outbox[c]) + 1>>}) = Cardinality(Waiting)
           \/ Cardinality(Waiting \cup {<<c, Len(outbox[c]) + 1>>}) = Cardinality(Waiting) + 1
    BY <1>3, FS_AddElement
  <2>2. QED BY <1>3, <2>1
<1>7. /\ IsFiniteSet(Waiting') /\ Cardinality(Waiting') \in Nat
      /\ Cardinality(Waiting') <= Cardinality(Waiting \cup {<<c, Len(outbox[c]) + 1>>})
  BY <1>5, <1>6, FS_Subset, FS_CardinalityType
<1>8. Cardinality(Waiting') <= Capacity BY <1>1, <1>3, <1>6, <1>7
<1>9. \A d \in Client : Len(outbox'[d]) <= Capacity BY <1>1, <1>2, <1>4 DEF Slots
<1>10. QED BY <1>2, <1>7, <1>8, <1>9 DEF Slots

-----------------------------------------------------------------------------
(* Steps that a client takes towards the server.                           *)

\* msgsnd of client c to queue r, as ToServer and ExitAstray have it.
Sent(c, m) ==
    /\ UNCHANGED <<server, runs, seen, id, outbox, at, got, overlong>>
    /\ \/ inbox' = inbox /\ ~Knows(c, "r")
       \/ /\ inbox' = Append(inbox, m)
          /\ Len(inbox) < Capacity
          /\ id["r"] # 0
          /\ Knows(c, "r") \/ m.kind = "exit"

\* ... and the place of the client before and after it.
SentFrom(c, m) ==
    \/ m.kind = "connect" /\ client[c] = "connect" /\ client' = [client EXCEPT ![c] = "ready"]
          /\ asked' = asked
    \/ m.kind \in {"request", "long"} /\ client[c] = "ready"
          /\ client' = [client EXCEPT ![c] = "wait"]
          /\ asked' = [asked EXCEPT ![c] = 1 - @] /\ m.bit = asked'[c]
    \/ m.kind = "exit" /\ client' = [client EXCEPT ![c] = "gone"] /\ asked' = asked

\* The sending actions are of that form.
LEMMA Senders ==
    ASSUME QueueState, NEW c \in Client,
           ipc_connect(c) \/ ipc_send(c) \/ SendTooLong(c) \/ send_exit(c) \/ ExitAstray(c)
    PROVE  \E m \in Messages : m.of = c /\ Sent(c, m) /\ SentFrom(c, m)
<1>1. /\ asked \in [Client -> {0, 1}] /\ asked[c] \in {0, 1} /\ 1 - asked[c] \in {0, 1}
      /\ client \in [Client -> {"start", "attach", "connect", "ready", "wait", "gone"}]
  BY DEF QueueState, TypeOK
<1>2. ASSUME NEW k \in {"connect", "request", "exit", "long"}, NEW b \in {0, 1}
      PROVE  Message(k, c, b) \in Messages
  BY <1>2 DEF Message, Messages
<1>3. CASE ipc_connect(c)
  <2>1. Sent(c, Message("connect", c, asked[c]))
    BY <1>3 DEF ipc_connect, ToServer, Sent, Knows, serverVars
  <2>2. SentFrom(c, Message("connect", c, asked[c]))
    BY <1>3 DEF ipc_connect, ClientAt, SentFrom, Message
  <2>3. QED BY <1>1, <1>2, <2>1, <2>2 DEF Message
<1>4. CASE ipc_send(c)
  <2>1. asked'[c] = 1 - asked[c] BY <1>1, <1>4 DEF ipc_send
  <2>2. Sent(c, Message("request", c, asked'[c]))
    BY <1>4 DEF ipc_send, ToServer, Sent, Knows, serverVars
  <2>3. SentFrom(c, Message("request", c, asked'[c]))
    BY <1>4 DEF ipc_send, ClientAt, SentFrom, Message
  <2>4. QED BY <1>1, <1>2, <2>1, <2>2, <2>3 DEF Message
<1>5. CASE SendTooLong(c)
  <2>1. asked'[c] = 1 - asked[c] BY <1>1, <1>5 DEF SendTooLong
  <2>2. Sent(c, Message("long", c, asked'[c]))
    BY <1>5 DEF SendTooLong, ToServer, Sent, Knows, serverVars
  <2>3. SentFrom(c, Message("long", c, asked'[c]))
    BY <1>5 DEF SendTooLong, ClientAt, SentFrom, Message
  <2>4. QED BY <1>1, <1>2, <2>1, <2>2, <2>3 DEF Message
<1>6. CASE send_exit(c)
  <2>1. Sent(c, Message("exit", c, asked[c]))
    BY <1>6 DEF send_exit, ToServer, Sent, Knows, serverVars
  <2>2. SentFrom(c, Message("exit", c, asked[c]))
    BY <1>6 DEF send_exit, ClientAt, SentFrom, Message
  <2>3. QED BY <1>1, <1>2, <2>1, <2>2 DEF Message
<1>7. CASE ExitAstray(c)
  <2>1. Sent(c, Message("exit", c, asked[c]))
    BY <1>7 DEF ExitAstray, Sent, serverVars, Message
  <2>2. SentFrom(c, Message("exit", c, asked[c]))
    BY <1>7 DEF ExitAstray, ClientAt, SentFrom, Message
  <2>3. QED BY <1>1, <1>2, <2>1, <2>2 DEF Message
<1>8. QED BY <1>3, <1>4, <1>5, <1>6, <1>7

\* What queue r holds after a msgsnd.
LEMMA SentInbox ==
    ASSUME TypeOK, NEW c \in Client, NEW m \in Messages, Sent(c, m)
    PROVE  /\ inbox' \in Seq(Messages) /\ Len(inbox') <= Capacity
           /\ \A i \in DOMAIN inbox : i \in DOMAIN inbox' /\ inbox'[i] = inbox[i]
           /\ \A i \in DOMAIN inbox' :
                 \/ i \in DOMAIN inbox
                 \/ i = Len(inbox) + 1 /\ inbox'[i] = m /\ (Knows(c, "r") \/ m.kind = "exit")
           /\ Len(inbox) + 1 \notin DOMAIN inbox
           /\ Knows(c, "r") => Len(inbox) + 1 \in DOMAIN inbox' /\ inbox'[Len(inbox) + 1] = m
<1>1. inbox \in Seq(Messages) /\ Len(inbox) \in Nat /\ Len(inbox) <= Capacity
      /\ Capacity \in Nat /\ DOMAIN inbox = 1..Len(inbox)
  BY QueueAssumption DEF TypeOK
<1>2. CASE inbox' = inbox /\ ~Knows(c, "r") BY <1>1, <1>2
<1>3. CASE inbox' = Append(inbox, m) /\ Len(inbox) < Capacity /\ (Knows(c, "r") \/ m.kind = "exit")
  BY <1>1, <1>3, AppendFacts
<1>4. QED BY <1>2, <1>3 DEF Sent

\* A datagram in the queue of the server, or the loss of one, keeps the state of
\* the queues.
LEMMA SentKeeps ==
    ASSUME QueueState, NEW c \in Client, NEW m \in Messages, m.of = c, Sent(c, m), SentFrom(c, m)
    PROVE  QueueState'
<1>1. UNCHANGED <<server, runs, seen, id, outbox, at, got, overlong>> BY DEF Sent
<1>2. TypeOK BY DEF QueueState
<1>3. /\ \A d \in Client : d # c => client'[d] = client[d]
      /\ client' \in [Client -> {"start", "attach", "connect", "ready", "wait", "gone"}]
      /\ client'[c] \in {"ready", "wait", "gone"}
      /\ client'[c] \in {"ready", "wait"} => client[c] \in {"connect", "ready"}
      /\ asked' \in [Client -> {0, 1}]
  <2>1. /\ client \in [Client -> {"start", "attach", "connect", "ready", "wait", "gone"}]
        /\ asked \in [Client -> {0, 1}] /\ 1 - asked[c] \in {0, 1}
    <3>1. asked \in [Client -> {0, 1}] BY <1>2 DEF TypeOK
    <3>2. asked[c] \in {0, 1} BY <3>1
    <3>3. 1 - asked[c] \in {0, 1} BY <3>2
    <3>4. QED BY <1>2, <3>1, <3>3 DEF TypeOK
  <2>2. CASE m.kind = "connect" BY <2>1, <2>2 DEF SentFrom
  <2>3. CASE m.kind \in {"request", "long"} BY <2>1, <2>3 DEF SentFrom
  <2>4. CASE m.kind = "exit" BY <2>1, <2>4 DEF SentFrom
  <2>5. QED BY <2>2, <2>3, <2>4 DEF SentFrom
<1>4. Slots' /\ Waiting' = Waiting BY <1>1 DEF QueueState, Slots, Waiting
<1>5. TypeOK' BY <1>1, <1>2, <1>3, <1>4, SentInbox DEF TypeOK
<1>6. Numbered' BY <1>1, <1>3 DEF QueueState, Numbered
<1>7. Emptied' BY <1>1 DEF QueueState, Emptied, Sent
<1>8. CurrentRun'
  <2>1. server \in Up => \A i \in DOMAIN inbox' : OfThisRun(inbox'[i])
    <3>1. ASSUME server \in Up, NEW i \in DOMAIN inbox' PROVE OfThisRun(inbox'[i])
      <4>1. CASE i \in DOMAIN inbox BY <1>2, <3>1, <4>1, SentInbox DEF QueueState, CurrentRun
      <4>2. CASE inbox'[i] = m /\ (Knows(c, "r") \/ m.kind = "exit")
        BY <3>1, <4>2 DEF QueueState, Numbered, Knows, OfThisRun
      <4>3. QED BY <1>2, <4>1, <4>2, SentInbox
    <3>2. QED BY <3>1
  <2>2. QED BY <1>1, <2>1 DEF QueueState, CurrentRun, OfThisRun
<1>9. ConnectFirst'
  <2>1. SUFFICES ASSUME server \in {"create", "accept"}
                 PROVE  /\ inbox' # <<>> => Head(inbox').kind \in {"connect", "exit"}
                        /\ \A d \in Client : at[d]["r"] = runs /\ client'[d] \in {"ready", "wait"}
                               => inbox' # <<>>
    BY <1>1 DEF ConnectFirst
  <2>2. inbox \in Seq(Messages) BY <1>2 DEF TypeOK
  <2>3. /\ inbox # <<>> => Head(inbox).kind \in {"connect", "exit"}
        /\ \A d \in Client : at[d]["r"] = runs /\ client[d] \in {"ready", "wait"} => inbox # <<>>
        /\ id["r"] = runs /\ runs > 0
    BY <2>1 DEF QueueState, ConnectFirst, Numbered, Up
  <2>4. CASE inbox' = inbox /\ ~Knows(c, "r")
    <3>1. at[c]["r"] # runs BY <2>3, <2>4 DEF Knows
    <3>2. QED BY <1>3, <2>3, <2>4, <3>1
  <2>5. CASE inbox' = Append(inbox, m) /\ (Knows(c, "r") \/ m.kind = "exit")
    <3>1. inbox' # <<>> BY <2>2, <2>5, AppendFacts
    <3>2. CASE inbox # <<>> BY <2>2, <2>3, <2>5, <3>1, <3>2, AppendFacts
    <3>3. CASE inbox = <<>>
      <4>1. Head(inbox') = m BY <2>2, <2>5, <3>3, AppendFacts
      <4>2. m.kind \in {"connect", "exit"} BY <2>3, <2>5, <3>3 DEF SentFrom, Knows
      <4>3. QED BY <3>1, <4>1, <4>2
    <3>4. QED BY <3>2, <3>3
  <2>6. QED BY <2>4, <2>5 DEF Sent
<1>10. \A d \in Client : Outgoing(d)' BY <1>1 DEF QueueState, Outgoing
<1>11. QED BY <1>4, <1>5, <1>6, <1>7, <1>8, <1>9, <1>10 DEF QueueState

-----------------------------------------------------------------------------
(* The other steps.                                                        *)

\* msgget of queue r.
LEMMA ListenKeeps ==
    ASSUME QueueState, ipc_listen
    PROVE  QueueState'
<1>1. (Slots /\ Cardinality(Waiting) <= Capacity)'
  BY QueueAssumption DEF QueueState, TypeOK, Key, Slots, Waiting, ipc_listen,
    msgqueue_create, ServerAt, clientVars
<1>2. TypeOK'
  <2>1. runs' \in 0..MaxRun BY QueueAssumption DEF QueueState, TypeOK, ipc_listen
  <2>2. id' \in [Key -> 0..MaxRun]
    BY <2>1 DEF QueueState, TypeOK, Key, ipc_listen, msgqueue_create
  <2>3. QED
    BY <1>1, <2>1, <2>2 DEF QueueState, TypeOK, ipc_listen, msgqueue_create, ServerAt, clientVars
<1>3. Numbered'
  BY DEF QueueState, TypeOK, Key, Numbered, Up, ipc_listen, msgqueue_create,
    ServerAt, clientVars
<1>4. Emptied'
  BY DEF QueueState, TypeOK, Key, Emptied, Numbered, Up, Knows, ipc_listen,
    msgqueue_create, ServerAt, clientVars
<1>5. CurrentRun'
  BY SMTT(30) DEF QueueState, TypeOK, Key, CurrentRun, Numbered, OfThisRun, Up, Emptied,
    Messages, Knows, ipc_listen, msgqueue_create, ServerAt, clientVars
<1>6. ConnectFirst'
  BY DEF QueueState, TypeOK, Key, ConnectFirst, Numbered, Up, Emptied, Knows,
    ipc_listen, msgqueue_create, ServerAt, clientVars
<1>7. (\A d \in Client : Outgoing(d))'
  BY DEF QueueState, TypeOK, Key, Outgoing, Messages, CurrentRun, ipc_listen,
    msgqueue_create, ServerAt, clientVars
<1>8. QED BY <1>1, <1>2, <1>3, <1>4, <1>5, <1>6, <1>7 DEF QueueState

\* msgget of queue w.
LEMMA CreateKeeps ==
    ASSUME QueueState, CreateAnswers
    PROVE  QueueState'
<1>1. (Slots /\ Cardinality(Waiting) <= Capacity)'
  BY QueueAssumption DEF QueueState, TypeOK, Key, Slots, Waiting, CreateAnswers,
    msgqueue_create, ServerAt, clientVars
<1>2. TypeOK'
  BY QueueAssumption, <1>1, ZenonT(30) DEF QueueState, TypeOK, Key, Messages, Garbage, Nothing,
    Message, Numbered, CurrentRun, CreateAnswers, msgqueue_create, ServerAt,
    clientVars
<1>3. Numbered'
  BY DEF QueueState, TypeOK, Key, Numbered, Up, CreateAnswers, msgqueue_create,
    ServerAt, clientVars
<1>4. Emptied'
  BY DEF QueueState, TypeOK, Key, Emptied, Numbered, Up, Knows, CreateAnswers,
    msgqueue_create, ServerAt, clientVars
<1>5. CurrentRun'
  BY DEF QueueState, TypeOK, Key, CurrentRun, Numbered, OfThisRun, Up, Emptied,
    Messages, Knows, CreateAnswers, msgqueue_create, ServerAt, clientVars
<1>6. ConnectFirst'
  BY DEF QueueState, TypeOK, Key, ConnectFirst, Numbered, Up, Emptied, Knows,
    CreateAnswers, msgqueue_create, ServerAt, clientVars
<1>7. (\A d \in Client : Outgoing(d))'
  BY DEF QueueState, TypeOK, Key, Outgoing, Messages, CurrentRun, CreateAnswers,
    msgqueue_create, ServerAt, clientVars
<1>8. QED BY <1>1, <1>2, <1>3, <1>4, <1>5, <1>6, <1>7 DEF QueueState

\* The first message, and db_open or exit(1).
LEMMA AcceptKeeps ==
    ASSUME QueueState, ipc_accept
    PROVE  QueueState'
<1>1. /\ inbox \in Seq(Messages) /\ inbox # <<>> /\ inbox' = Tail(inbox) /\ Len(inbox) <= Capacity
      /\ Capacity \in Nat
  BY QueueAssumption DEF QueueState, TypeOK, ipc_accept, ipc_receive
<1>2. /\ inbox' \in Seq(Messages) /\ Len(inbox') <= Capacity
      /\ Head(inbox) = inbox[1] /\ 1 \in DOMAIN inbox /\ Head(inbox) \in Messages
      /\ \A i \in DOMAIN inbox' : i + 1 \in DOMAIN inbox /\ inbox'[i] = inbox[i + 1]
  BY <1>1, TailFacts
<1>3. (Slots /\ Cardinality(Waiting) <= Capacity)'
  BY QueueAssumption DEF QueueState, TypeOK, Key, Slots, Waiting, ipc_accept,
    ipc_receive, ServerAt, clientVars
<1>4. TypeOK'
  BY <1>1, <1>2, <1>3 DEF QueueState, TypeOK, Nothing, Message, ipc_accept, ipc_receive, ServerAt, clientVars
<1>5. Numbered'
  BY DEF QueueState, TypeOK, Key, Numbered, Up, ipc_accept, ipc_receive, ServerAt,
    clientVars
<1>6. Emptied'
  BY DEF QueueState, TypeOK, Key, Emptied, Numbered, Up, Knows, ipc_accept,
    ipc_receive, ServerAt, clientVars
<1>7. CurrentRun'
  BY <1>1, <1>2 DEF QueueState, CurrentRun, OfThisRun, Up, ipc_accept, ipc_receive, ServerAt, clientVars
<1>8. ConnectFirst'
  BY DEF QueueState, TypeOK, Key, ConnectFirst, Numbered, Up, Emptied, Knows,
    ipc_accept, ipc_receive, ServerAt, clientVars
<1>9. (\A d \in Client : Outgoing(d))'
  BY DEF QueueState, TypeOK, Key, Outgoing, Messages, CurrentRun, ipc_accept,
    ipc_receive, ServerAt, clientVars
<1>10. QED BY <1>3, <1>4, <1>5, <1>6, <1>7, <1>8, <1>9 DEF QueueState

\* The next message.
LEMMA ReceiveKeeps ==
    ASSUME QueueState, Receive
    PROVE  QueueState'
<1>1. /\ inbox \in Seq(Messages) /\ inbox # <<>> /\ inbox' = Tail(inbox) /\ Len(inbox) <= Capacity
      /\ Capacity \in Nat
  BY QueueAssumption DEF QueueState, TypeOK, Receive, ipc_receive
<1>2. /\ inbox' \in Seq(Messages) /\ Len(inbox') <= Capacity
      /\ Head(inbox) = inbox[1] /\ 1 \in DOMAIN inbox /\ Head(inbox) \in Messages
      /\ \A i \in DOMAIN inbox' : i + 1 \in DOMAIN inbox /\ inbox'[i] = inbox[i + 1]
  BY <1>1, TailFacts
<1>3. (Slots /\ Cardinality(Waiting) <= Capacity)'
  BY QueueAssumption DEF QueueState, TypeOK, Key, Slots, Waiting, Receive,
    ipc_receive, ServerAt, clientVars
<1>4. TypeOK'
  BY <1>1, <1>2, <1>3 DEF QueueState, TypeOK, Nothing, Message, Receive, ipc_receive, ServerAt, clientVars
<1>5. Numbered'
  BY DEF QueueState, TypeOK, Key, Numbered, Up, Receive, ipc_receive, ServerAt,
    clientVars
<1>6. Emptied'
  BY DEF QueueState, TypeOK, Key, Emptied, Numbered, Up, Knows, Receive,
    ipc_receive, ServerAt, clientVars
<1>7. CurrentRun'
  BY <1>1, <1>2 DEF QueueState, CurrentRun, OfThisRun, Up, Receive, ipc_receive, ServerAt, clientVars
<1>8. ConnectFirst'
  BY DEF QueueState, TypeOK, Key, ConnectFirst, Numbered, Up, Emptied, Knows,
    Receive, ipc_receive, ServerAt, clientVars
<1>9. (\A d \in Client : Outgoing(d))'
  BY DEF QueueState, TypeOK, Key, Outgoing, Messages, CurrentRun, Receive,
    ipc_receive, ServerAt, clientVars
<1>10. QED BY <1>3, <1>4, <1>5, <1>6, <1>7, <1>8, <1>9 DEF QueueState

\* A command that is too long.
LEMMA GarbageKeeps ==
    ASSUME QueueState, ReceiveGarbage
    PROVE  QueueState'
<1>1. (Slots /\ Cardinality(Waiting) <= Capacity)'
  BY QueueAssumption DEF QueueState, TypeOK, Key, Slots, Waiting, ReceiveGarbage,
    ServerAt, queueVars, clientVars
<1>2. TypeOK'
  BY QueueAssumption, <1>1 DEF QueueState, TypeOK, Key, Messages, Garbage, Nothing,
    Message, Numbered, CurrentRun, ReceiveGarbage, ServerAt, queueVars, clientVars
<1>3. Numbered'
  BY DEF QueueState, TypeOK, Key, Numbered, Up, ReceiveGarbage, ServerAt,
    queueVars, clientVars
<1>4. Emptied'
  BY DEF QueueState, TypeOK, Key, Emptied, Numbered, Up, Knows, ReceiveGarbage,
    ServerAt, queueVars, clientVars
<1>5. CurrentRun'
  BY DEF QueueState, TypeOK, Key, CurrentRun, Numbered, OfThisRun, Up, Emptied,
    Messages, Knows, ReceiveGarbage, ServerAt, queueVars, clientVars
<1>6. ConnectFirst'
  BY DEF QueueState, TypeOK, Key, ConnectFirst, Numbered, Up, Emptied, Knows,
    ReceiveGarbage, ServerAt, queueVars, clientVars
<1>7. (\A d \in Client : Outgoing(d))'
  BY DEF QueueState, TypeOK, Key, Outgoing, Messages, CurrentRun, ReceiveGarbage,
    ServerAt, queueVars, clientVars
<1>8. QED BY <1>1, <1>2, <1>3, <1>4, <1>5, <1>6, <1>7 DEF QueueState

\* A connect that is no first message.
LEMMA IgnoreKeeps ==
    ASSUME QueueState, Ignore
    PROVE  QueueState'
<1>1. (Slots /\ Cardinality(Waiting) <= Capacity)'
  BY QueueAssumption DEF QueueState, TypeOK, Key, Slots, Waiting, Ignore, Done,
    ServerAt, queueVars, clientVars
<1>2. TypeOK'
  BY QueueAssumption, <1>1 DEF QueueState, TypeOK, Key, Messages, Garbage, Nothing,
    Message, Numbered, CurrentRun, Ignore, Done, ServerAt, queueVars, clientVars
<1>3. Numbered'
  BY DEF QueueState, TypeOK, Key, Numbered, Up, Ignore, Done, ServerAt, queueVars,
    clientVars
<1>4. Emptied'
  BY DEF QueueState, TypeOK, Key, Emptied, Numbered, Up, Knows, Ignore, Done,
    ServerAt, queueVars, clientVars
<1>5. CurrentRun'
  BY DEF QueueState, TypeOK, Key, CurrentRun, Numbered, OfThisRun, Up, Emptied,
    Messages, Knows, Ignore, Done, ServerAt, queueVars, clientVars
<1>6. ConnectFirst'
  BY DEF QueueState, TypeOK, Key, ConnectFirst, Numbered, Up, Emptied, Knows,
    Ignore, Done, ServerAt, queueVars, clientVars
<1>7. (\A d \in Client : Outgoing(d))'
  BY DEF QueueState, TypeOK, Key, Outgoing, Messages, CurrentRun, Ignore, Done,
    ServerAt, queueVars, clientVars
<1>8. QED BY <1>1, <1>2, <1>3, <1>4, <1>5, <1>6, <1>7 DEF QueueState

\* ipc_send of the server.
LEMMA AnswerKeeps ==
    ASSUME QueueState, Answer
    PROVE  QueueState'
<1>1. /\ seen \in Messages /\ seen.of \in Client /\ seen.bit \in {0, 1}
      /\ at[seen.of]["r"] = runs /\ seen.kind = "request" /\ server = "execute"
  BY DEF QueueState, CurrentRun, OfThisRun, Messages, Answer
<1>2. \A k \in {"answer", "long"} : Message(k, seen.of, seen.bit) \in Messages
  BY <1>1 DEF Message, Messages
<1>3. PICK c \in Client : c = seen.of
  BY <1>1
<1>4. (Slots /\ Cardinality(Waiting) <= Capacity)'
  BY <1>1, <1>2, SlotsGrow DEF QueueState, Answer
<1>5. TypeOK'
  BY <1>1, <1>2, <1>4, SlotsGrow DEF QueueState, TypeOK, Answer, Done, ServerAt, clientVars
<1>6. Numbered'
  BY DEF QueueState, TypeOK, Key, Numbered, Up, Answer, Done, ServerAt, clientVars,
    Message
<1>7. Emptied'
  BY DEF QueueState, TypeOK, Key, Emptied, Numbered, Up, Knows, Answer, Done,
    ServerAt, clientVars, Message
<1>8. CurrentRun'
  BY <1>1 DEF QueueState, TypeOK, CurrentRun, OfThisRun, Up, Answer, Done, ServerAt, clientVars
<1>9. ConnectFirst'
  BY DEF QueueState, TypeOK, Key, ConnectFirst, Numbered, Up, Emptied, Knows,
    Answer, Done, ServerAt, clientVars, Message
<1>10. (\A d \in Client : Outgoing(d))'
  <2>1. outbox[seen.of] \in Seq(Messages) BY <1>1 DEF QueueState, TypeOK
  <2>2. /\ \A d \in Client : d # seen.of => outbox'[d] = outbox[d]
        /\ outbox'[seen.of] = Append(outbox[seen.of], Message("answer", seen.of, seen.bit))
        /\ overlong' = overlong
    BY <1>1 DEF QueueState, TypeOK, Answer
  <2>3. Outgoing(c)'
    BY <1>1, <1>2, <1>3, <2>1, <2>2, AppendFacts DEF QueueState, Outgoing, Message
  <2>4. QED BY <1>3, <2>2, <2>3, SMTT(30) DEF QueueState, Outgoing
<1>11. QED BY <1>4, <1>5, <1>6, <1>7, <1>8, <1>9, <1>10 DEF QueueState

\* ipc_send of the server, of more than fits in a datagram.
LEMMA TooLongKeeps ==
    ASSUME QueueState, AnswerTooLong
    PROVE  QueueState'
<1>1. /\ seen \in Messages /\ seen.of \in Client /\ seen.bit \in {0, 1}
      /\ at[seen.of]["r"] = runs /\ seen.kind = "request" /\ server = "execute"
  BY DEF QueueState, CurrentRun, OfThisRun, Messages, AnswerTooLong
<1>2. \A k \in {"answer", "long"} : Message(k, seen.of, seen.bit) \in Messages
  BY <1>1 DEF Message, Messages
<1>3. PICK c \in Client : c = seen.of
  BY <1>1
<1>4. (Slots /\ Cardinality(Waiting) <= Capacity)'
  <2>1. CASE UNCHANGED outbox BY <2>1 DEF QueueState, Slots, Waiting, TypeOK
  <2>2. CASE /\ Cardinality(Waiting) < Capacity
             /\ outbox' = [outbox EXCEPT ![seen.of] =
                               Append(@, Message("long", seen.of, seen.bit))]
    BY <1>1, <1>2, <2>2, SlotsGrow DEF QueueState
  <2>3. QED BY <2>1, <2>2 DEF AnswerTooLong
<1>5. TypeOK'
  <2>1. outbox' \in [Client -> Seq(Messages)]
    BY <1>1, <1>2, SlotsGrow DEF QueueState, TypeOK, AnswerTooLong
  <2>2. QED
    BY <1>1, <1>4, <2>1 DEF QueueState, TypeOK, AnswerTooLong, Done, ServerAt, clientVars
<1>6. Numbered'
  BY DEF QueueState, TypeOK, Key, Numbered, Up, AnswerTooLong, Done, ServerAt,
    clientVars, Message
<1>7. Emptied'
  BY DEF QueueState, TypeOK, Key, Emptied, Numbered, Up, Knows, AnswerTooLong,
    Done, ServerAt, clientVars, Message
<1>8. CurrentRun'
  BY <1>1 DEF QueueState, TypeOK, CurrentRun, OfThisRun, Up, AnswerTooLong, Done, ServerAt, clientVars
<1>9. ConnectFirst'
  BY DEF QueueState, TypeOK, Key, ConnectFirst, Numbered, Up, Emptied, Knows,
    AnswerTooLong, Done, ServerAt, clientVars, Message
<1>10. (\A d \in Client : Outgoing(d))'
  <2>1. /\ outbox \in [Client -> Seq(Messages)] /\ outbox[seen.of] \in Seq(Messages)
        /\ overlong' = overlong \cup {seen.of}
    BY <1>1 DEF QueueState, TypeOK, AnswerTooLong
  <2>2. CASE UNCHANGED outbox BY <2>1, <2>2 DEF QueueState, Outgoing
  <2>3. CASE outbox' = [outbox EXCEPT ![seen.of] = Append(@, Message("long", seen.of, seen.bit))]
    <3>1. /\ \A d \in Client : d # seen.of => outbox'[d] = outbox[d]
          /\ outbox'[seen.of] = Append(outbox[seen.of], Message("long", seen.of, seen.bit))
      BY <1>1, <2>1, <2>3
    <3>2. Outgoing(c)'
      BY <1>1, <1>2, <1>3, <2>1, <3>1, AppendFacts DEF QueueState, Outgoing, Message
    <3>3. QED BY <1>3, <2>1, <3>1, <3>2, ZenonT(30) DEF QueueState, Outgoing
  <2>4. QED BY <2>2, <2>3 DEF AnswerTooLong
<1>11. QED BY <1>4, <1>5, <1>6, <1>7, <1>8, <1>9, <1>10 DEF QueueState

\* exit(1) of the database.
LEMMA FailKeeps ==
    ASSUME QueueState, ServerFails
    PROVE  QueueState'
<1>1. (Slots /\ Cardinality(Waiting) <= Capacity)'
  BY QueueAssumption DEF QueueState, TypeOK, Key, Slots, Waiting, ServerFails,
    Done, ServerAt, queueVars, clientVars
<1>2. TypeOK'
  BY QueueAssumption, <1>1 DEF QueueState, TypeOK, Key, Messages, Garbage, Nothing,
    Message, Numbered, CurrentRun, ServerFails, Done, ServerAt, queueVars,
    clientVars
<1>3. Numbered'
  BY DEF QueueState, TypeOK, Key, Numbered, Up, ServerFails, Done, ServerAt,
    queueVars, clientVars
<1>4. Emptied'
  BY DEF QueueState, TypeOK, Key, Emptied, Numbered, Up, Knows, ServerFails, Done,
    ServerAt, queueVars, clientVars
<1>5. CurrentRun'
  BY DEF QueueState, TypeOK, Key, CurrentRun, Numbered, OfThisRun, Up, Emptied,
    Messages, Knows, ServerFails, Done, ServerAt, queueVars, clientVars
<1>6. ConnectFirst'
  BY DEF QueueState, TypeOK, Key, ConnectFirst, Numbered, Up, Emptied, Knows,
    ServerFails, Done, ServerAt, queueVars, clientVars
<1>7. (\A d \in Client : Outgoing(d))'
  BY DEF QueueState, TypeOK, Key, Outgoing, Messages, CurrentRun, ServerFails,
    Done, ServerAt, queueVars, clientVars
<1>8. QED BY <1>1, <1>2, <1>3, <1>4, <1>5, <1>6, <1>7 DEF QueueState

\* The first half of ipc_disconnect.
LEMMA DisconnectKeeps ==
    ASSUME QueueState, ServerExits \/ ServerInterrupt
    PROVE  QueueState'
<1>1. (Slots /\ Cardinality(Waiting) <= Capacity)'
  BY QueueAssumption DEF QueueState, TypeOK, Key, Slots, Waiting, ServerExits,
    ServerInterrupt, ipc_disconnect, Done, ServerAt, clientVars
<1>2. TypeOK'
  <2>1. inbox' \in Seq(Messages) /\ Len(inbox') <= Capacity /\ id' \in [Key -> 0..MaxRun]
    <3>1. inbox' = <<>> /\ id' = [id EXCEPT !["r"] = 0]
      BY DEF ServerExits, ServerInterrupt, ipc_disconnect
    <3>2. id' \in [Key -> 0..MaxRun] BY <3>1, QueueAssumption DEF QueueState, TypeOK, Key
    <3>3. QED BY <3>1, <3>2, QueueAssumption
  <2>2. QED
    BY <1>1, <2>1 DEF QueueState, TypeOK, ServerExits, ServerInterrupt, ipc_disconnect, Done,
                      ServerAt, clientVars
<1>3. Numbered'
  BY DEF QueueState, TypeOK, Key, Numbered, Up, ServerExits, ServerInterrupt,
    ipc_disconnect, Done, ServerAt, clientVars
<1>4. Emptied'
  BY DEF QueueState, TypeOK, Key, Emptied, Numbered, Up, Knows, ServerExits,
    ServerInterrupt, ipc_disconnect, Done, ServerAt, clientVars
<1>5. CurrentRun'
  BY DEF QueueState, TypeOK, Key, CurrentRun, Numbered, OfThisRun, Up, Emptied,
    Messages, Knows, ServerExits, ServerInterrupt, ipc_disconnect, Done, ServerAt,
    clientVars
<1>6. ConnectFirst'
  BY DEF QueueState, TypeOK, Key, ConnectFirst, Numbered, Up, Emptied, Knows,
    ServerExits, ServerInterrupt, ipc_disconnect, Done, ServerAt, clientVars
<1>7. (\A d \in Client : Outgoing(d))'
  BY SMTT(30) DEF QueueState, TypeOK, Key, Outgoing, Messages, CurrentRun, ServerExits,
    ServerInterrupt, ipc_disconnect, Done, ServerAt, clientVars
<1>8. QED BY <1>1, <1>2, <1>3, <1>4, <1>5, <1>6, <1>7 DEF QueueState

\* The second half of ipc_disconnect.
LEMMA DownKeeps ==
    ASSUME QueueState, Disconnected
    PROVE  QueueState'
<1>1. /\ outbox' \in [Client -> Seq(Messages)]
      /\ \A c \in Client : Len(outbox'[c]) <= Len(outbox[c])
  <2>1. CASE outbox' = outbox BY <2>1 DEF QueueState, TypeOK
  <2>2. CASE outbox' = [c \in Client |-> <<>>] BY <2>2 DEF QueueState, TypeOK
  <2>3. QED BY <2>1, <2>2 DEF Disconnected
<1>2. (Slots /\ Cardinality(Waiting) <= Capacity)'
  BY <1>1, SlotsShrink DEF QueueState
<1>3. TypeOK'
  <2>1. id' \in [Key -> 0..MaxRun] BY QueueAssumption DEF QueueState, TypeOK, Key, Disconnected
  <2>2. QED BY <1>1, <1>2, <2>1 DEF QueueState, TypeOK, Disconnected, ServerAt, clientVars
<1>4. Numbered'
  BY DEF QueueState, TypeOK, Key, Numbered, Up, Disconnected, ServerAt, clientVars
<1>5. Emptied'
  BY DEF QueueState, TypeOK, Key, Emptied, Numbered, Up, Knows, Disconnected,
    ServerAt, clientVars
<1>6. CurrentRun'
  BY DEF QueueState, TypeOK, Key, CurrentRun, Numbered, OfThisRun, Up, Emptied,
    Messages, Knows, Disconnected, ServerAt, clientVars
<1>7. ConnectFirst'
  BY DEF QueueState, TypeOK, Key, ConnectFirst, Numbered, Up, Emptied, Knows,
    Disconnected, ServerAt, clientVars
<1>8. (\A d \in Client : Outgoing(d))'
  BY SMTT(30) DEF QueueState, TypeOK, Key, Outgoing, Messages, CurrentRun, Disconnected,
    ServerAt, clientVars
<1>9. QED BY <1>2, <1>3, <1>4, <1>5, <1>6, <1>7, <1>8 DEF QueueState

\* msgqueue_attach of queue r.
LEMMA AttachRKeeps ==
    ASSUME QueueState, NEW c \in Client, AttachCommands(c)
    PROVE  QueueState'
<1>1. (Slots /\ Cardinality(Waiting) <= Capacity)'
  BY QueueAssumption DEF QueueState, TypeOK, Key, Slots, Waiting, AttachCommands,
    Attach, ClientAt, serverVars, queueVars
<1>2. TypeOK'
  BY QueueAssumption, <1>1 DEF QueueState, TypeOK, Key, Messages, Garbage, Nothing,
    Message, Numbered, CurrentRun, AttachCommands, Attach, ClientAt, serverVars,
    queueVars
<1>3. Numbered'
  BY DEF QueueState, TypeOK, Key, Numbered, Up, AttachCommands, Attach, ClientAt,
    serverVars, queueVars
<1>4. Emptied'
  BY DEF QueueState, TypeOK, Key, Emptied, Numbered, Up, Knows, AttachCommands,
    Attach, ClientAt, serverVars, queueVars
<1>5. CurrentRun'
  <2>1. ASSUME NEW n \in Client, at[n]["r"] = runs, server \in Up PROVE at'[n]["r"] = runs
    BY <2>1 DEF QueueState, TypeOK, Key, Numbered, AttachCommands, Attach
  <2>2. \A i \in DOMAIN inbox : inbox[i].of \in Client
    <3>1. \A i \in DOMAIN inbox : inbox[i] \in Messages BY DEF QueueState, TypeOK
    <3>2. QED BY <3>1 DEF Messages
  <2>3. seen \in Messages => seen.of \in Client BY DEF Messages
  <2>4. QED
    BY <2>1, <2>2, <2>3 DEF QueueState, CurrentRun, OfThisRun, Up, AttachCommands, Attach,
       serverVars, queueVars
<1>6. ConnectFirst'
  BY DEF QueueState, TypeOK, Key, ConnectFirst, Numbered, Up, Emptied, Knows,
    AttachCommands, Attach, ClientAt, serverVars, queueVars
<1>7. (\A d \in Client : Outgoing(d))'
  BY DEF QueueState, TypeOK, Key, Outgoing, Messages, CurrentRun, AttachCommands,
    Attach, ClientAt, serverVars, queueVars
<1>8. QED BY <1>1, <1>2, <1>3, <1>4, <1>5, <1>6, <1>7 DEF QueueState

\* msgqueue_attach of queue w.
LEMMA AttachWKeeps ==
    ASSUME QueueState, NEW c \in Client, AttachAnswers(c)
    PROVE  QueueState'
<1>1. (Slots /\ Cardinality(Waiting) <= Capacity)'
  BY QueueAssumption DEF QueueState, TypeOK, Key, Slots, Waiting, AttachAnswers,
    Attach, ClientAt, serverVars, queueVars
<1>2. TypeOK'
  BY QueueAssumption, <1>1 DEF QueueState, TypeOK, Key, Messages, Garbage, Nothing,
    Message, Numbered, CurrentRun, AttachAnswers, Attach, ClientAt, serverVars,
    queueVars
<1>3. Numbered'
  BY DEF QueueState, TypeOK, Key, Numbered, Up, AttachAnswers, Attach, ClientAt,
    serverVars, queueVars
<1>4. Emptied'
  BY DEF QueueState, TypeOK, Key, Emptied, Numbered, Up, Knows, AttachAnswers,
    Attach, ClientAt, serverVars, queueVars
<1>5. CurrentRun'
  BY DEF QueueState, TypeOK, Key, CurrentRun, Numbered, OfThisRun, Up, Emptied,
    Messages, Knows, AttachAnswers, Attach, ClientAt, serverVars, queueVars
<1>6. ConnectFirst'
  BY DEF QueueState, TypeOK, Key, ConnectFirst, Numbered, Up, Emptied, Knows,
    AttachAnswers, Attach, ClientAt, serverVars, queueVars
<1>7. (\A d \in Client : Outgoing(d))'
  BY DEF QueueState, TypeOK, Key, Outgoing, Messages, CurrentRun, AttachAnswers,
    Attach, ClientAt, serverVars, queueVars
<1>8. QED BY <1>1, <1>2, <1>3, <1>4, <1>5, <1>6, <1>7 DEF QueueState

\* ipc_receive of a client.
LEMMA TakeKeeps ==
    ASSUME QueueState, NEW c \in Client, TakeAnswer(c)
    PROVE  QueueState'
<1>1. /\ outbox \in [Client -> Seq(Messages)] /\ outbox[c] \in Seq(Messages) /\ outbox[c] # <<>>
      /\ outbox' = [outbox EXCEPT ![c] = Tail(@)]
  BY DEF QueueState, TypeOK, TakeAnswer
<1>2. /\ outbox' \in [Client -> Seq(Messages)] /\ got' \in [Client -> Messages \cup {Nothing, Garbage}]
      /\ \A d \in Client :
            /\ Len(outbox'[d]) <= Len(outbox[d])
            /\ outbox'[d] # <<>> => outbox[d] # <<>>
            /\ \A i \in DOMAIN outbox'[d] : \E j \in DOMAIN outbox[d] : outbox'[d][i] = outbox[d][j]
  <2>1. \A d \in Client : d # c => outbox'[d] = outbox[d] BY <1>1
  <2>2. outbox'[c] = Tail(outbox[c]) BY <1>1
  <2>3. \A d \in Client : outbox[d] \in Seq(Messages) /\ Len(outbox[d]) \in Nat BY <1>1
  <2>4. /\ Tail(outbox[c]) \in Seq(Messages) /\ Head(outbox[c]) \in Messages
        /\ Len(Tail(outbox[c])) <= Len(outbox[c])
        /\ \A i \in DOMAIN Tail(outbox[c]) : i + 1 \in DOMAIN outbox[c]
                                            /\ Tail(outbox[c])[i] = outbox[c][i + 1]
    BY <1>1, TailFacts
  <2>5. outbox' \in [Client -> Seq(Messages)] BY <1>1, <2>4
  <2>6. got' \in [Client -> Messages \cup {Nothing, Garbage}]
    BY <2>4 DEF QueueState, TypeOK, TakeAnswer
  <2>7. QED BY <1>1, <2>1, <2>2, <2>3, <2>4, <2>5, <2>6
<1>3. (Slots /\ Cardinality(Waiting) <= Capacity)'
  BY <1>2, SlotsShrink DEF QueueState
<1>4. TypeOK'
  BY <1>2, <1>3 DEF QueueState, TypeOK, TakeAnswer, ClientAt, serverVars
<1>5. Numbered'
  BY DEF QueueState, TypeOK, Key, Numbered, Up, TakeAnswer, ClientAt, serverVars
<1>6. Emptied'
  BY DEF QueueState, TypeOK, Key, Emptied, Numbered, Up, Knows, TakeAnswer,
    ClientAt, serverVars
<1>7. CurrentRun'
  BY <1>1, <1>2 DEF QueueState, CurrentRun, OfThisRun, Up, TakeAnswer, serverVars
<1>8. ConnectFirst'
  BY DEF QueueState, TypeOK, Key, ConnectFirst, Numbered, Up, Emptied, Knows,
    TakeAnswer, ClientAt, serverVars
<1>9. (\A d \in Client : Outgoing(d))'
  <2>1. overlong' = overlong BY DEF TakeAnswer
  <2>2. QED BY <1>2, <2>1 DEF QueueState, Outgoing
<1>10. QED BY <1>3, <1>4, <1>5, <1>6, <1>7, <1>8, <1>9 DEF QueueState

\* A msgrcv of a client that fails.
LEMMA TakeGarbageKeeps ==
    ASSUME QueueState, NEW c \in Client, TakeGarbage(c)
    PROVE  QueueState'
<1>1. (Slots /\ Cardinality(Waiting) <= Capacity)'
  BY QueueAssumption DEF QueueState, TypeOK, Key, Slots, Waiting, TakeGarbage,
    ClientAt, serverVars, queueVars
<1>2. TypeOK'
  BY QueueAssumption, <1>1 DEF QueueState, TypeOK, Key, Messages, Garbage, Nothing,
    Message, Numbered, CurrentRun, TakeGarbage, ClientAt, serverVars, queueVars
<1>3. Numbered'
  BY DEF QueueState, TypeOK, Key, Numbered, Up, TakeGarbage, ClientAt, serverVars,
    queueVars
<1>4. Emptied'
  BY DEF QueueState, TypeOK, Key, Emptied, Numbered, Up, Knows, TakeGarbage,
    ClientAt, serverVars, queueVars
<1>5. CurrentRun'
  BY DEF QueueState, TypeOK, Key, CurrentRun, Numbered, OfThisRun, Up, Emptied,
    Messages, Knows, TakeGarbage, ClientAt, serverVars, queueVars
<1>6. ConnectFirst'
  BY DEF QueueState, TypeOK, Key, ConnectFirst, Numbered, Up, Emptied, Knows,
    TakeGarbage, ClientAt, serverVars, queueVars
<1>7. (\A d \in Client : Outgoing(d))'
  BY ZenonT(30) DEF QueueState, TypeOK, Key, Outgoing, Messages, CurrentRun, TakeGarbage,
    ClientAt, serverVars, queueVars
<1>8. QED BY <1>1, <1>2, <1>3, <1>4, <1>5, <1>6, <1>7 DEF QueueState

\* The end of the input.
LEMMA LeaveKeeps ==
    ASSUME QueueState, NEW c \in Client, Leave(c)
    PROVE  QueueState'
<1>1. (Slots /\ Cardinality(Waiting) <= Capacity)'
  BY QueueAssumption DEF QueueState, TypeOK, Key, Slots, Waiting, Leave, ClientAt,
    serverVars, queueVars
<1>2. TypeOK'
  BY QueueAssumption, <1>1 DEF QueueState, TypeOK, Key, Messages, Garbage, Nothing,
    Message, Numbered, CurrentRun, Leave, ClientAt, serverVars, queueVars
<1>3. Numbered'
  BY DEF QueueState, TypeOK, Key, Numbered, Up, Leave, ClientAt, serverVars,
    queueVars
<1>4. Emptied'
  BY DEF QueueState, TypeOK, Key, Emptied, Numbered, Up, Knows, Leave, ClientAt,
    serverVars, queueVars
<1>5. CurrentRun'
  BY DEF QueueState, TypeOK, Key, CurrentRun, Numbered, OfThisRun, Up, Emptied,
    Messages, Knows, Leave, ClientAt, serverVars, queueVars
<1>6. ConnectFirst'
  BY DEF QueueState, TypeOK, Key, ConnectFirst, Numbered, Up, Emptied, Knows,
    Leave, ClientAt, serverVars, queueVars
<1>7. (\A d \in Client : Outgoing(d))'
  BY DEF QueueState, TypeOK, Key, Outgoing, Messages, CurrentRun, Leave, ClientAt,
    serverVars, queueVars
<1>8. QED BY <1>1, <1>2, <1>3, <1>4, <1>5, <1>6, <1>7 DEF QueueState

\* Nothing happens.
LEMMA StutterKeeps ==
    ASSUME QueueState, UNCHANGED vars
    PROVE  QueueState'
<1>1. (Slots /\ Cardinality(Waiting) <= Capacity)'
  BY QueueAssumption DEF QueueState, TypeOK, Key, Slots, Waiting, vars, serverVars,
    queueVars, clientVars
<1>2. TypeOK'
  BY QueueAssumption, <1>1 DEF QueueState, TypeOK, Key, Messages, Garbage, Nothing,
    Message, Numbered, CurrentRun, vars, serverVars, queueVars, clientVars
<1>3. Numbered'
  BY DEF QueueState, TypeOK, Key, Numbered, Up, vars, serverVars, queueVars,
    clientVars
<1>4. Emptied'
  BY DEF QueueState, TypeOK, Key, Emptied, Numbered, Up, Knows, vars, serverVars,
    queueVars, clientVars
<1>5. CurrentRun'
  BY DEF QueueState, TypeOK, Key, CurrentRun, Numbered, OfThisRun, Up, Emptied,
    Messages, Knows, vars, serverVars, queueVars, clientVars
<1>6. ConnectFirst'
  BY DEF QueueState, TypeOK, Key, ConnectFirst, Numbered, Up, Emptied, Knows, vars,
    serverVars, queueVars, clientVars
<1>7. (\A d \in Client : Outgoing(d))'
  BY DEF QueueState, TypeOK, Key, Outgoing, Messages, CurrentRun, vars, serverVars,
    queueVars, clientVars
<1>8. QED BY <1>1, <1>2, <1>3, <1>4, <1>5, <1>6, <1>7 DEF QueueState

\* Every step of Next keeps it.
LEMMA NextKeeps ==
    ASSUME QueueState, [Next]_vars
    PROVE  QueueState'
<1>1. CASE ServerStep
  BY <1>1, CreateKeeps, AcceptKeeps, ReceiveKeeps, IgnoreKeeps, AnswerKeeps, TooLongKeeps,
     DisconnectKeeps, DownKeeps DEF ServerStep
<1>2. CASE ipc_listen \/ ReceiveGarbage \/ ServerFails \/ ServerInterrupt
  BY <1>2, ListenKeeps, GarbageKeeps, FailKeeps, DisconnectKeeps
<1>3. ASSUME NEW c \in Client,
             \/ AttachCommands(c) \/ AttachAnswers(c) \/ ClientStep(c)
             \/ ipc_send(c) \/ SendTooLong(c) \/ send_exit(c) \/ ExitAstray(c) \/ Leave(c)
      PROVE  QueueState'
  <2>1. CASE ipc_connect(c) \/ ipc_send(c) \/ SendTooLong(c) \/ send_exit(c) \/ ExitAstray(c)
    BY <2>1, Senders, SentKeeps
  <2>2. CASE AttachCommands(c) \/ AttachAnswers(c) \/ Leave(c)
    BY <2>2, AttachRKeeps, AttachWKeeps, LeaveKeeps
  <2>3. CASE TakeAnswer(c) \/ TakeGarbage(c)
    BY <2>3, TakeKeeps, TakeGarbageKeeps
  <2>4. QED BY <1>3, <2>1, <2>2, <2>3 DEF ClientStep
<1>4. CASE UNCHANGED vars BY <1>4, StutterKeeps
<1>5. QED BY <1>1, <1>2, <1>3, <1>4 DEF Next

\* The first state.
LEMMA InitKeeps == Init => QueueState
<1> SUFFICES ASSUME Init PROVE QueueState
  OBVIOUS
<1>1. <<>> \in Seq(Messages) /\ Capacity \in Nat /\ MaxRun \in Nat BY QueueAssumption
<1>2. Waiting = {}
  <2>1. \A c \in Client : Len(outbox[c]) = 0 BY DEF Init
  <2>2. QED BY <2>1 DEF Waiting
<1>3. TypeOK BY <1>1, <1>2, FS_EmptySet DEF Init, TypeOK, Key
<1>4. Slots BY <1>1, <1>2, FS_EmptySet DEF Init, Slots
<1>5. QED
  BY <1>3, <1>4 DEF Init, QueueState, Numbered, Emptied, CurrentRun, ConnectFirst, Outgoing,
     Key, Up

-----------------------------------------------------------------------------
(* A connection that is lost stays lost.                                   *)

\* What a step may do to the reasons for which client d is lost.
Worse(d) ==
    /\ d \in overlong => d \in overlong'
    /\ client[d] # "start" => client'[d] # "start"
    /\ client[d] \notin {"start", "attach"} => client'[d] \notin {"start", "attach"}
    /\ client[d] # "start" /\ ~Knows(d, "r") => ~Knows(d, "r")'
    /\ client[d] \notin {"start", "attach"} /\ ~Knows(d, "w") => ~Knows(d, "w")'
    /\ client[d] = "gone" => client'[d] = "gone"
    /\ Jammed => Jammed' \/ id'["r"] = 0

\* No queue gets a number that a client knows from an earlier run.
LEMMA NextWorse ==
    ASSUME QueueState, [Next]_vars, NEW d \in Client
    PROVE  Worse(d)
<1> USE DEF QueueState, TypeOK, Key, Numbered, Worse, Knows
<1>1. CASE ipc_listen BY <1>1 DEF ipc_listen, msgqueue_create, clientVars, Jammed
<1>2. CASE CreateAnswers BY <1>2 DEF CreateAnswers, msgqueue_create, clientVars, Jammed
<1>3. CASE ipc_accept \/ Receive
  <2>1. /\ inbox # <<>> /\ inbox' = Tail(inbox) /\ Head(inbox).kind # "long"
        /\ UNCHANGED <<id, at, client, overlong>>
    BY <1>3 DEF ipc_accept, Receive, ipc_receive, clientVars, ConnectFirst
  <2>2. Jammed => Jammed'
    <3>1. ASSUME NEW i \in DOMAIN inbox, inbox[i].kind = "long"
          PROVE  i - 1 \in DOMAIN inbox' /\ inbox'[i - 1].kind = "long"
      <4>1. i \in 1..Len(inbox) /\ i # 1 /\ Len(inbox) \in Nat BY <2>1, <3>1, TailFacts
      <4>2. i - 1 \in 1..(Len(inbox) - 1) BY <4>1
      <4>3. QED BY <2>1, <3>1, <4>1, <4>2, TailFacts
    <3>2. QED BY <3>1 DEF Jammed
  <2>3. QED BY <2>1, <2>2
<1>4. CASE ReceiveGarbage \/ Ignore \/ ServerFails \/ Answer \/ AnswerTooLong
  BY <1>4 DEF ReceiveGarbage, Ignore, ServerFails, Answer, AnswerTooLong, queueVars, clientVars,
     Jammed
<1>5. CASE ServerExits \/ ServerInterrupt
  BY <1>5 DEF ServerExits, ServerInterrupt, ipc_disconnect, clientVars
<1>6. CASE Disconnected BY <1>6 DEF Disconnected, clientVars, Jammed
<1>7. ASSUME NEW c \in Client, AttachCommands(c) \/ AttachAnswers(c) PROVE Worse(d)
  <2>1. UNCHANGED <<id, inbox, overlong>> /\ (Jammed => Jammed')
    BY <1>7 DEF AttachCommands, AttachAnswers, Attach, queueVars, Jammed
  <2>2. CASE d # c
    <3>1. client'[d] = client[d] /\ at'[d] = at[d]
      BY <1>7, <2>2 DEF AttachCommands, AttachAnswers, Attach, ClientAt
    <3>2. QED BY <2>1, <3>1
  <2>3. CASE d = c /\ AttachCommands(c)
    BY <2>1, <2>3 DEF AttachCommands, Attach, ClientAt
  <2>4. CASE d = c /\ AttachAnswers(c)
    <3>1. client[c] = "attach" /\ client'[c] \in {"connect", "gone"} /\ at'[c]["r"] = at[c]["r"]
      BY <2>4 DEF AttachAnswers, Attach, ClientAt
    <3>2. QED BY <2>1, <2>4, <3>1
  <2>5. QED BY <1>7, <2>2, <2>3, <2>4
<1>8. ASSUME NEW c \in Client,
             ipc_connect(c) \/ ipc_send(c) \/ SendTooLong(c) \/ send_exit(c) \/ ExitAstray(c)
      PROVE  Worse(d)
  <2>1. PICK m \in Messages : m.of = c /\ Sent(c, m) /\ SentFrom(c, m) BY <1>8, Senders
  <2>2. UNCHANGED <<id, at, overlong>> BY <2>1 DEF Sent
  <2>3. Jammed => Jammed' BY <2>1, SentInbox DEF Jammed
  <2>4. /\ d # c => client'[d] = client[d]
        /\ client'[c] \in {"ready", "wait", "gone"}
        /\ client[c] = "gone" => client'[c] = "gone"
    BY <2>1 DEF SentFrom
  <2>5. QED BY <2>2, <2>3, <2>4
<1>9. ASSUME NEW c \in Client, TakeAnswer(c) \/ TakeGarbage(c) \/ Leave(c) PROVE Worse(d)
  BY <1>9 DEF TakeAnswer, TakeGarbage, Leave, ClientAt, serverVars, queueVars, Jammed
<1>10. CASE UNCHANGED vars
  BY <1>10 DEF vars, serverVars, queueVars, clientVars, Jammed
<1>11. QED
  BY <1>1, <1>2, <1>3, <1>4, <1>5, <1>6, <1>7, <1>8, <1>9, <1>10
     DEF Next, ServerStep, ClientStep

\* A client that has lost its server does not find it again.
LEMMA LostStays ==
    ASSUME QueueState, [Next]_vars, NEW d \in Client, Lost(d), client[d] # "gone"
    PROVE  client'[d] = "gone" \/ Lost(d)'
<1>1. Worse(d) BY NextWorse
<1>2. CASE d \in overlong BY <1>1, <1>2 DEF Worse, Lost
<1>3. CASE Knows(d, "r") /\ Jammed
  <2>1. client[d] # "start" BY <1>3 DEF QueueState, Numbered, Knows
  <2>2. client'[d] # "start" BY <1>1, <2>1 DEF Worse
  <2>3. CASE ~Knows(d, "r")' BY <2>2, <2>3 DEF Lost
  <2>4. CASE Knows(d, "r")'
    <3>1. Jammed' BY <1>1, <1>3, <2>4 DEF Worse, Knows
    <3>2. QED BY <2>4, <3>1 DEF Lost
  <2>5. QED BY <2>3, <2>4
<1>4. CASE client[d] # "start" /\ ~Knows(d, "r") BY <1>1, <1>4 DEF Worse, Lost
<1>5. CASE client[d] \notin {"start", "attach"} /\ ~Knows(d, "w") BY <1>1, <1>5 DEF Worse, Lost
<1>6. QED BY <1>2, <1>3, <1>4, <1>5 DEF Lost

-----------------------------------------------------------------------------
(* A client that has its server has one command under way at most.         *)

Traffic(d) == IF client[d] = "wait" THEN OneCommand(d) ELSE Quiet(d)

\* Less in the queues and in the hands of the server is no more commands.
LEMMA LessTraffic ==
    ASSUME NEW d \in Client, Traffic(d),
           client'[d] = "wait" <=> client[d] = "wait", asked'[d] = asked[d],
           seen' = seen \/ seen' = Nothing,
           outbox'[d] = outbox[d] \/ outbox'[d] = <<>>,
           inbox' = inbox \/ inbox' = <<>>
    PROVE  Traffic(d)'
<1>1. ~IsCommand(Nothing, d) BY DEF IsCommand, Nothing, Message
<1>2. IsCommand(seen', d) => seen' = seen BY <1>1
<1>3. \A i \in DOMAIN inbox' : inbox' = inbox BY DEF Traffic
<1>4. CASE client[d] = "wait"
  <2>1. OneCommand(d) BY <1>4 DEF Traffic
  <2>2. OneCommand(d)' BY <1>2, <1>3, <2>1 DEF OneCommand, IsCommand
  <2>3. QED BY <1>4, <2>2 DEF Traffic
<1>5. CASE client[d] # "wait"
  <2>1. Quiet(d) BY <1>5 DEF Traffic
  <2>2. Quiet(d)' BY <1>2, <1>3, <2>1 DEF Quiet, IsCommand
  <2>3. QED BY <1>5, <2>2 DEF Traffic
<1>6. QED BY <1>4, <1>5

\* The server takes a command from queue r and works on it.
LEMMA TailTraffic ==
    ASSUME TypeOK, NEW d \in Client, Traffic(d), ~IsCommand(seen, d),
           inbox # <<>>, inbox' = Tail(inbox), seen' \in {Nothing, Head(inbox)},
           UNCHANGED <<client, asked, outbox>>
    PROVE  Traffic(d)'
<1>1. /\ inbox \in Seq(Messages) /\ 1 \in DOMAIN inbox /\ Head(inbox) = inbox[1]
      /\ \A i \in DOMAIN inbox' : i + 1 \in DOMAIN inbox /\ i + 1 # 1 /\ i \in Int
                                  /\ inbox'[i] = inbox[i + 1]
  BY TailFacts DEF TypeOK
<1>2. IsCommand(seen', d) => seen' = inbox[1] BY <1>1 DEF IsCommand, Nothing, Message
<1>3. CASE client[d] = "wait"
  <2>1. OneCommand(d) BY <1>3 DEF Traffic
  <2>2. ASSUME NEW i \in DOMAIN inbox', IsCommand(inbox'[i], d)
        PROVE  /\ inbox'[i].bit = asked[d] /\ outbox[d] = <<>> /\ ~IsCommand(seen', d)
               /\ \A j \in DOMAIN inbox' : IsCommand(inbox'[j], d) => i = j
    <3>1. IsCommand(inbox[i + 1], d) /\ i + 1 \in DOMAIN inbox BY <1>1, <2>2
    <3>2. /\ inbox[i + 1].bit = asked[d] /\ outbox[d] = <<>>
          /\ \A j \in DOMAIN inbox : IsCommand(inbox[j], d) => i + 1 = j
      BY <2>1, <3>1 DEF OneCommand
    <3>3. ~IsCommand(seen', d) BY <1>1, <1>2, <3>2
    <3>4. \A j \in DOMAIN inbox' : IsCommand(inbox'[j], d) => i = j BY <1>1, <3>2
    <3>5. QED BY <1>1, <3>2, <3>3, <3>4
  <2>3. IsCommand(seen', d) => seen'.bit = asked[d] /\ outbox[d] = <<>>
    BY <1>1, <1>2, <2>1 DEF OneCommand
  <2>4. OneCommand(d)' BY <2>1, <2>2, <2>3 DEF OneCommand, IsCommand
  <2>5. QED BY <1>3, <2>4 DEF Traffic
<1>4. CASE client[d] # "wait"
  <2>1. Quiet(d) BY <1>4 DEF Traffic
  <2>2. Quiet(d)' BY <1>1, <1>2, <2>1 DEF Quiet, IsCommand
  <2>3. QED BY <1>4, <2>2 DEF Traffic
<1>5. QED BY <1>3, <1>4

\* A client that is not lost sends a command when nothing of it is under way.
LEMMA SentTraffic ==
    ASSUME TypeOK, NEW c \in Client, NEW d \in Client, Traffic(d),
           NEW m \in Messages, m.of = c, Sent(c, m), SentFrom(c, m), client'[d] # "gone"
    PROVE  Traffic(d)'
<1>1. /\ UNCHANGED <<seen, outbox>>
      /\ d # c => client'[d] = client[d] /\ asked'[d] = asked[d]
      /\ \A i \in DOMAIN inbox' : \/ i \in DOMAIN inbox /\ inbox'[i] = inbox[i]
                                  \/ i = Len(inbox) + 1 /\ inbox'[i] = m
  <2>1. /\ client \in [Client -> {"start", "attach", "connect", "ready", "wait", "gone"}]
        /\ asked \in [Client -> {0, 1}]
    BY DEF TypeOK
  <2>2. d # c => client'[d] = client[d] /\ asked'[d] = asked[d] BY <2>1 DEF SentFrom
  <2>3. UNCHANGED <<seen, outbox>> BY DEF Sent
  <2>4. \A i \in DOMAIN inbox' :
           \/ i \in DOMAIN inbox /\ inbox'[i] = inbox[i]
           \/ i = Len(inbox) + 1 /\ inbox'[i] = m
    BY SentInbox
  <2>5. QED BY <2>2, <2>3, <2>4
<1>2. CASE IsCommand(m, d)
  <2>1. /\ d = c /\ client[c] = "ready" /\ client'[c] = "wait" /\ m.bit = asked'[c]
    BY <1>2 DEF IsCommand, SentFrom, TypeOK
  <2>2. Quiet(d) BY <2>1 DEF Traffic
  <2>3. OneCommand(d)' BY <1>1, <2>1, <2>2 DEF Quiet, OneCommand, IsCommand
  <2>4. QED BY <2>1, <2>3 DEF Traffic
<1>3. CASE ~IsCommand(m, d)
  <2>1. \A i \in DOMAIN inbox' : IsCommand(inbox'[i], d) => i \in DOMAIN inbox /\ inbox'[i] = inbox[i]
    BY <1>1, <1>3
  <2>2. CASE client[d] = "wait"
    <3>1. OneCommand(d) BY <2>2 DEF Traffic
    <3>2. asked'[d] = asked[d] /\ client'[d] = "wait"
      BY <1>1, <2>2 DEF SentFrom, TypeOK
    <3>3. OneCommand(d)' BY <1>1, <2>1, <3>1, <3>2 DEF OneCommand, IsCommand
    <3>4. QED BY <3>2, <3>3 DEF Traffic
  <2>3. CASE client[d] # "wait"
    <3>1. Quiet(d) BY <2>3 DEF Traffic
    <3>2. Quiet(d)' BY <1>1, <2>1, <3>1 DEF Quiet, IsCommand
    <3>3. OneCommand(d)' BY <3>2 DEF Quiet, OneCommand
    <3>4. QED BY <3>2, <3>3 DEF Traffic
  <2>4. QED BY <2>2, <2>3
<1>4. QED BY <1>2, <1>3

\* The server answers what it has taken; the others notice nothing.
LEMMA AnswerTraffic ==
    ASSUME QueueState, Answer, NEW d \in Client, Traffic(d)
    PROVE  Traffic(d)'
<1>1. /\ seen.kind = "request" /\ seen.of \in Client /\ seen' = Nothing
      /\ UNCHANGED <<inbox, client, asked>>
      /\ outbox \in [Client -> Seq(Messages)]
      /\ outbox' = [outbox EXCEPT ![seen.of] = Append(@, Message("answer", seen.of, seen.bit))]
  BY DEF Answer, Done, clientVars, QueueState, TypeOK, CurrentRun, Messages
<1>2. CASE d # seen.of
  <2>1. outbox'[d] = outbox[d] BY <1>1, <1>2
  <2>2. QED BY <1>1, <2>1, LessTraffic
<1>3. CASE d = seen.of
  <2>1. IsCommand(seen, d) BY <1>1, <1>3 DEF IsCommand
  <2>2. client[d] = "wait" /\ OneCommand(d) BY <2>1 DEF Traffic, Quiet
  <2>3. /\ \A i \in DOMAIN inbox : ~IsCommand(inbox[i], d)
        /\ seen.bit = asked[d] /\ outbox[d] = <<>>
    BY <2>1, <2>2 DEF OneCommand
  <2>4. outbox'[d] = <<Message("answer", d, asked[d])>> BY <1>1, <1>3, <2>3
  <2>5. Len(outbox'[d]) = 1 /\ outbox'[d][1].bit = asked[d] BY <2>4 DEF Message
  <2>6. ~IsCommand(seen', d) BY <1>1 DEF IsCommand, Nothing, Message
  <2>7. OneCommand(d)' BY <1>1, <2>3, <2>5, <2>6 DEF OneCommand, IsCommand
  <2>8. QED BY <1>1, <2>2, <2>7 DEF Traffic
<1>4. QED BY <1>2, <1>3

\* A client takes the one answer there is for it.
LEMMA TakeTraffic ==
    ASSUME QueueState, NEW c \in Client, TakeAnswer(c), NEW d \in Client, Traffic(d)
    PROVE  Traffic(d)'
<1>1. /\ client[c] = "wait" /\ outbox[c] # <<>> /\ outbox \in [Client -> Seq(Messages)]
      /\ client \in [Client -> {"start", "attach", "connect", "ready", "wait", "gone"}]
      /\ outbox' = [outbox EXCEPT ![c] = Tail(@)] /\ client' = [client EXCEPT ![c] = "ready"]
      /\ UNCHANGED <<inbox, seen, asked>>
  BY DEF TakeAnswer, ClientAt, serverVars, QueueState, TypeOK
<1>2. CASE d # c
  <2>1. outbox'[d] = outbox[d] /\ client'[d] = client[d] BY <1>1, <1>2
  <2>2. QED BY <1>1, <2>1, LessTraffic
<1>3. CASE d = c
  <2>1. OneCommand(c) BY <1>1, <1>3 DEF Traffic
  <2>2. /\ \A i \in DOMAIN inbox : ~IsCommand(inbox[i], c)
        /\ ~IsCommand(seen, c) /\ Len(outbox[c]) = 1
    BY <1>1, <2>1 DEF OneCommand
  <2>3. outbox'[c] = <<>> /\ client'[c] = "ready" BY <1>1, <2>2, TailFacts
  <2>4. Quiet(c)' BY <1>1, <2>2, <2>3 DEF Quiet, IsCommand
  <2>5. QED BY <1>3, <2>3, <2>4 DEF Traffic
<1>4. QED BY <1>2, <1>3

\* Every step of Next keeps the traffic of a client that is not lost.
LEMMA NextTraffic ==
    ASSUME QueueState, [Next]_vars, NEW d \in Client, Traffic(d), ~Lost(d),
           client'[d] # "gone", ~Lost(d)'
    PROVE  Traffic(d)'
<1>1. CASE ipc_listen \/ CreateAnswers \/ ReceiveGarbage \/ Ignore \/ ServerFails
           \/ ServerExits \/ ServerInterrupt
  <2>1. /\ UNCHANGED <<client, asked, outbox>> /\ seen' \in {seen, Nothing}
        /\ inbox' \in {inbox, <<>>}
    BY <1>1 DEF ipc_listen, CreateAnswers, ReceiveGarbage, Ignore, ServerFails, ServerExits,
       ServerInterrupt, ipc_disconnect, Done, queueVars, clientVars
  <2>2. QED BY <2>1, LessTraffic
<1>2. CASE ipc_accept \/ Receive
  <2>1. /\ inbox # <<>> /\ inbox' = Tail(inbox) /\ seen' \in {Nothing, Head(inbox)}
        /\ UNCHANGED <<client, asked, outbox>> /\ server # "execute"
    BY <1>2 DEF ipc_accept, Receive, ipc_receive, clientVars
  <2>2. ~IsCommand(seen, d) BY <2>1 DEF QueueState, CurrentRun, IsCommand, Nothing, Message
  <2>3. TypeOK BY DEF QueueState
  <2>4. QED BY <2>1, <2>2, <2>3, TailTraffic
<1>3. CASE Answer BY <1>3, AnswerTraffic
<1>4. CASE AnswerTooLong
  <2>1. /\ seen' = Nothing /\ UNCHANGED <<inbox, client, asked>>
        /\ overlong' = overlong \cup {seen.of}
        /\ outbox' = outbox \/ \E m : outbox' = [outbox EXCEPT ![seen.of] = m]
    BY <1>4 DEF AnswerTooLong, Done, clientVars
  <2>2. d # seen.of BY <2>1 DEF Lost
  <2>3. outbox'[d] = outbox[d] BY <2>1, <2>2 DEF QueueState, TypeOK
  <2>4. QED BY <2>1, <2>3, LessTraffic
<1>5. CASE Disconnected
  <2>1. /\ UNCHANGED <<inbox, seen, client, asked>>
        /\ outbox'[d] = outbox[d] \/ outbox'[d] = <<>>
    BY <1>5 DEF Disconnected, clientVars
  <2>2. QED BY <2>1, LessTraffic
<1>6. ASSUME NEW c \in Client, AttachCommands(c) \/ AttachAnswers(c) \/ Leave(c)
      PROVE  Traffic(d)'
  <2>1. /\ UNCHANGED <<inbox, seen, outbox, asked>>
        /\ client'[d] = "wait" <=> client[d] = "wait"
    BY <1>6 DEF AttachCommands, AttachAnswers, Attach, Leave, ClientAt, serverVars, queueVars,
       QueueState, TypeOK
  <2>2. QED BY <2>1, LessTraffic
<1>7. ASSUME NEW c \in Client,
             ipc_connect(c) \/ ipc_send(c) \/ SendTooLong(c) \/ send_exit(c) \/ ExitAstray(c)
      PROVE  Traffic(d)'
  <2>1. PICK m \in Messages : m.of = c /\ Sent(c, m) /\ SentFrom(c, m) BY <1>7, Senders
  <2>2. TypeOK BY DEF QueueState
  <2>3. QED BY <2>1, <2>2, SentTraffic
<1>8. ASSUME NEW c \in Client, TakeAnswer(c) PROVE Traffic(d)' BY <1>8, TakeTraffic
<1>9. ASSUME NEW c \in Client, TakeGarbage(c) PROVE Traffic(d)'
  <2>1. Lost(c)
    <3>1. client[c] = "wait" BY <1>9 DEF TakeGarbage
    <3>2. CASE ~Knows(c, "w") BY <3>1, <3>2 DEF Lost
    <3>3. CASE outbox[c] # <<>> /\ Head(outbox[c]).kind = "long"
      <4>1. outbox[c] \in Seq(Messages) BY DEF QueueState, TypeOK
      <4>2. 1 \in DOMAIN outbox[c] /\ outbox[c][1].kind = "long" BY <3>3, <4>1, TailFacts
      <4>3. QED BY <4>2 DEF QueueState, Outgoing, Lost
    <3>4. QED BY <1>9, <3>2, <3>3 DEF TakeGarbage
  <2>2. d # c BY <2>1
  <2>3. client'[d] = client[d] /\ UNCHANGED <<inbox, seen, outbox, asked>>
    BY <1>9, <2>2 DEF TakeGarbage, ClientAt, serverVars, queueVars, QueueState, TypeOK
  <2>4. QED BY <2>3, LessTraffic
<1>10. CASE UNCHANGED vars
  BY <1>10, LessTraffic DEF vars, serverVars, queueVars, clientVars
<1>11. QED
  BY <1>1, <1>2, <1>3, <1>4, <1>5, <1>6, <1>7, <1>8, <1>9, <1>10
     DEF Next, ServerStep, ClientStep

\* The inductive invariant is one.
LEMMA NextIInv ==
    ASSUME IInv, [Next]_vars
    PROVE  IInv'
<1>1. QueueState /\ QueueState' BY NextKeeps DEF IInv
<1>2. ASSUME NEW d \in Client, client'[d] # "gone", ~Lost(d)'
      PROVE  Traffic(d)'
  <2>1. client[d] # "gone" BY <1>1, <1>2, NextWorse DEF Worse
  <2>2. ~Lost(d) BY <1>1, <1>2, <2>1, LostStays
  <2>3. Traffic(d) BY <2>1, <2>2 DEF IInv, Pending, Traffic
  <2>4. QED BY <1>1, <1>2, <2>2, <2>3, NextTraffic
<1>3. \A d \in Client : Pending(d)' BY <1>2 DEF Pending, Traffic
<1>4. QED BY <1>1, <1>3 DEF IInv

-----------------------------------------------------------------------------
(* Every step is a step of the service, or none.                           *)

\* The phase of a client, by where it is and whether it is lost.
PhaseIs(here, lost) ==
    IF here = "gone" THEN "left" ELSE IF lost THEN "lost"
    ELSE IF here = "ready" THEN "idle" ELSE IF here = "wait" THEN "waiting" ELSE "out"

\* The phase of a client, before and after a step.
LEMMA PhaseCases ==
    ASSUME TypeOK, TypeOK', NEW d \in Client
    PROVE  /\ Phase(d) = PhaseIs(client[d], Lost(d))
           /\ Phase(d)' = PhaseIs(client'[d], Lost(d)')
<1>1. /\ client[d] \in {"start", "attach", "connect", "ready", "wait", "gone"}
      /\ client'[d] \in {"start", "attach", "connect", "ready", "wait", "gone"}
  BY DEF TypeOK
<1>2. Phase(d) = PhaseIs(client[d], Lost(d)) BY <1>1 DEF Phase, PhaseIs
<1>3. Phase(d)' = PhaseIs(client'[d], Lost(d)') BY <1>1 DEF Phase, PhaseIs
<1>4. QED BY <1>2, <1>3

\* A client that notices nothing, and one that loses its server or ends.
Same(d) == Phase(d)' = Phase(d) /\ asked'[d] = asked[d] /\ Heard(d)' = Heard(d)
Drops(d) == Phase(d) # "left" /\ Phase(d)' \in {"lost", "left"}

\* If there are only such clients, the service may lose the ones and keep the
\* others.
LEMMA LossStep ==
    ASSUME \A d \in Client : Same(d) \/ Drops(d)
    PROVE  S!Loss
BY DEF S!Loss, Same, Drops

\* A step after which the place of a client that is not lost is what it was.
LEMMA StaysOrDrops ==
    ASSUME IInv, IInv', [Next]_vars, NEW d \in Client,
           \/ client'[d] = client[d]
           \/ client'[d] = "gone"
           \/ {client[d], client'[d]} \subseteq {"start", "attach", "connect"}
           \/ Lost(d)'
           \/ Lost(d),
           \/ asked'[d] = asked[d] /\ got'[d] = got[d]
           \/ client[d] # "gone" /\ client'[d] = "gone"
           \/ client[d] # "gone" /\ (Lost(d) \/ Lost(d)')
    PROVE  Same(d) \/ Drops(d)
<1>1. TypeOK /\ TypeOK' /\ QueueState BY DEF IInv, QueueState
<1>2. /\ Phase(d) = PhaseIs(client[d], Lost(d))
      /\ Phase(d)' = PhaseIs(client'[d], Lost(d)')
  BY <1>1, PhaseCases
<1>3. CASE client[d] = "gone"
  <2>1. client'[d] = "gone" BY <1>1, <1>3, NextWorse DEF Worse
  <2>2. asked'[d] = asked[d] /\ got'[d] = got[d] BY <1>3
  <2>3. Heard(d)' = Heard(d) BY <2>2 DEF Heard
  <2>4. QED BY <1>2, <1>3, <2>1, <2>2, <2>3 DEF Same, PhaseIs
<1>4. CASE client[d] # "gone" /\ client'[d] = "gone" BY <1>2, <1>4 DEF Drops, PhaseIs
<1>5. CASE client[d] # "gone" /\ client'[d] # "gone" /\ (Lost(d) \/ Lost(d)')
  <2>1. Lost(d)' BY <1>1, <1>5, LostStays
  <2>2. QED BY <1>2, <1>5, <2>1 DEF Drops, PhaseIs
<1>6. CASE client[d] # "gone" /\ client'[d] # "gone" /\ ~Lost(d) /\ ~Lost(d)'
  <2>1. asked'[d] = asked[d] /\ got'[d] = got[d] BY <1>6
  <2>2. Heard(d)' = Heard(d) BY <2>1 DEF Heard
  <2>3. Phase(d)' = Phase(d) BY <1>2, <1>6 DEF PhaseIs
  <2>4. QED BY <2>1, <2>2, <2>3 DEF Same
<1>7. QED BY <1>3, <1>4, <1>5, <1>6

\* A step that only one client takes, and no other notices.
LEMMA OthersSame ==
    ASSUME IInv, IInv', [Next]_vars, NEW c \in Client, NEW d \in Client, d # c,
           client'[d] = client[d], asked'[d] = asked[d], got'[d] = got[d],
           UNCHANGED <<id, at, overlong>>, Jammed' = Jammed
    PROVE  Same(d)
<1>1. Lost(d)' = Lost(d) BY DEF Lost, Knows
<1>2. TypeOK /\ TypeOK' BY DEF IInv, QueueState
<1>3. Phase(d)' = Phase(d) BY <1>1, <1>2, PhaseCases
<1>4. QED BY <1>3 DEF Same, Heard

\* ipc_connect is Connect of the service, if the server is there.
LEMMA ConnectIsConnect ==
    ASSUME IInv, IInv', [Next]_vars, NEW c \in Client, ipc_connect(c)
    PROVE  S!Loss \/ S!Connect(c)
<1>1. QueueState /\ TypeOK /\ TypeOK' BY DEF IInv, QueueState
<1>2. PICK m \in Messages : /\ m.kind = "connect" /\ m.of = c
                            /\ Sent(c, m) /\ SentFrom(c, m)
  <2>1. PICK m \in Messages : m.of = c /\ Sent(c, m) /\ SentFrom(c, m) BY <1>1, Senders
  <2>2. client[c] = "connect" /\ client'[c] = "ready"
    BY <1>1 DEF ipc_connect, ClientAt, TypeOK
  <2>3. m.kind = "connect" BY <1>1, <2>1, <2>2 DEF SentFrom, TypeOK
  <2>4. QED BY <2>1, <2>3
<1>3. /\ client[c] = "connect" /\ client'[c] = "ready" /\ asked' = asked /\ got' = got
      /\ UNCHANGED <<id, at, overlong>>
      /\ \A d \in Client : d # c => client'[d] = client[d]
  BY <1>1 DEF ipc_connect, ClientAt, TypeOK
<1>4. Jammed' = Jammed BY <1>1, <1>2, SentInbox DEF Jammed
<1>5. Lost(c)' = Lost(c) BY <1>3, <1>4 DEF Lost, Knows
<1>6. \A d \in Client : d # c => Same(d) BY <1>3, <1>4, OthersSame
<1>7. CASE Lost(c)
  <2>1. Same(c) \/ Drops(c) BY <1>3, <1>7, StaysOrDrops
  <2>2. QED BY <1>6, <2>1, LossStep
<1>8. CASE ~Lost(c)
  <2>1. Phase(c) = "out" /\ Phase(c)' = "idle" BY <1>1, <1>3, <1>5, <1>8, PhaseCases DEF PhaseIs
  <2>2. Heard(c)' = Heard(c) BY <1>3 DEF Heard
  <2>3. QED BY <1>3, <1>6, <2>1, <2>2 DEF S!Connect, S!To, Same
<1>9. QED BY <1>7, <1>8

\* ipc_send is Ask.
LEMMA SendIsAsk ==
    ASSUME IInv, IInv', [Next]_vars, NEW c \in Client, ipc_send(c)
    PROVE  S!Loss \/ S!Ask(c)
<1>1. QueueState /\ TypeOK /\ TypeOK' BY DEF IInv, QueueState
<1>2. /\ client[c] = "ready" /\ client'[c] = "wait" /\ got' = got
      /\ asked' = [asked EXCEPT ![c] = 1 - @]
      /\ UNCHANGED <<id, at, overlong>>
      /\ \A d \in Client : d # c => client'[d] = client[d] /\ asked'[d] = asked[d]
  BY <1>1 DEF ipc_send, ClientAt, TypeOK
<1>3. Jammed' = Jammed
  <2>1. inbox' = inbox \/ inbox' = Append(inbox, Message("request", c, asked'[c]))
    BY DEF ipc_send, ToServer
  <2>2. Message("request", c, asked'[c]) \in Messages
    BY <1>1 DEF TypeOK, Message, Messages
  <2>3. inbox \in Seq(Messages) /\ DOMAIN inbox = 1..Len(inbox) /\ Len(inbox) \in Nat
    BY <1>1 DEF TypeOK
  <2>4. CASE inbox' = Append(inbox, Message("request", c, asked'[c]))
    <3>1. /\ DOMAIN inbox' = 1..(Len(inbox) + 1)
          /\ \A i \in DOMAIN inbox : inbox'[i] = inbox[i]
          /\ inbox'[Len(inbox) + 1].kind = "request"
      BY <2>2, <2>3, <2>4, AppendFacts DEF Message
    <3>2. QED BY <2>3, <3>1 DEF Jammed
  <2>5. QED BY <2>1, <2>4 DEF Jammed
<1>4. Lost(c)' = Lost(c) BY <1>2, <1>3 DEF Lost, Knows
<1>5. \A d \in Client : d # c => Same(d) BY <1>2, <1>3, OthersSame
<1>6. CASE Lost(c)
  <2>1. Same(c) \/ Drops(c) BY <1>2, <1>6, StaysOrDrops
  <2>2. QED BY <1>5, <2>1, LossStep
<1>7. CASE ~Lost(c)
  <2>1. Phase(c) = "idle" /\ Phase(c)' = "waiting"
    BY <1>1, <1>2, <1>4, <1>7, PhaseCases DEF PhaseIs
  <2>2. Heard(c)' = Heard(c) BY <1>2 DEF Heard
  <2>3. QED BY <1>2, <1>5, <2>1, <2>2 DEF S!Ask, S!To, Same
<1>8. QED BY <1>6, <1>7

\* TakeAnswer is Take: the answer is the one to the command sent last.
LEMMA TakeIsTake ==
    ASSUME IInv, IInv', [Next]_vars, NEW c \in Client, TakeAnswer(c)
    PROVE  S!Loss \/ S!Take(c)
<1>1. QueueState /\ TypeOK /\ TypeOK' BY DEF IInv, QueueState
<1>2. /\ client[c] = "wait" /\ client'[c] = "ready" /\ asked' = asked
      /\ outbox[c] # <<>> /\ outbox[c] \in Seq(Messages) /\ got'[c] = Head(outbox[c])
      /\ UNCHANGED <<id, at, overlong, inbox>>
      /\ \A d \in Client : d # c => client'[d] = client[d] /\ got'[d] = got[d]
  BY <1>1 DEF TakeAnswer, ClientAt, TypeOK, serverVars
<1>3. Jammed' = Jammed BY <1>2 DEF Jammed
<1>4. Lost(c)' = Lost(c) BY <1>2, <1>3 DEF Lost, Knows
<1>5. \A d \in Client : d # c => Same(d) BY <1>2, <1>3, OthersSame
<1>6. CASE Lost(c)
  <2>1. Same(c) \/ Drops(c) BY <1>2, <1>6, StaysOrDrops
  <2>2. QED BY <1>5, <2>1, LossStep
<1>7. CASE ~Lost(c)
  <2>1. Phase(c) = "waiting" /\ Phase(c)' = "idle"
    BY <1>1, <1>2, <1>4, <1>7, PhaseCases DEF PhaseIs
  <2>2. OneCommand(c) BY <1>2, <1>7 DEF IInv, Pending
  <2>3. Head(outbox[c]) = outbox[c][1] /\ 1 \in DOMAIN outbox[c] BY <1>2, TailFacts
  <2>4. outbox[c][1].bit = asked[c] /\ outbox[c][1].of = c
    BY <1>1, <1>2, <2>2, <2>3 DEF OneCommand, QueueState, Outgoing
  <2>5. Heard(c)' = asked[c] BY <1>2, <2>3, <2>4 DEF Heard
  <2>6. QED BY <1>2, <1>5, <2>1, <2>5 DEF S!Take, S!To, Same
<1>8. QED BY <1>6, <1>7

\* Whatever happens, to every client happens what the service allows.
LEMMA NextIsService ==
    ASSUME IInv, IInv', [Next]_vars
    PROVE  [S!ServiceNext]_(S!serviceVars)
<1>1. QueueState /\ TypeOK /\ TypeOK' BY DEF IInv, QueueState
<1>2. ASSUME UNCHANGED <<client, asked, got>> PROVE S!Loss
  BY <1>2, StaysOrDrops, LossStep
<1>3. CASE ServerStep \/ ipc_listen \/ ReceiveGarbage \/ ServerFails \/ ServerInterrupt
  <2>1. UNCHANGED <<client, asked, got>>
    BY <1>3 DEF ServerStep, ipc_listen, CreateAnswers, ipc_accept, Receive, ipc_receive,
       ReceiveGarbage, Ignore, Answer, AnswerTooLong, ServerFails, ServerExits, ServerInterrupt,
       ipc_disconnect, Disconnected, clientVars
  <2>2. QED BY <1>2, <2>1 DEF S!ServiceNext
<1>4. ASSUME NEW c \in Client,
             \/ AttachCommands(c) \/ AttachAnswers(c) \/ SendTooLong(c) \/ TakeGarbage(c)
             \/ send_exit(c) \/ ExitAstray(c) \/ Leave(c)
      PROVE  S!Loss
  <2>1. ASSUME NEW d \in Client, d # c PROVE Same(d) \/ Drops(d)
    <3>1. client'[d] = client[d] /\ asked'[d] = asked[d] /\ got'[d] = got[d]
      BY <1>1, <1>4, <2>1 DEF AttachCommands, AttachAnswers, Attach, SendTooLong, TakeGarbage,
         send_exit, ExitAstray, Leave, ClientAt, TypeOK
    <3>2. QED BY <3>1, StaysOrDrops
  <2>2. CASE AttachCommands(c) \/ AttachAnswers(c)
    <3>1. /\ asked' = asked /\ got' = got /\ client[c] \in {"start", "attach"}
          /\ client'[c] \in {"attach", "connect", "gone"}
      BY <1>1, <2>2 DEF AttachCommands, AttachAnswers, Attach, ClientAt, TypeOK
    <3>2. Same(c) \/ Drops(c) BY <3>1, StaysOrDrops
    <3>3. QED BY <2>1, <3>2, LossStep
  <2>3. CASE send_exit(c) \/ ExitAstray(c) \/ Leave(c)
    <3>1. client[c] # "gone" /\ client'[c] = "gone"
      BY <1>1, <2>3 DEF send_exit, ExitAstray, Leave, ClientAt, TypeOK
    <3>2. Same(c) \/ Drops(c) BY <3>1, StaysOrDrops
    <3>3. QED BY <2>1, <3>2, LossStep
  <2>4. CASE SendTooLong(c)
    <3>1. client[c] = "ready" /\ client'[c] = "wait" /\ UNCHANGED <<id, at>>
      BY <1>1, <2>4 DEF SendTooLong, ClientAt, TypeOK
    <3>2. Lost(c)'
      <4>1. CASE ~Knows(c, "r") BY <3>1, <4>1 DEF Lost, Knows
      <4>2. CASE Knows(c, "r")
        <5>1. inbox' = Append(inbox, Message("long", c, asked'[c]))
          BY <2>4, <4>2 DEF SendTooLong, ToServer
        <5>2. Message("long", c, asked'[c]) \in Messages BY <1>1 DEF TypeOK, Message, Messages
        <5>3. inbox \in Seq(Messages) /\ Len(inbox) \in Nat BY <1>1 DEF TypeOK
        <5>4. Len(inbox) + 1 \in DOMAIN inbox' /\ inbox'[Len(inbox) + 1].kind = "long"
          BY <5>1, <5>2, <5>3, AppendFacts DEF Message
        <5>5. QED BY <3>1, <4>2, <5>4 DEF Lost, Knows, Jammed
      <4>3. QED BY <4>1, <4>2
    <3>3. Same(c) \/ Drops(c) BY <3>1, <3>2, StaysOrDrops
    <3>4. QED BY <2>1, <3>3, LossStep
  <2>5. CASE TakeGarbage(c)
    <3>1. client[c] = "wait" BY <2>5 DEF TakeGarbage
    <3>2. Lost(c)
      <4>1. CASE ~Knows(c, "w") BY <3>1, <4>1 DEF Lost
      <4>2. CASE outbox[c] # <<>> /\ Head(outbox[c]).kind = "long"
        <5>1. outbox[c] \in Seq(Messages) BY <1>1 DEF TypeOK
        <5>2. 1 \in DOMAIN outbox[c] /\ outbox[c][1].kind = "long" BY <4>2, <5>1, TailFacts
        <5>3. QED BY <1>1, <5>2 DEF QueueState, Outgoing, Lost
      <4>3. QED BY <2>5, <4>1, <4>2 DEF TakeGarbage
    <3>3. Same(c) \/ Drops(c) BY <3>1, <3>2, StaysOrDrops
    <3>4. QED BY <2>1, <3>3, LossStep
  <2>6. QED BY <1>4, <2>2, <2>3, <2>4, <2>5
<1>5. ASSUME NEW c \in Client, ipc_connect(c) \/ ipc_send(c) \/ TakeAnswer(c)
      PROVE  S!Loss \/ S!Connect(c) \/ S!Ask(c) \/ S!Take(c)
  BY <1>5, ConnectIsConnect, SendIsAsk, TakeIsTake
<1>6. CASE UNCHANGED vars BY <1>2, <1>6 DEF vars, clientVars, S!ServiceNext
<1>7. CASE \E c \in Client :
              \/ AttachCommands(c) \/ AttachAnswers(c) \/ ClientStep(c)
              \/ ipc_send(c) \/ SendTooLong(c) \/ send_exit(c) \/ ExitAstray(c) \/ Leave(c)
  BY <1>4, <1>5, <1>7 DEF ClientStep, S!ServiceNext
<1>8. QED BY <1>3, <1>6, <1>7 DEF Next

-----------------------------------------------------------------------------
(* The theorems.                                                           *)

\* The first state is one of the invariant, with nothing under way.
LEMMA InitIInv == Init => IInv
<1>1. ASSUME Init PROVE \A c \in Client : Pending(c)
  BY <1>1 DEF Init, Pending, Quiet, IsCommand, Nothing, Message
<1>2. QED BY <1>1, InitKeeps DEF IInv

\* The invariant holds, whoever sends, ends or restarts when.
THEOREM Invariance == Spec => []IInv
<1>1. IInv /\ [Next]_vars => IInv' BY NextIInv
<1>2. QED BY <1>1, InitIInv, PTL DEF Spec

\* Both queues keep to their limit, and a server that was started again meets
\* no command and no answer of an earlier run.
THEOREM QueueSafety == Spec => []QueueInv
<1>1. ASSUME IInv PROVE QueueInv
  <2>1. TypeOK /\ Numbered /\ CurrentRun BY <1>1 DEF IInv, QueueState
  <2>2. ASSUME NEW p \in Waiting PROVE p[1] \in Client /\ outbox[p[1]] # <<>>
    <3>1. p[1] \in Client /\ p[2] \in 1..Capacity /\ p[2] <= Len(outbox[p[1]])
      BY <2>2 DEF Waiting
    <3>2. QED BY <2>1, <3>1, QueueAssumption DEF TypeOK
  <2>3. FreshQueues
    BY <2>1, <2>2 DEF FreshQueues, Numbered, CurrentRun, OfThisRun, Up, Key
  <2>4. QED BY <2>1, <2>3 DEF QueueInv
<1>2. QED BY <1>1, Invariance, PTL

\* One server for all keeps the promise of ipc.h to each client.
THEOREM ImplementsService == Spec => RefinesService
<1>1. Init => S!ServiceInit
  <2>1. ASSUME Init, NEW c \in Client PROVE Phase(c) = "out" /\ Heard(c) = 0
    <3>1. client[c] = "start" /\ got[c] = Nothing BY <2>1 DEF Init
    <3>2. ~Lost(c) BY <2>1, <3>1 DEF Init, Lost, Knows, Key
    <3>3. QED BY <3>1, <3>2 DEF Phase, Heard, Nothing, Message
  <2>2. QED BY <2>1 DEF Init, S!ServiceInit
<1>2. IInv /\ IInv' /\ [Next]_vars => [S!ServiceNext]_(S!serviceVars) BY NextIsService
<1>3. QED BY <1>1, <1>2, Invariance, PTL DEF Spec, RefinesService, S!ServiceSpec
=============================================================================

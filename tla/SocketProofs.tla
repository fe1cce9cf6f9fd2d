---------------------------- MODULE SocketProofs ----------------------------
(***************************************************************************)
(* The framing of Socket.tla, and that it implements the service, for any  *)
(* number of clients, whatever the sizes of buffer, window and backlog,    *)
(* whoever ends or is interrupted when.                                    *)
(***************************************************************************)
EXTENDS Socket, TLAPS

-----------------------------------------------------------------------------
(* The inductive invariant.                                                *)

\* The streams are made of parts of datagrams.
Part == [of : Messages \cup {Garbage}, part : Nat]
Streams == up \in [Client -> Seq(Part)] /\ down \in [Client -> Seq(Part)]

\* A connection is in the backlog once, and nobody serves it yet.
Queued ==
    /\ \A i, j \in DOMAIN backlog : backlog[i] = backlog[j] => i = j
    /\ \A i \in DOMAIN backlog : /\ child[backlog[i]] = "none"
                                 /\ client[backlog[i]] \notin {"start", "refused"}

\* Before its connection a client has no child and no streams.
Before(c) ==
    client[c] \in {"start", "refused"} =>
        /\ child[c] = "none" /\ c \notin torn
        /\ up[c] = <<>> /\ down[c] = <<>>

\* As long as every recv has returned one datagram there is one at most: none
\* when the client may send one; the command it has sent last, the same in the
\* hands of the child, or the answer to it, when the client waits; the OP_EXIT
\* of a client that is gone.
Holds(s, c, kind, bit) ==
    \E long \in BOOLEAN : s = Parts(Message(kind, c, bit, long)) /\ (long => c \in unruly)
Idle(c) == up[c] = <<>> /\ down[c] = <<>> /\ child[c] # "execute"
Asks(c) ==
    /\ Holds(up[c], c, "request", asked[c]) /\ down[c] = <<>>
    /\ child[c] # "execute"
Works(c) ==
    /\ up[c] = <<>> /\ down[c] = <<>> /\ child[c] = "execute"
    /\ seen[c].kind = "request" /\ seen[c].bit = asked[c]
Answers(c) ==
    /\ Holds(down[c], c, "answer", asked[c]) /\ up[c] = <<>>
    /\ child[c] # "execute"
LastWord(c) ==
    \/ up[c] = <<>>
    \/ child[c] # "execute" /\ \E m \in Messages : ~m.long /\ up[c] = Parts(m)
Turn(c) ==
    c \notin torn =>
        /\ client[c] = "ready" => Idle(c)
        /\ client[c] = "wait" => Idle(c) \/ Asks(c) \/ Works(c) \/ Answers(c)
        /\ client[c] = "gone" /\ c \notin unruly => LastWord(c)

IInv ==
    /\ SocketInv /\ Streams /\ Queued
    /\ \A c \in Client : Before(c) /\ Turn(c)

-----------------------------------------------------------------------------
(* Lemmas about streams and datagrams.                                     *)

\* The sizes are numbers.
LEMMA Sizes0 ==
    /\ Buffer \in Nat /\ Window \in Nat /\ Backlog \in Nat /\ MaxRun \in Nat
    /\ Buffer > 2 /\ Window > Buffer /\ Backlog > 0
BY SocketAssumption

\* Datagrams have their types.
LEMMA MessageTypes ==
    /\ \A m \in Messages : /\ m.kind \in {"request", "exit", "answer"}
                           /\ m.bit \in {0, 1} /\ m.long \in BOOLEAN
    /\ Garbage.long = FALSE /\ Garbage.kind = "garbage"
    /\ Nothing.kind = "nothing" /\ Nothing.bit = 0
    /\ Garbage \notin Messages /\ Nothing \notin Messages /\ Garbage # Nothing
BY DEF Message, Messages, Garbage, Nothing

\* So has every new one.
LEMMA NewMessage ==
    ASSUME NEW kind \in {"request", "exit", "answer"}, NEW c \in Client, NEW bit \in {0, 1},
           NEW long \in BOOLEAN
    PROVE  /\ Message(kind, c, bit, long) \in Messages
           /\ Message(kind, c, bit, long).kind = kind
           /\ Message(kind, c, bit, long).bit = bit /\ Message(kind, c, bit, long).of = c
           /\ Message(kind, c, bit, long).long = long
BY DEF Message, Messages

\* The parts of a datagram are a stream.
LEMMA PartsFacts ==
    ASSUME NEW m \in Messages \cup {Garbage}
    PROVE  /\ Parts(m) \in Seq(Part) /\ Len(Parts(m)) = Size(m) /\ Size(m) \in Nat
           /\ Parts(m) # <<>> /\ Parts(m)[1].of = m /\ Parts(m)[1].part = 1
           /\ ~m.long => Size(m) = 2 /\ Size(m) <= Buffer
<1>1. Size(m) \in Nat /\ Size(m) > 1 /\ (~m.long => Size(m) = 2 /\ Size(m) <= Buffer)
  BY Sizes0, MessageTypes DEF Size
<1>2. \A i \in 1..Size(m) : [of |-> m, part |-> i] \in Part
  BY <1>1 DEF Part
<1>. DEFINE n == Size(m)
            s == [i \in 1..n |-> [of |-> m, part |-> i]]
<1>3. s \in [1..n -> Part] BY <1>2
<1>4. s \in Seq(Part) BY <1>1, <1>3
<1>5. DOMAIN s = 1..n BY <1>3
<1>6. Len(s) = n BY <1>1, <1>4, <1>5
<1>7. s[1] = [of |-> m, part |-> 1] BY <1>1
<1>8. s # <<>> BY <1>1, <1>4, <1>6
<1>9. QED BY <1>1, <1>4, <1>6, <1>7, <1>8 DEF Parts

\* A write behind what is in a stream.
LEMMA WriteFacts ==
    ASSUME NEW s \in Seq(Part), NEW m \in Messages \cup {Garbage}
    PROVE  /\ s \o Parts(m) \in Seq(Part)
           /\ Fits(s, m) => Len(s \o Parts(m)) <= Window
           /\ s = <<>> => s \o Parts(m) = Parts(m)
<1>1. /\ Parts(m) \in Seq(Part) /\ Len(Parts(m)) = Size(m) /\ Size(m) \in Nat
  BY PartsFacts
<1>2. s \o Parts(m) \in Seq(Part) /\ Len(s \o Parts(m)) = Len(s) + Len(Parts(m))
  BY <1>1
<1>3. s = <<>> => s \o Parts(m) = Parts(m)
  BY <1>1
<1>4. QED BY <1>1, <1>2, <1>3 DEF Fits

\* What recv returns, and what it leaves.
LEMMA RecvFacts ==
    ASSUME NEW c \in Client, NEW s \in Seq(Part), s # <<>>, NEW n \in Lengths(c, s)
    PROVE  /\ n \in Nat /\ n > 0 /\ n <= Len(s) /\ n <= Buffer
           /\ c \notin split /\ Len(s) <= Buffer => n = Len(s)
           /\ Rest(s, n) \in Seq(Part) /\ Len(Rest(s, n)) <= Len(s)
           /\ n = Len(s) => Rest(s, n) = <<>>
           /\ Datagram(s, n) \in Messages \cup {Garbage}
<1>1. Len(s) \in Nat /\ Len(s) > 0 /\ Buffer \in Nat /\ Buffer > 0
  BY Sizes0
<1>2. /\ n \in Nat /\ n > 0 /\ n <= Len(s) /\ n <= Buffer
      /\ c \notin split /\ Len(s) <= Buffer => n = Len(s)
  BY <1>1 DEF Lengths
<1>3. Rest(s, n) \in Seq(Part) /\ Len(Rest(s, n)) = Len(s) - n
  BY <1>1, <1>2 DEF Rest
<1>4. n = Len(s) => Rest(s, n) = <<>>
  BY <1>1, <1>2, <1>3
<1>5. s[1] \in Part
  BY <1>1
<1>6. Datagram(s, n) \in Messages \cup {Garbage}
  BY <1>5 DEF Datagram, Part
<1>7. QED BY <1>1, <1>2, <1>3, <1>4, <1>6

\* One datagram in a stream is the datagram that recv returns, if it returns a
\* whole one; it does unless the network splits it or it is too long.
LEMMA WholeFacts ==
    ASSUME NEW c \in Client, NEW m \in Messages \cup {Garbage}, NEW s, s = Parts(m),
           NEW n \in Lengths(c, s)
    PROVE  /\ Datagram(s, n) = m
           /\ Whole(s, n) => Rest(s, n) = <<>>
           /\ c \notin split /\ ~m.long => Whole(s, n)
<1>1. /\ s \in Seq(Part) /\ Len(s) = Size(m) /\ s # <<>> /\ s[1].of = m /\ s[1].part = 1
      /\ ~m.long => Size(m) <= Buffer
  BY PartsFacts
<1>2. /\ c \notin split /\ Len(s) <= Buffer => n = Len(s)
      /\ n = Len(s) => Rest(s, n) = <<>>
  BY <1>1, RecvFacts
<1>3. QED BY <1>1, <1>2 DEF Datagram, Whole

-----------------------------------------------------------------------------
(* The steps, and what they leave alone.                                   *)

ParentStep == ServerStep \/ ipc_listen \/ ParentInterrupt
ChildWorks(c) == Receive(c) \/ Answer(c) \/ AnswerNobody(c) \/ AnswerGarbage(c)
ChildLeaves(c) == ReceiveNothing(c) \/ Exit(c) \/ ChildDies(c)
ClientLeaves(c) == TakeNothing(c) \/ send_exit(c) \/ Leave(c)
StepOf(c) ==
    \/ ChildWorks(c) \/ ChildLeaves(c) \/ ClientLeaves(c)
    \/ ipc_connect(c) \/ ipc_send(c) \/ Take(c)

\* The steps, by who takes them.
LEMMA NextCases ==
    ASSUME [Next]_vars
    PROVE  ParentStep \/ (\E c \in Client : StepOf(c)) \/ UNCHANGED vars
BY DEF Next, ParentStep, StepOf, ChildWorks, ChildLeaves, ClientLeaves, ChildStep, ClientStep

\* A step that client d does not notice.
Same(d) ==
    /\ client'[d] = client[d] /\ asked'[d] = asked[d] /\ got'[d] = got[d]
    /\ child'[d] = child[d] /\ seen'[d] = seen[d]
    /\ up'[d] = up[d] /\ down'[d] = down[d]
    /\ d \in torn' <=> d \in torn
    /\ d \in unruly' <=> d \in unruly

\* The accepting process leaves all but the child of a new connection alone.
LEMMA ParentEffects ==
    ASSUME TypeOK, ParentStep
    PROVE  /\ UNCHANGED <<split, client, asked, got, seen, up, down, torn, unruly>>
           /\ \/ /\ UNCHANGED child
                 /\ backlog' \in {backlog, <<>>}
              \/ /\ backlog # <<>> /\ Head(backlog) \in Client
                 /\ backlog' = Tail(backlog)
                 /\ child' = [child EXCEPT ![Head(backlog)] = "serve"]
<1>1. CASE ipc_listen \/ ipc_waitsync \/ ParentInterrupt
  BY <1>1 DEF ipc_listen, ipc_waitsync, ParentInterrupt, KeepBacklog, childVars, clientVars, streamVars
<1>2. CASE ipc_accept
  <2>1. backlog # <<>> /\ backlog \in Seq(Client) BY <1>2 DEF ipc_accept, TypeOK
  <2>2. Head(backlog) \in Client BY <2>1
  <2>3. QED BY <1>2, <2>1, <2>2 DEF ipc_accept, ChildAt, clientVars, streamVars
<1>3. QED BY <1>1, <1>2 DEF ParentStep, ServerStep

\* The steps of a client and its child are theirs.
LEMMA OthersSame ==
    ASSUME TypeOK, Streams, NEW c \in Client, StepOf(c)
    PROVE  split' = split /\ \A d \in Client \ {c} : Same(d)
<1>1. /\ child \in [Client -> {"none", "serve", "execute", "gone"}]
      /\ seen \in [Client -> Messages \cup {Nothing, Garbage}]
      /\ client \in [Client -> {"start", "refused", "ready", "wait", "gone"}]
      /\ asked \in [Client -> {0, 1}]
      /\ got \in [Client -> Messages \cup {Nothing, Garbage}]
      /\ up \in [Client -> Seq(Part)] /\ down \in [Client -> Seq(Part)]
  BY DEF TypeOK, Streams
<1>2. CASE Receive(c)
  BY <1>1, <1>2 DEF Receive, ChildAt, clientVars, Same
<1>3. CASE Answer(c) \/ AnswerNobody(c) \/ AnswerGarbage(c)
  BY <1>1, <1>3 DEF Answer, AnswerNobody, AnswerGarbage, Served, ChildAt, clientVars, Same
<1>4. CASE ChildLeaves(c)
  BY <1>1, <1>4 DEF ChildLeaves, ReceiveNothing, Exit, ChildDies, ChildEnds, ChildAt, clientVars, Same
<1>5. CASE TakeNothing(c) \/ Leave(c)
  BY <1>1, <1>5 DEF TakeNothing, Leave, ClientEnds, ClientAt, childVars, Same
<1>6. CASE send_exit(c)
  BY <1>1, <1>6 DEF send_exit, ClientEnds, ClientAt, Write, childVars, Same
<1>7. CASE ipc_connect(c)
  BY <1>1, <1>7 DEF ipc_connect, ClientAt, childVars, streamVars, Same
<1>8. CASE ipc_send(c)
  BY <1>1, <1>8 DEF ipc_send, Write, ClientAt, childVars, Same
<1>9. CASE Take(c)
  BY <1>1, <1>9 DEF Take, ClientAt, childVars, Same
<1>10. QED
  BY <1>2, <1>3, <1>4, <1>5, <1>6, <1>7, <1>8, <1>9 DEF StepOf, ChildWorks, ClientLeaves

\* The types of a client and its child after a step of theirs.
Typed(c) ==
    /\ child'[c] \in {"none", "serve", "execute", "gone"}
    /\ seen'[c] \in Messages \cup {Nothing, Garbage}
    /\ client'[c] \in {"start", "refused", "ready", "wait", "gone"}
    /\ asked'[c] \in {0, 1}
    /\ got'[c] \in Messages \cup {Nothing, Garbage}
    /\ up'[c] \in Seq(Part) /\ down'[c] \in Seq(Part)
    /\ Len(up'[c]) <= Window /\ Len(down'[c]) <= Window

\* A stream is empty, or grows and shrinks within the window.
LEMMA StepTyped ==
    ASSUME TypeOK, Streams, NEW c \in Client, StepOf(c)
    PROVE  Typed(c)
<1>0. Len(<<>>) = 0 /\ <<>> \in Seq(Part) /\ Window \in Nat /\ 0 <= Window
  BY Sizes0
<1>1. /\ child[c] \in {"none", "serve", "execute", "gone"}
      /\ seen[c] \in Messages \cup {Nothing, Garbage}
      /\ client[c] \in {"start", "refused", "ready", "wait", "gone"}
      /\ asked[c] \in {0, 1} /\ 1 - asked[c] \in {0, 1}
      /\ got[c] \in Messages \cup {Nothing, Garbage}
      /\ up[c] \in Seq(Part) /\ down[c] \in Seq(Part)
      /\ Len(up[c]) <= Window /\ Len(down[c]) <= Window
      /\ Len(up[c]) \in Nat /\ Len(down[c]) \in Nat
  BY DEF TypeOK, Streams
<1>2. /\ DOMAIN child = Client /\ DOMAIN seen = Client /\ DOMAIN client = Client
      /\ DOMAIN asked = Client /\ DOMAIN got = Client /\ DOMAIN up = Client /\ DOMAIN down = Client
  BY DEF TypeOK, Streams
<1>3. CASE Receive(c)
  <2>1. up[c] # <<>> BY <1>3 DEF Receive
  <2>2. PICK n \in Lengths(c, up[c]) : /\ seen' = [seen EXCEPT ![c] = Datagram(up[c], n)]
                                       /\ up' = [up EXCEPT ![c] = Rest(@, n)]
    BY <1>3 DEF Receive
  <2>3. /\ Rest(up[c], n) \in Seq(Part) /\ Len(Rest(up[c], n)) <= Len(up[c])
        /\ Datagram(up[c], n) \in Messages \cup {Garbage}
    BY <1>1, <2>1, RecvFacts
  <2>4. /\ seen'[c] \in Messages \cup {Garbage} /\ up'[c] \in Seq(Part) /\ Len(up'[c]) <= Window
    <3>1. Len(Rest(up[c], n)) \in Nat BY <2>3
    <3>2. QED BY <1>0, <1>1, <1>2, <2>2, <2>3, <3>1
  <2>5. child'[c] = "execute" /\ UNCHANGED <<client, asked, got, down>>
    BY <1>2, <1>3 DEF Receive, ChildAt, clientVars
  <2>6. QED BY <1>1, <2>4, <2>5 DEF Typed
<1>4. CASE Take(c)
  <2>1. down[c] # <<>> BY <1>4 DEF Take
  <2>2. PICK n \in Lengths(c, down[c]) : /\ got' = [got EXCEPT ![c] = Datagram(down[c], n)]
                                         /\ down' = [down EXCEPT ![c] = Rest(@, n)]
    BY <1>4 DEF Take
  <2>3. /\ Rest(down[c], n) \in Seq(Part) /\ Len(Rest(down[c], n)) <= Len(down[c])
        /\ Datagram(down[c], n) \in Messages \cup {Garbage}
    BY <1>1, <2>1, RecvFacts
  <2>4. /\ got'[c] \in Messages \cup {Garbage} /\ down'[c] \in Seq(Part) /\ Len(down'[c]) <= Window
    <3>1. Len(Rest(down[c], n)) \in Nat BY <2>3
    <3>2. QED BY <1>0, <1>1, <1>2, <2>2, <2>3, <3>1
  <2>5. client'[c] = "ready" /\ UNCHANGED <<child, seen, asked, up>>
    BY <1>2, <1>4 DEF Take, ClientAt, childVars
  <2>6. QED BY <1>1, <2>4, <2>5 DEF Typed
<1>5. ASSUME NEW m \in Messages \cup {Garbage}, Fits(down[c], m), down' = [down EXCEPT ![c] = @ \o Parts(m)]
      PROVE  down'[c] \in Seq(Part) /\ Len(down'[c]) <= Window
  BY <1>1, <1>2, <1>5, WriteFacts
<1>6. CASE Answer(c) \/ AnswerNobody(c) \/ AnswerGarbage(c)
  <2>1. Served(c) BY <1>6 DEF Answer, AnswerNobody, AnswerGarbage
  <2>2. /\ child'[c] = "serve" /\ seen'[c] = Nothing /\ UNCHANGED <<client, asked, got, up>>
    BY <1>2, <2>1 DEF Served, ChildAt, clientVars
  <2>3. down'[c] \in Seq(Part) /\ Len(down'[c]) <= Window
    <3>1. CASE AnswerNobody(c) BY <1>1, <3>1 DEF AnswerNobody
    <3>2. CASE AnswerGarbage(c) BY <1>5, <3>2 DEF AnswerGarbage
    <3>3. CASE Answer(c)
      <4>1. seen[c] \in Messages
        BY <1>1, <3>3, MessageTypes DEF Answer
      <4>2. PICK long \in Sizes(c) :
               LET m == Message("answer", c, seen[c].bit, long)
               IN Fits(down[c], m) /\ down' = [down EXCEPT ![c] = @ \o Parts(m)]
        BY <3>3 DEF Answer
      <4>3. long \in BOOLEAN BY DEF Sizes
      <4>4. seen[c].bit \in {0, 1} BY <4>1, MessageTypes
      <4>5. Message("answer", c, seen[c].bit, long) \in Messages
        BY <4>3, <4>4, NewMessage
      <4>6. QED BY <1>5, <4>2, <4>5
    <3>4. QED BY <1>6, <3>1, <3>2, <3>3
  <2>4. QED BY <1>1, <2>2, <2>3 DEF Typed
<1>7. CASE ChildLeaves(c)
  <2>1. ChildEnds(c) BY <1>7 DEF ChildLeaves, ReceiveNothing, Exit, ChildDies
  <2>2. QED BY <1>0, <1>1, <1>2, <2>1 DEF ChildEnds, ChildAt, clientVars, Typed
<1>8. ASSUME NEW m \in Messages, Write(c, m)
      PROVE  up'[c] \in Seq(Part) /\ Len(up'[c]) <= Window
  <2>1. CASE UNCHANGED up BY <1>1, <2>1
  <2>2. CASE Fits(up[c], m) /\ up' = [up EXCEPT ![c] = @ \o Parts(m)]
    BY <1>1, <1>2, <2>2, WriteFacts
  <2>3. QED BY <1>8, <2>1, <2>2 DEF Write
<1>9. CASE ClientLeaves(c)
  <2>1. ClientEnds(c) BY <1>9 DEF ClientLeaves, TakeNothing, send_exit, Leave
  <2>2. /\ client'[c] = "gone" /\ down'[c] = <<>> /\ asked'[c] = 0 /\ got'[c] = Nothing
        /\ UNCHANGED <<child, seen>>
    BY <1>2, <2>1 DEF ClientEnds, ClientAt, childVars
  <2>3. Message("exit", c, asked[c], FALSE) \in Messages BY <1>1, NewMessage
  <2>4. UNCHANGED up \/ Write(c, Message("exit", c, asked[c], FALSE))
    BY <1>9 DEF ClientLeaves, TakeNothing, send_exit, Leave
  <2>5. up'[c] \in Seq(Part) /\ Len(up'[c]) <= Window
    BY <1>1, <1>8, <2>3, <2>4
  <2>6. QED BY <1>0, <1>1, <2>2, <2>5 DEF Typed
<1>10. CASE ipc_connect(c)
  BY <1>1, <1>2, <1>10 DEF ipc_connect, ClientAt, childVars, streamVars, Typed
<1>11. CASE ipc_send(c)
  <2>1. /\ client'[c] = "wait" /\ asked'[c] = 1 - asked[c] /\ UNCHANGED <<child, seen, got, down>>
    BY <1>2, <1>11 DEF ipc_send, ClientAt, childVars
  <2>2. PICK long \in Sizes(c) : Write(c, Message("request", c, asked'[c], long))
    BY <1>11 DEF ipc_send
  <2>3. long \in BOOLEAN /\ asked'[c] \in {0, 1} BY <1>1, <2>1 DEF Sizes
  <2>4. Message("request", c, asked'[c], long) \in Messages BY <2>3, NewMessage
  <2>5. up'[c] \in Seq(Part) /\ Len(up'[c]) <= Window
    BY <1>8, <2>2, <2>4
  <2>6. QED BY <1>1, <2>1, <2>5 DEF Typed
<1>12. QED
  BY <1>3, <1>4, <1>6, <1>7, <1>9, <1>10, <1>11 DEF StepOf, ChildWorks

\* An empty backlog is one.
LEMMA EmptyBacklog == <<>> \in Seq(Client) /\ Len(<<>>) <= Backlog
BY Sizes0

\* Everything keeps its type.
LEMMA TypesStep ==
    ASSUME TypeOK, Streams, [Next]_vars
    PROVE  TypeOK' /\ Streams'
<1>1. CASE UNCHANGED vars
  BY <1>1 DEF vars, parentVars, childVars, clientVars, streamVars, TypeOK, Streams
<1>2. CASE ParentStep
  <2>1. UNCHANGED <<split, client, asked, got, seen, up, down, torn, unruly>>
    BY <1>2, ParentEffects
  <2>2. child' \in [Client -> {"none", "serve", "execute", "gone"}]
    BY <1>2, ParentEffects DEF TypeOK
  <2>3. backlog' \in Seq(Client) /\ Len(backlog') <= Backlog
    <3>1. backlog \in Seq(Client) /\ Len(backlog) \in Nat /\ Len(backlog) <= Backlog
      BY DEF TypeOK
    <3>2. CASE backlog' \in {backlog, <<>>} BY <3>1, <3>2, EmptyBacklog
    <3>3. CASE backlog # <<>> /\ backlog' = Tail(backlog)
      <4>1. Tail(backlog) \in Seq(Client) /\ Len(Tail(backlog)) = Len(backlog) - 1
        BY <3>1, <3>3
      <4>2. QED BY <3>1, <3>3, <4>1, Sizes0
    <3>4. QED BY <1>2, <3>2, <3>3, ParentEffects
  <2>4. /\ parent' \in {"down", "accept", "waitsync"} /\ runs' \in 0..MaxRun
        /\ bound' \in BOOLEAN /\ current' \in Client \cup {Nobody}
    <3>1. CASE ipc_listen
      <4>1. runs' \in 0..MaxRun BY <3>1, Sizes0 DEF ipc_listen, TypeOK
      <4>2. parent' = "accept" /\ bound' \in BOOLEAN /\ current' = current
        BY <3>1 DEF ipc_listen, ParentAt
      <4>3. QED BY <4>1, <4>2 DEF TypeOK
    <3>2. CASE ipc_accept
      <4>1. Head(backlog) \in Client BY <3>2 DEF ipc_accept, TypeOK
      <4>2. QED BY <3>2, <4>1 DEF ipc_accept, ParentAt, TypeOK
    <3>3. CASE ipc_waitsync \/ ParentInterrupt
      BY <3>3 DEF ipc_waitsync, ParentInterrupt, ParentAt, TypeOK
    <3>4. QED BY <1>2, <3>1, <3>2, <3>3 DEF ParentStep, ServerStep
  <2>5. QED BY <2>1, <2>2, <2>3, <2>4 DEF TypeOK, Streams
<1>3. ASSUME NEW c \in Client, StepOf(c) PROVE TypeOK' /\ Streams'
  <2>1. Typed(c) /\ split' = split /\ \A d \in Client \ {c} : Same(d)
    BY <1>3, StepTyped, OthersSame
  <2>2. \A d \in Client :
           /\ child'[d] \in {"none", "serve", "execute", "gone"}
           /\ seen'[d] \in Messages \cup {Nothing, Garbage}
           /\ client'[d] \in {"start", "refused", "ready", "wait", "gone"}
           /\ asked'[d] \in {0, 1}
           /\ got'[d] \in Messages \cup {Nothing, Garbage}
           /\ up'[d] \in Seq(Part) /\ down'[d] \in Seq(Part)
           /\ Len(up'[d]) <= Window /\ Len(down'[d]) <= Window
    BY <2>1 DEF Typed, Same, TypeOK, Streams
  <2>3. /\ child' = [d \in Client |-> child'[d]] /\ seen' = [d \in Client |-> seen'[d]]
        /\ client' = [d \in Client |-> client'[d]] /\ asked' = [d \in Client |-> asked'[d]]
        /\ got' = [d \in Client |-> got'[d]] /\ up' = [d \in Client |-> up'[d]]
        /\ down' = [d \in Client |-> down'[d]]
    BY <1>3, ZenonT(30) DEF StepOf, ChildWorks, ChildLeaves, ClientLeaves, Receive, Answer, AnswerNobody,
         AnswerGarbage, Served, ReceiveNothing, Exit, ChildDies, ChildEnds, TakeNothing, send_exit,
         Leave, ClientEnds, Write, ipc_connect, ipc_send, Take, ChildAt, ClientAt, childVars, clientVars,
         streamVars, TypeOK, Streams
  <2>4. torn' \subseteq Client /\ unruly' \subseteq Client
    BY <1>3 DEF StepOf, ChildWorks, ChildLeaves, ClientLeaves, Receive, Answer, AnswerNobody,
         AnswerGarbage, Served, ReceiveNothing, Exit, ChildDies, ChildEnds, TakeNothing, send_exit,
         Leave, ClientEnds, ipc_connect, ipc_send, Take, streamVars, TypeOK
  <2>5. backlog' \in Seq(Client) /\ Len(backlog') <= Backlog
    <3>1. backlog \in Seq(Client) /\ Len(backlog) \in Nat /\ Len(backlog) <= Backlog
      BY DEF TypeOK
    <3>2. CASE backlog' \in {backlog, <<>>} BY <3>1, <3>2, EmptyBacklog
    <3>3. CASE Len(backlog) < Backlog /\ backlog' = Append(backlog, c)
      <4>1. Append(backlog, c) \in Seq(Client) /\ Len(Append(backlog, c)) = Len(backlog) + 1
        BY <3>1
      <4>2. QED BY <3>1, <3>3, <4>1, Sizes0
    <3>4. QED
      BY <1>3, <3>2, <3>3 DEF StepOf, ChildWorks, ChildLeaves, ClientLeaves, Receive, Answer,
         AnswerNobody, AnswerGarbage, Served, ReceiveNothing, Exit, ChildDies, ChildEnds, KeepBacklog,
         TakeNothing, send_exit, Leave, ClientEnds, ipc_connect, ipc_send, Take
  <2>6. UNCHANGED <<parent, runs, bound, current>>
    BY <1>3 DEF StepOf, ChildWorks, ChildLeaves, ClientLeaves, Receive, Answer, AnswerNobody,
         AnswerGarbage, Served, ReceiveNothing, Exit, ChildDies, ChildEnds, TakeNothing, send_exit,
         Leave, ClientEnds, ipc_connect, ipc_send, Take, parentVars
  <2>7. QED BY <2>1, <2>2, <2>3, <2>4, <2>5, <2>6 DEF TypeOK, Streams
<1>4. QED BY <1>1, <1>2, <1>3, NextCases

-----------------------------------------------------------------------------
(* The backlog.                                                            *)

\* A shorter or longer backlog.
LEMMA BacklogFacts ==
    ASSUME TypeOK, Queued
    PROVE  /\ backlog # <<>> =>
                 /\ 1 \in DOMAIN backlog /\ Head(backlog) = backlog[1]
                 /\ \A i \in DOMAIN Tail(backlog) :
                       i + 1 \in DOMAIN backlog /\ Tail(backlog)[i] = backlog[i + 1]
                       /\ i \in Nat /\ i + 1 # 1
                 /\ \A c \in Client : InBacklog(c) =>
                       c = Head(backlog) \/ \E i \in DOMAIN Tail(backlog) : Tail(backlog)[i] = c
           /\ \A c \in Client :
                 LET b == Append(backlog, c)
                     n == Len(backlog) + 1
                 IN /\ n \in DOMAIN b /\ b[n] = c /\ DOMAIN b = DOMAIN backlog \cup {n}
                    /\ n \notin DOMAIN backlog
                    /\ \A i \in DOMAIN backlog : b[i] = backlog[i]
<1>1. backlog \in Seq(Client) /\ Len(backlog) \in Nat /\ DOMAIN backlog = 1..Len(backlog)
  BY DEF TypeOK
<1>2. ASSUME backlog # <<>>
      PROVE  /\ 1 \in DOMAIN backlog /\ Head(backlog) = backlog[1]
             /\ \A i \in DOMAIN Tail(backlog) :
                   i + 1 \in DOMAIN backlog /\ Tail(backlog)[i] = backlog[i + 1]
                   /\ i \in Nat /\ i + 1 # 1
             /\ \A c \in Client : InBacklog(c) =>
                   c = Head(backlog) \/ \E i \in DOMAIN Tail(backlog) : Tail(backlog)[i] = c
  <2>1. /\ Len(backlog) > 0 /\ Head(backlog) = backlog[1] /\ Len(Tail(backlog)) = Len(backlog) - 1
        /\ Tail(backlog) \in Seq(Client) /\ DOMAIN Tail(backlog) = 1..(Len(backlog) - 1)
        /\ \A i \in 1..(Len(backlog) - 1) : Tail(backlog)[i] = backlog[i + 1]
    BY <1>1, <1>2
  <2>2. ASSUME NEW c \in Client, NEW i \in DOMAIN backlog, backlog[i] = c, i # 1
        PROVE  i - 1 \in DOMAIN Tail(backlog) /\ Tail(backlog)[i - 1] = c
    <3>1. i \in Nat /\ i > 1 /\ i <= Len(backlog) BY <1>1, <2>2
    <3>2. i - 1 \in 1..(Len(backlog) - 1) /\ (i - 1) + 1 = i BY <1>1, <3>1
    <3>3. QED BY <2>1, <2>2, <3>2
  <2>3. 1 \in DOMAIN backlog BY <1>1, <2>1
  <2>4. ASSUME NEW i \in DOMAIN Tail(backlog)
        PROVE  /\ i + 1 \in DOMAIN backlog /\ Tail(backlog)[i] = backlog[i + 1]
               /\ i \in Nat /\ i + 1 # 1
    <3>1. i \in 1..(Len(backlog) - 1) BY <2>1
    <3>2. QED BY <1>1, <2>1, <3>1
  <2>5. \A c \in Client : InBacklog(c) =>
           c = Head(backlog) \/ \E i \in DOMAIN Tail(backlog) : Tail(backlog)[i] = c
    BY <2>1, <2>2 DEF InBacklog
  <2>6. QED BY <2>1, <2>3, <2>4, <2>5
<1>3. QED BY <1>1, <1>2

\* A connection stays once in the backlog until it is accepted.
LEMMA QueuedStep ==
    ASSUME TypeOK, Streams, Queued, \A c \in Client : Before(c), [Next]_vars
    PROVE  Queued'
<1>0. backlog \in Seq(Client) /\ \A i \in DOMAIN backlog : backlog[i] \in Client
  BY DEF TypeOK
<1>1. ASSUME backlog' = backlog \/ backlog' = <<>>,
             \A c \in Client : /\ child[c] = "none" => child'[c] = "none"
                               /\ client'[c] \in {"start", "refused"} => client[c] \in {"start", "refused"}
      PROVE  Queued'
  <2>1. CASE backlog' = <<>> BY <2>1 DEF Queued
  <2>2. CASE backlog' = backlog BY <1>0, <1>1, <2>2 DEF Queued
  <2>3. QED BY <1>1, <2>1, <2>2
<1>2. CASE UNCHANGED vars
  BY <1>1, <1>2 DEF vars, childVars, clientVars
<1>3. CASE ParentStep
  <2>1. CASE UNCHANGED child /\ backlog' \in {backlog, <<>>}
    BY <1>1, <1>3, <2>1, ParentEffects
  <2>2. CASE /\ backlog # <<>> /\ backlog' = Tail(backlog)
             /\ child' = [child EXCEPT ![Head(backlog)] = "serve"]
    <3>1. /\ 1 \in DOMAIN backlog /\ Head(backlog) = backlog[1]
          /\ \A i \in DOMAIN backlog' :
                /\ i + 1 \in DOMAIN backlog /\ backlog'[i] = backlog[i + 1]
                /\ i \in Nat /\ i + 1 # 1
      BY <2>2, BacklogFacts
    <3>2. UNCHANGED client BY <1>3, ParentEffects
    <3>3. ASSUME NEW i \in DOMAIN backlog'
          PROVE  child'[backlog'[i]] = "none" /\ client'[backlog'[i]] \notin {"start", "refused"}
      <4>1. backlog'[i] # Head(backlog) /\ backlog'[i] \in Client BY <1>0, <3>1 DEF Queued
      <4>2. child'[backlog'[i]] = child[backlog'[i]] BY <2>2, <4>1 DEF TypeOK
      <4>3. QED BY <3>1, <3>2, <4>2 DEF Queued
    <3>4. ASSUME NEW i \in DOMAIN backlog', NEW j \in DOMAIN backlog', backlog'[i] = backlog'[j]
          PROVE  i = j
      <4>1. i + 1 = j + 1 BY <3>1, <3>4 DEF Queued
      <4>2. QED BY <3>1, <4>1
    <3>5. QED BY <3>3, <3>4 DEF Queued
  <2>3. QED BY <1>3, <2>1, <2>2, ParentEffects
<1>4. ASSUME NEW c \in Client, StepOf(c), ~ipc_connect(c) PROVE Queued'
  <2>1. backlog' = backlog \/ backlog' = <<>>
    BY <1>4 DEF StepOf, ChildWorks, ChildLeaves, ClientLeaves, Receive, Answer,
         AnswerNobody, AnswerGarbage, Served, ReceiveNothing, Exit, ChildDies, ChildEnds, KeepBacklog,
         TakeNothing, send_exit, Leave, ClientEnds, ipc_send, Take
  <2>2. /\ child[c] = "none" => child'[c] = "none"
        /\ client'[c] \in {"start", "refused"} => client[c] \in {"start", "refused"}
    BY <1>4 DEF StepOf, ChildWorks, ChildLeaves, ClientLeaves, Receive, Answer,
         AnswerNobody, AnswerGarbage, Served, ReceiveNothing, Exit, ChildDies, ChildEnds,
         TakeNothing, send_exit, Leave, ClientEnds, ipc_send, Take, Alive, ChildAt, ClientAt, childVars,
         clientVars, TypeOK
  <2>3. \A d \in Client \ {c} : child'[d] = child[d] /\ client'[d] = client[d]
    BY <1>4, OthersSame DEF Same
  <2>4. QED BY <1>1, <2>1, <2>2, <2>3
<1>5. ASSUME NEW c \in Client, ipc_connect(c) PROVE Queued'
  <2>1. /\ client[c] = "start" /\ UNCHANGED child /\ client'[c] \in {"ready", "refused"}
        /\ \A d \in Client \ {c} : client'[d] = client[d]
        /\ \/ backlog' = backlog
           \/ backlog' = Append(backlog, c) /\ client'[c] = "ready"
    BY <1>5 DEF ipc_connect, ClientAt, childVars, TypeOK
  <2>2. child[c] = "none" /\ \A i \in DOMAIN backlog : backlog[i] # c
    BY <2>1 DEF Before, Queued
  <2>3. CASE backlog' = backlog
    BY <1>0, <2>1, <2>2, <2>3 DEF Queued
  <2>4. CASE backlog' = Append(backlog, c) /\ client'[c] = "ready"
    <3>. DEFINE n == Len(backlog) + 1
    <3>1. /\ n \in DOMAIN backlog' /\ backlog'[n] = c /\ DOMAIN backlog' = DOMAIN backlog \cup {n}
          /\ n \notin DOMAIN backlog /\ \A i \in DOMAIN backlog : backlog'[i] = backlog[i]
      BY <2>4, BacklogFacts
    <3>. HIDE DEF n
    <3>2. QED BY <1>0, <2>1, <2>2, <2>4, <3>1 DEF Queued
  <2>5. QED BY <2>1, <2>3, <2>4
<1>6. QED BY <1>2, <1>3, <1>4, <1>5, NextCases

-----------------------------------------------------------------------------
(* One datagram at a time.                                                 *)

\* Steps that the two ends of a connection do not notice; the accept of it is
\* one.
LEMMA TurnFrame ==
    ASSUME NEW c \in Client, Before(c), Turn(c),
           client'[c] = client[c], asked'[c] = asked[c], seen'[c] = seen[c],
           up'[c] = up[c], down'[c] = down[c],
           c \in torn' <=> c \in torn, c \in unruly' <=> c \in unruly,
           \/ child'[c] = child[c]
           \/ child[c] = "none" /\ child'[c] = "serve" /\ client[c] \notin {"start", "refused"}
    PROVE  Before(c)' /\ Turn(c)'
<1>1. Before(c)' BY DEF Before
<1>2. child'[c] = child[c] \/ (child[c] # "execute" /\ child'[c] # "execute")
  OBVIOUS
<1>3. /\ Idle(c) => Idle(c)'
      /\ Asks(c) => Asks(c)'
      /\ Works(c) => Works(c)'
      /\ Answers(c) => Answers(c)'
      /\ LastWord(c) => LastWord(c)'
  BY <1>2 DEF Idle, Asks, Works, Answers, LastWord, Holds
<1>4. Turn(c)' BY <1>3 DEF Turn
<1>5. QED BY <1>1, <1>4

\* What a child receives is the command of its client, or the OP_EXIT of a client
\* that is gone.
LEMMA ReceiveTurn ==
    ASSUME IInv, NEW c \in Client, Receive(c)
    PROVE  /\ Before(c)' /\ Turn(c)'
           /\ torn' \subseteq torn \cup {c}
           /\ c \in torn' => c \in torn \cup split \cup unruly
<1>1. /\ TypeOK /\ Before(c) /\ Turn(c) /\ up \in [Client -> Seq(Part)]
      /\ child \in [Client -> {"none", "serve", "execute", "gone"}] /\ DOMAIN seen = Client
      /\ asked[c] \in {0, 1}
  BY DEF IInv, SocketInv, TypeOK, Streams
<1>2. PICK n \in Lengths(c, up[c]) :
         /\ seen' = [seen EXCEPT ![c] = Datagram(up[c], n)]
         /\ torn' = IF Whole(up[c], n) THEN torn ELSE torn \cup {c}
         /\ up' = [up EXCEPT ![c] = Rest(@, n)]
  BY DEF Receive
<1>3. /\ child[c] = "serve" /\ child'[c] = "execute" /\ up[c] # <<>>
      /\ UNCHANGED <<client, asked, down, unruly>>
      /\ seen'[c] = Datagram(up[c], n) /\ up'[c] = Rest(up[c], n)
  BY <1>1, <1>2 DEF Receive, ChildAt, clientVars
<1>4. client[c] \in {"ready", "wait", "gone"} /\ Before(c)'
  BY <1>1, <1>3 DEF Before, TypeOK
<1>5. ASSUME NEW m \in Messages, up[c] = Parts(m)
      PROVE  /\ c \notin torn' => up'[c] = <<>> /\ seen'[c] = m
             /\ c \in torn' /\ c \notin torn => c \in split \/ m.long
  BY <1>2, <1>3, <1>5, WholeFacts
<1>6. CASE c \in torn
  BY <1>2, <1>4, <1>6 DEF Turn
<1>7. CASE c \notin torn /\ client[c] = "wait"
  <2>1. Asks(c) BY <1>1, <1>3, <1>7 DEF Turn, Idle, Works, Answers
  <2>2. PICK long \in BOOLEAN : /\ up[c] = Parts(Message("request", c, asked[c], long))
                                /\ long => c \in unruly
    BY <2>1 DEF Asks, Holds
  <2>3. DEFINE m == Message("request", c, asked[c], long)
  <2>4. m \in Messages /\ m.kind = "request" /\ m.bit = asked[c] /\ m.long = long
    BY <1>1, NewMessage
  <2>. HIDE DEF m
  <2>5. /\ c \notin torn' => up'[c] = <<>> /\ seen'[c] = m
        /\ c \in torn' => c \in split \cup unruly
    BY <1>5, <1>7, <2>2, <2>4 DEF m
  <2>6. c \notin torn' => Works(c)'
    BY <1>3, <2>1, <2>4, <2>5 DEF Works, Asks
  <2>7. QED BY <1>2, <1>3, <1>4, <1>7, <2>5, <2>6 DEF Turn
<1>8. CASE c \notin torn /\ client[c] = "gone" /\ c \notin unruly
  <2>1. PICK m \in Messages : ~m.long /\ up[c] = Parts(m)
    BY <1>1, <1>3, <1>8 DEF Turn, LastWord
  <2>2. /\ c \notin torn' => up'[c] = <<>>
        /\ c \in torn' => c \in split
    BY <1>5, <1>8, <2>1
  <2>3. QED BY <1>2, <1>3, <1>4, <1>8, <2>2 DEF Turn, LastWord
<1>9. CASE c \notin torn /\ client[c] = "gone" /\ c \in unruly
  BY <1>2, <1>3, <1>4, <1>9 DEF Turn
<1>10. CASE c \notin torn /\ client[c] = "ready"
  BY <1>1, <1>3, <1>10 DEF Turn, Idle
<1>11. QED BY <1>4, <1>6, <1>7, <1>8, <1>9, <1>10

\* What a client takes is the answer to its last command.
LEMMA TakeTurn ==
    ASSUME IInv, NEW c \in Client, Take(c)
    PROVE  /\ Before(c)' /\ Turn(c)'
           /\ torn' \subseteq torn \cup {c}
           /\ c \in torn' => c \in torn \cup split \cup unruly
           /\ c \notin torn' =>
                 got'[c] \in Messages /\ got'[c].kind = "answer" /\ got'[c].of = c
                 /\ got'[c].bit = asked[c]
<1>1. /\ TypeOK /\ Before(c) /\ Turn(c) /\ down \in [Client -> Seq(Part)]
      /\ client \in [Client -> {"start", "refused", "ready", "wait", "gone"}]
      /\ DOMAIN got = Client /\ asked[c] \in {0, 1}
  BY DEF IInv, SocketInv, TypeOK, Streams
<1>2. PICK n \in Lengths(c, down[c]) :
         /\ got' = [got EXCEPT ![c] = Datagram(down[c], n)]
         /\ torn' = IF Whole(down[c], n) THEN torn ELSE torn \cup {c}
         /\ down' = [down EXCEPT ![c] = Rest(@, n)]
  BY DEF Take
<1>3. /\ client[c] = "wait" /\ client'[c] = "ready" /\ down[c] # <<>>
      /\ UNCHANGED <<child, seen, asked, up, unruly>>
      /\ got'[c] = Datagram(down[c], n) /\ down'[c] = Rest(down[c], n)
  BY <1>1, <1>2 DEF Take, ClientAt, childVars
<1>4. Before(c)' BY <1>3 DEF Before
<1>5. CASE c \in torn
  BY <1>2, <1>4, <1>5 DEF Turn
<1>6. CASE c \notin torn
  <2>1. Answers(c) BY <1>1, <1>3, <1>6 DEF Turn, Idle, Works, Asks
  <2>2. PICK long \in BOOLEAN : /\ down[c] = Parts(Message("answer", c, asked[c], long))
                                /\ long => c \in unruly
    BY <2>1 DEF Answers, Holds
  <2>3. DEFINE m == Message("answer", c, asked[c], long)
  <2>4. /\ m \in Messages /\ m.kind = "answer" /\ m.bit = asked[c] /\ m.of = c /\ m.long = long
    BY <1>1, NewMessage
  <2>. HIDE DEF m
  <2>5. /\ Datagram(down[c], n) = m
        /\ Whole(down[c], n) => Rest(down[c], n) = <<>>
        /\ c \notin split /\ ~m.long => Whole(down[c], n)
    BY <2>2, <2>4, WholeFacts DEF m
  <2>6. /\ c \notin torn' => down'[c] = <<>> /\ got'[c] = m
        /\ c \in torn' => c \in split \cup unruly
    BY <1>2, <1>3, <1>6, <2>2, <2>4, <2>5
  <2>7. c \notin torn' => Idle(c)'
    BY <1>3, <2>1, <2>6 DEF Idle, Answers
  <2>8. QED BY <1>2, <1>3, <1>4, <1>6, <2>4, <2>6, <2>7 DEF Turn
<1>7. QED BY <1>5, <1>6

\* The answer of a child goes to the command of its client.
LEMMA AnswerTurn ==
    ASSUME IInv, NEW c \in Client, Answer(c) \/ AnswerNobody(c) \/ AnswerGarbage(c)
    PROVE  Before(c)' /\ Turn(c)'
<1>1. /\ TypeOK /\ Before(c) /\ Turn(c) /\ down \in [Client -> Seq(Part)]
      /\ child \in [Client -> {"none", "serve", "execute", "gone"}] /\ DOMAIN down = Client
      /\ asked[c] \in {0, 1} /\ client[c] \in {"start", "refused", "ready", "wait", "gone"}
  BY DEF IInv, SocketInv, TypeOK, Streams
<1>2. Served(c) BY DEF Answer, AnswerNobody, AnswerGarbage
<1>3. /\ child[c] = "execute" /\ child'[c] = "serve" /\ UNCHANGED <<client, asked, up, torn>>
  BY <1>1, <1>2 DEF Answer, AnswerNobody, AnswerGarbage, Served, ChildAt, clientVars
<1>4. Before(c)' /\ client[c] \notin {"start", "refused"}
  BY <1>1, <1>3 DEF Before
<1>5. CASE c \in torn
  BY <1>3, <1>4, <1>5 DEF Turn
<1>6. CASE c \notin torn /\ client[c] = "ready"
  BY <1>1, <1>3, <1>6 DEF Turn, Idle
<1>7. CASE c \notin torn /\ client[c] = "wait"
  <2>1. Works(c) BY <1>1, <1>3, <1>7 DEF Turn, Idle, Asks, Answers
  <2>2. seen[c] # Garbage BY <2>1, MessageTypes DEF Works
  <2>3. Answer(c) BY <1>7, <2>2 DEF AnswerNobody, AnswerGarbage
  <2>4. PICK long \in Sizes(c) :
           /\ down' = [down EXCEPT ![c] = @ \o Parts(Message("answer", c, seen[c].bit, long))]
           /\ unruly' = IF long THEN unruly \cup {c} ELSE unruly
    BY <2>3 DEF Answer
  <2>5. long \in BOOLEAN BY DEF Sizes
  <2>6. Message("answer", c, asked[c], long) \in Messages BY <1>1, <2>5, NewMessage
  <2>7. down'[c] = down[c] \o Parts(Message("answer", c, asked[c], long))
    BY <1>1, <2>1, <2>4 DEF Works
  <2>8. down[c] = <<>> /\ down[c] \in Seq(Part) BY <1>1, <2>1 DEF Works
  <2>9. down'[c] = Parts(Message("answer", c, asked[c], long))
    BY <2>6, <2>7, <2>8, WriteFacts
  <2>10. Holds(down[c], c, "answer", asked[c])'
    BY <1>3, <2>4, <2>5, <2>9 DEF Holds
  <2>11. Answers(c)' BY <1>3, <2>1, <2>10 DEF Answers, Works
  <2>12. QED BY <1>3, <1>4, <1>7, <2>11 DEF Turn
<1>8. CASE c \notin torn /\ client[c] = "gone"
  <2>1. UNCHANGED unruly BY <1>8 DEF Answer, AnswerNobody, AnswerGarbage
  <2>2. QED BY <1>1, <1>3, <1>4, <1>8, <2>1 DEF Turn, LastWord
<1>9. QED BY <1>1, <1>4, <1>5, <1>6, <1>7, <1>8

\* A child that ends takes what it has not read with it.
LEMMA ChildLeavesTurn ==
    ASSUME IInv, NEW c \in Client, ChildLeaves(c)
    PROVE  Before(c)' /\ Turn(c)'
<1>1. /\ Before(c) /\ Turn(c) /\ DOMAIN up = Client /\ DOMAIN child = Client
  BY DEF IInv, SocketInv, TypeOK, Streams
<1>2. ChildEnds(c) /\ child[c] # "none" BY DEF ChildLeaves, ReceiveNothing, Exit, ChildDies, Alive
<1>3. /\ child'[c] = "gone" /\ up'[c] = <<>> /\ UNCHANGED <<client, asked, down, torn, unruly>>
  BY <1>1, <1>2 DEF ChildEnds, ChildAt, clientVars
<1>4. Before(c)' BY <1>1, <1>2, <1>3 DEF Before
<1>5. /\ Idle(c) \/ Asks(c) \/ Works(c) => Idle(c)'
      /\ Answers(c) => Answers(c)'
      /\ LastWord(c)'
  BY <1>3 DEF Idle, Asks, Works, Answers, LastWord, Holds
<1>6. Turn(c)' BY <1>1, <1>3, <1>5 DEF Turn
<1>7. QED BY <1>4, <1>6

\* A client that ends leaves its OP_EXIT behind, or what was never accepted.
LEMMA ClientLeavesTurn ==
    ASSUME IInv, NEW c \in Client, ClientLeaves(c)
    PROVE  Before(c)' /\ Turn(c)'
<1>1. /\ Before(c) /\ Turn(c) /\ DOMAIN up = Client /\ DOMAIN client = Client
      /\ up[c] \in Seq(Part) /\ asked[c] \in {0, 1}
  BY DEF IInv, SocketInv, TypeOK, Streams
<1>2. ClientEnds(c) BY DEF ClientLeaves, TakeNothing, send_exit, Leave
<1>3. client'[c] = "gone" /\ UNCHANGED <<child, torn>>
  BY <1>1, <1>2 DEF ClientEnds, ClientAt, childVars
<1>4. Before(c)' BY <1>3 DEF Before
<1>5. SUFFICES ASSUME c \notin torn, c \notin unruly' PROVE LastWord(c)'
  BY <1>3, <1>4 DEF Turn
<1>6. CASE TakeNothing(c)
  <2>1. client[c] = "wait" /\ ~Alive(c) /\ UNCHANGED <<up, unruly>>
    BY <1>6 DEF TakeNothing, Connected
  <2>2. child[c] # "execute" BY <2>1 DEF Alive
  <2>3. CASE Asks(c)
    <3>1. PICK long \in BOOLEAN : /\ up[c] = Parts(Message("request", c, asked[c], long))
                                  /\ long => c \in unruly
      BY <2>3 DEF Asks, Holds
    <3>2. long = FALSE BY <1>5, <2>1, <3>1
    <3>3. /\ Message("request", c, asked[c], FALSE) \in Messages
          /\ ~Message("request", c, asked[c], FALSE).long
      BY <1>1, NewMessage
    <3>4. QED BY <1>3, <2>1, <2>2, <3>1, <3>2, <3>3 DEF LastWord
  <2>4. CASE Idle(c) \/ Answers(c)
    BY <2>1, <2>4 DEF Idle, Answers, LastWord
  <2>5. QED BY <1>1, <1>5, <2>1, <2>2, <2>3, <2>4 DEF Turn, Works
<1>7. CASE Leave(c)
  <2>1. up[c] = <<>> /\ UNCHANGED up
    BY <1>1, <1>5, <1>7 DEF Leave, Before, Turn, Idle
  <2>2. QED BY <2>1 DEF LastWord
<1>8. CASE send_exit(c)
  <2>1. client[c] = "ready" BY <1>5, <1>8 DEF send_exit
  <2>2. up[c] = <<>> /\ child[c] # "execute" BY <1>1, <1>5, <2>1 DEF Turn, Idle
  <2>3. /\ Message("exit", c, asked[c], FALSE) \in Messages
        /\ ~Message("exit", c, asked[c], FALSE).long
    BY <1>1, NewMessage
  <2>4. \/ UNCHANGED up
        \/ up' = [up EXCEPT ![c] = @ \o Parts(Message("exit", c, asked[c], FALSE))]
    BY <1>8 DEF send_exit, Write
  <2>5. up'[c] = <<>> \/ up'[c] = Parts(Message("exit", c, asked[c], FALSE))
    BY <1>1, <2>2, <2>3, <2>4, WriteFacts
  <2>6. QED BY <1>3, <2>2, <2>3, <2>5 DEF LastWord
<1>9. QED BY <1>6, <1>7, <1>8 DEF ClientLeaves

\* A client connects, and sends when nothing else is under way.
LEMMA SendTurn ==
    ASSUME IInv, NEW c \in Client, ipc_connect(c) \/ ipc_send(c)
    PROVE  Before(c)' /\ Turn(c)'
<1>1. /\ Before(c) /\ Turn(c) /\ DOMAIN up = Client /\ DOMAIN client = Client /\ DOMAIN asked = Client
      /\ up[c] \in Seq(Part) /\ asked[c] \in {0, 1} /\ 1 - asked[c] \in {0, 1}
  BY DEF IInv, SocketInv, TypeOK, Streams
<1>2. CASE ipc_connect(c)
  <2>1. /\ client[c] = "start" /\ client'[c] \in {"ready", "refused"}
        /\ UNCHANGED <<child, up, down, torn>>
    BY <1>1, <1>2 DEF ipc_connect, ClientAt, childVars, streamVars
  <2>2. QED BY <1>1, <2>1 DEF Before, Turn, Idle
<1>3. CASE ipc_send(c)
  <2>1. /\ client[c] = "ready" /\ client'[c] = "wait" /\ c \notin torn
        /\ asked'[c] = 1 - asked[c] /\ asked'[c] \in {0, 1}
        /\ UNCHANGED <<child, down, torn>>
    BY <1>1, <1>3 DEF ipc_send, ClientAt, childVars
  <2>2. Idle(c) BY <1>1, <2>1 DEF Turn
  <2>3. PICK long \in Sizes(c) : /\ Write(c, Message("request", c, asked'[c], long))
                                 /\ unruly' = IF long THEN unruly \cup {c} ELSE unruly
    BY <1>3 DEF ipc_send
  <2>4. long \in BOOLEAN BY DEF Sizes
  <2>5. Message("request", c, asked'[c], long) \in Messages BY <2>1, <2>4, NewMessage
  <2>6. CASE UNCHANGED up
    <3>1. Idle(c)' BY <2>1, <2>2, <2>6 DEF Idle
    <3>2. QED BY <2>1, <3>1 DEF Before, Turn
  <2>7. CASE up' = [up EXCEPT ![c] = @ \o Parts(Message("request", c, asked'[c], long))]
    <3>1. up'[c] = up[c] \o Parts(Message("request", c, asked'[c], long)) BY <1>1, <2>7
    <3>2. up'[c] = Parts(Message("request", c, asked'[c], long))
      BY <1>1, <2>2, <2>5, <3>1, WriteFacts DEF Idle
    <3>3. Holds(up[c], c, "request", asked[c])' BY <2>3, <2>4, <3>2 DEF Holds
    <3>4. Asks(c)' BY <2>1, <2>2, <3>3 DEF Asks, Idle
    <3>5. QED BY <2>1, <3>4 DEF Before, Turn
  <2>8. QED BY <2>3, <2>6, <2>7 DEF Write
<1>4. QED BY <1>2, <1>3

\* The invariant is kept by every step.
LEMMA NextIInv == IInv /\ [Next]_vars => IInv'
<1>. SUFFICES ASSUME IInv, [Next]_vars PROVE IInv'
  OBVIOUS
<1>1. /\ TypeOK /\ Streams /\ Queued /\ Framed
      /\ \A c \in Client : Before(c) /\ Turn(c)
  BY DEF IInv, SocketInv
<1>2. TypeOK' /\ Streams' /\ Queued' BY <1>1, TypesStep, QueuedStep
<1>3. CASE UNCHANGED vars
  <2>1. \A c \in Client : Before(c)' /\ Turn(c)'
    BY <1>1, <1>3, TurnFrame DEF vars, childVars, clientVars, streamVars
  <2>2. Framed' BY <1>1, <1>3 DEF vars, streamVars, Framed
  <2>3. QED BY <1>2, <2>1, <2>2 DEF IInv, SocketInv
<1>4. CASE ParentStep
  <2>1. UNCHANGED <<split, client, asked, got, seen, up, down, torn, unruly>>
    BY <1>1, <1>4, ParentEffects
  <2>2. ASSUME NEW c \in Client
        PROVE  \/ child'[c] = child[c]
               \/ child[c] = "none" /\ child'[c] = "serve" /\ client[c] \notin {"start", "refused"}
    <3>1. backlog # <<>> => 1 \in DOMAIN backlog /\ Head(backlog) = backlog[1]
      BY <1>1, BacklogFacts
    <3>2. backlog # <<>> /\ c = Head(backlog) =>
             child[c] = "none" /\ client[c] \notin {"start", "refused"}
      BY <1>1, <3>1 DEF Queued
    <3>3. QED BY <1>1, <1>4, <3>2, ParentEffects DEF TypeOK
  <2>3. \A c \in Client : Before(c)' /\ Turn(c)'
    BY <1>1, <2>1, <2>2, TurnFrame
  <2>4. Framed' BY <1>1, <2>1 DEF Framed
  <2>5. QED BY <1>2, <2>3, <2>4 DEF IInv, SocketInv
<1>5. ASSUME NEW c \in Client, StepOf(c) PROVE IInv'
  <2>1. split' = split /\ \A d \in Client \ {c} : Same(d) BY <1>1, <1>5, OthersSame
  <2>2. \A d \in Client \ {c} : Before(d)' /\ Turn(d)'
    BY <1>1, <2>1, TurnFrame DEF Same
  <2>3. Before(c)' /\ Turn(c)'
    BY <1>5, ReceiveTurn, TakeTurn, AnswerTurn, ChildLeavesTurn, ClientLeavesTurn, SendTurn
       DEF StepOf, ChildWorks
  <2>4. c \in torn' => c \in torn \cup split \cup unruly
    <3>1. CASE Receive(c) \/ Take(c) BY <3>1, ReceiveTurn, TakeTurn
    <3>2. CASE ~(Receive(c) \/ Take(c))
      BY <1>5, <3>2 DEF StepOf, ChildWorks, ChildLeaves, ClientLeaves, Answer, AnswerNobody,
         AnswerGarbage, Served, ReceiveNothing, Exit, ChildDies, ChildEnds, TakeNothing, send_exit,
         Leave, ClientEnds, ipc_connect, ipc_send, streamVars
    <3>3. QED BY <3>1, <3>2
  <2>5. c \in unruly => c \in unruly'
    BY <1>5 DEF StepOf, ChildWorks, ChildLeaves, ClientLeaves, Receive, Answer, AnswerNobody,
         AnswerGarbage, Served, ReceiveNothing, Exit, ChildDies, ChildEnds, TakeNothing, send_exit,
         Leave, ClientEnds, ipc_connect, ipc_send, Take
  <2>6. Framed'
    <3>1. ASSUME NEW d \in torn' PROVE d \in split' \cup unruly'
      <4>1. d \in Client BY <1>2 DEF TypeOK
      <4>2. CASE d = c BY <1>1, <2>1, <2>4, <2>5, <4>2 DEF Framed
      <4>3. CASE d # c BY <1>1, <2>1, <4>1, <4>3 DEF Framed, Same
      <4>4. QED BY <4>2, <4>3
    <3>2. QED BY <3>1 DEF Framed
  <2>7. QED BY <1>2, <2>2, <2>3, <2>6 DEF IInv, SocketInv
<1>6. QED BY <1>3, <1>4, <1>5, NextCases
-----------------------------------------------------------------------------
(* Every step is a step of the service, or none.                           *)

\* The phase of a client, by where it is and whether it is lost.
PhaseIs(here, lost) ==
    IF here = "gone" THEN "left" ELSE IF lost THEN "lost"
    ELSE IF here = "ready" THEN "idle" ELSE IF here = "wait" THEN "waiting" ELSE "out"

\* The phase of a client, before and after a step.
LEMMA PhaseCases ==
    ASSUME TypeOK, TypeOK', NEW d \in Client
    PROVE  /\ Phase(d) = PhaseIs(client[d], Lost(d))
           /\ Phase(d)' = PhaseIs(client'[d], Lost(d)')
<1>1. /\ client[d] \in {"start", "refused", "ready", "wait", "gone"}
      /\ client'[d] \in {"start", "refused", "ready", "wait", "gone"}
  BY DEF TypeOK
<1>2. Phase(d) = PhaseIs(client[d], Lost(d)) BY <1>1 DEF Phase, PhaseIs
<1>3. Phase(d)' = PhaseIs(client'[d], Lost(d)') BY <1>1 DEF Phase, PhaseIs
<1>4. QED BY <1>2, <1>3

\* A client that notices nothing, and one that loses its connection or ends.
Keeps(d) == Phase(d)' = Phase(d) /\ asked'[d] = asked[d] /\ Heard(d)' = Heard(d)
Drops(d) == Phase(d) # "left" /\ Phase(d)' \in {"lost", "left"}

\* If there are only such clients, the service may lose the ones and keep the
\* others.
LEMMA LossStep ==
    ASSUME \A d \in Client : Keeps(d) \/ Drops(d)
    PROVE  S!Loss
BY DEF S!Loss, Keeps, Drops

\* Where the connection of a client has its server end.
Held(d) == InBacklog(d) \/ Alive(d)

\* A client that was connected to nobody stays so, and one that is torn stays
\* torn.
LEMMA LostStays ==
    ASSUME IInv, [Next]_vars, NEW d \in Client
    PROVE  /\ d \in torn => d \in torn'
           /\ client[d] \in {"ready", "wait"} /\ ~Held(d) => ~Held(d)'
           /\ client[d] = "gone" => client'[d] = "gone" /\ asked'[d] = asked[d] /\ got'[d] = got[d]
<1>1. TypeOK /\ Streams /\ Queued /\ Before(d) BY DEF IInv, SocketInv
<1>2. CASE UNCHANGED vars
  BY <1>2 DEF vars, childVars, clientVars, streamVars, Held, InBacklog, Alive
<1>3. CASE ParentStep
  <2>1. UNCHANGED <<client, asked, got, torn>> BY <1>1, <1>3, ParentEffects
  <2>2. ~Held(d) => ~Held(d)'
    <3>1. CASE UNCHANGED child /\ backlog' \in {backlog, <<>>}
      BY <3>1 DEF Held, InBacklog, Alive
    <3>2. CASE /\ backlog # <<>> /\ backlog' = Tail(backlog)
               /\ child' = [child EXCEPT ![Head(backlog)] = "serve"]
      <4>1. /\ 1 \in DOMAIN backlog /\ Head(backlog) = backlog[1]
            /\ \A i \in DOMAIN backlog' : i + 1 \in DOMAIN backlog /\ backlog'[i] = backlog[i + 1]
        BY <1>1, <3>2, BacklogFacts
      <4>2. ~InBacklog(d) => d # Head(backlog) /\ ~InBacklog(d)' BY <4>1 DEF InBacklog
      <4>3. d # Head(backlog) => child'[d] = child[d] BY <1>1, <3>2 DEF TypeOK
      <4>4. QED BY <4>2, <4>3 DEF Held, Alive
    <3>3. QED BY <1>1, <1>3, <3>1, <3>2, ParentEffects
  <2>3. QED BY <2>1, <2>2
<1>4. ASSUME NEW c \in Client, StepOf(c)
      PROVE  /\ d \in torn => d \in torn'
             /\ client[d] \in {"ready", "wait"} /\ ~Held(d) => ~Held(d)'
             /\ client[d] = "gone" => client'[d] = "gone" /\ asked'[d] = asked[d] /\ got'[d] = got[d]
  <2>1. d \in torn => d \in torn'
    BY <1>4 DEF StepOf, ChildWorks, ChildLeaves, ClientLeaves, Receive, Answer, AnswerNobody,
       AnswerGarbage, Served, ReceiveNothing, Exit, ChildDies, ChildEnds, TakeNothing, send_exit,
       Leave, ClientEnds, ipc_connect, ipc_send, Take, streamVars
  <2>2. client[d] = "gone" => client'[d] = "gone" /\ asked'[d] = asked[d] /\ got'[d] = got[d]
    <3>1. CASE d # c BY <1>1, <1>4, <3>1, OthersSame DEF Same
    <3>2. CASE d = c
      BY <1>1, <1>4, <3>2 DEF StepOf, ChildWorks, ChildLeaves, ClientLeaves, Receive, Answer,
         AnswerNobody, AnswerGarbage, Served, ReceiveNothing, Exit, ChildDies, ChildEnds, TakeNothing,
         send_exit, Leave, ipc_connect, ipc_send, Take, clientVars
    <3>3. QED BY <3>1, <3>2
  <2>3. ~Alive(d) => ~Alive(d)'
    <3>1. CASE d # c BY <1>1, <1>4, <3>1, OthersSame DEF Same, Alive
    <3>2. CASE d = c
      BY <1>1, <1>4, <3>2 DEF StepOf, ChildWorks, ChildLeaves, ClientLeaves, Receive, Answer,
         AnswerNobody, AnswerGarbage, ReceiveNothing, Exit, ChildDies, ChildEnds, TakeNothing,
         send_exit, Leave, ClientEnds, ipc_connect, ipc_send, Take, childVars, ChildAt, Alive, TypeOK
    <3>3. QED BY <3>1, <3>2
  <2>4. client[d] \in {"ready", "wait"} /\ ~InBacklog(d) => ~InBacklog(d)'
    <3>1. CASE backlog' = backlog \/ backlog' = <<>> BY <3>1 DEF InBacklog
    <3>2. CASE ipc_connect(c)
      <4>1. CASE d = c BY <3>2, <4>1 DEF ipc_connect
      <4>2. CASE d # c /\ backlog' = Append(backlog, c)
        <5>. DEFINE n == Len(backlog) + 1
        <5>1. /\ backlog'[n] = c /\ DOMAIN backlog' = DOMAIN backlog \cup {n}
              /\ \A i \in DOMAIN backlog : backlog'[i] = backlog[i]
          BY <1>1, <4>2, BacklogFacts
        <5>. HIDE DEF n
        <5>2. QED BY <4>2, <5>1 DEF InBacklog
      <4>3. QED BY <3>1, <3>2, <4>1, <4>2 DEF ipc_connect
    <3>3. CASE ~ipc_connect(c)
      BY <1>4, <3>1, <3>3 DEF StepOf, ChildWorks, ChildLeaves, ClientLeaves, Receive, Answer,
         AnswerNobody, AnswerGarbage, Served, ReceiveNothing, Exit, ChildDies, ChildEnds, KeepBacklog,
         TakeNothing, send_exit, Leave, ClientEnds, ipc_send, Take
    <3>4. QED BY <3>2, <3>3
  <2>5. QED BY <2>1, <2>2, <2>3, <2>4 DEF Held
<1>5. QED BY <1>2, <1>3, <1>4, NextCases

\* What is lost stays lost until the client ends.
LEMMA LostGrows ==
    ASSUME IInv, [Next]_vars, NEW d \in Client, Lost(d), client'[d] # "gone"
    PROVE  Lost(d)'
<1>1. TypeOK /\ Streams BY DEF IInv, SocketInv
<1>2. CASE d \in torn BY <1>2, LostStays DEF Lost
<1>3. CASE client[d] \in {"ready", "wait"} /\ ~Held(d)
  <2>1. ~Held(d)' BY <1>3, LostStays
  <2>2. client'[d] \in {"ready", "wait"}
    <3>1. CASE UNCHANGED client BY <1>3, <3>1
    <3>2. ASSUME NEW c \in Client, StepOf(c) PROVE client'[d] \in {"ready", "wait"}
      <4>1. CASE d # c BY <1>1, <1>3, <3>2, <4>1, OthersSame DEF Same
      <4>2. CASE d = c
        BY <1>1, <1>3, <3>2, <4>2 DEF StepOf, ChildWorks, ChildLeaves, ClientLeaves, Receive, Answer,
           AnswerNobody, AnswerGarbage, Served, ReceiveNothing, Exit, ChildDies, ChildEnds, TakeNothing,
           send_exit, Leave, ClientEnds, ClientAt, ipc_connect, ipc_send, Take, clientVars, TypeOK
      <4>3. QED BY <4>1, <4>2
    <3>3. QED BY <1>1, <3>1, <3>2, NextCases, ParentEffects DEF vars, clientVars
  <2>3. QED BY <2>1, <2>2 DEF Lost, Held
<1>4. QED BY <1>2, <1>3 DEF Lost, Held

\* A step after which the place of a client that is not lost is what it was.
LEMMA StaysOrDrops ==
    ASSUME IInv, IInv', [Next]_vars, NEW d \in Client,
           \/ client'[d] = client[d] /\ asked'[d] = asked[d] /\ got'[d] = got[d]
           \/ client[d] = "start" /\ client'[d] = "refused" /\ asked'[d] = asked[d] /\ got'[d] = got[d]
           \/ client[d] # "gone" /\ (client'[d] = "gone" \/ Lost(d) \/ Lost(d)')
    PROVE  Keeps(d) \/ Drops(d)
<1>1. TypeOK /\ TypeOK' BY DEF IInv, SocketInv
<1>2. /\ Phase(d) = PhaseIs(client[d], Lost(d))
      /\ Phase(d)' = PhaseIs(client'[d], Lost(d)')
  BY <1>1, PhaseCases
<1>3. CASE client[d] = "gone"
  <2>1. client'[d] = "gone" /\ asked'[d] = asked[d] /\ got'[d] = got[d] BY <1>3, LostStays
  <2>2. Heard(d)' = Heard(d) BY <2>1 DEF Heard
  <2>3. QED BY <1>2, <1>3, <2>1, <2>2 DEF Keeps, PhaseIs
<1>4. CASE client[d] # "gone" /\ client'[d] = "gone" BY <1>2, <1>4 DEF Drops, PhaseIs
<1>5. CASE client[d] # "gone" /\ client'[d] # "gone" /\ (Lost(d) \/ Lost(d)')
  <2>1. Lost(d)' BY <1>5, LostGrows
  <2>2. QED BY <1>2, <1>5, <2>1 DEF Drops, PhaseIs
<1>6. CASE client[d] # "gone" /\ client'[d] # "gone" /\ ~Lost(d) /\ ~Lost(d)'
  <2>1. asked'[d] = asked[d] /\ got'[d] = got[d] BY <1>6
  <2>2. Heard(d)' = Heard(d) BY <2>1 DEF Heard
  <2>3. Phase(d)' = Phase(d) BY <1>2, <1>6 DEF PhaseIs
  <2>4. QED BY <2>1, <2>2, <2>3 DEF Keeps
<1>7. QED BY <1>3, <1>4, <1>5, <1>6

\* A step of one client that leaves the other connections where they are.
LEMMA OthersKeep ==
    ASSUME IInv, IInv', NEW c \in Client, StepOf(c), NEW d \in Client, d # c,
           InBacklog(d)' <=> InBacklog(d)
    PROVE  Keeps(d)
<1>1. TypeOK /\ TypeOK' /\ Streams BY DEF IInv, SocketInv
<1>2. Same(d) BY <1>1, OthersSame
<1>3. Lost(d)' <=> Lost(d) BY <1>2 DEF Same, Lost, Alive
<1>4. Phase(d)' = Phase(d) BY <1>1, <1>2, <1>3, PhaseCases DEF Same, PhaseIs
<1>5. QED BY <1>2, <1>4 DEF Same, Keeps, Heard

\* ipc_connect is Connect of the service, if somebody listens.
LEMMA ConnectIsConnect ==
    ASSUME IInv, IInv', [Next]_vars, NEW c \in Client, ipc_connect(c)
    PROVE  S!Loss \/ S!Connect(c)
<1>1. TypeOK /\ TypeOK' /\ Queued /\ Before(c) BY DEF IInv, SocketInv
<1>2. StepOf(c) BY DEF StepOf
<1>3. /\ client[c] = "start" /\ UNCHANGED <<child, asked, got, torn>> /\ client'[c] \in {"ready", "refused"}
      /\ \/ backlog' = backlog /\ client'[c] = "refused"
         \/ backlog' = Append(backlog, c) /\ client'[c] = "ready"
  BY <1>1 DEF ipc_connect, ClientAt, childVars, streamVars, TypeOK
<1>4. CASE backlog' = backlog /\ client'[c] = "refused"
  <2>1. \A d \in Client : d # c => Keeps(d) BY <1>2, <1>4, OthersKeep DEF InBacklog
  <2>2. Keeps(c) \/ Drops(c) BY <1>3, <1>4, StaysOrDrops
  <2>3. QED BY <2>1, <2>2, LossStep
<1>5. CASE backlog' = Append(backlog, c) /\ client'[c] = "ready"
  <2>. DEFINE n == Len(backlog) + 1
  <2>1. /\ n \in DOMAIN backlog' /\ backlog'[n] = c /\ DOMAIN backlog' = DOMAIN backlog \cup {n}
        /\ \A i \in DOMAIN backlog : backlog'[i] = backlog[i]
    BY <1>1, <1>5, BacklogFacts
  <2>. HIDE DEF n
  <2>2. InBacklog(c)' BY <2>1 DEF InBacklog
  <2>3. \A d \in Client : d # c => (InBacklog(d)' <=> InBacklog(d)) BY <2>1 DEF InBacklog
  <2>4. \A d \in Client : d # c => Keeps(d) BY <1>2, <2>3, OthersKeep
  <2>5. ~Lost(c) /\ ~Lost(c)' BY <1>1, <1>3, <2>2 DEF Lost, Before
  <2>6. Phase(c) = "out" /\ Phase(c)' = "idle" BY <1>1, <1>3, <1>5, <2>5, PhaseCases DEF PhaseIs
  <2>7. Heard(c)' = Heard(c) BY <1>3 DEF Heard
  <2>8. QED BY <1>3, <2>4, <2>6, <2>7 DEF S!Connect, S!To, Keeps
<1>6. QED BY <1>3, <1>4, <1>5

\* ipc_send is Ask.
LEMMA SendIsAsk ==
    ASSUME IInv, IInv', [Next]_vars, NEW c \in Client, ipc_send(c)
    PROVE  S!Loss \/ S!Ask(c)
<1>1. TypeOK /\ TypeOK' /\ Streams BY DEF IInv, SocketInv
<1>2. StepOf(c) BY DEF StepOf
<1>3. /\ client[c] = "ready" /\ client'[c] = "wait" /\ UNCHANGED <<backlog, child, got, torn>>
      /\ asked' = [asked EXCEPT ![c] = 1 - @]
  BY <1>1 DEF ipc_send, ClientAt, childVars, TypeOK
<1>4. \A d \in Client : d # c => Keeps(d) BY <1>2, <1>3, OthersKeep DEF InBacklog
<1>5. Lost(c)' <=> Lost(c) BY <1>3 DEF Lost, InBacklog, Alive
<1>6. CASE Lost(c)
  <2>1. Keeps(c) \/ Drops(c) BY <1>3, <1>6, StaysOrDrops
  <2>2. QED BY <1>4, <2>1, LossStep
<1>7. CASE ~Lost(c)
  <2>1. Phase(c) = "idle" /\ Phase(c)' = "waiting"
    BY <1>1, <1>3, <1>5, <1>7, PhaseCases DEF PhaseIs
  <2>2. Heard(c)' = Heard(c) BY <1>3 DEF Heard
  <2>3. QED BY <1>3, <1>4, <2>1, <2>2 DEF S!Ask, S!To, Keeps
<1>8. QED BY <1>6, <1>7

\* Take is Take of the service, unless recv tears the answer.
LEMMA TakeIsTake ==
    ASSUME IInv, IInv', [Next]_vars, NEW c \in Client, Take(c)
    PROVE  S!Loss \/ S!Take(c)
<1>1. TypeOK /\ TypeOK' /\ Streams BY DEF IInv, SocketInv
<1>2. StepOf(c) BY DEF StepOf
<1>3. /\ client[c] = "wait" /\ client'[c] = "ready" /\ UNCHANGED <<backlog, child, asked>>
  BY <1>1 DEF Take, ClientAt, childVars, TypeOK
<1>4. \A d \in Client : d # c => Keeps(d) BY <1>2, <1>3, OthersKeep DEF InBacklog
<1>5. CASE Lost(c) \/ Lost(c)'
  <2>1. Keeps(c) \/ Drops(c) BY <1>3, <1>5, StaysOrDrops
  <2>2. QED BY <1>4, <2>1, LossStep
<1>6. CASE ~Lost(c) /\ ~Lost(c)'
  <2>1. Phase(c) = "waiting" /\ Phase(c)' = "idle"
    BY <1>1, <1>3, <1>6, PhaseCases DEF PhaseIs
  <2>2. c \notin torn' BY <1>6 DEF Lost
  <2>3. Heard(c)' = asked[c] BY <2>2, TakeTurn DEF Heard
  <2>4. QED BY <1>3, <1>4, <2>1, <2>3 DEF S!Take, S!To, Keeps
<1>7. QED BY <1>5, <1>6

\* Whatever happens, to every client happens what the service allows.
LEMMA NextIsService ==
    ASSUME IInv, IInv', [Next]_vars
    PROVE  [S!ServiceNext]_(S!serviceVars)
<1>1. TypeOK /\ Streams BY DEF IInv, SocketInv
<1>2. ASSUME UNCHANGED <<client, asked, got>> PROVE S!Loss
  BY <1>2, StaysOrDrops, LossStep
<1>3. CASE ParentStep \/ UNCHANGED vars
  <2>1. UNCHANGED <<client, asked, got>> BY <1>1, <1>3, ParentEffects DEF vars, clientVars
  <2>2. QED BY <1>2, <2>1 DEF S!ServiceNext
<1>4. ASSUME NEW c \in Client, ChildWorks(c) \/ ChildLeaves(c) PROVE S!Loss
  BY <1>2, <1>4 DEF ChildWorks, ChildLeaves, Receive, Answer, AnswerNobody, AnswerGarbage, Served,
     ReceiveNothing, Exit, ChildDies, ChildEnds, clientVars
<1>5. ASSUME NEW c \in Client, ClientLeaves(c) PROVE S!Loss
  <2>1. client[c] # "gone" /\ client'[c] = "gone"
    BY <1>1, <1>5 DEF ClientLeaves, TakeNothing, send_exit, Leave, ClientEnds, ClientAt, TypeOK
  <2>2. \A d \in Client \ {c} : Same(d) BY <1>1, <1>5, OthersSame DEF StepOf
  <2>3. \A d \in Client : Keeps(d) \/ Drops(d) BY <2>1, <2>2, StaysOrDrops DEF Same
  <2>4. QED BY <2>3, LossStep
<1>6. ASSUME NEW c \in Client, ipc_connect(c) \/ ipc_send(c) \/ Take(c)
      PROVE  S!Loss \/ S!Connect(c) \/ S!Ask(c) \/ S!Take(c)
  BY <1>6, ConnectIsConnect, SendIsAsk, TakeIsTake
<1>7. QED BY <1>3, <1>4, <1>5, <1>6, NextCases DEF StepOf, S!ServiceNext

-----------------------------------------------------------------------------
(* The theorems.                                                           *)

\* The first state is one of the invariant, with nobody connected.
LEMMA InitIInv == Init => IInv
<1>. SUFFICES ASSUME Init PROVE IInv
  OBVIOUS
<1>1. Len(<<>>) = 0 /\ <<>> \in Seq(Part) /\ 0 <= Window /\ 0 \in 0..MaxRun BY Sizes0
<1>2. TypeOK BY <1>1, EmptyBacklog, SocketAssumption DEF Init, TypeOK
<1>3. Streams BY <1>1 DEF Init, Streams
<1>4. Queued /\ Framed BY DEF Init, Queued, Framed
<1>5. \A c \in Client : Before(c) /\ Turn(c) BY DEF Init, Before, Turn
<1>6. QED BY <1>2, <1>3, <1>4, <1>5 DEF IInv, SocketInv

\* The invariant holds, whoever sends, ends or is interrupted when.
THEOREM Invariance == Spec => []IInv
<1>1. IInv /\ [Next]_vars => IInv' BY NextIInv
<1>2. QED BY <1>1, InitIInv, PTL DEF Spec

\* Backlog and streams keep to their limits, and as long as the network
\* delivers in one piece, every recv returns one datagram, unless a client was
\* interrupted while an answer was due or a datagram was too long.
THEOREM SocketSafety == Spec => []SocketInv
<1>1. IInv => SocketInv BY DEF IInv
<1>2. QED BY <1>1, Invariance, PTL

\* A child for each client keeps the promise of ipc.h to it.
THEOREM ImplementsService == Spec => RefinesService
<1>1. Init => S!ServiceInit
  <2>1. ASSUME Init, NEW c \in Client PROVE Phase(c) = "out" /\ Heard(c) = 0
    <3>1. client[c] = "start" /\ got[c] = Nothing BY <2>1 DEF Init
    <3>2. ~Lost(c) BY <2>1, <3>1 DEF Init, Lost
    <3>3. QED BY <3>1, <3>2 DEF Phase, Heard, Nothing, Message
  <2>2. QED BY <2>1 DEF Init, S!ServiceInit
<1>2. IInv /\ IInv' /\ [Next]_vars => [S!ServiceNext]_(S!serviceVars) BY NextIsService
<1>3. QED BY <1>1, <1>2, Invariance, PTL DEF Spec, RefinesService, S!ServiceSpec
=============================================================================

---------------------------- MODULE ShmemProofs ----------------------------
(***************************************************************************)
(* The safety properties of Shmem.tla, for any number of clients, of their *)
(* restarts and of children, whatever is undone and whoever is             *)
(* interrupted.                                                            *)
(***************************************************************************)
EXTENDS Shmem, FiniteSetTheorems, TLAPS

-----------------------------------------------------------------------------
(* The inductive invariant, in two parts.  The first holds whatever        *)
(* happens, or as long as no process of the server is interrupted.         *)

\* How many ups each process can have made on a public semaphore, by where it
\* is; and that nobody but the accepting process, which leaves no undo, lowers
\* SEM_SRV_QUEUE.
Ups ==
    /\ \A c \in Client :
          /\ client[c] \in {"down", "stuck", "queue", "step0"} => undo[c]["SEM_CLIENT"].up = 0
          /\ client[c] \in {"ask", "step1"} => undo[c]["SEM_CLIENT"].up <= 1
          /\ client[c] \in {"step2", "key", "wipe", "join", "step3", "abandon"} =>
                undo[c]["SEM_CLIENT"].up <= 2
          /\ undo[c]["SEM_QUEUE"].up <= 1
          /\ client[c] \in Connecting \cup {"down", "abandon"} => undo[c]["SEM_QUEUE"].up = 0
    /\ \A k \in Child :
          /\ undo[k]["SEM_QUEUE"] = NoUndo["SEM_QUEUE"]
          /\ child[k] \in {"none", "step1", "check", "fill", "create", "step2"} =>
                undo[k]["SEM_SERVER"].up = 0
          /\ child[k] \in {"none"} \cup Syncing => undo[k]["SEM_SRV_QUEUE"].up = 0
    /\ \A p \in Process : undo[p]["SEM_SRV_QUEUE"].down = 0

\* The semaphores are there until a process of the server is interrupted.
ServerUp ==
    "server" \notin amiss => sets = {"sync", "queue"} /\ parent # "gone"

\* cli_count is the number of forks.
Forked ==
    /\ \A k \in Child : k > cliCount <=> child[k] = "none"
    /\ parent = "waitsync" => cliCount > 0

\* Only the last child is in the handshake, and only while the server waits for
\* it; SEM_SRV_QUEUE is up only between the two.
Turns ==
    "server" \notin amiss =>
        /\ \A k \in Child : child[k] \in Syncing =>
              k = cliCount /\ parent = "waitsync" /\ sem["SEM_SRV_QUEUE"] = 0
        /\ sem["SEM_SRV_QUEUE"] <= 1
        /\ parent # "waitsync" => sem["SEM_SRV_QUEUE"] = 0

\* A client that ends leaves fewer of them than were started, for ever.  Until
\* one does, who is in the handshake is the only one, and has SEM_QUEUE.
Live == {c \in Client : client[c] # "down"}
Alone(c) ==
    /\ sem["SEM_QUEUE"] = 0
    /\ \A d \in Client : client[d] \in Handshake => d = c
Queue ==
    /\ IsFiniteSet(Live) /\ Cardinality(Live) <= started
    /\ "server" \notin amiss /\ started = Cardinality(Live) =>
        /\ sem["SEM_QUEUE"] <= 1
        /\ \A c \in Client : client[c] \in Handshake => Alone(c)

\* A command is a client's.
Named ==
    \A k \in Child : /\ seen[k].kind = "request" => seen[k].of \in Client
                     /\ priv[k].kind = "request" => priv[k].of \in Client

IInv == TypeOK /\ Named /\ Ups /\ ServerUp /\ Forked /\ Turns /\ Queue

-----------------------------------------------------------------------------
(* Lemmas about the semaphores.                                            *)

UndoOf == [down : Nat, up : 0..MaxUps]
BothSets == {"sync", "queue"}

\* A semaphore by its name.
LEMMA PublicNames ==
    /\ Public = {"SEM_CLIENT", "SEM_SERVER", "SEM_QUEUE", "SEM_SRV_QUEUE"}
    /\ \A s \in Public : SetOf(s) \in BothSets /\ NoUndo[s] = [down |-> 0, up |-> 0]
    /\ \A s \in Public : NoUndo[s] \in UndoOf /\ NoUndo[s].down = 0 /\ NoUndo[s].up = 0
    /\ NoUndo \in [Public -> UndoOf]
    /\ MaxUps = 3
    /\ \A c \in Client : c \in Process
    /\ \A k \in Child : k \in Process /\ k \in Nat /\ k > 0 /\ k <= MaxChild
    /\ \A k \in Child : k \notin Client
BY BoundAssumption, NamesAssumption
   DEF Public, SetOf, BothSets, NoUndo, UndoOf, MaxUps, Process, Child

\* The counters are numbers.
LEMMA Numbers ==
    ASSUME TypeOK
    PROVE  /\ cliCount \in Nat /\ cliCount <= MaxChild /\ MaxChild \in Nat
           /\ started \in Nat /\ started <= MaxStart /\ MaxStart \in Nat
           /\ cliCount > 0 => cliCount \in Child
<1>1. cliCount \in 0..MaxChild /\ started \in 0..MaxStart /\ MaxChild \in Nat /\ MaxStart \in Nat
  BY BoundAssumption DEF TypeOK
<1>2. QED BY <1>1 DEF Child

\* An up of process p.
LEMMA UpFacts ==
    ASSUME TypeOK, NEW p \in Process, NEW s \in Public, sem_up(p, s), undo[p][s].up < MaxUps
    PROVE  /\ sem' \in [Public -> Nat] /\ undo' \in [Process -> [Public -> UndoOf]]
           /\ UNCHANGED <<psem, sets, unheard, amiss>>
           /\ \A t \in Public \ {s} : sem'[t] = sem[t]
           /\ sem'[s] \in {sem[s], sem[s] + 1}
           /\ SetOf(s) \in sets => sem'[s] = sem[s] + 1
           /\ \A q \in Process, t \in Public : q # p \/ t # s => undo'[q][t] = undo[q][t]
           /\ undo'[p][s].up <= undo[p][s].up + 1
           /\ undo'[p][s].down = undo[p][s].down
<1>1. /\ sem \in [Public -> Nat] /\ undo \in [Process -> [Public -> UndoOf]]
      /\ UNCHANGED <<psem, sets, unheard, amiss>>
  BY DEF TypeOK, UndoOf, sem_up, history
<1>2. CASE SetOf(s) \notin sets
  BY <1>1, <1>2 DEF sem_up, UndoOf, MaxUps
<1>3. CASE SetOf(s) \in sets
  <2>1. /\ sem' = [sem EXCEPT ![s] = @ + 1]
        /\ undo' = [undo EXCEPT ![p][s].up = @ + 1]
    BY <1>3 DEF sem_up
  <2>2. undo[p][s] \in UndoOf /\ [undo[p][s] EXCEPT !.up = @ + 1] \in UndoOf
    BY <1>1 DEF UndoOf, MaxUps
  <2>3. undo'[p] = [undo[p] EXCEPT ![s].up = @ + 1] /\ \A q \in Process \ {p} : undo'[q] = undo[q]
    BY <1>1, <2>1
  <2>4. undo'[p][s] = [undo[p][s] EXCEPT !.up = @ + 1]
        /\ \A t \in Public \ {s} : undo'[p][t] = undo[p][t]
    BY <1>1, <2>3
  <2>5. undo' \in [Process -> [Public -> UndoOf]]
    BY <1>1, <2>1, <2>2
  <2>6. undo'[p][s].up = undo[p][s].up + 1 /\ undo'[p][s].down = undo[p][s].down
    BY <2>2, <2>4 DEF UndoOf
  <2>7. QED
    BY <1>1, <1>3, <2>1, <2>2, <2>3, <2>4, <2>5, <2>6 DEF UndoOf
<1>4. QED BY <1>2, <1>3

\* A down of process p.
LEMMA DownFacts ==
    ASSUME TypeOK, NEW p \in Process, NEW s \in Public, sem_down(p, s)
    PROVE  /\ sem' \in [Public -> Nat] /\ undo' \in [Process -> [Public -> UndoOf]]
           /\ UNCHANGED <<psem, sets, unheard, amiss>>
           /\ \A t \in Public \ {s} : sem'[t] = sem[t]
           /\ SetOf(s) \in sets => sem[s] > 0 /\ sem'[s] = sem[s] - 1
           /\ \A q \in Process, t \in Public : q # p \/ t # s => undo'[q][t] = undo[q][t]
           /\ undo'[p][s].up = undo[p][s].up
<1>1. /\ sem \in [Public -> Nat] /\ undo \in [Process -> [Public -> UndoOf]]
      /\ UNCHANGED <<psem, sets, unheard, amiss>>
  BY DEF TypeOK, UndoOf, sem_down, history
<1>2. CASE SetOf(s) \notin sets
  BY <1>1, <1>2 DEF sem_down, UndoOf, MaxUps
<1>3. CASE SetOf(s) \in sets
  <2>1. /\ sem[s] > 0 /\ sem' = [sem EXCEPT ![s] = @ - 1]
        /\ undo' = [undo EXCEPT ![p][s].down = @ + 1]
    BY <1>3 DEF sem_down
  <2>2. undo[p][s] \in UndoOf /\ [undo[p][s] EXCEPT !.down = @ + 1] \in UndoOf
    <3>1. \A r \in UndoOf : r.down \in Nat /\ [r EXCEPT !.down = @ + 1] \in UndoOf
      BY DEF UndoOf
    <3>2. QED BY <1>1, <3>1
  <2>3. undo'[p] = [undo[p] EXCEPT ![s].down = @ + 1] /\ \A q \in Process \ {p} : undo'[q] = undo[q]
    BY <1>1, <2>1
  <2>4. undo'[p][s] = [undo[p][s] EXCEPT !.down = @ + 1]
        /\ \A t \in Public \ {s} : undo'[p][t] = undo[p][t]
    BY <1>1, <2>3
  <2>5. undo' \in [Process -> [Public -> UndoOf]]
    BY <1>1, <2>1, <2>2
  <2>6. undo'[p][s].up = undo[p][s].up
    BY <2>2, <2>4 DEF UndoOf
  <2>7. sem' \in [Public -> Nat] /\ sem'[s] = sem[s] - 1 /\ \A t \in Public \ {s} : sem'[t] = sem[t]
    BY <1>1, <2>1
  <2>8. QED
    BY <1>1, <1>3, <2>1, <2>2, <2>3, <2>4, <2>5, <2>6, <2>7
<1>4. QED BY <1>2, <1>3

\* A down of the accepting process.
LEMMA ServerDownFacts ==
    ASSUME TypeOK, NEW s \in Public, ServerDown(s)
    PROVE  /\ sem' \in [Public -> Nat]
           /\ UNCHANGED <<psem, undo, sets, unheard, amiss>>
           /\ \A t \in Public \ {s} : sem'[t] = sem[t]
           /\ SetOf(s) \in sets => sem[s] > 0 /\ sem'[s] = sem[s] - 1
<1>1. sem \in [Public -> Nat] /\ UNCHANGED <<psem, undo, sets, unheard, amiss>>
  BY DEF TypeOK, ServerDown, history
<1>2. CASE SetOf(s) \notin sets
  BY <1>1, <1>2 DEF ServerDown
<1>3. CASE SetOf(s) \in sets
  <2>1. sem[s] > 0 /\ sem' = [sem EXCEPT ![s] = @ - 1]
    BY <1>3 DEF ServerDown
  <2>2. sem[s] - 1 \in Nat /\ sem'[s] = sem[s] - 1
    BY <1>1, <2>1
  <2>3. QED BY <1>1, <2>1, <2>2
<1>4. QED BY <1>2, <1>3

\* SETVAL.
LEMMA SetFacts ==
    ASSUME TypeOK, NEW s \in Public, sem_set(s, 0)
    PROVE  /\ sem' \in [Public -> Nat] /\ undo' \in [Process -> [Public -> UndoOf]]
           /\ UNCHANGED <<psem, sets, unheard, amiss>>
           /\ \A t \in Public \ {s} : sem'[t] = sem[t]
           /\ SetOf(s) \in sets => sem'[s] = 0
           /\ \A q \in Process, t \in Public \ {s} : undo'[q][t] = undo[q][t]
           /\ \A q \in Process : undo'[q][s] \in {undo[q][s], NoUndo[s]}
           /\ SetOf(s) \in sets => \A q \in Process : undo'[q][s] = NoUndo[s]
<1>1. /\ sem \in [Public -> Nat] /\ undo \in [Process -> [Public -> UndoOf]]
      /\ UNCHANGED <<psem, sets, unheard, amiss>>
  BY DEF TypeOK, UndoOf, sem_set, history
<1>2. CASE SetOf(s) \notin sets
  BY <1>1, <1>2 DEF sem_set
<1>3. CASE SetOf(s) \in sets
  <2>1. /\ sem' = [sem EXCEPT ![s] = 0]
        /\ undo' = [p \in Process |-> [undo[p] EXCEPT ![s] = NoUndo[s]]]
    BY <1>3 DEF sem_set
  <2>2. \A p \in Process : [undo[p] EXCEPT ![s] = NoUndo[s]] \in [Public -> UndoOf]
    BY <1>1, PublicNames
  <2>3. undo' \in [Process -> [Public -> UndoOf]]
    BY <2>1, <2>2
  <2>4. QED
    BY <1>1, <1>3, <2>1, <2>3
<1>4. QED BY <1>2, <1>3

\* The end of process p.
LEMMA UndoneFacts ==
    ASSUME TypeOK, NEW p \in Process, NEW removed, NEW why \in SUBSET {"client", "server", "undo"},
           Undone(p, removed, why)
    PROVE  /\ sem' \in [Public -> Nat] /\ undo' \in [Process -> [Public -> UndoOf]]
           /\ sets' = sets \ removed
           /\ undo'[p] = NoUndo
           /\ \A q \in Process \ {p}, t \in Public : undo'[q][t] \in {undo[q][t], NoUndo[t]}
           /\ sets' = BothSets =>
                 /\ \A q \in Process \ {p}, t \in Public : undo'[q][t] = undo[q][t]
                 /\ \A t \in Public :
                       /\ sem'[t] <= sem[t] + undo[p][t].down
                       /\ sem'[t] >= sem[t] + undo[p][t].down - undo[p][t].up
           /\ amiss \subseteq amiss' /\ why \subseteq amiss'
           /\ amiss' \subseteq {"client", "server", "undo"}
<1>1. /\ sem \in [Public -> Nat] /\ undo \in [Process -> [Public -> UndoOf]]
      /\ amiss \subseteq {"client", "server", "undo"}
  BY DEF TypeOK, UndoOf
<1>2. /\ sets' = sets \ removed
      /\ undo' = [q \in Process |-> IF q = p THEN NoUndo ELSE Kept(undo[q], sets')]
  BY DEF Undone
<1>3. \A q \in Process : /\ Kept(undo[q], sets') \in [Public -> UndoOf]
                         /\ \A t \in Public : Kept(undo[q], sets')[t] =
                               IF SetOf(t) \in sets' THEN undo[q][t] ELSE NoUndo[t]
  BY <1>1, PublicNames DEF Kept
<1>4. /\ undo' \in [Process -> [Public -> UndoOf]]
      /\ undo'[p] = NoUndo
      /\ \A q \in Process \ {p}, t \in Public : undo'[q][t] \in {undo[q][t], NoUndo[t]}
      /\ sets' = BothSets => \A q \in Process \ {p}, t \in Public : undo'[q][t] = undo[q][t]
  <2>1. \A q \in Process : undo'[q] = IF q = p THEN NoUndo ELSE Kept(undo[q], sets')
    BY <1>2
  <2>2. undo' \in [Process -> [Public -> UndoOf]]
    <3>1. \A q \in Process : undo'[q] \in [Public -> UndoOf]
      BY <1>3, <2>1, PublicNames
    <3>2. QED BY <1>2, <3>1
  <2>3. undo'[p] = NoUndo
    BY <2>1
  <2>4. ASSUME NEW q \in Process \ {p}, NEW t \in Public
        PROVE  undo'[q][t] = IF SetOf(t) \in sets' THEN undo[q][t] ELSE NoUndo[t]
    BY <1>3, <2>1
  <2>5. sets' = BothSets => \A t \in Public : SetOf(t) \in sets'
    BY PublicNames
  <2>6. QED BY <2>2, <2>3, <2>4, <2>5
<1>5. PICK n : /\ \A i \in Public : n[i] \in 0..undo[p][i].up
               /\ sem' = [i \in Public |->
                           IF SetOf(i) \in sets'
                           THEN AtLeastZero(sem[i] + undo[p][i].down - n[i]) ELSE 0]
               /\ Disturb(why \cup {w \in {"undo"} : \E i \in Public : n[i] > 0})
  <2>1. \A i \in Public : 0 \in 0..undo[p][i].up
    BY <1>1 DEF UndoOf
  <2>. DEFINE Up(i) == IF p \in Flagged /\ SetOf(i) \in sets' THEN 0..undo[p][i].up ELSE {0}
  <2>2. PICK c \in Up("SEM_CLIENT"), s \in Up("SEM_SERVER"),
             q \in Up("SEM_QUEUE"), r \in Up("SEM_SRV_QUEUE") :
             LET n == [SEM_CLIENT |-> c, SEM_SERVER |-> s, SEM_QUEUE |-> q, SEM_SRV_QUEUE |-> r]
             IN /\ sem' = [i \in Public |->
                            IF SetOf(i) \in sets'
                            THEN AtLeastZero(sem[i] + undo[p][i].down - n[i]) ELSE 0]
                /\ Disturb(why \cup {w \in {"undo"} : \E i \in Public : n[i] > 0})
    BY DEF Undone
  <2>. DEFINE n == [SEM_CLIENT |-> c, SEM_SERVER |-> s, SEM_QUEUE |-> q, SEM_SRV_QUEUE |-> r]
  <2>3. \A i \in Public : Up(i) \subseteq 0..undo[p][i].up
    BY <2>1
  <2>4. /\ n["SEM_CLIENT"] \in 0..undo[p]["SEM_CLIENT"].up
        /\ n["SEM_SERVER"] \in 0..undo[p]["SEM_SERVER"].up
        /\ n["SEM_QUEUE"] \in 0..undo[p]["SEM_QUEUE"].up
        /\ n["SEM_SRV_QUEUE"] \in 0..undo[p]["SEM_SRV_QUEUE"].up
    BY <2>2, <2>3, PublicNames
  <2>5. \A i \in Public : n[i] \in 0..undo[p][i].up
    BY <2>4 DEF Public
  <2>6. QED BY <2>2, <2>5
<1>6. \A i \in Public : undo[p][i].down \in Nat /\ undo[p][i].up \in Nat /\ n[i] \in Nat
                        /\ sem[i] \in Nat /\ n[i] <= undo[p][i].up
  BY <1>1, <1>5 DEF UndoOf
<1>7. sem' \in [Public -> Nat]
  BY <1>5, <1>6 DEF AtLeastZero
<1>8. \A t \in Public : sets' = BothSets =>
         /\ sem'[t] <= sem[t] + undo[p][t].down
         /\ sem'[t] >= sem[t] + undo[p][t].down - undo[p][t].up
  BY <1>5, <1>6, PublicNames DEF AtLeastZero
<1>9. /\ amiss \subseteq amiss' /\ why \subseteq amiss'
      /\ amiss' \subseteq {"client", "server", "undo"}
  BY <1>1, <1>5 DEF Disturb
<1>10. QED BY <1>2, <1>4, <1>7, <1>8, <1>9

-----------------------------------------------------------------------------
(* Types, and the count of the ups.                                        *)

ChildLabels == Syncing \cup {"none", "serve", "copy", "execute", "answer", "gone"}
ClientLabels == Connecting \cup Connected \cup {"down", "exit", "abandon", "end", "end of input"}

\* The labels, as sets of strings.
LEMMA Labels ==
    /\ Syncing = {"step1", "check", "fill", "create", "step2", "step3", "synced"}
    /\ Handshake = {"step0", "ask", "step1", "step2", "key", "wipe", "join", "step3", "release"}
    /\ Connecting = {"stuck", "queue"} \cup Handshake
    /\ Connected = {"step3", "release", "ready", "send", "wait"}
BY DEF Syncing, Handshake, Connecting, Connected

\* The accepting process.
LEMMA ServerTypes ==
    ASSUME TypeOK, Ups, Forked, ServerStep \/ int_handler
    PROVE  TypeOK' /\ Ups'
<1>. USE PublicNames
<1>1. ASSUME NEW s \in {"SEM_CLIENT", "SEM_SERVER"}, sem_set(s, 0),
             UNCHANGED <<cliCount, child, seen, clientVars, memoryVars>>,
             parent' \in {"resetServer", "accept"}
      PROVE  TypeOK' /\ Ups'
  <2>1. /\ sem' \in [Public -> Nat] /\ undo' \in [Process -> [Public -> UndoOf]]
        /\ UNCHANGED <<psem, sets, unheard, amiss>>
        /\ \A q \in Process, t \in Public : undo'[q][t] \in {undo[q][t], NoUndo[t]}
    BY <1>1, SetFacts
  <2>2. TypeOK'
    BY <1>1, <2>1 DEF TypeOK, UndoOf, clientVars, memoryVars
  <2>3. Ups'
    BY <1>1, <2>1 DEF Ups, clientVars, Syncing, Connecting
  <2>4. QED BY <2>2, <2>3
<1>2. CASE ResetClient \/ ResetServer
  BY <1>1, <1>2 DEF ResetClient, ResetServer, ServerAt
<1>3. CASE Accept
  <2>1. /\ sem' \in [Public -> Nat] /\ UNCHANGED <<psem, undo, sets, unheard, amiss>>
    BY <1>3, ServerDownFacts DEF Accept
  <2>2. /\ cliCount' = cliCount + 1 /\ cliCount' \in Child
        /\ child' = [child EXCEPT ![cliCount'] = "step1"]
        /\ parent' = "waitsync" /\ UNCHANGED <<seen, clientVars, memoryVars>>
    <3>1. /\ cliCount < MaxChild /\ cliCount' = cliCount + 1
          /\ child' = [child EXCEPT ![cliCount'] = "step1"]
          /\ parent' = "waitsync" /\ UNCHANGED <<seen, clientVars, memoryVars>>
      BY <1>3 DEF Accept, ServerAt, ChildAt
    <3>2. cliCount \in 0..MaxChild /\ MaxChild \in Nat
      BY BoundAssumption DEF TypeOK
    <3>3. cliCount + 1 \in 1..MaxChild
      BY <3>1, <3>2
    <3>4. QED BY <3>1, <3>3 DEF Child
  <2>3. TypeOK'
    <3>1. cliCount' \in 0..MaxChild
      BY <2>2 DEF Child
    <3>2. child' \in [Child -> ChildLabels]
      BY <2>2 DEF TypeOK, ChildLabels, Syncing
    <3>3. QED
      BY <2>1, <2>2, <3>1, <3>2 DEF TypeOK, UndoOf, clientVars, memoryVars, ChildLabels
  <2>4. Ups'
    <3>. SUFFICES ASSUME NEW k \in Child
         PROVE  /\ child'[k] \in {"none", "step1", "check", "fill", "create", "step2"} =>
                      undo[k]["SEM_SERVER"].up = 0
                /\ child'[k] \in {"none"} \cup Syncing => undo[k]["SEM_SRV_QUEUE"].up = 0
      BY <2>1, <2>2 DEF Ups, clientVars
    <3>1. CASE k # cliCount'
      BY <3>1, <2>2 DEF TypeOK, Ups
    <3>2. CASE k = cliCount'
      <4>1. child[k] = "none"
        <5>1. cliCount \in Nat /\ cliCount' > cliCount
          BY <2>2, Numbers
        <5>2. QED BY <3>2, <5>1 DEF Forked
      <4>2. QED BY <4>1 DEF Ups
    <3>3. QED BY <3>1, <3>2
  <2>5. QED BY <2>3, <2>4
<1>4. CASE WaitSync
  <2>1. /\ sem' \in [Public -> Nat] /\ UNCHANGED <<psem, undo, sets, unheard, amiss>>
    BY <1>4, ServerDownFacts DEF WaitSync
  <2>2. /\ parent' = "resetClient" /\ UNCHANGED <<cliCount, child, seen, clientVars, memoryVars>>
    BY <1>4 DEF WaitSync, ServerAt
  <2>3. TypeOK'
    BY <2>1, <2>2 DEF TypeOK, UndoOf, clientVars, memoryVars
  <2>4. Ups'
    BY <2>1, <2>2 DEF Ups, clientVars
  <2>5. QED BY <2>3, <2>4
<1>5. CASE int_handler
  <2>1. /\ parent' = "gone" /\ sets' = {} /\ sem' = [s \in Public |-> 0]
        /\ undo' = [p \in Process |-> NoUndo]
        /\ amiss' = amiss \cup {"server"}
        /\ UNCHANGED <<cliCount, child, seen, clientVars, memoryVars, psem, unheard>>
    BY <1>5 DEF int_handler, Disturb, ServerAt
  <2>2. /\ undo' \in [Process -> [Public -> UndoOf]]
        /\ \A q \in Process, t \in Public : undo'[q][t] = NoUndo[t]
    BY <2>1
  <2>3. TypeOK'
    BY <2>1, <2>2 DEF TypeOK, UndoOf, clientVars, memoryVars
  <2>4. Ups'
    BY <2>1, <2>2 DEF Ups, clientVars
  <2>5. QED BY <2>3, <2>4
<1>6. QED BY <1>2, <1>3, <1>4, <1>5 DEF ServerStep

\* The ends of a process: what is undone, and how the ups are counted after it.
LEMMA EndTypes ==
    ASSUME TypeOK, Ups, NEW p \in Process, NEW removed,
           NEW why \in SUBSET {"client", "server", "undo"}, Undone(p, removed, why),
           \/ p \in Child /\ child' = [child EXCEPT ![p] = "gone"] /\ UNCHANGED client
           \/ p \in Client /\ client' = [client EXCEPT ![p] = "down"] /\ UNCHANGED child
    PROVE  /\ Ups'
           /\ sem' \in [Public -> Nat] /\ undo' \in [Process -> [Public -> UndoOf]]
           /\ sets' \subseteq {"sync", "queue"} /\ amiss' \subseteq {"client", "server", "undo"}
           /\ child' \in [Child -> ChildLabels] /\ client' \in [Client -> ClientLabels]
<1>. USE PublicNames
<1>1. /\ sem' \in [Public -> Nat] /\ undo' \in [Process -> [Public -> UndoOf]]
      /\ sets' = sets \ removed
      /\ \A q \in Process, t \in Public : undo'[q][t] \in {undo[q][t], NoUndo[t]}
      /\ \A t \in Public : undo'[p][t] = NoUndo[t]
      /\ amiss' \subseteq {"client", "server", "undo"}
  BY UndoneFacts
<1>2. /\ child \in [Child -> ChildLabels] /\ client \in [Client -> ClientLabels]
      /\ sets \subseteq {"sync", "queue"}
  BY DEF TypeOK, ChildLabels, ClientLabels
<1>3. child' \in [Child -> ChildLabels] /\ client' \in [Client -> ClientLabels]
  BY <1>2 DEF ChildLabels, ClientLabels
<1>4. /\ \A c \in Client : c # p => client'[c] = client[c]
      /\ \A k \in Child : k # p => child'[k] = child[k]
  BY <1>2
<1>5. Ups'
  <2>1. \A q \in Process : undo'[q]["SEM_SRV_QUEUE"].down = 0
    BY <1>1 DEF Ups
  <2>2. ASSUME NEW c \in Client
        PROVE  /\ client'[c] \in {"down", "stuck", "queue", "step0"} => undo'[c]["SEM_CLIENT"].up = 0
               /\ client'[c] \in {"ask", "step1"} => undo'[c]["SEM_CLIENT"].up <= 1
               /\ client'[c] \in {"step2", "key", "wipe", "join", "step3", "abandon"} =>
                     undo'[c]["SEM_CLIENT"].up <= 2
               /\ undo'[c]["SEM_QUEUE"].up <= 1
               /\ client'[c] \in Connecting \cup {"down", "abandon"} => undo'[c]["SEM_QUEUE"].up = 0
    <3>1. CASE c # p
      BY <3>1, <1>1, <1>4 DEF Ups
    <3>2. CASE c = p
      BY <3>2, <1>1
    <3>3. QED BY <3>1, <3>2
  <2>3. ASSUME NEW k \in Child
        PROVE  /\ undo'[k]["SEM_QUEUE"] = NoUndo["SEM_QUEUE"]
               /\ child'[k] \in {"none", "step1", "check", "fill", "create", "step2"} =>
                     undo'[k]["SEM_SERVER"].up = 0
               /\ child'[k] \in {"none"} \cup Syncing => undo'[k]["SEM_SRV_QUEUE"].up = 0
    <3>1. CASE k # p
      BY <3>1, <1>1, <1>4 DEF Ups
    <3>2. CASE k = p
      BY <3>2, <1>1
    <3>3. QED BY <3>1, <3>2
  <2>4. QED BY <2>1, <2>2, <2>3 DEF Ups
<1>6. QED BY <1>1, <1>2, <1>3, <1>5

\* A child: its steps, and its ends.
ChildWorks(k) ==
    \/ Wake(k) \/ CheckConnect(k) \/ FillKey(k) \/ Create(k)
    \/ WakeClient(k) \/ WaitAttach(k) \/ Synced(k)
    \/ TakeRequest(k) \/ CopyRequest(k) \/ Answer(k) \/ SendAnswer(k)
    \/ AnswerTooLong(k) \/ Ignore(k)
ChildEnds(k) == SyncError(k) \/ ChildFails(k) \/ ChildExits(k) \/ int_handler_child(k)

\* Messages have their type, field by field.
LEMMA MessageTypes ==
    /\ Zeroed \in Messages
    /\ \A kind \in {"request", "answer", "exit"}, c \in Client \cup {Nobody} :
          Message(kind, c) \in Messages
    /\ \A m \in Messages : m.kind \in {"zero", "request", "answer", "exit"} /\ m.of \in Client \cup {Nobody}
    /\ Blank \in [opcode : {"zero", "connect", "exit"}, key : Keys]
BY DEF Zeroed, Message, Messages, Nobody, Blank, Keys

\* What a step of a child does to anything but the memory.
LEMMA ChildEffects ==
    ASSUME TypeOK, Ups, NEW k \in Child, ChildWorks(k)
    PROVE  /\ UNCHANGED <<parent, cliCount, client, key, got, started, sets, amiss>>
           /\ sem' \in [Public -> Nat] /\ undo' \in [Process -> [Public -> UndoOf]]
           /\ \A q \in Process \ {k} : \A t \in Public : undo'[q][t] = undo[q][t]
           /\ undo'[k]["SEM_QUEUE"] = undo[k]["SEM_QUEUE"]
           /\ undo'[k]["SEM_SRV_QUEUE"].down = undo[k]["SEM_SRV_QUEUE"].down
           /\ undo'[k]["SEM_SERVER"].up = undo[k]["SEM_SERVER"].up \/ child'[k] = "step3"
           /\ undo'[k]["SEM_SRV_QUEUE"].up = undo[k]["SEM_SRV_QUEUE"].up \/ child'[k] = "serve"
           /\ sem'["SEM_QUEUE"] = sem["SEM_QUEUE"]
           /\ sem'["SEM_SRV_QUEUE"] = sem["SEM_SRV_QUEUE"] \/ Synced(k)
           /\ child' = [child EXCEPT ![k] = child'[k]]
           /\ child'[k] \in ChildLabels \ {"none"}
           /\ child[k] \in ChildLabels \ {"none"}
           /\ child'[k] \in Syncing => child[k] \in Syncing
           /\ child'[k] \in {"step1", "check", "fill", "create", "step2"} =>
                 child[k] \in {"step1", "check", "fill", "create", "step2"}
<1>. USE PublicNames, Labels
<1>0. /\ child \in [Child -> ChildLabels] /\ sem \in [Public -> Nat]
      /\ undo \in [Process -> [Public -> UndoOf]]
  BY DEF TypeOK, ChildLabels, UndoOf
<1>1. CASE Wake(k) \/ WaitAttach(k)
  <2>1. /\ sem_down(k, "SEM_CLIENT")
        /\ UNCHANGED <<parent, cliCount, client, key, got, started>>
        /\ \/ child[k] = "step1" /\ child' = [child EXCEPT ![k] = "check"]
           \/ child[k] = "step3" /\ child' = [child EXCEPT ![k] = "synced"]
    BY <1>1 DEF Wake, WaitAttach, ChildAt, clientVars
  <2>2. QED BY <1>0, <2>1, DownFacts DEF ChildLabels
<1>2. CASE WakeClient(k)
  <2>1. /\ sem_up(k, "SEM_SERVER")
        /\ UNCHANGED <<parent, cliCount, client, key, got, started>>
        /\ child[k] = "step2" /\ child' = [child EXCEPT ![k] = "step3"]
    BY <1>2 DEF WakeClient, ChildAt, clientVars
  <2>2. undo[k]["SEM_SERVER"].up < MaxUps BY <2>1 DEF Ups
  <2>3. QED BY <1>0, <2>1, <2>2, UpFacts DEF ChildLabels
<1>3. CASE Synced(k)
  <2>1. /\ sem_up(k, "SEM_SRV_QUEUE")
        /\ UNCHANGED <<parent, cliCount, client, key, got, started>>
        /\ child[k] = "synced" /\ child' = [child EXCEPT ![k] = "serve"]
    BY <1>3 DEF Synced, ChildAt, clientVars
  <2>2. undo[k]["SEM_SRV_QUEUE"].up < MaxUps BY <2>1 DEF Ups
  <2>3. QED BY <1>0, <1>3, <2>1, <2>2, UpFacts DEF ChildLabels
<1>4. CASE \/ CheckConnect(k) \/ FillKey(k) \/ Create(k) \/ TakeRequest(k) \/ CopyRequest(k)
           \/ Answer(k) \/ SendAnswer(k) \/ AnswerTooLong(k) \/ Ignore(k)
  <2>1. /\ UNCHANGED <<parent, cliCount, client, key, got, started, sets, amiss, sem, undo>>
        /\ \/ child[k] = "check" /\ child' = [child EXCEPT ![k] = "fill"]
           \/ child[k] = "fill" /\ child' = [child EXCEPT ![k] = "create"]
           \/ child[k] = "create" /\ child' = [child EXCEPT ![k] = "step2"]
           \/ child[k] = "serve" /\ child' = [child EXCEPT ![k] = "copy"]
           \/ child[k] = "copy" /\ child' = [child EXCEPT ![k] = "execute"]
           \/ child[k] = "execute" /\ child' = [child EXCEPT ![k] = "answer"]
           \/ child[k] = "answer" /\ child' = [child EXCEPT ![k] = "serve"]
           \/ child[k] = "execute" /\ child' = [child EXCEPT ![k] = "serve"]
    BY <1>4 DEF CheckConnect, FillKey, Create, TakeRequest, CopyRequest, Answer, SendAnswer,
                AnswerTooLong, Ignore, ChildAt, clientVars, still, semVars, history,
                PrivDown, PrivUp
  <2>2. QED BY <1>0, <2>1 DEF ChildLabels
<1>5. QED BY <1>1, <1>2, <1>3, <1>4 DEF ChildWorks

\* What the end of a child does to anything but the memory: only SIGINT removes
\* semaphores.
LEMMA ChildEndEffects ==
    ASSUME TypeOK, NEW k \in Child, ChildEnds(k)
    PROVE  /\ UNCHANGED <<parent, cliCount, seen, client, key, got, started, pub, priv, psem, unheard>>
           /\ child[k] \notin {"none", "gone"} /\ child' = [child EXCEPT ![k] = "gone"]
           /\ there' \in {there, there \ {k}}
           /\ \/ Undone(k, {}, {})
              \/ Undone(k, {"queue"}, {"server"})
              \/ Undone(k, {"sync", "queue"}, {"server"})
BY DEF ChildEnds, SyncError, ChildFails, ChildExits, int_handler_child, ChildDies, ChildAt,
       clientVars, memoryVars

\* The types of the processes of the server.
LEMMA ChildTypes ==
    ASSUME TypeOK, Named, Ups, NEW k \in Child, ChildWorks(k) \/ ChildEnds(k)
    PROVE  TypeOK' /\ Ups'
<1>. USE PublicNames
<1>0. /\ child \in [Child -> ChildLabels] /\ seen \in [Child -> Messages]
      /\ pub \in [opcode : {"zero", "connect", "exit"}, key : Keys]
      /\ priv \in [Child -> Messages] /\ psem \in [Child -> [Private -> Nat]]
      /\ there \subseteq Child /\ unheard \subseteq Client
  BY DEF TypeOK, ChildLabels
<1>1. CASE ChildWorks(k)
  <2>1. /\ UNCHANGED <<parent, cliCount, client, key, got, started, sets, amiss>>
        /\ sem' \in [Public -> Nat] /\ undo' \in [Process -> [Public -> UndoOf]]
        /\ child' = [child EXCEPT ![k] = child'[k]] /\ child'[k] \in ChildLabels
    BY <1>1, ChildEffects
  <2>1a. child' \in [Child -> ChildLabels]
    <3>. DEFINE l == child'[k]
    <3>1. child' = [child EXCEPT ![k] = l] /\ l \in ChildLabels BY <2>1
    <3>2. HIDE DEF l
    <3>3. QED BY <1>0, <3>1
  <2>2. /\ seen' \in [Child -> Messages] /\ priv' \in [Child -> Messages]
        /\ pub' \in [opcode : {"zero", "connect", "exit"}, key : Keys]
        /\ psem' \in [Child -> [Private -> Nat]]
        /\ there' \subseteq Child /\ unheard' \subseteq Client
    <3>1. CASE Wake(k) \/ WaitAttach(k) \/ WakeClient(k) \/ Synced(k) \/ CheckConnect(k) \/ Ignore(k)
      BY <1>0, <3>1 DEF Wake, WaitAttach, WakeClient, Synced, CheckConnect, Ignore, sem_up, sem_down,
                        memoryVars, still, semVars, history
    <3>2. CASE FillKey(k)
      <4>1. k \in Keys BY DEF Keys
      <4>2. QED BY <1>0, <3>2, <4>1 DEF FillKey, still, semVars, history
    <3>3. CASE Create(k)
      <4>1. [s \in Private |-> 0] \in [Private -> Nat] OBVIOUS
      <4>2. QED BY <1>0, <3>3, <4>1, MessageTypes DEF Create, history
    <3>4. CASE TakeRequest(k) \/ SendAnswer(k)
      <4>1. psem[k] \in [Private -> Nat] BY <1>0
      <4>2. \A s \in Private : /\ [psem[k] EXCEPT ![s] = @ + 1] \in [Private -> Nat]
                               /\ psem[k][s] > 0 => [psem[k] EXCEPT ![s] = @ - 1] \in [Private -> Nat]
        BY <4>1
      <4>3. psem' \in [Child -> [Private -> Nat]]
        BY <1>0, <3>4, <4>2 DEF TakeRequest, SendAnswer, PrivDown, PrivUp, Private
      <4>4. QED BY <1>0, <3>4, <4>3 DEF TakeRequest, SendAnswer, PrivDown, PrivUp, memoryVars, history
    <3>5. CASE CopyRequest(k)
      BY <1>0, <3>5 DEF CopyRequest, memoryVars, still, semVars, history
    <3>6. CASE Answer(k)
      <4>1. Message("answer", seen[k].of) \in Messages
        BY <1>0, MessageTypes
      <4>2. QED BY <1>0, <3>6, <4>1 DEF Answer, still, semVars, history
    <3>7. CASE AnswerTooLong(k)
      <4>1. seen[k].of \in Client
        BY <3>7 DEF AnswerTooLong, Named
      <4>2. QED BY <1>0, <3>7, <4>1 DEF AnswerTooLong, memoryVars, semVars
    <3>8. QED BY <1>1, <3>1, <3>2, <3>3, <3>4, <3>5, <3>6, <3>7 DEF ChildWorks
  <2>3. TypeOK'
    BY <2>1, <2>1a, <2>2 DEF TypeOK, ChildLabels, UndoOf
  <2>4. Ups'
    <3>1. \A c \in Client : \A t \in Public : undo'[c][t] = undo[c][t]
      BY <1>1, ChildEffects
    <3>2. \A p \in Process : undo'[p]["SEM_SRV_QUEUE"].down = 0
      BY <1>1, ChildEffects DEF Ups
    <3>3. ASSUME NEW j \in Child
          PROVE  /\ undo'[j]["SEM_QUEUE"] = NoUndo["SEM_QUEUE"]
                 /\ child'[j] \in {"none", "step1", "check", "fill", "create", "step2"} =>
                       undo'[j]["SEM_SERVER"].up = 0
                 /\ child'[j] \in {"none"} \cup Syncing => undo'[j]["SEM_SRV_QUEUE"].up = 0
      <4>1. CASE j # k
        <5>1. child'[j] = child[j] /\ \A t \in Public : undo'[j][t] = undo[j][t]
          BY <4>1, <1>0, <1>1, ChildEffects
        <5>2. QED BY <5>1 DEF Ups
      <4>2. CASE j = k
        BY <4>2, <1>1, ChildEffects, Labels DEF Ups
      <4>3. QED BY <4>1, <4>2
    <3>4. QED BY <2>1, <3>1, <3>2, <3>3 DEF Ups
  <2>5. QED BY <2>3, <2>4
<1>2. CASE ChildEnds(k)
  <2>1. /\ Ups' /\ sem' \in [Public -> Nat] /\ undo' \in [Process -> [Public -> UndoOf]]
        /\ sets' \subseteq {"sync", "queue"} /\ amiss' \subseteq {"client", "server", "undo"}
        /\ child' \in [Child -> ChildLabels] /\ client' \in [Client -> ClientLabels]
    BY <1>2, ChildEndEffects, EndTypes
  <2>2. /\ UNCHANGED <<parent, cliCount, seen, client, key, got, started, pub, priv, psem, unheard>>
        /\ there' \subseteq Child
    BY <1>0, <1>2, ChildEndEffects
  <2>3. TypeOK'
    BY <2>1, <2>2 DEF TypeOK, ChildLabels, UndoOf
  <2>4. QED BY <2>1, <2>3
<1>3. QED BY <1>1, <1>2
-----------------------------------------------------------------------------
(* The steps of a client.                                                  *)

ClientWorks(c) ==
    \/ ConnectStep(c) \/ Sent(c) \/ TakeAnswer(c) \/ ExitSent(c) \/ Abandoned(c)
    \/ Send(c) \/ SendTooLong(c) \/ Exit(c) \/ EndOfInput(c) \/ int_handler_client(c) \/ Abandon(c)
ClientEnds(c) == End(c) \/ Crash(c)

\* Where a client goes, and which semaphore it uses on the way.
Walks(c) ==
    \/ client[c] = "ask" /\ ClientAt(c, "step1")
    \/ client[c] = "key" /\ ClientAt(c, "wipe")
    \/ client[c] = "wipe" /\ ClientAt(c, "join")
    \/ client[c] = "join" /\ ClientAt(c, "step3")
    \/ client[c] = "ready" /\ ClientAt(c, "send")
    \/ client[c] = "ready" /\ ClientAt(c, "wait")
    \/ client[c] = "ready" /\ ClientAt(c, "end of input")
    \/ client[c] = "send" /\ ClientAt(c, "wait")
    \/ client[c] = "wait" /\ ClientAt(c, "ready")
    \/ client[c] \in Connected /\ ClientAt(c, "exit")
    \/ client[c] = "exit" /\ ClientAt(c, "end")
    \/ client[c] \in Connecting \ {"join", "step3", "release"} /\ ClientAt(c, "abandon")
Moves(c) ==
    \/ client[c] = "queue" /\ sem_down(c, "SEM_QUEUE") /\ ClientAt(c, "step0")
    \/ client[c] = "step0" /\ sem_up(c, "SEM_CLIENT") /\ ClientAt(c, "ask")
    \/ client[c] = "step1" /\ sem_up(c, "SEM_CLIENT") /\ ClientAt(c, "step2")
    \/ client[c] = "step2" /\ sem_down(c, "SEM_SERVER") /\ ClientAt(c, "key")
    \/ client[c] = "step3" /\ sem_up(c, "SEM_CLIENT") /\ ClientAt(c, "release")
    \/ client[c] = "release" /\ sem_up(c, "SEM_QUEUE") /\ ClientAt(c, "ready")
    \/ client[c] = "abandon" /\ sem_up(c, "SEM_CLIENT") /\ ClientAt(c, "end")
    \/ Walks(c) /\ UNCHANGED <<sem, undo>>

\* Every step of a client but its end is one of these, and leaves the server and
\* the sets of semaphores alone.
LEMMA ClientMoves ==
    ASSUME TypeOK, NEW c \in Client, ClientWorks(c)
    PROVE  /\ UNCHANGED <<serverVars, started, there, sets>>
           /\ amiss \subseteq amiss' /\ amiss' \subseteq amiss \cup {"client"}
           /\ Moves(c)
<1>1. CASE ConnectStep(c)
  <2>1. CASE PassQueue(c) \/ WakeServer(c) \/ WakeChild(c) \/ WaitKey(c) \/ Attached(c) \/ FreeQueue(c)
    BY <2>1 DEF Moves, PassQueue, WakeServer, WakeChild, WaitKey, Attached, FreeQueue, sem_up, sem_down,
                history, serverVars, memoryVars
  <2>2. CASE Ask(c) \/ TakeKey(c) \/ Wipe(c) \/ Join(c)
    BY <2>2 DEF Moves, Walks, Ask, TakeKey, Wipe, Join, still, semVars, history, serverVars, memoryVars
  <2>3. QED BY <1>1, <2>1, <2>2 DEF ConnectStep
<1>2. CASE Abandoned(c)
  BY <1>2 DEF Moves, Abandoned, sem_up, history, serverVars, memoryVars
<1>3. CASE Sent(c) \/ TakeAnswer(c) \/ ExitSent(c)
  BY <1>3 DEF Moves, Walks, Sent, TakeAnswer, ExitSent, SignalServer, PrivUp, PrivDown, still, semVars,
              history, serverVars, memoryVars
<1>4. CASE Send(c) \/ SendTooLong(c) \/ EndOfInput(c)
  BY <1>4 DEF Moves, Walks, Send, SendTooLong, EndOfInput, still, semVars, history, serverVars, memoryVars
<1>5. CASE Exit(c) \/ int_handler_client(c) \/ Abandon(c)
  BY <1>5 DEF Moves, Walks, Exit, int_handler_client, Abandon, send_exit, Connected, Disturb, semVars,
              serverVars
<1>6. QED BY <1>1, <1>2, <1>3, <1>4, <1>5 DEF ClientWorks

\* What a step of a client does to the public semaphores, and its count of ups.
ClientUps(c) ==
    /\ client'[c] \in {"down", "stuck", "queue", "step0"} => undo'[c]["SEM_CLIENT"].up = 0
    /\ client'[c] \in {"ask", "step1"} => undo'[c]["SEM_CLIENT"].up <= 1
    /\ client'[c] \in {"step2", "key", "wipe", "join", "step3", "abandon"} =>
          undo'[c]["SEM_CLIENT"].up <= 2
    /\ undo'[c]["SEM_QUEUE"].up <= 1
    /\ client'[c] \in Connecting \cup {"down", "abandon"} => undo'[c]["SEM_QUEUE"].up = 0
InTheQueue(c) ==
    \/ /\ client[c] = "queue" /\ client'[c] = "step0"
       /\ SetOf("SEM_QUEUE") \in sets =>
             sem["SEM_QUEUE"] > 0 /\ sem'["SEM_QUEUE"] = sem["SEM_QUEUE"] - 1
    \/ /\ client[c] = "release" /\ client'[c] = "ready"
       /\ sem'["SEM_QUEUE"] \in {sem["SEM_QUEUE"], sem["SEM_QUEUE"] + 1}
    \/ /\ sem'["SEM_QUEUE"] = sem["SEM_QUEUE"]
       /\ client'[c] \in Handshake => client[c] \in Handshake
SemaphoresOf(c) ==
    /\ sem' \in [Public -> Nat] /\ undo' \in [Process -> [Public -> UndoOf]]
    /\ \A q \in Process \ {c} : \A t \in Public : undo'[q][t] = undo[q][t]
    /\ sem'["SEM_SRV_QUEUE"] = sem["SEM_SRV_QUEUE"]
    /\ undo'[c]["SEM_SRV_QUEUE"].down = 0
LabelsOf(c) ==
    /\ client' \in [Client -> ClientLabels] /\ \A d \in Client \ {c} : client'[d] = client[d]
    /\ client[c] # "down" /\ client'[c] # "down"

\* What a step of a client does to the semaphores and to the labels.
LEMMA ClientEffects ==
    ASSUME TypeOK, Ups, NEW c \in Client, ClientWorks(c)
    PROVE  SemaphoresOf(c) /\ LabelsOf(c) /\ InTheQueue(c) /\ ClientUps(c)
<1>. USE PublicNames
<1>1. /\ client \in [Client -> ClientLabels] /\ sem \in [Public -> Nat]
      /\ undo \in [Process -> [Public -> UndoOf]]
      /\ undo[c]["SEM_SRV_QUEUE"].down = 0
  BY DEF TypeOK, ClientLabels, UndoOf, Ups
<1>2. \A t \in Public : undo[c][t].up \in Nat
  <2>1. \A r \in UndoOf : r.up \in Nat BY DEF UndoOf
  <2>2. QED BY <1>1, <2>1
<1>3. ASSUME NEW l \in ClientLabels, ClientAt(c, l)
      PROVE  /\ client' \in [Client -> ClientLabels] /\ client'[c] = l
             /\ \A d \in Client \ {c} : client'[d] = client[d]
  BY <1>1, <1>3 DEF ClientAt
<1>4. {"step0", "ask", "step1", "step2", "key", "wipe", "join", "step3", "release", "ready", "send",
       "wait", "end of input", "exit", "end", "abandon"} \subseteq ClientLabels
  BY Labels DEF ClientLabels
<1>5. CASE client[c] = "queue" /\ sem_down(c, "SEM_QUEUE") /\ ClientAt(c, "step0")
  <2>1. LabelsOf(c) /\ client'[c] = "step0"
    BY <1>5, <1>3, <1>4 DEF LabelsOf
  <2>3. SemaphoresOf(c)
    BY <1>1, <1>5, DownFacts DEF SemaphoresOf
  <2>4. InTheQueue(c)
    BY <1>1, <1>5, <2>1, DownFacts, Labels DEF InTheQueue
  <2>5. ClientUps(c)
    BY <1>1, <1>2, <1>5, <2>1, DownFacts, Labels DEF ClientUps, Ups
  <2>6. QED BY <2>1, <2>3, <2>4, <2>5
<1>6. CASE client[c] = "step2" /\ sem_down(c, "SEM_SERVER") /\ ClientAt(c, "key")
  <2>1. LabelsOf(c) /\ client'[c] = "key"
    BY <1>6, <1>3, <1>4 DEF LabelsOf
  <2>3. SemaphoresOf(c)
    BY <1>1, <1>6, DownFacts DEF SemaphoresOf
  <2>4. InTheQueue(c)
    BY <1>1, <1>6, <2>1, DownFacts, Labels DEF InTheQueue
  <2>5. ClientUps(c)
    BY <1>1, <1>2, <1>6, <2>1, DownFacts, Labels DEF ClientUps, Ups
  <2>6. QED BY <2>1, <2>3, <2>4, <2>5
<1>7. CASE client[c] = "step0" /\ sem_up(c, "SEM_CLIENT") /\ ClientAt(c, "ask")
  <2>1. LabelsOf(c) /\ client'[c] = "ask"
    BY <1>7, <1>3, <1>4 DEF LabelsOf
  <2>2. undo[c]["SEM_CLIENT"].up = 0
    BY <1>7 DEF Ups
  <2>3. SemaphoresOf(c)
    BY <1>1, <1>7, <1>2, <2>2, UpFacts DEF SemaphoresOf
  <2>4. InTheQueue(c)
    BY <1>1, <1>7, <2>1, <1>2, <2>2, UpFacts, Labels DEF InTheQueue
  <2>5. ClientUps(c)
    BY <1>1, <1>2, <1>7, <2>1, <2>2, UpFacts, Labels DEF ClientUps, Ups
  <2>6. QED BY <2>1, <2>3, <2>4, <2>5
<1>8. CASE client[c] = "step1" /\ sem_up(c, "SEM_CLIENT") /\ ClientAt(c, "step2")
  <2>1. LabelsOf(c) /\ client'[c] = "step2"
    BY <1>8, <1>3, <1>4 DEF LabelsOf
  <2>2. undo[c]["SEM_CLIENT"].up <= 1
    BY <1>8 DEF Ups
  <2>3. SemaphoresOf(c)
    BY <1>1, <1>8, <1>2, <2>2, UpFacts DEF SemaphoresOf
  <2>4. InTheQueue(c)
    BY <1>1, <1>8, <2>1, <1>2, <2>2, UpFacts, Labels DEF InTheQueue
  <2>5. ClientUps(c)
    <3>1. undo'[c]["SEM_CLIENT"].up <= undo[c]["SEM_CLIENT"].up + 1
          /\ undo'[c]["SEM_QUEUE"] = undo[c]["SEM_QUEUE"]
      BY <1>2, <1>8, <2>2, UpFacts
    <3>2. undo'[c]["SEM_CLIENT"].up \in Nat /\ undo[c]["SEM_QUEUE"].up = 0
      BY <1>8, <2>3, Labels DEF SemaphoresOf, UndoOf, Ups
    <3>3. undo'[c]["SEM_CLIENT"].up <= 2
      BY <1>2, <2>2, <3>1, <3>2
    <3>4. QED BY <2>1, <3>1, <3>2, <3>3 DEF ClientUps
  <2>6. QED BY <2>1, <2>3, <2>4, <2>5
<1>9. CASE client[c] = "step3" /\ sem_up(c, "SEM_CLIENT") /\ ClientAt(c, "release")
  <2>1. LabelsOf(c) /\ client'[c] = "release"
    BY <1>9, <1>3, <1>4 DEF LabelsOf
  <2>2. undo[c]["SEM_CLIENT"].up <= 2
    BY <1>9 DEF Ups
  <2>3. SemaphoresOf(c)
    BY <1>1, <1>9, <1>2, <2>2, UpFacts DEF SemaphoresOf
  <2>4. InTheQueue(c)
    BY <1>1, <1>9, <2>1, <1>2, <2>2, UpFacts, Labels DEF InTheQueue
  <2>5. ClientUps(c)
    BY <1>1, <1>2, <1>9, <2>1, <2>2, UpFacts, Labels DEF ClientUps, Ups
  <2>6. QED BY <2>1, <2>3, <2>4, <2>5
<1>10. CASE client[c] = "release" /\ sem_up(c, "SEM_QUEUE") /\ ClientAt(c, "ready")
  <2>1. LabelsOf(c) /\ client'[c] = "ready"
    BY <1>10, <1>3, <1>4 DEF LabelsOf
  <2>2. undo[c]["SEM_QUEUE"].up = 0
    BY <1>10, Labels DEF Ups
  <2>3. SemaphoresOf(c)
    BY <1>1, <1>10, <1>2, <2>2, UpFacts DEF SemaphoresOf
  <2>4. InTheQueue(c)
    BY <1>1, <1>10, <2>1, <1>2, <2>2, UpFacts, Labels DEF InTheQueue
  <2>5. ClientUps(c)
    BY <1>1, <1>2, <1>10, <2>1, <2>2, UpFacts, Labels DEF ClientUps, Ups
  <2>6. QED BY <2>1, <2>3, <2>4, <2>5
<1>11. CASE client[c] = "abandon" /\ sem_up(c, "SEM_CLIENT") /\ ClientAt(c, "end")
  <2>1. LabelsOf(c) /\ client'[c] = "end"
    BY <1>11, <1>3, <1>4 DEF LabelsOf
  <2>2. undo[c]["SEM_CLIENT"].up <= 2
    BY <1>11 DEF Ups
  <2>3. SemaphoresOf(c)
    BY <1>1, <1>11, <1>2, <2>2, UpFacts DEF SemaphoresOf
  <2>4. InTheQueue(c)
    BY <1>1, <1>11, <2>1, <1>2, <2>2, UpFacts, Labels DEF InTheQueue
  <2>5. ClientUps(c)
    BY <1>1, <1>2, <1>11, <2>1, <2>2, UpFacts, Labels DEF ClientUps, Ups
  <2>6. QED BY <2>1, <2>3, <2>4, <2>5
<1>12. CASE Walks(c) /\ UNCHANGED <<sem, undo>>
  <2>1. LabelsOf(c)
    BY <1>12, <1>3, <1>4, Labels DEF LabelsOf, Walks
  <2>2. SemaphoresOf(c)
    BY <1>1, <1>12 DEF SemaphoresOf
  <2>3. InTheQueue(c)
    BY <1>12, <1>3, <1>4, Labels DEF InTheQueue, Walks
  <2>4. ClientUps(c)
    <3>1. /\ undo'[c]["SEM_CLIENT"].up = undo[c]["SEM_CLIENT"].up
          /\ undo'[c]["SEM_QUEUE"].up = undo[c]["SEM_QUEUE"].up
          /\ undo[c]["SEM_QUEUE"].up <= 1
      BY <1>12 DEF Ups
    <3>2. CASE client[c] = "ask" /\ client'[c] = "step1"
      BY <3>1, <3>2, Labels DEF ClientUps, Ups
    <3>3. CASE /\ client[c] \in {"key", "wipe", "join"}
               /\ client'[c] \in {"wipe", "join", "step3"}
      BY <3>1, <3>3, Labels DEF ClientUps, Ups
    <3>4. CASE client'[c] \in {"ready", "send", "wait", "end of input", "exit", "end"}
      BY <3>1, <3>4, Labels DEF ClientUps
    <3>5. CASE /\ client[c] \in {"stuck", "queue", "step0", "ask", "step1", "step2", "key", "wipe"}
               /\ client'[c] = "abandon"
      <4>1. undo[c]["SEM_CLIENT"].up <= 2 /\ undo[c]["SEM_QUEUE"].up = 0
        BY <1>2, <3>5, Labels DEF Ups
      <4>2. QED BY <3>1, <3>5, <4>1 DEF ClientUps
    <3>6. QED BY <1>12, <1>3, <1>4, <3>2, <3>3, <3>4, <3>5, Labels DEF Walks
  <2>5. QED BY <2>1, <2>2, <2>3, <2>4
<1>13. QED
  BY <1>5, <1>6, <1>7, <1>8, <1>9, <1>10, <1>11, <1>12, ClientMoves DEF Moves

\* The memory a client writes keeps its types, and a command its client.
LEMMA ClientMemory ==
    ASSUME TypeOK, Named, NEW c \in Client, ClientWorks(c)
    PROVE  /\ key' \in [Client -> Keys] /\ got' \in [Client -> Messages]
           /\ pub' \in [opcode : {"zero", "connect", "exit"}, key : Keys]
           /\ priv' \in [Child -> Messages] /\ psem' \in [Child -> [Private -> Nat]]
           /\ unheard' \subseteq Client
           /\ \A k \in Child : priv'[k].kind = "request" => priv'[k].of \in Client
<1>. USE PublicNames
<1>0. /\ key \in [Client -> Keys] /\ got \in [Client -> Messages]
      /\ pub \in [opcode : {"zero", "connect", "exit"}, key : Keys]
      /\ priv \in [Child -> Messages] /\ psem \in [Child -> [Private -> Nat]]
      /\ there \subseteq Child /\ unheard \subseteq Client
      /\ \A k \in Child : priv[k].kind = "request" => priv[k].of \in Client
  BY DEF TypeOK, Named
<1>1. CASE PassQueue(c) \/ WakeServer(c) \/ WakeChild(c) \/ WaitKey(c) \/ Attached(c) \/ FreeQueue(c)
           \/ Abandoned(c) \/ EndOfInput(c)
  BY <1>0, <1>1 DEF PassQueue, WakeServer, WakeChild, WaitKey, Attached, FreeQueue, Abandoned,
                    EndOfInput, sem_up, sem_down, still, semVars, history, memoryVars
<1>2. CASE Ask(c) \/ Wipe(c) \/ TakeKey(c) \/ Abandon(c)
  <2>1. {0, Garbage} \subseteq Keys BY DEF Keys
  <2>2. pub' \in [opcode : {"zero", "connect", "exit"}, key : Keys] /\ key' \in [Client -> Keys]
    BY <1>0, <1>2, <2>1, MessageTypes DEF Ask, Wipe, TakeKey, Abandon, memoryVars
  <2>3. QED BY <1>0, <1>2, <2>2 DEF Ask, Wipe, TakeKey, Abandon, still, semVars, history, memoryVars
<1>3. CASE Join(c)
  <2>1. priv' \in [Child -> Messages]
        /\ \A k \in Child : priv'[k].kind = "request" => priv'[k].of \in Client
    BY <1>0, <1>3, MessageTypes DEF Join, Zeroed, Message
  <2>2. QED BY <1>0, <1>3, <2>1 DEF Join, still, semVars, history
<1>4. ASSUME NEW m \in Messages, InSegment(c, m), m.of \in Client
      PROVE  /\ priv' \in [Child -> Messages]
             /\ \A k \in Child : priv'[k].kind = "request" => priv'[k].of \in Client
  BY <1>0, <1>4 DEF InSegment
<1>5. CASE Send(c) \/ Exit(c) \/ int_handler_client(c)
  <2>1. /\ Message("request", c) \in Messages /\ Message("request", c).of \in Client
        /\ Message("exit", c) \in Messages /\ Message("exit", c).of \in Client
    BY MessageTypes DEF Message
  <2>2. InSegment(c, Message("request", c)) \/ InSegment(c, Message("exit", c))
    BY <1>5 DEF Send, Exit, int_handler_client, send_exit
  <2>3. QED BY <1>0, <1>4, <1>5, <2>1, <2>2 DEF Send, Exit, int_handler_client, send_exit,
              still, semVars, history
<1>6. CASE SendTooLong(c)
  BY <1>0, <1>6 DEF SendTooLong, memoryVars, semVars
<1>7. ASSUME NEW k \in Child, NEW s \in Private, PrivUp(k, s) \/ PrivDown(k, s)
      PROVE  psem' \in [Child -> [Private -> Nat]] /\ UNCHANGED unheard
  <2>1. psem[k] \in [Private -> Nat] BY <1>0
  <2>2. /\ [psem[k] EXCEPT ![s] = @ + 1] \in [Private -> Nat]
        /\ psem[k][s] > 0 => [psem[k] EXCEPT ![s] = @ - 1] \in [Private -> Nat]
    BY <2>1
  <2>3. QED BY <1>0, <1>7, <2>2 DEF PrivUp, PrivDown, history
<1>8. CASE Sent(c) \/ ExitSent(c)
  <2>1. psem' \in [Child -> [Private -> Nat]] /\ UNCHANGED unheard
    BY <1>0, <1>7, <1>8 DEF Sent, ExitSent, SignalServer, still, semVars, history, Private
  <2>2. QED BY <1>0, <1>8, <2>1 DEF Sent, ExitSent, memoryVars
<1>9. CASE TakeAnswer(c)
  <2>1. psem' \in [Child -> [Private -> Nat]] /\ UNCHANGED unheard
    BY <1>0, <1>7, <1>9 DEF TakeAnswer, still, semVars, history, Private
  <2>2. got' \in [Client -> Messages]
    BY <1>0, <1>9 DEF TakeAnswer
  <2>3. QED BY <1>0, <1>9, <2>1, <2>2 DEF TakeAnswer, memoryVars
<1>10. QED
  BY <1>1, <1>2, <1>3, <1>5, <1>6, <1>8, <1>9 DEF ClientWorks, ConnectStep

\* What the end of a client does to anything but the semaphores.
LEMMA ClientEndEffects ==
    ASSUME TypeOK, NEW c \in Client, ClientEnds(c)
    PROVE  /\ UNCHANGED <<parent, cliCount, child, seen, key, got, started, pub, priv, there, unheard>>
           /\ client[c] # "down" /\ client' = [client EXCEPT ![c] = "down"]
           /\ \E why \in SUBSET {"client", "server", "undo"} : Undone(c, {}, why)
           /\ psem' \in [Child -> [Private -> Nat]]
           /\ \/ UNCHANGED psem
              \/ \E n \in Nat : /\ key[c] \in there /\ n <= psem[key[c]]["SEM_CLIENT"]
                                /\ psem' = [psem EXCEPT ![key[c]]["SEM_CLIENT"] = n]
<1>1. PICK why \in SUBSET {"client"} : ClientDies(c, why)
  BY DEF ClientEnds, End, Crash
<1>2. /\ UNCHANGED <<parent, cliCount, child, seen, key, got, started, pub, priv, there, unheard>>
      /\ client' = [client EXCEPT ![c] = "down"]
  BY <1>1 DEF ClientDies, ClientAt, serverVars, memoryVars
<1>3. client[c] # "down"
  BY DEF ClientEnds, End, Crash
<1>4. psem \in [Child -> [Private -> Nat]] /\ there \subseteq Child
  BY DEF TypeOK
<1>5. CASE UNCHANGED psem /\ Undone(c, {}, why)
  BY <1>2, <1>3, <1>4, <1>5
<1>6. ASSUME key[c] \in there, NEW left \in 0..psem[key[c]]["SEM_CLIENT"],
             psem' = [psem EXCEPT ![key[c]]["SEM_CLIENT"] = left],
             Undone(c, {}, why \cup {w \in {"undo"} : psem' # psem})
      PROVE  /\ \E w \in SUBSET {"client", "server", "undo"} : Undone(c, {}, w)
             /\ psem' \in [Child -> [Private -> Nat]]
             /\ \E n \in Nat : /\ key[c] \in there /\ n <= psem[key[c]]["SEM_CLIENT"]
                               /\ psem' = [psem EXCEPT ![key[c]]["SEM_CLIENT"] = n]
  <2>1. psem[key[c]] \in [Private -> Nat] /\ psem[key[c]]["SEM_CLIENT"] \in Nat
    BY <1>4, <1>6 DEF Private
  <2>2. left \in Nat /\ left <= psem[key[c]]["SEM_CLIENT"]
    BY <2>1
  <2>3. [psem[key[c]] EXCEPT !["SEM_CLIENT"] = left] \in [Private -> Nat]
    BY <2>1, <2>2
  <2>4. psem' \in [Child -> [Private -> Nat]]
    BY <1>4, <1>6, <2>3
  <2>5. (why \cup {w \in {"undo"} : psem' # psem}) \in SUBSET {"client", "server", "undo"}
    OBVIOUS
  <2>6. QED BY <1>6, <2>2, <2>4, <2>5
<1>7. QED
  BY <1>1, <1>2, <1>3, <1>5, <1>6 DEF ClientDies

\* The types of the clients.
LEMMA ClientTypes ==
    ASSUME TypeOK, Named, Ups, NEW c \in Client, ClientWorks(c) \/ ClientEnds(c) \/ Attach(c)
    PROVE  TypeOK' /\ Ups'
<1>. USE PublicNames
<1>1. CASE ClientWorks(c)
  <2>1. /\ SemaphoresOf(c) /\ LabelsOf(c) /\ ClientUps(c)
        /\ UNCHANGED <<parent, cliCount, child, seen, started, there, sets>>
        /\ amiss' \subseteq amiss \cup {"client"}
    BY <1>1, ClientEffects, ClientMoves DEF serverVars
  <2>2. TypeOK'
    BY <1>1, <2>1, ClientMemory DEF TypeOK, SemaphoresOf, LabelsOf, ClientLabels, UndoOf
  <2>3. Ups'
    <3>1. ASSUME NEW d \in Client \ {c}
          PROVE  client'[d] = client[d] /\ \A t \in Public : undo'[d][t] = undo[d][t]
      BY <2>1 DEF SemaphoresOf, LabelsOf
    <3>2. \A k \in Child : \A t \in Public : undo'[k][t] = undo[k][t]
      BY <2>1 DEF SemaphoresOf
    <3>3. \A p \in Process : undo'[p]["SEM_SRV_QUEUE"].down = 0
      BY <2>1 DEF SemaphoresOf, Ups
    <3>4. ASSUME NEW d \in Client PROVE ClientUps(d)
      BY <2>1, <3>1 DEF ClientUps, Ups
    <3>5. QED BY <2>1, <3>2, <3>3, <3>4 DEF Ups, ClientUps
  <2>4. QED BY <2>2, <2>3
<1>2. CASE ClientEnds(c)
  <2>1. PICK why \in SUBSET {"client", "server", "undo"} : Undone(c, {}, why)
    BY <1>2, ClientEndEffects
  <2>2. /\ Ups' /\ sem' \in [Public -> Nat] /\ undo' \in [Process -> [Public -> UndoOf]]
        /\ sets' \subseteq {"sync", "queue"} /\ amiss' \subseteq {"client", "server", "undo"}
        /\ child' \in [Child -> ChildLabels] /\ client' \in [Client -> ClientLabels]
    BY <1>2, <2>1, ClientEndEffects, EndTypes
  <2>3. /\ UNCHANGED <<parent, cliCount, child, seen, key, got, started, pub, priv, there, unheard>>
        /\ psem' \in [Child -> [Private -> Nat]]
    BY <1>2, ClientEndEffects
  <2>4. TypeOK'
    BY <2>2, <2>3 DEF TypeOK, ClientLabels, UndoOf
  <2>5. QED BY <2>2, <2>4
<1>3. CASE Attach(c)
  <2>1. /\ client[c] = "down" /\ started < MaxStart /\ started' = started + 1
        /\ pub' = Blank
        /\ \E l \in {"queue", "stuck"} : client' = [client EXCEPT ![c] = l]
        /\ key' = [key EXCEPT ![c] = 0]
        /\ got' = [got EXCEPT ![c] = Zeroed]
        /\ unheard' = unheard \ {c}
        /\ amiss' \subseteq amiss \cup {"client"}
        /\ UNCHANGED <<parent, cliCount, child, seen, priv, there, sets, sem, psem, undo>>
    BY <1>3 DEF Attach, ClientAt, Disturb, serverVars, semVars
  <2>2. started' \in 0..MaxStart
    BY <2>1, Numbers
  <2>3. key' \in [Client -> Keys] /\ got' \in [Client -> Messages]
        /\ client' \in [Client -> ClientLabels]
    <3>1. {"queue", "stuck"} \subseteq ClientLabels /\ 0 \in Keys
      BY Labels DEF ClientLabels, Keys
    <3>2. client \in [Client -> ClientLabels] /\ key \in [Client -> Keys] /\ got \in [Client -> Messages]
      BY DEF TypeOK, ClientLabels
    <3>3. QED BY <2>1, <3>1, <3>2, MessageTypes
  <2>4. TypeOK'
    BY <2>1, <2>2, <2>3, MessageTypes DEF TypeOK, ClientLabels
  <2>5. Ups'
    <3>1. \A d \in Client : \/ client'[d] = client[d]
                            \/ client[d] = "down" /\ client'[d] \in {"queue", "stuck"}
      <4>1. PICK l \in {"queue", "stuck"} : client' = [client EXCEPT ![c] = l] BY <2>1
      <4>2. client \in [Client -> ClientLabels] BY DEF TypeOK, ClientLabels
      <4>3. client'[c] = l /\ \A d \in Client \ {c} : client'[d] = client[d]
        BY ONLY <4>1, <4>2, c \in Client
      <4>4. client[c] = "down" BY <2>1
      <4>5. QED BY ONLY <4>1, <4>3, <4>4
    <3>2. QED BY <2>1, <3>1 DEF Ups
  <2>6. QED BY <2>4, <2>5
<1>4. QED BY <1>1, <1>2, <1>3

\* The steps, by what they are about.
LEMMA NextCases ==
    ASSUME [Next]_vars
    PROVE  \/ ServerStep \/ int_handler \/ UNCHANGED vars
           \/ \E k \in Child : ChildWorks(k) \/ ChildEnds(k)
           \/ \E c \in Client : ClientWorks(c) \/ ClientEnds(c) \/ Attach(c)
BY DEF Next, ChildStep, ClientStep, ChildWorks, ChildEnds, ClientWorks, ClientEnds

\* Commands are a client's.
LEMMA NamedStep ==
    ASSUME TypeOK, Named, [Next]_vars
    PROVE  Named'
<1>1. CASE UNCHANGED <<priv, seen>>
  BY <1>1 DEF Named
<1>2. ASSUME NEW c \in Client, ClientWorks(c)
      PROVE  Named'
  <2>1. UNCHANGED seen BY <1>2, ClientMoves DEF serverVars
  <2>2. QED BY <1>2, <2>1, ClientMemory DEF Named
<1>3. ASSUME NEW c \in Client, ClientEnds(c) \/ Attach(c)
      PROVE  UNCHANGED <<priv, seen>>
  BY <1>3, ClientEndEffects DEF Attach, serverVars
<1>4. ASSUME NEW k \in Child, ChildEnds(k)
      PROVE  UNCHANGED <<priv, seen>>
  BY <1>4, ChildEndEffects
<1>5. ASSUME NEW k \in Child, ChildWorks(k)
      PROVE  Named'
  <2>0. seen \in [Child -> Messages] /\ priv \in [Child -> Messages]
    BY DEF TypeOK
  <2>1. CASE CopyRequest(k)
    BY <2>0, <2>1 DEF CopyRequest, memoryVars, Named
  <2>2. CASE Create(k)
    BY <2>0, <2>2 DEF Create, Named, Zeroed, Message
  <2>3. CASE Answer(k)
    BY <2>0, <2>3 DEF Answer, Named, Message
  <2>4. CASE ~(CopyRequest(k) \/ Create(k) \/ Answer(k))
    BY <1>1, <1>5, <2>4 DEF ChildWorks, Wake, CheckConnect, FillKey, WakeClient, WaitAttach, Synced,
                 TakeRequest, SendAnswer, AnswerTooLong, Ignore, memoryVars
  <2>5. QED BY <2>1, <2>2, <2>3, <2>4
<1>6. CASE ServerStep \/ int_handler
  BY <1>1, <1>6 DEF ServerStep, int_handler, ResetClient, ResetServer, Accept, WaitSync, memoryVars
<1>7. QED
  BY <1>1, <1>2, <1>3, <1>4, <1>5, <1>6, NextCases DEF vars, serverVars, memoryVars
-----------------------------------------------------------------------------
(* The invariants of the accepting process and of the queue.               *)

\* What has gone amiss stays amiss.
LEMMA AmissGrows ==
    ASSUME TypeOK, [Next]_vars
    PROVE  amiss \subseteq amiss'
<1>1. ASSUME NEW k \in Child, ChildWorks(k) PROVE amiss \subseteq amiss'
  BY <1>1 DEF ChildWorks, Wake, CheckConnect, FillKey, Create, WakeClient, WaitAttach, Synced,
       TakeRequest, CopyRequest, Answer, SendAnswer, AnswerTooLong, Ignore,
       sem_up, sem_down, PrivUp, PrivDown, still, history
<1>2. ASSUME NEW k \in Child, ChildEnds(k) PROVE amiss \subseteq amiss'
  <2>1. {} \in SUBSET {"client", "server", "undo"} /\ {"server"} \in SUBSET {"client", "server", "undo"}
    OBVIOUS
  <2>2. QED BY <1>2, <2>1, ChildEndEffects, UndoneFacts, PublicNames
<1>3. ASSUME NEW c \in Client, ClientWorks(c) \/ Attach(c) PROVE amiss \subseteq amiss'
  BY <1>3, ClientMoves DEF Attach, Disturb
<1>4. ASSUME NEW c \in Client, ClientEnds(c) PROVE amiss \subseteq amiss'
  BY <1>4, ClientEndEffects, UndoneFacts, PublicNames
<1>5. CASE ServerStep \/ int_handler
  BY <1>5 DEF ServerStep, ResetClient, ResetServer, Accept, WaitSync, int_handler, Disturb,
              sem_set, ServerDown, history
<1>6. QED
  BY <1>1, <1>2, <1>3, <1>4, <1>5, NextCases DEF vars, still, history

\* Until a process of the server is interrupted, nothing is removed, and the
\* ends of processes do to the semaphores what is undone.
LEMMA NothingRemoved ==
    ASSUME TypeOK, ServerUp, [Next]_vars, "server" \notin amiss'
    PROVE  /\ "server" \notin amiss /\ sets = BothSets /\ sets' = BothSets
           /\ parent # "gone" /\ ~int_handler
           /\ \A k \in Child : ChildEnds(k) => Undone(k, {}, {})
<1>1. "server" \notin amiss
  BY AmissGrows
<1>2. sets = BothSets /\ parent # "gone"
  BY <1>1 DEF ServerUp, BothSets
<1>3. ~int_handler
  BY DEF int_handler, Disturb
<1>4. ASSUME NEW k \in Child, ChildEnds(k)
      PROVE  Undone(k, {}, {})
  <2>1. {"server"} \in SUBSET {"client", "server", "undo"}
    OBVIOUS
  <2>2. QED BY <1>4, <2>1, ChildEndEffects, UndoneFacts, PublicNames
<1>5. sets' = BothSets
  <2>1. ASSUME NEW k \in Child, ChildWorks(k) PROVE UNCHANGED sets
    BY <2>1 DEF ChildWorks, Wake, CheckConnect, FillKey, Create, WakeClient, WaitAttach, Synced,
         TakeRequest, CopyRequest, Answer, SendAnswer, AnswerTooLong, Ignore,
         sem_up, sem_down, PrivUp, PrivDown, still, history
  <2>2. ASSUME NEW k \in Child, ChildEnds(k) PROVE UNCHANGED sets
    BY <1>4, <2>2 DEF Undone
  <2>3. ASSUME NEW c \in Client, ClientWorks(c) \/ Attach(c) PROVE UNCHANGED sets
    BY <2>3, ClientMoves DEF Attach
  <2>4. ASSUME NEW c \in Client, ClientEnds(c) PROVE UNCHANGED sets
    BY <2>4, ClientEndEffects DEF Undone
  <2>5. CASE ServerStep
    BY <1>2, <2>5 DEF ServerStep, ResetClient, ResetServer, Accept, WaitSync, sem_set, ServerDown
  <2>6. QED BY <1>2, <1>3, <2>1, <2>2, <2>3, <2>4, <2>5, NextCases DEF vars, still
<1>6. QED BY <1>1, <1>2, <1>3, <1>4, <1>5

\* The accepting process goes on.
LEMMA ServerUpStep ==
    ASSUME TypeOK, Ups, ServerUp, [Next]_vars
    PROVE  ServerUp'
<1>1. SUFFICES ASSUME "server" \notin amiss' PROVE parent' # "gone" /\ sets' = BothSets
  BY DEF ServerUp, BothSets
<1>2. parent # "gone" /\ ~int_handler /\ sets' = BothSets
  BY <1>1, NothingRemoved
<1>3. ASSUME NEW k \in Child, ChildWorks(k) \/ ChildEnds(k) PROVE UNCHANGED parent
  BY <1>3, ChildEffects, ChildEndEffects
<1>4. ASSUME NEW c \in Client, ClientWorks(c) \/ ClientEnds(c) \/ Attach(c) PROVE UNCHANGED parent
  BY <1>4, ClientMoves, ClientEndEffects DEF Attach, serverVars
<1>5. CASE ServerStep
  BY <1>2, <1>5 DEF ServerStep, ResetClient, ResetServer, Accept, WaitSync, ServerAt
<1>6. QED BY <1>2, <1>3, <1>4, <1>5, NextCases DEF vars, serverVars

\* The clients leave the children alone.
LEMMA ChildrenAlone ==
    ASSUME TypeOK, NEW c \in Client, ClientWorks(c) \/ ClientEnds(c) \/ Attach(c)
    PROVE  UNCHANGED <<parent, cliCount, child, seen>>
BY ClientMoves, ClientEndEffects DEF Attach, serverVars

\* Children are forked one after the other.
LEMMA ForkedStep ==
    ASSUME TypeOK, Ups, Forked, [Next]_vars
    PROVE  Forked'
<1>1. child \in [Child -> ChildLabels] BY DEF TypeOK, ChildLabels
<1>2. ASSUME NEW k \in Child, ChildWorks(k) PROVE Forked'
  <2>1. /\ UNCHANGED <<cliCount, parent>> /\ child[k] # "none" /\ child'[k] # "none"
        /\ \A j \in Child \ {k} : child'[j] = child[j]
    BY <1>1, <1>2, ChildEffects
  <2>2. QED BY <2>1 DEF Forked
<1>3. ASSUME NEW k \in Child, ChildEnds(k) PROVE Forked'
  <2>1. /\ UNCHANGED <<cliCount, parent>> /\ child[k] # "none" /\ child'[k] # "none"
        /\ \A j \in Child \ {k} : child'[j] = child[j]
    BY <1>1, <1>3, ChildEndEffects
  <2>2. QED BY <2>1 DEF Forked
<1>4. CASE Accept
  <2>1. /\ cliCount' = cliCount + 1 /\ child' = [child EXCEPT ![cliCount'] = "step1"]
    BY <1>4 DEF Accept, ChildAt
  <2>2. cliCount \in Nat /\ \A j \in Child : j \in Nat
    BY Numbers, PublicNames
  <2>3. \A j \in Child : child'[j] = IF j = cliCount' THEN "step1" ELSE child[j]
    BY <1>1, <2>1
  <2>4. QED BY <2>1, <2>2, <2>3 DEF Forked
<1>5. CASE ResetClient \/ ResetServer \/ WaitSync \/ int_handler
  BY <1>5 DEF ResetClient, ResetServer, WaitSync, int_handler, ServerAt, Forked
<1>6. QED
  BY <1>2, <1>3, <1>4, <1>5, NextCases, ChildrenAlone DEF ServerStep, vars, serverVars, Forked

\* The server takes its turn after the child's.
LEMMA TurnsStep ==
    ASSUME TypeOK, Ups, ServerUp, Forked, Turns, [Next]_vars
    PROVE  Turns'
<1>. USE PublicNames
<1>. SUFFICES ASSUME "server" \notin amiss'
     PROVE  /\ \A k \in Child : child'[k] \in Syncing =>
                  k = cliCount' /\ parent' = "waitsync" /\ sem'["SEM_SRV_QUEUE"] = 0
            /\ sem'["SEM_SRV_QUEUE"] <= 1
            /\ parent' # "waitsync" => sem'["SEM_SRV_QUEUE"] = 0
  BY DEF Turns
<1>1. /\ child \in [Child -> ChildLabels] /\ sem \in [Public -> Nat]
      /\ undo \in [Process -> [Public -> UndoOf]]
  BY DEF TypeOK, ChildLabels, UndoOf
<1>2. /\ sets = BothSets /\ sets' = BothSets /\ ~int_handler
      /\ \A k \in Child : ChildEnds(k) => Undone(k, {}, {})
  BY NothingRemoved
<1>3. /\ \A k \in Child : child[k] \in Syncing =>
            k = cliCount /\ parent = "waitsync" /\ sem["SEM_SRV_QUEUE"] = 0
      /\ sem["SEM_SRV_QUEUE"] <= 1
      /\ parent # "waitsync" => sem["SEM_SRV_QUEUE"] = 0
  BY NothingRemoved DEF Turns
<1>4. ASSUME NEW p \in Process, NEW why \in SUBSET {"client", "server", "undo"},
             Undone(p, {}, why)
      PROVE  sem'["SEM_SRV_QUEUE"] <= sem["SEM_SRV_QUEUE"] /\ sem'["SEM_SRV_QUEUE"] \in Nat
  <2>1. undo[p]["SEM_SRV_QUEUE"].down = 0 BY DEF Ups
  <2>2. QED BY <1>1, <1>2, <1>4, <2>1, UndoneFacts
<1>5. ASSUME NEW k \in Child, ChildWorks(k)
      PROVE  /\ \A j \in Child : child'[j] \in Syncing =>
                   j = cliCount' /\ parent' = "waitsync" /\ sem'["SEM_SRV_QUEUE"] = 0
             /\ sem'["SEM_SRV_QUEUE"] <= 1
             /\ parent' # "waitsync" => sem'["SEM_SRV_QUEUE"] = 0
  <2>1. /\ UNCHANGED <<parent, cliCount>>
        /\ \A j \in Child \ {k} : child'[j] = child[j]
        /\ child'[k] \in Syncing => child[k] \in Syncing
        /\ sem'["SEM_SRV_QUEUE"] = sem["SEM_SRV_QUEUE"] \/ Synced(k)
    BY <1>1, <1>5, ChildEffects
  <2>2. CASE ~Synced(k)
    BY <1>3, <2>1, <2>2
  <2>3. CASE Synced(k)
    <3>1. child[k] = "synced" /\ child'[k] = "serve" /\ sem_up(k, "SEM_SRV_QUEUE")
      BY <1>1, <2>3 DEF Synced, ChildAt
    <3>2. k = cliCount /\ parent = "waitsync" /\ sem["SEM_SRV_QUEUE"] = 0
          /\ undo[k]["SEM_SRV_QUEUE"].up = 0
      BY <1>3, <3>1, Labels DEF Ups
    <3>3. sem'["SEM_SRV_QUEUE"] = 1
      BY <1>1, <1>2, <3>1, <3>2, UpFacts
    <3>4. \A j \in Child : child'[j] \notin Syncing
      BY <1>3, <2>1, <3>1, <3>2, Labels
    <3>5. QED BY <2>1, <3>2, <3>3, <3>4
  <2>4. QED BY <2>2, <2>3
<1>6. ASSUME NEW k \in Child, ChildEnds(k)
      PROVE  /\ \A j \in Child : child'[j] \in Syncing =>
                   j = cliCount' /\ parent' = "waitsync" /\ sem'["SEM_SRV_QUEUE"] = 0
             /\ sem'["SEM_SRV_QUEUE"] <= 1
             /\ parent' # "waitsync" => sem'["SEM_SRV_QUEUE"] = 0
  <2>1. /\ UNCHANGED <<parent, cliCount>> /\ child[k] # "none"
        /\ \A j \in Child \ {k} : child'[j] = child[j]
        /\ child'[k] = "gone"
    BY <1>1, <1>6, ChildEndEffects
  <2>2. sem'["SEM_SRV_QUEUE"] <= sem["SEM_SRV_QUEUE"] /\ sem'["SEM_SRV_QUEUE"] \in Nat
    <3>1. {} \in SUBSET {"client", "server", "undo"} OBVIOUS
    <3>2. QED BY <1>2, <1>4, <1>6, <3>1
  <2>3. child'[k] \notin Syncing BY <2>1, Labels
  <2>4. QED BY <1>1, <1>3, <2>1, <2>2, <2>3
<1>7. ASSUME NEW c \in Client, ClientWorks(c) \/ ClientEnds(c) \/ Attach(c)
      PROVE  /\ UNCHANGED <<parent, cliCount, child>>
             /\ sem'["SEM_SRV_QUEUE"] <= sem["SEM_SRV_QUEUE"] /\ sem'["SEM_SRV_QUEUE"] \in Nat
  <2>1. UNCHANGED <<parent, cliCount, child>>
    BY <1>7, ChildrenAlone
  <2>2. CASE ClientWorks(c)
    BY <1>1, <2>1, <2>2, ClientEffects DEF SemaphoresOf
  <2>3. CASE ClientEnds(c)
    BY <1>4, <2>1, <2>3, ClientEndEffects
  <2>4. CASE Attach(c)
    BY <1>1, <2>1, <2>4 DEF Attach, semVars
  <2>5. QED BY <1>7, <2>2, <2>3, <2>4
<1>8. CASE Accept
  <2>1. /\ parent = "accept" /\ parent' = "waitsync" /\ cliCount' = cliCount + 1
        /\ child' = [child EXCEPT ![cliCount'] = "step1"]
    BY <1>8 DEF Accept, ServerAt, ChildAt
  <2>2. sem'["SEM_SRV_QUEUE"] = 0
    BY <1>3, <1>8, <2>1, ServerDownFacts DEF Accept
  <2>3. \A k \in Child : child'[k] \in Syncing => k = cliCount'
    BY <1>1, <1>3, <2>1
  <2>4. QED BY <2>1, <2>2, <2>3
<1>9. CASE WaitSync
  <2>1. sem'["SEM_SRV_QUEUE"] = 0 /\ sem["SEM_SRV_QUEUE"] > 0
    BY <1>1, <1>2, <1>3, <1>9, ServerDownFacts DEF WaitSync
  <2>2. UNCHANGED child /\ \A k \in Child : child[k] \notin Syncing
    BY <1>3, <1>9, <2>1 DEF WaitSync
  <2>3. QED BY <2>1, <2>2
<1>10. CASE ResetClient \/ ResetServer
  <2>1. /\ UNCHANGED child /\ parent # "waitsync" /\ parent' # "waitsync"
        /\ sem_set("SEM_CLIENT", 0) \/ sem_set("SEM_SERVER", 0)
    BY <1>10 DEF ResetClient, ResetServer, ServerAt
  <2>2. sem'["SEM_SRV_QUEUE"] = sem["SEM_SRV_QUEUE"]
    BY <2>1, SetFacts
  <2>3. QED BY <1>3, <2>1, <2>2
<1>11. CASE UNCHANGED vars
  BY <1>3, <1>11 DEF vars, serverVars, still, semVars
<1>12. QED
  <2>1. CASE \E c \in Client : ClientWorks(c) \/ ClientEnds(c) \/ Attach(c)
    BY <1>1, <1>3, <1>7, <2>1
  <2>2. QED
    BY <1>2, <1>5, <1>6, <1>8, <1>9, <1>10, <1>11, <2>1, NextCases DEF ServerStep

\* The clients that live, when one ends and when one is started.
LEMMA LiveCount ==
    ASSUME TypeOK, Queue, NEW c \in Client
    PROVE  /\ client[c] # "down" /\ client' = [client EXCEPT ![c] = "down"] =>
                 /\ IsFiniteSet(Live') /\ Cardinality(Live') < started
           /\ client[c] = "down" /\ (\E l \in {"queue", "stuck"} : client' = [client EXCEPT ![c] = l]) =>
                 /\ IsFiniteSet(Live') /\ Cardinality(Live') = Cardinality(Live) + 1
           /\ Cardinality(Live) \in Nat
<1>1. client \in [Client -> ClientLabels] /\ started \in Nat
  BY Numbers DEF TypeOK, ClientLabels
<1>2. IsFiniteSet(Live) /\ Cardinality(Live) <= started
  BY DEF Queue
<1>3. Cardinality(Live) \in Nat
  BY <1>2, FS_CardinalityType
<1>4. ASSUME client[c] # "down", client' = [client EXCEPT ![c] = "down"]
      PROVE  IsFiniteSet(Live') /\ Cardinality(Live') < started
  <2>1. Live' = Live \ {c} /\ c \in Live
    BY <1>1, <1>4 DEF Live
  <2>2. IsFiniteSet(Live') /\ Cardinality(Live') = Cardinality(Live) - 1
    BY <1>2, <2>1, FS_RemoveElement
  <2>3. QED BY <1>1, <1>2, <1>3, <2>2
<1>5. ASSUME client[c] = "down", NEW l \in {"queue", "stuck"}, client' = [client EXCEPT ![c] = l]
      PROVE  IsFiniteSet(Live') /\ Cardinality(Live') = Cardinality(Live) + 1
  <2>1. Live' = Live \cup {c} /\ c \notin Live
    BY <1>1, <1>5 DEF Live
  <2>2. QED BY <1>2, <2>1, FS_AddElement
<1>6. QED BY <1>3, <1>4, <1>5

\* SEM_QUEUE lets one client in.
LEMMA QueueStep ==
    ASSUME TypeOK, Ups, ServerUp, Queue, [Next]_vars
    PROVE  Queue'
<1>. USE PublicNames
<1>1. /\ client \in [Client -> ClientLabels] /\ sem \in [Public -> Nat]
      /\ undo \in [Process -> [Public -> UndoOf]]
      /\ started \in Nat /\ Cardinality(Live) \in Nat
      /\ IsFiniteSet(Live) /\ Cardinality(Live) <= started
  BY Numbers, FS_CardinalityType DEF TypeOK, ClientLabels, UndoOf, Queue
<1>. DEFINE Held == /\ sem["SEM_QUEUE"] <= 1
                    /\ \A c \in Client : client[c] \in Handshake => Alone(c)
<1>2. ASSUME UNCHANGED <<client, started>>, "server" \notin amiss' => sem'["SEM_QUEUE"] = sem["SEM_QUEUE"]
      PROVE  Queue'
  <2>1. UNCHANGED Live BY <1>2 DEF Live
  <2>2. "server" \notin amiss' => "server" \notin amiss
    BY AmissGrows
  <2>3. QED BY <1>1, <1>2, <2>1, <2>2 DEF Queue, Alone
<1>3. ASSUME NEW k \in Child, ChildWorks(k) PROVE Queue'
  BY <1>2, <1>3, ChildEffects
<1>4. ASSUME NEW k \in Child, ChildEnds(k) PROVE Queue'
  <2>1. UNCHANGED <<client, started>> BY <1>4, ChildEndEffects
  <2>2. ASSUME "server" \notin amiss' PROVE sem'["SEM_QUEUE"] = sem["SEM_QUEUE"]
    <3>1. Undone(k, {}, {}) /\ sets' = BothSets
      BY <1>4, <2>2, NothingRemoved
    <3>2. {} \in SUBSET {"client", "server", "undo"} OBVIOUS
    <3>3. undo[k]["SEM_QUEUE"].down = 0 /\ undo[k]["SEM_QUEUE"].up = 0
      BY DEF Ups
    <3>4. /\ sem' \in [Public -> Nat]
          /\ sem'["SEM_QUEUE"] <= sem["SEM_QUEUE"] + undo[k]["SEM_QUEUE"].down
          /\ sem'["SEM_QUEUE"] >= sem["SEM_QUEUE"] + undo[k]["SEM_QUEUE"].down - undo[k]["SEM_QUEUE"].up
      BY <3>1, <3>2, UndoneFacts
    <3>5. sem["SEM_QUEUE"] \in Nat /\ sem'["SEM_QUEUE"] \in Nat
      BY <1>1, <3>4
    <3>6. QED BY <3>3, <3>4, <3>5
  <2>3. QED BY <1>2, <2>1, <2>2
<1>5. ASSUME NEW c \in Client, ClientWorks(c) PROVE Queue'
  <2>1. /\ client' \in [Client -> ClientLabels] /\ \A d \in Client \ {c} : client'[d] = client[d]
        /\ client[c] # "down" /\ client'[c] # "down" /\ UNCHANGED started
        /\ InTheQueue(c) /\ sem' \in [Public -> Nat]
    BY <1>5, ClientEffects, ClientMoves DEF LabelsOf, SemaphoresOf
  <2>2. Live' = Live
    BY <2>1 DEF Live
  <2>3. ASSUME "server" \notin amiss', started = Cardinality(Live)
        PROVE  /\ sem'["SEM_QUEUE"] <= 1
               /\ \A d \in Client : client'[d] \in Handshake =>
                    /\ sem'["SEM_QUEUE"] = 0
                    /\ \A e \in Client : client'[e] \in Handshake => e = d
    <3>1. "server" \notin amiss /\ SetOf("SEM_QUEUE") \in sets
      BY <2>3, NothingRemoved
    <3>2. Held
      BY <2>3, <3>1 DEF Queue
    <3>3. sem["SEM_QUEUE"] \in Nat /\ sem'["SEM_QUEUE"] \in Nat
      BY <1>1, <2>1
    <3>4. CASE /\ client[c] = "queue" /\ client'[c] = "step0"
               /\ sem["SEM_QUEUE"] > 0 /\ sem'["SEM_QUEUE"] = sem["SEM_QUEUE"] - 1
      <4>1. sem["SEM_QUEUE"] = 1 /\ sem'["SEM_QUEUE"] = 0
        BY <3>2, <3>3, <3>4
      <4>2. \A d \in Client : client[d] \notin Handshake
        BY <3>2, <4>1 DEF Alone
      <4>3. QED BY <2>1, <4>1, <4>2
    <3>5. CASE /\ client[c] = "release" /\ client'[c] = "ready"
               /\ sem'["SEM_QUEUE"] \in {sem["SEM_QUEUE"], sem["SEM_QUEUE"] + 1}
      <4>1. Alone(c)
        BY <3>2, <3>5, Labels
      <4>2. \A d \in Client : client'[d] \notin Handshake
        BY <2>1, <3>5, <4>1, Labels DEF Alone
      <4>3. QED BY <3>3, <3>5, <4>1, <4>2 DEF Alone
    <3>6. CASE /\ sem'["SEM_QUEUE"] = sem["SEM_QUEUE"]
               /\ client'[c] \in Handshake => client[c] \in Handshake
      <4>1. \A d \in Client : client'[d] \in Handshake => client[d] \in Handshake
        BY <2>1, <3>6
      <4>2. QED BY <3>2, <3>6, <4>1 DEF Alone
    <3>7. QED BY <2>1, <3>1, <3>4, <3>5, <3>6 DEF InTheQueue
  <2>4. QED BY <1>1, <2>1, <2>2, <2>3 DEF Queue, Alone
<1>6. ASSUME NEW c \in Client, ClientEnds(c) PROVE Queue'
  <2>1. IsFiniteSet(Live') /\ Cardinality(Live') < started /\ UNCHANGED started
    BY <1>6, ClientEndEffects, LiveCount
  <2>2. Cardinality(Live') \in Nat
    BY <2>1, FS_CardinalityType
  <2>3. QED BY <1>1, <2>1, <2>2 DEF Queue
<1>7. ASSUME NEW c \in Client, Attach(c) PROVE Queue'
  <2>1. /\ client[c] = "down" /\ started' = started + 1 /\ UNCHANGED sem
        /\ \E l \in {"queue", "stuck"} : client' = [client EXCEPT ![c] = l]
    BY <1>7 DEF Attach, ClientAt, semVars
  <2>2. IsFiniteSet(Live') /\ Cardinality(Live') = Cardinality(Live) + 1
    BY <2>1, LiveCount
  <2>3. \A d \in Client : client'[d] \in Handshake => client[d] \in Handshake
    BY <1>1, <2>1, Labels
  <2>4. "server" \notin amiss' => "server" \notin amiss
    BY AmissGrows
  <2>5. started' = Cardinality(Live') => started = Cardinality(Live)
    <3>1. \A m, n \in Nat : m + 1 = n + 1 => m = n OBVIOUS
    <3>2. started \in Nat /\ Cardinality(Live) \in Nat BY <1>1
    <3>3. QED BY <2>1, <2>2, <3>1, <3>2
  <2>6. Cardinality(Live') <= started'
    BY <1>1, <2>1, <2>2
  <2>7. QED BY <2>1, <2>2, <2>3, <2>4, <2>5, <2>6 DEF Queue, Alone
<1>8. CASE ServerStep
  <2>1. UNCHANGED <<client, started>>
    BY <1>8 DEF ServerStep, ResetClient, ResetServer, Accept, WaitSync, clientVars
  <2>2. sem'["SEM_QUEUE"] = sem["SEM_QUEUE"]
    BY <1>8, SetFacts, ServerDownFacts DEF ServerStep, ResetClient, ResetServer, Accept, WaitSync
  <2>3. QED BY <1>2, <2>1, <2>2
<1>9. CASE int_handler
  BY <1>2, <1>9 DEF int_handler, Disturb, clientVars
<1>10. CASE UNCHANGED vars
  BY <1>2, <1>10 DEF vars, clientVars, still, semVars
<1>11. QED
  BY <1>3, <1>4, <1>5, <1>6, <1>7, <1>8, <1>9, <1>10, NextCases

-----------------------------------------------------------------------------
(* The theorems of the first part.                                         *)

\* The invariant holds when the server starts to listen.
LEMMA InitInv == Init => IInv
<1>. SUFFICES ASSUME Init PROVE IInv
  OBVIOUS
<1>. USE PublicNames
<1>1. TypeOK
  <2>1. undo \in [Process -> [Public -> UndoOf]]
    BY DEF Init
  <2>2. cliCount \in 0..MaxChild /\ started \in 0..MaxStart
    BY BoundAssumption DEF Init
  <2>3. pub \in [opcode : {"zero", "connect", "exit"}, key : Keys]
    BY MessageTypes DEF Init
  <2>4. /\ seen \in [Child -> Messages] /\ got \in [Client -> Messages] /\ priv \in [Child -> Messages]
        /\ key \in [Client -> Keys]
    BY MessageTypes DEF Init, Keys
  <2>5. sem \in [Public -> Nat] /\ psem \in [Child -> [Private -> Nat]]
    BY DEF Init
  <2>6. QED BY <2>1, <2>2, <2>3, <2>4, <2>5 DEF TypeOK, Init, UndoOf
<1>2. Named
  BY DEF Init, Named, Zeroed, Message
<1>3. Ups
  BY DEF Init, Ups
<1>4. ServerUp /\ Forked
  BY DEF Init, ServerUp, Forked
<1>5. Turns
  BY Labels DEF Init, Turns
<1>6. Queue
  <2>1. Live = {} BY DEF Init, Live
  <2>2. IsFiniteSet(Live) /\ Cardinality(Live) = 0
    BY <2>1, FS_EmptySet
  <2>3. QED BY <2>2, Labels DEF Init, Queue
<1>7. QED BY <1>1, <1>2, <1>3, <1>4, <1>5, <1>6 DEF IInv

\* Every step keeps it.
LEMMA NextInv == IInv /\ [Next]_vars => IInv'
<1>. SUFFICES ASSUME IInv, [Next]_vars PROVE IInv'
  OBVIOUS
<1>1. TypeOK /\ Named /\ Ups /\ ServerUp /\ Forked /\ Turns /\ Queue
  BY DEF IInv
<1>2. TypeOK' /\ Ups'
  <2>1. CASE UNCHANGED vars
    BY <1>1, <2>1 DEF vars, serverVars, clientVars, memoryVars, still, semVars, history, TypeOK, Ups
  <2>2. QED BY <1>1, <2>1, NextCases, ServerTypes, ChildTypes, ClientTypes
<1>3. QED
  BY <1>1, <1>2, NamedStep, ServerUpStep, ForkedStep, TurnsStep, QueueStep DEF IInv

\* Types, the count of the ups, the turns of the server and the queue hold for
\* ever.
THEOREM Invariance == Spec => []IInv
BY InitInv, NextInv, PTL DEF Spec

\* The server does not accept before the child of the last client has left the
\* handshake, whatever clients do, whoever of them is interrupted and whichever
\* ups and downs are undone.
THEOREM ServerWaits == Spec => []AcceptAfterSync
<1>1. IInv => AcceptAfterSync
  BY DEF IInv, Turns, AcceptAfterSync
<1>2. QED BY <1>1, Invariance, PTL

\* One client at a time is in the handshake until one of them has ended.
THEOREM OneInHandshake == Spec => []QueueHolds
<1>1. IInv => QueueHolds
  <2>. SUFFICES ASSUME IInv, "server" \notin amiss,
                       started = Cardinality({c \in Client : client[c] # "down"})
       PROVE  Cardinality({c \in Client : client[c] \in Handshake}) <= 1
    BY DEF QueueHolds
  <2>. DEFINE H == {c \in Client : client[c] \in Handshake}
  <2>1. \A c \in H, d \in H : c = d
    BY DEF IInv, Queue, Alone, Live
  <2>2. CASE H = {}
    BY <2>2, FS_EmptySet
  <2>3. CASE H # {}
    <3>1. PICK c : H = {c}
      BY <2>1, <2>3
    <3>2. Cardinality(H) = 1
      BY <3>1, FS_Singleton
    <3>3. QED BY <3>2
  <2>4. QED BY <2>2, <2>3
<1>2. QED BY <1>1, Invariance, PTL
-----------------------------------------------------------------------------
(* The second part: the handshake and the sessions, as long as clients     *)
(* come one at a time and nobody is interrupted.                           *)

Calm == amiss \subseteq {"undo"}
Forking == {"step1", "check", "fill", "create", "step2"}
Early == {"queue", "step0", "ask", "step1", "step2", "key", "wipe", "join", "step3"}
NoEarly == \A c \in Client : client[c] \notin Early

\* One client connects at a time.
OneConnects ==
    /\ \A c, d \in Client : client[c] \in Connecting /\ client[d] \in Connecting => c = d
    /\ \A c \in Client : client[c] \notin {"stuck", "abandon"}

\* The handshake, step by step: where the server, the last child and the two
\* semaphores are when client c is at a given step.
Sems(i, j) == sem["SEM_CLIENT"] = i /\ sem["SEM_SERVER"] = j
Waits(labels) == parent = "waitsync" /\ child[cliCount] \in labels
InStep(c) ==
    /\ client[c] \in {"queue", "step0"} => parent = "accept" /\ Sems(0, 0)
    /\ client[c] \in {"ask", "step1"} =>
          \/ parent = "accept" /\ Sems(1, 0)
          \/ Waits({"step1"}) /\ Sems(0, 0)
    /\ client[c] = "step2" =>
          \/ parent = "accept" /\ Sems(2, 0)
          \/ Waits({"step1"}) /\ Sems(1, 0)
          \/ Waits({"check", "fill", "create", "step2"}) /\ Sems(0, 0)
          \/ Waits({"step3"}) /\ Sems(0, 1)
    /\ client[c] \in {"key", "wipe", "join", "step3"} => Waits({"step3"}) /\ Sems(0, 0)
InSegments(c) ==
    /\ client[c] \in {"step1", "step2"} => pub.opcode = "connect"
    /\ client[c] \in {"step2", "key"} /\ Waits({"create", "step2", "step3"}) => pub.key = cliCount
    /\ client[c] \in {"step2", "key"} /\ Waits({"step2", "step3"}) => cliCount \in there
    /\ client[c] \in {"wipe", "join", "step3"} => key[c] = cliCount /\ cliCount \in there

\* A child in the handshake has a client in it; between two handshakes the
\* semaphores are zero.
Partner ==
    /\ \A k \in Child : child[k] \in Forking =>
          \E c \in Client : client[c] \in {"ask", "step1", "step2"}
    /\ parent = "resetServer" => sem["SEM_CLIENT"] = 0
    /\ parent = "accept" /\ NoEarly => Sems(0, 0)

\* Nobody but those two has anything to undo that the handshake would notice.
Clean(p, s) == undo[p][s].down = 0 /\ undo[p][s].up = 0
Others(p) ==
    (p \in Client => client[p] \notin Early) =>
        /\ parent \in {"resetServer", "accept"} => Clean(p, "SEM_CLIENT")
        /\ parent = "accept" => Clean(p, "SEM_SERVER")
        /\ parent = "waitsync" /\ p # cliCount /\ ~NoEarly =>
              Clean(p, "SEM_CLIENT") /\ Clean(p, "SEM_SERVER")

Dance ==
    /\ OneConnects /\ Partner
    /\ \A c \in Client : InStep(c) /\ InSegments(c)
    /\ \A p \in Process : Others(p)

\* Every session has a key of its own, the number of its child.
Session == {"wipe", "join", "step3", "release", "ready", "send", "wait", "exit", "end",
            "end of input"}
Owns(c, k) == client[c] \in Session /\ key[c] = k
Keyed ==
    /\ \A c \in Client : client[c] \in Session => key[c] \in Child /\ key[c] <= cliCount
    /\ \A c, d \in Client :
          client[c] \in Session /\ client[d] \in Session /\ key[c] = key[d] => c = d
    /\ \A c, d \in Client :
          client[c] \in {"ask", "step1", "step2", "key"} /\ parent = "waitsync"
            => ~Owns(d, cliCount)

\* Nothing waits in a session that has not begun.
Void(k) == psem[k]["SEM_CLIENT"] = 0 /\ psem[k]["SEM_SERVER"] = 0
Fresh ==
    /\ \A k \in Child : child[k] \in {"none"} \cup Forking => Void(k)
    /\ \A c \in Client : client[c] \in {"step2", "key"} /\ parent = "waitsync" => Void(cliCount)

\* There is one command or one answer at most between a client and its child;
\* what is in the segment is what the semaphores say.
Busy == {"copy", "execute", "answer"}
Requested(k) == psem[k]["SEM_CLIENT"] > 0 \/ child[k] = "copy"
Answering(k) == psem[k]["SEM_SERVER"] > 0 \/ child[k] = "answer"
OneToken(k) ==
    /\ psem[k]["SEM_CLIENT"] <= 1 /\ psem[k]["SEM_SERVER"] <= 1
    /\ psem[k]["SEM_CLIENT"] = 0 \/ psem[k]["SEM_SERVER"] = 0
    /\ child[k] \in Busy => Void(k)
Turn(c, k) ==
    /\ child[k] \notin {"none"} \cup Forking
    /\ client[c] \notin {"wait", "end"} => Void(k) /\ child[k] \notin Busy
    /\ client[c] # "end" => k \in there
    /\ client[c] = "send" => priv[k] = Message("request", c)
    /\ client[c] = "exit" => priv[k] = Message("exit", c)
    /\ client[c] = "wait" =>
          /\ Requested(k) => priv[k] = Message("request", c)
          /\ child[k] = "execute" => seen[k] = Message("request", c)
          /\ Answering(k) => priv[k] = Message("answer", c)
LeftAlone(k) == \A c \in Client : Owns(c, k) => client[c] = "end"
Parting(k) ==
    /\ ~Answering(k)
    /\ Requested(k) => priv[k].kind = "exit"
    /\ child[k] = "execute" => seen[k].kind = "exit"
Channel(k) ==
    /\ OneToken(k)
    /\ \A c \in Client : Owns(c, k) => Turn(c, k)
    /\ LeftAlone(k) => Parting(k)

Sessions == Keyed /\ Fresh /\ (\A k \in Child : Channel(k)) /\ OwnAnswers
SInv == Calm => Dance /\ Sessions

\* What cannot happen as long as the protocol is undisturbed.
LEMMA CalmStep ==
    ASSUME IInv, [Next]_vars, Calm'
    PROVE  /\ Calm /\ "server" \notin amiss /\ "server" \notin amiss'
           /\ sets = BothSets /\ sets' = BothSets /\ ~int_handler
           /\ \A k \in Child : ChildEnds(k) => ~int_handler_child(k) /\ Undone(k, {}, {})
           /\ \A c \in Client : /\ ~int_handler_client(c) /\ ~Abandon(c) /\ ~Crash(c)
                                /\ Attach(c) => Quiet
<1>1. Calm /\ "server" \notin amiss /\ "server" \notin amiss'
  BY AmissGrows DEF Calm, IInv
<1>2. /\ sets = BothSets /\ sets' = BothSets /\ ~int_handler
      /\ \A k \in Child : ChildEnds(k) => Undone(k, {}, {})
  BY <1>1, NothingRemoved DEF IInv
<1>3. ASSUME NEW k \in Child, int_handler_child(k) PROVE FALSE
  <2>1. ChildEnds(k) /\ Undone(k, {}, {}) BY <1>2, <1>3 DEF ChildEnds
  <2>2. sets' = sets \ {"queue"} \/ sets' = sets \ {"sync", "queue"}
    BY <1>3 DEF int_handler_child, ChildDies, Undone
  <2>3. QED BY <1>2, <2>2 DEF BothSets
<1>4. ASSUME NEW c \in Client, int_handler_client(c) \/ Abandon(c) PROVE FALSE
  BY <1>4 DEF int_handler_client, Abandon, Disturb, Calm
<1>5. ASSUME NEW c \in Client, Crash(c) PROVE FALSE
  <2>1. "client" \in amiss'
    BY <1>5, ZenonT(30) DEF Crash, ClientDies, Undone, Disturb
  <2>2. QED BY <2>1 DEF Calm
<1>6. ASSUME NEW c \in Client, Attach(c) PROVE Quiet
  BY <1>6 DEF Attach, Disturb, Calm
<1>7. QED BY <1>1, <1>2, <1>3, <1>4, <1>5, <1>6

-----------------------------------------------------------------------------
(* The handshake.                                                          *)

\* What the proofs below take from the first part.
Basis ==
    /\ client \in [Client -> ClientLabels] /\ child \in [Child -> ChildLabels]
    /\ sem \in [Public -> Nat] /\ undo \in [Process -> [Public -> UndoOf]]
    /\ key \in [Client -> Keys] /\ cliCount \in Nat
    /\ pub \in [opcode : {"zero", "connect", "exit"}, key : Keys]
    /\ parent = "waitsync" => cliCount \in Child
    /\ \A k \in Child : child[k] \in Syncing => k = cliCount /\ parent = "waitsync"

\* It does, as long as no process of the server is interrupted.
LEMMA BasisHolds ==
    ASSUME IInv, "server" \notin amiss
    PROVE  Basis
<1>1. /\ client \in [Client -> ClientLabels] /\ child \in [Child -> ChildLabels]
      /\ sem \in [Public -> Nat] /\ undo \in [Process -> [Public -> UndoOf]]
      /\ key \in [Client -> Keys]
      /\ pub \in [opcode : {"zero", "connect", "exit"}, key : Keys]
  BY DEF IInv, TypeOK, ClientLabels, ChildLabels, UndoOf
<1>2. cliCount \in Nat /\ (parent = "waitsync" => cliCount \in Child)
  BY Numbers DEF IInv, Forked
<1>3. QED BY <1>1, <1>2 DEF IInv, Turns, Basis

\* The sets of labels of the second part.
LEMMA MoreLabels ==
    /\ Early \subseteq Connecting /\ Connecting = Early \cup {"stuck", "release"}
    /\ Forking \subseteq Syncing /\ Syncing = Forking \cup {"step3", "synced"}
BY DEF Early, Connecting, Forking, Syncing

\* Where the server is while a client connects.
LEMMA EarlyWhere ==
    ASSUME NEW c \in Client, InStep(c), client[c] \in Early
    PROVE  parent = "accept" \/ (parent = "waitsync" /\ child[cliCount] \in Forking \cup {"step3"})
<1>1. CASE client[c] \in {"queue", "step0"}
  BY <1>1 DEF InStep
<1>2. CASE client[c] \in {"ask", "step1"}
  BY <1>2 DEF InStep, Waits, Forking
<1>3. CASE client[c] = "step2"
  BY <1>3 DEF InStep, Waits, Forking
<1>4. CASE client[c] \in {"key", "wipe", "join", "step3"}
  BY <1>4 DEF InStep, Waits
<1>5. QED BY <1>1, <1>2, <1>3, <1>4 DEF Early

\* Steps of others, which the handshake does not notice.
LEMMA DanceFrame ==
    ASSUME Basis, Dance, UNCHANGED <<parent, cliCount, pub>>,
           UNCHANGED <<sem["SEM_CLIENT"], sem["SEM_SERVER"]>>,
           \A p \in Process, s \in {"SEM_CLIENT", "SEM_SERVER"} :
               undo'[p][s] = undo[p][s] \/ Clean(p, s)',
           \A c \in Client : \/ client'[c] = client[c] /\ key'[c] = key[c]
                             \/ /\ client[c] \notin Early
                                /\ client'[c] \notin Connecting \cup {"abandon"},
           \A k \in Child : \/ child'[k] = child[k] /\ (k \in there => k \in there')
                            \/ /\ child[k] \notin Forking \cup {"step3"}
                               /\ child'[k] \notin Forking \cup {"step3"}
    PROVE  Dance'
<1>. USE MoreLabels, PublicNames
<1>1. OneConnects'
  BY DEF Dance, OneConnects
<1>2. ASSUME NEW c \in Client PROVE client'[c] \in Early <=> client[c] \in Early
  OBVIOUS
<1>3. NoEarly' = NoEarly
  BY <1>2 DEF NoEarly
<1>4. Partner'
  <2>1. ASSUME NEW k \in Child, child'[k] \in Forking
        PROVE  \E c \in Client : client'[c] \in {"ask", "step1", "step2"}
    <3>1. child[k] \in Forking BY <2>1
    <3>2. PICK c \in Client : client[c] \in {"ask", "step1", "step2"}
      BY <3>1 DEF Dance, Partner
    <3>3. client'[c] = client[c] BY <3>2 DEF Early
    <3>4. QED BY <3>2, <3>3
  <2>2. QED BY <1>3, <2>1 DEF Dance, Partner, Sems
<1>5. ASSUME NEW c \in Client PROVE (InStep(c) /\ InSegments(c))'
  <2>1. InStep(c) /\ InSegments(c) BY DEF Dance
  <2>2. CASE client'[c] \notin Early
    BY <2>2 DEF InStep, InSegments, Early
  <2>3. CASE client'[c] \in Early
    <3>1. client'[c] = client[c] /\ key'[c] = key[c] BY <2>3
    <3>2. parent = "accept" \/ (parent = "waitsync" /\ child[cliCount] \in Forking \cup {"step3"})
      BY <2>1, <2>3, <3>1, EarlyWhere
    <3>3. CASE parent = "accept"
      BY <2>1, <3>1, <3>3 DEF InStep, InSegments, Waits, Sems
    <3>4. CASE parent = "waitsync" /\ child[cliCount] \in Forking \cup {"step3"} /\ cliCount \in Child
      <4>1. child'[cliCount] = child[cliCount] /\ (cliCount \in there => cliCount \in there')
        BY <3>4
      <4>2. QED BY <2>1, <3>1, <4>1 DEF InStep, InSegments, Waits, Sems
    <3>5. QED BY <3>2, <3>3, <3>4 DEF Basis
  <2>4. QED BY <2>2, <2>3
<1>6. ASSUME NEW p \in Process PROVE Others(p)'
  <2>1. Others(p) BY DEF Dance
  <2>2. QED BY <1>2, <1>3, <2>1 DEF Others, Clean
<1>7. QED BY <1>1, <1>4, <1>5, <1>6 DEF Dance

\* Without a client in the handshake little is to be said of it.
LEMMA DanceOver ==
    ASSUME NoEarly', OneConnects', Partner', \A p \in Process : Others(p)'
    PROVE  Dance'
<1>1. ASSUME NEW c \in Client PROVE (InStep(c) /\ InSegments(c))'
  <2>1. client'[c] \notin Early BY DEF NoEarly
  <2>2. QED BY <2>1 DEF InStep, InSegments, Early
<1>2. QED BY <1>1 DEF Dance

\* The client that connects is the only one.
LEMMA OnlyOne ==
    ASSUME Dance, NEW c \in Client, client[c] \in Early
    PROVE  \A d \in Client \ {c} : client[d] \notin Connecting
BY MoreLabels DEF Dance, OneConnects

\* The accepting process keeps the step.
LEMMA ServerDance ==
    ASSUME IInv, Dance, "server" \notin amiss, sets = BothSets, ServerStep
    PROVE  Dance'
<1>. USE PublicNames, MoreLabels
<1>1. Basis /\ TypeOK
  BY BasisHolds DEF IInv
<1>2. ASSUME parent \notin {"accept", "waitsync"} PROVE NoEarly
  BY <1>2, EarlyWhere DEF Dance, NoEarly
<1>3. CASE ResetClient
  <2>1. /\ parent = "resetClient" /\ parent' = "resetServer" /\ sem_set("SEM_CLIENT", 0)
        /\ UNCHANGED <<cliCount, child, client, key, pub, there>>
    BY <1>3 DEF ResetClient, ServerAt, clientVars, memoryVars
  <2>2. sem'["SEM_CLIENT"] = 0 /\ \A p \in Process : undo'[p]["SEM_CLIENT"] = NoUndo["SEM_CLIENT"]
    BY <1>1, <2>1, SetFacts
  <2>3. NoEarly' BY <1>2, <2>1 DEF NoEarly
  <2>4. OneConnects' BY <2>1 DEF Dance, OneConnects
  <2>5. Partner' BY <1>1, <2>1, <2>2 DEF Partner, Basis
  <2>6. \A p \in Process : Others(p)' BY <2>1, <2>2 DEF Others, Clean
  <2>7. QED BY <2>3, <2>4, <2>5, <2>6, DanceOver
<1>4. CASE ResetServer
  <2>1. /\ parent = "resetServer" /\ parent' = "accept" /\ sem_set("SEM_SERVER", 0)
        /\ UNCHANGED <<cliCount, child, client, key, pub, there>>
    BY <1>4 DEF ResetServer, ServerAt, clientVars, memoryVars
  <2>2. /\ sem'["SEM_SERVER"] = 0 /\ sem'["SEM_CLIENT"] = sem["SEM_CLIENT"]
        /\ \A p \in Process : undo'[p]["SEM_SERVER"] = NoUndo["SEM_SERVER"]
                              /\ undo'[p]["SEM_CLIENT"] = undo[p]["SEM_CLIENT"]
    BY <1>1, <2>1, SetFacts
  <2>3. NoEarly /\ NoEarly' BY <1>2, <2>1 DEF NoEarly
  <2>4. OneConnects' BY <2>1 DEF Dance, OneConnects
  <2>5. Partner' BY <1>1, <2>1, <2>2 DEF Dance, Partner, Basis, Sems
  <2>6. \A p \in Process : Others(p)'
    BY <2>1, <2>2, <2>3 DEF Dance, Others, Clean, NoEarly
  <2>7. QED BY <2>3, <2>4, <2>5, <2>6, DanceOver
<1>5. CASE WaitSync
  <2>1. /\ parent = "waitsync" /\ parent' = "resetClient" /\ ServerDown("SEM_SRV_QUEUE")
        /\ UNCHANGED <<cliCount, child, client, key, pub, there>>
    BY <1>5 DEF WaitSync, ServerAt, clientVars, memoryVars
  <2>2. sem["SEM_SRV_QUEUE"] > 0
    BY <1>1, <2>1, ServerDownFacts
  <2>3. \A k \in Child : child[k] \notin Syncing
    BY <1>1, <2>2 DEF IInv, Turns, Basis
  <2>4. NoEarly /\ NoEarly'
    BY <1>1, <2>1, <2>3, EarlyWhere DEF Dance, NoEarly, Basis
  <2>5. OneConnects' BY <2>1 DEF Dance, OneConnects
  <2>6. Partner' BY <2>1, <2>3 DEF Partner
  <2>7. \A p \in Process : Others(p)' BY <2>1 DEF Others
  <2>8. QED BY <2>4, <2>5, <2>6, <2>7, DanceOver
<1>6. CASE Accept
  <2>1. /\ parent = "accept" /\ parent' = "waitsync" /\ ServerDown("SEM_CLIENT")
        /\ cliCount < MaxChild /\ cliCount' = cliCount + 1
        /\ child' = [child EXCEPT ![cliCount'] = "step1"]
        /\ UNCHANGED <<client, key, pub, there>>
    BY <1>6 DEF Accept, ServerAt, ChildAt, clientVars, memoryVars
  <2>2. /\ sem["SEM_CLIENT"] > 0 /\ sem'["SEM_CLIENT"] = sem["SEM_CLIENT"] - 1
        /\ sem'["SEM_SERVER"] = sem["SEM_SERVER"] /\ UNCHANGED undo
    BY <1>1, <2>1, ServerDownFacts
  <2>3. cliCount' \in Child /\ child'[cliCount'] = "step1"
        /\ \A k \in Child : child'[k] \in Syncing => k = cliCount'
    <3>1. cliCount' \in Child BY <1>1, <2>1, Numbers DEF Child
    <3>2. QED BY <1>1, <2>1, <3>1 DEF Basis
  <2>4. PICK c \in Client : client[c] \in {"ask", "step1", "step2"}
    <3>1. PICK c \in Client : client[c] \in Early
      BY <2>1, <2>2 DEF Dance, Partner, Sems, NoEarly
    <3>2. InStep(c) BY DEF Dance
    <3>3. client[c] \notin {"queue", "step0", "key", "wipe", "join", "step3"}
      BY <2>1, <2>2, <3>2 DEF InStep, Sems, Waits
    <3>4. QED BY <3>1, <3>3 DEF Early
  <2>5. \A d \in Client \ {c} : client[d] \notin Connecting
    BY <2>4, OnlyOne DEF Early
  <2>6. OneConnects' BY <2>1 DEF Dance, OneConnects
  <2>7. Partner' BY <2>1, <2>4 DEF Partner
  <2>8. ASSUME NEW d \in Client PROVE (InStep(d) /\ InSegments(d))'
    <3>1. CASE d # c
      BY <2>1, <2>5, <3>1 DEF InStep, InSegments, Early
    <3>2. CASE d = c
      <4>1. InStep(c) /\ InSegments(c) BY DEF Dance
      <4>2. InStep(c)'
        BY <2>1, <2>2, <2>3, <2>4, <4>1 DEF InStep, Waits, Sems
      <4>3. InSegments(c)'
        BY <2>1, <2>3, <2>4, <4>1 DEF InSegments, Waits
      <4>4. QED BY <3>2, <4>2, <4>3
    <3>3. QED BY <3>1, <3>2
  <2>9. \A p \in Process : Others(p)'
    BY <2>1, <2>2 DEF Dance, Others, Clean
  <2>10. QED BY <2>6, <2>7, <2>8, <2>9 DEF Dance
<1>7. QED BY <1>3, <1>4, <1>5, <1>6 DEF ServerStep

\* A step of the child in the handshake is seen by its client only.
LEMMA ChildAndClient ==
    ASSUME Basis, Dance, NEW c \in Client, client[c] = "step2", parent = "waitsync",
           UNCHANGED <<parent, cliCount, client>>,
           \A k \in Child \ {cliCount} : child'[k] = child[k],
           \A q \in Process \ {cliCount} : \A t \in Public : undo'[q][t] = undo[q][t],
           InStep(c)', InSegments(c)'
    PROVE  Dance'
<1>. USE PublicNames, MoreLabels
<1>1. \A d \in Client \ {c} : client[d] \notin Connecting
  BY OnlyOne DEF Early
<1>2. OneConnects' BY DEF Dance, OneConnects
<1>3. Partner' BY DEF Partner
<1>4. ASSUME NEW d \in Client PROVE (InStep(d) /\ InSegments(d))'
  <2>1. CASE d # c
    BY <1>1, <2>1 DEF InStep, InSegments, Early
  <2>2. QED BY <2>1
<1>5. ~NoEarly BY DEF NoEarly, Early
<1>6. ASSUME NEW p \in Process PROVE Others(p)'
  BY <1>5 DEF Dance, Others, Clean
<1>7. QED BY <1>2, <1>3, <1>4, <1>6 DEF Dance

\* The child keeps the step.
LEMMA ChildDance ==
    ASSUME IInv, Dance, "server" \notin amiss, sets = BothSets, NEW k \in Child, ChildWorks(k)
    PROVE  Dance'
<1>. USE PublicNames, MoreLabels
<1>1. Basis /\ TypeOK /\ Ups
  BY BasisHolds DEF IInv
<1>2. /\ UNCHANGED <<parent, cliCount, client, key>>
      /\ \A q \in Process \ {k} : \A t \in Public : undo'[q][t] = undo[q][t]
      /\ child' = [child EXCEPT ![k] = child'[k]]
  BY <1>1, ChildEffects
<1>3. \A j \in Child \ {k} : child'[j] = child[j]
  BY <1>1, <1>2 DEF Basis
<1>4. ASSUME child[k] \in Forking
      PROVE  /\ k = cliCount /\ parent = "waitsync"
             /\ \E c \in Client : /\ client[c] \in {"ask", "step1", "step2"}
                                  /\ InStep(c) /\ InSegments(c)
                                  /\ child[k] # "step1" => client[c] = "step2"
  <2>1. k = cliCount /\ parent = "waitsync" BY <1>1, <1>4 DEF Basis
  <2>2. PICK c \in Client : client[c] \in {"ask", "step1", "step2"}
    BY <1>4 DEF Dance, Partner
  <2>3. InStep(c) /\ InSegments(c) BY DEF Dance
  <2>4. child[k] # "step1" => client[c] = "step2"
    BY <2>1, <2>2, <2>3 DEF InStep, Waits
  <2>5. QED BY <2>1, <2>2, <2>3, <2>4
<1>5. CASE Wake(k)
  <2>1. child[k] = "step1" /\ child'[k] = "check" /\ sem_down(k, "SEM_CLIENT") /\ UNCHANGED <<pub, there>>
    BY <1>1, <1>5 DEF Wake, ChildAt, memoryVars, Basis
  <2>2. /\ sem["SEM_CLIENT"] > 0 /\ sem'["SEM_CLIENT"] = sem["SEM_CLIENT"] - 1
        /\ sem'["SEM_SERVER"] = sem["SEM_SERVER"]
    BY <1>1, <2>1, DownFacts
  <2>3. PICK c \in Client : client[c] \in {"ask", "step1", "step2"} /\ InStep(c) /\ InSegments(c)
    BY <1>4, <2>1 DEF Forking
  <2>4. k = cliCount /\ parent = "waitsync" BY <1>4, <2>1 DEF Forking
  <2>5. client[c] = "step2" /\ Sems(1, 0)
    BY <2>1, <2>2, <2>3, <2>4 DEF InStep, Waits, Sems
  <2>6. InStep(c)'
    BY <1>2, <2>1, <2>2, <2>4, <2>5 DEF InStep, Waits, Sems
  <2>7. InSegments(c)'
    BY <1>2, <2>1, <2>3, <2>4, <2>5 DEF InSegments, Waits
  <2>8. QED BY <1>1, <1>2, <1>3, <2>4, <2>5, <2>6, <2>7, ChildAndClient
<1>6. CASE CheckConnect(k) \/ FillKey(k) \/ Create(k)
  <2>1. /\ UNCHANGED sem
        /\ \/ child[k] = "check" /\ child'[k] = "fill" /\ UNCHANGED <<pub, there>>
           \/ child[k] = "fill" /\ child'[k] = "create" /\ pub' = [pub EXCEPT !.key = k] /\ UNCHANGED there
           \/ child[k] = "create" /\ child'[k] = "step2" /\ UNCHANGED pub /\ there' = there \cup {k}
    BY <1>1, <1>6 DEF CheckConnect, FillKey, Create, ChildAt, memoryVars, still, semVars, Basis
  <2>2. PICK c \in Client : client[c] = "step2" /\ InStep(c) /\ InSegments(c)
    BY <1>4, <2>1 DEF Forking
  <2>3. k = cliCount /\ parent = "waitsync" BY <1>4, <2>1 DEF Forking
  <2>4. Sems(0, 0) BY <2>1, <2>2, <2>3 DEF InStep, Waits
  <2>5. InStep(c)'
    BY <1>2, <2>1, <2>2, <2>3, <2>4 DEF InStep, Waits, Sems
  <2>6. InSegments(c)'
    <3>1. pub'.opcode = "connect"
      BY <1>1, <2>1, <2>2 DEF InSegments, Basis
    <3>2. CASE child'[k] = "fill"
      BY <1>2, <2>2, <2>3, <3>1, <3>2 DEF InSegments, Waits
    <3>3. CASE child'[k] = "create" /\ pub' = [pub EXCEPT !.key = k]
      BY <1>1, <1>2, <2>2, <2>3, <3>1, <3>3 DEF InSegments, Waits, Basis
    <3>4. CASE child[k] = "create" /\ child'[k] = "step2" /\ UNCHANGED pub /\ there' = there \cup {k}
      BY <1>2, <2>2, <2>3, <3>1, <3>4 DEF InSegments, Waits
    <3>5. QED BY <2>1, <3>2, <3>3, <3>4
  <2>7. QED BY <1>1, <1>2, <1>3, <2>2, <2>3, <2>5, <2>6, ChildAndClient
<1>7. CASE WakeClient(k)
  <2>1. child[k] = "step2" /\ child'[k] = "step3" /\ sem_up(k, "SEM_SERVER") /\ UNCHANGED <<pub, there>>
    BY <1>1, <1>7 DEF WakeClient, ChildAt, memoryVars, Basis
  <2>2. undo[k]["SEM_SERVER"].up < MaxUps BY <1>1, <2>1 DEF Ups
  <2>3. sem'["SEM_CLIENT"] = sem["SEM_CLIENT"] /\ sem'["SEM_SERVER"] = sem["SEM_SERVER"] + 1
    BY <1>1, <2>1, <2>2, UpFacts
  <2>4. PICK c \in Client : client[c] = "step2" /\ InStep(c) /\ InSegments(c)
    BY <1>4, <2>1 DEF Forking
  <2>5. k = cliCount /\ parent = "waitsync" BY <1>4, <2>1 DEF Forking
  <2>6. Sems(0, 0) BY <2>1, <2>4, <2>5 DEF InStep, Waits
  <2>7. InStep(c)'
    BY <1>2, <2>1, <2>3, <2>4, <2>5, <2>6 DEF InStep, Waits, Sems
  <2>8. InSegments(c)'
    BY <1>2, <2>1, <2>4, <2>5 DEF InSegments, Waits
  <2>9. QED BY <1>1, <1>2, <1>3, <2>4, <2>5, <2>7, <2>8, ChildAndClient
<1>8. CASE WaitAttach(k)
  <2>1. child[k] = "step3" /\ child'[k] = "synced" /\ sem_down(k, "SEM_CLIENT")
    BY <1>1, <1>8 DEF WaitAttach, ChildAt, Basis
  <2>2. k = cliCount /\ parent = "waitsync" BY <1>1, <2>1 DEF Basis
  <2>3. sem["SEM_CLIENT"] > 0 BY <1>1, <2>1, DownFacts
  <2>4. NoEarly
    <3>1. ASSUME NEW c \in Client, client[c] \in Early PROVE FALSE
      <4>1. InStep(c) BY DEF Dance
      <4>2. QED BY <2>1, <2>2, <2>3, <3>1, <4>1 DEF InStep, Waits, Sems, Early
    <3>2. QED BY <3>1 DEF NoEarly
  <2>5. NoEarly' BY <1>2, <2>4 DEF NoEarly
  <2>6. OneConnects' BY <1>2 DEF Dance, OneConnects
  <2>7. Partner' BY <1>2, <1>3, <2>1, <2>2 DEF Dance, Partner, Forking
  <2>8. \A p \in Process : Others(p)' BY <1>2, <2>2, <2>5 DEF Others
  <2>9. QED BY <2>5, <2>6, <2>7, <2>8, DanceOver
<1>9. CASE \/ Synced(k) \/ TakeRequest(k) \/ CopyRequest(k) \/ Answer(k) \/ SendAnswer(k)
           \/ AnswerTooLong(k) \/ Ignore(k)
  <2>1. /\ child[k] \notin Forking \cup {"step3"} /\ child'[k] \notin Forking \cup {"step3"}
        /\ UNCHANGED <<pub, there>>
    BY <1>1, <1>9 DEF Synced, TakeRequest, CopyRequest, Answer, SendAnswer, AnswerTooLong, Ignore,
                      ChildAt, Forking, Basis, memoryVars
  <2>2. /\ sem'["SEM_CLIENT"] = sem["SEM_CLIENT"] /\ sem'["SEM_SERVER"] = sem["SEM_SERVER"]
        /\ \A t \in {"SEM_CLIENT", "SEM_SERVER"} : undo'[k][t] = undo[k][t]
    <3>1. CASE Synced(k)
      <4>1. child[k] = "synced" /\ sem_up(k, "SEM_SRV_QUEUE") BY <3>1 DEF Synced
      <4>2. undo[k]["SEM_SRV_QUEUE"].up < MaxUps BY <1>1, <4>1 DEF Ups
      <4>3. QED BY <1>1, <4>1, <4>2, UpFacts
    <3>2. CASE ~Synced(k)
      BY <1>9, <3>2 DEF TakeRequest, CopyRequest, Answer, SendAnswer, AnswerTooLong, Ignore,
                        PrivUp, PrivDown, still, semVars
    <3>3. QED BY <3>1, <3>2
  <2>3. QED BY <1>1, <1>2, <1>3, <2>1, <2>2, DanceFrame
<1>10. QED BY <1>5, <1>6, <1>7, <1>8, <1>9 DEF ChildWorks

\* A step of the client that stays in the handshake.
LEMMA ClientAndChild ==
    ASSUME Basis, Dance, NEW c \in Client, client[c] \in Early, client'[c] \in Early,
           \A d \in Client \ {c} : client'[d] = client[d],
           UNCHANGED <<parent, cliCount, child>>,
           \A q \in Process \ {c} : \A t \in Public : undo'[q][t] = undo[q][t],
           InStep(c)', InSegments(c)'
    PROVE  Dance'
<1>. USE PublicNames, MoreLabels
<1>1. \A d \in Client \ {c} : client[d] \notin Connecting
  BY OnlyOne
<1>2. OneConnects'
  BY <1>1 DEF Dance, OneConnects, Early
<1>3. Partner'
  <2>1. ASSUME NEW k \in Child, child'[k] \in Forking
        PROVE  client'[c] \in {"ask", "step1", "step2"}
    <3>1. k = cliCount /\ parent = "waitsync" BY <2>1 DEF Basis
    <3>2. QED BY <2>1, <3>1 DEF InStep, Waits, Early, Forking
  <2>2. parent \in {"accept", "waitsync"} BY EarlyWhere DEF Dance
  <2>3. ~NoEarly' BY DEF NoEarly
  <2>4. QED BY <2>1, <2>2, <2>3 DEF Partner
<1>4. ASSUME NEW d \in Client PROVE (InStep(d) /\ InSegments(d))'
  <2>1. CASE d # c
    BY <1>1, <2>1 DEF InStep, InSegments, Early
  <2>2. QED BY <2>1
<1>5. ~NoEarly BY DEF NoEarly
<1>6. ASSUME NEW p \in Process PROVE Others(p)'
  <2>1. CASE p = c BY <2>1 DEF Others
  <2>2. CASE p # c
    <3>1. p \in Client => client'[p] = client[p] BY <2>2
    <3>2. QED BY <1>5, <2>2, <3>1 DEF Dance, Others, Clean
  <2>3. QED BY <2>1, <2>2
<1>7. QED BY <1>2, <1>3, <1>4, <1>6 DEF Dance

\* The client keeps the step.
LEMMA ClientDance ==
    ASSUME IInv, Dance, "server" \notin amiss, sets = BothSets,
           NEW c \in Client, ClientWorks(c), ~int_handler_client(c), ~Abandon(c)
    PROVE  Dance'
<1>. USE PublicNames, MoreLabels
<1>1. Basis /\ TypeOK /\ Ups
  BY BasisHolds DEF IInv
<1>2. /\ UNCHANGED <<parent, cliCount, child, there>>
      /\ \A q \in Process \ {c} : \A t \in Public : undo'[q][t] = undo[q][t]
      /\ \A d \in Client \ {c} : client'[d] = client[d]
  BY <1>1, ClientEffects, ClientMoves DEF SemaphoresOf, LabelsOf, serverVars
<1>3. InStep(c) /\ InSegments(c) BY DEF Dance
<1>4. CASE PassQueue(c)
  <2>1. /\ client[c] = "queue" /\ client'[c] = "step0" /\ sem_down(c, "SEM_QUEUE")
    BY <1>1, <1>4 DEF PassQueue, ClientAt, Basis
  <2>2. sem'["SEM_CLIENT"] = sem["SEM_CLIENT"] /\ sem'["SEM_SERVER"] = sem["SEM_SERVER"]
    BY <1>1, <2>1, DownFacts
  <2>3. InStep(c)' /\ InSegments(c)'
    BY <1>2, <1>3, <2>1, <2>2 DEF InStep, InSegments, Sems
  <2>4. QED BY <1>1, <1>2, <2>1, <2>3, ClientAndChild DEF Early
<1>5. CASE WakeServer(c)
  <2>1. /\ client[c] = "step0" /\ client'[c] = "ask" /\ sem_up(c, "SEM_CLIENT")
    BY <1>1, <1>5 DEF WakeServer, ClientAt, Basis
  <2>2. undo[c]["SEM_CLIENT"].up < MaxUps BY <1>1, <2>1 DEF Ups
  <2>3. sem'["SEM_CLIENT"] = sem["SEM_CLIENT"] + 1 /\ sem'["SEM_SERVER"] = sem["SEM_SERVER"]
    BY <1>1, <2>1, <2>2, UpFacts
  <2>4. InStep(c)' /\ InSegments(c)'
    BY <1>2, <1>3, <2>1, <2>3 DEF InStep, InSegments, Sems
  <2>5. QED BY <1>1, <1>2, <2>1, <2>4, ClientAndChild DEF Early
<1>6. CASE Ask(c)
  <2>1. /\ client[c] = "ask" /\ client'[c] = "step1" /\ pub'.opcode = "connect" /\ UNCHANGED sem
    BY <1>1, <1>6 DEF Ask, ClientAt, Basis, still, semVars
  <2>2. InStep(c)' /\ InSegments(c)'
    BY <1>2, <1>3, <2>1 DEF InStep, InSegments, Sems, Waits
  <2>3. QED BY <1>1, <1>2, <2>1, <2>2, ClientAndChild DEF Early
<1>7. CASE WakeChild(c)
  <2>1. /\ client[c] = "step1" /\ client'[c] = "step2" /\ sem_up(c, "SEM_CLIENT") /\ UNCHANGED pub
    BY <1>1, <1>7 DEF WakeChild, ClientAt, Basis, memoryVars
  <2>2. undo[c]["SEM_CLIENT"].up <= 1 /\ undo[c]["SEM_CLIENT"].up \in Nat
    BY <1>1, <2>1 DEF Ups, Basis, UndoOf
  <2>3. sem'["SEM_CLIENT"] = sem["SEM_CLIENT"] + 1 /\ sem'["SEM_SERVER"] = sem["SEM_SERVER"]
    BY <1>1, <2>1, <2>2, UpFacts
  <2>4. InStep(c)' /\ InSegments(c)'
    BY <1>2, <1>3, <2>1, <2>3 DEF InStep, InSegments, Sems, Waits
  <2>5. QED BY <1>1, <1>2, <2>1, <2>4, ClientAndChild DEF Early
<1>8. CASE WaitKey(c)
  <2>1. /\ client[c] = "step2" /\ client'[c] = "key" /\ sem_down(c, "SEM_SERVER") /\ UNCHANGED pub
    BY <1>1, <1>8 DEF WaitKey, ClientAt, Basis, memoryVars
  <2>2. /\ sem["SEM_SERVER"] > 0 /\ sem'["SEM_SERVER"] = sem["SEM_SERVER"] - 1
        /\ sem'["SEM_CLIENT"] = sem["SEM_CLIENT"]
    BY <1>1, <2>1, DownFacts
  <2>3. Waits({"step3"}) /\ Sems(0, 1)
    BY <1>3, <2>1, <2>2 DEF InStep, Sems
  <2>4. InStep(c)' /\ InSegments(c)'
    BY <1>2, <1>3, <2>1, <2>2, <2>3 DEF InStep, InSegments, Sems, Waits
  <2>5. QED BY <1>1, <1>2, <2>1, <2>4, ClientAndChild DEF Early
<1>9. CASE TakeKey(c) \/ Wipe(c) \/ Join(c)
  <2>1. /\ UNCHANGED sem
        /\ \/ client[c] = "key" /\ client'[c] = "wipe" /\ key'[c] = pub.key
           \/ client[c] = "wipe" /\ client'[c] = "join" /\ key'[c] = key[c]
           \/ client[c] = "join" /\ client'[c] = "step3" /\ key'[c] = key[c]
    BY <1>1, <1>9 DEF TakeKey, Wipe, Join, ClientAt, Basis, still, semVars
  <2>2. InStep(c)'
    BY <1>2, <1>3, <2>1 DEF InStep, Sems, Waits
  <2>3. InSegments(c)'
    <3>1. Waits({"step3"})
      BY <1>3, <2>1 DEF InStep
    <3>2. QED BY <1>2, <1>3, <2>1, <3>1 DEF InSegments, Waits
  <2>4. QED BY <1>1, <1>2, <2>1, <2>2, <2>3, ClientAndChild DEF Early
<1>10. CASE Attached(c)
  <2>1. client[c] = "step3" /\ client'[c] = "release"
    BY <1>1, <1>10 DEF Attached, ClientAt, Basis
  <2>2. Waits({"step3"}) BY <1>3, <2>1 DEF InStep
  <2>3. \A d \in Client \ {c} : client[d] \notin Connecting
    BY <2>1, OnlyOne DEF Early
  <2>4. NoEarly' BY <1>2, <2>1, <2>3 DEF NoEarly, Early
  <2>5. OneConnects' BY <1>2, <2>1, <2>3 DEF Dance, OneConnects
  <2>6. Partner'
    <3>1. \A k \in Child : child'[k] \notin Forking
      BY <1>1, <1>2, <2>2 DEF Waits, Basis, Forking
    <3>2. QED BY <1>2, <2>2, <3>1 DEF Partner, Waits
  <2>7. \A p \in Process : Others(p)' BY <1>2, <2>2, <2>4 DEF Others, Waits
  <2>8. QED BY <2>4, <2>5, <2>6, <2>7, DanceOver
<1>11. CASE \/ FreeQueue(c) \/ Sent(c) \/ TakeAnswer(c) \/ ExitSent(c)
            \/ Send(c) \/ SendTooLong(c) \/ Exit(c) \/ EndOfInput(c)
  <2>1. /\ client[c] \notin Early /\ client'[c] \notin Connecting \cup {"abandon"}
        /\ UNCHANGED <<pub, key>>
    BY <1>1, <1>11, ZenonT(30) DEF FreeQueue, Sent, TakeAnswer, ExitSent, Send, SendTooLong, Exit, EndOfInput,
                       send_exit, ClientAt, Basis, Early, memoryVars
  <2>2. /\ sem'["SEM_CLIENT"] = sem["SEM_CLIENT"] /\ sem'["SEM_SERVER"] = sem["SEM_SERVER"]
        /\ \A t \in {"SEM_CLIENT", "SEM_SERVER"} : undo'[c][t] = undo[c][t]
    <3>1. CASE FreeQueue(c)
      <4>1. client[c] = "release" /\ sem_up(c, "SEM_QUEUE") BY <3>1 DEF FreeQueue
      <4>2. undo[c]["SEM_QUEUE"].up < MaxUps BY <1>1, <4>1 DEF Ups
      <4>3. QED BY <1>1, <4>1, <4>2, UpFacts
    <3>2. CASE ~FreeQueue(c)
      BY <1>11, <3>2 DEF Sent, TakeAnswer, ExitSent, Send, SendTooLong, Exit, EndOfInput, send_exit,
                         SignalServer, PrivUp, PrivDown, still, semVars
    <3>3. QED BY <3>1, <3>2
  <2>3. QED BY <1>1, <1>2, <2>1, <2>2, DanceFrame
<1>12. CASE Abandoned(c)
  BY <1>12 DEF Abandoned, Dance, OneConnects
<1>13. QED
  BY <1>4, <1>5, <1>6, <1>7, <1>8, <1>9, <1>10, <1>11, <1>12 DEF ClientWorks, ConnectStep

\* With nothing to undo a semaphore keeps its value.
LEMMA Squeezed ==
    ASSUME NEW m \in Nat, NEW n \in Nat, n <= m + 0, n >= m + 0 - 0
    PROVE  n = m
OBVIOUS

\* The end of a process outside the handshake undoes nothing of it.
LEMMA EndDance ==
    ASSUME IInv, Dance, "server" \notin amiss, sets = BothSets, sets' = BothSets,
           NEW p \in Process, NEW why \in SUBSET {"client", "server", "undo"}, Undone(p, {}, why),
           UNCHANGED <<parent, cliCount, pub, key>>,
           \/ /\ p \in Child /\ child' = [child EXCEPT ![p] = "gone"] /\ UNCHANGED client
              /\ child[p] = "execute" /\ \A k \in Child \ {p} : k \in there => k \in there'
           \/ /\ p \in Client /\ client' = [client EXCEPT ![p] = "down"]
              /\ UNCHANGED <<child, there>> /\ client[p] \in {"end", "end of input"}
    PROVE  Dance'
<1>. USE PublicNames, MoreLabels
<1>1. Basis /\ TypeOK
  BY BasisHolds DEF IInv
<1>2. /\ sem' \in [Public -> Nat] /\ undo'[p] = NoUndo
      /\ \A q \in Process \ {p}, t \in Public : undo'[q][t] = undo[q][t]
      /\ \A t \in Public : /\ sem'[t] <= sem[t] + undo[p][t].down
                           /\ sem'[t] >= sem[t] + undo[p][t].down - undo[p][t].up
  BY <1>1, UndoneFacts
<1>3. ASSUME NEW t \in Public, Clean(p, t) PROVE sem'[t] = sem[t]
  <2>1. sem[t] \in Nat /\ sem'[t] \in Nat
    BY <1>1, <1>2 DEF Basis
  <2>2. undo[p][t].down = 0 /\ undo[p][t].up = 0
    BY <1>3 DEF Clean
  <2>3. sem'[t] <= sem[t] + 0 /\ sem'[t] >= sem[t] + 0 - 0
    BY <1>2, <2>2
  <2>4. QED BY <2>1, <2>3, Squeezed
<1>4. \A t \in Public : Clean(p, t)'
  BY <1>2 DEF Clean
<1>5. p \in Client => client[p] \notin Early
  BY DEF Early
<1>6. /\ \A c \in Client : \/ client'[c] = client[c]
                           \/ client[c] \notin Early /\ client'[c] \notin Connecting \cup {"abandon"}
      /\ \A k \in Child : \/ child'[k] = child[k] /\ (k \in there => k \in there')
                          \/ /\ child[k] \notin Forking \cup {"step3"}
                             /\ child'[k] \notin Forking \cup {"step3"}
  <2>1. CASE /\ p \in Child /\ child' = [child EXCEPT ![p] = "gone"] /\ UNCHANGED client
             /\ child[p] = "execute" /\ \A k \in Child \ {p} : k \in there => k \in there'
    BY <1>1, <2>1 DEF Basis, Forking
  <2>2. CASE /\ p \in Client /\ client' = [client EXCEPT ![p] = "down"]
             /\ UNCHANGED <<child, there>> /\ client[p] \in {"end", "end of input"}
    <3>1. client[p] \notin Early /\ "down" \notin Connecting \cup {"abandon"}
      BY <1>5, <2>2, Labels
    <3>2. client'[p] = "down" /\ \A c \in Client \ {p} : client'[c] = client[c]
      BY <1>1, <2>2 DEF Basis
    <3>3. QED BY <2>2, <3>1, <3>2
  <2>3. QED BY <2>1, <2>2
<1>7. Others(p) BY DEF Dance
<1>8. CASE ~NoEarly
  <2>1. PICK c \in Client : client[c] \in Early BY <1>8 DEF NoEarly
  <2>2. parent = "accept" \/ (parent = "waitsync" /\ child[cliCount] \in Forking \cup {"step3"})
    BY <2>1, EarlyWhere DEF Dance
  <2>3. ASSUME parent = "waitsync", p = cliCount PROVE FALSE
    <3>1. p \in Child /\ child[p] \in Forking \cup {"step3"}
      BY <1>1, <2>2, <2>3 DEF Basis
    <3>2. child[p] # "execute"
      BY <3>1 DEF Forking
    <3>3. p \notin Client
      BY <3>1
    <3>4. QED BY <3>2, <3>3
  <2>4. Clean(p, "SEM_CLIENT") /\ Clean(p, "SEM_SERVER")
    BY <1>5, <1>7, <1>8, <2>2, <2>3 DEF Others
  <2>5. sem'["SEM_CLIENT"] = sem["SEM_CLIENT"] /\ sem'["SEM_SERVER"] = sem["SEM_SERVER"]
    BY <1>3, <2>4
  <2>6. \A q \in Process, s \in {"SEM_CLIENT", "SEM_SERVER"} : undo'[q][s] = undo[q][s] \/ Clean(q, s)'
    <3>1. ASSUME NEW q \in Process, NEW s \in Public PROVE undo'[q][s] = undo[q][s] \/ Clean(q, s)'
      <4>1. CASE q = p BY <1>4, <4>1
      <4>2. CASE q # p BY <1>2, <4>2
      <4>3. QED BY <4>1, <4>2
    <3>2. {"SEM_CLIENT", "SEM_SERVER"} \subseteq Public OBVIOUS
    <3>3. QED BY ONLY <3>1, <3>2
  <2>7. QED BY <1>1, <1>6, <2>5, <2>6, DanceFrame
<1>9. CASE NoEarly
  <2>1. NoEarly' BY <1>6, <1>9 DEF NoEarly
  <2>2. OneConnects' BY <1>6 DEF Dance, OneConnects
  <2>3. Partner'
    <3>1. \A k \in Child : child'[k] \notin Forking
      BY <1>6, <1>9 DEF Dance, Partner, NoEarly, Early
    <3>2. parent = "resetServer" => Clean(p, "SEM_CLIENT")
      BY <1>5, <1>7 DEF Others
    <3>3. parent = "accept" => Clean(p, "SEM_CLIENT") /\ Clean(p, "SEM_SERVER")
      BY <1>5, <1>7 DEF Others
    <3>4. QED BY <1>3, <1>9, <3>1, <3>2, <3>3 DEF Dance, Partner, Sems
  <2>4. ASSUME NEW q \in Process PROVE Others(q)'
    <3>1. CASE q = p BY <1>4, <3>1 DEF Others
    <3>2. CASE q # p
      <4>1. Others(q) /\ (q \in Client => client[q] \notin Early)
        BY <1>9 DEF Dance, NoEarly
      <4>2. QED BY <1>2, <2>1, <3>2, <4>1 DEF Others, Clean
    <3>3. QED BY <3>1, <3>2
  <2>5. QED BY <2>1, <2>2, <2>3, <2>4, DanceOver
<1>10. QED BY <1>8, <1>9

\* A client comes while nobody else connects.
LEMMA AttachDance ==
    ASSUME IInv, Dance, "server" \notin amiss, sets = BothSets, NEW c \in Client, Attach(c), Quiet
    PROVE  Dance'
<1>. USE PublicNames, MoreLabels
<1>1. Basis
  BY BasisHolds
<1>2. /\ client[c] = "down" /\ client' = [client EXCEPT ![c] = "queue"]
      /\ UNCHANGED <<parent, cliCount, child, there, sem, undo>>
  BY DEF Attach, ClientAt, serverVars, semVars, BothSets
<1>3. parent = "accept" /\ \A d \in Client : client[d] \notin Connecting
  BY DEF Quiet
<1>4. NoEarly BY <1>3 DEF NoEarly
<1>5. Sems(0, 0) BY <1>3, <1>4 DEF Dance, Partner
<1>6. client'[c] = "queue" /\ \A d \in Client \ {c} : client'[d] = client[d]
  BY <1>1, <1>2 DEF Basis
<1>7. OneConnects' BY <1>3, <1>6 DEF Dance, OneConnects
<1>8. Partner'
  <2>1. ~NoEarly' BY <1>6 DEF NoEarly, Early
  <2>2. \A k \in Child : child'[k] \notin Forking BY <1>1, <1>2, <1>3 DEF Basis
  <2>3. QED BY <1>2, <1>3, <2>1, <2>2 DEF Partner
<1>9. ASSUME NEW d \in Client PROVE (InStep(d) /\ InSegments(d))'
  <2>1. CASE d = c
    BY <1>2, <1>3, <1>5, <1>6, <2>1 DEF InStep, InSegments, Sems
  <2>2. CASE d # c
    BY <1>3, <1>6, <2>2 DEF InStep, InSegments, Early
  <2>3. QED BY <2>1, <2>2
<1>10. ASSUME NEW p \in Process PROVE Others(p)'
  BY <1>2, <1>3, <1>4, <1>6 DEF Dance, Others, Clean, NoEarly
<1>11. QED BY <1>7, <1>8, <1>9, <1>10 DEF Dance

\* Which ends there are, as long as the protocol is undisturbed: OP_CONNECT is
\* found, and the segment that was announced.
LEMMA CalmEnds ==
    ASSUME IInv, Dance, "server" \notin amiss
    PROVE  /\ \A k \in Child : ~SyncError(k)
           /\ \A c \in Client : End(c) => client[c] \in {"end", "end of input"}
<1>. USE PublicNames, MoreLabels
<1>1. Basis BY BasisHolds
<1>2. ASSUME NEW k \in Child, SyncError(k) PROVE FALSE
  <2>1. child[k] = "check" /\ pub.opcode # "connect" BY <1>2 DEF SyncError
  <2>2. k = cliCount /\ parent = "waitsync" BY <1>1, <2>1, Labels DEF Basis
  <2>3. PICK c \in Client : client[c] \in {"ask", "step1", "step2"}
    BY <2>1 DEF Dance, Partner, Forking
  <2>4. InStep(c) /\ InSegments(c) BY DEF Dance
  <2>5. client[c] = "step2" BY <2>1, <2>2, <2>3, <2>4 DEF InStep, Waits
  <2>6. QED BY <2>1, <2>4, <2>5 DEF InSegments
<1>3. ASSUME NEW c \in Client, client[c] = "join", key[c] \notin there \cup {0} PROVE FALSE
  BY <1>3 DEF Dance, InSegments
<1>4. QED BY <1>2, <1>3 DEF End

\* The handshake goes on step by step.
LEMMA DanceStep ==
    ASSUME IInv, Dance, [Next]_vars, Calm'
    PROVE  Dance'
<1>1. /\ "server" \notin amiss /\ sets = BothSets /\ sets' = BothSets
      /\ ~int_handler
      /\ \A k \in Child : ChildEnds(k) => ~int_handler_child(k) /\ Undone(k, {}, {})
      /\ \A c \in Client : /\ ~int_handler_client(c) /\ ~Abandon(c) /\ ~Crash(c)
                           /\ Attach(c) => Quiet
  BY CalmStep
<1>2. TypeOK BY DEF IInv
<1>3. ASSUME NEW k \in Child, ChildEnds(k) PROVE Dance'
  <2>1. ChildFails(k) \/ ChildExits(k)
    BY <1>1, <1>3, CalmEnds DEF ChildEnds
  <2>2. child[k] = "execute" BY <2>1 DEF ChildFails, ChildExits
  <2>3. {} \in SUBSET {"client", "server", "undo"} OBVIOUS
  <2>4. QED BY <1>1, <1>2, <1>3, <2>2, <2>3, ChildEndEffects, EndDance, PublicNames
<1>4. ASSUME NEW c \in Client, ClientEnds(c) PROVE Dance'
  <2>1. client[c] \in {"end", "end of input"}
    BY <1>1, <1>4, CalmEnds DEF ClientEnds
  <2>2. PICK why \in SUBSET {"client", "server", "undo"} : Undone(c, {}, why)
    BY <1>2, <1>4, ClientEndEffects
  <2>3. QED BY <1>1, <1>2, <1>4, <2>1, <2>2, ClientEndEffects, EndDance, PublicNames
<1>5. CASE UNCHANGED vars
  <2>1. Basis BY <1>1, BasisHolds
  <2>2. QED BY <1>5, <2>1, DanceFrame
            DEF vars, serverVars, clientVars, memoryVars, still, semVars
<1>6. QED
  BY <1>1, <1>3, <1>4, <1>5, NextCases, ServerDance, ChildDance, ClientDance, AttachDance
-----------------------------------------------------------------------------
(* The sessions.                                                           *)

Asking == {"ask", "step1", "step2", "key"}

\* How a client gets its session, and that it keeps its key from then on.
LEMMA ClientKeys ==
    ASSUME IInv, Dance, "server" \notin amiss, NEW c \in Client, ClientWorks(c),
           ~int_handler_client(c), ~Abandon(c)
    PROVE  /\ \A d \in Client \ {c} : client'[d] = client[d] /\ key'[d] = key[d]
           /\ UNCHANGED <<parent, cliCount, child, seen, there>>
           /\ \/ TakeKey(c)
              \/ /\ UNCHANGED key
                 /\ client'[c] \in Session => client[c] \in Session
                 /\ client'[c] \in Asking => client[c] \in Asking \/ parent # "waitsync"
                 /\ client'[c] \in {"step2", "key"} => client[c] \in {"step1", "step2"}
<1>1. Basis /\ TypeOK /\ Ups
  BY BasisHolds DEF IInv
<1>2. /\ UNCHANGED <<parent, cliCount, child, seen, there>>
      /\ \A d \in Client \ {c} : client'[d] = client[d]
  BY <1>1, ClientEffects, ClientMoves DEF LabelsOf, serverVars
<1>3. \A d \in Client \ {c} : key'[d] = key[d]
  BY <1>1 DEF ClientWorks, ConnectStep, PassQueue, WakeServer, Ask, WakeChild, WaitKey, TakeKey, Wipe,
       Join, Attached, FreeQueue, Sent, TakeAnswer, ExitSent, Abandoned, Send, SendTooLong, Exit,
       send_exit, EndOfInput, Basis
<1>4. CASE PassQueue(c) \/ WakeServer(c)
  <2>1. /\ UNCHANGED key /\ client[c] \in {"queue", "step0"} /\ client'[c] \in {"step0", "ask"}
    BY <1>1, <1>4 DEF PassQueue, WakeServer, ClientAt, Basis
  <2>2. parent = "accept" BY <2>1 DEF Dance, InStep
  <2>3. QED BY <1>2, <1>3, <2>1, <2>2 DEF Session
<1>5. CASE Ask(c) \/ WakeChild(c) \/ WaitKey(c)
  BY <1>1, <1>2, <1>3, <1>5 DEF Ask, WakeChild, WaitKey, ClientAt, Basis, Session, Asking
<1>6. CASE TakeKey(c)
  BY <1>2, <1>3, <1>6
<1>7. CASE Wipe(c) \/ Join(c) \/ Attached(c) \/ FreeQueue(c)
  BY <1>1, <1>2, <1>3, <1>7 DEF Wipe, Join, Attached, FreeQueue, ClientAt, Basis, Session, Asking
<1>8. CASE Sent(c) \/ TakeAnswer(c) \/ ExitSent(c) \/ Send(c) \/ SendTooLong(c) \/ Exit(c) \/ EndOfInput(c)
  BY <1>1, <1>2, <1>3, <1>8 DEF Sent, TakeAnswer, ExitSent, Send, SendTooLong, Exit, EndOfInput,
       send_exit, ClientAt, Basis, Session, Asking
<1>9. CASE Abandoned(c)
  BY <1>9 DEF Abandoned, Dance, OneConnects
<1>10. QED
  BY <1>4, <1>5, <1>6, <1>7, <1>8, <1>9 DEF ClientWorks, ConnectStep

\* The key that a client takes.
LEMMA KeyTaken ==
    ASSUME IInv, Dance, "server" \notin amiss, NEW c \in Client, TakeKey(c)
    PROVE  /\ client[c] = "key" /\ client'[c] = "wipe" /\ key'[c] = cliCount
           /\ parent = "waitsync" /\ child[cliCount] = "step3"
           /\ cliCount \in there /\ cliCount \in Child
<1>1. Basis BY BasisHolds
<1>2. client[c] = "key" /\ client'[c] = "wipe" /\ key'[c] = pub.key
  BY <1>1 DEF TakeKey, ClientAt, Basis
<1>3. Waits({"step3"}) /\ InSegments(c)
  BY <1>2 DEF Dance, InStep
<1>4. QED BY <1>1, <1>2, <1>3 DEF InSegments, Waits, Basis

\* Steps that leave the keys alone.
LEMMA KeyedFrame ==
    ASSUME Keyed, UNCHANGED <<parent, cliCount>>,
           \A c \in Client :
              /\ client'[c] \in Session => client[c] \in Session /\ key'[c] = key[c]
              /\ client'[c] \in Asking => client[c] \in Asking \/ parent # "waitsync"
    PROVE  Keyed'
BY DEF Keyed, Owns, Asking

\* Every session has its own key.
LEMMA KeyedStep ==
    ASSUME IInv, Dance, Keyed, [Next]_vars, Calm'
    PROVE  Keyed'
<1>. USE PublicNames
<1>1. /\ "server" \notin amiss /\ sets = BothSets /\ ~int_handler
      /\ \A c \in Client : ~int_handler_client(c) /\ ~Abandon(c)
  BY CalmStep
<1>2. Basis /\ TypeOK /\ Ups
  BY <1>1, BasisHolds DEF IInv
<1>3. ASSUME NEW k \in Child, ChildWorks(k) \/ ChildEnds(k) PROVE Keyed'
  BY <1>2, <1>3, ChildEffects, ChildEndEffects, KeyedFrame
<1>4. ASSUME NEW c \in Client, ClientWorks(c), ~TakeKey(c) PROVE Keyed'
  <2>1. /\ UNCHANGED <<parent, cliCount, key>>
        /\ \A d \in Client \ {c} : client'[d] = client[d]
        /\ client'[c] \in Session => client[c] \in Session
        /\ client'[c] \in Asking => client[c] \in Asking \/ parent # "waitsync"
    BY <1>1, <1>2, <1>4, ClientKeys DEF Basis
  <2>2. QED BY <2>1, KeyedFrame
<1>5. ASSUME NEW c \in Client, TakeKey(c) PROVE Keyed'
  <2>1. /\ client[c] = "key" /\ client'[c] = "wipe" /\ key'[c] = cliCount
        /\ parent = "waitsync" /\ cliCount \in Child
    BY <1>1, <1>5, KeyTaken
  <2>2. ClientWorks(c) BY <1>5 DEF ClientWorks, ConnectStep
  <2>3. /\ \A d \in Client \ {c} : client'[d] = client[d] /\ key'[d] = key[d]
        /\ UNCHANGED <<parent, cliCount>>
    BY <1>1, <2>2, ClientKeys
  <2>4. \A d \in Client : client[d] \in Session => key[d] # cliCount
    BY <2>1 DEF Keyed, Owns
  <2>5. \A d \in Client : client'[d] \notin Asking
    BY <2>1, <2>3, OnlyOne, MoreLabels DEF Early, Asking, Connecting
  <2>6. cliCount <= cliCount BY <1>2 DEF Basis
  <2>7. \A d \in Client : client'[d] \in Session =>
           \/ d = c /\ key'[d] = cliCount
           \/ d # c /\ client[d] \in Session /\ key'[d] = key[d] /\ key[d] # cliCount
    BY <2>1, <2>3, <2>4
  <2>8. \A d \in Client : client'[d] \in Session => key'[d] \in Child /\ key'[d] <= cliCount'
    BY <2>1, <2>3, <2>6, <2>7 DEF Keyed
  <2>9. \A d, e \in Client :
           client'[d] \in Session /\ client'[e] \in Session /\ key'[d] = key'[e] => d = e
    BY <2>7 DEF Keyed
  <2>10. QED BY <2>5, <2>8, <2>9 DEF Keyed, Asking
<1>6. ASSUME NEW c \in Client, ClientEnds(c) \/ Attach(c) PROVE Keyed'
  <2>1. /\ UNCHANGED <<parent, cliCount>>
        /\ client'[c] \in {"down", "queue", "stuck"}
        /\ \A d \in Client \ {c} : client'[d] = client[d] /\ key'[d] = key[d]
    BY <1>2, <1>6, ClientEndEffects DEF Attach, ClientAt, serverVars, Basis
  <2>2. client'[c] \notin Session /\ client'[c] \notin Asking
    BY <2>1 DEF Session, Asking
  <2>3. QED BY <2>1, <2>2, KeyedFrame
<1>7. CASE Accept
  <2>1. /\ parent' = "waitsync" /\ cliCount' = cliCount + 1 /\ UNCHANGED <<client, key>>
    BY <1>7 DEF Accept, ServerAt, clientVars
  <2>2. cliCount \in Nat /\ \A k \in Child : k \in Nat
    BY <1>2 DEF Basis
  <2>3. \A c \in Client : client[c] \in Session => key[c] \in Nat /\ key[c] <= cliCount
    BY <2>2 DEF Keyed
  <2>4. \A c \in Client : client'[c] \in Session => key'[c] # cliCount' /\ key'[c] <= cliCount'
    BY <2>1, <2>2, <2>3
  <2>5. QED BY <2>1, <2>4 DEF Keyed, Owns
<1>8. CASE ResetClient \/ ResetServer \/ WaitSync
  <2>1. parent' # "waitsync" /\ UNCHANGED <<cliCount, client, key>>
    BY <1>8 DEF ResetClient, ResetServer, WaitSync, ServerAt, clientVars
  <2>2. QED BY <2>1 DEF Keyed
<1>9. CASE UNCHANGED vars
  BY <1>9, KeyedFrame DEF vars, serverVars, clientVars
<1>10. QED
  BY <1>1, <1>3, <1>4, <1>5, <1>6, <1>7, <1>8, <1>9, NextCases DEF ServerStep

-----------------------------------------------------------------------------
(* What a step does to a session.                                          *)

\* A step that leaves the segment and the semaphores of key j alone.
Same(j) ==
    /\ psem'[j] = psem[j] /\ priv'[j] = priv[j] /\ seen'[j] = seen[j]
    /\ j \in there => j \in there'

\* A down and an up on the semaphores of a session.
LEMMA PrivFacts ==
    ASSUME TypeOK, NEW k \in Child, NEW s \in Private, NEW t \in Private, s # t
    PROVE  /\ psem[k][s] \in Nat /\ psem[k][t] \in Nat
           /\ PrivDown(k, s) => /\ psem[k][s] > 0
                                /\ psem'[k][s] = psem[k][s] - 1 /\ psem'[k][t] = psem[k][t]
                                /\ \A j \in Child \ {k} : psem'[j] = psem[j]
           /\ PrivUp(k, s) => /\ psem'[k][s] = psem[k][s] + 1 /\ psem'[k][t] = psem[k][t]
                              /\ \A j \in Child \ {k} : psem'[j] = psem[j]
<1>1. psem \in [Child -> [Private -> Nat]] BY DEF TypeOK
<1>2. psem[k] \in [Private -> Nat] BY <1>1
<1>3. QED BY <1>1, <1>2 DEF PrivDown, PrivUp

\* The steps of a child.
Handshakes(k) ==
    /\ child[k] \in Syncing /\ child'[k] \in Syncing \cup {"serve"} /\ Same(k)
    /\ child'[k] \in Forking => child[k] \in Forking
Creates(k) == child[k] = "create" /\ child'[k] = "step2" /\ Void(k)'
Takes(k) ==
    /\ child[k] = "serve" /\ child'[k] = "copy" /\ psem[k]["SEM_CLIENT"] > 0
    /\ psem'[k]["SEM_CLIENT"] = psem[k]["SEM_CLIENT"] - 1
    /\ UNCHANGED <<psem[k]["SEM_SERVER"], priv, seen, there>>
Copies(k) ==
    /\ child[k] = "copy" /\ child'[k] = "execute" /\ seen'[k] = priv[k]
    /\ UNCHANGED <<psem, priv, there>>
Answers(k) ==
    /\ child[k] = "execute" /\ child'[k] = "answer" /\ seen[k].kind # "exit"
    /\ priv'[k] = Message("answer", seen[k].of)
    /\ UNCHANGED <<psem, seen, there>>
Sends(k) ==
    /\ child[k] = "answer" /\ child'[k] = "serve"
    /\ psem'[k]["SEM_SERVER"] = psem[k]["SEM_SERVER"] + 1
    /\ UNCHANGED <<psem[k]["SEM_CLIENT"], priv, seen, there>>
Finishes(k) ==
    /\ child[k] = "execute" /\ child'[k] \in {"serve", "gone"}
    /\ k \in there => k \in there' \/ seen[k].kind \in {"exit", "zero"}
    /\ UNCHANGED <<psem, priv, seen>>

\* Every step of a child is one of these, and leaves the other sessions alone.
LEMMA ChildSession ==
    ASSUME TypeOK, NEW k \in Child, ChildWorks(k) \/ ChildFails(k) \/ ChildExits(k)
    PROVE  /\ UNCHANGED <<parent, cliCount, client, key, got>>
           /\ \A j \in Child \ {k} : Same(j) /\ child'[j] = child[j]
           /\ \/ Handshakes(k) \/ Creates(k) \/ Takes(k) \/ Copies(k) \/ Answers(k) \/ Sends(k)
              \/ Finishes(k)
<1>1. /\ child \in [Child -> ChildLabels] /\ seen \in [Child -> Messages]
      /\ priv \in [Child -> Messages] /\ psem \in [Child -> [Private -> Nat]]
  BY DEF TypeOK, ChildLabels
<1>2. CASE \/ Wake(k) \/ CheckConnect(k) \/ FillKey(k) \/ WakeClient(k) \/ WaitAttach(k) \/ Synced(k)
  <2>1. /\ UNCHANGED <<parent, cliCount, client, key, got, psem, priv, seen, there>>
        /\ \/ child[k] = "step1" /\ child' = [child EXCEPT ![k] = "check"]
           \/ child[k] = "check" /\ child' = [child EXCEPT ![k] = "fill"]
           \/ child[k] = "fill" /\ child' = [child EXCEPT ![k] = "create"]
           \/ child[k] = "step2" /\ child' = [child EXCEPT ![k] = "step3"]
           \/ child[k] = "step3" /\ child' = [child EXCEPT ![k] = "synced"]
           \/ child[k] = "synced" /\ child' = [child EXCEPT ![k] = "serve"]
    BY <1>2 DEF Wake, CheckConnect, FillKey, WakeClient, WaitAttach, Synced, ChildAt, sem_down,
                sem_up, clientVars, memoryVars, still, semVars
  <2>2. QED BY <1>1, <2>1 DEF Same, Handshakes, Forking, Syncing
<1>3. CASE Create(k)
  <2>1. /\ UNCHANGED <<parent, cliCount, client, key, got, seen>>
        /\ there' = there \cup {k} /\ priv' = [priv EXCEPT ![k] = Zeroed]
        /\ psem' = [psem EXCEPT ![k] = [s \in Private |-> 0]]
        /\ child[k] = "create" /\ child' = [child EXCEPT ![k] = "step2"]
    BY <1>3 DEF Create, ChildAt, clientVars
  <2>2. psem'[k]["SEM_CLIENT"] = 0 /\ psem'[k]["SEM_SERVER"] = 0
    BY <1>1, <2>1 DEF Private
  <2>3. QED BY <1>1, <2>1, <2>2 DEF Same, Creates, Void
<1>4. CASE TakeRequest(k)
  <2>1. /\ UNCHANGED <<parent, cliCount, client, key, got, priv, seen, there>>
        /\ PrivDown(k, "SEM_CLIENT")
        /\ child[k] = "serve" /\ child' = [child EXCEPT ![k] = "copy"]
    BY <1>4 DEF TakeRequest, ChildAt, clientVars, memoryVars
  <2>2. "SEM_CLIENT" \in Private /\ "SEM_SERVER" \in Private BY DEF Private
  <2>3. QED BY <1>1, <2>1, <2>2, PrivFacts DEF Same, Takes
<1>5. CASE CopyRequest(k)
  BY <1>1, <1>5 DEF CopyRequest, ChildAt, clientVars, memoryVars, still, semVars, Same, Copies
<1>6. CASE Answer(k)
  BY <1>1, <1>6 DEF Answer, ChildAt, clientVars, still, semVars, Same, Answers
<1>7. CASE SendAnswer(k)
  <2>1. /\ UNCHANGED <<parent, cliCount, client, key, got, priv, seen, there>>
        /\ PrivUp(k, "SEM_SERVER")
        /\ child[k] = "answer" /\ child' = [child EXCEPT ![k] = "serve"]
    BY <1>7 DEF SendAnswer, ChildAt, clientVars, memoryVars
  <2>2. "SEM_CLIENT" \in Private /\ "SEM_SERVER" \in Private BY DEF Private
  <2>3. QED BY <1>1, <2>1, <2>2, PrivFacts DEF Same, Sends
<1>8. CASE AnswerTooLong(k) \/ Ignore(k)
  BY <1>1, <1>8 DEF AnswerTooLong, Ignore, ChildAt, clientVars, memoryVars, still, semVars, Same,
                    Finishes
<1>9. CASE ChildFails(k) \/ ChildExits(k)
  BY <1>1, <1>9 DEF ChildFails, ChildExits, ChildDies, ChildAt, clientVars, memoryVars, Same, Finishes
<1>10. QED BY <1>2, <1>3, <1>4, <1>5, <1>6, <1>7, <1>8, <1>9 DEF ChildWorks

\* The steps of a client: in the handshake, in its session k, and at its end.
Plain == {"wipe", "join", "step3", "release", "ready", "end of input"}
Untouched == UNCHANGED <<psem, priv>>
Strolls(c) ==
    /\ Untouched /\ key'[c] = key[c] /\ got'[c] = got[c]
    /\ client[c] \in Session <=> client'[c] \in Session
    /\ client[c] \in Session => client[c] \in Plain /\ client'[c] \in Plain \cup {"wait"}
Writes(c, k) ==
    /\ UNCHANGED psem /\ key'[c] = key[c] /\ got'[c] = got[c]
    /\ \A j \in Child \ {k} : priv'[j] = priv[j]
    /\ \/ client[c] = "join" /\ client'[c] = "step3"
       \/ client[c] = "ready" /\ client'[c] = "send" /\ priv'[k] = Message("request", c)
       \/ client[c] = "ready" /\ client'[c] = "exit" /\ priv'[k] = Message("exit", c)
Signals(c, k) ==
    /\ UNCHANGED priv /\ key'[c] = key[c] /\ got'[c] = got[c]
    /\ \A j \in Child \ {k} : psem'[j] = psem[j]
    /\ \/ client[c] = "send" /\ client'[c] = "wait"
       \/ client[c] = "exit" /\ client'[c] = "end"
    /\ k \in there => /\ psem'[k]["SEM_CLIENT"] = psem[k]["SEM_CLIENT"] + 1
                      /\ psem'[k]["SEM_SERVER"] = psem[k]["SEM_SERVER"]
Receives(c, k) ==
    /\ UNCHANGED priv /\ key'[c] = key[c] /\ got'[c] = priv[k]
    /\ \A j \in Child \ {k} : psem'[j] = psem[j]
    /\ client[c] = "wait" /\ client'[c] = "ready"
    /\ k \in there => /\ psem[k]["SEM_SERVER"] > 0
                      /\ psem'[k]["SEM_SERVER"] = psem[k]["SEM_SERVER"] - 1
                      /\ psem'[k]["SEM_CLIENT"] = psem[k]["SEM_CLIENT"]
Leaves(c, k) ==
    /\ UNCHANGED priv /\ client'[c] = "down" /\ got'[c] = got[c]
    /\ \A j \in Child \ {k} : psem'[j] = psem[j]
    /\ psem'[k]["SEM_SERVER"] = psem[k]["SEM_SERVER"]
    /\ psem'[k]["SEM_CLIENT"] <= psem[k]["SEM_CLIENT"] /\ psem'[k]["SEM_CLIENT"] \in Nat

\* Every step of a client with the key of a child is one of these, and leaves
\* the other sessions alone.
LEMMA ClientSession ==
    ASSUME IInv, Dance, Keyed, "server" \notin amiss,
           NEW c \in Client, ClientWorks(c), ~TakeKey(c), ~int_handler_client(c), ~Abandon(c)
    PROVE  \/ Strolls(c)
           \/ client[c] \in Session /\ (Writes(c, key[c]) \/ Signals(c, key[c]) \/ Receives(c, key[c]))
<1>1. Basis /\ TypeOK
  BY BasisHolds DEF IInv
<1>2. /\ priv \in [Child -> Messages] /\ got \in [Client -> Messages]
      /\ "SEM_CLIENT" \in Private /\ "SEM_SERVER" \in Private
  BY <1>1 DEF TypeOK, Private
<1>3. client[c] \in Session => key[c] \in Child
  BY DEF Keyed
<1>4. CASE PassQueue(c) \/ WakeServer(c) \/ Ask(c) \/ WakeChild(c) \/ WaitKey(c) \/ Wipe(c)
           \/ Attached(c) \/ FreeQueue(c) \/ SendTooLong(c) \/ EndOfInput(c)
  <2>1. /\ UNCHANGED <<psem, priv, key, got>>
        /\ \/ /\ client[c] \in {"queue", "step0", "ask", "step1", "step2"}
              /\ client'[c] \in {"step0", "ask", "step1", "step2", "key"}
           \/ /\ client[c] \in {"wipe", "step3", "release", "ready"}
              /\ client'[c] \in {"join", "release", "ready", "wait", "end of input"}
    BY <1>1, <1>4 DEF PassQueue, WakeServer, Ask, WakeChild, WaitKey, Wipe, Attached, FreeQueue, SendTooLong,
         EndOfInput, ClientAt, sem_up, sem_down, still, semVars, memoryVars, Basis
  <2>2. QED BY <2>1 DEF Strolls, Untouched, Session, Plain
<1>5. CASE Join(c)
  <2>1. /\ UNCHANGED <<psem, key, got>> /\ client[c] = "join" /\ client'[c] = "step3"
        /\ \/ UNCHANGED priv
           \/ priv' = [priv EXCEPT ![key[c]] = Zeroed]
    BY <1>1, <1>5 DEF Join, ClientAt, still, semVars, Basis
  <2>2. QED BY <1>2, <2>1 DEF Writes, Session
<1>6. CASE Send(c) \/ Exit(c)
  <2>1. /\ UNCHANGED <<psem, key, got>> /\ client[c] = "ready"
        /\ \/ InSegment(c, Message("request", c)) /\ client'[c] = "send"
           \/ InSegment(c, Message("exit", c)) /\ client'[c] = "exit"
    BY <1>1, <1>6 DEF Send, Exit, send_exit, ClientAt, still, semVars, Basis
  <2>2. client[c] \in Session /\ key[c] \in Child
    BY <1>3, <2>1 DEF Session
  <2>3. QED BY <1>2, <2>1, <2>2 DEF Writes, InSegment
<1>7. CASE Sent(c) \/ ExitSent(c)
  <2>1. /\ UNCHANGED <<priv, key, got>> /\ SignalServer(c)
        /\ \/ client[c] = "send" /\ client'[c] = "wait"
           \/ client[c] = "exit" /\ client'[c] = "end"
    BY <1>1, <1>7 DEF Sent, ExitSent, ClientAt, memoryVars, Basis
  <2>2. client[c] \in Session /\ key[c] \in Child
    BY <1>3, <2>1 DEF Session
  <2>3. CASE key[c] \in there
    <3>1. PrivUp(key[c], "SEM_CLIENT") BY <2>1, <2>3 DEF SignalServer
    <3>2. QED BY <1>1, <1>2, <2>1, <2>2, <3>1, PrivFacts DEF Signals
  <2>4. CASE key[c] \notin there
    BY <2>1, <2>2, <2>4 DEF SignalServer, still, semVars, Signals
  <2>5. QED BY <2>3, <2>4
<1>8. CASE TakeAnswer(c)
  <2>1. /\ UNCHANGED <<priv, key>> /\ client[c] = "wait" /\ client'[c] = "ready"
        /\ got'[c] = priv[key[c]]
    BY <1>1, <1>2, <1>8 DEF TakeAnswer, ClientAt, memoryVars, Basis
  <2>2. client[c] \in Session /\ key[c] \in Child
    BY <1>3, <2>1 DEF Session
  <2>3. CASE key[c] \in there
    <3>1. PrivDown(key[c], "SEM_SERVER") BY <1>8, <2>3 DEF TakeAnswer
    <3>2. QED BY <1>1, <1>2, <2>1, <2>2, <3>1, PrivFacts DEF Receives
  <2>4. CASE key[c] \notin there
    BY <1>8, <2>1, <2>2, <2>4 DEF TakeAnswer, still, semVars, Receives
  <2>5. QED BY <2>3, <2>4
<1>9. CASE Abandoned(c)
  BY <1>9 DEF Abandoned, Dance, OneConnects
<1>10. QED
  BY <1>4, <1>5, <1>6, <1>7, <1>8, <1>9 DEF ClientWorks, ConnectStep

\* So is its end.
LEMMA EndSession ==
    ASSUME IInv, Dance, Keyed, "server" \notin amiss, NEW c \in Client, ClientEnds(c), ~Crash(c)
    PROVE  /\ client[c] \in {"end", "end of input"} /\ key[c] \in Child
           /\ Leaves(c, key[c])
           /\ UNCHANGED <<parent, cliCount, child, seen, key, got, there>>
           /\ \A d \in Client \ {c} : client'[d] = client[d]
<1>1. Basis /\ TypeOK
  BY BasisHolds DEF IInv
<1>2. client[c] \in {"end", "end of input"}
  BY CalmEnds DEF ClientEnds
<1>3. key[c] \in Child
  BY <1>2 DEF Keyed, Session
<1>4. /\ UNCHANGED <<parent, cliCount, child, seen, key, got, priv, there>>
      /\ client' = [client EXCEPT ![c] = "down"]
      /\ \/ UNCHANGED psem
         \/ \E n \in Nat : /\ key[c] \in there /\ n <= psem[key[c]]["SEM_CLIENT"]
                           /\ psem' = [psem EXCEPT ![key[c]]["SEM_CLIENT"] = n]
  BY <1>1, ClientEndEffects
<1>5. /\ psem \in [Child -> [Private -> Nat]]
      /\ "SEM_CLIENT" \in Private /\ "SEM_SERVER" \in Private
  BY <1>1 DEF TypeOK, Private
<1>6. psem[key[c]] \in [Private -> Nat] /\ psem[key[c]]["SEM_CLIENT"] \in Nat
  BY <1>3, <1>5
<1>7. /\ \A j \in Child \ {key[c]} : psem'[j] = psem[j]
      /\ psem'[key[c]]["SEM_SERVER"] = psem[key[c]]["SEM_SERVER"]
      /\ psem'[key[c]]["SEM_CLIENT"] <= psem[key[c]]["SEM_CLIENT"]
      /\ psem'[key[c]]["SEM_CLIENT"] \in Nat
  <2>1. CASE UNCHANGED psem
    BY <1>6, <2>1
  <2>2. ASSUME NEW n \in Nat, n <= psem[key[c]]["SEM_CLIENT"],
               psem' = [psem EXCEPT ![key[c]]["SEM_CLIENT"] = n]
        PROVE  /\ \A j \in Child \ {key[c]} : psem'[j] = psem[j]
               /\ psem'[key[c]]["SEM_SERVER"] = psem[key[c]]["SEM_SERVER"]
               /\ psem'[key[c]]["SEM_CLIENT"] = n
    BY <1>3, <1>5, <1>6, <2>2
  <2>3. QED BY <1>4, <2>1, <2>2
<1>8. QED BY <1>1, <1>2, <1>3, <1>4, <1>7 DEF Leaves, Basis

-----------------------------------------------------------------------------
(* One command or one answer at a time.                                    *)

\* Steps that a session does not notice.
LEMMA ChannelFrame ==
    ASSUME NEW k \in Child, Channel(k), Same(k),
           \/ child'[k] = child[k]
           \/ /\ child[k] \notin Busy /\ child'[k] \notin Busy
              /\ child'[k] \in {"none"} \cup Forking => child[k] \in {"none"} \cup Forking,
           \A c \in Client :
              /\ Owns(c, k)' <=> Owns(c, k)
              /\ Owns(c, k) => \/ client'[c] = client[c]
                               \/ client[c] \in Plain /\ client'[c] \in Plain \cup {"wait"}
    PROVE  Channel(k)'
<1>1. /\ psem'[k] = psem[k] /\ priv'[k] = priv[k] /\ seen'[k] = seen[k]
      /\ child'[k] \in Busy \/ child[k] \in Busy => child'[k] = child[k]
  BY DEF Same
<1>2. (Void(k)' <=> Void(k)) /\ OneToken(k)'
  BY <1>1 DEF OneToken, Void, Channel
<1>3. (Requested(k)' <=> Requested(k)) /\ (Answering(k)' <=> Answering(k))
  BY <1>1 DEF Requested, Answering, Busy
<1>4. ASSUME NEW c \in Client, Owns(c, k)' PROVE Turn(c, k)'
  <2>1. Owns(c, k) /\ Turn(c, k) BY <1>4 DEF Channel
  <2>2. child'[k] \notin {"none"} \cup Forking BY <2>1 DEF Turn
  <2>3. CASE client'[c] = client[c]
    <3>1. k \in there => k \in there' BY DEF Same
    <3>2. child'[k] = "execute" => child[k] = "execute" BY <1>1 DEF Busy
    <3>3. QED BY <1>1, <1>2, <1>3, <2>1, <2>2, <2>3, <3>1, <3>2 DEF Turn
  <2>4. CASE client[c] \in Plain /\ client'[c] \in Plain \cup {"wait"}
    <3>1. Void(k) /\ child[k] \notin Busy /\ k \in there'
      BY <2>1, <2>4 DEF Turn, Plain, Same
    <3>2. Void(k)' /\ child'[k] \notin Busy BY <1>1, <1>2, <3>1
    <3>3. ~Requested(k)' /\ ~Answering(k)' /\ child'[k] # "execute"
      BY <3>2 DEF Void, Requested, Answering, Busy
    <3>4. QED BY <2>2, <2>4, <3>1, <3>2, <3>3 DEF Turn, Plain
  <2>5. QED BY <2>1, <2>3, <2>4
<1>5. ASSUME LeftAlone(k)' PROVE Parting(k)'
  <2>1. LeftAlone(k) BY <1>5 DEF LeftAlone, Plain
  <2>2. QED BY <1>1, <1>3, <2>1 DEF Channel, Parting, Busy
<1>6. QED BY <1>2, <1>4, <1>5 DEF Channel

\* A session with its client.
LEMMA ChannelOf ==
    ASSUME Keyed', NEW k \in Child, NEW c \in Client, Owns(c, k)', OneToken(k)', Turn(c, k)',
           client'[c] = "end" => Parting(k)'
    PROVE  Channel(k)'
<1>1. ASSUME NEW d \in Client, Owns(d, k)' PROVE d = c
  BY <1>1 DEF Keyed, Owns
<1>2. LeftAlone(k)' => Parting(k)'
  BY DEF LeftAlone
<1>3. QED BY <1>1, <1>2 DEF Channel

\* What a child does with a command, it does for the client of its session.
LEMMA ChildChannel ==
    ASSUME TypeOK, Keyed, Keyed', NEW k \in Child, Channel(k), UNCHANGED <<client, key>>,
           \/ Creates(k) \/ Takes(k) \/ Copies(k) \/ Answers(k) \/ Sends(k) \/ Finishes(k)
    PROVE  Channel(k)'
<1>1. psem[k]["SEM_CLIENT"] \in Nat /\ psem[k]["SEM_SERVER"] \in Nat
  BY PrivFacts DEF Private
<1>2. /\ \A c \in Client : Owns(c, k)' <=> Owns(c, k)
      /\ \A c \in Client : client'[c] = client[c]
      /\ LeftAlone(k)' <=> LeftAlone(k)
  BY DEF Owns, LeftAlone
<1>3. /\ OneToken(k)
      /\ \A c \in Client : Owns(c, k) => Turn(c, k)
      /\ LeftAlone(k) => Parting(k)
  BY DEF Channel
<1>4. CASE Creates(k)
  <2>1. Void(k)' /\ child[k] = "create" /\ child'[k] = "step2" BY <1>4 DEF Creates
  <2>2. \A c \in Client : ~Owns(c, k)' BY <1>2, <1>3, <2>1 DEF Turn, Forking
  <2>3. OneToken(k)' /\ Parting(k)'
    BY <2>1 DEF OneToken, Parting, Requested, Answering, Void
  <2>4. QED BY <2>2, <2>3 DEF Channel
<1>5. CASE Takes(k)
  <2>1. /\ child[k] = "serve" /\ child'[k] = "copy" /\ priv'[k] = priv[k] /\ (k \in there' <=> k \in there)
        /\ psem[k]["SEM_CLIENT"] > 0 /\ psem'[k]["SEM_CLIENT"] = psem[k]["SEM_CLIENT"] - 1
        /\ psem'[k]["SEM_SERVER"] = psem[k]["SEM_SERVER"]
    BY <1>5 DEF Takes
  <2>2. psem[k]["SEM_CLIENT"] = 1 /\ psem[k]["SEM_SERVER"] = 0
    BY <1>1, <1>3, <2>1 DEF OneToken
  <2>3. Void(k)' /\ Requested(k) /\ ~Void(k) /\ ~Answering(k)'
    BY <2>1, <2>2 DEF Void, Requested, Answering
  <2>4. OneToken(k)' BY <2>3 DEF OneToken, Void
  <2>5. ASSUME NEW c \in Client, Owns(c, k) PROVE Turn(c, k)'
    <3>1. Turn(c, k) BY <1>3, <2>5
    <3>2. client[c] \in {"wait", "end"} BY <2>3, <3>1 DEF Turn
    <3>3. QED BY <1>2, <2>1, <2>3, <3>1, <3>2 DEF Turn, Forking
  <2>6. LeftAlone(k)' => Parting(k)'
    BY <1>2, <1>3, <2>1, <2>3 DEF Parting
  <2>7. QED BY <1>2, <2>4, <2>5, <2>6 DEF Channel
<1>6. CASE Copies(k)
  <2>1. /\ child[k] = "copy" /\ child'[k] = "execute" /\ seen'[k] = priv[k] /\ priv'[k] = priv[k]
        /\ psem'[k] = psem[k] /\ (k \in there' <=> k \in there)
    BY <1>6 DEF Copies
  <2>2. Void(k) /\ Void(k)' /\ Requested(k) /\ ~Requested(k)' /\ ~Answering(k)'
    BY <1>3, <2>1 DEF OneToken, Busy, Void, Requested, Answering
  <2>3. OneToken(k)' BY <2>2 DEF OneToken, Void
  <2>4. ASSUME NEW c \in Client, Owns(c, k) PROVE Turn(c, k)'
    <3>1. Turn(c, k) BY <1>3, <2>4
    <3>2. client[c] \in {"wait", "end"} BY <2>1, <3>1 DEF Turn, Busy
    <3>3. QED BY <1>2, <2>1, <2>2, <3>1, <3>2 DEF Turn, Forking
  <2>5. LeftAlone(k)' => Parting(k)'
    BY <1>2, <1>3, <2>1, <2>2 DEF Parting
  <2>6. QED BY <1>2, <2>3, <2>4, <2>5 DEF Channel
<1>7. CASE Answers(k)
  <2>1. /\ child[k] = "execute" /\ child'[k] = "answer" /\ seen[k].kind # "exit"
        /\ priv'[k] = Message("answer", seen[k].of)
        /\ psem'[k] = psem[k] /\ (k \in there' <=> k \in there)
    BY <1>7 DEF Answers
  <2>2. PICK c \in Client : Owns(c, k) /\ client[c] # "end"
    BY <1>3, <2>1 DEF Parting, LeftAlone
  <2>3. Turn(c, k) BY <1>3, <2>2
  <2>4. client[c] = "wait" /\ seen[k] = Message("request", c)
    BY <2>1, <2>2, <2>3 DEF Turn, Busy
  <2>5. priv'[k] = Message("answer", c) BY <2>1, <2>4 DEF Message
  <2>6. Void(k)' BY <1>3, <2>1 DEF OneToken, Busy, Void
  <2>7. OneToken(k)' /\ ~Requested(k)'
    BY <2>1, <2>6 DEF OneToken, Void, Requested
  <2>8. Turn(c, k)'
    BY <1>2, <2>1, <2>3, <2>4, <2>5, <2>7 DEF Turn, Forking
  <2>9. QED BY <1>2, <2>2, <2>7, <2>8, ChannelOf
<1>8. CASE Sends(k)
  <2>1. /\ child[k] = "answer" /\ child'[k] = "serve" /\ priv'[k] = priv[k] /\ (k \in there' <=> k \in there)
        /\ psem'[k]["SEM_SERVER"] = psem[k]["SEM_SERVER"] + 1
        /\ psem'[k]["SEM_CLIENT"] = psem[k]["SEM_CLIENT"]
    BY <1>8 DEF Sends
  <2>2. psem'[k]["SEM_CLIENT"] = 0 /\ psem'[k]["SEM_SERVER"] = 1 /\ Answering(k)
    BY <1>3, <2>1 DEF OneToken, Busy, Void, Answering
  <2>3. PICK c \in Client : Owns(c, k) /\ client[c] # "end"
    BY <1>3, <2>2 DEF Parting, LeftAlone
  <2>4. Turn(c, k) BY <1>3, <2>3
  <2>5. client[c] = "wait" BY <2>1, <2>3, <2>4 DEF Turn, Busy
  <2>6. OneToken(k)' /\ ~Requested(k)'
    BY <2>1, <2>2 DEF OneToken, Requested, Busy
  <2>7. Turn(c, k)'
    BY <1>2, <2>1, <2>2, <2>4, <2>5, <2>6 DEF Turn, Forking
  <2>8. QED BY <1>2, <2>3, <2>6, <2>7, ChannelOf
<1>9. CASE Finishes(k)
  <2>1. /\ child[k] = "execute" /\ child'[k] \in {"serve", "gone"} /\ psem'[k] = psem[k]
        /\ k \in there => k \in there' \/ seen[k].kind \in {"exit", "zero"}
    BY <1>9 DEF Finishes
  <2>2. Void(k)' BY <1>3, <2>1 DEF OneToken, Busy, Void
  <2>3. ~Requested(k)' /\ ~Answering(k)' /\ OneToken(k)'
    BY <2>1, <2>2 DEF Requested, Answering, OneToken, Void
  <2>4. ASSUME NEW c \in Client, Owns(c, k) PROVE Turn(c, k)'
    <3>1. Turn(c, k) BY <1>3, <2>4
    <3>2. client[c] \in {"wait", "end"} BY <2>1, <3>1 DEF Turn, Busy
    <3>3. client[c] = "wait" => k \in there'
      <4>1. client[c] = "wait" => seen[k].kind = "request"
        BY <2>1, <3>1 DEF Turn, Message
      <4>2. QED BY <2>1, <3>1, <4>1 DEF Turn
    <3>4. QED BY <1>2, <2>1, <2>3, <3>1, <3>2, <3>3 DEF Turn, Forking
  <2>5. Parting(k)' BY <2>1, <2>3 DEF Parting
  <2>6. QED BY <1>2, <2>3, <2>4, <2>5 DEF Channel
<1>10. QED BY <1>4, <1>5, <1>6, <1>7, <1>8, <1>9

\* So does a client in its session.
LEMMA ClientChannel ==
    ASSUME TypeOK, Keyed', NEW c \in Client, client[c] \in Session, NEW k \in Child, key[c] = k,
           Channel(k), UNCHANGED <<child, seen, there>>,
           Writes(c, k) \/ Signals(c, k) \/ Receives(c, k)
    PROVE  Channel(k)'
<1>1. psem[k]["SEM_CLIENT"] \in Nat /\ psem[k]["SEM_SERVER"] \in Nat
  BY PrivFacts DEF Private
<1>2. OneToken(k) /\ Turn(c, k)
  BY DEF Channel, Owns
<1>3. CASE Writes(c, k)
  <2>1. /\ psem'[k] = psem[k] /\ key'[c] = k
        /\ \/ client[c] = "join" /\ client'[c] = "step3"
           \/ client[c] = "ready" /\ client'[c] = "send" /\ priv'[k] = Message("request", c)
           \/ client[c] = "ready" /\ client'[c] = "exit" /\ priv'[k] = Message("exit", c)
    BY <1>3 DEF Writes
  <2>2. Owns(c, k)' BY <2>1 DEF Owns, Session
  <2>3. (Void(k)' <=> Void(k)) /\ OneToken(k)' BY <1>2, <2>1 DEF OneToken, Void
  <2>4. Turn(c, k)' BY <1>2, <2>1, <2>3 DEF Turn
  <2>5. QED BY <2>1, <2>2, <2>3, <2>4, ChannelOf
<1>4. CASE Signals(c, k)
  <2>1. /\ priv'[k] = priv[k] /\ key'[c] = k /\ k \in there
        /\ \/ client[c] = "send" /\ client'[c] = "wait"
           \/ client[c] = "exit" /\ client'[c] = "end"
        /\ psem'[k]["SEM_CLIENT"] = psem[k]["SEM_CLIENT"] + 1
        /\ psem'[k]["SEM_SERVER"] = psem[k]["SEM_SERVER"]
    BY <1>2, <1>4 DEF Signals, Turn
  <2>2. Void(k) /\ child[k] \notin Busy BY <1>2, <2>1 DEF Turn
  <2>3. psem'[k]["SEM_CLIENT"] = 1 /\ psem'[k]["SEM_SERVER"] = 0
    BY <2>1, <2>2 DEF Void
  <2>4. Owns(c, k)' BY <2>1 DEF Owns, Session
  <2>5. OneToken(k)' /\ ~Answering(k)' /\ child'[k] # "execute" /\ child'[k] \notin Busy
    BY <2>2, <2>3 DEF OneToken, Answering, Busy
  <2>6. Turn(c, k)' BY <1>2, <2>1, <2>5 DEF Turn
  <2>7. client'[c] = "end" => Parting(k)'
    <3>1. client'[c] = "end" => priv'[k].kind = "exit" BY <1>2, <2>1 DEF Turn, Message
    <3>2. QED BY <2>5, <3>1 DEF Parting
  <2>8. QED BY <2>4, <2>5, <2>6, <2>7, ChannelOf
<1>5. CASE Receives(c, k)
  <2>1. /\ key'[c] = k /\ k \in there /\ client[c] = "wait" /\ client'[c] = "ready"
        /\ psem[k]["SEM_SERVER"] > 0
        /\ psem'[k]["SEM_SERVER"] = psem[k]["SEM_SERVER"] - 1
        /\ psem'[k]["SEM_CLIENT"] = psem[k]["SEM_CLIENT"]
    BY <1>2, <1>5 DEF Receives, Turn
  <2>2. child[k] \notin Busy /\ psem[k]["SEM_SERVER"] = 1 /\ psem[k]["SEM_CLIENT"] = 0
    BY <1>1, <1>2, <2>1 DEF OneToken, Void
  <2>3. psem'[k]["SEM_CLIENT"] = 0 /\ psem'[k]["SEM_SERVER"] = 0 BY <2>1, <2>2
  <2>4. Owns(c, k)' BY <2>1 DEF Owns, Session
  <2>5. OneToken(k)' /\ Void(k)' BY <2>3 DEF OneToken, Void
  <2>6. Turn(c, k)' BY <1>2, <2>1, <2>2, <2>5 DEF Turn
  <2>7. QED BY <2>1, <2>4, <2>5, <2>6, ChannelOf
<1>6. QED BY <1>3, <1>4, <1>5

\* A semaphore that is lowered.
LEMMA Lowered ==
    \A m, n \in Nat : n <= m => (m <= 1 => n <= 1) /\ (m = 0 => n = 0) /\ (n > 0 => m > 0)
OBVIOUS

\* Nothing goes on in a session where nothing waits and the child is idle.
LEMMA VoidSession ==
    ASSUME NEW k \in Child, Void(k), child[k] \notin Busy
    PROVE  ~Requested(k) /\ ~Answering(k) /\ child[k] # "execute"
BY DEF Void, Requested, Answering, Busy

\* What a client leaves behind when it ends is its OP_EXIT at most.
LEMMA EndChannel ==
    ASSUME TypeOK, Keyed, NEW c \in Client, client[c] \in {"end", "end of input"},
           NEW k \in Child, key[c] = k, Channel(k), Leaves(c, k),
           UNCHANGED <<child, seen, key>>, \A d \in Client \ {c} : client'[d] = client[d]
    PROVE  Channel(k)'
<1>1. psem[k]["SEM_CLIENT"] \in Nat /\ psem[k]["SEM_SERVER"] \in Nat
  BY PrivFacts DEF Private
<1>2. /\ priv'[k] = priv[k] /\ client'[c] = "down"
      /\ psem'[k]["SEM_SERVER"] = psem[k]["SEM_SERVER"]
      /\ psem'[k]["SEM_CLIENT"] <= psem[k]["SEM_CLIENT"] /\ psem'[k]["SEM_CLIENT"] \in Nat
  BY DEF Leaves
<1>3. Owns(c, k) /\ OneToken(k) /\ Turn(c, k)
  BY DEF Channel, Owns, Session
<1>4. OneToken(k)'
  <2>2. /\ psem[k]["SEM_CLIENT"] <= 1 => psem'[k]["SEM_CLIENT"] <= 1
        /\ psem[k]["SEM_CLIENT"] = 0 => psem'[k]["SEM_CLIENT"] = 0
    BY <1>1, <1>2, Lowered
  <2>3. psem'[k]["SEM_CLIENT"] <= 1 /\ psem'[k]["SEM_SERVER"] <= 1
    BY <1>2, <1>3, <2>2 DEF OneToken
  <2>4. psem'[k]["SEM_CLIENT"] = 0 \/ psem'[k]["SEM_SERVER"] = 0
    BY <1>2, <1>3, <2>2 DEF OneToken
  <2>5. child'[k] \in Busy => Void(k)'
    BY <1>2, <1>3, <2>2 DEF OneToken, Void
  <2>6. QED BY <2>3, <2>4, <2>5 DEF OneToken
<1>5. \A d \in Client : ~Owns(d, k)'
  <2>1. \A d \in Client : Owns(d, k) => d = c BY <1>3 DEF Keyed, Owns
  <2>2. QED BY <1>2, <2>1 DEF Owns, Session
<1>6. Parting(k)
  <2>1. CASE client[c] = "end"
    <3>1. LeftAlone(k) BY <1>3, <2>1 DEF LeftAlone, Keyed, Owns
    <3>2. QED BY <3>1 DEF Channel
  <2>2. CASE client[c] = "end of input"
    <3>1. Void(k) /\ child[k] \notin Busy BY <1>3, <2>2 DEF Turn
    <3>2. ~Requested(k) /\ ~Answering(k) /\ child[k] # "execute"
      BY <3>1, VoidSession
    <3>3. QED BY <3>2 DEF Parting
  <2>3. QED BY <2>1, <2>2
<1>7. (Requested(k)' => Requested(k)) /\ (Answering(k)' => Answering(k))
  <2>2. psem'[k]["SEM_CLIENT"] > 0 => psem[k]["SEM_CLIENT"] > 0
    BY <1>1, <1>2, Lowered
  <2>3. QED BY <1>2, <2>2 DEF Requested, Answering
<1>8. Parting(k)' BY <1>2, <1>6, <1>7 DEF Parting
<1>9. QED BY <1>4, <1>5, <1>8 DEF Channel

\* The sessions go on.
LEMMA ChannelStep ==
    ASSUME IInv, Dance, Keyed, Fresh, \A k \in Child : Channel(k), [Next]_vars, Calm', Keyed'
    PROVE  \A k \in Child : Channel(k)'
<1>1. /\ "server" \notin amiss /\ ~int_handler
      /\ \A k \in Child : ~int_handler_child(k)
      /\ \A c \in Client : ~int_handler_client(c) /\ ~Abandon(c) /\ ~Crash(c)
  <2>1. \A k \in Child : int_handler_child(k) => ChildEnds(k) BY DEF ChildEnds
  <2>2. QED BY <2>1, CalmStep
<1>2. Basis /\ TypeOK /\ Ups
  BY <1>1, BasisHolds DEF IInv
<1>3. ASSUME UNCHANGED <<psem, priv, seen, there, client, key>>,
             \A k \in Child : \/ child'[k] = child[k]
                              \/ child[k] = "none" /\ child'[k] = "step1"
      PROVE  \A k \in Child : Channel(k)'
  <2>1. ASSUME NEW k \in Child PROVE Channel(k)'
    <3>1. Same(k) BY <1>3 DEF Same
    <3>2. \A c \in Client : (Owns(c, k)' <=> Owns(c, k)) /\ client'[c] = client[c]
      BY <1>3 DEF Owns
    <3>3. \/ child'[k] = child[k]
          \/ child[k] \notin Busy /\ child'[k] \notin Busy /\ child[k] \in {"none"} \cup Forking
      BY <1>3 DEF Busy
    <3>4. QED BY <3>1, <3>2, <3>3, ChannelFrame
  <2>2. QED BY <2>1
<1>4. CASE ServerStep
  <2>1. UNCHANGED <<psem, priv, seen, there, client, key>>
    BY <1>4 DEF ServerStep, ResetClient, ResetServer, Accept, WaitSync, sem_set, ServerDown, clientVars,
                memoryVars
  <2>2. CASE Accept
    <3>1. child' = [child EXCEPT ![cliCount + 1] = "step1"]
      BY <2>2 DEF Accept, ChildAt
    <3>2. \A k \in Child : k = cliCount + 1 => child[k] = "none"
      BY <1>2 DEF IInv, Forked, Basis
    <3>3. QED BY <1>2, <1>3, <2>1, <3>1, <3>2 DEF Basis
  <2>3. CASE ResetClient \/ ResetServer \/ WaitSync
    BY <1>3, <2>1, <2>3 DEF ResetClient, ResetServer, WaitSync
  <2>4. QED BY <1>4, <2>2, <2>3 DEF ServerStep
<1>5. CASE UNCHANGED vars
  BY <1>3, <1>5 DEF vars, serverVars, clientVars, memoryVars, still, semVars
<1>6. ASSUME NEW k \in Child, ChildWorks(k) \/ ChildEnds(k) PROVE \A j \in Child : Channel(j)'
  <2>1. ChildWorks(k) \/ ChildFails(k) \/ ChildExits(k)
    BY <1>1, <1>6, CalmEnds DEF ChildEnds
  <2>2. /\ UNCHANGED <<client, key>>
        /\ \A j \in Child \ {k} : Same(j) /\ child'[j] = child[j]
        /\ \/ Handshakes(k) \/ Creates(k) \/ Takes(k) \/ Copies(k) \/ Answers(k) \/ Sends(k)
           \/ Finishes(k)
    BY <1>2, <2>1, ChildSession
  <2>3. \A c \in Client, j \in Child : (Owns(c, j)' <=> Owns(c, j)) /\ client'[c] = client[c]
    BY <2>2 DEF Owns
  <2>4. ASSUME NEW j \in Child, j # k PROVE Channel(j)'
    BY <2>2, <2>3, <2>4, ChannelFrame
  <2>5. CASE Handshakes(k)
    <3>1. /\ Same(k) /\ child[k] \notin Busy /\ child'[k] \notin Busy
          /\ child'[k] \in {"none"} \cup Forking => child[k] \in Forking
      BY <2>5, Labels DEF Handshakes, Busy
    <3>2. Channel(k)' BY <2>3, <3>1, ChannelFrame
    <3>3. QED BY <2>4, <3>2
  <2>6. CASE \/ Creates(k) \/ Takes(k) \/ Copies(k) \/ Answers(k) \/ Sends(k) \/ Finishes(k)
    BY <1>2, <2>2, <2>4, <2>6, ChildChannel
  <2>7. QED BY <2>2, <2>5, <2>6
<1>7. ASSUME NEW c \in Client, ClientWorks(c) PROVE \A j \in Child : Channel(j)'
  <2>1. /\ \A d \in Client \ {c} : client'[d] = client[d] /\ key'[d] = key[d]
        /\ UNCHANGED <<child, seen, there>>
    BY <1>1, <1>7, ClientKeys
  <2>2. CASE TakeKey(c)
    <3>1. /\ client[c] = "key" /\ client'[c] = "wipe" /\ key'[c] = cliCount
          /\ parent = "waitsync" /\ child[cliCount] = "step3"
          /\ cliCount \in there /\ cliCount \in Child
      BY <1>1, <2>2, KeyTaken
    <3>2. UNCHANGED <<psem, priv>>
      BY <2>2 DEF TakeKey, memoryVars, still, semVars
    <3>3. \A j \in Child : Same(j) /\ child'[j] = child[j] BY <2>1, <3>2 DEF Same
    <3>4. ASSUME NEW j \in Child, j # cliCount PROVE Channel(j)'
      <4>1. \A d \in Client : /\ Owns(d, j)' <=> Owns(d, j)
                              /\ Owns(d, j) => client'[d] = client[d]
        BY <2>1, <3>1, <3>4 DEF Owns, Session
      <4>2. QED BY <3>3, <4>1, ChannelFrame
    <3>5. ASSUME NEW j \in Child, j = cliCount PROVE Channel(j)'
      <4>1. Void(j)' BY <3>1, <3>2, <3>5 DEF Fresh, Void
      <4>2. OneToken(j)' BY <4>1 DEF OneToken, Void
      <4>3. Turn(c, j)' BY <2>1, <3>1, <3>5, <4>1 DEF Turn, Forking, Busy
      <4>4. Owns(c, j)' BY <3>1, <3>5 DEF Owns, Session
      <4>5. QED BY <3>1, <4>2, <4>3, <4>4, ChannelOf
    <3>6. QED BY <3>4, <3>5
  <2>3. CASE Strolls(c)
    <3>1. ASSUME NEW j \in Child PROVE Channel(j)'
      <4>1. Same(j) /\ child'[j] = child[j] BY <2>1, <2>3 DEF Same, Strolls, Untouched
      <4>2. \A d \in Client : /\ Owns(d, j)' <=> Owns(d, j)
                              /\ Owns(d, j) => \/ client'[d] = client[d]
                                               \/ client[d] \in Plain /\ client'[d] \in Plain \cup {"wait"}
        BY <2>1, <2>3 DEF Owns, Strolls
      <4>3. QED BY <4>1, <4>2, ChannelFrame
    <3>2. QED BY <3>1
  <2>4. CASE client[c] \in Session /\ (Writes(c, key[c]) \/ Signals(c, key[c]) \/ Receives(c, key[c]))
    <3>1. key[c] \in Child BY <2>4 DEF Keyed
    <3>2. /\ key'[c] = key[c]
          /\ \A j \in Child \ {key[c]} : psem'[j] = psem[j] /\ priv'[j] = priv[j]
      BY <2>4 DEF Writes, Signals, Receives
    <3>3. ASSUME NEW j \in Child, j # key[c] PROVE Channel(j)'
      <4>1. Same(j) /\ child'[j] = child[j] BY <2>1, <3>2, <3>3 DEF Same
      <4>2. \A d \in Client : /\ Owns(d, j)' <=> Owns(d, j)
                              /\ Owns(d, j) => client'[d] = client[d]
        BY <2>1, <3>2, <3>3 DEF Owns
      <4>3. QED BY <4>1, <4>2, ChannelFrame
    <3>4. \A k \in Child : k = key[c] => Channel(k)'
      BY <1>2, <2>1, <2>4, ClientChannel
    <3>5. QED BY <3>3, <3>4
  <2>5. QED BY <1>1, <1>7, <2>2, <2>3, <2>4, ClientSession
<1>8. ASSUME NEW c \in Client, ClientEnds(c) PROVE \A j \in Child : Channel(j)'
  <2>1. /\ client[c] \in {"end", "end of input"} /\ key[c] \in Child /\ Leaves(c, key[c])
        /\ UNCHANGED <<child, seen, key, there>>
        /\ \A d \in Client \ {c} : client'[d] = client[d]
    BY <1>1, <1>8, EndSession
  <2>2. ASSUME NEW j \in Child, j # key[c] PROVE Channel(j)'
    <3>1. Same(j) /\ child'[j] = child[j] BY <2>1, <2>2 DEF Same, Leaves
    <3>2. \A d \in Client : /\ Owns(d, j)' <=> Owns(d, j)
                            /\ Owns(d, j) => client'[d] = client[d]
      BY <2>1, <2>2 DEF Owns
    <3>3. QED BY <3>1, <3>2, ChannelFrame
  <2>3. \A k \in Child : k = key[c] => Channel(k)'
    BY <1>2, <2>1, EndChannel
  <2>4. QED BY <2>2, <2>3
<1>9. ASSUME NEW c \in Client, Attach(c) PROVE \A j \in Child : Channel(j)'
  <2>1. /\ UNCHANGED <<child, seen, priv, there, psem>>
        /\ client[c] = "down" /\ client'[c] \in {"queue", "stuck"}
        /\ \A d \in Client \ {c} : client'[d] = client[d] /\ key'[d] = key[d]
    BY <1>2, <1>9 DEF Attach, ClientAt, serverVars, semVars, Basis
  <2>2. ASSUME NEW j \in Child PROVE Channel(j)'
    <3>1. Same(j) /\ child'[j] = child[j] BY <2>1 DEF Same
    <3>2. \A d \in Client : /\ Owns(d, j)' <=> Owns(d, j)
                            /\ Owns(d, j) => client'[d] = client[d]
      BY <2>1 DEF Owns, Session
    <3>3. QED BY <3>1, <3>2, ChannelFrame
  <2>3. QED BY <2>2
<1>10. QED BY <1>1, <1>4, <1>5, <1>6, <1>7, <1>8, <1>9, NextCases

-----------------------------------------------------------------------------
(* A session begins with nothing in it, and every client gets its answers. *)

\* Which sessions a step touches: a new one that it empties, the one of a child
\* that serves, and the one of a client that has a key.
LEMMA Touched ==
    ASSUME IInv, Dance, Sessions, [Next]_vars, Calm', NEW k \in Child
    PROVE  /\ psem'[k] = psem[k] \/ Void(k)' \/ child[k] \in {"serve", "answer"}
              \/ \E c \in Client : Owns(c, k)
           /\ child'[k] \in {"none"} \cup Forking => child[k] \in {"none"} \cup Forking
<1>1. /\ "server" \notin amiss /\ ~int_handler
      /\ \A j \in Child : ~int_handler_child(j)
      /\ \A c \in Client : ~int_handler_client(c) /\ ~Abandon(c) /\ ~Crash(c)
  <2>1. \A j \in Child : int_handler_child(j) => ChildEnds(j) BY DEF ChildEnds
  <2>2. QED BY <2>1, CalmStep
<1>2. Basis /\ TypeOK /\ Keyed
  BY <1>1, BasisHolds DEF IInv, Sessions
<1>3. CASE ServerStep
  <2>1. UNCHANGED psem
    BY <1>3 DEF ServerStep, ResetClient, ResetServer, Accept, WaitSync, sem_set, ServerDown
  <2>2. child'[k] = child[k] \/ k = cliCount + 1
    BY <1>2, <1>3 DEF ServerStep, ResetClient, ResetServer, Accept, WaitSync, ChildAt, Basis
  <2>3. k = cliCount + 1 => child[k] = "none"
    BY <1>2 DEF IInv, Forked, Basis
  <2>4. QED BY <2>1, <2>2, <2>3
<1>4. CASE UNCHANGED vars
  BY <1>4 DEF vars, serverVars, still, semVars
<1>5. ASSUME NEW j \in Child, ChildWorks(j) \/ ChildEnds(j)
      PROVE  /\ psem'[k] = psem[k] \/ Void(k)' \/ child[k] \in {"serve", "answer"}
             /\ child'[k] \in {"none"} \cup Forking => child[k] \in {"none"} \cup Forking
  <2>1. ChildWorks(j) \/ ChildFails(j) \/ ChildExits(j)
    BY <1>1, <1>5, CalmEnds DEF ChildEnds
  <2>2. /\ \A i \in Child \ {j} : Same(i) /\ child'[i] = child[i]
        /\ \/ Handshakes(j) \/ Creates(j) \/ Takes(j) \/ Copies(j) \/ Answers(j) \/ Sends(j)
           \/ Finishes(j)
    BY <1>2, <2>1, ChildSession
  <2>3. CASE k # j
    BY <2>2, <2>3 DEF Same
  <2>4. CASE k = j
    BY <2>2, <2>4, Labels DEF Same, Handshakes, Creates, Takes, Copies, Answers, Sends, Finishes, Forking
  <2>5. QED BY <2>3, <2>4
<1>6. ASSUME NEW c \in Client, ClientWorks(c)
      PROVE  /\ child'[k] = child[k]
             /\ psem'[k] = psem[k] \/ Owns(c, k)
  <2>1. UNCHANGED child
    BY <1>1, <1>6, ClientKeys
  <2>2. CASE TakeKey(c)
    BY <2>1, <2>2 DEF TakeKey, still, semVars
  <2>3. CASE ~TakeKey(c)
    <3>1. \/ Strolls(c)
          \/ client[c] \in Session /\ (Writes(c, key[c]) \/ Signals(c, key[c]) \/ Receives(c, key[c]))
      BY <1>1, <1>2, <1>6, <2>3, ClientSession
    <3>2. QED BY <2>1, <3>1 DEF Strolls, Untouched, Writes, Signals, Receives, Owns
  <2>4. QED BY <2>2, <2>3
<1>7. ASSUME NEW c \in Client, ClientEnds(c)
      PROVE  /\ child'[k] = child[k]
             /\ psem'[k] = psem[k] \/ Owns(c, k)
  <2>1. /\ client[c] \in {"end", "end of input"} /\ Leaves(c, key[c]) /\ UNCHANGED child
    BY <1>1, <1>2, <1>7, EndSession
  <2>2. QED BY <2>1 DEF Leaves, Owns, Session
<1>8. ASSUME NEW c \in Client, Attach(c)
      PROVE  UNCHANGED <<psem, child>>
  BY <1>8 DEF Attach, serverVars, semVars
<1>9. QED BY <1>1, <1>3, <1>4, <1>5, <1>6, <1>7, <1>8, NextCases

\* Who was where before a client waits for its key, or has it.
LEMMA Before ==
    ASSUME IInv, Dance, [Next]_vars, Calm', parent' = "waitsync",
           NEW c \in Client, client'[c] \in {"step2", "key"}
    PROVE  \/ cliCount' = cliCount + 1 /\ UNCHANGED psem
           \/ /\ parent = "waitsync" /\ cliCount' = cliCount
              /\ client[c] \in {"step1", "step2", "key"}
<1>1. /\ "server" \notin amiss /\ ~int_handler
      /\ \A d \in Client : ~int_handler_client(d) /\ ~Abandon(d)
  BY CalmStep
<1>2. Basis /\ TypeOK /\ Ups
  BY <1>1, BasisHolds DEF IInv
<1>3. CASE ServerStep
  BY <1>3 DEF ServerStep, ResetClient, ResetServer, Accept, WaitSync, ServerAt, ServerDown, Basis
<1>4. CASE UNCHANGED vars
  BY <1>4 DEF vars, serverVars, clientVars
<1>5. ASSUME NEW k \in Child, ChildWorks(k) \/ ChildEnds(k)
      PROVE  UNCHANGED <<parent, cliCount, client>>
  BY <1>2, <1>5, ChildEffects, ChildEndEffects
<1>6. ASSUME NEW d \in Client, ClientWorks(d)
      PROVE  UNCHANGED <<parent, cliCount>> /\ client[c] \in {"step1", "step2", "key"}
  <2>1. /\ UNCHANGED <<parent, cliCount>>
        /\ \A e \in Client \ {d} : client'[e] = client[e]
        /\ \/ TakeKey(d)
           \/ client'[d] \in {"step2", "key"} => client[d] \in {"step1", "step2"}
    BY <1>1, <1>6, ClientKeys
  <2>2. TakeKey(d) => client'[d] = "wipe"
    BY <1>1, KeyTaken
  <2>3. QED BY <2>1, <2>2
<1>7. ASSUME NEW d \in Client, ClientEnds(d) \/ Attach(d)
      PROVE  UNCHANGED <<parent, cliCount>> /\ client'[c] = client[c]
  <2>1. /\ UNCHANGED <<parent, cliCount>>
        /\ client'[d] \in {"down", "queue", "stuck"}
        /\ \A e \in Client \ {d} : client'[e] = client[e]
    BY <1>2, <1>7, ClientEndEffects DEF Attach, ClientAt, serverVars, Basis
  <2>2. QED BY <2>1
<1>8. QED BY <1>1, <1>3, <1>4, <1>5, <1>6, <1>7, NextCases

\* A session that has not begun stays empty.
LEMMA FreshStep ==
    ASSUME IInv, Dance, Sessions, [Next]_vars, Calm'
    PROVE  Fresh'
<1>1. /\ Keyed /\ Fresh /\ \A k \in Child : Channel(k)
  BY DEF Sessions
<1>2. "server" \notin amiss /\ Basis
  BY CalmStep, BasisHolds
<1>3. ASSUME NEW k \in Child, child'[k] \in {"none"} \cup Forking PROVE Void(k)'
  <2>1. child[k] \in {"none"} \cup Forking BY <1>3, Touched
  <2>2. Void(k) BY <1>1, <2>1 DEF Fresh
  <2>3. \A c \in Client : ~Owns(c, k) BY <1>1, <2>1 DEF Channel, Turn
  <2>4. child[k] \notin {"serve", "answer"} BY <2>1 DEF Forking
  <2>5. psem'[k] = psem[k] \/ Void(k)' BY <2>3, <2>4, Touched
  <2>6. QED BY <2>2, <2>5 DEF Void
<1>4. ASSUME NEW c \in Client, client'[c] \in {"step2", "key"}, parent' = "waitsync",
             NEW k \in Child, k = cliCount'
      PROVE  Void(k)'
  <2>1. CASE cliCount' = cliCount + 1 /\ UNCHANGED psem
    <3>1. child[k] = "none" BY <1>2, <1>4, <2>1 DEF IInv, Forked, Basis
    <3>2. QED BY <1>1, <2>1, <3>1 DEF Fresh, Void
  <2>2. CASE /\ parent = "waitsync" /\ cliCount' = cliCount
             /\ client[c] \in {"step1", "step2", "key"}
    <3>1. k = cliCount BY <1>4, <2>2
    <3>2. child[k] \in Forking \cup {"step3"} /\ (client[c] = "step1" => child[k] = "step1")
      <4>1. InStep(c) BY DEF Dance
      <4>2. client[c] \in Early BY <2>2 DEF Early
      <4>3. QED BY <2>2, <3>1, <4>1, <4>2, EarlyWhere DEF InStep, Waits
    <3>3. Void(k) BY <1>1, <2>2, <3>1, <3>2 DEF Fresh, Forking
    <3>4. \A d \in Client : ~Owns(d, k) BY <1>1, <2>2, <3>1 DEF Keyed
    <3>5. child[k] \notin {"serve", "answer"} BY <3>2 DEF Forking
    <3>6. psem'[k] = psem[k] \/ Void(k)' BY <3>4, <3>5, Touched
    <3>7. QED BY <3>3, <3>6 DEF Void
  <2>3. QED BY <1>4, <2>1, <2>2, Before
<1>5. parent' = "waitsync" => cliCount' \in Child
  <2>1. IInv' BY NextInv
  <2>2. cliCount' \in 0..MaxChild /\ (parent' = "waitsync" => cliCount' > 0) /\ MaxChild \in Nat
    BY <2>1, BoundAssumption DEF IInv, TypeOK, Forked
  <2>3. QED BY <2>2 DEF Child
<1>6. QED BY <1>3, <1>4, <1>5 DEF Fresh

\* What a client takes for an answer is its answer.
LEMMA AnswersStep ==
    ASSUME IInv, Dance, Sessions, [Next]_vars, Calm'
    PROVE  OwnAnswers'
<1>1. /\ "server" \notin amiss /\ ~int_handler
      /\ \A c \in Client : ~int_handler_client(c) /\ ~Abandon(c)
  BY CalmStep
<1>2. Basis /\ TypeOK /\ Ups /\ Keyed /\ OwnAnswers /\ \A k \in Child : Channel(k)
  BY <1>1, BasisHolds DEF IInv, Sessions
<1>3. CASE UNCHANGED got
  BY <1>2, <1>3 DEF OwnAnswers
<1>4. ASSUME NEW c \in Client, \A d \in Client \ {c} : got'[d] = got[d],
             got'[c] \in {got[c], Zeroed, Message("answer", c)}
      PROVE  OwnAnswers'
  BY <1>2, <1>4 DEF OwnAnswers
<1>5. ASSUME NEW c \in Client, ClientWorks(c) PROVE OwnAnswers'
  <2>1. CASE TakeKey(c)
    BY <1>3, <2>1 DEF TakeKey
  <2>2. CASE ~TakeKey(c)
    <3>1. \/ Strolls(c)
          \/ client[c] \in Session /\ (Writes(c, key[c]) \/ Signals(c, key[c]) \/ Receives(c, key[c]))
      BY <1>1, <1>2, <1>5, <2>2, ClientSession
    <3>2. \A d \in Client \ {c} : got'[d] = got[d]
      BY <1>2, <1>5 DEF ClientWorks, ConnectStep, PassQueue, WakeServer, Ask, WakeChild, WaitKey, TakeKey,
           Wipe, Join, Attached, FreeQueue, Sent, TakeAnswer, ExitSent, Abandoned, Send, SendTooLong, Exit,
           int_handler_client, Abandon, send_exit, EndOfInput, TypeOK
    <3>3. CASE Receives(c, key[c])
      <4>1. PICK k \in Child : k = key[c] BY <1>2, <3>1, <3>3 DEF Keyed, Receives, Session
      <4>2. Turn(c, k) /\ client[c] = "wait" /\ got'[c] = priv[k]
        BY <1>2, <3>3, <4>1 DEF Receives, Channel, Owns, Session
      <4>3. psem[k]["SEM_SERVER"] > 0
        BY <3>3, <4>1, <4>2 DEF Receives, Turn
      <4>4. got'[c] = Message("answer", c)
        BY <4>2, <4>3 DEF Turn, Answering
      <4>5. QED BY <1>4, <3>2, <4>4
    <3>4. CASE Strolls(c) \/ Writes(c, key[c]) \/ Signals(c, key[c])
      BY <1>4, <3>2, <3>4 DEF Strolls, Writes, Signals
    <3>5. QED BY <3>1, <3>3, <3>4
  <2>3. QED BY <2>1, <2>2
<1>6. ASSUME NEW c \in Client, Attach(c) PROVE OwnAnswers'
  <2>1. got' = [got EXCEPT ![c] = Zeroed] /\ got \in [Client -> Messages]
    BY <1>2, <1>6 DEF Attach, TypeOK
  <2>2. QED BY <1>4, <2>1
<1>7. ASSUME NEW c \in Client, ClientEnds(c) PROVE OwnAnswers'
  BY <1>2, <1>3, <1>7, ClientEndEffects
<1>8. ASSUME NEW k \in Child, ChildWorks(k) \/ ChildEnds(k) PROVE OwnAnswers'
  BY <1>2, <1>3, <1>8, ChildEffects, ChildEndEffects
<1>9. CASE ServerStep
  BY <1>3, <1>9 DEF ServerStep, ResetClient, ResetServer, Accept, WaitSync, clientVars
<1>10. CASE UNCHANGED vars
  BY <1>3, <1>10 DEF vars, clientVars
<1>11. QED BY <1>1, <1>5, <1>6, <1>7, <1>8, <1>9, <1>10, NextCases

\* The second part of the invariant holds at the start,
LEMMA InitSInv == Init => SInv
<1>. SUFFICES ASSUME Init PROVE Dance /\ Sessions
  BY DEF SInv
<1>. USE PublicNames
<1>1. /\ parent = "resetClient" /\ cliCount = 0
      /\ \A k \in Child : child[k] = "none" /\ Void(k)
      /\ \A c \in Client : client[c] = "down" /\ got[c] = Zeroed
      /\ \A p \in Process : undo[p] = NoUndo
  BY DEF Init, Void, Private
<1>2. Dance
  BY <1>1 DEF Dance, OneConnects, Partner, InStep, InSegments, Others, Connecting, Forking
<1>3. \A c \in Client : client[c] \notin Session
  BY <1>1 DEF Session
<1>4. Keyed
  BY <1>1, <1>3 DEF Keyed
<1>5. Fresh
  BY <1>1 DEF Fresh
<1>6. ASSUME NEW k \in Child PROVE Channel(k)
  <2>1. Void(k) /\ child[k] \notin Busy BY <1>1 DEF Busy
  <2>2. OneToken(k) BY <2>1 DEF OneToken, Void
  <2>3. Parting(k) BY <2>1, VoidSession DEF Parting
  <2>4. QED BY <1>3, <2>2, <2>3 DEF Channel, Owns
<1>7. OwnAnswers
  BY <1>1 DEF OwnAnswers
<1>8. QED BY <1>2, <1>4, <1>5, <1>6, <1>7 DEF Sessions

\* and is kept by every step.
LEMMA NextSInv == IInv /\ SInv /\ [Next]_vars => SInv'
<1>. SUFFICES ASSUME IInv, SInv, [Next]_vars, Calm' PROVE Dance' /\ Sessions'
  BY DEF SInv
<1>1. Calm BY CalmStep
<1>2. Dance /\ Sessions BY <1>1 DEF SInv
<1>3. Keyed /\ Fresh /\ \A k \in Child : Channel(k) BY <1>2 DEF Sessions
<1>4. Dance' BY <1>2, DanceStep
<1>5. Keyed' BY <1>2, <1>3, KeyedStep
<1>6. \A k \in Child : Channel(k)' BY <1>2, <1>3, <1>5, ChannelStep
<1>7. Fresh' /\ OwnAnswers' BY <1>2, FreshStep, AnswersStep
<1>8. QED BY <1>4, <1>5, <1>6, <1>7 DEF Sessions

\* The handshake and the sessions of every behaviour: as long as clients come
\* one at a time and nobody is interrupted, the four steps of ipc_connect,
\* ipc_accept and ipc_sync go hand in hand, and a session holds one command or
\* one answer at most, whatever is undone.
THEOREM SessionInvariance == Spec => []SInv
<1>1. Init => SInv BY InitSInv
<1>2. IInv /\ SInv /\ [Next]_vars => SInv' BY NextSInv
<1>3. QED BY <1>1, <1>2, Invariance, PTL DEF Spec

\* What the invariant says of the sessions.
LEMMA InvSessions == IInv /\ SInv => SessionsSound
<1>. SUFFICES ASSUME IInv, Dance, Sessions
              PROVE  SessionsApart /\ OwnAnswers /\ ServesCommands
  BY DEF SInv, SessionsSound, IInv, Calm
<1>1. Keyed /\ OwnAnswers /\ \A k \in Child : Channel(k)
  BY DEF Sessions
<1>2. SessionsApart
  <2>1. Connected \subseteq Session BY DEF Connected, Session
  <2>2. QED BY <1>1, <2>1 DEF SessionsApart, Keyed
<1>3. ServesCommands
  <2>1. SUFFICES ASSUME NEW k \in Child, child[k] = "execute"
                 PROVE  seen[k].kind \in {"request", "exit"}
    BY DEF ServesCommands
  <2>2. CASE LeftAlone(k)
    BY <1>1, <2>1, <2>2 DEF Channel, Parting
  <2>3. CASE ~LeftAlone(k)
    <3>1. PICK c \in Client : Owns(c, k) /\ client[c] # "end" BY <2>3 DEF LeftAlone
    <3>2. Turn(c, k) BY <1>1, <3>1 DEF Channel
    <3>3. seen[k] = Message("request", c) BY <2>1, <3>1, <3>2 DEF Turn, Busy
    <3>4. QED BY <3>3 DEF Message
  <2>4. QED BY <2>2, <2>3
<1>4. QED BY <1>1, <1>2, <1>3

\* As long as clients come one at a time and nobody is interrupted, two connected
\* clients never share a private segment, what a client takes for an answer is
\* the answer to its own command, and a child executes commands only: for any
\* number of clients, restarts and children, whatever is undone.
THEOREM SessionsSafety == Spec => []SessionsSound
BY Invariance, SessionInvariance, InvSessions, PTL
=============================================================================

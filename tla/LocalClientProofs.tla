------------------------- MODULE LocalClientProofs -------------------------
(***************************************************************************)
(* The safety properties of LocalClient.tla, for any number of local       *)
(* clients, from the invariant of DatabaseProofs.tla.                      *)
(***************************************************************************)
EXTENDS LocalClient, DatabaseProofs

Outside == {"down", "failed", "open", "idle"}

-----------------------------------------------------------------------------
(* The inductive invariant.                                                *)

\* The lock on the mutex file: one client holds it, and only that client
\* executes a datagram.  (db_create of db_open runs outside.)
Placed(c) ==
    /\ c \in holder <=> stage[c] = "inside"
    /\ stage[c] = "inside" => pc[c] \notin {"down", "failed", "open"} /\ req[c].op # "CREATE"
    /\ stage[c] = "blocked" => pc[c] = "idle"
    /\ stage[c] = "prompt" => pc[c] \in Outside \/ req[c].op = "CREATE"
Mutex ==
    /\ holder \in SUBSET Conn
    /\ stage \in [Conn -> {"prompt", "blocked", "inside"}]
    /\ careful \in BOOLEAN
    /\ \A c, d \in Conn : c \in holder /\ d \in holder => c = d
    /\ \A c \in Conn : Placed(c)

\* A lock outlives a request only in an open transaction; no statement drops
\* a table.
Leftover(c) ==
    /\ pc[c] = "idle" /\ lock[c] # "none" => intx[c]
    /\ req[c].op = "OP_PURCHASE" => intx[c]
    /\ Writer(c) => db.tables \subseteq work[c].tables

\* The numbers in the file, and those of the tickets that were ever hit by a
\* DELETE, are numbers AUTOINCREMENT has given out.
Numbered ==
    /\ db.tables = {"ticket", "flight"}
    /\ \A f, g \in db.flight : f.id = g.id => f = g
    /\ \A f \in db.flight : f.id <= db.flightSeq
    /\ \A t \in db.ticket : t.resid <= db.ticketSeq
    /\ \A n \in cancelled : n <= db.ticketSeq

\* What c was told is so, and nobody else was told of its tickets.
Told(c) ==
    /\ sold[c] \subseteq TicketIds(db) \cup cancelled
    /\ refunded[c] \cap TicketIds(db) = {}
    /\ \A n \in sold[c] \cup refunded[c] : n <= db.ticketSeq
    /\ \A d \in Conn : d # c => sold[c] \cap sold[d] = {}

\* A careful client has no lock outside execute_datagram, and what it is about
\* to commit is the file as it is plus its own statement.
Tidy(c) ==
    /\ pc[c] # "failed" /\ req[c].op # "CREATE"
    /\ pc[c] \in Outside => lock[c] = "none"
    /\ pc[c] \in {"share", "exists", "rows", "reserve"} => lock[c] \in {"none", "shared"}
    /\ intx[c] => req[c].op = "OP_PURCHASE"
    /\ req[c].op = "OP_PURCHASE" => req[c].flight \in FlightIds(db)
    /\ pc[c] \in {"commit", "write"} => work[c] = Apply(db, req[c])
Care == fileExists /\ Numbered /\ \A c \in Conn : Told(c) /\ Tidy(c)

LInv == IInv /\ Mutex /\ (\A c \in Conn : Leftover(c)) /\ (careful => Care)
-----------------------------------------------------------------------------
(* The steps of a local client are steps of Database.tla.                  *)

\* No step of one process touches the connection or the session of another.
Alike(c) ==
    \A d \in Conn \ {c} :
        /\ lock'[d] = lock[d] /\ work'[d] = work[d] /\ intx'[d] = intx[d]
        /\ pc'[d] = pc[d] /\ req'[d] = req[d]
        /\ sold'[d] = sold[d] /\ refunded'[d] = refunded[d]

\* Whatever main and int_handler of localclient do, the database sees one of
\* its own steps or none.
LEMMA LocalIsNext == [LocalNext]_localVars => [Next]_vars
<1>1. ASSUME NEW c \in Conn, Start(c) PROVE Next
  BY <1>1, Zenon DEF Start, Next
<1>2. ASSUME NEW c \in Conn, Command(c) \/ fmutex_leave(c) PROVE UNCHANGED vars
  BY <1>2 DEF Command, fmutex_leave
<1>3. ASSUME NEW c \in Conn, Execute(c) PROVE Next
  BY <1>3, Zenon DEF Execute, Next
<1>4. ASSUME NEW c \in Conn, Exit(c) PROVE Next
  BY <1>4, Zenon DEF Exit, Next
<1>5. ASSUME NEW c \in Conn, int_handler(c) PROVE Next
  BY <1>5, Zenon DEF int_handler, Next
<1>6. ASSUME NEW c \in Conn, NEW r \in Requests, fmutex_enter(c, r) PROVE Next
  BY <1>6, Zenon DEF fmutex_enter, Next
<1>7. ASSUME UNCHANGED localVars PROVE UNCHANGED vars
  BY <1>7 DEF localVars
<1>8. QED BY <1>1, <1>2, <1>3, <1>4, <1>5, <1>6, <1>7, Zenon DEF LocalNext, Step

\* The end of a process.
LEMMA LeaveEffects ==
    ASSUME TypeOK, NEW c \in Conn, NEW label \in {"down", "failed"}, Leave(c, label)
    PROVE  /\ Alike(c) /\ pc'[c] = label /\ lock'[c] = "none" /\ intx'[c] = FALSE
           /\ req'[c] = NoRequest /\ work'[c] = Empty
           /\ UNCHANGED <<fileExists, db, sold, refunded, cancelled>>
BY DEF Leave, GoTo, SetLock, SetWork, histVars, toldVars, TypeOK, Alike

\* An answer, as the others and the session see it.
LEMMA AnswerEffects ==
    ASSUME TypeOK, NEW c \in Conn, NEW a, AnswerWith(c, a)
    PROVE  /\ pc'[c] = "idle" /\ req'[c] = NoRequest
           /\ sold'[c] = sold[c] \cup (a.seats \ {NoSeat})
           /\ refunded'[c] = refunded[c] \cup (a.refunds \cap (cancelled \cup TicketIds(View(c))))
           /\ \A d \in Conn \ {c} : /\ pc'[d] = pc[d] /\ req'[d] = req[d]
                                    /\ sold'[d] = sold[d] /\ refunded'[d] = refunded[d]
BY DEF AnswerWith, GoTo, TypeOK

\* Every way execute_datagram and db_open can fail.
Fails(c) == \/ RecoverBusy(c) \/ ShareBusy(c) \/ NoTable(c) \/ ReserveBusy(c) \/ CommitBusy(c)

\* A step that fails ends the process, in the middle of a request.
LEMMA FailEffects ==
    ASSUME TypeOK, NEW c \in Conn, Fails(c)
    PROVE  /\ Leave(c, "failed")
           /\ pc[c] \notin {"down", "failed", "open", "idle"}
BY DEF Fails, RecoverBusy, ShareBusy, NoTable, ReserveBusy, CommitBusy, Fail

\* Every way they can go on.
GoesOn(c) ==
    \/ Open(c) \/ Share(c) \/ Recover(c) \/ Recovered(c) \/ FlightFound(c) \/ FlightMissing(c)
    \/ Consult(c) \/ Reserve(c) \/ CommitNothing(c) \/ Exclude(c) \/ EndBusy(c) \/ Write(c)

\* There is no other way.
LEMMA WorkSplits ==
    ASSUME NEW c, Work(c)
    PROVE  Fails(c) \/ GoesOn(c)
BY DEF Work, Fails, GoesOn

\* Where such a step leads: to the next label, to the prompt with the request
\* answered, or to the second table of db_create.
LEMMA WorkEffects ==
    ASSUME IInv, NEW c \in Conn, GoesOn(c)
    PROVE  /\ Alike(c)
           /\ pc[c] \notin {"down", "failed", "idle"} /\ pc'[c] \notin {"down", "failed", "open"}
           /\ req'[c].op \in {req[c].op, "none"}
           /\ req'[c].op # req[c].op => pc'[c] = "idle"
           /\ pc[c] = "open" /\ pc'[c] # "idle" => req'[c].op = "CREATE"
<1> USE DEF GoTo, SetLock, SetWork, Alike
<1>0. TypeOK /\ Flow(c) /\ req[c] \in Request
  BY DEF IInv, StateInv, FlowInv, TypeOK
<1>1. CASE Open(c)
  BY <1>0, <1>1, RequestFields, NoRequestType DEF Open, TypeOK, connVars, histVars, toldVars, Flow
<1>2. CASE Share(c) \/ Recovered(c)
  BY <1>0, <1>2 DEF Share, Recovered, AfterShare, TypeOK, histVars, toldVars
<1>3. CASE Recover(c) \/ FlightFound(c) \/ Exclude(c)
  BY <1>0, <1>3 DEF Recover, FlightFound, Exclude, TypeOK, connVars, histVars, toldVars
<1>4. CASE FlightMissing(c)
  <2>1. \E a : AnswerWith(c, a) BY <1>4, Zenon DEF FlightMissing
  <2>2. QED BY <1>0, <1>4, <2>1, AnswerEffects, NoRequestType DEF FlightMissing, connVars
<1>5. CASE Consult(c) \/ CommitNothing(c) \/ EndBusy(c)
  <2>1. \E a : AnswerWith(c, a) BY <1>5, Zenon DEF Consult, CommitNothing, EndBusy
  <2>2. \A d \in Conn \ {c} : lock'[d] = lock[d] /\ work'[d] = work[d] /\ intx'[d] = intx[d]
    BY <1>0, <1>5 DEF Consult, CommitNothing, EndBusy, TypeOK
  <2>3. pc[c] \in {"rows", "commit"} BY <1>5 DEF Consult, CommitNothing, EndBusy
  <2>4. QED BY <1>0, <2>1, <2>2, <2>3, AnswerEffects, NoRequestType
<1>6. CASE Reserve(c)
  <2>1. \A d \in Conn \ {c} : lock'[d] = lock[d] /\ work'[d] = work[d] /\ intx'[d] = intx[d]
    BY <1>0, <1>6 DEF Reserve, TypeOK
  <2>2. pc[c] = "reserve" BY <1>6 DEF Reserve
  <2>3. CASE \E a : AnswerWith(c, a)
    BY <1>0, <2>1, <2>2, <2>3, AnswerEffects, NoRequestType
  <2>4. CASE GoTo(c, "commit") /\ UNCHANGED <<req, toldVars>>
    BY <1>0, <2>1, <2>2, <2>4 DEF TypeOK, toldVars
  <2>5. QED BY <1>6, <2>3, <2>4, Zenon DEF Reserve
<1>7. CASE Write(c)
  <2>1. \A d \in Conn \ {c} : lock'[d] = lock[d] /\ work'[d] = work[d] /\ intx'[d] = intx[d]
    BY <1>0, <1>7 DEF Write, TypeOK
  <2>2. pc[c] = "write" BY <1>7 DEF Write
  <2>3. CASE \E a : AnswerWith(c, a)
    BY <1>0, <2>1, <2>2, <2>3, AnswerEffects, NoRequestType
  <2>4. CASE req[c].op = "CREATE"
    <3>1. /\ req' = [req EXCEPT ![c] = IF @.table = "flight" THEN NoRequest
                                       ELSE [@ EXCEPT !.table = "flight"]]
          /\ GoTo(c, IF req[c].table = "flight" THEN "idle" ELSE "share")
          /\ UNCHANGED toldVars
      BY <1>7, <2>4 DEF Write
    <3>2. /\ \A d \in Conn \ {c} : req'[d] = req[d] /\ pc'[d] = pc[d]
          /\ UNCHANGED <<sold, refunded>>
          /\ pc'[c] = IF req[c].table = "flight" THEN "idle" ELSE "share"
          /\ req'[c] = IF req[c].table = "flight" THEN NoRequest ELSE [req[c] EXCEPT !.table = "flight"]
      BY <1>0, <3>1 DEF TypeOK, toldVars
    <3>3. [req[c] EXCEPT !.table = "flight"].op = req[c].op
      BY <1>0, <2>4 DEF Request, NoRequest
    <3>4. QED BY <2>1, <2>2, <3>2, <3>3, NoRequestType
  <2>5. QED BY <1>7, <2>3, <2>4, Zenon DEF Write
<1>8. QED BY <1>1, <1>2, <1>3, <1>4, <1>5, <1>6, <1>7 DEF GoesOn

-----------------------------------------------------------------------------
(* The mutex.                                                              *)

\* A step of c that takes the lock only when nobody has it keeps the mutex,
\* if c itself is where its stage says.
LEMMA PlacedKeeps ==
    ASSUME Mutex, NEW c \in Conn,
           \A d \in Conn \ {c} : pc'[d] = pc[d] /\ req'[d] = req[d],
           \E s \in {"prompt", "blocked", "inside"} : SetStage(c, s),
           careful' \in BOOLEAN,
           \/ holder' = holder \/ holder' = holder \ {c}
           \/ holder = {} /\ holder' = {c},
           Placed(c)'
    PROVE  Mutex'
<1>1. \A d \in Conn \ {c} : stage'[d] = stage[d] /\ (d \in holder' <=> d \in holder)
  BY DEF Mutex, SetStage
<1>2. stage' \in [Conn -> {"prompt", "blocked", "inside"}]
  BY DEF Mutex, SetStage
<1>3. \A d \in Conn : Placed(d)'
  BY <1>1 DEF Mutex, Placed
<1>4. \A d, e \in Conn : d \in holder' /\ e \in holder' => d = e
  BY DEF Mutex
<1>5. QED BY <1>2, <1>3, <1>4 DEF Mutex

\* fmutex_enter, fmutex_leave and every end of a process keep the lock with
\* at most one client, the one that executes a datagram.
LEMMA MutexStep ==
    ASSUME LInv, [LocalNext]_localVars
    PROVE  Mutex'
<1>1. TypeOK /\ Mutex /\ \A c \in Conn : Flow(c) /\ Placed(c) /\ req[c] \in Request
  BY DEF LInv, IInv, StateInv, FlowInv, TypeOK, Mutex
<1>2. \A c \in Conn : /\ stage[c] \in {"prompt", "blocked", "inside"}
                      /\ SetStage(c, stage[c]) <=> stage' = stage
  BY <1>1 DEF Mutex, SetStage
<1>3. ASSUME NEW c \in Conn, Start(c) PROVE Mutex'
  <2>1. \A d \in Conn \ {c} : pc'[d] = pc[d] /\ req'[d] = req[d]
    BY <1>1, <1>3 DEF Start, FileExist, GoTo, TypeOK
  <2>2. pc[c] \in {"down", "failed"} /\ pc'[c] = "open" /\ UNCHANGED <<holder, stage, careful>>
    BY <1>1, <1>3 DEF Start, FileExist, GoTo, TypeOK, mutexVars
  <2>3. Placed(c)' BY <1>1, <2>2 DEF Placed, Outside
  <2>4. QED BY <1>1, <1>2, <2>1, <2>2, <2>3, PlacedKeeps DEF Mutex
<1>4. ASSUME NEW c \in Conn, Command(c) PROVE Mutex'
  <2>1. pc[c] = "idle" /\ UNCHANGED <<pc, req, holder, careful>> /\ stage[c] = "prompt"
    BY <1>4 DEF Command, vars, procVars
  <2>2. SetStage(c, "blocked") /\ stage'[c] = "blocked"
    BY <1>1, <1>4 DEF Command, SetStage, Mutex
  <2>3. Placed(c)' BY <1>1, <2>1, <2>2 DEF Placed
  <2>4. QED BY <1>1, <2>1, <2>2, <2>3, PlacedKeeps DEF Mutex
<1>5. ASSUME NEW c \in Conn, NEW r \in Requests, fmutex_enter(c, r) PROVE Mutex'
  <2>1. SetStage(c, "inside") /\ stage'[c] = "inside" /\ holder = {} /\ holder' = {c}
    BY <1>1, <1>5 DEF fmutex_enter, SetStage, Mutex
  <2>2. /\ pc'[c] = "share" /\ req'[c] = r
        /\ \A d \in Conn \ {c} : pc'[d] = pc[d] /\ req'[d] = req[d]
    BY <1>1, <1>5 DEF fmutex_enter, Receive, GoTo, TypeOK
  <2>3. careful' \in BOOLEAN BY <1>5, Zenon DEF fmutex_enter, Asks
  <2>4. Placed(c)' BY <2>1, <2>2, RequestsType DEF Placed
  <2>5. QED BY <1>1, <2>1, <2>2, <2>3, <2>4, PlacedKeeps
<1>6. ASSUME NEW c \in Conn, fmutex_leave(c) PROVE Mutex'
  <2>1. pc[c] = "idle" /\ UNCHANGED <<pc, req, careful>> /\ holder' = holder \ {c}
    BY <1>6 DEF fmutex_leave, vars, procVars
  <2>2. SetStage(c, "prompt") /\ stage'[c] = "prompt"
    BY <1>1, <1>6 DEF fmutex_leave, SetStage, Mutex
  <2>3. Placed(c)' BY <1>1, <2>1, <2>2 DEF Placed, Outside
  <2>4. QED BY <1>1, <2>1, <2>2, <2>3, PlacedKeeps DEF Mutex
<1>7. ASSUME NEW c \in Conn, NEW label \in {"down", "failed"}, Leave(c, label),
             holder' = holder \ {c}, SetStage(c, "prompt"), UNCHANGED careful
      PROVE  Mutex'
  <2>1. Alike(c) /\ pc'[c] = label BY <1>1, <1>7, LeaveEffects
  <2>2. stage'[c] = "prompt" BY <1>1, <1>7 DEF SetStage, Mutex
  <2>3. Placed(c)' BY <1>7, <2>1, <2>2 DEF Placed, Outside
  <2>4. QED BY <1>1, <1>7, <2>1, <2>3, PlacedKeeps DEF Mutex, Alike
<1>8. ASSUME NEW c \in Conn, Exit(c) PROVE Mutex'
  <2>1. /\ pc[c] = "idle" /\ Leave(c, "down") /\ stage[c] = "prompt"
        /\ UNCHANGED <<holder, stage, careful>>
    BY <1>8 DEF Exit, Quit, mutexVars
  <2>2. c \notin holder BY <1>1, <2>1 DEF Placed
  <2>3. QED BY <1>2, <1>7, <2>1, <2>2
<1>9. ASSUME NEW c \in Conn, int_handler(c) PROVE Mutex'
  BY <1>7, <1>9 DEF int_handler, Interrupt
<1>10. ASSUME NEW c \in Conn, Execute(c), Fails(c) PROVE Mutex'
  <2>1. Leave(c, "failed") /\ pc'[c] = "failed" BY <1>1, <1>10, FailEffects, LeaveEffects
  <2>2. QED BY <1>7, <1>10, <2>1 DEF Execute
<1>11. ASSUME NEW c \in Conn, Execute(c), GoesOn(c) PROVE Mutex'
  <2>1. /\ Alike(c)
        /\ pc[c] \notin {"down", "failed", "idle"} /\ pc'[c] \notin {"down", "failed", "open"}
        /\ req'[c].op \in {req[c].op, "none"}
        /\ req'[c].op # req[c].op => pc'[c] = "idle"
        /\ pc[c] = "open" /\ pc'[c] # "idle" => req'[c].op = "CREATE"
    BY <1>11, WorkEffects DEF LInv
  <2>2. UNCHANGED <<holder, stage, careful>> BY <1>11, <2>1 DEF Execute, mutexVars
  <2>3. Placed(c)' BY <1>1, <2>1, <2>2 DEF Placed, Outside
  <2>4. QED BY <1>1, <1>2, <2>1, <2>2, <2>3, PlacedKeeps DEF Alike, Mutex
<1>12. ASSUME UNCHANGED localVars PROVE Mutex'
  BY <1>1, <1>12 DEF localVars, mutexVars, vars, procVars, Mutex, Placed
<1>13. ASSUME NEW c \in Conn, Execute(c) PROVE Mutex'
  BY <1>10, <1>11, <1>13, WorkSplits DEF Execute
<1>14. QED
  BY <1>3, <1>4, <1>5, <1>6, <1>8, <1>9, <1>12, <1>13, Zenon DEF LocalNext, Step

-----------------------------------------------------------------------------
(* What a request leaves behind.                                           *)

\* The others keep what they have left behind, unless the file changes under
\* a writer, which the locks prevent.
LEMMA LeftoverFrame ==
    ASSUME IInv, \A d \in Conn : Leftover(d), NEW c \in Conn, Alike(c),
           db' = db \/ lock[c] = "exclusive",
           Leftover(c)'
    PROVE  \A d \in Conn : Leftover(d)'
<1>1. ASSUME NEW d \in Conn \ {c} PROVE Leftover(d)'
  <2>1. /\ lock'[d] = lock[d] /\ work'[d] = work[d] /\ intx'[d] = intx[d]
        /\ pc'[d] = pc[d] /\ req'[d] = req[d]
    BY DEF Alike
  <2>2. lock[c] = "exclusive" => lock[d] = "none" BY DEF IInv, StateInv, LockInv
  <2>3. QED BY <2>1, <2>2 DEF Leftover, Writer, WriteLocks
<1>2. QED BY <1>1

\* A statement creates tables, and drops none.
LEMMA ApplyTables ==
    ASSUME NEW s \in Contents, NEW r \in Request, r.op \in WriteOps
    PROVE  /\ s.tables \subseteq Apply(s, r).tables
           /\ r.op # "CREATE" => Apply(s, r).tables = s.tables
BY DEF Apply, add_ticket, remove_ticket, db_add_flight, db_create, Contents, WriteOps

\* A step of the database leaves a lock behind only in an open transaction.
LEMMA LeftoverStep ==
    ASSUME IInv, \A d \in Conn : Leftover(d), [Next]_vars
    PROVE  \A d \in Conn : Leftover(d)'
<1> USE DEF GoTo, SetLock, SetWork
<1>1. TypeOK /\ \A c \in Conn : Flow(c) /\ req[c] \in Request /\ Leftover(c)
  BY DEF IInv, StateInv, FlowInv, TypeOK
<1>2. ASSUME NEW c \in Conn, FileExist(c) PROVE \A d \in Conn : Leftover(d)'
  <2>1. Alike(c) /\ UNCHANGED <<db, lock[c], work[c], intx[c]>> /\ pc'[c] = "open"
    BY <1>1, <1>2 DEF FileExist, TypeOK, Alike, fileVars, connVars
  <2>2. req'[c].op \in {"none", "CREATE"}
    <3>1. req'[c] = IF fileExists THEN NoRequest ELSE [op |-> "CREATE", table |-> "ticket"]
      BY <1>1, <1>2 DEF FileExist, TypeOK
    <3>2. QED BY <3>1, NoRequestType
  <2>3. Leftover(c)' BY <1>1, <2>1, <2>2 DEF Leftover, Writer
  <2>4. QED BY <1>1, <2>1, <2>3, LeftoverFrame
<1>3. ASSUME NEW c \in Conn, NEW label \in {"down", "failed"}, Leave(c, label)
      PROVE  \A d \in Conn : Leftover(d)'
  <2>1. Alike(c) /\ lock'[c] = "none" /\ req'[c] = NoRequest /\ db' = db
    BY <1>1, <1>3, LeaveEffects
  <2>2. Leftover(c)' BY <2>1, NoRequestType DEF Leftover, Writer, WriteLocks
  <2>3. QED BY <1>1, <2>1, <2>2, LeftoverFrame
<1>4. ASSUME NEW c \in Conn, NEW r \in Requests, Receive(c, r) PROVE \A d \in Conn : Leftover(d)'
  <2>1. Alike(c) /\ UNCHANGED <<db, lock[c], work[c]>> /\ pc'[c] = "share"
    BY <1>1, <1>4 DEF Receive, TypeOK, Alike, fileVars, histVars, toldVars
  <2>2. req'[c] = r /\ (r.op = "OP_PURCHASE" => intx'[c])
    BY <1>1, <1>4 DEF Receive, TypeOK
  <2>3. Leftover(c)' BY <1>1, <2>1, <2>2 DEF Leftover, Writer
  <2>4. QED BY <1>1, <2>1, <2>3, LeftoverFrame
<1>5. ASSUME NEW c \in Conn, GoesOn(c) PROVE \A d \in Conn : Leftover(d)'
  <2>1. /\ Alike(c) /\ req'[c].op \in {req[c].op, "none"} /\ Flow(c) /\ Leftover(c)
        /\ TypeOK
    BY <1>1, <1>5, WorkEffects
  <2>2. CASE Open(c) \/ Share(c) \/ FlightFound(c) \/ Exclude(c)
    <3>1. /\ UNCHANGED <<db, work[c], intx[c]>>
          /\ Writer(c)' => Writer(c) \/ pc[c] = "commit"
          /\ pc'[c] = "idle" => lock'[c] = "none"
      BY <2>1, <2>2 DEF Open, Share, FlightFound, Exclude, AfterShare, Writer, WriteLocks, Flow,
         TypeOK, fileVars, connVars
    <3>2. pc[c] = "commit" => Writer(c) BY <2>1 DEF Flow, Writer, WriteLocks
    <3>3. Leftover(c)' BY <2>1, <3>1, <3>2 DEF Leftover
    <3>4. QED BY <2>1, <3>1, <3>3, LeftoverFrame
  <2>3. CASE Recover(c)
    <3>1. UNCHANGED <<db, intx[c]>> /\ work'[c] = db /\ pc'[c] = "rollback"
      BY <2>1, <2>3 DEF Recover, TypeOK, fileVars
    <3>2. Leftover(c)' BY <2>1, <3>1 DEF Leftover
    <3>3. QED BY <2>1, <3>1, <3>2, LeftoverFrame
  <2>4. CASE Recovered(c)
    <3>1. UNCHANGED <<db, intx[c]>> /\ lock'[c] = "shared" /\ pc'[c] # "idle"
      BY <2>1, <2>4 DEF Recovered, AfterShare, TypeOK
    <3>2. Leftover(c)' BY <2>1, <3>1 DEF Leftover, Writer, WriteLocks
    <3>3. QED BY <2>1, <3>1, <3>2, LeftoverFrame
  <2>5. CASE FlightMissing(c)
    <3>1. UNCHANGED <<db, lock[c], work[c], intx[c]>> /\ pc[c] = "exists"
      BY <2>5 DEF FlightMissing, fileVars, connVars
    <3>2. intx[c] BY <2>1, <3>1 DEF Leftover, Flow
    <3>3. Leftover(c)' BY <2>1, <3>1, <3>2 DEF Leftover, Writer
    <3>4. QED BY <2>1, <3>1, <3>3, LeftoverFrame
  <2>6. CASE Consult(c)
    <3>1. UNCHANGED <<db, work[c], intx[c]>> /\ lock'[c] = IF intx[c] THEN lock[c] ELSE "none"
      BY <2>1, <2>6 DEF Consult, TypeOK, fileVars
    <3>2. Leftover(c)' BY <2>1, <3>1 DEF Leftover, Writer, WriteLocks
    <3>3. QED BY <2>1, <3>1, <3>2, LeftoverFrame
  <2>7. CASE Reserve(c)
    <3>1. UNCHANGED <<db, intx[c]>> /\ work'[c] = Apply(View(c), req[c]) /\ pc[c] = "reserve"
      BY <2>1, <2>7 DEF Reserve, TypeOK, fileVars
    <3>2. req[c] \in Request /\ req[c].op \in WriteOps /\ View(c) \in Contents
      BY <1>1, <2>1, <3>1, ViewType DEF Flow
    <3>3. db.tables \subseteq View(c).tables BY <2>1 DEF View, Leftover
    <3>4. db.tables \subseteq work'[c].tables BY <3>1, <3>2, <3>3, ApplyTables
    <3>5. pc'[c] = "idle" => intx[c]
      BY <2>1, <2>7 DEF Reserve, TypeOK
    <3>6. Leftover(c)' BY <2>1, <3>1, <3>4, <3>5 DEF Leftover
    <3>7. QED BY <2>1, <3>1, <3>6, LeftoverFrame
  <2>8. CASE CommitNothing(c)
    <3>1. UNCHANGED <<db, intx[c]>> /\ lock'[c] = "none"
      BY <2>1, <2>8 DEF CommitNothing, TypeOK, fileVars
    <3>2. Leftover(c)' BY <2>1, <3>1 DEF Leftover, Writer, WriteLocks
    <3>3. QED BY <2>1, <3>1, <3>2, LeftoverFrame
  <2>9. CASE EndBusy(c)
    <3>1. UNCHANGED <<db, work[c], intx[c]>> /\ intx[c] /\ pc[c] = "commit"
      BY <2>9 DEF EndBusy, fileVars
    <3>2. Writer(c) BY <2>1, <3>1 DEF Flow, Writer, WriteLocks
    <3>3. Leftover(c)' BY <2>1, <3>1, <3>2 DEF Leftover
    <3>4. QED BY <2>1, <3>1, <3>3, LeftoverFrame
  <2>10. CASE Write(c)
    <3>1. lock'[c] = "none" /\ pc[c] = "write" BY <2>1, <2>10 DEF Write, TypeOK
    <3>2. req'[c].op # "OP_PURCHASE"
      <4>1. CASE req[c].op = "CREATE" BY <2>1, <4>1
      <4>2. CASE req[c].op # "CREATE"
        BY <2>1, <2>10, <4>2, AnswerEffects, NoRequestType DEF Write
      <4>3. QED BY <4>1, <4>2
    <3>3. lock[c] = "exclusive" BY <2>1, <3>1 DEF Flow
    <3>4. Leftover(c)' BY <3>1, <3>2 DEF Leftover, Writer, WriteLocks
    <3>5. QED BY <1>1, <2>1, <3>3, <3>4, LeftoverFrame
  <2>11. QED
    BY <1>5, <2>2, <2>3, <2>4, <2>5, <2>6, <2>7, <2>8, <2>9, <2>10 DEF GoesOn
<1>6. ASSUME NEW c \in Conn, Work(c) PROVE \A d \in Conn : Leftover(d)'
  BY <1>1, <1>3, <1>5, <1>6, WorkSplits, FailEffects
<1>7. ASSUME NEW c \in Conn, Quit(c) \/ Interrupt(c) PROVE \A d \in Conn : Leftover(d)'
  BY <1>3, <1>7 DEF Quit, Interrupt
<1>8. ASSUME UNCHANGED vars PROVE \A d \in Conn : Leftover(d)'
  BY <1>1, <1>8 DEF vars, fileVars, connVars, procVars, Leftover, Writer
<1>9. QED BY <1>2, <1>4, <1>6, <1>7, <1>8, Zenon DEF Next

-----------------------------------------------------------------------------
(* Who can be refused a lock.                                              *)

\* While nobody creates tables, the client that executes a datagram is the one
\* inside, and the others are at their prompts.
LEMMA InsideAlone ==
    ASSUME LInv, NEW c \in Conn, pc[c] \notin Outside, \A d \in Conn : req[d].op # "CREATE"
    PROVE  \A d \in Conn \ {c} :
               /\ stage[d] # "inside" /\ pc[d] \in Outside
               /\ lock[d] # "none" => pc[d] = "idle" /\ intx[d]
<1>1. stage[c] = "inside" /\ c \in holder
  BY DEF LInv, Mutex, Placed, Outside
<1>2. ASSUME NEW d \in Conn \ {c}
      PROVE  /\ stage[d] # "inside" /\ pc[d] \in Outside
             /\ lock[d] # "none" => pc[d] = "idle" /\ intx[d]
  <2>1. d \notin holder BY <1>1 DEF LInv, Mutex
  <2>2. stage[d] # "inside" /\ pc[d] \in Outside
    BY <2>1 DEF LInv, Mutex, Placed, Outside
  <2>3. Flow(d) /\ Leftover(d) BY DEF LInv, IInv, StateInv, FlowInv
  <2>4. QED BY <2>2, <2>3 DEF Flow, Leftover, Outside
<1>3. QED BY <1>2

\* The tables are there, so the statement of a datagram can be compiled.
LEMMA TablesFit ==
    ASSUME LInv, NEW c \in Conn, Settled
    PROVE  TableFits(c)
<1>1. db.tables = {"ticket", "flight"} /\ req[c].op # "CREATE" BY DEF Settled
<1>2. db.tables \subseteq View(c).tables BY DEF LInv, Leftover, View
<1>3. Table(c) \in {"ticket", "flight"} BY <1>1 DEF Table
<1>4. QED BY <1>1, <1>2, <1>3 DEF TableFits

\* Only a statement of c itself ends c with exit(1).
LEMMA OwnFault ==
    ASSUME LInv, [LocalNext]_localVars, NEW c \in Conn, pc[c] # "failed", pc'[c] = "failed"
    PROVE  Fails(c)
<1>1. TypeOK BY DEF LInv, IInv, StateInv
<1>2. ASSUME NEW e \in Conn, Start(e) PROVE FALSE
  BY <1>1, <1>2 DEF Start, FileExist, GoTo, TypeOK
<1>3. ASSUME NEW e \in Conn, Command(e) \/ fmutex_leave(e) PROVE FALSE
  BY <1>3 DEF Command, fmutex_leave, vars, procVars
<1>4. ASSUME NEW e \in Conn, NEW r \in Requests, fmutex_enter(e, r) PROVE FALSE
  BY <1>1, <1>4 DEF fmutex_enter, Receive, GoTo, TypeOK
<1>5. ASSUME NEW e \in Conn, Exit(e) \/ int_handler(e) PROVE FALSE
  <2>1. Leave(e, "down") BY <1>5 DEF Exit, int_handler, Quit, Interrupt
  <2>2. Alike(e) /\ pc'[e] = "down" BY <1>1, <2>1, LeaveEffects
  <2>3. QED BY <2>2 DEF Alike
<1>6. ASSUME NEW e \in Conn, Execute(e) PROVE Fails(c)
  <2>1. CASE GoesOn(e)
    <3>1. Alike(e) /\ pc'[e] # "failed" BY <2>1, WorkEffects DEF LInv
    <3>2. QED BY <3>1 DEF Alike
  <2>2. CASE Fails(e)
    <3>1. Alike(e) BY <1>1, <2>2, FailEffects, LeaveEffects
    <3>2. e = c BY <3>1 DEF Alike
    <3>3. QED BY <2>2, <3>2
  <2>3. QED BY <1>6, <2>1, <2>2, WorkSplits DEF Execute
<1>7. ASSUME UNCHANGED localVars PROVE FALSE
  BY <1>7 DEF localVars, vars, procVars
<1>8. QED BY <1>2, <1>3, <1>4, <1>5, <1>6, <1>7, Zenon DEF LocalNext, Step

\* A statement that fails with the tables there meets another connection's
\* lock.
LEMMA MeetsLock ==
    ASSUME LInv, NEW c \in Conn, Settled, Fails(c)
    PROVE  \E d \in Conn \ {c} : lock[d] # "none"
<1>1. DOMAIN lock = Conn BY DEF LInv, IInv, StateInv, TypeOK
<1>2. ~NoTable(c) BY TablesFit DEF NoTable
<1>3. ~CanShare(lock, c) \/ ~CanReserve(lock, c) \/ ~CanExclude(lock, c)
  BY <1>2 DEF Fails, RecoverBusy, ShareBusy, ReserveBusy, CommitBusy
<1>4. QED BY <1>1, <1>3 DEF CanShare, CanReserve, CanExclude, WriteLocks

\* A client that fails once the tables are there has met a transaction that
\* another one left open.
LEMMA BlameTheLeak ==
    ASSUME LInv, [LocalNext]_localVars, NEW c \in Conn, pc[c] # "failed", pc'[c] = "failed", Settled
    PROVE  \E d \in Conn \ {c} : Leaks(d) /\ intx[d]
<1>1. Fails(c) BY OwnFault
<1>2. pc[c] \notin Outside
  BY <1>1, FailEffects DEF LInv, IInv, StateInv, Outside
<1>3. PICK d \in Conn \ {c} : lock[d] # "none" BY <1>1, MeetsLock
<1>4. stage[d] # "inside" /\ intx[d] BY <1>2, <1>3, InsideAlone DEF Settled
<1>5. QED BY <1>3, <1>4 DEF Leaks

-----------------------------------------------------------------------------
(* Careful clients.                                                        *)

\* A step that leaves the file alone and confirms no new ticket.
LEMMA QuietCare ==
    ASSUME TypeOK, Care, NEW c \in Conn, Alike(c), db' = db, fileExists' = TRUE,
           cancelled \subseteq cancelled', \A n \in cancelled' : n <= db.ticketSeq,
           sold'[c] \subseteq sold[c],
           \A n \in refunded'[c] : n \notin TicketIds(db) /\ n <= db.ticketSeq,
           Tidy(c)'
    PROVE  Care'
<1>1. Numbered' BY DEF Care, Numbered
<1>2. ASSUME NEW d \in Conn PROVE Told(d)'
  <2>1. /\ \A e \in Conn : Told(e) /\ sold'[e] \subseteq sold[e]
        /\ \A n \in refunded'[d] : n \notin TicketIds(db) /\ n <= db.ticketSeq
    BY DEF Care, Alike, Told
  <2>2. QED BY <2>1 DEF Told, TicketIds
<1>3. ASSUME NEW d \in Conn \ {c} PROVE Tidy(d)'
  <2>1. Tidy(d) BY DEF Care
  <2>2. QED BY <2>1 DEF Tidy, Alike, FlightIds
<1>4. QED BY <1>1, <1>2, <1>3 DEF Care

\* A careful client that executes a datagram is the only one with a lock.
LEMMA CarefulAlone ==
    ASSUME LInv, careful, NEW c \in Conn, pc[c] \notin Outside
    PROVE  /\ \A d \in Conn \ {c} : lock[d] = "none" /\ pc[d] \in Outside
           /\ CanShare(lock, c) /\ CanReserve(lock, c) /\ CanExclude(lock, c)
<1>1. Care BY DEF LInv
<1>2. \A d \in Conn : req[d].op # "CREATE" /\ (pc[d] \in Outside => lock[d] = "none")
  BY <1>1 DEF Care, Tidy
<1>3. \A d \in Conn \ {c} : lock[d] = "none" /\ pc[d] \in Outside
  BY <1>2, InsideAlone
<1>4. DOMAIN lock = Conn BY DEF LInv, IInv, StateInv, TypeOK
<1>5. QED BY <1>3, <1>4 DEF CanShare, CanReserve, CanExclude, WriteLocks

\* So none of its statements fails.
LEMMA CarefulGoesOn ==
    ASSUME LInv, careful, NEW c \in Conn
    PROVE  ~Fails(c)
<1>1. SUFFICES ASSUME Fails(c) PROVE FALSE OBVIOUS
<1>2. Settled BY DEF LInv, Care, Numbered, Tidy, Settled
<1>3. pc[c] \notin Outside
  BY <1>1, FailEffects DEF LInv, IInv, StateInv, Outside
<1>4. QED BY <1>1, <1>2, <1>3, MeetsLock, CarefulAlone

\* The check of db_purchase finds a flight that is there: the key is unique.
LEMMA FlightIsFound ==
    ASSUME Numbered, NEW id \in FlightIds(db)
    PROVE  db_flight_exists(db, id)
<1>1. PICK f \in db.flight : f.id = id BY DEF FlightIds
<1>2. {row \in db.flight : row.id = id} = {f} BY <1>1 DEF Numbered
<1>3. Cardinality({f}) = 1 BY FS_Singleton
<1>4. QED BY <1>2, <1>3 DEF db_flight_exists

\* db_open, the end of a session and the next datagram.
LEMMA SessionCare ==
    ASSUME LInv, Care, careful, NEW c \in Conn, careful',
           \/ FileExist(c) \/ Leave(c, "down")
           \/ \E r \in Requests : Receive(c, r) /\ Asks(r)
    PROVE  Care'
<1> USE DEF GoTo, SetLock, SetWork
<1>1. TypeOK /\ Flow(c) /\ Tidy(c) /\ Told(c) /\ fileExists /\ Numbered
  BY DEF LInv, IInv, StateInv, FlowInv, Care
<1>2. CASE FileExist(c)
  <2>1. /\ Alike(c) /\ UNCHANGED <<db, fileExists, cancelled, lock[c], intx[c]>>
        /\ pc[c] \in {"down", "failed"} /\ pc'[c] = "open"
        /\ sold'[c] = {} /\ refunded'[c] = {} /\ req'[c] = NoRequest
    BY <1>1, <1>2 DEF FileExist, TypeOK, Alike, fileVars, connVars
  <2>2. lock[c] = "none" /\ ~intx[c] BY <1>1, <2>1 DEF Flow
  <2>3. Tidy(c)' BY <2>1, <2>2, NoRequestType DEF Tidy
  <2>4. QED BY <1>1, <2>1, <2>3, QuietCare DEF Numbered
<1>3. CASE Leave(c, "down")
  <2>1. /\ Alike(c) /\ UNCHANGED <<db, fileExists, cancelled, sold, refunded>>
        /\ pc'[c] = "down" /\ lock'[c] = "none" /\ intx'[c] = FALSE /\ req'[c] = NoRequest
    BY <1>1, <1>3, LeaveEffects
  <2>2. Tidy(c)' BY <2>1, NoRequestType DEF Tidy
  <2>3. QED BY <1>1, <2>1, <2>2, QuietCare DEF Numbered, Told
<1>4. ASSUME NEW r \in Requests, Receive(c, r), Asks(r) PROVE Care'
  <2>1. /\ Alike(c) /\ UNCHANGED <<db, fileExists, cancelled, sold, refunded, lock[c]>>
        /\ pc[c] = "idle" /\ pc'[c] = "share" /\ req'[c] = r
        /\ intx'[c] = (intx[c] \/ r.op = "OP_PURCHASE")
    BY <1>1, <1>4 DEF Receive, TypeOK, Alike, fileVars, histVars, toldVars
  <2>2. r.op # "CREATE" BY RequestsType
  <2>3. r.op = "OP_PURCHASE" => r.flight \in FlightIds(db) BY <1>4 DEF Asks
  <2>4. ~intx[c] /\ lock[c] = "none"
    BY <1>1, <2>1, NoRequestType DEF Tidy, Flow, Outside
  <2>5. Tidy(c)' BY <2>1, <2>2, <2>3, <2>4 DEF Tidy, FlightIds, Outside
  <2>6. QED BY <1>1, <2>1, <2>5, QuietCare DEF Numbered, Told
<1>5. QED BY <1>2, <1>3, <1>4

\* db_open and execute_datagram, up to the moment the changes reach the file.
LEMMA ExecuteCare ==
    ASSUME LInv, Care, careful, NEW c \in Conn, GoesOn(c), ~Write(c)
    PROVE  Care'
<1> USE DEF GoTo, SetLock, SetWork
<1>1. TypeOK /\ Flow(c) /\ Tidy(c) /\ Told(c) /\ fileExists /\ Numbered /\ req[c] \in Request
  BY DEF LInv, IInv, StateInv, FlowInv, Care, TypeOK
<1>2. Alike(c) BY WorkEffects DEF LInv
<1>3. ASSUME UNCHANGED <<db, cancelled, sold[c], refunded[c]>>, fileExists' = TRUE, Tidy(c)'
      PROVE  Care'
  BY <1>1, <1>2, <1>3, QuietCare DEF Numbered, Told
<1>4. CASE Open(c)
  <2>1. req[c] = NoRequest BY <1>1, <1>4, RequestFields DEF Open, Flow, Tidy
  <2>2. /\ UNCHANGED <<db, cancelled, sold[c], refunded[c], lock[c], intx[c], req>>
        /\ fileExists' = TRUE /\ pc'[c] = "idle" /\ pc[c] = "open"
    BY <1>1, <1>4, <2>1 DEF Open, TypeOK, connVars, histVars, toldVars
  <2>3. Tidy(c)' BY <1>1, <2>1, <2>2, NoRequestType DEF Tidy, Outside
  <2>4. QED BY <1>3, <2>2, <2>3
<1>5. CASE Share(c) \/ Recovered(c)
  <2>1. /\ UNCHANGED <<db, fileExists, cancelled, sold[c], refunded[c], intx[c], req>>
        /\ pc[c] \in {"share", "rollback"}
        /\ pc'[c] \in {"recover", "exists", "rows", "reserve"}
    BY <1>1, <1>5 DEF Share, Recovered, AfterShare, TypeOK, fileVars, histVars, toldVars
  <2>2. lock'[c] = "shared"
    BY <1>1, <1>5 DEF Share, Recovered, TypeOK, Tidy
  <2>3. Tidy(c)' BY <1>1, <2>1, <2>2 DEF Tidy, FlightIds, Outside
  <2>4. QED BY <1>1, <1>3, <2>1, <2>3
<1>6. CASE Recover(c) \/ FlightFound(c) \/ Exclude(c)
  <2>1. UNCHANGED <<db, fileExists, cancelled, sold[c], refunded[c], intx[c], req>>
    BY <1>6 DEF Recover, FlightFound, Exclude, fileVars, connVars, histVars, toldVars
  <2>2. /\ pc[c] \in {"recover", "exists", "commit"}
        /\ \/ pc'[c] = "rollback"
           \/ pc[c] = "exists" /\ pc'[c] = "reserve" /\ lock'[c] = lock[c]
           \/ pc[c] = "commit" /\ pc'[c] = "write" /\ work'[c] = work[c]
    BY <1>1, <1>6 DEF Recover, FlightFound, Exclude, TypeOK, connVars
  <2>3. Tidy(c)' BY <1>1, <2>1, <2>2 DEF Tidy, FlightIds, Outside
  <2>4. QED BY <1>1, <1>3, <2>1, <2>3
<1>7. ~FlightMissing(c)
  <2>1. SUFFICES ASSUME FlightMissing(c) PROVE FALSE OBVIOUS
  <2>2. pc[c] = "exists" /\ ~db_flight_exists(View(c), req[c].flight)
    BY <2>1 DEF FlightMissing
  <2>3. View(c) = db BY <1>1, <2>2 DEF View, Writer, WriteLocks, Tidy
  <2>4. req[c].flight \in FlightIds(db) BY <1>1, <2>2 DEF Flow, Tidy
  <2>5. QED BY <1>1, <2>2, <2>3, <2>4, FlightIsFound
<1>8. ~EndBusy(c) BY CarefulAlone DEF EndBusy, Outside
<1>9. CASE Consult(c)
  <2>1. ~intx[c] BY <1>1, <1>9 DEF Consult, Flow, Tidy
  <2>2. /\ UNCHANGED <<db, fileExists, cancelled, intx>> /\ lock'[c] = "none"
    BY <1>1, <1>9, <2>1 DEF Consult, TypeOK, fileVars
  <2>3. PICK a : AnswerWith(c, a) /\ a.seats = {} /\ a.refunds = {}
    BY <1>9 DEF Consult, Tell
  <2>4. pc'[c] = "idle" /\ req'[c] = NoRequest /\ sold'[c] = sold[c] /\ refunded'[c] = refunded[c]
    BY <1>1, <2>3, AnswerEffects
  <2>5. Tidy(c)' BY <2>1, <2>2, <2>4, NoRequestType DEF Tidy, Outside
  <2>6. QED BY <1>1, <1>3, <2>2, <2>4, <2>5
<1>10. CASE Reserve(c)
  <2>1. pc[c] = "reserve" /\ View(c) = db
    BY <1>1, <1>10 DEF Reserve, View, Writer, WriteLocks, Tidy
  <2>2. /\ UNCHANGED <<db, fileExists, intx>> /\ work'[c] = Apply(db, req[c])
        /\ pc'[c] = "commit" /\ UNCHANGED <<req, sold, refunded>>
    BY <1>1, <1>10, <2>1 DEF Reserve, TypeOK, fileVars, toldVars, Tidy
  <2>3. cancelled \subseteq cancelled' /\ cancelled' \subseteq cancelled \cup TicketIds(db)
    BY <1>10, <2>1 DEF Reserve
  <2>4. \A n \in cancelled' : n <= db.ticketSeq
    BY <1>1, <2>3 DEF Numbered, TicketIds
  <2>5. Tidy(c)' BY <1>1, <2>1, <2>2 DEF Tidy, FlightIds, Outside
  <2>6. QED BY <1>1, <1>2, <2>2, <2>3, <2>4, <2>5, QuietCare DEF Told
<1>11. CASE CommitNothing(c)
  <2>1. /\ UNCHANGED <<db, fileExists, intx, cancelled>> /\ lock'[c] = "none"
        /\ pc[c] = "commit" /\ req[c].op = "OP_CANCEL" /\ work[c] = db
        /\ AnswerWith(c, Reply(db, req[c]))
    BY <1>1, <1>11 DEF CommitNothing, TypeOK, fileVars
  <2>2. /\ pc'[c] = "idle" /\ req'[c] = NoRequest /\ sold'[c] = sold[c]
        /\ refunded'[c] \subseteq refunded[c]
             \cup ({req[c].seat} \cap (cancelled \cup TicketIds(View(c))))
    <3> DEFINE a == Reply(db, req[c])
    <3>1. a.seats = {} /\ a.refunds = {req[c].seat} BY <2>1 DEF Reply, Tell
    <3> HIDE DEF a
    <3>2. AnswerWith(c, a) BY <2>1 DEF a
    <3>3. QED BY <1>1, <3>1, <3>2, AnswerEffects
  <2>3. View(c) = db BY <2>1 DEF View
  <2>4. req[c].seat \notin TicketIds(db)
    <3>1. db = Apply(db, req[c]) /\ db \in Contents BY <1>1, <2>1 DEF Tidy, TypeOK
    <3>2. db.ticket = {row \in db.ticket : row.resid # req[c].seat}
      BY <1>1, <2>1, <3>1, ApplyFields DEF WriteOps
    <3>3. QED BY <3>2 DEF TicketIds
  <2>5. \A n \in refunded'[c] : n \notin TicketIds(db) /\ n <= db.ticketSeq
    BY <1>1, <2>2, <2>3, <2>4 DEF Told, Numbered
  <2>6. ~intx'[c] BY <1>1, <2>1 DEF Tidy
  <2>7. Tidy(c)' BY <2>1, <2>2, <2>6, NoRequestType DEF Tidy, Outside
  <2>8. QED BY <1>1, <1>2, <2>1, <2>2, <2>5, <2>7, QuietCare DEF Numbered
<1>12. QED
  BY <1>4, <1>5, <1>6, <1>7, <1>8, <1>9, <1>10, <1>11 DEF GoesOn

\* What the statement of a careful client does to the numbers in the file.
LEMMA ApplyNumbered ==
    ASSUME NEW s \in Contents, NEW r \in Request, r.op \in WriteOps \ {"CREATE"},
           \A f, g \in s.flight : f.id = g.id => f = g,
           \A f \in s.flight : f.id <= s.flightSeq,
           \A t \in s.ticket : t.resid <= s.ticketSeq
    PROVE  /\ \A f, g \in Apply(s, r).flight : f.id = g.id => f = g
           /\ \A f \in Apply(s, r).flight : f.id <= Apply(s, r).flightSeq
           /\ \A t \in Apply(s, r).ticket : t.resid <= Apply(s, r).ticketSeq
           /\ s.ticketSeq \in Nat /\ Apply(s, r).ticketSeq \in Nat
           /\ s.ticketSeq <= Apply(s, r).ticketSeq
           /\ \A n \in TicketIds(Apply(s, r)) : n \in TicketIds(s) \/ n > s.ticketSeq
           /\ r.op = "OP_PURCHASE" => Apply(s, r).ticketSeq = s.ticketSeq + 1
           /\ r.op = "OP_CANCEL" => r.seat \notin TicketIds(Apply(s, r))
<1>1. /\ s.ticketSeq \in Nat /\ s.flightSeq \in Nat
      /\ \A f \in s.flight : f.id \in Nat
      /\ \A t \in s.ticket : t.resid \in Nat
  BY DEF Contents, FlightRow, TicketRow
<1>2. CASE r.op = "OP_PURCHASE"
  <2> DEFINE new == [resid |-> s.ticketSeq + 1, flightid |-> r.flight]
  <2>1. /\ Apply(s, r).ticket = s.ticket \cup {new} /\ Apply(s, r).ticketSeq = s.ticketSeq + 1
        /\ Apply(s, r).flight = s.flight /\ Apply(s, r).flightSeq = s.flightSeq
    BY <1>2, ApplyFields
  <2>2. new.resid = s.ticketSeq + 1 OBVIOUS
  <2> HIDE DEF new
  <2>3. \A n \in TicketIds(Apply(s, r)) : n \in TicketIds(s) \/ n = s.ticketSeq + 1
    BY <2>1, <2>2 DEF TicketIds
  <2>4. \A t \in Apply(s, r).ticket : t.resid <= Apply(s, r).ticketSeq
    BY <1>1, <2>1, <2>2
  <2>5. QED BY <1>1, <1>2, <2>1, <2>3, <2>4
<1>3. CASE r.op = "OP_CANCEL"
  <2>1. /\ Apply(s, r).ticket = {row \in s.ticket : row.resid # r.seat}
        /\ Apply(s, r).ticketSeq = s.ticketSeq
        /\ Apply(s, r).flight = s.flight /\ Apply(s, r).flightSeq = s.flightSeq
    BY <1>3, ApplyFields DEF WriteOps
  <2>2. r.seat \notin TicketIds(Apply(s, r)) /\ TicketIds(Apply(s, r)) \subseteq TicketIds(s)
    BY <2>1 DEF TicketIds
  <2>3. QED BY <1>1, <1>3, <2>1, <2>2
<1>4. CASE r.op = "OP_ADDFLIGHT"
  <2> DEFINE new == [id |-> s.flightSeq + 1, origin |-> r.origin, destination |-> r.destination]
  <2>1. /\ Apply(s, r).flight = s.flight \cup {new} /\ Apply(s, r).flightSeq = s.flightSeq + 1
        /\ Apply(s, r).ticket = s.ticket /\ Apply(s, r).ticketSeq = s.ticketSeq
    BY <1>4, ApplyFields
  <2>2. new.id = s.flightSeq + 1 OBVIOUS
  <2> HIDE DEF new
  <2>3. ASSUME NEW f \in s.flight PROVE f.id # new.id /\ f.id <= s.flightSeq + 1
    <3>1. f.id \in Nat /\ f.id <= s.flightSeq BY <1>1
    <3>2. QED BY <1>1, <2>2, <3>1
  <2>4. \A f \in Apply(s, r).flight : f.id <= Apply(s, r).flightSeq
    BY <1>1, <2>1, <2>2, <2>3
  <2>5. \A f, g \in Apply(s, r).flight : f.id = g.id => f = g
    BY <2>1, <2>3
  <2>6. TicketIds(Apply(s, r)) = TicketIds(s) BY <2>1 DEF TicketIds
  <2>7. QED BY <1>1, <1>4, <2>1, <2>4, <2>5, <2>6
<1>5. QED BY <1>2, <1>3, <1>4 DEF WriteOps

\* The changes of a careful client reach the file.
LEMMA WriteCare ==
    ASSUME LInv, Care, careful, NEW c \in Conn, Write(c)
    PROVE  Care'
<1> DEFINE r == req[c]
           t == Apply(db, r)
<1>1. /\ TypeOK /\ Flow(c) /\ Draft(c) /\ Numbered /\ fileExists /\ r \in Request
      /\ \A d \in Conn : Tidy(d) /\ Told(d) /\ Flow(d)
      /\ db \in Contents
  BY DEF LInv, IInv, StateInv, FlowInv, ContentInv, Care, TypeOK
<1>2. pc[c] = "write" /\ lock[c] = "exclusive" /\ work[c] = t /\ r.op \in WriteOps \ {"CREATE"}
  BY <1>1 DEF Write, Flow, Tidy
<1>3. /\ db' = t /\ UNCHANGED <<fileExists, cancelled>> /\ lock'[c] = "none" /\ intx'[c] = FALSE
      /\ AnswerWith(c, Reply(t, r))
  BY <1>1, <1>2 DEF Write, SetLock, TypeOK
<1>4. Alike(c) BY WorkEffects DEF LInv, GoesOn
<1>5. /\ \A f, g \in t.flight : f.id = g.id => f = g
      /\ \A f \in t.flight : f.id <= t.flightSeq
      /\ \A row \in t.ticket : row.resid <= t.ticketSeq
      /\ db.ticketSeq \in Nat /\ t.ticketSeq \in Nat /\ db.ticketSeq <= t.ticketSeq
      /\ \A n \in TicketIds(t) : n \in TicketIds(db) \/ n > db.ticketSeq
      /\ r.op = "OP_PURCHASE" => t.ticketSeq = db.ticketSeq + 1
      /\ r.op = "OP_CANCEL" => r.seat \notin TicketIds(t)
  BY <1>1, <1>2, ApplyNumbered DEF Numbered
<1>6. t.tables = db.tables BY <1>1, <1>2, ApplyTables
<1>7. r.op = "OP_PURCHASE" => t.ticketSeq \in TicketIds(t)
  BY <1>1, <1>2, ApplyNumbers
<1>8. View(c) = t /\ TicketIds(db) \subseteq TicketIds(t) \cup cancelled
  BY <1>1, <1>2 DEF View, Writer, WriteLocks, Draft, Follows
<1>9. /\ pc'[c] = "idle" /\ req'[c] = NoRequest
      /\ sold'[c] \subseteq sold[c] \cup (IF r.op = "OP_PURCHASE" THEN {t.ticketSeq} ELSE {})
      /\ refunded'[c] \subseteq refunded[c] \cup
            (IF r.op = "OP_CANCEL" THEN {r.seat} \cap (cancelled \cup TicketIds(t)) ELSE {})
  <2> DEFINE a == Reply(t, r)
  <2>1. /\ a.seats = IF r.op = "OP_PURCHASE" THEN {t.ticketSeq} ELSE {}
        /\ a.refunds = IF r.op = "OP_CANCEL" THEN {r.seat} ELSE {}
    BY <1>2 DEF Reply, Tell, WriteOps
  <2>2. AnswerWith(c, a) BY <1>3
  <2> HIDE DEF a, t, r
  <2>3. QED BY <1>1, <1>8, <2>1, <2>2, AnswerEffects
<1> HIDE DEF t
<1>10. Numbered'
  <2>1. \A n \in cancelled : n <= t.ticketSeq
    <3>1. ASSUME NEW n \in cancelled PROVE n <= t.ticketSeq
      <4>1. n \in Nat /\ n <= db.ticketSeq BY <1>1 DEF Numbered, TypeOK
      <4>2. QED BY <1>5, <4>1
    <3>2. QED BY <3>1
  <2>2. QED BY <1>1, <1>3, <1>5, <1>6, <2>1 DEF Numbered
<1>11. ASSUME NEW d \in Conn, NEW n \in sold[d] \cup refunded[d]
       PROVE  /\ n \in Nat /\ n <= db.ticketSeq /\ n <= t.ticketSeq
              /\ n \in refunded[d] => n \notin TicketIds(t)
  <2>1. n \in Nat /\ n <= db.ticketSeq /\ (n \in refunded[d] => n \notin TicketIds(db))
    BY <1>1 DEF Told, TypeOK
  <2>2. QED BY <1>5, <2>1
<1>12. ASSUME NEW n \in sold'[c], n \notin sold[c]
       PROVE  n = t.ticketSeq /\ n > db.ticketSeq /\ n \in TicketIds(t)
  BY <1>5, <1>7, <1>9, <1>12
<1>13. ASSUME NEW n \in refunded'[c], n \notin refunded[c]
       PROVE  n <= t.ticketSeq /\ n \notin TicketIds(t)
  <2>1. n \in cancelled /\ n \notin TicketIds(t)
    BY <1>5, <1>9, <1>13
  <2>2. n <= t.ticketSeq BY <1>3, <1>10, <2>1 DEF Numbered
  <2>3. QED BY <2>1, <2>2
<1>14. ASSUME NEW d \in Conn, d # c PROVE sold'[d] = sold[d] /\ refunded'[d] = refunded[d]
  BY <1>4, <1>14 DEF Alike
<1>15. ASSUME NEW d \in Conn PROVE Told(d)'
  <2>1. ASSUME NEW n \in sold'[d] PROVE n \in TicketIds(t) \cup cancelled /\ n <= t.ticketSeq
    <3>1. CASE n \in sold[d] BY <1>1, <1>8, <1>11, <3>1 DEF Told
    <3>2. CASE n \notin sold[d]
      <4>1. d = c BY <1>14, <2>1, <3>2
      <4>2. QED BY <1>5, <1>12, <2>1, <3>2, <4>1
    <3>3. QED BY <3>1, <3>2
  <2>2. ASSUME NEW n \in refunded'[d] PROVE n \notin TicketIds(t) /\ n <= t.ticketSeq
    <3>1. CASE n \in refunded[d] BY <1>11, <3>1
    <3>2. CASE n \notin refunded[d]
      <4>1. d = c BY <1>14, <2>2, <3>2
      <4>2. QED BY <1>13, <2>2, <3>2, <4>1
    <3>3. QED BY <3>1, <3>2
  <2>3. ASSUME NEW e \in Conn, e # d, NEW n \in sold'[d], n \in sold'[e] PROVE FALSE
    <3>1. CASE n \in sold[d] /\ n \in sold[e] BY <1>1, <2>3, <3>1 DEF Told
    <3>2. CASE n \notin sold[d]
      <4>1. d = c /\ n > db.ticketSeq BY <1>12, <1>14, <2>3, <3>2
      <4>2. n \in sold[e] BY <1>14, <2>3, <4>1
      <4>3. QED BY <1>5, <1>11, <4>1, <4>2
    <3>3. CASE n \notin sold[e]
      <4>1. e = c /\ n > db.ticketSeq BY <1>12, <1>14, <2>3, <3>3
      <4>2. n \in sold[d] BY <1>14, <2>3, <4>1
      <4>3. QED BY <1>5, <1>11, <4>1, <4>2
    <3>4. QED BY <3>1, <3>2, <3>3
  <2>4. TicketIds(db)' = TicketIds(t) /\ (db.ticketSeq)' = t.ticketSeq BY <1>3 DEF TicketIds
  <2>5. QED BY <1>3, <2>1, <2>2, <2>3, <2>4 DEF Told
<1>16. Tidy(c)' BY <1>3, <1>9, NoRequestType DEF Tidy
<1>17. ASSUME NEW d \in Conn, d # c PROVE Tidy(d)'
  <2>1. pc[d] \in Outside BY <1>2, <1>17, CarefulAlone DEF Outside
  <2>2. Tidy(d) /\ req[d].op # "OP_PURCHASE"
    BY <1>1, <2>1, NoRequestType DEF Flow, Outside
  <2>3. /\ lock'[d] = lock[d] /\ work'[d] = work[d] /\ intx'[d] = intx[d]
        /\ pc'[d] = pc[d] /\ req'[d] = req[d]
    BY <1>4, <1>17 DEF Alike
  <2>4. QED BY <2>1, <2>2, <2>3 DEF Tidy, Outside
<1>18. QED BY <1>1, <1>3, <1>10, <1>15, <1>16, <1>17 DEF Care

\* Among careful clients every step keeps the file in order and nobody fails.
LEMMA CareStep ==
    ASSUME LInv, [LocalNext]_localVars, careful'
    PROVE  Care'
<1>1. ASSUME NEW c \in Conn, Start(c) PROVE Care'
  <2>1. FileExist(c) /\ careful /\ Care BY <1>1 DEF Start, mutexVars, LInv
  <2>2. QED BY <2>1, SessionCare
<1>2. ASSUME UNCHANGED vars, careful PROVE Care'
  <2>1. Care BY <1>2 DEF LInv
  <2>2. QED BY <1>2, <2>1 DEF vars, fileVars, connVars, procVars, histVars, toldVars,
           Care, Numbered, Told, Tidy, TicketIds, FlightIds
<1>3. ASSUME NEW c \in Conn, Command(c) \/ fmutex_leave(c) PROVE Care'
  BY <1>2, <1>3 DEF Command, fmutex_leave
<1>4. ASSUME NEW c \in Conn, NEW r \in Requests, fmutex_enter(c, r) PROVE Care'
  <2>1. Receive(c, r) /\ Asks(r) /\ careful /\ Care BY <1>4 DEF fmutex_enter, Asks, LInv
  <2>2. QED BY <2>1, SessionCare
<1>5. ASSUME NEW c \in Conn, Exit(c) \/ int_handler(c) PROVE Care'
  <2>1. Leave(c, "down") /\ careful /\ Care
    BY <1>5 DEF Exit, int_handler, Quit, Interrupt, mutexVars, LInv
  <2>2. QED BY <2>1, SessionCare
<1>6. ASSUME NEW c \in Conn, Execute(c) PROVE Care'
  <2>1. careful /\ Care /\ Work(c) BY <1>6 DEF Execute, mutexVars, LInv
  <2>2. GoesOn(c) BY <2>1, WorkSplits, CarefulGoesOn
  <2>3. QED BY <2>1, <2>2, ExecuteCare, WriteCare
<1>7. ASSUME UNCHANGED localVars PROVE Care'
  BY <1>2, <1>7 DEF localVars, mutexVars
<1>8. QED BY <1>1, <1>3, <1>4, <1>5, <1>6, <1>7, Zenon DEF LocalNext, Step

-----------------------------------------------------------------------------
(* The theorems.                                                           *)

\* At first nobody holds the mutex or a lock, and nobody has been told
\* anything.
LEMMA InitLocal == LocalInit => LInv
<1> SUFFICES ASSUME LocalInit PROVE LInv
  OBVIOUS
<1>1. IInv BY InitState, InitContent DEF LocalInit, IInv
<1>2. careful \in BOOLEAN BY Zenon DEF LocalInit, Init
<1>3. Mutex
  BY <1>2 DEF LocalInit, Init, Mutex, Placed, Outside
<1>4. \A c \in Conn : Leftover(c)
  BY NoRequestType DEF LocalInit, Init, Leftover, Writer, WriteLocks
<1>5. careful => Care
  <2> SUFFICES ASSUME careful PROVE Care
    OBVIOUS
  <2>1. fileExists /\ db = Created BY DEF LocalInit, Init
  <2>2. db.tables = {"ticket", "flight"} /\ db.flight = {} /\ db.ticket = {}
    BY <2>1 DEF Created, Empty
  <2>3. Numbered BY <2>2 DEF Numbered, LocalInit, Init
  <2>4. ASSUME NEW c \in Conn PROVE Told(c) /\ Tidy(c)
    BY NoRequestType DEF LocalInit, Init, Told, Tidy
  <2>5. QED BY <2>1, <2>3, <2>4 DEF Care
<1>6. QED BY <1>1, <1>3, <1>4, <1>5 DEF LInv

\* The invariant of the local clients is inductive.
LEMMA LocalInductive == LocalSpec => []LInv
<1>1. ASSUME LInv, [LocalNext]_localVars PROVE LInv'
  <2>1. [Next]_vars BY <1>1, LocalIsNext
  <2>2. IInv' BY <1>1, <2>1, NextState, NextContent DEF LInv, IInv
  <2>3. Mutex' BY <1>1, MutexStep
  <2>4. \A c \in Conn : Leftover(c)' BY <1>1, <2>1, LeftoverStep DEF LInv
  <2>5. careful' => Care' BY <1>1, CareStep
  <2>6. QED BY <2>2, <2>3, <2>4, <2>5 DEF LInv
<1>2. QED BY <1>1, InitLocal, PTL DEF LocalSpec

\* The types; and however many local clients there are, none of them ends on
\* SQLITE_BUSY as long as all ask only for flights that are there: the mutex
\* stands in for the busy handler that db_open does not install.
THEOREM LocalSafety == LocalSpec => []LocalInv
<1>1. LInv => LocalInv
  BY DEF LInv, IInv, StateInv, Mutex, Care, Tidy, LocalInv, LocalTypeOK, NobodyFails
<1>2. QED BY <1>1, LocalInductive, PTL

\* However many careful clients there are, a confirmed ticket is in the file
\* until it is cancelled, a confirmed cancellation is final, and no number is
\* given out twice, whatever signals end their sessions.
THEOREM CarefulPromisesHold == LocalSpec => []CarefulPromises
<1>1. LInv => CarefulPromises
  <2>1. SUFFICES ASSUME LInv, careful PROVE ReceiptsHonoured /\ ReceiptsUnique /\ RefundsHonoured
    BY DEF CarefulPromises
  <2>2. \A c \in Conn : Told(c) BY <2>1 DEF LInv, Care
  <2>3. QED BY <2>2 DEF Told, ReceiptsHonoured, ReceiptsUnique, RefundsHonoured
<1>2. QED BY <1>1, LocalInductive, PTL

\* A client of any number fails, once the tables are there, only on a
\* transaction that another one took out of the mutex with it.
THEOREM OnlyLeaksMakeFail == LocalSpec => OnlyLeaksFail
<1>1. ASSUME LInv, [LocalNext]_localVars
      PROVE  [\A c \in Conn : pc[c] # "failed" /\ pc'[c] = "failed" /\ Settled
                 => \E d \in Conn \ {c} : Leaks(d) /\ intx[d]]_localVars
  BY <1>1, BlameTheLeak
<1>2. QED BY <1>1, LocalInductive, PTL DEF LocalSpec, OnlyLeaksFail
=============================================================================

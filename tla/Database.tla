------------------------------ MODULE Database ------------------------------
(***************************************************************************)
(* server/db/database.c together with execute_datagram of                  *)
(* server/libserver.c: processes (server children or local clients) that   *)
(* share ../database.sqlite, each through a connection of its own, and     *)
(* serve one datagram at a time.                                           *)
(*                                                                         *)
(* An action is a step of one process between two lock operations on the   *)
(* file.  A statement that meets SQLITE_BUSY, or a missing or duplicate    *)
(* table, ends the process with exit(1); the one exception is the END of   *)
(* db_purchase, whose result the code ignores.                             *)
(*                                                                         *)
(* Abstracted: the departure of a flight (carried along, never looked at), *)
(* OP_PING (touches no table), SQL text.                                   *)
(***************************************************************************)
EXTENDS Integers, FiniteSets, Sqlite

CONSTANTS
    Conn,        \* processes that open the database
    Airport,     \* airport_id values of flights
    Filters,     \* <<origin, destination>> of the consults that are made
    MaxFlight,   \* bound: rows ever inserted into flight
    MaxTicket    \* bound: rows ever inserted into ticket

ASSUME AirportAssumption == Airport \subseteq Nat /\ Filters \subseteq Int \X Int
ASSUME BoundAssumption == MaxFlight \in Nat /\ MaxTicket \in Nat

VARIABLES
    fileExists,  \* ../database.sqlite is in the file system
    db,          \* committed contents of the file
    hot,         \* a rollback journal of a dead writer lies beside the file
    lock,        \* lock[c]: lock of connection c on the file
    work,        \* work[c]: contents as changed by c and not yet committed
    intx,        \* intx[c]: c is between BEGIN and a successful END
    pc,          \* pc[c]: where process c is
    req,         \* req[c]: datagram (or CREATE TABLE) c is executing
    shown,       \* history: flights the process told its client of
    sold,        \* history: tickets the process confirmed as bought
    refunded,    \* history: tickets the process cancelled and said so
    cancelled    \* history: tickets a DELETE has hit, committed or not

fileVars == <<fileExists, db, hot>>
connVars == <<lock, work, intx>>
procVars == <<pc, req>>
toldVars == <<shown, sold, refunded>>
histVars == <<toldVars, cancelled>>
vars == <<fileVars, connVars, procVars, histVars>>

-----------------------------------------------------------------------------
FlightRow == [id : Nat, origin : Nat, destination : Nat]
TicketRow == [resid : Nat, flightid : Nat]
Contents  == [tables : SUBSET {"ticket", "flight"},
              flight : SUBSET FlightRow, ticket : SUBSET TicketRow,
              flightSeq : Nat, ticketSeq : Nat]

\* A fresh file, and one on which db_create has run.
Empty   == [tables |-> {}, flight |-> {}, ticket |-> {},
            flightSeq |-> 0, ticketSeq |-> 0]
Created == [Empty EXCEPT !.tables = {"ticket", "flight"}]

NoFilter == -1                  \* no filter in a consult
NoSeat == -1                    \* db_purchase of a flight that is not there
NoRequest == [op |-> "none"]

Request == [op : {"OP_PURCHASE"}, flight : Nat]
           \cup [op : {"OP_CANCEL"}, seat : Nat]
           \cup [op : {"OP_CONSULT"}, origin : Int, destination : Int]
           \cup [op : {"OP_ADDFLIGHT"}, origin : Nat, destination : Nat]
           \cup [op : {"CREATE"}, table : {"ticket", "flight"}]
           \cup {NoRequest}

Writer(c) == lock[c] \in WriteLocks
View(c)   == IF Writer(c) THEN work[c] ELSE db
FlightIds(s) == {row.id : row \in s.flight}
TicketIds(s) == {row.resid : row \in s.ticket}

-----------------------------------------------------------------------------
(* The statements, as functions of the contents they run on.               *)

\* Mutant: the row count is not looked at.
FlightExistsUnchecked(s, id) == TRUE

\* db_flight_exists: SELECT COUNT(*) ... WHERE id, compared with 1.
db_flight_exists(s, id) == Cardinality({row \in s.flight : row.id = id}) = 1

\* The four forms of the SELECT of db_consult_flights.
db_consult_flights(s, origin, destination) ==
    {row \in s.flight : /\ origin \in {NoFilter, row.origin}
                        /\ destination \in {NoFilter, row.destination}}

\* Mutant: INTEGER PRIMARY KEY without AUTOINCREMENT, the largest id plus one.
AddTicketNoAutoincrement(s, id) ==
    LET top == CHOOSE n \in {0} \cup TicketIds(s) : \A m \in TicketIds(s) : m <= n
    IN [s EXCEPT !.ticketSeq = top + 1,
                 !.ticket = @ \cup {[resid |-> top + 1, flightid |-> id]}]

\* INSERT INTO ticket; AUTOINCREMENT never gives out an id twice.
add_ticket(s, id) ==
    [s EXCEPT !.ticketSeq = @ + 1,
              !.ticket = @ \cup {[resid |-> s.ticketSeq + 1, flightid |-> id]}]

\* Mutant: the WHERE clause compares with the wrong operator.
RemoveTicketsUpTo(s, id) == [s EXCEPT !.ticket = {row \in @ : row.resid > id}]

\* DELETE FROM ticket WHERE resid.
remove_ticket(s, id) ==
    [s EXCEPT !.ticket = {row \in @ : row.resid # id}]

\* INSERT INTO flight.
db_add_flight(s, origin, destination) ==
    [s EXCEPT !.flightSeq = @ + 1,
              !.flight = @ \cup {[id |-> s.flightSeq + 1, origin |-> origin,
                                  destination |-> destination]}]

\* One CREATE TABLE of db_create.
db_create(s, table) == [s EXCEPT !.tables = @ \cup {table}]

\* The contents after the writing statement of request r.
Apply(s, r) ==
    CASE r.op = "OP_PURCHASE"  -> add_ticket(s, r.flight)
      [] r.op = "OP_CANCEL"    -> remove_ticket(s, r.seat)
      [] r.op = "OP_ADDFLIGHT" -> db_add_flight(s, r.origin, r.destination)
      [] r.op = "CREATE"       -> db_create(s, r.table)

\* What an answer tells the client: flights there are, the seat sold (or
\* NoSeat), the ticket cancelled.
Tell(flights, seats, refunds) ==
    [flights |-> flights, seats |-> seats, refunds |-> refunds]

\* The answer to r once its writing statement has led to s.
Reply(s, r) ==
    CASE r.op = "OP_PURCHASE"  -> Tell({}, {s.ticketSeq}, {})
      [] r.op = "OP_CANCEL"    -> Tell({}, {}, {r.seat})
      [] r.op = "OP_ADDFLIGHT" -> Tell({s.flightSeq}, {}, {})

-----------------------------------------------------------------------------
(* Steps shared by the actions.                                            *)

SetLock(c, l)  == lock' = [lock EXCEPT ![c] = l]
SetWork(c, s)  == work' = [work EXCEPT ![c] = s]
GoTo(c, label) == pc' = [pc EXCEPT ![c] = label]

\* The process ends and the system drops its lock.  Its changes are gone; if
\* they were on their way to the file, the journal on the disk may say so.
Leave(c, label) ==
    /\ hot' \in (IF pc[c] = "write" THEN BOOLEAN ELSE {hot})
    /\ GoTo(c, label)
    /\ SetLock(c, "none")
    /\ SetWork(c, Empty)
    /\ intx' = [intx EXCEPT ![c] = FALSE]
    /\ req' = [req EXCEPT ![c] = NoRequest]
    /\ UNCHANGED <<fileExists, db, histVars>>

\* DB_EXEC, DB_PREPARE_STATEMENT or SQLITE_STATEMENT_EXPECT: sqlite3_close
\* and exit(1).
Fail(c) == Leave(c, "failed")

\* execute_datagram returns answer a; the client is told.
AnswerWith(c, a) ==
    /\ GoTo(c, "idle")
    /\ req' = [req EXCEPT ![c] = NoRequest]
    /\ shown' = [shown EXCEPT ![c] = @ \cup a.flights]
    /\ sold' = [sold EXCEPT ![c] = @ \cup (a.seats \ {NoSeat})]
    /\ refunded' = [refunded EXCEPT ![c] = @ \cup (a.refunds \cap (cancelled \cup TicketIds(View(c))))]

-----------------------------------------------------------------------------
(* db_open.                                                                *)

\* A new process looks for the file.
FileExist(c) ==
    /\ pc[c] \in {"down", "failed"}
    /\ GoTo(c, "open")
    /\ req' = [req EXCEPT ![c] = IF fileExists THEN NoRequest
                                 ELSE [op |-> "CREATE", table |-> "ticket"]]
    /\ shown' = [shown EXCEPT ![c] = {}]
    /\ sold' = [sold EXCEPT ![c] = {}]
    /\ refunded' = [refunded EXCEPT ![c] = {}]
    /\ UNCHANGED <<fileVars, connVars, cancelled>>

\* sqlite3_open creates the file when it is missing; db_create follows if
\* the file was missing when the process looked.
Open(c) ==
    /\ pc[c] = "open"
    /\ fileExists' = TRUE
    /\ GoTo(c, IF req[c] = NoRequest THEN "idle" ELSE "share")
    /\ UNCHANGED <<db, hot, connVars, req, histVars>>

-----------------------------------------------------------------------------
(* execute_datagram.                                                       *)

\* The contents the latest writer sees, to bound the ids.
Tip == IF \E c \in Conn : Writer(c)
       THEN work[CHOOSE c \in Conn : Writer(c)] ELSE db
Coming(op) == Cardinality({c \in Conn :
    req[c].op = op /\ pc[c] \in {"share", "recover", "rollback", "exists", "reserve"}})

Requests ==
    {[op |-> "OP_PURCHASE", flight |-> f] :
        f \in IF Tip.ticketSeq + Coming("OP_PURCHASE") < MaxTicket
              THEN 1..(MaxFlight + 1) ELSE {}}
    \cup {[op |-> "OP_ADDFLIGHT", origin |-> p[1], destination |-> p[2]] :
        p \in IF Tip.flightSeq + Coming("OP_ADDFLIGHT") < MaxFlight
              THEN Airport \X Airport ELSE {}}
    \cup {[op |-> "OP_CANCEL", seat |-> s] : s \in 1..MaxTicket}
    \cup {[op |-> "OP_CONSULT", origin |-> p[1], destination |-> p[2]] : p \in Filters}

\* A datagram arrives.  db_purchase first executes BEGIN, which takes no lock
\* and whose failure inside an open transaction is ignored.
Receive(c, r) ==
    /\ pc[c] = "idle"
    /\ req' = [req EXCEPT ![c] = r]
    /\ intx' = [intx EXCEPT ![c] = @ \/ r.op = "OP_PURCHASE"]
    /\ GoTo(c, "share")
    /\ UNCHANGED <<fileVars, lock, work, histVars>>

\* The first statement of the request takes SHARED, unless an open
\* transaction has left the connection with a lock.
AfterShare(r) == CASE r.op = "OP_PURCHASE" -> "exists"
                   [] r.op = "OP_CONSULT"  -> "rows"
                   [] OTHER -> "reserve"

\* A connection that takes SHARED and finds a hot journal rolls it back first.
Share(c) ==
    /\ pc[c] = "share"
    /\ lock[c] # "none" \/ CanShare(lock, c)
    /\ SetLock(c, IF lock[c] = "none" THEN "shared" ELSE lock[c])
    /\ GoTo(c, IF hot /\ lock[c] = "none" THEN "recover" ELSE AfterShare(req[c]))
    /\ UNCHANGED <<fileVars, work, intx, req, histVars>>

\* The rollback needs EXCLUSIVE: of two that found the journal, one gives up.
Recover(c) ==
    /\ pc[c] = "recover"
    /\ CanExclude(lock, c)
    /\ SetLock(c, "exclusive")
    /\ SetWork(c, db)
    /\ GoTo(c, "rollback")
    /\ UNCHANGED <<fileVars, intx, req, histVars>>

RecoverBusy(c) ==
    /\ pc[c] = "recover"
    /\ ~CanExclude(lock, c)
    /\ Fail(c)

Recovered(c) ==
    /\ pc[c] = "rollback"
    /\ hot' = FALSE
    /\ SetLock(c, "shared")
    /\ SetWork(c, Empty)
    /\ GoTo(c, AfterShare(req[c]))
    /\ UNCHANGED <<fileExists, db, intx, req, histVars>>

\* Mutant: a busy handler that waits for the lock.
ShareBusyWaits(c) == FALSE /\ UNCHANGED vars

ShareBusy(c) ==
    /\ pc[c] = "share"
    /\ lock[c] = "none"
    /\ ~CanShare(lock, c)
    /\ Fail(c)

\* The table the statement at pc[c] is about, and whether it can be compiled:
\* CREATE TABLE needs it missing, everything else needs it there.
Table(c) == CASE req[c].op = "CREATE" -> req[c].table
              [] req[c].op = "OP_CANCEL" -> "ticket"
              [] req[c].op = "OP_PURCHASE" /\ pc[c] = "reserve" -> "ticket"
              [] OTHER -> "flight"
TableFits(c) == (req[c].op = "CREATE") <=> (Table(c) \notin View(c).tables)

NoTable(c) ==
    /\ pc[c] \in {"exists", "rows", "reserve"}
    /\ ~TableFits(c)
    /\ Fail(c)

\* db_purchase: the flight is there, or the function returns -1 with the
\* transaction of its BEGIN still open.
FlightFound(c) ==
    /\ pc[c] = "exists"
    /\ TableFits(c)
    /\ db_flight_exists(View(c), req[c].flight)
    /\ GoTo(c, "reserve")
    /\ UNCHANGED <<fileVars, connVars, req, histVars>>

\* Mutant: the -1 of a missing flight is taken for a seat.
FlightMissingSold(c) ==
    /\ pc[c] = "exists"
    /\ TableFits(c)
    /\ ~db_flight_exists(View(c), req[c].flight)
    /\ GoTo(c, "idle")
    /\ req' = [req EXCEPT ![c] = NoRequest]
    /\ sold' = [sold EXCEPT ![c] = @ \cup {NoSeat}]
    /\ UNCHANGED <<fileVars, connVars, shown, refunded, cancelled>>

FlightMissing(c) ==
    /\ pc[c] = "exists"
    /\ TableFits(c)
    /\ ~db_flight_exists(View(c), req[c].flight)
    /\ AnswerWith(c, Tell({}, {NoSeat}, {}))
    /\ UNCHANGED <<fileVars, connVars, cancelled>>

\* db_consult_flights: rows are stepped through under SHARED, which finalize
\* drops outside a transaction.
Consult(c) ==
    /\ pc[c] = "rows"
    /\ TableFits(c)
    /\ AnswerWith(c, Tell({row.id : row \in db_consult_flights(View(c),
                                            req[c].origin, req[c].destination)},
                          {}, {}))
    /\ SetLock(c, IF intx[c] THEN lock[c] ELSE "none")
    /\ UNCHANGED <<fileVars, work, intx, cancelled>>

\* The INSERT, DELETE or CREATE TABLE: RESERVED, then the change.  Inside a
\* transaction the statement ends here; db_purchase goes on to its END.
Reserve(c) ==
    /\ pc[c] = "reserve"
    /\ TableFits(c)
    /\ Writer(c) \/ CanReserve(lock, c)
    /\ SetLock(c, IF Writer(c) THEN lock[c] ELSE "reserved")
    /\ SetWork(c, Apply(View(c), req[c]))
    /\ cancelled' = IF req[c].op = "OP_CANCEL"
                    THEN cancelled \cup ({req[c].seat} \cap TicketIds(View(c)))
                    ELSE cancelled
    /\ IF intx[c] /\ req[c].op # "OP_PURCHASE"
       THEN AnswerWith(c, Reply(Apply(View(c), req[c]), req[c]))
       ELSE GoTo(c, "commit") /\ UNCHANGED <<req, toldVars>>
    /\ UNCHANGED <<fileVars, intx>>

ReserveBusy(c) ==
    /\ pc[c] = "reserve"
    /\ TableFits(c)
    /\ ~Writer(c)
    /\ ~CanReserve(lock, c)
    /\ Fail(c)

\* The DELETE of a ticket that is not there changes nothing, and commits
\* without EXCLUSIVE.
CommitNothing(c) ==
    /\ pc[c] = "commit"
    /\ req[c].op = "OP_CANCEL"
    /\ work[c] = db
    /\ SetLock(c, "none")
    /\ SetWork(c, Empty)
    /\ AnswerWith(c, Reply(db, req[c]))
    /\ UNCHANGED <<fileVars, intx, cancelled>>

\* END TRANSACTION, or the end of an autocommit statement: EXCLUSIVE.
Exclude(c) ==
    /\ pc[c] = "commit"
    /\ work[c] # db
    /\ CanExclude(lock, c)
    /\ SetLock(c, "exclusive")
    /\ GoTo(c, "write")
    /\ UNCHANGED <<fileVars, work, intx, req, histVars>>

\* Mutant: a refused END is rolled back, and the seat answered all the same.
EndBusyRollsBack(c) ==
    /\ pc[c] = "commit"
    /\ intx[c]
    /\ ~CanExclude(lock, c)
    /\ SetLock(c, "none")
    /\ SetWork(c, Empty)
    /\ intx' = [intx EXCEPT ![c] = FALSE]
    /\ AnswerWith(c, Reply(work[c], req[c]))
    /\ UNCHANGED <<fileVars, cancelled>>

\* Mutant: the pages are written although a reader holds SHARED.
EndBusyWrites(c) ==
    /\ pc[c] = "commit"
    /\ intx[c]
    /\ ~CanExclude(lock, c)
    /\ db' = work[c]
    /\ SetLock(c, "pending")
    /\ AnswerWith(c, Reply(work[c], req[c]))
    /\ UNCHANGED <<fileExists, hot, work, intx, cancelled>>

\* END meets a reader: SQLITE_BUSY is ignored, the seat is answered, the
\* transaction stays open under PENDING.
EndBusy(c) ==
    /\ pc[c] = "commit"
    /\ intx[c]
    /\ ~CanExclude(lock, c)
    /\ SetLock(c, "pending")
    /\ AnswerWith(c, Reply(work[c], req[c]))
    /\ UNCHANGED <<fileVars, work, intx, cancelled>>

\* An autocommit statement meets a reader: rolled back, exit(1).
CommitBusy(c) ==
    /\ pc[c] = "commit"
    /\ ~intx[c]
    /\ work[c] # db
    /\ ~CanExclude(lock, c)
    /\ Fail(c)

\* The changes reach the file.  db_create goes on to its second table.
Write(c) ==
    /\ pc[c] = "write"
    /\ db' = work[c]
    /\ SetLock(c, "none")
    /\ SetWork(c, Empty)
    /\ intx' = [intx EXCEPT ![c] = FALSE]
    /\ IF req[c].op # "CREATE" THEN AnswerWith(c, Reply(work[c], req[c]))
       ELSE /\ req' = [req EXCEPT ![c] = IF @.table = "flight" THEN NoRequest
                                         ELSE [@ EXCEPT !.table = "flight"]]
            /\ GoTo(c, IF req[c].table = "flight" THEN "idle" ELSE "share")
            /\ UNCHANGED toldVars
    /\ UNCHANGED <<fileExists, hot, cancelled>>

-----------------------------------------------------------------------------
\* OP_EXIT of the client: exit(0) in serve, the end of main in localclient,
\* neither of which closes the database.
Quit(c) == pc[c] = "idle" /\ Leave(c, "down")

\* SIGINT at any moment: close_conn of the server, int_handler of localclient.
Interrupt(c) ==
    /\ pc[c] \notin {"down", "failed"}
    /\ Leave(c, "down")

Work(c) ==
    \/ Open(c)
    \/ Share(c) \/ Recover(c) \/ RecoverBusy(c) \/ Recovered(c) \/ ShareBusy(c) \/ NoTable(c)
    \/ FlightFound(c) \/ FlightMissing(c) \/ Consult(c)
    \/ Reserve(c) \/ ReserveBusy(c)
    \/ CommitNothing(c) \/ Exclude(c) \/ EndBusy(c) \/ CommitBusy(c) \/ Write(c)

\* The repository ships a database with both tables; the code also runs
\* where the file is missing.
Init ==
    /\ \/ fileExists = TRUE /\ db = Created
       \/ fileExists = FALSE /\ db = Empty
    /\ hot = FALSE
    /\ lock = [c \in Conn |-> "none"]
    /\ work = [c \in Conn |-> Empty]
    /\ intx = [c \in Conn |-> FALSE]
    /\ pc = [c \in Conn |-> "down"]
    /\ req = [c \in Conn |-> NoRequest]
    /\ shown = [c \in Conn |-> {}]
    /\ sold = [c \in Conn |-> {}]
    /\ refunded = [c \in Conn |-> {}]
    /\ cancelled = {}

Next ==
    \E c \in Conn :
        \/ FileExist(c) \/ Work(c)
        \/ \E r \in Requests : Receive(c, r)
        \/ Quit(c) \/ Interrupt(c)

Spec == Init /\ [][Next]_vars

-----------------------------------------------------------------------------
Labels == {"down", "failed", "open", "idle", "share", "recover", "rollback",
           "exists", "rows", "reserve", "commit", "write"}
Alive(c) == pc[c] \notin {"down", "failed"}

\* Types of the variables.
TypeOK ==
    /\ fileExists \in BOOLEAN /\ hot \in BOOLEAN
    /\ db \in Contents
    /\ lock \in [Conn -> Locks]
    /\ work \in [Conn -> Contents]
    /\ intx \in [Conn -> BOOLEAN]
    /\ pc \in [Conn -> Labels]
    /\ req \in [Conn -> Request]
    /\ shown \in [Conn -> SUBSET Nat]
    /\ sold \in [Conn -> SUBSET Nat]
    /\ refunded \in [Conn -> SUBSET Nat]
    /\ cancelled \in SUBSET Nat

\* A session still sees what its answers told its client: the flights, and
\* the tickets it confirmed and nobody has cancelled, even where the END of
\* db_purchase was refused or an earlier purchase left a transaction open.
AnswersStand ==
    \A c \in Conn : Alive(c) =>
        /\ shown[c] \subseteq FlightIds(View(c))
        /\ sold[c] \ cancelled \subseteq TicketIds(View(c))

\* No ticket, committed or not, is for a flight that is not in the same
\* contents: the check of db_flight_exists still holds when add_ticket runs,
\* and a ticket never survives a rollback of its flight.
TicketsHaveFlights ==
    /\ {t.flightid : t \in db.ticket} \subseteq FlightIds(db)
    /\ \A c \in Conn : {t.flightid : t \in View(c).ticket} \subseteq FlightIds(View(c))

\* A commit of one process loses nothing that another committed: flights stay
\* for ever and a ticket goes only after an OP_CANCEL that names it.
NoLostUpdate ==
    [][/\ db.flight \subseteq db'.flight
       /\ TicketIds(db) \ TicketIds(db') \subseteq cancelled]_db

\* The number of a committed ticket or flight is never committed again, not
\* even once the ticket is cancelled.
IdsNeverReused ==
    [][/\ \A t \in db'.ticket \ db.ticket : t.resid > db.ticketSeq
       /\ \A f \in db'.flight \ db.flight : f.id > db.flightSeq]_db

\* execute_datagram ends, with an answer or with the process: whatever locks
\* the others hold, nobody waits for anybody.
RequestsEnd ==
    \A c \in Conn : (Alive(c) /\ pc[c] # "idle") ~> (pc[c] \in {"idle", "down", "failed"})

\* The file, whoever shares it, is the ledger that Ledger.tla describes: the
\* writer's uncommitted contents are its only draft.
File == INSTANCE Ledger WITH Author <- Conn, Blank <- Empty, ledger <- db,
                             editing <- {c \in Conn : Writer(c)}, draft <- work
RefinesLedger == File!Spec

-----------------------------------------------------------------------------
(* What the client prints of an answer, and what the code does not keep.   *)

\* "Compra exitosa. ID del ticket": once the session is over, a ticket it
\* confirmed and nobody cancelled is in the database.
ReceiptsHonoured ==
    \A c \in Conn : ~Alive(c) => sold[c] \ cancelled \subseteq TicketIds(db)

\* "ID del ticket": two sessions never confirm the same ticket number.
ReceiptsUnique ==
    \A c, d \in Conn : c # d => sold[c] \cap sold[d] = {}

\* "Compra cancelada de forma exitosa": once the session is over, a ticket
\* whose cancellation it confirmed is not in the database.
RefundsHonoured ==
    \A c \in Conn : ~Alive(c) => refunded[c] \cap TicketIds(db) = {}
=============================================================================

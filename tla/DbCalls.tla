------------------------------ MODULE DbCalls ------------------------------
(***************************************************************************)
(* server/db/database.c call by call, against the contract of the library  *)
(* interface it is compiled with (server/sqlite3/sqlite3.h).  Database.tla *)
(* has the locks, the file and all the processes; here is one process, and *)
(* what every call of it may return.  Other processes only add rows.       *)
(*                                                                         *)
(* The number of a row is its place in its table: rows of flight are never *)
(* deleted, and of ticket only how many numbers were given out is kept.    *)
(***************************************************************************)
EXTENDS Integers, Sequences

CONSTANTS
    Times,     \* departures that flights are added with
    Word,      \* how many values an int has (2^32)
    Room,      \* rows that fit in a datagram of DATAGRAM_MAXSIZE bytes
    MaxRow     \* bound: rows ever inserted into a table

\* The library has integers of 64 bits, twice as many as an int, for the numbers
\* of rows and for columns of type INTEGER.
sqlite3_int64 == -((Word * Word) \div 2)..((Word * Word) \div 2 - 1)
SQLITE_INTEGER == sqlite3_int64
Ints == -(Word \div 2)..(Word \div 2 - 1)

ASSUME CallsAssumption ==
    /\ Word \in Nat /\ Word > 2 /\ Word % 2 = 0 /\ Room \in Nat /\ MaxRow \in Nat
    /\ Times \subseteq SQLITE_INTEGER /\ 0..MaxRow \subseteq sqlite3_int64

VARIABLES
    pc,          \* where the process is
    request,     \* the datagram it executes
    answer,      \* what it made of the last one
    rowcount,    \* rowcount of db_flight_exists
    results,     \* dg_results of db_consult_flights
    db,          \* the handle db
    statement,   \* the handle statement, with the rows from the current one on
    transaction, \* "auto" (commit), "begun", or "locked" by a statement
    rowid,       \* what sqlite3_last_insert_rowid would return
    now,         \* the tables, as the connection sees them
    saved,       \* the tables without the changes of an open transaction
    before,      \* history: the committed tables when the request came
    mine,        \* history: the number of the row that the request inserted
    undefined    \* history: what was used where the header gives it no meaning

callVars == <<pc, request, answer, rowcount, results>>
dataVars == <<transaction, now, saved>>
libraryVars == <<db, statement, rowid, dataVars>>
historyVars == <<before, mine, undefined>>
vars == <<callVars, libraryVars, historyVars>>

-----------------------------------------------------------------------------
NoTables == [flights |-> <<>>, tickets |-> 0]
Message(op, id, rows) == [op |-> op, id |-> id, rows |-> rows]
None == Message("none", 0, <<>>)
NoSeat == -1

GoTo(label) == pc' = label
Blame(what) == undefined' = undefined \cup what

-----------------------------------------------------------------------------
(* The library.                                                            *)

\* Result codes, as far as database.c tells them apart.
Codes == {"SQLITE_OK", "SQLITE_ERROR", "SQLITE_BUSY", "SQLITE_MISUSE",
          "SQLITE_ROW", "SQLITE_DONE"}

\* There is no busy handler: a lock of another process is an error at once.
Failures == {"SQLITE_ERROR", "SQLITE_BUSY"}

\* Connections are made by sqlite3_open; a "sick" one comes from a failure of it.
\* Its methods may be called on an open one only.
Connections == {"null", "open", "sick", "closed"}
OnConnection == IF db = "open" THEN {} ELSE {db}

\* The life of a prepared statement.
Statements == {"null", "ready", "row", "done", "error", "finalized"}
Null == [state |-> "null", left |-> <<>>]
Unfinalized == statement.state \notin {"null", "finalized"}

\* The handle is usable or not; without memory it is NULL.
sqlite3_open(rc) ==
    \/ rc = "SQLITE_OK" /\ db' = "open"
    \/ rc \in Failures /\ db' \in {"sick", "null"}

\* NULL is harmless.  As long as a statement is not finalized the connection
\* stays; otherwise it is gone, and the changes of an open transaction with it.
sqlite3_close ==
    IF db = "null" \/ Unfinalized THEN UNCHANGED <<db, dataVars>>
    ELSE db' = "closed" /\ transaction' = "auto" /\ now' = saved /\ UNCHANGED saved

\* The message of the last error, for as long as there is a connection.
sqlite3_errmsg == IF db = "closed" THEN {"closed"} ELSE {}

\* Only what the library has allocated may be freed.
sqlite3_free(allocated) == IF allocated THEN {} ELSE {"message"}

\* BEGIN ends autocommit, COMMIT brings it back, and so may an error.
sqlite3_get_autocommit == transaction = "auto"
RolledBack ==
    \/ UNCHANGED dataVars
    \/ transaction' = "auto" /\ now' = saved /\ UNCHANGED saved

\* One statement that leaves the tables t and the transaction tx behind.
sqlite3_exec(t, tx, rc) ==
    \/ /\ rc = "SQLITE_OK" /\ db = "open"
       /\ now' = t
       /\ saved' = IF tx = "auto" THEN t ELSE saved
       /\ transaction' = tx
    \/ rc \in Failures /\ db = "open" /\ RolledBack
    \/ rc = "SQLITE_MISUSE" /\ db # "open" /\ UNCHANGED dataVars

\* The number of the last row the connection has inserted, into any table.
sqlite3_last_insert_rowid == rowid

\* Without a statement the handle is NULL.
sqlite3_prepare_v2(rc) ==
    \/ rc = "SQLITE_OK" /\ db = "open" /\ statement' = [state |-> "ready", left |-> <<>>]
    \/ rc \in Failures /\ db = "open" /\ statement' = Null
    \/ rc = "SQLITE_MISUSE" /\ db # "open" /\ statement' = Null

\* The next of the rows, which are what the query yields at the first step.
sqlite3_step(rows, rc) ==
    LET left == IF statement.state = "row" THEN Tail(statement.left) ELSE rows
        To(state) == statement' = [state |-> state, left |-> IF state = "row" THEN left ELSE <<>>]
    IN  \/ rc = "SQLITE_ROW" /\ left # <<>> /\ To("row")
        \/ rc = "SQLITE_DONE" /\ left = <<>> /\ To("done")
        \/ rc \in Failures /\ To("error")
OnStatement == IF statement.state \in {"ready", "row"} THEN {} ELSE {"statement"}

\* What an int keeps of an integer: its lower half.
ToInt(value) == LET low == value % Word IN IF low < Word \div 2 THEN low ELSE low - Word

\* A column of the current row, as an int.
sqlite3_column_int == ToInt(Head(statement.left))
OnRow == IF statement.state = "row" THEN {} ELSE {"row"}

\* A statement between its first row and its last holds a lock.
sqlite3_stmt_busy == statement.state = "row"

\* The code says how the last evaluation ended.
sqlite3_finalize(rc) ==
    /\ rc = IF statement.state = "error" THEN "SQLITE_ERROR" ELSE "SQLITE_OK"
    /\ statement' = [state |-> "finalized", left |-> <<>>]

-----------------------------------------------------------------------------
(* db_open, and the ways out.                                              *)

\* The result of db_open is not looked at.
db_open ==
    /\ pc = "start"
    /\ \E rc \in Codes :
          /\ sqlite3_open(rc)
          /\ GoTo("idle") \/ (rc = "SQLITE_OK" /\ GoTo("create"))
    /\ UNCHANGED <<request, answer, rowcount, results, statement, rowid, dataVars, historyVars>>

\* DB_EXEC: err_msg is printed and freed; a call without a connection has not
\* set it.
DB_EXEC(t, next) ==
    \E rc \in Codes :
        /\ sqlite3_exec(t, IF sqlite3_get_autocommit THEN "auto" ELSE "locked", rc)
        /\ GoTo(IF rc = "SQLITE_OK" THEN next ELSE "close")
        /\ Blame(OnConnection \cup sqlite3_free(rc # "SQLITE_MISUSE"))

db_create ==
    /\ pc = "create"
    /\ DB_EXEC(now, "idle")
    /\ UNCHANGED <<request, answer, rowcount, results, db, statement, rowid, before, mine>>

\* An error: the message, sqlite3_close, exit(1).
Exit ==
    /\ pc = "close"
    /\ Blame(sqlite3_errmsg)
    /\ sqlite3_close
    /\ GoTo("ended")
    /\ UNCHANGED <<request, answer, rowcount, results, statement, rowid, before, mine>>

\* SIGINT between two calls: close_conn of the server.
db_close ==
    /\ pc # "ended"
    /\ sqlite3_close
    /\ GoTo("ended")
    /\ UNCHANGED <<request, answer, rowcount, results, statement, rowid, historyVars>>

\* OP_EXIT, or the end of localclient: nothing is closed.  What an ended
\* process leaves to the others is told in Database.tla.
Quit ==
    /\ pc = "idle"
    /\ GoTo("ended")
    /\ UNCHANGED <<request, answer, rowcount, results, libraryVars, historyVars>>

-----------------------------------------------------------------------------
(* execute_datagram.                                                       *)

Requests ==
    {Message("OP_CONSULT", 0, <<>>), Message("OP_CANCEL", 0, <<>>)}
    \cup {Message("OP_PURCHASE", f, <<>>) : f \in IF now.tickets < MaxRow THEN 1..2 ELSE {}}
    \cup {Message("OP_ADDFLIGHT", t, <<>>) :
             t \in IF Len(now.flights) < MaxRow THEN Times ELSE {}}

Receive(r) ==
    /\ pc = "idle"
    /\ request' = r
    /\ answer' = None
    /\ results' = <<>>
    /\ before' = saved
    /\ mine' = 0
    /\ GoTo(CASE r.op = "OP_PURCHASE" -> "begin"
              [] r.op = "OP_CONSULT" -> "prepare"
              [] OTHER -> "write")
    /\ UNCHANGED <<rowcount, libraryVars, undefined>>

\* BEGIN and END of db_purchase, whose results nobody looks at.  BEGIN fails
\* inside a transaction.
Begin ==
    /\ pc = "begin"
    /\ \E rc \in Codes :
          /\ sqlite3_exec(now, "begun", rc)
          /\ rc = "SQLITE_OK" => sqlite3_get_autocommit
    /\ Blame(OnConnection)
    /\ GoTo("prepare")
    /\ UNCHANGED <<request, answer, rowcount, results, db, statement, rowid, before, mine>>

End ==
    /\ pc = "end"
    /\ \E rc \in Codes : sqlite3_exec(now, "auto", rc)
    /\ Blame(OnConnection)
    /\ GoTo("idle")
    /\ UNCHANGED <<request, answer, rowcount, results, db, statement, rowid, before, mine>>

\* Mutant: the result of sqlite3_prepare_v2 is not looked at.
PrepareUnchecked ==
    /\ pc = "prepare"
    /\ \E rc \in Codes : sqlite3_prepare_v2(rc)
    /\ Blame(OnConnection)
    /\ GoTo("step")
    /\ UNCHANGED <<request, answer, rowcount, results, db, rowid, dataVars, before, mine>>

\* DB_PREPARE_STATEMENT
Prepare ==
    /\ pc = "prepare"
    /\ \E rc \in Codes :
          /\ sqlite3_prepare_v2(rc)
          /\ GoTo(IF rc = "SQLITE_OK" THEN "step" ELSE "close")
    /\ Blame(OnConnection)
    /\ UNCHANGED <<request, answer, rowcount, results, db, rowid, dataVars, before, mine>>

\* COUNT(*) of the flight, or the departures of all flights.
Rows == IF request.op = "OP_CONSULT" THEN now.flights
        ELSE <<IF request.id <= Len(now.flights) THEN 1 ELSE 0>>

\* SQLITE_STATEMENT_EXPECT of db_flight_exists, and the loop of
\* db_consult_flights.
Step ==
    /\ pc \in {"step", "last"}
    /\ \E rc \in Codes :
          /\ sqlite3_step(Rows, rc)
          /\ GoTo(CASE rc = "SQLITE_ROW" /\ pc = "step" -> "column"
                    [] rc = "SQLITE_DONE" /\ (pc = "last" \/ request.op = "OP_CONSULT") -> "finalize"
                    [] OTHER -> "close")
    /\ Blame(OnStatement)
    /\ transaction' = IF sqlite3_get_autocommit THEN "auto" ELSE "locked"
    /\ UNCHANGED <<request, answer, rowcount, results, db, rowid, now, saved, before, mine>>

\* Mutant: every row is copied to the first place.
CopyFirst ==
    /\ pc = "column"
    /\ request.op = "OP_CONSULT"
    /\ results' = <<sqlite3_column_int>>
    /\ GoTo("step")
    /\ Blame(OnRow)
    /\ UNCHANGED <<request, answer, rowcount, libraryVars, before, mine>>

\* A row is copied behind the others.  Past the end of the datagram memory is
\* overwritten that belongs to somebody else, and the process is not followed
\* any further.
Copy ==
    /\ pc = "column"
    /\ request.op = "OP_CONSULT"
    /\ results' = Append(results, sqlite3_column_int)
    /\ GoTo(IF Len(results) < Room THEN "step" ELSE "ended")
    /\ Blame(OnRow \cup IF Len(results) < Room THEN {} ELSE {"memory"})
    /\ UNCHANGED <<request, answer, rowcount, libraryVars, before, mine>>

Count ==
    /\ pc = "column"
    /\ request.op = "OP_PURCHASE"
    /\ rowcount' = sqlite3_column_int
    /\ GoTo("last")
    /\ Blame(OnRow)
    /\ UNCHANGED <<request, answer, results, libraryVars, before, mine>>

\* DB_FINALIZE_STATEMENT, then the answer, or the INSERT of db_purchase.
Finalize ==
    /\ pc = "finalize"
    /\ \E rc \in Codes :
          /\ sqlite3_finalize(rc)
          /\ GoTo(CASE rc # "SQLITE_OK" -> "close"
                    [] rc = "SQLITE_OK" /\ request.op = "OP_PURCHASE" /\ rowcount = 1 -> "write"
                    [] OTHER -> "idle")
          /\ answer' = CASE pc' # "idle" -> answer
                         [] pc' = "idle" /\ request.op = "OP_CONSULT" ->
                              Message("OP_CONSULT", 0, results)
                         [] OTHER -> Message("OP_PURCHASE", NoSeat, <<>>)
    /\ UNCHANGED <<request, rowcount, results, db, rowid, dataVars, historyVars>>

\* The tables after the INSERT or DELETE, and the number of the new row.
Written == CASE request.op = "OP_PURCHASE" -> [now EXCEPT !.tickets = @ + 1]
             [] request.op = "OP_ADDFLIGHT" -> [now EXCEPT !.flights = Append(@, request.id)]
             [] OTHER -> now
Number == IF request.op = "OP_PURCHASE" THEN now.tickets + 1 ELSE Len(now.flights) + 1

\* add_ticket, db_add_flight, remove_ticket: DB_EXEC.
Write ==
    /\ pc = "write"
    /\ DB_EXEC(Written, IF request.op = "OP_CANCEL" THEN "idle" ELSE "rowid")
    /\ rowid' = IF pc' = "rowid" THEN Number ELSE rowid
    /\ mine' = IF pc' = "rowid" THEN Number ELSE mine
    /\ answer' = IF pc' = "idle" THEN Message("OP_CANCEL", 0, <<>>) ELSE answer
    /\ UNCHANGED <<request, rowcount, results, db, statement, before>>

\* Mutant: the largest number in the table, not the one of the connection.
ReturnLargest ==
    /\ pc = "rowid"
    /\ answer' = Message(request.op, ToInt(Number - 1), <<>>)
    /\ Blame(OnConnection)
    /\ GoTo(IF request.op = "OP_PURCHASE" THEN "end" ELSE "idle")
    /\ UNCHANGED <<request, rowcount, results, libraryVars, before, mine>>

\* add_ticket and db_add_flight return an int.
ReturnRowid ==
    /\ pc = "rowid"
    /\ answer' = Message(request.op, ToInt(sqlite3_last_insert_rowid), <<>>)
    /\ Blame(OnConnection)
    /\ GoTo(IF request.op = "OP_PURCHASE" THEN "end" ELSE "idle")
    /\ UNCHANGED <<request, rowcount, results, libraryVars, before, mine>>

-----------------------------------------------------------------------------
\* Other processes insert, unless this one holds a lock that is in their way.
Others ==
    /\ transaction # "locked"
    /\ ~sqlite3_stmt_busy
    /\ \/ /\ now.tickets < MaxRow - 1
          /\ now' = [now EXCEPT !.tickets = @ + 1]
       \/ /\ Len(now.flights) < MaxRow - 1
          /\ \E t \in Times : now' = [now EXCEPT !.flights = Append(@, t)]
    /\ saved' = now'
    /\ UNCHANGED <<callVars, db, statement, transaction, rowid, historyVars>>

Init ==
    /\ pc = "start" /\ request = None /\ answer = None /\ rowcount = 0 /\ results = <<>>
    /\ db = "null" /\ statement = Null /\ transaction = "auto" /\ rowid = 0
    /\ now = NoTables /\ saved = NoTables /\ before = NoTables
    /\ mine = 0 /\ undefined = {}

Next ==
    \/ db_open \/ db_create \/ Exit \/ db_close \/ Quit \/ \E r \in Requests : Receive(r)
    \/ Begin \/ End \/ Prepare \/ Step \/ Copy \/ Count \/ Finalize \/ Write \/ ReturnRowid
    \/ Others

Spec == Init /\ [][Next]_vars

-----------------------------------------------------------------------------
\* Types; without an open transaction there is nothing to lose.
TypeOK ==
    /\ pc \in {"start", "create", "idle", "begin", "prepare", "step", "column", "last",
               "finalize", "write", "rowid", "end", "close", "ended"}
    /\ db \in Connections
    /\ statement.state \in Statements
    /\ transaction \in {"auto", "begun", "locked"}
    /\ rowcount \in {0, 1} /\ rowid \in 0..MaxRow /\ mine \in 0..MaxRow
    /\ \A t \in {now, saved, before} : Len(t.flights) <= MaxRow /\ t.tickets <= MaxRow
    /\ transaction # "locked" => now = saved

\* database.c keeps to the header: no handle is used after its end, no column
\* read without a row, no failed statement stepped, no message freed that is
\* not there; and DB_FINALIZE_STATEMENT never fails.  Two exceptions: after a
\* db_open that failed, which nobody notices, the next call has no connection
\* and DB_EXEC prints and frees an err_msg that was never set; and a consult
\* of more rows than the datagram has room for overwrites memory.
CallsAllowed ==
    /\ undefined \subseteq {"sick", "null", "message", "memory"}
    /\ "message" \in undefined => undefined \cap {"sick", "null"} # {}
    /\ "memory" \in undefined => Len(now.flights) > Room
    /\ pc = "finalize" => statement.state = "done"

CallsInv == TypeOK /\ CallsAllowed

\* The number that a purchase or an addflight answers is the one of the row
\* that it has inserted itself, and of no row that was committed when it was
\* asked for, whatever others insert meanwhile and however the transaction of
\* an earlier purchase has ended; if it fits in an int.
OwnRow ==
    answer.op \in {"OP_PURCHASE", "OP_ADDFLIGHT"} /\ answer.id # NoSeat /\ mine \in Ints =>
        /\ answer.id = mine
        /\ answer.id > IF answer.op = "OP_PURCHASE" THEN before.tickets ELSE Len(before.flights)

\* A consult answers all flights committed when it was asked, each with the
\* departure it was added with, if that fits in an int (until 2038).
RowsAsAdded ==
    pc = "idle" /\ answer.op = "OP_CONSULT" =>
        /\ Len(answer.rows) >= Len(before.flights)
        /\ \A i \in DOMAIN answer.rows :
              now.flights[i] \in Ints => answer.rows[i] = now.flights[i]
=============================================================================

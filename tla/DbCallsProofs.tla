--------------------------- MODULE DbCallsProofs ---------------------------
(***************************************************************************)
(* The safety properties of DbCalls.tla for ints of any width, datagrams   *)
(* of any size, any departures and any number of rows.                     *)
(***************************************************************************)
EXTENDS DbCalls, TLAPS

-----------------------------------------------------------------------------
(* The inductive invariant.                                                *)

Tables == [flights : Seq(Times), tickets : Nat]
Opcodes == {"none", "OP_CONSULT", "OP_PURCHASE", "OP_ADDFLIGHT", "OP_CANCEL"}

\* The types that TypeOK leaves out.
Typed ==
    /\ request \in [op : Opcodes, id : Int, rows : {<<>>}]
    /\ request.op = "OP_ADDFLIGHT" => request.id \in Times
    /\ answer \in [op : Opcodes, id : Int, rows : Seq(Int)]
    /\ results \in Seq(Int)
    /\ statement \in [state : Statements, left : Seq(Int)]
    /\ now \in Tables /\ saved \in Tables /\ before \in Tables

\* No table shrinks: what was committed when the request came is committed
\* now, and the connection sees all that is committed.
Grown ==
    /\ Len(before.flights) <= Len(saved.flights) /\ before.tickets <= saved.tickets
    /\ Len(saved.flights) <= Len(now.flights) /\ saved.tickets <= now.tickets

\* Room is left for the row of the request.
RoomLeft ==
    /\ pc \in {"begin", "prepare", "step", "column", "last", "finalize", "write"}
          /\ request.op = "OP_PURCHASE" => now.tickets < MaxRow
    /\ pc = "write" /\ request.op = "OP_ADDFLIGHT" => Len(now.flights) < MaxRow

\* The request and the handles at each label.
Flow ==
    /\ pc \in {"prepare", "step", "finalize", "column"} =>
          request.op \in {"OP_PURCHASE", "OP_CONSULT"}
    /\ pc \in {"begin", "last", "end"} => request.op = "OP_PURCHASE"
    /\ pc \in {"write", "rowid"} =>
          request.op \in {"OP_PURCHASE", "OP_ADDFLIGHT", "OP_CANCEL"}
    /\ pc = "rowid" => request.op # "OP_CANCEL"
    /\ pc \in {"column", "last"} => statement.state = "row"
    /\ pc = "step" => statement.state \in {"ready", "row"}
    /\ pc = "step" /\ request.op = "OP_PURCHASE" => statement.state = "ready"
    /\ pc = "finalize" => statement.state = "done"
    /\ statement.state = "row" => statement.left # <<>>
    /\ db = "closed" => pc = "ended"
    /\ "memory" \in undefined => pc = "ended"

\* What is known of the rows of a statement that is under way.
Counted ==
    pc = "column" /\ request.op = "OP_PURCHASE" =>
        Len(statement.left) = 1 /\ statement.left[1] \in {0, 1}

\* The first n rows of the table of flights are copied, and what is left of the
\* statement are the rows behind row k.
Copied(n) ==
    /\ Len(results) = n
    /\ n <= Len(now.flights)
    /\ \A i \in 1..n : results[i] = ToInt(now.flights[i])
Remaining(k) ==
    /\ Len(statement.left) = Len(now.flights) - k
    /\ \A j \in 1..Len(statement.left) : statement.left[j] = now.flights[k + j]
Consulted ==
    request.op = "OP_CONSULT" =>
        /\ pc = "prepare" => results = <<>>
        /\ pc = "step" /\ statement.state = "ready" => results = <<>>
        /\ pc = "step" /\ statement.state = "row" =>
              Len(results) > 0 /\ Copied(Len(results)) /\ Remaining(Len(results) - 1)
        /\ pc = "column" => Copied(Len(results)) /\ Remaining(Len(results))
        /\ pc = "finalize" => Copied(Len(results)) /\ Len(results) >= Len(before.flights)

\* What an answer says.
Inserted ==
    mine > IF request.op = "OP_PURCHASE" THEN before.tickets ELSE Len(before.flights)
Answers ==
    /\ pc = "rowid" => rowid = mine /\ Inserted
    /\ answer.op \in {"OP_PURCHASE", "OP_ADDFLIGHT"} =>
          /\ answer.op = request.op
          /\ answer.id # NoSeat => answer.id = ToInt(mine) /\ Inserted
    /\ pc = "idle" /\ answer.op = "OP_CONSULT" =>
          /\ Len(answer.rows) >= Len(before.flights)
          /\ Len(answer.rows) <= Len(now.flights)
          /\ \A i \in 1..Len(answer.rows) : answer.rows[i] = ToInt(now.flights[i])
    /\ pc \notin {"idle", "end", "ended", "close"} => answer = None
    /\ pc = "end" => answer.op = "OP_PURCHASE"

IInv ==
    /\ TypeOK /\ Typed /\ CallsAllowed
    /\ Grown /\ RoomLeft /\ Flow /\ Counted /\ Consulted /\ Answers

-----------------------------------------------------------------------------
(* Lemmas.                                                                 *)

\* What an int keeps of an integer is an int, and all of it if it is one.
LEMMA ToIntKeeps ==
    ASSUME NEW v \in Int
    PROVE  /\ ToInt(v) \in Ints
           /\ v \in Ints => ToInt(v) = v
BY CallsAssumption, SMTT(30) DEF ToInt, Ints

\* The constants are integers.
LEMMA Constants ==
    /\ Word \in Nat /\ Room \in Nat /\ MaxRow \in Nat
    /\ \A t \in Times : t \in Int
    /\ ToInt(0) = 0 /\ ToInt(1) = 1
<1>1. 0 \in Ints /\ 1 \in Ints BY CallsAssumption DEF Ints
<1>2. sqlite3_int64 \subseteq Int BY CallsAssumption DEF sqlite3_int64
<1>3. QED BY <1>1, <1>2, ToIntKeeps, CallsAssumption DEF SQLITE_INTEGER

\* The first step.
LEMMA InitIInv == Init => IInv
BY Constants
   DEF Init, IInv, TypeOK, Typed, CallsAllowed, Grown, RoomLeft, Flow, Counted, Consulted, Copied,
       Remaining, Answers, Inserted, Tables, Opcodes, None, Message, Null, NoTables, NoSeat,
       Connections, Statements

\* No rows are rows.
LEMMA EmptyRows == <<>> \in Seq(Int)
OBVIOUS

\* The records of the model have their types.
LEMMA RecordTypes ==
    /\ \A s \in Statements, l \in Seq(Int) :
          [state |-> s, left |-> l] \in [state : Statements, left : Seq(Int)]
    /\ \A op \in Opcodes, i \in Int, rows \in Seq(Int) :
          Message(op, i, rows) \in [op : Opcodes, id : Int, rows : Seq(Int)]
BY DEF Message

\* A row behind the others.
LEMMA AppendRow ==
    ASSUME NEW S, NEW s \in Seq(S), NEW x \in S
    PROVE  /\ Append(s, x) \in Seq(S)
           /\ Len(Append(s, x)) = Len(s) + 1
           /\ \A i \in 1..Len(s) : Append(s, x)[i] = s[i]
           /\ Append(s, x)[Len(s) + 1] = x
OBVIOUS

\* Tables t and u, with a row more of ticket or of flight in u.
OneMore(t, u) ==
    /\ u \in Tables
    /\ \/ u.tickets = t.tickets + 1 /\ u.flights = t.flights
       \/ u.tickets = t.tickets /\ Len(u.flights) = Len(t.flights) + 1
    /\ \A i \in 1..Len(t.flights) : u.flights[i] = t.flights[i]

\* An INSERT adds a row, and nothing else changes.
LEMMA InsertRow ==
    ASSUME NEW t \in Tables
    PROVE  /\ OneMore(t, [t EXCEPT !.tickets = @ + 1])
           /\ \A x \in Times : /\ OneMore(t, [t EXCEPT !.flights = Append(@, x)])
                               /\ [t EXCEPT !.flights = Append(@, x)].tickets = t.tickets
<1>1. OneMore(t, [t EXCEPT !.tickets = @ + 1]) BY DEF OneMore, Tables
<1>2. ASSUME NEW x \in Times
      PROVE  /\ OneMore(t, [t EXCEPT !.flights = Append(@, x)])
             /\ [t EXCEPT !.flights = Append(@, x)].tickets = t.tickets
  <2>1. t.flights \in Seq(Times) /\ t = [flights |-> t.flights, tickets |-> t.tickets]
    BY DEF Tables
  <2>2. [t EXCEPT !.flights = Append(@, x)]
            = [flights |-> Append(t.flights, x), tickets |-> t.tickets]
    BY <2>1, SMTT(30)
  <2>3. QED BY <2>1, <2>2, AppendRow DEF OneMore, Tables
<1>3. QED BY <1>1, <1>2

\* What sqlite3_step leaves of the rows: the current one, and those behind it.
NextRows(left) ==
    /\ left \in Seq(Int)
    /\ statement.state = "row" =>
          /\ Len(left) = Len(statement.left) - 1
          /\ \A j \in 1..Len(left) : left[j] = statement.left[j + 1]
    /\ statement.state = "ready" => left = Rows

\* The outcomes of sqlite3_step, on a statement that may be stepped.
LEMMA StepOutcomes ==
    ASSUME IInv, Step
    PROVE  /\ UNCHANGED <<request, answer, rowcount, results, db, rowid, now, saved, before, mine>>
           /\ undefined' = undefined
           /\ transaction' \in {"auto", "begun", "locked"}
           /\ transaction' # "locked" => transaction' = transaction
           /\ \E left : /\ NextRows(left)
                        /\ \/ /\ left # <<>>
                              /\ statement' = [state |-> "row", left |-> left]
                              /\ pc' = IF pc = "step" THEN "column" ELSE "close"
                           \/ /\ left = <<>>
                              /\ statement' = [state |-> "done", left |-> <<>>]
                              /\ pc' = IF pc = "last" \/ request.op = "OP_CONSULT"
                                       THEN "finalize" ELSE "close"
                           \/ /\ statement' = [state |-> "error", left |-> <<>>]
                              /\ pc' = "close"
<1> DEFINE left == IF statement.state = "row" THEN Tail(statement.left) ELSE Rows
<1>1. pc \in {"step", "last"} /\ statement.state \in {"ready", "row"}
      /\ request.op \in {"OP_PURCHASE", "OP_CONSULT"}
  BY DEF IInv, Flow, Step
<1>2. statement.left \in Seq(Int) /\ now.flights \in Seq(Int) /\ request.id \in Int
  BY Constants DEF IInv, Typed, Tables
<1>3. Rows \in Seq(Int)
  BY <1>2 DEF Rows
<1>4. NextRows(left)
  <2>1. CASE statement.state = "row"
    <3>1. statement.left # <<>> BY <2>1 DEF IInv, Flow
    <3>2. QED BY <1>2, <2>1, <3>1 DEF NextRows
  <2>2. CASE statement.state = "ready" BY <1>3, <2>2 DEF NextRows
  <2>3. QED BY <1>1, <2>1, <2>2
<1>5. PICK rc \in Codes :
         /\ sqlite3_step(Rows, rc)
         /\ GoTo(CASE rc = "SQLITE_ROW" /\ pc = "step" -> "column"
                   [] rc = "SQLITE_DONE" /\ (pc = "last" \/ request.op = "OP_CONSULT") -> "finalize"
                   [] OTHER -> "close")
  BY DEF Step
<1>6. \/ /\ left # <<>>
         /\ statement' = [state |-> "row", left |-> left]
         /\ pc' = IF pc = "step" THEN "column" ELSE "close"
      \/ /\ left = <<>>
         /\ statement' = [state |-> "done", left |-> <<>>]
         /\ pc' = IF pc = "last" \/ request.op = "OP_CONSULT" THEN "finalize" ELSE "close"
      \/ /\ statement' = [state |-> "error", left |-> <<>>]
         /\ pc' = "close"
  BY <1>1, <1>5 DEF sqlite3_step, GoTo, Codes, Failures
<1>7. /\ UNCHANGED <<request, answer, rowcount, results, db, rowid, now, saved, before, mine>>
      /\ undefined' = undefined
      /\ transaction' \in {"auto", "begun", "locked"}
      /\ transaction' # "locked" => transaction' = transaction
  BY <1>1 DEF Step, Blame, OnStatement, sqlite3_get_autocommit
<1>8. QED BY <1>4, <1>6, <1>7

\* sqlite3_open, whose result nobody looks at.
LEMMA OpenKeeps ==
    ASSUME IInv, db_open
    PROVE  IInv'
<1> USE DEF GoTo, Blame, OnConnection, Codes
<1>1. TypeOK'
  BY Constants DEF IInv, TypeOK, Typed, Tables, RoomLeft, Flow, Counted, Grown,
    db_open, sqlite3_open, Failures, Connections, dataVars, historyVars
<1>2. Typed'
  BY Constants DEF IInv, TypeOK, Typed, Tables, db_open, sqlite3_open, Failures,
    Connections, dataVars, historyVars
<1>3. CallsAllowed'
  BY Constants DEF IInv, TypeOK, Typed, Tables, CallsAllowed, Flow, Consulted,
    Remaining, Copied, db_open, sqlite3_open, Failures, Connections, dataVars,
    historyVars
<1>4. Grown' /\ RoomLeft'
  BY Constants DEF IInv, TypeOK, Typed, Tables, Grown, RoomLeft, Flow, db_open,
    sqlite3_open, Failures, Connections, dataVars, historyVars
<1>5. Flow' /\ Counted'
  BY Constants DEF IInv, TypeOK, Typed, Tables, Flow, Counted, db_open,
    sqlite3_open, Failures, Connections, dataVars, historyVars
<1>6. Consulted'
  BY Constants DEF IInv, TypeOK, Typed, Tables, Consulted, Copied, Remaining, Flow,
    db_open, sqlite3_open, Failures, Connections, dataVars, historyVars
<1>7. Answers'
  BY Constants, SMTT(30) DEF IInv, TypeOK, Typed, Tables, Answers, Inserted, Flow, Grown,
    NoSeat, None, Message, Consulted, Copied, db_open, sqlite3_open, Failures,
    Connections, dataVars, historyVars
<1>8. QED BY <1>1, <1>2, <1>3, <1>4, <1>5, <1>6, <1>7 DEF IInv

\* CREATE TABLE.
LEMMA CreateKeeps ==
    ASSUME IInv, db_create
    PROVE  IInv'
<1> USE DEF GoTo, Blame, OnConnection, Codes
<1>1. TypeOK'
  BY Constants DEF IInv, TypeOK, Typed, Tables, RoomLeft, Flow, Counted, Grown,
    db_create, DB_EXEC, sqlite3_free, Failures, sqlite3_exec, RolledBack,
    sqlite3_get_autocommit, dataVars, Connections
<1>2. Typed'
  BY Constants DEF IInv, TypeOK, Typed, Tables, db_create, DB_EXEC, sqlite3_free,
    Failures, sqlite3_exec, RolledBack, sqlite3_get_autocommit, dataVars,
    Connections
<1>3. CallsAllowed'
  BY Constants DEF IInv, TypeOK, Typed, Tables, CallsAllowed, Flow, Consulted,
    Remaining, Copied, db_create, DB_EXEC, sqlite3_free, Failures, sqlite3_exec,
    RolledBack, sqlite3_get_autocommit, dataVars, Connections
<1>4. Grown' /\ RoomLeft'
  BY Constants, SMTT(30) DEF IInv, TypeOK, Typed, Tables, Grown, RoomLeft, Flow, db_create,
    DB_EXEC, sqlite3_free, Failures, sqlite3_exec, RolledBack,
    sqlite3_get_autocommit, dataVars, Connections
<1>5. Flow' /\ Counted'
  BY Constants DEF IInv, TypeOK, Typed, Tables, Flow, Counted, db_create, DB_EXEC,
    sqlite3_free, Failures, sqlite3_exec, RolledBack, sqlite3_get_autocommit,
    dataVars, Connections
<1>6. Consulted'
  BY Constants DEF IInv, TypeOK, Typed, Tables, Consulted, Copied, Remaining, Flow,
    db_create, DB_EXEC, sqlite3_free, Failures, sqlite3_exec, RolledBack,
    sqlite3_get_autocommit, dataVars, Connections
<1>7. Answers'
  BY Constants DEF IInv, TypeOK, Typed, Tables, Answers, Inserted, Flow, Grown,
    NoSeat, None, Message, Consulted, Copied, db_create, DB_EXEC, sqlite3_free,
    Failures, sqlite3_exec, RolledBack, sqlite3_get_autocommit, dataVars,
    Connections
<1>8. QED BY <1>1, <1>2, <1>3, <1>4, <1>5, <1>6, <1>7 DEF IInv

\* The way out after an error: sqlite3_close, exit(1).
LEMMA ExitKeeps ==
    ASSUME IInv, Exit
    PROVE  IInv'
<1> USE DEF GoTo, Blame, OnConnection, Codes
<1>1. TypeOK'
  BY Constants DEF IInv, TypeOK, Typed, Tables, RoomLeft, Flow, Counted, Grown,
    Exit, sqlite3_close, sqlite3_errmsg, Unfinalized, Connections, dataVars
<1>2. Typed'
  BY Constants DEF IInv, TypeOK, Typed, Tables, Exit, sqlite3_close,
    sqlite3_errmsg, Unfinalized, Connections, dataVars
<1>3. CallsAllowed'
  BY Constants DEF IInv, TypeOK, Typed, Tables, CallsAllowed, Flow, Consulted,
    Remaining, Copied, Exit, sqlite3_close, sqlite3_errmsg, Unfinalized,
    Connections, dataVars
<1>4. Grown' /\ RoomLeft'
  BY Constants DEF IInv, TypeOK, Typed, Tables, Grown, RoomLeft, Flow, Exit,
    sqlite3_close, sqlite3_errmsg, Unfinalized, Connections, dataVars
<1>5. Flow' /\ Counted'
  BY Constants DEF IInv, TypeOK, Typed, Tables, Flow, Counted, Exit, sqlite3_close,
    sqlite3_errmsg, Unfinalized, Connections, dataVars
<1>6. Consulted'
  BY Constants DEF IInv, TypeOK, Typed, Tables, Consulted, Copied, Remaining, Flow,
    Exit, sqlite3_close, sqlite3_errmsg, Unfinalized, Connections, dataVars
<1>7. Answers'
  BY Constants DEF IInv, TypeOK, Typed, Tables, Answers, Inserted, Flow, Grown,
    NoSeat, None, Message, Consulted, Copied, Exit, sqlite3_close, sqlite3_errmsg,
    Unfinalized, Connections, dataVars
<1>8. QED BY <1>1, <1>2, <1>3, <1>4, <1>5, <1>6, <1>7 DEF IInv

\* close_conn between two calls.
LEMMA CloseKeeps ==
    ASSUME IInv, db_close
    PROVE  IInv'
<1> USE DEF GoTo, Blame, OnConnection, Codes
<1>1. TypeOK'
  BY Constants DEF IInv, TypeOK, Typed, Tables, RoomLeft, Flow, Counted, Grown,
    db_close, sqlite3_close, Unfinalized, Connections, dataVars, historyVars
<1>2. Typed'
  BY Constants DEF IInv, TypeOK, Typed, Tables, db_close, sqlite3_close,
    Unfinalized, Connections, dataVars, historyVars
<1>3. CallsAllowed'
  BY Constants DEF IInv, TypeOK, Typed, Tables, CallsAllowed, Flow, Consulted,
    Remaining, Copied, db_close, sqlite3_close, Unfinalized, Connections, dataVars,
    historyVars
<1>4. Grown' /\ RoomLeft'
  BY Constants DEF IInv, TypeOK, Typed, Tables, Grown, RoomLeft, Flow, db_close,
    sqlite3_close, Unfinalized, Connections, dataVars, historyVars
<1>5. Flow' /\ Counted'
  BY Constants DEF IInv, TypeOK, Typed, Tables, Flow, Counted, db_close,
    sqlite3_close, Unfinalized, Connections, dataVars, historyVars
<1>6. Consulted'
  BY Constants DEF IInv, TypeOK, Typed, Tables, Consulted, Copied, Remaining, Flow,
    db_close, sqlite3_close, Unfinalized, Connections, dataVars, historyVars
<1>7. Answers'
  BY Constants DEF IInv, TypeOK, Typed, Tables, Answers, Inserted, Flow, Grown,
    NoSeat, None, Message, Consulted, Copied, db_close, sqlite3_close, Unfinalized,
    Connections, dataVars, historyVars
<1>8. QED BY <1>1, <1>2, <1>3, <1>4, <1>5, <1>6, <1>7 DEF IInv

\* The end of a process that closes nothing.
LEMMA QuitKeeps ==
    ASSUME IInv, Quit
    PROVE  IInv'
<1> USE DEF GoTo, Blame, OnConnection, Codes
<1>1. TypeOK' /\ Typed' /\ CallsAllowed'
  BY Constants DEF IInv, TypeOK, Typed, Tables, RoomLeft, Flow, Counted, Grown,
    CallsAllowed, Consulted, Remaining, Copied, Quit, libraryVars, dataVars,
    historyVars
<1>2. Grown' /\ RoomLeft' /\ Flow' /\ Counted'
  BY Constants DEF IInv, TypeOK, Typed, Tables, Grown, RoomLeft, Flow, Counted,
    Quit, libraryVars, dataVars, historyVars
<1>3. Consulted' /\ Answers'
  BY Constants DEF IInv, TypeOK, Typed, Tables, Consulted, Copied, Remaining, Flow,
    Answers, Inserted, Grown, NoSeat, None, Message, Quit, libraryVars, dataVars,
    historyVars
<1>4. QED BY <1>1, <1>2, <1>3 DEF IInv

\* A request comes.
LEMMA ReceiveKeeps ==
    ASSUME IInv, NEW r \in Requests, Receive(r)
    PROVE  IInv'
<1> USE DEF GoTo, Blame, OnConnection, Codes
<1>1. TypeOK'
  BY Constants DEF IInv, TypeOK, Typed, Tables, RoomLeft, Flow, Counted, Grown,
    Requests, Receive, Message, None, Opcodes, libraryVars, dataVars
<1>2. Typed'
  BY Constants, SMTT(30) DEF IInv, TypeOK, Typed, Tables, Requests, Receive, Message, None,
    Opcodes, libraryVars, dataVars
<1>3. CallsAllowed'
  BY Constants DEF IInv, TypeOK, Typed, Tables, CallsAllowed, Flow, Consulted,
    Remaining, Copied, Requests, Receive, Message, None, Opcodes, libraryVars,
    dataVars
<1>4. Grown' /\ RoomLeft'
  BY Constants, SMTT(30) DEF IInv, TypeOK, Typed, Tables, Grown, RoomLeft, Flow, Requests,
    Receive, Message, None, Opcodes, libraryVars, dataVars
<1>5. Flow' /\ Counted'
  BY Constants, SMTT(30) DEF IInv, TypeOK, Typed, Tables, Flow, Counted, Requests, Receive,
    Message, None, Opcodes, libraryVars, dataVars
<1>6. Consulted'
  BY Constants DEF IInv, TypeOK, Typed, Tables, Consulted, Copied, Remaining, Flow,
    Requests, Receive, Message, None, Opcodes, libraryVars, dataVars
<1>7. Answers'
  BY Constants DEF IInv, TypeOK, Typed, Tables, Answers, Inserted, Flow, Grown,
    NoSeat, None, Message, Consulted, Copied, Requests, Receive, Opcodes,
    libraryVars, dataVars
<1>8. QED BY <1>1, <1>2, <1>3, <1>4, <1>5, <1>6, <1>7 DEF IInv

\* BEGIN of db_purchase.
LEMMA BeginKeeps ==
    ASSUME IInv, Begin
    PROVE  IInv'
<1> USE DEF GoTo, Blame, OnConnection, Codes
<1>1. TypeOK'
  BY Constants DEF IInv, TypeOK, Typed, Tables, RoomLeft, Flow, Counted, Grown,
    Begin, Failures, sqlite3_exec, RolledBack, sqlite3_get_autocommit, dataVars,
    Connections
<1>2. Typed'
  BY Constants DEF IInv, TypeOK, Typed, Tables, Begin, Failures, sqlite3_exec,
    RolledBack, sqlite3_get_autocommit, dataVars, Connections
<1>3. CallsAllowed'
  BY Constants DEF IInv, TypeOK, Typed, Tables, CallsAllowed, Flow, Consulted,
    Remaining, Copied, Begin, Failures, sqlite3_exec, RolledBack,
    sqlite3_get_autocommit, dataVars, Connections
<1>4. Grown' /\ RoomLeft'
  BY Constants DEF IInv, TypeOK, Typed, Tables, Grown, RoomLeft, Flow, Begin,
    Failures, sqlite3_exec, RolledBack, sqlite3_get_autocommit, dataVars,
    Connections
<1>5. Flow' /\ Counted'
  BY Constants DEF IInv, TypeOK, Typed, Tables, Flow, Counted, Begin, Failures,
    sqlite3_exec, RolledBack, sqlite3_get_autocommit, dataVars, Connections
<1>6. Consulted'
  BY Constants DEF IInv, TypeOK, Typed, Tables, Consulted, Copied, Remaining, Flow,
    Begin, Failures, sqlite3_exec, RolledBack, sqlite3_get_autocommit, dataVars,
    Connections
<1>7. Answers'
  BY Constants DEF IInv, TypeOK, Typed, Tables, Answers, Inserted, Flow, Grown,
    NoSeat, None, Message, Consulted, Copied, Begin, Failures, sqlite3_exec,
    RolledBack, sqlite3_get_autocommit, dataVars, Connections
<1>8. QED BY <1>1, <1>2, <1>3, <1>4, <1>5, <1>6, <1>7 DEF IInv

\* sqlite3_prepare_v2
LEMMA PrepareKeeps ==
    ASSUME IInv, Prepare
    PROVE  IInv'
<1> USE DEF GoTo, Blame, OnConnection, Codes
<1>1. /\ UNCHANGED <<request, answer, rowcount, results, db, rowid, transaction, now, saved, before, mine>>
      /\ undefined' = undefined \cup OnConnection
      /\ \/ pc' = "step" /\ statement' = [state |-> "ready", left |-> <<>>]
         \/ pc' = "close" /\ statement' = Null
  BY DEF Prepare, sqlite3_prepare_v2, dataVars, Failures
<1>2. pc = "prepare" /\ db # "closed" /\ request.op \in {"OP_PURCHASE", "OP_CONSULT"}
  BY DEF Prepare, IInv, Flow
<1>3. TypeOK' BY <1>1 DEF IInv, TypeOK, Statements, Null
<1>4. Typed'
  <2>1. statement' \in [state : Statements, left : Seq(Int)]
    BY <1>1, RecordTypes, EmptyRows DEF Null, Statements
  <2>2. QED BY <1>1, <2>1 DEF IInv, Typed
<1>5. CallsAllowed' BY <1>1, <1>2 DEF IInv, TypeOK, CallsAllowed, Connections
<1>6. Grown' /\ Counted' /\ RoomLeft' BY <1>1, <1>2 DEF IInv, Grown, Counted, RoomLeft
<1>7. Flow' BY <1>1, <1>2 DEF IInv, Flow, Null, TypeOK, Connections
<1>8. Consulted' BY <1>1, <1>2 DEF IInv, Consulted
<1>9. Answers' BY <1>1, <1>2 DEF IInv, Answers, Inserted, None, Message
<1>10. QED BY <1>3, <1>4, <1>5, <1>6, <1>7, <1>8, <1>9 DEF IInv

\* sqlite3_step, in db_flight_exists and in the loop of db_consult_flights.
LEMMA StepKeeps ==
    ASSUME IInv, Step
    PROVE  IInv'
<1>1. PICK left : /\ NextRows(left)
                  /\ \/ /\ left # <<>>
                        /\ statement' = [state |-> "row", left |-> left]
                        /\ pc' = IF pc = "step" THEN "column" ELSE "close"
                     \/ /\ left = <<>>
                        /\ statement' = [state |-> "done", left |-> <<>>]
                        /\ pc' = IF pc = "last" \/ request.op = "OP_CONSULT"
                                 THEN "finalize" ELSE "close"
                     \/ /\ statement' = [state |-> "error", left |-> <<>>]
                        /\ pc' = "close"
  BY StepOutcomes
<1>2. /\ UNCHANGED <<request, answer, rowcount, results, db, rowid, now, saved, before, mine>>
      /\ undefined' = undefined
      /\ transaction' \in {"auto", "begun", "locked"}
      /\ transaction' # "locked" => transaction' = transaction
  BY StepOutcomes
<1>3. /\ pc \in {"step", "last"} /\ statement.state \in {"ready", "row"}
      /\ request.op \in {"OP_PURCHASE", "OP_CONSULT"}
      /\ pc = "last" => request.op = "OP_PURCHASE" /\ statement.state = "row"
  BY DEF IInv, Flow, Step
<1>4. TypeOK' BY <1>1, <1>2 DEF IInv, TypeOK, Statements
<1>5. Typed'
  <2>1. statement' \in [state : Statements, left : Seq(Int)]
    BY <1>1, RecordTypes, EmptyRows DEF NextRows, Statements
  <2>2. QED BY <1>2, <2>1 DEF IInv, Typed
<1>6. CallsAllowed' BY <1>1, <1>2 DEF IInv, CallsAllowed
<1>7. Grown' /\ RoomLeft' BY <1>1, <1>2, <1>3 DEF IInv, Grown, RoomLeft
<1>8. Flow' BY <1>1, <1>2, <1>3 DEF IInv, Flow
<1>9. Counted'
  <2>1. SUFFICES ASSUME pc' = "column", request.op = "OP_PURCHASE"
                 PROVE  Len(left) = 1 /\ left[1] \in {0, 1}
    BY <1>1, <1>2 DEF Counted
  <2>2. left = Rows BY <1>1, <1>3, <2>1 DEF IInv, Flow, NextRows
  <2>3. QED BY <2>1, <2>2 DEF Rows
<1>10. Consulted'
  <2>1. SUFFICES ASSUME request.op = "OP_CONSULT"
                 PROVE  /\ pc' = "column" => Copied(Len(results))' /\ Remaining(Len(results))'
                        /\ pc' = "finalize" => /\ Copied(Len(results))'
                                               /\ Len(results) >= Len(before.flights)
    BY <1>1, <1>2, <1>3 DEF Consulted
  <2>2. pc = "step" BY <1>3, <2>1
  <2>3. now.flights \in Seq(Int) /\ results \in Seq(Int) /\ left \in Seq(Int)
        /\ before.flights \in Seq(Int) /\ Len(before.flights) <= Len(now.flights)
    <3>1. Seq(Times) \subseteq Seq(Int) BY Constants
    <3>2. saved.flights \in Seq(Int) /\ now.flights \in Seq(Int) /\ before.flights \in Seq(Int)
      BY <3>1 DEF IInv, Typed, Tables
    <3>3. QED BY <1>1, <3>2 DEF IInv, Typed, Grown, NextRows
  <2>4. CASE statement.state = "ready"
    <3>1. results = <<>> /\ left = now.flights
      BY <1>1, <2>1, <2>2, <2>4 DEF IInv, Consulted, NextRows, Rows
    <3>2. QED BY <1>1, <1>2, <2>1, <2>2, <2>3, <3>1 DEF Copied, Remaining
  <2>5. CASE statement.state = "row"
    <3>1. Len(results) > 0 /\ Copied(Len(results)) /\ Remaining(Len(results) - 1)
      BY <2>1, <2>2, <2>5 DEF IInv, Consulted
    <3>2. /\ Len(left) = Len(statement.left) - 1
          /\ \A j \in 1..Len(left) : left[j] = statement.left[j + 1]
      BY <1>1, <2>5 DEF NextRows
    <3>3. Len(left) = Len(now.flights) - Len(results)
      BY <2>3, <3>1, <3>2 DEF Remaining
    <3>4. ASSUME NEW j \in 1..Len(left) PROVE left[j] = now.flights[Len(results) + j]
      <4>1. left[j] = statement.left[j + 1] BY <3>2
      <4>2. j + 1 \in 1..Len(statement.left) BY <2>3, <3>1, <3>2, <3>3 DEF Remaining
      <4>3. statement.left[j + 1] = now.flights[Len(results) - 1 + (j + 1)]
        BY <3>1, <4>2 DEF Remaining
      <4>4. Len(results) - 1 + (j + 1) = Len(results) + j BY <2>3
      <4>5. QED BY <4>1, <4>3, <4>4
    <3>5. Copied(Len(results))' BY <1>2, <3>1 DEF Copied
    <3>6. pc' = "column" => Remaining(Len(results))'
      BY <1>1, <1>2, <3>3, <3>4 DEF Remaining
    <3>7. pc' = "finalize" => Len(results) >= Len(before.flights)
      BY <1>1, <2>3, <3>3
    <3>8. QED BY <3>5, <3>6, <3>7
  <2>6. QED BY <1>3, <2>4, <2>5
<1>11. Answers' BY <1>1, <1>2, <1>3 DEF IInv, Answers, Inserted, None, Message
<1>12. QED BY <1>4, <1>5, <1>6, <1>7, <1>8, <1>9, <1>10, <1>11 DEF IInv

\* A row of db_consult_flights is copied to the datagram.
LEMMA CopyKeeps ==
    ASSUME IInv, Copy
    PROVE  IInv'
<1>1. /\ UNCHANGED <<request, answer, rowcount, db, statement, rowid, transaction, now, saved, before, mine>>
      /\ results' = Append(results, sqlite3_column_int)
      /\ pc' = IF Len(results) < Room THEN "step" ELSE "ended"
  BY DEF Copy, GoTo, libraryVars, dataVars
<1>2. pc = "column" /\ request.op = "OP_CONSULT" /\ statement.state = "row" /\ statement.left # <<>>
      /\ Copied(Len(results)) /\ Remaining(Len(results))
  BY DEF Copy, IInv, Flow, Consulted
<1>3. undefined' = undefined \cup IF Len(results) < Room THEN {} ELSE {"memory"}
  BY <1>2 DEF Copy, Blame, OnRow
<1>4. now.flights \in Seq(Int) /\ results \in Seq(Int) /\ statement.left \in Seq(Int)
  <2>1. Seq(Times) \subseteq Seq(Int) BY Constants
  <2>2. QED BY <2>1 DEF IInv, Typed, Tables
<1>5. /\ Len(results) < Len(now.flights)
      /\ sqlite3_column_int = ToInt(now.flights[Len(results) + 1])
      /\ sqlite3_column_int \in Int
  <2>1. Len(statement.left) > 0 BY <1>2, <1>4
  <2>2. Head(statement.left) = now.flights[Len(results) + 1] BY <1>2, <1>4, <2>1 DEF Remaining
  <2>3. Len(results) < Len(now.flights) BY <1>2, <1>4, <2>1 DEF Remaining
  <2>4. now.flights[Len(results) + 1] \in Int BY <1>4, <2>3
  <2>5. ToInt(now.flights[Len(results) + 1]) \in Ints BY <2>4, ToIntKeeps
  <2>6. QED BY <2>2, <2>3, <2>5, Constants DEF sqlite3_column_int, Ints
<1>6. /\ results' \in Seq(Int) /\ Len(results') = Len(results) + 1
      /\ \A i \in 1..Len(results) : results'[i] = results[i]
      /\ results'[Len(results) + 1] = sqlite3_column_int
  BY <1>1, <1>4, <1>5, AppendRow
<1>7. TypeOK' BY <1>1 DEF IInv, TypeOK
<1>8. Typed' BY <1>1, <1>6 DEF IInv, Typed
<1>9. CallsAllowed' BY <1>1, <1>3, <1>4, <1>5, Constants DEF IInv, CallsAllowed
<1>10. Grown' /\ RoomLeft' /\ Counted' BY <1>1, <1>2 DEF IInv, Grown, RoomLeft, Counted
<1>11. Flow' BY <1>1, <1>2, <1>3 DEF IInv, Flow
<1>12. Consulted'
  <2>1. Copied(Len(results))'
    BY <1>1, <1>2, <1>4, <1>5, <1>6 DEF Copied
  <2>2. Remaining(Len(results) - 1)'
    <3>1. Len(results') - 1 = Len(results) BY <1>4, <1>6
    <3>2. Remaining(Len(results)) /\ UNCHANGED <<statement, now>> BY <1>1, <1>2
    <3>3. QED BY <3>1, <3>2 DEF Remaining
  <2>3. QED BY <1>1, <1>2, <1>4, <1>6, <2>1, <2>2 DEF Consulted
<1>13. Answers' BY <1>1, <1>2 DEF IInv, Answers, Inserted, None, Message
<1>14. QED BY <1>7, <1>8, <1>9, <1>10, <1>11, <1>12, <1>13 DEF IInv

\* The count of db_flight_exists.
LEMMA CountKeeps ==
    ASSUME IInv, Count
    PROVE  IInv'
<1> USE DEF GoTo, Blame, OnConnection, Codes
<1>1. TypeOK'
  BY Constants DEF IInv, TypeOK, Typed, Tables, RoomLeft, Flow, Counted, Grown,
    Count, sqlite3_column_int, OnRow, libraryVars, dataVars
<1>2. Typed'
  BY Constants DEF IInv, TypeOK, Typed, Tables, Count, sqlite3_column_int, OnRow,
    libraryVars, dataVars
<1>3. CallsAllowed'
  BY Constants DEF IInv, TypeOK, Typed, Tables, CallsAllowed, Flow, Consulted,
    Remaining, Copied, Count, sqlite3_column_int, OnRow, libraryVars, dataVars
<1>4. Grown' /\ RoomLeft'
  BY Constants DEF IInv, TypeOK, Typed, Tables, Grown, RoomLeft, Flow, Count,
    sqlite3_column_int, OnRow, libraryVars, dataVars
<1>5. Flow' /\ Counted'
  BY Constants DEF IInv, TypeOK, Typed, Tables, Flow, Counted, Count,
    sqlite3_column_int, OnRow, libraryVars, dataVars
<1>6. Consulted'
  BY Constants DEF IInv, TypeOK, Typed, Tables, Consulted, Copied, Remaining, Flow,
    Count, sqlite3_column_int, OnRow, libraryVars, dataVars
<1>7. Answers'
  BY Constants DEF IInv, TypeOK, Typed, Tables, Answers, Inserted, Flow, Grown,
    NoSeat, None, Message, Consulted, Copied, Count, sqlite3_column_int, OnRow,
    libraryVars, dataVars
<1>8. QED BY <1>1, <1>2, <1>3, <1>4, <1>5, <1>6, <1>7 DEF IInv

\* sqlite3_finalize, then the answer or the INSERT.
LEMMA FinalizeKeeps ==
    ASSUME IInv, Finalize
    PROVE  IInv'
<1>1. pc = "finalize" /\ statement.state = "done" /\ request.op \in {"OP_PURCHASE", "OP_CONSULT"}
      /\ answer = None
  BY DEF Finalize, IInv, Flow, Answers
<1>2. /\ UNCHANGED <<request, rowcount, results, db, rowid, transaction, now, saved, before, mine, undefined>>
      /\ statement' = [state |-> "finalized", left |-> <<>>]
      /\ \/ pc' = "write" /\ request.op = "OP_PURCHASE" /\ answer' = answer
         \/ pc' = "idle" /\ request.op = "OP_CONSULT" /\ answer' = Message("OP_CONSULT", 0, results)
         \/ pc' = "idle" /\ request.op = "OP_PURCHASE" /\ answer' = Message("OP_PURCHASE", NoSeat, <<>>)
  BY <1>1 DEF Finalize, sqlite3_finalize, dataVars, historyVars, GoTo, Codes
<1>3. TypeOK' BY <1>1, <1>2 DEF IInv, TypeOK, Statements
<1>4. Typed'
  <2>1. statement' \in [state : Statements, left : Seq(Int)]
    BY <1>2, EmptyRows DEF Statements
  <2>2. answer' \in [op : Opcodes, id : Int, rows : Seq(Int)]
    <3>1. /\ results \in Seq(Int) /\ 0 \in Int /\ NoSeat \in Int
          /\ "OP_CONSULT" \in Opcodes /\ "OP_PURCHASE" \in Opcodes
      BY DEF IInv, Typed, Opcodes, NoSeat
    <3>2. CASE answer' = answer BY <3>2 DEF IInv, Typed
    <3>3. CASE answer' = Message("OP_CONSULT", 0, results) BY <3>1, <3>3, RecordTypes
    <3>4. CASE answer' = Message("OP_PURCHASE", NoSeat, <<>>)
      BY <3>1, <3>4, RecordTypes, EmptyRows
    <3>5. QED BY <1>2, <3>2, <3>3, <3>4
  <2>3. QED BY <1>2, <2>1, <2>2 DEF IInv, Typed
<1>5. CallsAllowed' /\ Grown' BY <1>1, <1>2 DEF IInv, CallsAllowed, Grown
<1>6. RoomLeft' /\ Flow' BY <1>1, <1>2 DEF IInv, RoomLeft, Flow
<1>7. Counted' /\ Consulted' BY <1>1, <1>2 DEF IInv, Counted, Consulted
<1>8. Answers'
  <2>1. CASE pc' = "write" BY <1>1, <1>2, <2>1 DEF IInv, Answers, Inserted, None, Message
  <2>2. CASE pc' = "idle" /\ request.op = "OP_CONSULT"
    <3>1. Copied(Len(results)) /\ Len(results) >= Len(before.flights) /\ results \in Seq(Int)
      BY <1>1, <2>2 DEF IInv, Consulted, Typed
    <3>2. answer'.rows = results /\ answer'.op = "OP_CONSULT" BY <1>2, <2>2 DEF Message
    <3>3. QED BY <1>2, <2>2, <3>1, <3>2 DEF Answers, Copied, Inserted
  <2>3. CASE pc' = "idle" /\ request.op = "OP_PURCHASE"
    BY <1>2, <2>3 DEF Answers, Message, NoSeat, Inserted
  <2>4. QED BY <1>2, <2>1, <2>2, <2>3
<1>9. QED BY <1>3, <1>4, <1>5, <1>6, <1>7, <1>8 DEF IInv

\* add_ticket, db_add_flight and remove_ticket.
LEMMA WriteKeeps ==
    ASSUME IInv, Write
    PROVE  IInv'
<1>1. /\ pc = "write" /\ db # "closed" /\ answer = None
      /\ request.op \in {"OP_PURCHASE", "OP_ADDFLIGHT", "OP_CANCEL"}
  BY DEF Write, IInv, Flow, Answers
<1>2. /\ UNCHANGED <<request, rowcount, results, db, statement, before>>
      /\ rowid' = IF pc' = "rowid" THEN Number ELSE rowid
      /\ mine' = IF pc' = "rowid" THEN Number ELSE mine
      /\ answer' = IF pc' = "idle" THEN Message("OP_CANCEL", 0, <<>>) ELSE answer
  BY DEF Write
<1>3. \/ /\ pc' = IF request.op = "OP_CANCEL" THEN "idle" ELSE "rowid"
         /\ now' = Written
         /\ saved' = IF transaction = "auto" THEN Written ELSE saved
         /\ transaction' = IF transaction = "auto" THEN "auto" ELSE "locked"
         /\ db = "open" /\ undefined' = undefined
      \/ /\ pc' = "close"
         /\ db = "open" /\ undefined' = undefined
         /\ \/ UNCHANGED <<transaction, now, saved>>
            \/ transaction' = "auto" /\ now' = saved /\ saved' = saved
      \/ /\ pc' = "close"
         /\ db # "open" /\ undefined' = undefined \cup {db, "message"}
         /\ UNCHANGED <<transaction, now, saved>>
  BY DEF Write, DB_EXEC, sqlite3_exec, RolledBack, sqlite3_get_autocommit, sqlite3_free,
         dataVars, Failures, Codes, GoTo, Blame, OnConnection
<1>4. /\ now \in Tables /\ saved \in Tables
      /\ now.tickets \in Nat /\ Len(now.flights) \in Nat
      /\ saved.tickets \in Nat /\ Len(saved.flights) \in Nat
      /\ before.tickets \in Nat /\ Len(before.flights) \in Nat
  BY DEF IInv, Typed, Tables
<1>5. /\ Written = now \/ OneMore(now, Written)
      /\ Written \in Tables
      /\ Len(Written.flights) <= MaxRow /\ Written.tickets <= MaxRow
      /\ Len(Written.flights) >= Len(now.flights) /\ Written.tickets >= now.tickets
      /\ request.op # "OP_CANCEL" => Number \in 1..MaxRow
      /\ Len(Written.flights) \in Nat /\ Written.tickets \in Nat
  <2>1. CASE request.op = "OP_PURCHASE"
    <3>1. Written = [now EXCEPT !.tickets = @ + 1] /\ now.tickets < MaxRow
      BY <1>1, <2>1 DEF Written, IInv, RoomLeft
    <3>2. Written.tickets = now.tickets + 1 /\ Written.flights = now.flights
      BY <1>4, <3>1 DEF Tables
    <3>3. QED BY <1>4, <2>1, <3>1, <3>2, InsertRow, Constants, SMTT(30) DEF OneMore, Number, IInv, TypeOK
  <2>2. CASE request.op = "OP_ADDFLIGHT"
    <3>1. /\ Written = [now EXCEPT !.flights = Append(@, request.id)]
          /\ Len(now.flights) < MaxRow /\ request.id \in Times
      BY <1>1, <2>2 DEF Written, IInv, RoomLeft, Typed
    <3>2. OneMore(now, Written) /\ Written.tickets = now.tickets BY <1>4, <3>1, InsertRow
    <3>3. Len(Written.flights) = Len(now.flights) + 1 BY <1>4, <3>2 DEF OneMore
    <3>4. QED BY <1>4, <2>2, <3>1, <3>2, <3>3, Constants, SMTT(30) DEF OneMore, Number, IInv, TypeOK
  <2>3. CASE request.op = "OP_CANCEL"
    BY <1>4, <2>3 DEF Written, IInv, TypeOK
  <2>4. QED BY <1>1, <2>1, <2>2, <2>3
<1>6. /\ now' \in Tables /\ saved' \in Tables
      /\ \A t \in {now', saved'} : Len(t.flights) <= MaxRow /\ t.tickets <= MaxRow
      /\ transaction' \in {"auto", "begun", "locked"}
      /\ transaction' # "locked" => now' = saved'
      /\ Len(before.flights) <= Len(saved'.flights) /\ before.tickets <= saved'.tickets
      /\ Len(saved'.flights) <= Len(now'.flights) /\ saved'.tickets <= now'.tickets
  <2>1. CASE UNCHANGED <<transaction, now, saved>>
    BY <1>4, <2>1 DEF IInv, TypeOK, Grown
  <2>2. CASE transaction' = "auto" /\ now' = saved /\ saved' = saved
    BY <1>4, <2>2 DEF IInv, TypeOK, Grown
  <2>3. CASE /\ now' = Written
             /\ saved' = IF transaction = "auto" THEN Written ELSE saved
             /\ transaction' = IF transaction = "auto" THEN "auto" ELSE "locked"
    <3>1. now = saved \/ transaction # "auto" BY DEF IInv, TypeOK
    <3>2. /\ Len(before.flights) <= Len(saved.flights) /\ before.tickets <= saved.tickets
          /\ Len(saved.flights) <= Len(now.flights) /\ saved.tickets <= now.tickets
          /\ Len(saved.flights) <= MaxRow /\ saved.tickets <= MaxRow
      BY DEF IInv, Grown, TypeOK
    <3>3. CASE transaction = "auto" BY <1>4, <1>5, <2>3, <3>1, <3>2, <3>3
    <3>4. CASE transaction # "auto" BY <1>4, <1>5, <2>3, <3>2, <3>4
    <3>5. QED BY <3>3, <3>4
  <2>4. QED BY <1>3, <2>1, <2>2, <2>3
<1>7. TypeOK'
  <2>1. pc' \in {"idle", "rowid", "close"} BY <1>3
  <2>2. pc' = "rowid" => request.op # "OP_CANCEL" BY <1>3
  <2>3. rowid' \in 0..MaxRow /\ mine' \in 0..MaxRow BY <1>2, <1>5, <2>2, Constants DEF IInv, TypeOK
  <2>4. QED BY <1>2, <1>6, <2>1, <2>3 DEF IInv, TypeOK
<1>8. Typed' BY <1>2, <1>6 DEF IInv, Typed, Opcodes, Message
<1>9. CallsAllowed' BY <1>1, <1>2, <1>3 DEF IInv, TypeOK, CallsAllowed, Flow, Connections
<1>10. Grown' BY <1>2, <1>6 DEF Grown
<1>11. RoomLeft' /\ Counted' /\ Consulted' BY <1>3 DEF RoomLeft, Counted, Consulted
<1>12. Flow' BY <1>1, <1>2, <1>3 DEF IInv, Flow, TypeOK, Connections
<1>13. Answers'
  <2>1. CASE pc' = "rowid"
    <3>1. /\ Number = IF request.op = "OP_PURCHASE" THEN now.tickets + 1 ELSE Len(now.flights) + 1
          /\ request.op # "OP_CANCEL" /\ answer' = None
      BY <1>1, <1>2, <1>3, <2>1 DEF Number
    <3>2. Inserted' BY <1>2, <1>4, <2>1, <3>1 DEF IInv, Grown, Inserted
    <3>3. QED BY <1>2, <2>1, <3>1, <3>2 DEF Answers, None, Message
  <2>2. CASE pc' = "idle" BY <1>2, <2>2 DEF Answers, Message
  <2>3. CASE pc' = "close" BY <1>1, <1>2, <2>3 DEF Answers, None, Message
  <2>4. QED BY <1>3, <2>1, <2>2, <2>3
<1>14. QED BY <1>7, <1>8, <1>9, <1>10, <1>11, <1>12, <1>13 DEF IInv

\* sqlite3_last_insert_rowid
LEMMA RowidKeeps ==
    ASSUME IInv, ReturnRowid
    PROVE  IInv'
<1>1. /\ pc = "rowid" /\ db # "closed" /\ request.op \in {"OP_PURCHASE", "OP_ADDFLIGHT"}
      /\ rowid = mine /\ Inserted
  BY DEF ReturnRowid, IInv, Flow, Answers
<1>2. /\ UNCHANGED <<request, rowcount, results, db, statement, rowid, transaction, now, saved, before, mine>>
      /\ answer' = Message(request.op, ToInt(rowid), <<>>)
      /\ undefined' = undefined \cup IF db = "open" THEN {} ELSE {db}
      /\ pc' = IF request.op = "OP_PURCHASE" THEN "end" ELSE "idle"
  BY DEF ReturnRowid, sqlite3_last_insert_rowid, libraryVars, dataVars, GoTo, Blame, OnConnection
<1>3. ToInt(rowid) \in Int
  <2>1. rowid \in Int BY Constants DEF IInv, TypeOK
  <2>2. QED BY <2>1, ToIntKeeps, Constants DEF Ints
<1>4. TypeOK' BY <1>2 DEF IInv, TypeOK
<1>5. Typed' BY <1>2, <1>3 DEF IInv, Typed, Opcodes, Message
<1>6. CallsAllowed' BY <1>1, <1>2 DEF IInv, TypeOK, CallsAllowed, Flow, Connections
<1>7. Grown' /\ RoomLeft' /\ Counted' /\ Consulted'
  BY <1>1, <1>2 DEF IInv, Grown, RoomLeft, Counted, Consulted
<1>8. Flow' BY <1>1, <1>2 DEF IInv, Flow, TypeOK, Connections
<1>9. Answers' BY <1>1, <1>2 DEF Answers, Inserted, Message
<1>10. QED BY <1>4, <1>5, <1>6, <1>7, <1>8, <1>9 DEF IInv

\* END of db_purchase.
LEMMA EndKeeps ==
    ASSUME IInv, End
    PROVE  IInv'
<1> USE DEF GoTo, Blame, OnConnection, Codes
<1>1. TypeOK'
  BY Constants DEF IInv, TypeOK, Typed, Tables, RoomLeft, Flow, Counted, Grown,
    End, Failures, sqlite3_exec, RolledBack, sqlite3_get_autocommit, dataVars,
    Connections
<1>2. Typed'
  BY Constants DEF IInv, TypeOK, Typed, Tables, End, Failures, sqlite3_exec,
    RolledBack, sqlite3_get_autocommit, dataVars, Connections
<1>3. CallsAllowed'
  BY Constants DEF IInv, TypeOK, Typed, Tables, CallsAllowed, Flow, Consulted,
    Remaining, Copied, End, Failures, sqlite3_exec, RolledBack,
    sqlite3_get_autocommit, dataVars, Connections
<1>4. Grown' /\ RoomLeft'
  BY Constants, SMTT(30) DEF IInv, TypeOK, Typed, Tables, Grown, RoomLeft, Flow, End,
    Failures, sqlite3_exec, RolledBack, sqlite3_get_autocommit, dataVars,
    Connections
<1>5. Flow' /\ Counted'
  BY Constants DEF IInv, TypeOK, Typed, Tables, Flow, Counted, End, Failures,
    sqlite3_exec, RolledBack, sqlite3_get_autocommit, dataVars, Connections
<1>6. Consulted'
  BY Constants DEF IInv, TypeOK, Typed, Tables, Consulted, Copied, Remaining, Flow,
    End, Failures, sqlite3_exec, RolledBack, sqlite3_get_autocommit, dataVars,
    Connections
<1>7. Answers'
  BY Constants DEF IInv, TypeOK, Typed, Tables, Answers, Inserted, Flow, Grown,
    NoSeat, None, Message, Consulted, Copied, End, Failures, sqlite3_exec,
    RolledBack, sqlite3_get_autocommit, dataVars, Connections
<1>8. QED BY <1>1, <1>2, <1>3, <1>4, <1>5, <1>6, <1>7 DEF IInv

\* An INSERT of another process.
LEMMA OthersKeeps ==
    ASSUME IInv, Others
    PROVE  IInv'
<1>1. /\ UNCHANGED <<pc, request, answer, rowcount, results, db, statement, transaction, rowid,
                     before, mine, undefined>>
      /\ saved' = now' /\ transaction # "locked" /\ statement.state # "row"
  BY DEF Others, sqlite3_stmt_busy, callVars, historyVars
<1>2. /\ now \in Tables /\ now.tickets \in Nat /\ Len(now.flights) \in Nat
      /\ now = saved /\ before.tickets \in Nat /\ Len(before.flights) \in Nat
  BY <1>1 DEF IInv, TypeOK, Typed, Tables
<1>3. /\ OneMore(now, now')
      /\ now'.tickets < MaxRow \/ now'.tickets = now.tickets
      /\ Len(now'.flights) < MaxRow \/ now'.flights = now.flights
  <2>1. CASE now.tickets < MaxRow - 1 /\ now' = [now EXCEPT !.tickets = @ + 1]
    <3>1. now'.tickets = now.tickets + 1 /\ now'.flights = now.flights BY <1>2, <2>1 DEF Tables
    <3>2. QED BY <1>2, <2>1, <3>1, InsertRow, Constants
  <2>2. CASE /\ Len(now.flights) < MaxRow - 1
             /\ \E t \in Times : now' = [now EXCEPT !.flights = Append(@, t)]
    <3>1. OneMore(now, now') /\ now'.tickets = now.tickets BY <1>2, <2>2, InsertRow, ZenonT(30)
    <3>2. Len(now'.flights) = Len(now.flights) + 1 BY <1>2, <3>1 DEF OneMore
    <3>3. QED BY <1>2, <2>2, <3>1, <3>2, Constants
  <2>3. QED BY <2>1, <2>2 DEF Others
<1>4. /\ now' \in Tables /\ now'.tickets \in Nat /\ Len(now'.flights) \in Nat
      /\ Len(now'.flights) >= Len(now.flights) /\ now'.tickets >= now.tickets
      /\ \A i \in 1..Len(now.flights) : now'.flights[i] = now.flights[i]
  <2>1. now' \in Tables BY <1>3 DEF OneMore
  <2>2. now'.tickets \in Nat /\ Len(now'.flights) \in Nat BY <2>1 DEF Tables
  <2>3. QED BY <1>2, <1>3, <2>1, <2>2 DEF OneMore
<1>5. TypeOK' BY <1>1, <1>2, <1>3, <1>4, Constants DEF IInv, TypeOK
<1>6. Typed' BY <1>1, <1>4 DEF IInv, Typed
<1>7. CallsAllowed' BY <1>1, <1>2, <1>4, Constants DEF IInv, CallsAllowed
<1>8. Grown' BY <1>1, <1>2, <1>4 DEF IInv, Grown
<1>9. RoomLeft' BY <1>1, <1>2, <1>3, <1>4, Constants DEF IInv, RoomLeft
<1>10. Flow' /\ Counted' BY <1>1 DEF IInv, Flow, Counted
<1>11. Consulted'
  <2>1. ASSUME Copied(Len(results)) PROVE Copied(Len(results))'
    <3>1. Len(results) \in Nat BY DEF IInv, Typed
    <3>2. Len(results) <= Len(now.flights) BY <2>1 DEF Copied
    <3>3. Len(results) <= Len(now'.flights) BY <1>2, <1>4, <3>1, <3>2
    <3>4. ASSUME NEW i \in 1..Len(results) PROVE results[i] = ToInt(now'.flights[i])
      <4>1. i \in 1..Len(now.flights) BY <1>2, <3>1, <3>2
      <4>2. QED BY <1>4, <2>1, <4>1 DEF Copied
    <3>5. QED BY <1>1, <3>3, <3>4 DEF Copied
  <2>2. pc # "column" BY <1>1 DEF IInv, Flow
  <2>3. QED BY <1>1, <2>1, <2>2 DEF IInv, Consulted
<1>12. Answers'
  <2>1. CASE pc = "idle" /\ answer.op = "OP_CONSULT"
    <3>1. Len(answer.rows) \in Nat BY DEF IInv, Typed
    <3>2. Len(answer.rows) >= Len(before.flights) /\ Len(answer.rows) <= Len(now.flights)
      BY <2>1 DEF IInv, Answers
    <3>3. Len(answer.rows) <= Len(now'.flights) BY <1>2, <1>4, <3>1, <3>2
    <3>4. ASSUME NEW i \in 1..Len(answer.rows) PROVE answer.rows[i] = ToInt(now'.flights[i])
      <4>1. i \in 1..Len(now.flights) BY <1>2, <3>1, <3>2
      <4>2. QED BY <1>4, <2>1, <4>1 DEF IInv, Answers
    <3>5. QED BY <1>1, <2>1, <3>2, <3>3, <3>4 DEF IInv, Answers, Inserted
  <2>2. CASE ~(pc = "idle" /\ answer.op = "OP_CONSULT")
    BY <1>1, <2>2 DEF IInv, Answers, Inserted
  <2>3. QED BY <2>1, <2>2
<1>13. QED BY <1>5, <1>6, <1>7, <1>8, <1>9, <1>10, <1>11, <1>12 DEF IInv

\* Nothing happens.
LEMMA StutterKeeps ==
    ASSUME IInv, UNCHANGED vars
    PROVE  IInv'
<1> USE DEF GoTo, Blame, OnConnection, Codes
<1>1. TypeOK' /\ Typed' /\ CallsAllowed'
  BY Constants DEF IInv, TypeOK, Typed, Tables, RoomLeft, Flow, Counted, Grown,
    CallsAllowed, Consulted, Remaining, Copied, vars, callVars, libraryVars,
    dataVars, historyVars
<1>2. Grown' /\ RoomLeft' /\ Flow' /\ Counted'
  BY Constants DEF IInv, TypeOK, Typed, Tables, Grown, RoomLeft, Flow, Counted,
    vars, callVars, libraryVars, dataVars, historyVars
<1>3. Consulted' /\ Answers'
  BY Constants DEF IInv, TypeOK, Typed, Tables, Consulted, Copied, Remaining, Flow,
    Answers, Inserted, Grown, NoSeat, None, Message, vars, callVars, libraryVars,
    dataVars, historyVars
<1>4. QED BY <1>1, <1>2, <1>3 DEF IInv

-----------------------------------------------------------------------------
(* The theorems.                                                           *)

\* The invariant holds: every call of database.c keeps it, whatever the
\* library returns.
THEOREM Invariance == Spec => []IInv
<1>1. IInv /\ [Next]_vars => IInv'
  <2> SUFFICES ASSUME IInv, [Next]_vars PROVE IInv'
    OBVIOUS
  <2>1. CASE db_open BY <2>1, OpenKeeps
  <2>2. CASE db_create BY <2>2, CreateKeeps
  <2>3. CASE Exit BY <2>3, ExitKeeps
  <2>4. CASE db_close BY <2>4, CloseKeeps
  <2>5. CASE Quit BY <2>5, QuitKeeps
  <2>6. CASE \E r \in Requests : Receive(r) BY <2>6, ReceiveKeeps
  <2>7. CASE Begin BY <2>7, BeginKeeps
  <2>8. CASE End BY <2>8, EndKeeps
  <2>9. CASE Prepare BY <2>9, PrepareKeeps
  <2>10. CASE Step BY <2>10, StepKeeps
  <2>11. CASE Copy BY <2>11, CopyKeeps
  <2>12. CASE Count BY <2>12, CountKeeps
  <2>13. CASE Finalize BY <2>13, FinalizeKeeps
  <2>14. CASE Write BY <2>14, WriteKeeps
  <2>15. CASE ReturnRowid BY <2>15, RowidKeeps
  <2>16. CASE Others BY <2>16, OthersKeeps
  <2>17. CASE UNCHANGED vars BY <2>17, StutterKeeps
  <2>18. QED
    BY <2>1, <2>2, <2>3, <2>4, <2>5, <2>6, <2>7, <2>8, <2>9, <2>10, <2>11, <2>12, <2>13,
       <2>14, <2>15, <2>16, <2>17 DEF Next
<1>2. QED BY <1>1, InitIInv, PTL DEF Spec

\* database.c keeps to the contract of sqlite3.h, but for the two exceptions
\* that CallsAllowed names: an open that failed, and a consult of more rows
\* than fit in the datagram.
THEOREM CallsSafety == Spec => []CallsInv
<1>1. IInv => CallsInv BY DEF IInv, CallsInv
<1>2. QED BY <1>1, Invariance, PTL

\* The number that a purchase or an addflight answers is the one of the row it
\* has inserted, for ints of every width.
THEOREM OwnRowSafety == Spec => []OwnRow
<1>1. ASSUME IInv PROVE OwnRow
  <2>1. SUFFICES ASSUME answer.op \in {"OP_PURCHASE", "OP_ADDFLIGHT"},
                        answer.id # NoSeat, mine \in Ints
                 PROVE  /\ answer.id = mine
                        /\ answer.id > IF answer.op = "OP_PURCHASE" THEN before.tickets
                                       ELSE Len(before.flights)
    BY DEF OwnRow
  <2>2. answer.op = request.op /\ answer.id = ToInt(mine) /\ Inserted
    BY <1>1, <2>1 DEF IInv, Answers
  <2>3. mine \in Int BY <1>1, Constants DEF IInv, TypeOK
  <2>4. ToInt(mine) = mine BY <2>1, <2>3, ToIntKeeps
  <2>5. QED BY <2>2, <2>4 DEF Inserted
<1>2. QED BY <1>1, Invariance, PTL

\* A consult answers every flight that was committed when it was asked, each
\* with its departure, for tables and datagrams of every size.
THEOREM RowsAsAddedSafety == Spec => []RowsAsAdded
<1>1. ASSUME IInv PROVE RowsAsAdded
  <2>1. SUFFICES ASSUME pc = "idle", answer.op = "OP_CONSULT"
                 PROVE  /\ Len(answer.rows) >= Len(before.flights)
                        /\ \A i \in DOMAIN answer.rows :
                              now.flights[i] \in Ints => answer.rows[i] = now.flights[i]
    BY DEF RowsAsAdded
  <2>2. answer.rows \in Seq(Int) /\ now.flights \in Seq(Int)
    <3>1. Seq(Times) \subseteq Seq(Int) BY Constants
    <3>2. QED BY <1>1, <3>1 DEF IInv, Typed, Tables
  <2>3. /\ Len(answer.rows) >= Len(before.flights) /\ Len(answer.rows) <= Len(now.flights)
        /\ \A i \in 1..Len(answer.rows) : answer.rows[i] = ToInt(now.flights[i])
    BY <1>1, <2>1 DEF IInv, Answers
  <2>4. ASSUME NEW i \in DOMAIN answer.rows, now.flights[i] \in Ints
        PROVE  answer.rows[i] = now.flights[i]
    <3>1. i \in 1..Len(answer.rows) /\ now.flights[i] \in Int BY <2>2, <2>3, SMTT(30)
    <3>2. QED BY <2>3, <2>4, <3>1, ToIntKeeps
  <2>5. QED BY <2>3, <2>4
<1>2. QED BY <1>1, Invariance, PTL
=============================================================================

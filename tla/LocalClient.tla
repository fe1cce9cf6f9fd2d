---------------------------- MODULE LocalClient ----------------------------
(***************************************************************************)
(* client/localclient.c with ipc/lib/filemutex.c: clients that open the    *)
(* database themselves and take turns through a lock on                    *)
(* /tmp/so-wannafight.mutex.  Only execute_datagram (and the sleep of      *)
(* setdelay) runs under the lock; db_open does not.  The lock is an fcntl  *)
(* lock: it goes with the process, however the process ends.               *)
(*                                                                         *)
(* All clients are of one user, so that fmutex_enter can open the file.    *)
(***************************************************************************)
EXTENDS Database

VARIABLES
    holder,   \* the clients that hold the lock on the mutex file
    stage,    \* stage[c]: "prompt", "blocked" in F_SETLKW, or "inside"
    careful   \* history: the file was in place, and no one has asked for a
              \* seat on a flight that is not there

mutexVars == <<holder, stage, careful>>
localVars == <<vars, mutexVars>>

SetStage(c, s) == stage' = [stage EXCEPT ![c] = s]

-----------------------------------------------------------------------------
\* main: db_open, outside the mutex.
Start(c) == FileExist(c) /\ UNCHANGED mutexVars

\* A command becomes a datagram; fmutex_enter asks for the lock.
Command(c) ==
    /\ pc[c] = "idle"
    /\ stage[c] = "prompt"
    /\ SetStage(c, "blocked")
    /\ UNCHANGED <<vars, holder, careful>>

Asks(r) == careful' = (careful /\ (r.op = "OP_PURCHASE" => r.flight \in FlightIds(db)))

\* Mutant: the command waits for SETLK, which fails, instead of SETLKW.
EnterAnyway(c, r) ==
    /\ stage[c] = "blocked"
    /\ holder' = holder \cup {c}
    /\ SetStage(c, "inside")
    /\ Asks(r)
    /\ Receive(c, r)

\* fmutex_enter gets the lock; execute_datagram starts.
fmutex_enter(c, r) ==
    /\ stage[c] = "blocked"
    /\ holder = {}
    /\ holder' = {c}
    /\ SetStage(c, "inside")
    /\ Asks(r)
    /\ Receive(c, r)

\* Mutant: the lock outlives a process that exits with an error.
ExecuteKeepsLock(c) == Work(c) /\ UNCHANGED mutexVars

\* db_open or execute_datagram goes on, or ends the process.
Execute(c) ==
    /\ Work(c)
    /\ IF pc'[c] = "failed"
       THEN holder' = holder \ {c} /\ SetStage(c, "prompt") /\ UNCHANGED careful
       ELSE UNCHANGED mutexVars

\* execute_datagram has answered, the delay is over.
fmutex_leave(c) ==
    /\ pc[c] = "idle"
    /\ stage[c] = "inside"
    /\ holder' = holder \ {c}
    /\ SetStage(c, "prompt")
    /\ UNCHANGED <<vars, careful>>

\* "exit" or the end of the input.
Exit(c) ==
    /\ stage[c] = "prompt"
    /\ Quit(c)
    /\ UNCHANGED mutexVars

\* SIGINT, before or after main has installed int_handler.
int_handler(c) ==
    /\ Interrupt(c)
    /\ holder' = holder \ {c}
    /\ SetStage(c, "prompt")
    /\ UNCHANGED careful

Step(c) == Execute(c) \/ fmutex_leave(c)

LocalInit ==
    /\ Init
    /\ careful = fileExists
    /\ holder = {}
    /\ stage = [c \in Conn |-> "prompt"]

LocalNext ==
    \E c \in Conn :
        \/ Start(c) \/ Command(c) \/ Step(c) \/ Exit(c) \/ int_handler(c)
        \/ \E r \in Requests : fmutex_enter(c, r)

LocalSpec == LocalInit /\ [][LocalNext]_localVars

\* The scheduler runs a client that can go on; sleep(delay) ends.
LocalFairSpec == LocalSpec /\ \A c \in Conn : WF_localVars(Step(c))

-----------------------------------------------------------------------------
\* Types of the mutex and of the stages.
LocalTypeOK ==
    /\ TypeOK
    /\ holder \in SUBSET Conn
    /\ stage \in [Conn -> {"prompt", "blocked", "inside"}]
    /\ careful \in BOOLEAN

\* c goes on holding a lock on the database after it has left the mutex.
Leaks(c) == stage[c] # "inside" /\ lock[c] # "none"

\* Both tables are there and nobody is creating them.
Settled == /\ db.tables = {"ticket", "flight"}
           /\ \A c \in Conn : req[c].op # "CREATE"

\* A client ends on SQLITE_BUSY only if another one has left the mutex with
\* its transaction open, which only a purchase of a missing flight brings
\* about (or if a db_open outside the mutex is creating the tables).
OnlyLeaksFail ==
    [][\A c \in Conn : pc[c] # "failed" /\ pc'[c] = "failed" /\ Settled
          => \E d \in Conn \ {c} : Leaks(d) /\ intx[d]]_localVars

\* As long as the clients are careful nobody meets SQLITE_BUSY: the mutex does
\* what the missing busy handler does not, and execute_datagram drops its lock
\* inside it.
NobodyFails == careful => \A c \in Conn : pc[c] # "failed"

\* The types, and nobody failing among careful clients.
LocalInv == LocalTypeOK /\ NobodyFails

\* What careful clients were told is so once their session is over, signals at
\* any moment included: the tickets they bought ("Compra exitosa. ID del
\* ticket") are there and no number is given out twice, those they cancelled
\* ("Compra cancelada de forma exitosa") are not.
CarefulPromises == careful => ReceiptsHonoured /\ ReceiptsUnique /\ RefundsHonoured

\* The mutex never stays with a client for ever: each way out of
\* execute_datagram, an answer, exit(1) or a signal, gives it back.
MutexReturns == \A c \in Conn : (c \in holder) ~> (c \notin holder)
=============================================================================

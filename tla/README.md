# A verification of so-wannaflight

so-wannaflight sells seats on flights. A server keeps flights and tickets in
`../database.sqlite`; clients reach it over one of five transports, chosen when
server and client are built. A *local client* opens the database itself.

This directory holds TLA+ modules translated from the C sources, the TLC
configurations that check them, and proofs for TLAPS.

## 1. The system

| component | source | state | operations | talks to |
|---|---|---|---|---|
| database | `server/db/database.c` | the file, its locks and journal, a transaction per connection | `db_open` `db_create` `db_purchase` `db_cancel` `db_add_flight` `db_consult_flights` `db_close` | SQLite |
| request execution | `server/libserver.c` | none | `execute_datagram` | database |
| local client | `client/localclient.c`, `ipc/lib/filemutex.c` | the lock on the mutex file | prompt loop, `fmutex_enter`, `fmutex_leave`, SIGINT | request execution |
| server | `server/server.c` | `cli_count`, one child per client | accept loop, `serve`, SIGINT, SIGPIPE | a transport, request execution |
| client | `client/client.c` | its session | prompt loop, `send_exit`, SIGINT | a transport |
| commands | `client/libclient.c` | `is_admin`, the buffer of `main` | `parse_command`, `command_to_datagram`, `parse_answer` | |
| shared memory | `ipc/shmem.c`, `ipc/lib/semaphore.c` | a public segment, a private one per client, semaphores, undo | `ipc_listen` ... `ipc_free` | System V IPC |
| message queue | `ipc/msgqueue.c` | two queues for everybody | the same | System V IPC |
| FIFO | `ipc/fifo.c` | public and private pairs of FIFOs | the same | the file system |
| files | `ipc/files.c` | public and private files, SIGUSR1 | the same | the file system, signals |
| socket | `ipc/socket.c` | a connection per client | the same | TCP |
| SQLite interface | `server/sqlite3/sqlite3.h` | connections, statements | the functions `database.c` calls | |
| `ipc/filesig.c` | | | | no target builds it |

What is hard here:

* **Many processes, one file, no busy handler.** Each server child and each local
  client has its own connection. A lock that cannot be had is `SQLITE_BUSY` at
  once: the process exits, except at the `END` of `db_purchase`, where the result
  is ignored and the transaction stays open.
* **Transactions that outlive their function.** `db_purchase` returns between
  `BEGIN` and `END` when the flight is missing.
* **Crashes** (`exit(1)`, SIGINT) at any point, in the middle of a commit too; and
  the SIGINT of one child removes what all other processes of the server use.
* **Handshakes over things everybody shares.** Four steps over two semaphores that the
  server resets, under `SEM_UNDO` on one side only and an uninitialised flag on the
  other; one public file and a signal that is forgotten unless it is waited for; one
  pair of public FIFOs, whose opens pair up with whoever is there.
* **Media without datagrams.** A TCP stream splits and joins them, a FIFO joins
  them, a message queue refuses to deliver a long one, and every read that returns
  nothing is taken for a datagram.
* **Buffers of fixed size** for a command line, its words, the rows of a consult.

`PROJECT.json` lists the hazards line by line with the property that watches each.

What makes each part correct: the database loses nothing and keeps what it
answered; the mutex keeps local clients out of each other's way and comes back; every
transport brings a client to a session of its own, in which its commands are
answered, each by its own answer, and the server always comes back to listen; the
parser finds the words that were typed.

## 2. The modules

| module | models | size of a step |
|---|---|---|
| `Sqlite` | the locks of SQLite | |
| `Database` | `database.c` and `execute_datagram`, all processes | between two lock operations on the file |
| `Ledger` | what the database promises | an edit or a commit |
| `DbCalls` | `database.c` and `execute_datagram`, one process | one call of the library |
| `LocalClient` | `localclient.c`, `filemutex.c`; extends `Database` | as `Database` |
| `Service` | what `include/ipc.h` promises a client | a call of it |
| `Shmem` | `shmem.c`, `semaphore.c`, `server.c`, `client.c` | one semaphore operation or one access to a segment |
| `MsgQueue` | `msgqueue.c`, `server.c`, `client.c` | one system call on a queue |
| `Socket` | `socket.c`, `server.c`, `client.c` | one system call on a socket |
| `Files` | `files.c`, `semaphore.c`, `server.c`, `client.c` | one access to a file or one signal |
| `Fifo` | `fifo.c`, `semaphore.c`, `server.c`, `client.c` | one open, read or write |
| `CommandParser` | `libclient.c` and the prompts of both clients | one line |
| `DatabaseProofs`, `LocalClientProofs`, `DbCallsProofs`, `ShmemProofs`, `MsgQueueProofs`, `SocketProofs`, `FifoProofs`, `FilesProofs` | theorems about the module of that name | |
| `MC*` | instances for TLC | |

Definitions named "Mutant" in a comment stand for plausible mistakes in the code; no
specification uses them. Each property is shown to reject one of them.

### Database

`db` is what is committed, `work[c]` what process `c` has changed and not
committed, `lock[c]` its lock on the file, `intx[c]` whether `c` is between `BEGIN`
and a successful `END`, `pc[c]` and `req[c]` where it is and in which datagram. A
statement is `Share` (SHARED, or `ShareBusy`), possibly `Recover`/`Recovered` (a hot
journal is rolled back under EXCLUSIVE), `Reserve` (RESERVED and the change),
`Exclude` and `Write` (EXCLUSIVE and the commit); outside a transaction the last
three are parts of one INSERT, DELETE or CREATE. `EndBusy` is the ignored result at
`database.c:191`, `FlightMissing` the early return at 185. `Fail` is the `exit(1)` of
the macros; `Interrupt` is SIGINT. `Leave` leaves a hot journal, or not, if
the process dies while it writes. `shown`, `sold`, `refunded` and `cancelled` are
history: what the client was told.

Initially the file is either the one the repository ships (both tables, taken as
empty) or missing.

Abstracted: SQL text, the departure of a flight, OP_PING (it touches no table), the
order and the size of the rows of a consult.

### Ledger

One author at a time edits a draft nobody else sees, and replaces the ledger with it
or throws it away; an edit gives out the next number, a ticket is for a flight of the
same draft. `RefinesLedger` maps `ledger` to `db`, `editing` to the processes with a
write lock, `draft` to `work`. Readers, journals, refused locks and open transactions
all disappear in the mapping.

### DbCalls

The other half of the database: what `Database` takes for granted is whether
`database.c` uses the library as its header says. One process; each operator with the
name of a function of `sqlite3.h` states its contract (which codes it may return,
what it does to a connection, a statement, a transaction, and in which state it may
be called), and each step of `database.c` calls them. Every call may fail wherever the
header lets it. Locks are reduced to when other processes can insert (`Others`).
`undefined` collects every use the header gives no meaning to.

An int keeps the lower half of a 64 bit integer (`ToInt`), `Word` being the number of
ints, and a datagram has room for `Room` rows. `CallsInv` shows that two things only
can go wrong: after a `db_open` that failed (its result is ignored, `server.c:114`) the
next call has no connection, and `DB_EXEC` prints and frees an `err_msg` that was never
set; and a consult of more than `Room` rows overwrites memory, after which the process
is not followed. `OwnRow` and `RowsAsAdded` hold up to the width of an int: a departure
after 2038, stored in 64 bits, comes back as another one.

A failed `sqlite3_step` goes to `sqlite3_close` with its statement not finalized;
the connection then stays, as the header says, until the process ends, which it
does at once.

### LocalClient

`Database` with a mutex around `execute_datagram`, and only around it: `db_open` runs
outside. `holder` is the holder of the fcntl lock, which goes with the process.
`setdelay` is the time between the answer and `fmutex_leave`. `careful` remembers whether
all clients so far were careful: the file was in place and nobody has bought a seat on
a missing flight.

### Service

What a user of `ipc.h` relies on: after `ipc_connect` each `ipc_receive` returns the
answer to the command of the last `ipc_send`. Two consecutive commands differ in a bit,
which is enough to tell a repeated or a late answer from the right one. A connection
may be lost (`Loss`); then nothing is promised to that client, and nothing changes for
the others. Four transports are shown to refine it; which of their states count as
lost is said in `Phase` and `Lost` of each and is part of the result:

| transport | a connection is lost when |
|---|---|
| message queue | the queues were removed (by the exit of *any* client), an answer was too long, or a command that is too long has jammed the queue |
| socket | a `recv` returned less or more than one datagram, or the child has ended |
| files | the client began to connect while the server was not in `sigsuspend`, or met another client in the handshake |
| FIFO | never: a client that got through keeps its session until it ends |

### Shmem

`parent` is the accepting process, `child[k]` the process forked at `cli_count = k`
with key `k`, `client[c]` a client that may be started again. `pub` is the public
segment, `priv[k]` that of child `k`. A datagram is its kind and the client it belongs
to. `undo[p]` counts the downs and ups of a process since the last SETVAL: at its end
every down is undone, and of the ups as many as happened to carry SEM_UNDO. That
number is chosen only then, since nothing shows it earlier. `sets` are the public
semaphores that have not been removed (`close_conn` of a child removes them); on a set
that is gone `semop` fails at once, which nobody notices. `Abandon` is SIGINT of a client
while its session still is the public segment, `send_exit` the word "exit" or SIGINT
after that. A command is executed in one step, which may also end the child. The child
creates its segment with key `k`; that the code reads the key back from the public segment
first makes a difference only if a client has zeroed that in between, which `amiss` records.

The constants say what the environment does: `Eager` are the clients that may be started
at any moment (the others only when the server is in `ipc_accept` and nobody is
connecting), `Flagged` the processes whose uninitialised `sem_flg` may hold SEM_UNDO,
`Interrupted` those that SIGINT may hit. `amiss` remembers which of these disturbances
have happened, at most `MaxAmiss` kinds in one behaviour, and the properties say up to
which of them they hold. Shared memory is not among the refinements of `Service`: its
guarantees depend on `amiss`, and `SessionsSound` and `Answered` say directly what they are.

### MsgQueue

`id[q]` is the queue that key `q` stands for now, `at[c][q]` the one client `c` has found,
in two calls: it may have one queue of each of two runs of the server. `ipc_shouldfork`
is FALSE, so the first OP_CONNECT turns the server into the process that serves
everybody, the OP_CONNECT of later clients are executed (and ignored) as commands, and
the first OP_EXIT ends it and removes both queues. `msgsnd` blocks at `Capacity`
messages. A message longer than `DATAGRAM_MAXSIZE` is not received (E2BIG): an answer
stays in the queue, and a command jams it. What the server finds in the fresh memory after a
failed `msgrcv` may be an earlier command; the model ends the server there
(`ReceiveGarbage`), and counts all attached clients as lost.

### Socket

A stream is a sequence of parts; a datagram is its head, which has the opcode, and the
rest. `split` are the clients whose network delivers datagrams in pieces. `recv` returns
up to `Buffer` parts, and `ipc_receive` takes them for one datagram, or for garbage when
there is no head. Children inherit the listening socket and keep the port: `bind` of the
next run then fails, which nobody looks at, and connections wait in a backlog
from which nobody accepts. `ipc_receive` of an ended stream returns NULL: the child
dies of it, which is how it ends.

### Files

`pub` is the public file: the pid of the server at its start, and the rest. A signal wakes
a process in `sigsuspend`, ends a `semop`, and is forgotten at any other moment. `mixed`
and `unheard` are history: the clients whose connect was disorderly, and those with a
signal forgotten. SIGINT of a client writes OP_EXIT to whatever file it has open, and signals
nobody if it has no pid yet.

### Fifo

Who has which end of a FIFO open follows from where the processes are (`HoldsR`, `WritersR`
...), the ends that children inherit included. A read takes everything there is, and
only the first datagram of it is looked at; a read of nothing ends the process. `path[c]`
is the child whose FIFOs client `c` was told. A client that is in `open` when a child
unlinks the FIFO may stay there: `ClientOpenFails` is not fair.

### CommandParser

Lines are sequences of characters; the words the program knows are one character long,
and the offset of `ping` is shortened with them. `parse_command` is translated with
its buffers; `Words` is the reference it is compared with, a scan by modes (gap, word,
quoted). The buffer keeps what earlier lines have left behind, so runs are sequences of
lines. An `argv` that was never set is any string or NULL. What is written past the end of
a heap block (`Overrun`: too many words for `argv`, a word too long for its buffer, or the
text of a bare `ping`, which is copied from behind the end of the line into a datagram sized
after the line) ends the process, on that line or on a later one (`spoiled`), or does
nothing. `CMD_ROOM` is the room for text in a `DB_DATAGRAM` without any, 152 bytes or more
in the builds.

## 3. The runs

| run | instance | result |
|---|---|---|
| `database` | 2 processes, 1 flight, 2 tickets | types, `AnswersStand`, `TicketsHaveFlights`, `NoLostUpdate`, `IdsNeverReused`, `RefinesLedger` hold |
| `receipts` | 2 processes, 1 flight, 1 ticket | `ReceiptsHonoured` **violated**: a confirmed purchase is lost |
| `local` | 2 clients, 1 flight, 1 ticket, fair | `LocalInv`, `CarefulPromises`, `OnlyLeaksFail`, `MutexReturns`, `RequestsEnd` hold |
| `shmem` | 2 eager clients, 2 starts, 2 children, SIGINT of all but child 2, one kind of disturbance | `AcceptAfterSync`, `QueueHolds`, `SessionsSound` hold |
| `shmem_live` | 2 clients, 2 starts, undisturbed, fair | `Connects`, `Answered`, `AcceptsAgain`, `ExitHeard` hold |
| `msgqueue` | 2 clients, 2 runs of the server, queues of 2 | `QueueInv`, `RefinesService`, `Answered` hold |
| `socket` | 2 clients (one wild), 2 runs, backlog of 1 | `SocketInv`, `RefinesService`, `Answered`, `ChildrenEnd` hold |
| `files` | 2 clients (one sends commands), 2 children, SIGINT | types, `RefinesService`, `Answered`, `AcceptsAgain` hold |
| `fifo` | 2 clients, 2 children, SIGINT | types, `RefinesService`, `Answered`, `Connected`, `ChildrenEnd` hold |
| `fifo_sync` | 1 client, 1 child, no SIGINT | `AcceptAfterSync` **violated**: the server reopens the public FIFO under the client it has just accepted |
| `parser` | all lines of up to 4 blanks, quotes and letters, and lines with every command, both builds | `ParserInv`, `ConsultMeaning`, `PingText` hold |
| `db_calls` | 3 rows, room for 2, ints of 6 values | `CallsInv`, `OwnRow`, `RowsAsAdded` hold |

What the exceptions in the properties stand for; each was met as a counterexample
before it was written down:

* `ReceiptsUnique` fails in the instance of `receipts` as well: the number of a ticket
  that was confirmed and rolled back is confirmed again. `RefundsHonoured` fails for one
  process alone: a purchase of a missing flight leaves its transaction open, and a
  cancellation after it is confirmed and never committed. Careful local clients keep
  both (`CarefulPromises`).
* Shared memory: `QueueHolds` ends with the first client that ends, whose undone down
  lets two clients pass. `Connects` fails for an eager client that the queue lets in
  before `sem_reset`, which wipes out its wake-ups. `SessionsSound` fails after a SIGINT
  that writes OP_EXIT under an answer: the child executes its own answer.
  `AcceptsAgain` fails after SIGINT of a client in the handshake, which the server
  waits for in vain. With SEM_UNDO in the flag of `sem_up`, `ExitHeard` and
  `AcceptsAgain` fail for orderly clients too: a client that ends takes back the wake-up
  of its OP_EXIT, and a child that ends takes back an up that another child has raised.
* Message queue: a client waits for ever if the server died by `exit(1)` (it leaves
  its queues behind), if its two queues are of two runs, or if a long datagram, or
  answers to clients that are gone, fill a queue.
* Socket: a client that waits for ever has had its command torn by `recv`, or sits in the
  backlog of a socket that children of an earlier run keep open.
* Files: a client waits for ever if a signal came between two `sigsuspend`; a server, if
  the end of a child takes an up back.
* FIFO: `Connected` fails when one `read` takes two OP_CONNECT, and when a child that is
  interrupted unlinks the public FIFOs. The server may also simply be ended by a read of
  0 bytes, without any failure: run `fifo_sync`.
* Parser: a line without a word, with an open quote, with too many or too long words ends
  the client; a bare `ping` sends what an earlier line has left in the buffer, and after a
  line that was longer than its datagram writes past the end of it (`EndsOnly`).

**Bounds.** Everything that goes wrong between database processes goes wrong between
a writer and one other process: two suffice. Two local clients are a holder and one
that waits, or one outside with an open transaction. One flight is enough, as
requests also name a flight that is never there; two tickets let a number be
cancelled and the next one given out. In a transport two clients meet in the handshake,
or one is served while the other connects; two children (or two runs of the server) are
the one that serves and the one that comes after it. In `shmem` two starts do not
let a client come back after one has left while a third is there; the properties make no
claim about that case (see `QueueHolds`). A queue of two messages is full with one of
each client; a `Window` one larger than `Buffer` lets a `recv` return more than a datagram.
In `files` one of the clients only connects and leaves, which is all that disturbs the
other. In the parser, `MAX_ARGS`, `CMD_BUFFER_SIZE` and `CMD_ROOM` are small enough to be
exceeded by short lines; one line is just long enough for the text that a bare `ping`
finds after it to miss the room by one character. In `db_calls` a departure of 3 does not fit in an int of 6 values,
and neither does row 3. `MaxUps` is no bound on a step but part of what `TypeOK` claims.

Deadlock checking is off where processes may all have ended, or wait for one that has:
in all transports, the parser and `db_calls`. What must go on is stated as liveness.

**Symmetry** of clients or processes is used in safety runs only.

**Fairness.** Weak fairness of the steps of each process: the system schedules a process
that can run, nothing in `execute_datagram` waits, `sleep(delay)` ends. No fairness is
assumed of users (starting, typing, leaving), signals, or failures. Semaphores, queues
and FIFOs need no strong fairness: the properties hold with weak fairness alone.

## 4. The proofs

Every theorem holds for any number of processes, clients, children and restarts and for
any size of what the run bounds, from the named assumptions of the module it is about.

| module | theorems | the property of a run | assumptions |
|---|---|---|---|
| `DatabaseProofs` | `TypeCorrect`, `AnswersAlwaysStand`, `TicketsAlwaysHaveFlights` | the invariants of `database` | `AirportAssumption`, `BoundAssumption` |
| | `NoUpdateLost`, `NoIdReused` | its action properties | |
| | `ImplementsLedger` | `RefinesLedger` | |
| `LocalClientProofs` | `LocalSafety`, `CarefulPromisesHold`, `OnlyLeaksMakeFail` | `LocalInv`, `CarefulPromises`, `OnlyLeaksFail` | as `DatabaseProofs` |
| `DbCallsProofs` | `CallsSafety`, `OwnRowSafety`, `RowsAsAddedSafety` | `CallsInv`, `OwnRow`, `RowsAsAdded` | `CallsAssumption` |
| `ShmemProofs` | `ServerWaits`, `OneInHandshake`, `SessionsSafety` | `AcceptAfterSync`, `QueueHolds`, `SessionsSound` | `BoundAssumption`, `NamesAssumption`, `EnvironmentAssumption` |
| `MsgQueueProofs` | `QueueSafety`, `ImplementsService` | `QueueInv`, `RefinesService` | `QueueAssumption` |
| `SocketProofs` | `SocketSafety`, `ImplementsService` | `SocketInv`, `RefinesService` | `SocketAssumption` |
| `FifoProofs` | `FifoTypesSafety`, `ImplementsService` | `TypeOK`, `RefinesService` | `FifoAssumption` |
| `FilesProofs` | `FilesTypesSafety`, `ImplementsService` | `TypeOK`, `RefinesService` | `FilesAssumption` |

None of the invariants is inductive; each module begins with one that is (`IInv`, `LInv`, and
`StateInv` and `ContentInv` in `DatabaseProofs`). TLC has checked each on the instance of
the run before it was proved. A step is looked at once for each conjunct it can disturb;
lemmas named `...Effects`, `...Same` or `...Frame` deal with the processes it leaves alone.

**Database.** `StateInv` adds to the types that locks exclude each other (`LockInv`) and
which lock and which request go with each label (`FlowInv`). `ContentInv` adds that a draft
is sound and follows from the committed contents (`Draft`), that what a process has looked
up is still there when it uses it (`Seen`), and that what it was told is in what it sees
(`Stands`). The crux is the commit: it changes `db` under the other processes, and is
harmless because EXCLUSIVE means that no other process has a lock, hence none has looked
anything up it still relies on (lemmas `LockAlone`, `Alone`), and because the new contents
follow from the old ones (`ApplyFollows`). Steps that leave a process alone are dealt with
once, in `Bystander`. The refinement reuses the invariant: only `Write` commits, each
statement is an edit (`ApplyIsEdit`), each end of a process closes its draft
(`LeaveIsClose`).

**LocalClient.** Every step of a local client is a step of the database or none
(`LocalIsNext`), so the invariant of `DatabaseProofs` carries over; `LInv` adds to it. The
mutex is with the one client that executes a datagram (`Placed`; `db_create` of `db_open`
runs outside). A lock on the database outlives a request only in an open transaction
(`Leftover`), whence `OnlyLeaksFail`: a refused lock is another connection's, and that
client is at its prompt. As long as all clients are careful no lock outlives a request
(`Tidy`), so what a client commits is the file as it is plus its one statement; with unique
keys and numbers within AUTOINCREMENT's count (`Numbered`) every purchase finds its flight
and ends its transaction, and what was told stays so (`Told`).

**DbCalls.** The invariant says which statement is in which state at each label (`Flow`),
that tables only grow between a request and its answer (`Grown`), and how far a consult
has copied (`Copied`, `Remaining`). The proof asks for an int with room for the number 1,
`Word > 2` (with `Word = 2` the one row that `COUNT` returns reads as -1); the C standard
has at least 2^16.

**Shmem.** The first half of the invariant holds whatever happens: how many ups a process
can have made, hence undo, by where it is (`Ups`), that only the child forked last is in
the handshake and SEM_SRV_QUEUE is up only after it (`Turns`), and that until a client ends
whoever is in the handshake has SEM_QUEUE to itself (`Queue`). `ServerWaits` and
`OneInHandshake` follow. The second, `SInv`, holds as long as no client is interrupted or
eager: the four steps of client and child are in step (`Dance`), every session has the key
of a child of its own (`Keyed`), and between its two ends there is one command or one answer
at most (`Channel`).

**MsgQueue.** A queue has the number of the run that created it, so that a client never has
a newer one than the server (`Numbered`), what the server may meet was sent to its run
(`CurrentRun`), and between the two queues and the hands of the server there is one command
of a client at most, the one it waits for (`Pending`). That is what makes `TakeAnswer` a
`Take` of the service.

**Socket.** The framing has no other ground than that commands and answers take turns.
`Turn` says so: as long as nothing was torn, both streams and the child hold one datagram at
most between them, none if the client may send. Then a `recv` finds one datagram and returns
it whole unless it is too long or split (`WholeFacts`). A connection is in the backlog once
and unserved (`Queued`).

**Fifo.** A path is told once, to one client (`Paths`): a child tells it before it puts up
the semaphore, and its number is never used again. So the private FIFOs are private
although everybody reads from the public one, and hold no more than the last command or the
answer to it, behind an OP_CONNECT at most (`Line`). The semaphore is up at most
once, while the server waits for it (`Semaphore`), which bounds it without counting children.

**Files.** Two kinds of facts make up the invariant. Some hold of every process: who has the
public file open (`Place`), that a pid is known only after its process has written it there
(`Pids`), and that the semaphore is up at most as often as children have released the
server (`Semaphore`); the types follow. The others (`Order`) hold of a client that connected
in order, whatever the disorderly ones do at the same time. Until it has read its path
it has the public file, the server and every child in the handshake for itself (`Connects`:
whoever opens the file in between makes both of them disorderly). Afterwards nobody else
has the pid of its child or its own (`Private`, `Unknown`). The delicate point is that the
public file still holds the path of that child; it is harmless because, until somebody
writes over it, nobody is about to read it and the server is not told to (`Stale`). So only
the child wakes the client, once for each command it has read and after the answer is in
the file (`Line`), which makes `Take` a `Take` of the service. A lost signal leaves someone
waiting, and disturbs nothing else.

**Only model-checked:**

* liveness under fairness (`Answered`, `Connects`, `AcceptsAgain`, `ExitHeard`, `Connected`,
  `ChildrenEnd`, `MutexReturns`, `RequestsEnd`): it needs ENABLED, which the prover does not
  handle;
* the parser: what `parse_command` computes for a line of any length needs induction over
  the line, and its definitions are recursive.

## 5. Not modelled

* `ipc/filesig.c`: no target builds it, and it does not compile.
* `server/sqlite3/sqlite3.h` but for the functions `database.c` calls. The header is
  vendored, and has 7860 of the 10770 lines of C in the repository; of the program's own
  lines nearly all are mapped.
* More than 254 children of a shared memory server, where `ftok` wraps and keys collide.
* A shared memory, file or FIFO server that is started again on what an earlier run has
  left behind. (For message queues and sockets this is modelled.)
* `fork` failing; SIGINT inside a library call, or a second one inside the handler; mutex
  files of another user.
* The departure that `mktime` computes of a date (`tm_isdst` is not initialised, so it may be an
  hour off), and everything that is only printed.

## 6. Plan

Every safety property of the database, of the local client and of the five transports
that a run checks is proved. What is left is outside the prover's reach (section 4) or not
modelled (section 5): first a file or FIFO server that starts again among the files of an
earlier run, where stale pids and paths would have to be told from new ones.

--------------------------- MODULE DatabaseProofs ---------------------------
(***************************************************************************)
(* The safety properties of Database.tla for any number of processes, any  *)
(* airports, filters and bounds.                                           *)
(***************************************************************************)
EXTENDS Database, FiniteSetTheorems, TLAPS

WriteOps == {"OP_PURCHASE", "OP_CANCEL", "OP_ADDFLIGHT", "CREATE"}

-----------------------------------------------------------------------------
(* The inductive invariant.                                                *)

\* SQLite's locks exclude each other.
LockInv ==
    \A c, d \in Conn : c # d =>
        /\ ~(Writer(c) /\ Writer(d))
        /\ lock[c] = "exclusive" => lock[d] = "none"

\* The request and the lock a process has at each label.
Flow(c) ==
    /\ pc[c] \in {"down", "failed", "open"} => lock[c] = "none" /\ ~intx[c]
    /\ pc[c] \in {"exists", "rows", "reserve"} => lock[c] # "none"
    /\ pc[c] = "recover" => lock[c] = "shared"
    /\ pc[c] \in {"idle", "share", "exists", "rows", "reserve"} =>
          lock[c] # "exclusive" /\ (intx[c] \/ lock[c] \in {"none", "shared"})
    /\ pc[c] = "commit" => lock[c] \in {"reserved", "pending"}
    /\ pc[c] \in {"write", "rollback"} => lock[c] = "exclusive"
    /\ pc[c] \in {"down", "failed", "idle"} => req[c] = NoRequest
    /\ pc[c] = "open" => req[c].op \in {"none", "CREATE"}
    /\ pc[c] \in {"share", "recover", "rollback"} => req[c].op # "none"
    /\ pc[c] = "exists" => req[c].op = "OP_PURCHASE"
    /\ pc[c] = "rows" => req[c].op = "OP_CONSULT"
    /\ pc[c] \in {"reserve", "commit", "write"} => req[c].op \in WriteOps
    /\ req[c].op = "CREATE" => ~intx[c]
    /\ pc[c] \in {"commit", "write"} /\ intx[c] => req[c].op = "OP_PURCHASE"
    /\ lock[c] \in {"none", "shared"} => work[c] = Empty
FlowInv == \A c \in Conn : Flow(c)

\* Every ticket of s is for a flight of s.
Sound(s) == \A t \in s.ticket : t.flightid \in FlightIds(s)

\* The contents t follow from the contents s: nothing is lost but tickets in
\* gone, and what is new has a new number.
Follows(s, t, gone) ==
    /\ s.flight \subseteq t.flight
    /\ TicketIds(s) \subseteq TicketIds(t) \cup gone
    /\ s.flightSeq <= t.flightSeq
    /\ s.ticketSeq <= t.ticketSeq
    /\ \A row \in t.flight \ s.flight : row.id > s.flightSeq
    /\ \A row \in t.ticket \ s.ticket : row.resid > s.ticketSeq

\* What c has made of the file, what it has found in it, what it has told.
Draft(c) ==
    /\ Writer(c) => Sound(work[c]) /\ Follows(db, work[c], cancelled)
    /\ pc[c] = "rollback" => work[c] = db
Seen(c) ==
    /\ pc[c] = "reserve" /\ req[c].op = "OP_PURCHASE" =>
          req[c].flight \in FlightIds(View(c))
    /\ pc[c] \in {"commit", "write"} /\ req[c].op = "OP_PURCHASE" =>
          work[c].ticketSeq \in TicketIds(work[c])
    /\ pc[c] \in {"commit", "write"} /\ req[c].op = "OP_ADDFLIGHT" =>
          work[c].flightSeq \in FlightIds(work[c])
Stands(c) ==
    Alive(c) => /\ shown[c] \subseteq FlightIds(View(c))
                /\ sold[c] \subseteq TicketIds(View(c)) \cup cancelled

StateInv == TypeOK /\ LockInv /\ FlowInv
ContentInv == Sound(db) /\ \A c \in Conn : Draft(c) /\ Seen(c) /\ Stands(c)
IInv == StateInv /\ ContentInv

-----------------------------------------------------------------------------
(* Lemmas about the statements.                                            *)

\* The fields of a request, by its opcode.
LEMMA RequestFields ==
    ASSUME NEW r \in Request
    PROVE  /\ r.op = "OP_PURCHASE" => r.flight \in Nat
           /\ r.op = "OP_CANCEL" => r.seat \in Nat
           /\ r.op = "OP_ADDFLIGHT" => r.origin \in Nat /\ r.destination \in Nat
           /\ r.op = "CREATE" => r.table \in {"ticket", "flight"}
           /\ r.op \in WriteOps \cup {"OP_CONSULT", "none"}
           /\ r.op = "none" => r = NoRequest
BY DEF Request, NoRequest, WriteOps

\* What may be received is a request, and none is a CREATE TABLE.
LEMMA RequestsType ==
    ASSUME NEW r \in Requests
    PROVE  r \in Request /\ r.op \notin {"CREATE", "none"}
<1>1. ASSUME NEW f \in 1..(MaxFlight + 1), r = [op |-> "OP_PURCHASE", flight |-> f]
      PROVE  r \in Request /\ r.op \notin {"CREATE", "none"}
  <2>1. f \in Nat BY BoundAssumption
  <2>2. QED BY <1>1, <2>1 DEF Request
<1>2. ASSUME NEW p \in Airport \X Airport,
             r = [op |-> "OP_ADDFLIGHT", origin |-> p[1], destination |-> p[2]]
      PROVE  r \in Request /\ r.op \notin {"CREATE", "none"}
  <2>1. p[1] \in Nat /\ p[2] \in Nat BY AirportAssumption
  <2>2. QED BY <1>2, <2>1 DEF Request
<1>3. ASSUME NEW n \in 1..MaxTicket, r = [op |-> "OP_CANCEL", seat |-> n]
      PROVE  r \in Request /\ r.op \notin {"CREATE", "none"}
  <2>1. n \in Nat BY BoundAssumption
  <2>2. QED BY <1>3, <2>1 DEF Request
<1>4. ASSUME NEW p \in Filters,
             r = [op |-> "OP_CONSULT", origin |-> p[1], destination |-> p[2]]
      PROVE  r \in Request /\ r.op \notin {"CREATE", "none"}
  <2>1. p[1] \in Int /\ p[2] \in Int BY AirportAssumption
  <2>2. QED BY <1>4, <2>1 DEF Request
<1>5. \/ \E f \in 1..(MaxFlight + 1) : r = [op |-> "OP_PURCHASE", flight |-> f]
      \/ \E p \in Airport \X Airport :
             r = [op |-> "OP_ADDFLIGHT", origin |-> p[1], destination |-> p[2]]
      \/ \E n \in 1..MaxTicket : r = [op |-> "OP_CANCEL", seat |-> n]
      \/ \E p \in Filters :
             r = [op |-> "OP_CONSULT", origin |-> p[1], destination |-> p[2]]
  BY Zenon DEF Requests
<1>6. QED BY <1>1, <1>2, <1>3, <1>4, <1>5, Zenon

\* The contents of a new file are contents.
LEMMA EmptyType == Empty \in Contents /\ Created \in Contents
BY DEF Empty, Created, Contents

\* A writing statement leads from contents to contents.
LEMMA ApplyType ==
    ASSUME NEW s \in Contents, NEW r \in Request, r.op \in WriteOps
    PROVE  Apply(s, r) \in Contents
<1>1. CASE r.op = "OP_PURCHASE"
  <2> DEFINE new == [resid |-> s.ticketSeq + 1, flightid |-> r.flight]
  <2>1. new \in TicketRow /\ s.ticketSeq + 1 \in Nat
    BY <1>1, RequestFields DEF Contents, TicketRow
  <2>2. s.ticket \cup {new} \in SUBSET TicketRow BY <2>1 DEF Contents
  <2>3. Apply(s, r) = [s EXCEPT !.ticketSeq = s.ticketSeq + 1,
                                !.ticket = s.ticket \cup {new}]
    BY <1>1 DEF Apply, add_ticket, Contents
  <2> HIDE DEF new
  <2>4. QED BY <2>1, <2>2, <2>3 DEF Contents
<1>2. CASE r.op = "OP_CANCEL"
  BY <1>2, RequestFields DEF Apply, remove_ticket, Contents, TicketRow
<1>3. CASE r.op = "OP_ADDFLIGHT"
  <2> DEFINE new == [id |-> s.flightSeq + 1, origin |-> r.origin,
                     destination |-> r.destination]
  <2>1. new \in FlightRow /\ s.flightSeq + 1 \in Nat
    BY <1>3, RequestFields DEF Contents, FlightRow
  <2>2. s.flight \cup {new} \in SUBSET FlightRow BY <2>1 DEF Contents
  <2>3. Apply(s, r) = [s EXCEPT !.flightSeq = s.flightSeq + 1,
                                !.flight = s.flight \cup {new}]
    BY <1>3 DEF Apply, db_add_flight, Contents
  <2> HIDE DEF new
  <2>4. QED BY <2>1, <2>2, <2>3 DEF Contents
<1>4. CASE r.op = "CREATE"
  BY <1>4, RequestFields DEF Apply, db_create, Contents
<1>5. QED BY <1>1, <1>2, <1>3, <1>4 DEF WriteOps

\* An answer names flights, seats and tickets by their numbers.
LEMMA ReplyType ==
    ASSUME NEW s \in Contents, NEW r \in Request, r.op \in WriteOps \ {"CREATE"}
    PROVE  /\ Reply(s, r).flights \in SUBSET Nat
           /\ Reply(s, r).seats \in SUBSET Nat
           /\ Reply(s, r).refunds \in SUBSET Nat
BY RequestFields DEF Reply, Tell, Contents, WriteOps

\* A process between two datagrams.
LEMMA NoRequestType == NoRequest \in Request /\ NoRequest.op = "none"
BY DEF Request, NoRequest

\* Whatever lock another connection holds, a writer is alone.
LEMMA LockAlone ==
    ASSUME LockInv, TypeOK, NEW c \in Conn
    PROVE  /\ CanReserve(lock, c) <=> \A d \in Conn \ {c} : ~Writer(d)
           /\ CanExclude(lock, c) <=> \A d \in Conn \ {c} : lock[d] = "none"
           /\ Writer(c) => CanReserve(lock, c)
<1>1. DOMAIN lock = Conn BY DEF TypeOK
<1>2. CanReserve(lock, c) <=> \A d \in Conn \ {c} : ~Writer(d)
  BY <1>1, Zenon DEF CanReserve, Writer
<1>3. CanExclude(lock, c) <=> \A d \in Conn \ {c} : lock[d] = "none"
  BY <1>1, Zenon DEF CanExclude
<1>4. Writer(c) => \A d \in Conn \ {c} : ~Writer(d) BY DEF LockInv
<1>5. QED BY <1>2, <1>3, <1>4, Zenon

-----------------------------------------------------------------------------
(* The control state: types, locks, labels.                                *)

\* Types, locks and flow of the initial states.
LEMMA InitState == Init => StateInv
<1> SUFFICES ASSUME Init PROVE StateInv
  OBVIOUS
<1> USE DEF Init
<1>1. TypeOK
  <2>1. fileExists \in BOOLEAN /\ hot \in BOOLEAN /\ intx \in [Conn -> BOOLEAN]
    BY Zenon
  <2>2. QED BY <2>1, EmptyType, NoRequestType DEF TypeOK, Locks, Labels
<1>2. LockInv BY DEF LockInv, Writer, WriteLocks
<1>3. FlowInv BY NoRequestType DEF FlowInv, Flow
<1>4. QED BY <1>1, <1>2, <1>3 DEF StateInv

\* A process that ends leaves the others alone.
LEMMA LeaveState ==
    ASSUME StateInv, NEW c \in Conn, NEW label \in {"down", "failed"}, Leave(c, label)
    PROVE  StateInv'
<1> USE DEF Leave, GoTo, SetLock, SetWork, histVars, toldVars
<1>1. TypeOK'
  <2>1. hot' \in BOOLEAN BY Zenon DEF StateInv, TypeOK
  <2>2. QED BY <2>1, EmptyType, NoRequestType DEF StateInv, TypeOK, Locks, Labels
<1>2. LockInv'
  BY DEF StateInv, TypeOK, LockInv, Writer, WriteLocks
<1>3. FlowInv'
  BY NoRequestType DEF StateInv, TypeOK, FlowInv, Flow
<1>4. QED BY <1>1, <1>2, <1>3 DEF StateInv

\* What a process sees are contents.
LEMMA ViewType ==
    ASSUME TypeOK, NEW c \in Conn
    PROVE  /\ View(c) \in Contents
           /\ FlightIds(View(c)) \in SUBSET Nat
           /\ TicketIds(View(c)) \in SUBSET Nat
<1>1. View(c) \in Contents BY DEF TypeOK, View
<1>2. QED BY <1>1 DEF FlightIds, TicketIds, Contents, FlightRow, TicketRow

\* An answer changes what the client was told, and the label.
LEMMA AnswerType ==
    ASSUME TypeOK, NEW c \in Conn, NEW a, AnswerWith(c, a),
           a.flights \in SUBSET Nat, a.seats \ {NoSeat} \in SUBSET Nat,
           a.refunds \in SUBSET Nat
    PROVE  /\ pc' \in [Conn -> Labels]
           /\ req' \in [Conn -> Request]
           /\ shown' \in [Conn -> SUBSET Nat]
           /\ sold' \in [Conn -> SUBSET Nat]
           /\ refunded' \in [Conn -> SUBSET Nat]
<1> USE DEF AnswerWith, GoTo
<1>1. pc' \in [Conn -> Labels] /\ req' \in [Conn -> Request]
  BY NoRequestType DEF TypeOK, Labels
<1>2. shown' \in [Conn -> SUBSET Nat] BY DEF TypeOK
<1>3. sold' \in [Conn -> SUBSET Nat] BY DEF TypeOK
<1>4. refunded' \in [Conn -> SUBSET Nat]
  <2> DEFINE more == a.refunds \cap (cancelled \cup TicketIds(View(c)))
  <2>1. more \in SUBSET Nat BY ViewType
  <2>2. refunded' = [refunded EXCEPT ![c] = @ \cup more] OBVIOUS
  <2> HIDE DEF more
  <2>3. QED BY <2>1, <2>2 DEF TypeOK
<1>5. QED BY <1>1, <1>2, <1>3, <1>4

\* Every step of a process keeps types, locks and labels in order.
LEMMA NextState == StateInv /\ [Next]_vars => StateInv'
<1> SUFFICES ASSUME StateInv, [Next]_vars PROVE StateInv'
  OBVIOUS
<1> USE DEF GoTo, SetLock, SetWork
<1>0. CASE UNCHANGED vars
  BY <1>0 DEF vars, fileVars, connVars, procVars, histVars, toldVars, StateInv,
     TypeOK, LockInv, FlowInv, Flow, Writer
<1>1. ASSUME NEW c \in Conn, FileExist(c) PROVE StateInv'
  <2> USE <1>1 DEF FileExist, fileVars, connVars
  <2>1. [op |-> "CREATE", table |-> "ticket"] \in Request BY DEF Request
  <2>2. TypeOK' BY <2>1, NoRequestType DEF StateInv, TypeOK, Labels
  <2>3. LockInv' BY DEF StateInv, LockInv, Writer
  <2>4. FlowInv' BY NoRequestType DEF StateInv, TypeOK, FlowInv, Flow
  <2>5. QED BY <2>2, <2>3, <2>4 DEF StateInv
<1>2. ASSUME NEW c \in Conn, Open(c) PROVE StateInv'
  <2> USE <1>2 DEF Open, connVars, histVars, toldVars
  <2>1. TypeOK' BY DEF StateInv, TypeOK, Labels
  <2>2. LockInv' BY DEF StateInv, LockInv, Writer
  <2>3. FlowInv' BY NoRequestType, RequestFields DEF StateInv, TypeOK, FlowInv, Flow
  <2>4. QED BY <2>1, <2>2, <2>3 DEF StateInv
<1>3. ASSUME NEW c \in Conn, NEW r \in Requests, Receive(c, r) PROVE StateInv'
  <2> USE <1>3 DEF Receive, fileVars, histVars, toldVars
  <2>1. r \in Request /\ r.op \notin {"CREATE", "none"} BY RequestsType
  <2>2. (intx[c] \/ r.op = "OP_PURCHASE") \in BOOLEAN BY Zenon DEF StateInv, TypeOK
  <2>3. TypeOK' BY <2>1, <2>2 DEF StateInv, TypeOK, Labels
  <2>4. LockInv' BY DEF StateInv, LockInv, Writer
  <2>5. FlowInv' BY <2>1 DEF StateInv, TypeOK, FlowInv, Flow
  <2>6. QED BY <2>3, <2>4, <2>5 DEF StateInv
<1>4. ASSUME NEW c \in Conn, Share(c) PROVE StateInv'
  <2> USE <1>4 DEF Share, fileVars, histVars, toldVars
  <2>1. TypeOK' BY DEF StateInv, TypeOK, Labels, Locks, AfterShare
  <2>2. LockInv' BY DEF StateInv, TypeOK, LockInv, Writer, WriteLocks, CanShare
  <2>3. FlowInv' BY RequestFields DEF StateInv, TypeOK, FlowInv, Flow, AfterShare, WriteOps
  <2>4. QED BY <2>1, <2>2, <2>3 DEF StateInv
<1>5. ASSUME NEW c \in Conn, Recover(c) PROVE StateInv'
  <2> USE <1>5 DEF Recover, fileVars, histVars, toldVars
  <2>1. TypeOK' BY DEF StateInv, TypeOK, Labels, Locks
  <2>2. LockInv' BY LockAlone DEF StateInv, TypeOK, LockInv, Writer, WriteLocks
  <2>3. FlowInv' BY DEF StateInv, TypeOK, FlowInv, Flow
  <2>4. QED BY <2>1, <2>2, <2>3 DEF StateInv
<1>6. ASSUME NEW c \in Conn, Recovered(c) PROVE StateInv'
  <2> USE <1>6 DEF Recovered, histVars, toldVars
  <2>1. TypeOK' BY EmptyType DEF StateInv, TypeOK, Labels, Locks, AfterShare
  <2>2. LockInv' BY DEF StateInv, TypeOK, LockInv, Writer, WriteLocks, FlowInv, Flow
  <2>3. FlowInv' BY RequestFields DEF StateInv, TypeOK, FlowInv, Flow, AfterShare, WriteOps
  <2>4. QED BY <2>1, <2>2, <2>3 DEF StateInv
<1>7. ASSUME NEW c \in Conn, \/ ShareBusy(c) \/ RecoverBusy(c) \/ NoTable(c) \/ ReserveBusy(c)
                             \/ CommitBusy(c) \/ Quit(c) \/ Interrupt(c)
      PROVE  StateInv'
  BY <1>7, LeaveState DEF ShareBusy, RecoverBusy, NoTable, ReserveBusy, CommitBusy, Quit, Interrupt, Fail
<1>8. ASSUME NEW c \in Conn, FlightFound(c) PROVE StateInv'
  <2> USE <1>8 DEF FlightFound, fileVars, connVars, histVars, toldVars
  <2>1. TypeOK' BY DEF StateInv, TypeOK, Labels
  <2>2. LockInv' BY DEF StateInv, LockInv, Writer
  <2>3. FlowInv' BY DEF StateInv, TypeOK, FlowInv, Flow, WriteOps
  <2>4. QED BY <2>1, <2>2, <2>3 DEF StateInv
<1>9. ASSUME NEW c \in Conn, FlightMissing(c) PROVE StateInv'
  <2> USE <1>9 DEF FlightMissing, fileVars, connVars
  <2>1. TypeOK'
    <3>1. {NoSeat} \ {NoSeat} \in SUBSET Nat OBVIOUS
    <3>2. QED BY <3>1, AnswerType DEF StateInv, TypeOK, Tell
  <2>2. LockInv' BY DEF StateInv, LockInv, Writer
  <2>3. FlowInv' BY NoRequestType DEF AnswerWith, StateInv, TypeOK, FlowInv, Flow
  <2>4. QED BY <2>1, <2>2, <2>3 DEF StateInv
<1>10. ASSUME NEW c \in Conn, Consult(c) PROVE StateInv'
  <2> USE <1>10 DEF Consult, fileVars
  <2> DEFINE ids == {row.id : row \in db_consult_flights(View(c), req[c].origin,
                                                         req[c].destination)}
  <2>1. TypeOK'
    <3>1. ids \in SUBSET Nat
      BY ViewType DEF StateInv, db_consult_flights, FlightIds
    <3>2. AnswerWith(c, Tell(ids, {}, {})) OBVIOUS
    <3> HIDE DEF ids
    <3>3. QED BY <3>1, <3>2, AnswerType DEF StateInv, TypeOK, Tell, Locks
  <2>2. LockInv' BY DEF StateInv, TypeOK, LockInv, Writer, WriteLocks
  <2>3. FlowInv' BY NoRequestType DEF AnswerWith, StateInv, TypeOK, FlowInv, Flow
  <2>4. QED BY <2>1, <2>2, <2>3 DEF StateInv
<1>11. ASSUME NEW c \in Conn, Reserve(c) PROVE StateInv'
  <2> DEFINE s == Apply(View(c), req[c])
  <2> USE <1>11 DEF Reserve, fileVars
  <2>1. View(c) \in Contents /\ req[c] \in Request /\ req[c].op \in WriteOps
    BY ViewType DEF StateInv, TypeOK, FlowInv, Flow
  <2>2. s \in Contents BY <2>1, ApplyType
  <2>3. hot' \in BOOLEAN /\ cancelled' \in SUBSET Nat
    <3>1. hot' \in BOOLEAN BY Zenon DEF StateInv, TypeOK
    <3>2. cancelled' \in SUBSET Nat BY ViewType DEF StateInv, TypeOK
    <3>3. QED BY <3>1, <3>2
  <2>4. lock' \in [Conn -> Locks] /\ work' \in [Conn -> Contents]
    <3>1. work' = [work EXCEPT ![c] = s] OBVIOUS
    <3> HIDE DEF s
    <3>2. QED BY <2>2, <3>1 DEF StateInv, TypeOK, Locks
  <2>5. LockInv'
    BY LockAlone DEF StateInv, TypeOK, LockInv, Writer, WriteLocks, FlowInv, Flow
  <2>6. CASE intx[c] /\ req[c].op # "OP_PURCHASE"
    <3>1. AnswerWith(c, Reply(s, req[c])) BY <2>6
    <3>2. req[c].op # "CREATE" BY <2>6 DEF StateInv, FlowInv, Flow
    <3>3. /\ Reply(s, req[c]).flights \in SUBSET Nat
          /\ Reply(s, req[c]).seats \ {NoSeat} \in SUBSET Nat
          /\ Reply(s, req[c]).refunds \in SUBSET Nat
      BY <2>1, <2>2, <3>2, ReplyType
    <3> HIDE DEF s
    <3>4. TypeOK' BY <2>3, <2>4, <3>1, <3>3, AnswerType DEF StateInv, TypeOK
    <3>5. FlowInv'
      BY <3>1, <2>6, NoRequestType DEF AnswerWith, StateInv, TypeOK, FlowInv, Flow, Writer, WriteLocks
    <3>6. QED BY <3>4, <2>5, <3>5 DEF StateInv
  <2>7. CASE ~(intx[c] /\ req[c].op # "OP_PURCHASE")
    <3>1. pc' = [pc EXCEPT ![c] = "commit"] /\ UNCHANGED <<req, shown, sold, refunded>>
      BY <2>7 DEF toldVars
    <3> HIDE DEF s
    <3>2. TypeOK' BY <2>3, <2>4, <3>1 DEF StateInv, TypeOK, Labels
    <3>3. FlowInv'
      BY <2>1, <3>1, <2>7 DEF StateInv, TypeOK, FlowInv, Flow, Writer, WriteLocks, Locks
    <3>4. QED BY <3>2, <2>5, <3>3 DEF StateInv
  <2>8. QED BY <2>6, <2>7
<1>12. ASSUME NEW c \in Conn, CommitNothing(c) PROVE StateInv'
  <2> USE <1>12 DEF CommitNothing, fileVars
  <2>1. TypeOK'
    <3>1. /\ Reply(db, req[c]).flights \in SUBSET Nat
          /\ Reply(db, req[c]).seats \ {NoSeat} \in SUBSET Nat
          /\ Reply(db, req[c]).refunds \in SUBSET Nat
      BY ReplyType DEF StateInv, TypeOK, WriteOps
    <3>2. QED BY <3>1, EmptyType, AnswerType DEF StateInv, TypeOK, Locks
  <2>2. LockInv' BY DEF StateInv, TypeOK, LockInv, Writer, WriteLocks
  <2>3. FlowInv' BY NoRequestType DEF AnswerWith, StateInv, TypeOK, FlowInv, Flow
  <2>4. QED BY <2>1, <2>2, <2>3 DEF StateInv
<1>13. ASSUME NEW c \in Conn, Exclude(c) PROVE StateInv'
  <2> USE <1>13 DEF Exclude, fileVars, histVars, toldVars
  <2>1. TypeOK' BY DEF StateInv, TypeOK, Labels, Locks
  <2>2. LockInv' BY LockAlone DEF StateInv, TypeOK, LockInv, Writer, WriteLocks
  <2>3. FlowInv' BY DEF StateInv, TypeOK, FlowInv, Flow
  <2>4. QED BY <2>1, <2>2, <2>3 DEF StateInv
<1>14. ASSUME NEW c \in Conn, EndBusy(c) PROVE StateInv'
  <2> USE <1>14 DEF EndBusy, fileVars
  <2>1. TypeOK'
    <3>1. req[c].op \in WriteOps \ {"CREATE"} BY DEF StateInv, FlowInv, Flow, WriteOps
    <3>2. /\ Reply(work[c], req[c]).flights \in SUBSET Nat
          /\ Reply(work[c], req[c]).seats \ {NoSeat} \in SUBSET Nat
          /\ Reply(work[c], req[c]).refunds \in SUBSET Nat
      BY <3>1, ReplyType DEF StateInv, TypeOK
    <3>3. QED BY <3>2, AnswerType DEF StateInv, TypeOK, Locks
  <2>2. LockInv'
    BY LockAlone DEF StateInv, TypeOK, LockInv, Writer, WriteLocks, FlowInv, Flow
  <2>3. FlowInv' BY NoRequestType DEF AnswerWith, StateInv, TypeOK, FlowInv, Flow
  <2>4. QED BY <2>1, <2>2, <2>3 DEF StateInv
<1>15. ASSUME NEW c \in Conn, Write(c) PROVE StateInv'
  <2> USE <1>15 DEF Write
  <2>1. db' \in Contents /\ lock' \in [Conn -> Locks] /\ work' \in [Conn -> Contents]
    BY EmptyType DEF StateInv, TypeOK, Locks
  <2>2. LockInv' BY DEF StateInv, TypeOK, LockInv, Writer, WriteLocks
  <2>3. CASE req[c].op # "CREATE"
    <3>1. /\ Reply(work[c], req[c]).flights \in SUBSET Nat
          /\ Reply(work[c], req[c]).seats \ {NoSeat} \in SUBSET Nat
          /\ Reply(work[c], req[c]).refunds \in SUBSET Nat
      BY <2>3, ReplyType DEF StateInv, TypeOK, FlowInv, Flow
    <3>2. AnswerWith(c, Reply(work[c], req[c])) BY <2>3
    <3>3. TypeOK' BY <2>1, <3>1, <3>2, AnswerType DEF StateInv, TypeOK
    <3>4. FlowInv' BY <3>2, NoRequestType DEF AnswerWith, StateInv, TypeOK, FlowInv, Flow
    <3>5. QED BY <3>3, <2>2, <3>4 DEF StateInv
  <2>4. CASE req[c].op = "CREATE"
    <3> DEFINE r == [req[c] EXCEPT !.table = "flight"]
    <3>1. r \in Request /\ r.op = "CREATE" BY <2>4 DEF StateInv, TypeOK, Request, NoRequest
    <3>2. /\ req' = [req EXCEPT ![c] = IF req[c].table = "flight" THEN NoRequest ELSE r]
          /\ pc' = [pc EXCEPT ![c] = IF req[c].table = "flight" THEN "idle" ELSE "share"]
          /\ UNCHANGED <<shown, sold, refunded>>
      BY <2>4 DEF StateInv, TypeOK, toldVars
    <3> HIDE DEF r
    <3>3. TypeOK' BY <2>1, <3>1, <3>2, NoRequestType DEF StateInv, TypeOK, Labels
    <3>4. FlowInv' BY <3>1, <3>2, NoRequestType DEF StateInv, TypeOK, FlowInv, Flow
    <3>5. QED BY <3>3, <2>2, <3>4 DEF StateInv
  <2>5. QED BY <2>3, <2>4
<1>16. QED
  BY <1>0, <1>1, <1>2, <1>3, <1>4, <1>5, <1>6, <1>7, <1>8, <1>9, <1>10, <1>11,
     <1>12, <1>13, <1>14, <1>15 DEF Next, Work

-----------------------------------------------------------------------------
(* The contents: what a statement does to flights, tickets and numbers.    *)

\* What each statement does to each table and counter.
LEMMA ApplyFields ==
    ASSUME NEW s \in Contents, NEW r \in Request, r.op \in WriteOps
    PROVE  /\ r.op = "OP_PURCHASE" =>
                /\ Apply(s, r).ticket = s.ticket \cup
                      {[resid |-> s.ticketSeq + 1, flightid |-> r.flight]}
                /\ Apply(s, r).ticketSeq = s.ticketSeq + 1
                /\ Apply(s, r).flight = s.flight
                /\ Apply(s, r).flightSeq = s.flightSeq
           /\ r.op = "OP_CANCEL" =>
                /\ Apply(s, r).ticket = {row \in s.ticket : row.resid # r.seat}
                /\ Apply(s, r).ticketSeq = s.ticketSeq
                /\ Apply(s, r).flight = s.flight
                /\ Apply(s, r).flightSeq = s.flightSeq
           /\ r.op = "OP_ADDFLIGHT" =>
                /\ Apply(s, r).flight = s.flight \cup
                      {[id |-> s.flightSeq + 1, origin |-> r.origin,
                        destination |-> r.destination]}
                /\ Apply(s, r).flightSeq = s.flightSeq + 1
                /\ Apply(s, r).ticket = s.ticket
                /\ Apply(s, r).ticketSeq = s.ticketSeq
           /\ r.op = "CREATE" =>
                /\ Apply(s, r).flight = s.flight
                /\ Apply(s, r).flightSeq = s.flightSeq
                /\ Apply(s, r).ticket = s.ticket
                /\ Apply(s, r).ticketSeq = s.ticketSeq
<1>1. CASE r.op = "OP_PURCHASE"
  <2> DEFINE rows == s.ticket \cup {[resid |-> s.ticketSeq + 1, flightid |-> r.flight]}
             n == s.ticketSeq + 1
  <2>1. Apply(s, r) = [s EXCEPT !.ticketSeq = n, !.ticket = rows]
    BY <1>1 DEF Apply, add_ticket, Contents
  <2> HIDE DEF rows, n
  <2>2. /\ Apply(s, r).ticket = rows /\ Apply(s, r).ticketSeq = n
        /\ Apply(s, r).flight = s.flight /\ Apply(s, r).flightSeq = s.flightSeq
    BY <2>1 DEF Contents
  <2>3. QED BY <1>1, <2>2 DEF rows, n
<1>2. CASE r.op = "OP_CANCEL" BY <1>2 DEF Apply, remove_ticket, Contents
<1>3. CASE r.op = "OP_ADDFLIGHT"
  <2> DEFINE rows == s.flight \cup {[id |-> s.flightSeq + 1, origin |-> r.origin,
                                     destination |-> r.destination]}
             n == s.flightSeq + 1
  <2>1. Apply(s, r) = [s EXCEPT !.flightSeq = n, !.flight = rows]
    BY <1>3 DEF Apply, db_add_flight, Contents
  <2> HIDE DEF rows, n
  <2>2. /\ Apply(s, r).flight = rows /\ Apply(s, r).flightSeq = n
        /\ Apply(s, r).ticket = s.ticket /\ Apply(s, r).ticketSeq = s.ticketSeq
    BY <2>1 DEF Contents
  <2>3. QED BY <1>3, <2>2 DEF rows, n
<1>4. CASE r.op = "CREATE" BY <1>4 DEF Apply, db_create, Contents
<1>5. QED BY <1>1, <1>2, <1>3, <1>4 DEF WriteOps

\* The number a statement has given out is in the contents it leads to.
LEMMA ApplyNumbers ==
    ASSUME NEW s \in Contents, NEW r \in Request, r.op \in WriteOps
    PROVE  /\ r.op = "OP_PURCHASE" => Apply(s, r).ticketSeq \in TicketIds(Apply(s, r))
           /\ r.op = "OP_ADDFLIGHT" => Apply(s, r).flightSeq \in FlightIds(Apply(s, r))
<1>1. CASE r.op = "OP_PURCHASE"
  <2> DEFINE new == [resid |-> s.ticketSeq + 1, flightid |-> r.flight]
  <2>1. new \in Apply(s, r).ticket /\ new.resid = Apply(s, r).ticketSeq
    BY <1>1, ApplyFields
  <2>2. QED BY <1>1, <2>1 DEF TicketIds
<1>2. CASE r.op = "OP_ADDFLIGHT"
  <2> DEFINE new == [id |-> s.flightSeq + 1, origin |-> r.origin,
                     destination |-> r.destination]
  <2>1. new \in Apply(s, r).flight /\ new.id = Apply(s, r).flightSeq
    BY <1>2, ApplyFields
  <2>2. QED BY <1>2, <2>1 DEF FlightIds
<1>3. QED BY <1>1, <1>2

\* A purchase of a flight that is there keeps every ticket on a flight.
LEMMA ApplySound ==
    ASSUME NEW s \in Contents, NEW r \in Request, r.op \in WriteOps, Sound(s),
           r.op = "OP_PURCHASE" => r.flight \in FlightIds(s)
    PROVE  Sound(Apply(s, r))
<1>1. CASE r.op = "OP_PURCHASE" BY <1>1, ApplyFields DEF Sound, FlightIds
<1>2. CASE r.op = "OP_CANCEL" BY <1>2, ApplyFields DEF Sound, FlightIds
<1>3. CASE r.op = "OP_ADDFLIGHT"
  <2>1. Apply(s, r).ticket = s.ticket /\ s.flight \subseteq Apply(s, r).flight
    BY <1>3, ApplyFields
  <2>2. QED BY <2>1 DEF Sound, FlightIds
<1>4. CASE r.op = "CREATE" BY <1>4, ApplyFields DEF Sound, FlightIds
<1>5. QED BY <1>1, <1>2, <1>3, <1>4 DEF WriteOps

\* Contents follow from themselves.
LEMMA FollowsItself ==
    ASSUME NEW s \in Contents, NEW gone PROVE Follows(s, s, gone)
BY DEF Follows, Contents

\* A statement adds to what has followed so far.
LEMMA ApplyFollows ==
    ASSUME NEW base \in Contents, NEW s \in Contents, NEW r \in Request,
           r.op \in WriteOps, NEW gone, NEW more, gone \subseteq more,
           r.op = "OP_CANCEL" => {r.seat} \cap TicketIds(s) \subseteq more,
           Follows(base, s, gone)
    PROVE  Follows(base, Apply(s, r), more)
<1> DEFINE t == Apply(s, r)
<1>1. /\ s.flight \subseteq t.flight
      /\ s.flightSeq <= t.flightSeq /\ s.ticketSeq <= t.ticketSeq
      /\ s.flightSeq \in Nat /\ s.ticketSeq \in Nat
      /\ t.flightSeq \in Nat /\ t.ticketSeq \in Nat
      /\ base.flightSeq \in Nat /\ base.ticketSeq \in Nat
  BY ApplyFields DEF WriteOps, Contents
<1>2. \A row \in t.flight \ s.flight : row.id > s.flightSeq
  BY ApplyFields DEF WriteOps, Contents
<1>3. \A row \in t.ticket \ s.ticket : row.resid > s.ticketSeq
  BY ApplyFields DEF WriteOps, Contents
<1>4. TicketIds(s) \subseteq TicketIds(t) \cup more
  <2>1. CASE r.op = "OP_CANCEL" BY <2>1, ApplyFields DEF TicketIds
  <2>2. CASE r.op # "OP_CANCEL"
    <3>1. s.ticket \subseteq t.ticket BY <2>2, ApplyFields DEF WriteOps
    <3>2. QED BY <3>1 DEF TicketIds
  <2>3. QED BY <2>1, <2>2
<1>5. s.flight \in SUBSET FlightRow /\ t.flight \in SUBSET FlightRow
      /\ s.ticket \in SUBSET TicketRow /\ t.ticket \in SUBSET TicketRow
  BY ApplyType DEF Contents
<1> HIDE DEF t
<1>6. base.flight \subseteq t.flight /\ TicketIds(base) \subseteq TicketIds(t) \cup more
  BY <1>1, <1>4 DEF Follows
<1>7. base.flightSeq <= t.flightSeq /\ base.ticketSeq <= t.ticketSeq
  BY <1>1 DEF Follows
<1>8. ASSUME NEW row \in t.flight \ base.flight PROVE row.id > base.flightSeq
  BY <1>1, <1>2, <1>5 DEF Follows, FlightRow
<1>9. ASSUME NEW row \in t.ticket \ base.ticket PROVE row.resid > base.ticketSeq
  BY <1>1, <1>3, <1>5 DEF Follows, TicketRow
<1>10. QED BY <1>6, <1>7, <1>8, <1>9 DEF Follows, t

-----------------------------------------------------------------------------
(* The contents along a behaviour.                                         *)

Mine(c) == Draft(c) /\ Seen(c) /\ Stands(c)

\* The contents of the initial states.
LEMMA InitContent == Init => ContentInv
<1> SUFFICES ASSUME Init PROVE ContentInv
  OBVIOUS
<1>1. Sound(db) BY DEF Init, Sound, Created, Empty
<1>2. ASSUME NEW c \in Conn PROVE Draft(c) /\ Seen(c) /\ Stands(c)
  BY DEF Init, Draft, Seen, Stands, Writer, WriteLocks, Alive
<1>3. QED BY <1>1, <1>2 DEF ContentInv

\* A step of c that leaves the file alone changes nothing for d.
LEMMA Bystander ==
    ASSUME NEW d, Mine(d), UNCHANGED db, cancelled \subseteq cancelled',
           UNCHANGED <<lock[d], work[d], pc[d], req[d], shown[d], sold[d]>>
    PROVE  Mine(d)'
<1>1. UNCHANGED Writer(d) /\ UNCHANGED View(d) /\ UNCHANGED Alive(d)
  BY DEF Writer, View, Alive
<1>2. Draft(d)'
  BY <1>1 DEF Mine, Draft, Follows
<1>3. Seen(d)' BY <1>1 DEF Mine, Seen
<1>4. Stands(d)' BY <1>1 DEF Mine, Stands
<1>5. QED BY <1>2, <1>3, <1>4 DEF Mine

\* A step of c that leaves the file alone: only c need be looked at.
LEMMA Alone ==
    ASSUME ContentInv, StateInv, NEW c \in Conn, UNCHANGED db, cancelled \subseteq cancelled',
           \A d \in Conn \ {c} :
              UNCHANGED <<lock[d], work[d], pc[d], req[d], shown[d], sold[d]>>,
           Mine(c)'
    PROVE  ContentInv'
<1>1. Sound(db)' BY DEF ContentInv, Sound, FlightIds
<1>2. ASSUME NEW d \in Conn \ {c} PROVE Mine(d)'
  BY <1>2, Bystander DEF ContentInv, Mine
<1>3. QED BY <1>1, <1>2 DEF ContentInv, Mine

\* A process that ends takes nothing from the others.
LEMMA LeaveContent ==
    ASSUME StateInv, ContentInv, NEW c \in Conn, NEW label \in {"down", "failed"}, Leave(c, label)
    PROVE  ContentInv'
<1> USE DEF Leave, GoTo, SetLock, SetWork, histVars, toldVars
<1>1. Mine(c)'
  BY DEF StateInv, TypeOK, Mine, Draft, Seen, Stands, Writer, WriteLocks, Alive
<1>2. \A d \in Conn \ {c} :
         UNCHANGED <<lock[d], work[d], pc[d], req[d], shown[d], sold[d]>>
  BY DEF StateInv, TypeOK
<1>3. QED BY <1>1, <1>2, Alone

\* The row count of 1 is a row.
LEMMA ExistsIsThere ==
    ASSUME NEW s, NEW id, db_flight_exists(s, id)
    PROVE  id \in FlightIds(s)
<1>1. Cardinality({row \in s.flight : row.id = id}) # 0 BY DEF db_flight_exists
<1>2. {row \in s.flight : row.id = id} # {} BY <1>1, FS_EmptySet
<1>3. QED BY <1>2 DEF FlightIds

\* Every step keeps the contents in order.
LEMMA NextContent == StateInv /\ ContentInv /\ [Next]_vars => ContentInv'
<1> SUFFICES ASSUME StateInv, ContentInv, [Next]_vars PROVE ContentInv'
  OBVIOUS
<1> DEFINE Same(d) == UNCHANGED <<lock[d], work[d], pc[d], req[d], shown[d], sold[d]>>
<1> USE DEF GoTo, SetLock, SetWork
<1>0. CASE UNCHANGED vars
  <2>1. UNCHANGED <<db, lock, work, pc, req, shown, sold, cancelled>>
    BY <1>0 DEF vars, fileVars, connVars, procVars, histVars, toldVars
  <2>2. ASSUME NEW d \in Conn PROVE Mine(d)'
    BY <2>1, Bystander DEF ContentInv, Mine
  <2>3. QED BY <2>1, <2>2 DEF ContentInv, Mine, Sound, FlightIds
<1>1. ASSUME NEW c \in Conn, FileExist(c) PROVE ContentInv'
  <2> USE <1>1 DEF FileExist, fileVars, connVars
  <2>1. Mine(c)'
    BY DEF StateInv, TypeOK, FlowInv, Flow, Mine, Draft, Seen, Stands, Writer, WriteLocks, Alive
  <2>2. \A d \in Conn \ {c} : Same(d) BY DEF StateInv, TypeOK
  <2>3. QED BY <2>1, <2>2, Alone
<1>2. ASSUME NEW c \in Conn, Open(c) PROVE ContentInv'
  <2> USE <1>2 DEF Open, connVars, histVars, toldVars
  <2>1. Mine(c)'
    <3>1. pc'[c] \in {"idle", "share"} BY DEF StateInv, TypeOK
    <3>2. UNCHANGED View(c) /\ Alive(c) BY DEF View, Writer, Alive
    <3>3. Draft(c)' /\ Seen(c)'
      BY <3>1 DEF StateInv, FlowInv, Flow, Draft, Seen, Writer, WriteLocks
    <3>4. Stands(c)' BY <3>1, <3>2 DEF ContentInv, Stands
    <3>5. QED BY <3>3, <3>4 DEF Mine
  <2>2. \A d \in Conn \ {c} : Same(d) BY DEF StateInv, TypeOK
  <2>3. QED BY <2>1, <2>2, Alone
<1>3. ASSUME NEW c \in Conn, NEW r \in Requests, Receive(c, r) PROVE ContentInv'
  <2> USE <1>3 DEF Receive, fileVars, histVars, toldVars
  <2>1. Mine(c)'
    <3>1. pc'[c] = "share" /\ pc[c] = "idle" BY DEF StateInv, TypeOK
    <3>2. UNCHANGED View(c) /\ UNCHANGED Writer(c) /\ Alive(c) BY DEF View, Writer, Alive
    <3>3. Draft(c)' /\ Seen(c)' BY <3>1, <3>2 DEF ContentInv, Draft, Seen, Follows
    <3>4. Stands(c)' BY <3>1, <3>2 DEF ContentInv, Stands
    <3>5. QED BY <3>3, <3>4 DEF Mine
  <2>2. \A d \in Conn \ {c} : Same(d) BY DEF StateInv, TypeOK
  <2>3. QED BY <2>1, <2>2, Alone
<1>4. ASSUME NEW c \in Conn, Share(c) PROVE ContentInv'
  <2> USE <1>4 DEF Share, fileVars, histVars, toldVars
  <2>1. Mine(c)'
    <3>1. /\ pc'[c] \in {"recover", "exists", "rows", "reserve"}
          /\ req[c].op = "OP_PURCHASE" => pc'[c] \in {"recover", "exists"}
      BY DEF StateInv, TypeOK, AfterShare
    <3>2. UNCHANGED Writer(c) BY DEF StateInv, TypeOK, Writer, WriteLocks
    <3>3. UNCHANGED View(c) /\ Alive(c) BY <3>2 DEF View, Alive
    <3>4. Draft(c)' /\ Seen(c)' BY <3>1, <3>2 DEF ContentInv, Draft, Seen, Follows
    <3>5. Stands(c)' BY <3>1, <3>3 DEF ContentInv, Stands
    <3>6. QED BY <3>4, <3>5 DEF Mine
  <2>2. \A d \in Conn \ {c} : Same(d) BY DEF StateInv, TypeOK
  <2>3. QED BY <2>1, <2>2, Alone
<1>5. ASSUME NEW c \in Conn, Recover(c) PROVE ContentInv'
  <2> USE <1>5 DEF Recover, fileVars, histVars, toldVars
  <2>1. Mine(c)'
    <3>1. /\ pc'[c] = "rollback" /\ work'[c] = db /\ lock'[c] = "exclusive"
          /\ lock[c] = "shared" /\ pc[c] = "recover"
      BY DEF StateInv, TypeOK, FlowInv, Flow
    <3>2. View(c) = db /\ View(c)' = db /\ Alive(c)
      BY <3>1 DEF View, Writer, WriteLocks, Alive
    <3>3. Follows(db, db, cancelled) BY FollowsItself DEF StateInv, TypeOK
    <3>4. Draft(c)' BY <3>1, <3>3 DEF Draft, ContentInv, Sound, FlightIds, Follows, TicketIds
    <3>5. Seen(c)' BY <3>1 DEF Seen
    <3>6. Stands(c)' BY <3>1, <3>2 DEF ContentInv, Stands
    <3>7. QED BY <3>4, <3>5, <3>6 DEF Mine
  <2>2. \A d \in Conn \ {c} : Same(d) BY DEF StateInv, TypeOK
  <2>3. QED BY <2>1, <2>2, Alone
<1>6. ASSUME NEW c \in Conn, Recovered(c) PROVE ContentInv'
  <2> USE <1>6 DEF Recovered, histVars, toldVars
  <2>1. Mine(c)'
    <3>1. /\ pc'[c] \in {"exists", "rows", "reserve"}
          /\ req[c].op = "OP_PURCHASE" => pc'[c] = "exists"
          /\ lock'[c] = "shared" /\ work[c] = db /\ pc[c] = "rollback"
      BY DEF StateInv, TypeOK, AfterShare, ContentInv, Draft
    <3>2. View(c) = db /\ View(c)' = db /\ Alive(c)
      BY <3>1 DEF View, Writer, WriteLocks, Alive
    <3>3. Draft(c)' BY <3>1 DEF Draft, Writer, WriteLocks
    <3>4. Seen(c)' BY <3>1 DEF Seen
    <3>5. Stands(c)' BY <3>1, <3>2 DEF ContentInv, Stands
    <3>6. QED BY <3>3, <3>4, <3>5 DEF Mine
  <2>2. \A d \in Conn \ {c} : Same(d) BY DEF StateInv, TypeOK
  <2>3. QED BY <2>1, <2>2, Alone
<1>7. ASSUME NEW c \in Conn, \/ ShareBusy(c) \/ RecoverBusy(c) \/ NoTable(c) \/ ReserveBusy(c)
                             \/ CommitBusy(c) \/ Quit(c) \/ Interrupt(c)
      PROVE  ContentInv'
  BY <1>7, LeaveContent DEF ShareBusy, RecoverBusy, NoTable, ReserveBusy, CommitBusy, Quit, Interrupt, Fail
<1>8. ASSUME NEW c \in Conn, FlightFound(c) PROVE ContentInv'
  <2> USE <1>8 DEF FlightFound, fileVars, connVars, histVars, toldVars
  <2>1. Mine(c)'
    <3>1. pc'[c] = "reserve" BY DEF StateInv, TypeOK
    <3>2. UNCHANGED Writer(c) /\ UNCHANGED View(c) /\ Alive(c) BY DEF View, Writer, Alive
    <3>3. Draft(c)' BY <3>1, <3>2 DEF ContentInv, Draft, Follows
    <3>4. Seen(c)' BY <3>1, <3>2, ExistsIsThere DEF Seen
    <3>5. Stands(c)' BY <3>1, <3>2 DEF ContentInv, Stands
    <3>6. QED BY <3>3, <3>4, <3>5 DEF Mine
  <2>2. \A d \in Conn \ {c} : Same(d) BY DEF StateInv, TypeOK
  <2>3. QED BY <2>1, <2>2, Alone
<1>9. ASSUME NEW c \in Conn, FlightMissing(c) PROVE ContentInv'
  <2> USE <1>9 DEF FlightMissing, fileVars, connVars, AnswerWith
  <2>1. Mine(c)'
    <3>1. pc'[c] = "idle" /\ shown'[c] = shown[c] /\ sold'[c] = sold[c]
      BY DEF StateInv, TypeOK, Tell
    <3>2. UNCHANGED Writer(c) /\ UNCHANGED View(c) /\ Alive(c) BY DEF View, Writer, Alive
    <3>3. Draft(c)' /\ Seen(c)' BY <3>1, <3>2 DEF ContentInv, Draft, Seen, Follows
    <3>4. Stands(c)' BY <3>1, <3>2 DEF ContentInv, Stands
    <3>5. QED BY <3>3, <3>4 DEF Mine
  <2>2. \A d \in Conn \ {c} : Same(d) BY DEF StateInv, TypeOK
  <2>3. QED BY <2>1, <2>2, Alone
<1>10. ASSUME NEW c \in Conn, Consult(c) PROVE ContentInv'
  <2> USE <1>10 DEF Consult, fileVars, AnswerWith
  <2>1. Mine(c)'
    <3> DEFINE ids == {row.id : row \in db_consult_flights(View(c), req[c].origin,
                                                           req[c].destination)}
    <3>1. ids \subseteq FlightIds(View(c)) BY DEF db_consult_flights, FlightIds
    <3>2. shown' = [shown EXCEPT ![c] = @ \cup ids] BY DEF Tell
    <3> HIDE DEF ids
    <3>3. pc'[c] = "idle" /\ shown'[c] = shown[c] \cup ids /\ sold'[c] = sold[c]
      BY <3>2 DEF StateInv, TypeOK, Tell
    <3>4. UNCHANGED Writer(c) BY DEF StateInv, TypeOK, FlowInv, Flow, Writer, WriteLocks
    <3>5. UNCHANGED View(c) /\ Alive(c) BY <3>4 DEF View, Alive
    <3>6. Draft(c)' /\ Seen(c)' BY <3>3, <3>4 DEF ContentInv, Draft, Seen, Follows
    <3>7. Stands(c)' BY <3>1, <3>3, <3>5 DEF ContentInv, Stands
    <3>8. QED BY <3>6, <3>7 DEF Mine
  <2>2. \A d \in Conn \ {c} : Same(d) BY DEF StateInv, TypeOK
  <2>3. QED BY <2>1, <2>2, Alone
<1>11. ASSUME NEW c \in Conn, Reserve(c) PROVE ContentInv'
  <2> DEFINE s == View(c)
             t == Apply(s, req[c])
  <2> USE <1>11 DEF Reserve, fileVars
  <2>1. s \in Contents /\ req[c] \in Request /\ req[c].op \in WriteOps /\ db \in Contents
    BY ViewType DEF StateInv, TypeOK, FlowInv, Flow
  <2>2. /\ cancelled \subseteq cancelled' /\ UNCHANGED db
        /\ req[c].op = "OP_CANCEL" => {req[c].seat} \cap TicketIds(s) \subseteq cancelled'
    OBVIOUS
  <2>3. Sound(s) /\ Follows(db, s, cancelled)
    BY <2>1, FollowsItself DEF ContentInv, Draft, View
  <2>4. Sound(t) BY <2>1, <2>3, ApplySound DEF ContentInv, Seen
  <2>5. Follows(db, t, cancelled') BY <2>1, <2>2, <2>3, ApplyFollows
  <2>6. /\ s.flight \subseteq t.flight
        /\ TicketIds(s) \subseteq TicketIds(t) \cup cancelled'
    <3>1. Follows(s, s, cancelled) BY <2>1, FollowsItself
    <3>2. Follows(s, t, cancelled') BY <2>1, <2>2, <3>1, ApplyFollows
    <3>3. QED BY <3>2 DEF Follows
  <2>7. FlightIds(s) \subseteq FlightIds(t) BY <2>6 DEF FlightIds
  <2>8. /\ req[c].op = "OP_PURCHASE" => t.ticketSeq \in TicketIds(t)
        /\ req[c].op = "OP_ADDFLIGHT" => t.flightSeq \in FlightIds(t)
    BY <2>1, ApplyNumbers
  <2>9. lock'[c] \in WriteLocks /\ work'[c] = t /\ Alive(c)
    BY DEF StateInv, TypeOK, Writer, WriteLocks, Alive
  <2>10. /\ shown[c] \subseteq FlightIds(s)
         /\ sold[c] \subseteq TicketIds(s) \cup cancelled
    BY <2>9 DEF ContentInv, Stands
  <2>11. Writer(c)' /\ View(c)' = t BY <2>9 DEF Writer, View
  <2>12. CASE intx[c] /\ req[c].op # "OP_PURCHASE"
    <3>1. AnswerWith(c, Reply(t, req[c])) BY <2>12
    <3>2. req[c].op \in {"OP_CANCEL", "OP_ADDFLIGHT"}
      BY <2>1, <2>12 DEF StateInv, FlowInv, Flow, WriteOps
    <3>3. Reply(t, req[c]).flights \subseteq FlightIds(t) /\ Reply(t, req[c]).seats = {}
      BY <2>8, <3>2 DEF Reply, Tell
    <3> HIDE DEF s, t
    <3>4. /\ pc'[c] = "idle" /\ sold'[c] = sold[c]
          /\ shown'[c] = shown[c] \cup Reply(t, req[c]).flights
      BY <3>1, <3>3 DEF AnswerWith, StateInv, TypeOK
    <3>5. Draft(c)'
      BY <2>2, <2>4, <2>5, <2>9, <3>4 DEF Draft, Follows, Sound, FlightIds, TicketIds
    <3>6. Seen(c)' BY <3>4 DEF Seen
    <3>7. Stands(c)'
      BY <2>6, <2>7, <2>10, <2>11, <3>3, <3>4 DEF Stands, FlightIds, TicketIds
    <3>8. \A d \in Conn \ {c} : Same(d) BY <3>1 DEF AnswerWith, StateInv, TypeOK
    <3>9. Mine(c)' BY <3>5, <3>6, <3>7 DEF Mine
    <3>10. QED BY <3>8, <3>9, <2>2, Alone
  <2>13. CASE ~(intx[c] /\ req[c].op # "OP_PURCHASE")
    <3>1. pc' = [pc EXCEPT ![c] = "commit"] /\ UNCHANGED <<req, shown, sold>>
      BY <2>13 DEF toldVars
    <3> HIDE DEF s, t
    <3>2. pc'[c] = "commit" BY <3>1 DEF StateInv, TypeOK
    <3>3. Draft(c)'
      BY <2>2, <2>4, <2>5, <2>9, <3>2 DEF Draft, Follows, Sound, FlightIds, TicketIds
    <3>4. Seen(c)' BY <2>8, <2>9, <3>1, <3>2 DEF Seen, FlightIds, TicketIds
    <3>5. Stands(c)' BY <2>6, <2>7, <2>10, <2>11, <3>1 DEF Stands, FlightIds, TicketIds
    <3>6. \A d \in Conn \ {c} : Same(d) BY <3>1 DEF StateInv, TypeOK
    <3>7. Mine(c)' BY <3>3, <3>4, <3>5 DEF Mine
    <3>8. QED BY <3>6, <3>7, <2>2, Alone
  <2>14. QED BY <2>12, <2>13
<1>12. ASSUME NEW c \in Conn, CommitNothing(c) PROVE ContentInv'
  <2> USE <1>12 DEF CommitNothing, fileVars, AnswerWith
  <2>1. Mine(c)'
    <3>1. pc'[c] = "idle" /\ shown'[c] = shown[c] /\ sold'[c] = sold[c] /\ lock'[c] = "none"
      BY DEF StateInv, TypeOK, Reply, Tell
    <3>2. View(c) = db /\ View(c)' = db /\ Alive(c) BY <3>1 DEF View, Writer, WriteLocks, Alive
    <3>3. Draft(c)' /\ Seen(c)' BY <3>1 DEF Draft, Seen, Writer, WriteLocks
    <3>4. Stands(c)' BY <3>1, <3>2 DEF ContentInv, Stands
    <3>5. QED BY <3>3, <3>4 DEF Mine
  <2>2. \A d \in Conn \ {c} : Same(d) BY DEF StateInv, TypeOK
  <2>3. QED BY <2>1, <2>2, Alone
<1>13. ASSUME NEW c \in Conn, Exclude(c) PROVE ContentInv'
  <2> USE <1>13 DEF Exclude, fileVars, histVars, toldVars
  <2>1. Mine(c)'
    <3>1. pc'[c] = "write" BY DEF StateInv, TypeOK
    <3>2. Writer(c) /\ Writer(c)' BY DEF StateInv, TypeOK, FlowInv, Flow, Writer, WriteLocks
    <3>3. UNCHANGED View(c) /\ Alive(c) BY <3>2 DEF View, Alive
    <3>4. Draft(c)' BY <3>1, <3>2 DEF ContentInv, Draft, Follows
    <3>5. Seen(c)' BY <3>1 DEF ContentInv, Seen
    <3>6. Stands(c)' BY <3>1, <3>3 DEF ContentInv, Stands
    <3>7. QED BY <3>4, <3>5, <3>6 DEF Mine
  <2>2. \A d \in Conn \ {c} : Same(d) BY DEF StateInv, TypeOK
  <2>3. QED BY <2>1, <2>2, Alone
<1>14. ASSUME NEW c \in Conn, EndBusy(c) PROVE ContentInv'
  <2> USE <1>14 DEF EndBusy, fileVars, AnswerWith
  <2>1. Mine(c)'
    <3>1. req[c].op = "OP_PURCHASE" BY DEF StateInv, FlowInv, Flow
    <3>2. /\ pc'[c] = "idle" /\ shown'[c] = shown[c]
          /\ sold'[c] \subseteq sold[c] \cup {work[c].ticketSeq}
      BY <3>1 DEF StateInv, TypeOK, Reply, Tell
    <3>3. Writer(c) /\ Writer(c)' BY DEF StateInv, TypeOK, FlowInv, Flow, Writer, WriteLocks
    <3>4. View(c) = work[c] /\ View(c)' = work[c] /\ Alive(c) BY <3>3 DEF View, Alive
    <3>5. work[c].ticketSeq \in TicketIds(work[c]) BY <3>1 DEF ContentInv, Seen
    <3>6. Draft(c)' /\ Seen(c)' BY <3>2, <3>3 DEF ContentInv, Draft, Seen, Follows
    <3>7. Stands(c)' BY <3>2, <3>4, <3>5 DEF ContentInv, Stands
    <3>8. QED BY <3>6, <3>7 DEF Mine
  <2>2. \A d \in Conn \ {c} : Same(d) BY DEF StateInv, TypeOK
  <2>3. QED BY <2>1, <2>2, Alone
<1>15. ASSUME NEW c \in Conn, Write(c) PROVE ContentInv'
  <2> USE <1>15 DEF Write
  <2>1. Writer(c) /\ Alive(c) /\ View(c) = work[c] /\ req[c].op \in WriteOps
    BY DEF StateInv, FlowInv, Flow, Writer, WriteLocks, Alive, View
  <2>2. Sound(db)' BY <2>1 DEF ContentInv, Draft, Sound, FlightIds
  <2>3. /\ db.flight \subseteq db'.flight
        /\ TicketIds(db) \subseteq TicketIds(db') \cup cancelled
    BY <2>1 DEF ContentInv, Draft, Follows
  <2>4. FlightIds(db) \subseteq FlightIds(db') BY <2>3 DEF FlightIds
  <2>5. /\ pc'[c] \in {"idle", "share"} /\ lock'[c] = "none"
        /\ shown'[c] \subseteq shown[c] \cup FlightIds(work[c])
        /\ sold'[c] \subseteq sold[c] \cup TicketIds(work[c])
        /\ \A d \in Conn \ {c} : Same(d)
    <3>1. CASE req[c].op # "CREATE"
      <4>1. AnswerWith(c, Reply(work[c], req[c])) BY <3>1
      <4>2. /\ Reply(work[c], req[c]).flights \subseteq FlightIds(work[c])
            /\ Reply(work[c], req[c]).seats \subseteq TicketIds(work[c])
        BY <2>1, <3>1 DEF Reply, Tell, WriteOps, ContentInv, Seen
      <4>3. QED BY <4>1, <4>2 DEF AnswerWith, StateInv, TypeOK
    <3>2. CASE req[c].op = "CREATE"
      BY <3>2 DEF StateInv, TypeOK, toldVars
    <3>3. QED BY <3>1, <3>2
  <2>6. Mine(c)'
    <3>1. View(c)' = work[c] BY <2>5 DEF View, Writer, WriteLocks
    <3>2. Draft(c)' /\ Seen(c)' BY <2>5 DEF Draft, Seen, Writer, WriteLocks
    <3>3. shown[c] \subseteq FlightIds(work[c]) /\ sold[c] \subseteq TicketIds(work[c]) \cup cancelled
      BY <2>1 DEF ContentInv, Stands
    <3>4. Stands(c)' BY <2>5, <3>1, <3>3 DEF Stands, FlightIds, TicketIds
    <3>5. QED BY <3>2, <3>4 DEF Mine
  <2>7. ASSUME NEW d \in Conn \ {c} PROVE Mine(d)'
    <3>1. ~Writer(d) /\ Same(d) BY <2>1, <2>5 DEF StateInv, LockInv
    <3>2. ~Writer(d)' /\ View(d) = db /\ View(d)' = db' /\ UNCHANGED Alive(d)
      BY <3>1 DEF Writer, View, Alive
    <3>3. pc[d] # "rollback"
      BY <3>1 DEF StateInv, FlowInv, Flow, Writer, WriteLocks
    <3>4. Draft(d)' BY <3>1, <3>2, <3>3 DEF Draft
    <3>5. Seen(d)' BY <2>4, <3>1, <3>2 DEF ContentInv, Seen, FlightIds, TicketIds
    <3>6. Stands(d)'
      BY <2>3, <2>4, <3>1, <3>2 DEF ContentInv, Stands, FlightIds, TicketIds
    <3>7. QED BY <3>4, <3>5, <3>6 DEF Mine
  <2>8. QED BY <2>2, <2>6, <2>7 DEF ContentInv, Mine
<1>16. QED
  BY <1>0, <1>1, <1>2, <1>3, <1>4, <1>5, <1>6, <1>7, <1>8, <1>9, <1>10, <1>11,
     <1>12, <1>13, <1>14, <1>15 DEF Next, Work

-----------------------------------------------------------------------------
(* The theorems.                                                           *)

\* The invariant holds throughout.
LEMMA Inductive == Spec => []IInv
<1>1. Init => IInv BY InitState, InitContent DEF IInv
<1>2. IInv /\ [Next]_vars => IInv' BY NextState, NextContent DEF IInv
<1>3. QED BY <1>1, <1>2, PTL DEF Spec

\* Every variable keeps its type, for any number of processes.
THEOREM TypeCorrect == Spec => []TypeOK
<1>1. IInv => TypeOK BY DEF IInv, StateInv
<1>2. QED BY <1>1, Inductive, PTL

\* However many processes share the file, a session sees what execute_datagram
\* answered it for as long as it lasts.
THEOREM AnswersAlwaysStand == Spec => []AnswersStand
<1>1. IInv => AnswersStand BY DEF IInv, ContentInv, Stands, AnswersStand
<1>2. QED BY <1>1, Inductive, PTL

\* However many processes share the file, db_flight_exists and add_ticket of
\* db_purchase never leave a ticket without its flight.
THEOREM TicketsAlwaysHaveFlights == Spec => []TicketsHaveFlights
<1>1. ASSUME IInv PROVE TicketsHaveFlights
  <2>1. Sound(db) BY <1>1 DEF IInv, ContentInv
  <2>2. ASSUME NEW c \in Conn PROVE Sound(View(c))
    BY <1>1, <2>1 DEF IInv, ContentInv, Draft, View
  <2>3. QED BY <2>1, <2>2 DEF Sound, TicketsHaveFlights
<1>2. QED BY <1>1, Inductive, PTL

\* A step that changes the file commits the work of a writer.
LEMMA OnlyWriteCommits ==
    ASSUME IInv, [Next]_vars, db' # db
    PROVE  /\ \E c \in Conn : Writer(c) /\ db' = work[c]
           /\ UNCHANGED cancelled
<1>1. PICK c \in Conn : Write(c)
  BY ZenonT(30) DEF Next, vars, fileVars, Work, FileExist, Open, Receive, Share, Recover, Recovered,
     ShareBusy, RecoverBusy, NoTable, FlightFound, FlightMissing, Consult, Reserve, ReserveBusy,
     CommitNothing, Exclude, EndBusy, CommitBusy, Quit, Interrupt, Fail, Leave
<1>2. Writer(c) BY <1>1 DEF Write, IInv, StateInv, FlowInv, Flow, Writer, WriteLocks
<1>3. QED BY <1>1, <1>2 DEF Write

\* No commit loses a flight or a ticket nobody cancelled.
THEOREM NoUpdateLost == Spec => NoLostUpdate
<1>1. ASSUME IInv, [Next]_vars
      PROVE  [/\ db.flight \subseteq db'.flight
              /\ TicketIds(db) \ TicketIds(db') \subseteq cancelled]_db
  <2>1. CASE db' # db
    <3>1. PICK c \in Conn : Writer(c) /\ db' = work[c] BY <1>1, <2>1, OnlyWriteCommits
    <3>2. QED BY <1>1, <3>1 DEF IInv, ContentInv, Draft, Follows
  <2>2. QED BY <2>1
<1>2. QED BY <1>1, Inductive, PTL DEF Spec, NoLostUpdate

\* No commit brings back the number of a row that was committed before.
THEOREM NoIdReused == Spec => IdsNeverReused
<1>1. ASSUME IInv, [Next]_vars
      PROVE  [/\ \A t \in db'.ticket \ db.ticket : t.resid > db.ticketSeq
              /\ \A f \in db'.flight \ db.flight : f.id > db.flightSeq]_db
  <2>1. CASE db' # db
    <3>1. PICK c \in Conn : Writer(c) /\ db' = work[c] BY <1>1, <2>1, OnlyWriteCommits
    <3>2. QED BY <1>1, <3>1 DEF IInv, ContentInv, Draft, Follows
  <2>2. QED BY <2>1
<1>2. QED BY <1>1, Inductive, PTL DEF Spec, IdsNeverReused

-----------------------------------------------------------------------------
(* The file is the ledger of Ledger.tla.                                   *)

Writers == {c \in Conn : Writer(c)}

\* A writing statement is one edit.
LEMMA ApplyIsEdit ==
    ASSUME NEW s \in Contents, NEW r \in Request, r.op \in WriteOps,
           r.op = "OP_PURCHASE" => r.flight \in FlightIds(s)
    PROVE  File!EditOf(Apply(s, r), s)
<1> DEFINE t == Apply(s, r)
<1>1. CASE r.op = "OP_PURCHASE"
  <2>1. PICK f \in s.flight : f.id = r.flight BY <1>1 DEF FlightIds
  <2>2. t = [s EXCEPT !.ticketSeq = @ + 1,
                      !.ticket = @ \cup {[resid |-> s.ticketSeq + 1, flightid |-> f.id]}]
    BY <1>1, <2>1 DEF Apply, add_ticket
  <2>3. QED BY <2>2, Zenon DEF File!EditOf
<1>2. CASE r.op = "OP_CANCEL"
  <2>1. t = [s EXCEPT !.ticket = {row \in @ : row.resid # r.seat}]
    BY <1>2 DEF Apply, remove_ticket
  <2>2. t.ticket = {row \in s.ticket : row.resid # r.seat} BY <1>2, ApplyFields
  <2>3. CASE \E row \in s.ticket : row.resid = r.seat
    <3>1. r.seat \in {row.resid : row \in s.ticket \ t.ticket} BY <2>2, <2>3
    <3>2. QED BY <2>1, <3>1, Zenon DEF File!EditOf
  <2>4. CASE ~ \E row \in s.ticket : row.resid = r.seat
    <3>1. {row \in s.ticket : row.resid # r.seat} = s.ticket BY <2>4
    <3>2. t = [s EXCEPT !.ticket = s.ticket] BY <2>1, <3>1
    <3>3. t = s BY <3>2 DEF Contents
    <3>4. QED BY <3>3 DEF File!EditOf
  <2>5. QED BY <2>3, <2>4
<1>3. CASE r.op = "OP_ADDFLIGHT"
  <2> DEFINE f == [id |-> s.flightSeq + 1, origin |-> r.origin, destination |-> r.destination]
  <2>1. t = [s EXCEPT !.flightSeq = @ + 1, !.flight = @ \cup {f}]
    BY <1>3 DEF Apply, db_add_flight
  <2>2. f.id = s.flightSeq + 1 /\ f \in t.flight BY <1>3, ApplyFields
  <2>3. QED BY <2>1, <2>2 DEF File!EditOf
<1>4. CASE r.op = "CREATE"
  <2>1. t = [s EXCEPT !.tables = @ \cup {r.table}] BY <1>4 DEF Apply, db_create
  <2>2. r.table \in {"ticket", "flight"} BY <1>4, RequestFields
  <2>3. QED BY <2>1, <2>2, Zenon DEF File!EditOf
<1>5. QED BY <1>1, <1>2, <1>3, <1>4 DEF WriteOps

\* A process that ends throws its draft away, if it has one.
LEMMA LeaveIsClose ==
    ASSUME StateInv, NEW c \in Conn, NEW label \in {"down", "failed"}, Leave(c, label)
    PROVE  [File!Next]_(File!vars)
<1> USE DEF Leave, SetLock, SetWork
<1>1. CASE Writer(c)
  <2>1. Writers' = {} /\ c \in Writers
    BY <1>1 DEF Writers, Writer, WriteLocks, StateInv, TypeOK, LockInv
  <2>2. File!Close(c) BY <2>1 DEF File!Close, Writers
  <2>3. QED BY <2>2 DEF File!Next
<1>2. CASE ~Writer(c)
  <2>1. Writers' = Writers
    BY <1>2 DEF Writers, Writer, WriteLocks, StateInv, TypeOK
  <2>2. work' = work
    BY <1>2 DEF Writer, WriteLocks, Locks, StateInv, TypeOK, FlowInv, Flow
  <2>3. QED BY <2>1, <2>2 DEF File!vars, Writers
<1>3. QED BY <1>1, <1>2

\* Every step of a process is a step of the ledger's authors, or none.
LEMMA NextIsLedger == IInv /\ [Next]_vars => [File!Next]_(File!vars)
<1> SUFFICES ASSUME IInv, [Next]_vars PROVE [File!Next]_(File!vars)
  OBVIOUS
<1> USE DEF SetLock, SetWork, IInv
<1>0. CASE UNCHANGED vars
  BY <1>0 DEF vars, fileVars, connVars, File!vars, Writer
<1>1. ASSUME NEW c \in Conn, \/ FileExist(c) \/ Open(c) \/ FlightFound(c) \/ FlightMissing(c)
                             \/ \E r \in Requests : Receive(c, r)
      PROVE  [File!Next]_(File!vars)
  BY <1>1 DEF FileExist, Open, FlightFound, FlightMissing, Receive, fileVars, connVars,
     File!vars, Writer
<1>2. ASSUME NEW c \in Conn, Share(c) \/ Consult(c) PROVE [File!Next]_(File!vars)
  <2>1. db' = db /\ work' = work BY <1>2 DEF Share, Consult, fileVars
  <2>2. Writers' = Writers
    BY <1>2 DEF Share, Consult, Writers, Writer, WriteLocks, StateInv, TypeOK, FlowInv, Flow
  <2>3. QED BY <2>1, <2>2 DEF File!vars, Writers
<1>3. ASSUME NEW c \in Conn, Exclude(c) \/ EndBusy(c) PROVE [File!Next]_(File!vars)
  <2>1. db' = db /\ work' = work BY <1>3 DEF Exclude, EndBusy, fileVars
  <2>2. Writers' = Writers
    BY <1>3 DEF Exclude, EndBusy, Writers, Writer, WriteLocks, StateInv, TypeOK, FlowInv, Flow
  <2>3. QED BY <2>1, <2>2 DEF File!vars, Writers
<1>4. ASSUME NEW c \in Conn, \/ ShareBusy(c) \/ RecoverBusy(c) \/ NoTable(c) \/ ReserveBusy(c)
                             \/ CommitBusy(c) \/ Quit(c) \/ Interrupt(c)
      PROVE  [File!Next]_(File!vars)
  BY <1>4, LeaveIsClose DEF ShareBusy, RecoverBusy, NoTable, ReserveBusy, CommitBusy, Quit, Interrupt, Fail
<1>5. ASSUME NEW c \in Conn, Recover(c) PROVE [File!Next]_(File!vars)
  <2> USE <1>5 DEF Recover, fileVars
  <2>1. Writers = {} /\ Writers' = {c}
    BY LockAlone DEF Writers, Writer, WriteLocks, StateInv, TypeOK, FlowInv, Flow
  <2>2. work' = [work EXCEPT ![c] = work'[c]] /\ work'[c] = db BY DEF StateInv, TypeOK
  <2>3. File!Start(c) BY <2>1, <2>2 DEF File!Start, File!EditOf, Writers
  <2>4. QED BY <2>3 DEF File!Next
<1>6. ASSUME NEW c \in Conn, Recovered(c) \/ CommitNothing(c) \/ Write(c)
      PROVE  [File!Next]_(File!vars)
  <2>1. /\ db' \in {db, work[c]} /\ work' = [work EXCEPT ![c] = Empty]
        /\ lock' = [lock EXCEPT ![c] = lock'[c]] /\ lock'[c] \notin WriteLocks
    BY <1>6 DEF Recovered, CommitNothing, Write, fileVars, WriteLocks, StateInv, TypeOK
  <2>2. Writer(c)
    BY <1>6 DEF Recovered, CommitNothing, Write, StateInv, FlowInv, Flow, Writer, WriteLocks
  <2>3. Writers' = {} /\ c \in Writers
    BY <2>1, <2>2 DEF Writers, Writer, StateInv, TypeOK, LockInv
  <2>4. File!Close(c) BY <2>1, <2>3 DEF File!Close, Writers
  <2>5. QED BY <2>4 DEF File!Next
<1>7. ASSUME NEW c \in Conn, Reserve(c) PROVE [File!Next]_(File!vars)
  <2> DEFINE t == Apply(View(c), req[c])
  <2> USE <1>7 DEF Reserve, fileVars
  <2>1. db' = db /\ work' = [work EXCEPT ![c] = t] BY DEF StateInv, TypeOK
  <2>2. File!EditOf(t, View(c))
    <3>1. View(c) \in Contents /\ req[c] \in Request /\ req[c].op \in WriteOps
      BY ViewType DEF StateInv, TypeOK, FlowInv, Flow
    <3>2. req[c].op = "OP_PURCHASE" => req[c].flight \in FlightIds(View(c))
      BY DEF ContentInv, Seen
    <3>3. QED BY <3>1, <3>2, ApplyIsEdit
  <2> HIDE DEF t
  <2>3. work'[c] = t /\ work' = [work EXCEPT ![c] = work'[c]]
    BY <2>1 DEF StateInv, TypeOK
  <2>4. CASE Writer(c)
    <3>1. Writers' = Writers /\ c \in Writers
      BY <2>4 DEF Writers, Writer, StateInv, TypeOK
    <3>2. File!Edit(c) BY <2>1, <2>2, <2>3, <2>4, <3>1 DEF File!Edit, Writers, View
    <3>3. QED BY <3>2 DEF File!Next
  <2>5. CASE ~Writer(c)
    <3>1. Writers = {} /\ Writers' = {c}
      BY <2>5, LockAlone DEF Writers, Writer, WriteLocks, StateInv, TypeOK
    <3>2. File!Start(c) BY <2>1, <2>2, <2>3, <2>5, <3>1 DEF File!Start, Writers, View
    <3>3. QED BY <3>2 DEF File!Next
  <2>6. QED BY <2>4, <2>5
<1>8. QED
  BY <1>0, <1>1, <1>2, <1>3, <1>4, <1>5, <1>6, <1>7 DEF Next, Work

\* The shared file, with all its locks, journals and refused commits, behaves
\* as a ledger that one author at a time edits.
THEOREM ImplementsLedger == Spec => RefinesLedger
<1>1. Init => File!Init
  BY DEF Init, File!Init, Writer, WriteLocks, Created, Empty
<1>2. QED BY <1>1, NextIsLedger, Inductive, PTL DEF Spec, RefinesLedger, File!Spec
=============================================================================

------------------------------- MODULE Ledger -------------------------------
(***************************************************************************)
(* What database.c promises of ../database.sqlite: a ledger of flights and *)
(* tickets that one author at a time may edit.  The author works on a      *)
(* draft that nobody else sees, starts it from the ledger as it is, and    *)
(* either replaces the ledger by the draft or throws the draft away.       *)
(* Numbers are given out in order, a ticket is for a flight that is in the *)
(* same draft, flights are never removed.                                  *)
(***************************************************************************)
EXTENDS Naturals

CONSTANTS Author, Blank

VARIABLES ledger, editing, draft
vars == <<ledger, editing, draft>>

\* t is s, or one edit away from it.
EditOf(t, s) ==
    \/ t = s
    \/ \E x \in {"ticket", "flight"} : t = [s EXCEPT !.tables = @ \cup {x}]
    \/ \E f \in s.flight :
          t = [s EXCEPT !.ticketSeq = @ + 1,
                        !.ticket = @ \cup {[resid |-> s.ticketSeq + 1, flightid |-> f.id]}]
    \/ \E r \in {row.resid : row \in s.ticket \ t.ticket} :
          t = [s EXCEPT !.ticket = {row \in @ : row.resid # r}]
    \/ \E f \in t.flight :
          /\ f.id = s.flightSeq + 1
          /\ t = [s EXCEPT !.flightSeq = @ + 1, !.flight = @ \cup {f}]

Init ==
    /\ ledger.flight = {} /\ ledger.ticket = {}
    /\ ledger.flightSeq = 0 /\ ledger.ticketSeq = 0
    /\ editing = {}
    /\ draft = [a \in Author |-> Blank]

Start(a) ==
    /\ editing = {}
    /\ editing' = {a}
    /\ draft' = [draft EXCEPT ![a] = draft'[a]]
    /\ EditOf(draft'[a], ledger)
    /\ UNCHANGED ledger

Edit(a) ==
    /\ a \in editing
    /\ draft' = [draft EXCEPT ![a] = draft'[a]]
    /\ EditOf(draft'[a], draft[a])
    /\ UNCHANGED <<ledger, editing>>

Close(a) ==
    /\ a \in editing
    /\ ledger' \in {ledger, draft[a]}
    /\ editing' = {}
    /\ draft' = [draft EXCEPT ![a] = Blank]

Next == \E a \in Author : Start(a) \/ Edit(a) \/ Close(a)

Spec == Init /\ [][Next]_vars
=============================================================================

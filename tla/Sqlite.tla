------------------------------- MODULE Sqlite -------------------------------
(***************************************************************************)
(* What database.c relies on of the SQLite library (3.8.11, rollback       *)
(* journal, no busy handler): the lock one connection needs on the file    *)
(* for a step, given the locks the other connections hold.  Of the library *)
(* only the header is part of the repository (server/sqlite3/sqlite3.h);   *)
(* a lock that cannot be had is SQLITE_BUSY at once, nothing ever waits.   *)
(***************************************************************************)

Locks == {"none", "shared", "reserved", "pending", "exclusive"}

\* A connection with one of these locks has uncommitted changes of its own.
WriteLocks == {"reserved", "pending", "exclusive"}

\* SHARED is refused while another connection is about to commit or commits.
CanShare(lock, c) ==
    \A d \in DOMAIN lock \ {c} : lock[d] \notin {"pending", "exclusive"}

\* RESERVED is refused while another connection is a writer.
CanReserve(lock, c) ==
    \A d \in DOMAIN lock \ {c} : lock[d] \notin WriteLocks

\* EXCLUSIVE is refused while another connection holds any lock; the loser
\* keeps PENDING.
CanExclude(lock, c) ==
    \A d \in DOMAIN lock \ {c} : lock[d] = "none"
=============================================================================

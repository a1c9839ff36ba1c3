---------------------------- MODULE PendingStore ----------------------------
(***************************************************************************)
(* internal/store: the PendingStore interface, the on-chain addresses that *)
(* were quoted and not yet redeemed.  A row holds the price and the        *)
(* expiry.  MemStore keeps the expiry as it was given; SQLiteStore keeps   *)
(* whole seconds, so both the expiry it returns and the time it prunes by  *)
(* are truncated.                                                          *)
(***************************************************************************)
EXTENDS Naturals

CONSTANTS
    Addr,         \* bitcoin addresses
    Persistent,   \* TRUE: SQLiteStore; FALSE: MemStore
    TicksPerSec,  \* clock ticks in the second that SQLite rounds to
    None          \* no row

VARIABLE pending  \* the row of each address, or None

Entry == [sats : Nat, expiresAt : Nat]

PendingTypeOK == pending \in [Addr -> Entry \cup {None}]

PendingInit == pending = [a \in Addr |-> None]

IsPending(a) == pending[a] # None

\* time.Time.Unix
Unix(t) == t \div TicksPerSec

\* The expiry a row gives back for the expiry it was given.
Stored(t) == IF Persistent THEN Unix(t) * TicksPerSec ELSE t

AddPending(a, sats, expiresAt) ==
    pending' = [pending EXCEPT ![a] = [sats |-> sats, expiresAt |-> Stored(expiresAt)]]

DeletePending(a) == pending' = [pending EXCEPT ![a] = None]

\* Wrong: a row expires at its expiry rather than after it.
PrunableInclusive(row, before) ==
    IF Persistent THEN Unix(row.expiresAt) <= Unix(before) ELSE row.expiresAt <= before

\* The row test of the sweep: After on full times, < on whole seconds.
Prunable(row, before) ==
    IF Persistent THEN Unix(row.expiresAt) < Unix(before) ELSE row.expiresAt < before

PruneExpiredPending(before) ==
    pending' = [a \in Addr |->
        IF IsPending(a) /\ Prunable(pending[a], before) THEN None ELSE pending[a]]

\* What a process that starts again finds.
PendingReopen == pending' = IF Persistent THEN pending ELSE [a \in Addr |-> None]
=============================================================================

----------------------------- MODULE SpentStore -----------------------------
(***************************************************************************)
(* internal/store: the Store interface, the set of payment references that *)
(* have been spent.  MemStore keeps it in a map, SQLiteStore in the table  *)
(* used_tokens; every call is atomic (RWMutex, or one statement over one   *)
(* connection).  Operators only: a verifier that uses the store decides    *)
(* when they are called and what an error of SQLite does.                  *)
(***************************************************************************)
CONSTANTS
    Keys,         \* the payment references a verifier may spend
    Persistent    \* TRUE: SQLiteStore (db_path set); FALSE: MemStore

VARIABLE used     \* the keys recorded as spent

SpentTypeOK == used \subseteq Keys

SpentInit == used = {}

IsUsed(key) == key \in used

\* Idempotent: a map write, or INSERT OR IGNORE.
MarkUsed(key) == used' = used \cup {key}

\* What a process that starts again finds.
SpentReopen == used' = IF Persistent THEN used ELSE {}

=============================================================================

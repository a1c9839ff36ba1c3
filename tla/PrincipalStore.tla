--------------------------- MODULE PrincipalStore ---------------------------
(***************************************************************************)
(* internal/store/principal.go: the request count of each enrolled         *)
(* principal.  MemPrincipalStore is the only implementation, so a restart  *)
(* loses it whatever db_path says; each call holds its mutex throughout.   *)
(***************************************************************************)
EXTENDS Naturals

CONSTANTS
    Principals,   \* principal identifiers, random and never drawn twice
    None          \* no record

VARIABLE principals   \* the RequestCount of each principal, or None

PrincipalTypeOK == principals \in [Principals -> Nat \cup {None}]

PrincipalInit == principals = [p \in Principals |-> None]

HasPrincipal(p) == principals[p] # None

CreatePrincipal(p) == principals' = [principals EXCEPT ![p] = 0]

\* The increment of a principal the store does not know is ignored, not refused.
IncrementRequestCount(p) ==
    principals' = [principals EXCEPT ![p] = IF HasPrincipal(p) THEN @ + 1 ELSE None]
=============================================================================

---------------------------- MODULE CacheContract ----------------------------
(***************************************************************************)
(* What a caller of monSQLize may assume of a read cache in front of one   *)
(* collection, in one process.  The collection's content is its version    *)
(* number.  floor[k] is the oldest version entry k may still show: it is   *)
(* raised when an invalidation of k has been acknowledged to its writer.   *)
(***************************************************************************)
EXTENDS Naturals

CONSTANTS Keys,   \* cache keys
          None    \* no entry

VARIABLES db,     \* version of the collection
          cache,  \* cache[k]: the version entry k was computed from, or None
          floor   \* floor[k]: the oldest version entry k may still show

vars == <<db, cache, floor>>

Init == /\ db = 0
        /\ cache = [k \in Keys |-> None]
        /\ floor = [k \in Keys |-> 0]

Write == /\ db' = db + 1
         /\ UNCHANGED <<cache, floor>>

Fill(k) == /\ \E v \in floor[k]..db : cache' = [cache EXCEPT ![k] = v]
           /\ UNCHANGED <<db, floor>>

Drop(k) == /\ cache' = [cache EXCEPT ![k] = None]
           /\ UNCHANGED <<db, floor>>

\* An invalidation is acknowledged; the acknowledged keys hold nothing older.
Acknowledge ==
  /\ floor' \in [Keys -> 0..db]
  /\ \A k \in Keys : /\ floor'[k] >= floor[k]
                     /\ cache[k] = None \/ cache[k] >= floor'[k]
  /\ UNCHANGED <<db, cache>>

Next == \/ Write \/ Acknowledge
        \/ \E k \in Keys : Fill(k) \/ Drop(k)

Spec == Init /\ [][Next]_vars
=============================================================================

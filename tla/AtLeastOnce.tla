----------------------------- MODULE AtLeastOnce -----------------------------
(* What Change Stream synchronization promises (docs/en/sync-backup.md):    *)
(* the stored token moves from one event to the next, and only past events  *)
(* that every target they concern has applied.  Events may be applied more  *)
(* than once, never skipped.                                                *)
EXTENDS Integers

CONSTANTS Targets, Wants, None

VARIABLES log,      \* number of events so far
          token,    \* the last event that need not be delivered again, or None
          applied   \* applied[t]: events target t has applied

Init == log = 0 /\ token = None /\ applied = [t \in Targets |-> {}]

Produce == log' = log + 1 /\ UNCHANGED <<token, applied>>

\* The first start takes the present for its anchor.
Anchor == /\ token = None
          /\ token' \in 0..log
          /\ UNCHANGED <<log, applied>>

Apply(t, e) == /\ e \in Wants[t]
               /\ applied' = [applied EXCEPT ![t] = @ \cup {e}]
               /\ UNCHANGED <<log, token>>

Advance == /\ token # None /\ token < log
           /\ \A t \in Targets : token + 1 \in Wants[t] => token + 1 \in applied[t]
           /\ token' = token + 1
           /\ UNCHANGED <<log, applied>>

Next == \/ Produce \/ Anchor \/ Advance
        \/ \E t \in Targets, e \in 1..log : Apply(t, e)

Spec == Init /\ [][Next]_<<log, token, applied>>
=============================================================================

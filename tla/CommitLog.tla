------------------------------ MODULE CommitLog ------------------------------
(***************************************************************************)
(* What a partition store promises to the rest of the broker: one log.     *)
(* Accepted records take consecutive places; a growing prefix is committed *)
(* and, behind it, a growing prefix is stable.  A crash removes a suffix   *)
(* that is not stable; whatever is left is committed after the restart.    *)
(* An orderly stop loses nothing.                                          *)
(***************************************************************************)
EXTENDS Integers, Sequences

CONSTANT Values

VARIABLES
  entries,    \* accepted values; the value at offset o is entries[o + 1]
  committed,  \* number of committed entries
  stable,     \* number of entries that survive a crash
  up

clVars == <<entries, committed, stable, up>>

CLInit == entries = <<>> /\ committed = 0 /\ stable = 0 /\ up = TRUE

Accept == up /\ \E v \in Values : entries' = Append(entries, v)
          /\ UNCHANGED <<committed, stable, up>>

Advance == up /\ committed' \in (committed + 1)..Len(entries)
           /\ UNCHANGED <<entries, stable, up>>

Stabilise == up /\ stable' = committed /\ UNCHANGED <<entries, committed, up>>

Stop == up /\ committed = Len(entries) /\ stable' = committed /\ up' = FALSE
        /\ UNCHANGED <<entries, committed>>

Fail == /\ \E k \in stable..Len(entries) : entries' = SubSeq(entries, 1, k)
        /\ committed' = 0 /\ up' = FALSE
        /\ UNCHANGED stable

Restart == ~up /\ committed' = Len(entries) /\ up' = TRUE /\ UNCHANGED <<entries, stable>>

CLNext == Accept \/ Advance \/ Stabilise \/ Stop \/ Fail \/ Restart

CLSpec == CLInit /\ [][CLNext]_clVars

=============================================================================

-------------------------- MODULE MCPartitionStore --------------------------
(***************************************************************************)
(* Model-checking instances of PartitionStore and the statements of the    *)
(* documentation that the code does not meet.                              *)
(***************************************************************************)
EXTENDS PartitionStore

\* A fetch at an offset that was committed when the fetch began finds a record.
CommittedIsFetchable ==
  \A c \in Consumers :
    fetch[c].pc = "done" /\ fetch[c].offset < fetch[c].committed => fetch[c].result # <<>>

\* A fetch returns committed records only.
FetchOnlyCommitted ==
  \A c \in Consumers : fetch[c].pc = "done" =>
    \A i \in DOMAIN fetch[c].result : fetch[c].result[i].offset < committed_offset

\* Recovery keeps only records that were written.
RecoveredIsGenuine == Running => \A i \in DOMAIN log : log[i].val \in Values

=============================================================================

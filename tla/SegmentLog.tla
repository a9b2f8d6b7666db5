----------------------------- MODULE SegmentLog -----------------------------
(***************************************************************************)
(* The on-disk format of one partition and the passive classes that read   *)
(* it: OffsetIndex, SegmentReader and recover_partition (src/storage).     *)
(*                                                                         *)
(* A .log file is a sequence of records.  A record keeps the byte position *)
(* at which it starts in its file, so that a position computed elsewhere   *)
(* (an index entry) can be compared with where the record really is.  The  *)
(* partial record that a crash leaves at the end of a file is Torn.  A     *)
(* .idx file is a sequence of entries [offset, pos].                       *)
(***************************************************************************)
EXTENDS Integers, Sequences

CONSTANTS
  LOG_RECORD_HEADER_SIZE,  \* bytes of a record header
  Torn,                    \* a partially written record at the end of a file
  Garbage                  \* what a read that starts inside a record returns

ASSUME HeaderAssumption == LOG_RECORD_HEADER_SIZE \in Nat \ {0}

RecordBytes(r) == LOG_RECORD_HEADER_SIZE + r.size

\* The byte length of a file whose records are all complete.
EndPosition(file) ==
  IF file = <<>> THEN 0
  ELSE file[Len(file)].pos + RecordBytes(file[Len(file)])

(***************************************************************************)
(* std::upper_bound over the keys: a binary search for the first key       *)
(* greater than the target.  Returns how many keys precede it.  On keys    *)
(* that are not sorted it still returns what the search computes.  The     *)
(* search has narrowed its range [first, first + len) to range[k] after k  *)
(* turns; every turn shortens it, so Len(keys) turns empty it.             *)
(***************************************************************************)
Narrowed(keys, target, r) ==
  LET half == r.len \div 2
  IN  IF r.len = 0 THEN r
      ELSE IF target < keys[r.first + half + 1]
           THEN [first |-> r.first, len |-> half]
           ELSE [first |-> r.first + half + 1, len |-> r.len - half - 1]

UpperBound(keys, target) ==
  LET range[k \in 0..Len(keys)] ==
        IF k = 0 THEN [first |-> 0, len |-> Len(keys)]
        ELSE Narrowed(keys, target, range[k - 1])
  IN  range[Len(keys)].first

\* OffsetIndex::lookup: the position from which to scan for the target.
Lookup(entries, target) ==
  LET it == UpperBound([i \in DOMAIN entries |-> entries[i].offset], target)
  IN  IF it = 0 THEN 0 ELSE entries[it].pos

\* SegmentReader::scan_valid: the complete records before the first partial one.
ScanValid(file) ==
  LET torn == {i \in DOMAIN file : file[i] = Torn}
  IN  IF torn = {} THEN file
      ELSE SubSeq(file, 1, (CHOOSE i \in torn : \A j \in torn : i <= j) - 1)

(***************************************************************************)
(* SegmentReader::read: from a byte position, skip the records below       *)
(* start_offset and return up to max_count of the others: taken[i] is what *)
(* it has after the first i records of the file.  A position that is not   *)
(* the start of a record makes the reader parse payload bytes as a header: *)
(* Garbage.                                                                *)
(***************************************************************************)
Take(records, r, start_offset, max_count) ==
  IF r.offset >= start_offset /\ Len(records) < max_count THEN Append(records, r) ELSE records

ReadRecords(valid, position, start_offset, max_count) ==
  LET at == {i \in DOMAIN valid : valid[i].pos = position}
      taken[i \in 0..Len(valid)] ==
        IF i = 0 \/ \A k \in at : i < k THEN <<>>
        ELSE Take(taken[i - 1], valid[i], start_offset, max_count)
  IN  IF max_count > 0 /\ at = {} /\ position < EndPosition(valid) THEN <<Garbage>>
      ELSE taken[Len(valid)]

ReadFrom(file, position, start_offset, max_count) ==
  ReadRecords(ScanValid(file), position, start_offset, max_count)

=============================================================================

---------------------------- MODULE FetchProofs -----------------------------
(***************************************************************************)
(* Until the first crash a fetch returns what the log holds: FetchSound.   *)
(*                                                                         *)
(* First that each step of the writer leaves the files and the indexes as  *)
(* a reader needs them; then what the two loops of a read compute, the     *)
(* binary search of an index and the scan of a file; then the steps of a   *)
(* fetch.  Together: each step preserves ReadInv.  That each of them       *)
(* preserves StoreInv, which ReadInv rests on, is taken from               *)
(* PartitionStoreSteps at the end.                                         *)
(***************************************************************************)
EXTENDS PartitionStore, TLAPS

-----------------------------------------------------------------------------
(* Records *)

\* A run of whole records ends at a natural number of bytes.
LEMMA EndPositionType == ASSUME NEW f \in Seq(Rec) PROVE EndPosition(f) \in Nat
<1>1. CASE f = <<>>
  BY <1>1 DEF EndPosition
<1>2. CASE f # <<>>
  <2>1. f[Len(f)] \in Rec
    BY <1>2
  <2> QED
    BY <1>2, <2>1, HeaderAssumption DEF EndPosition, RecordBytes, Rec
<1> QED
  BY <1>1, <1>2, Zenon

\* scan_valid of a file of whole records.
LEMMA ScanWhole ==
  ASSUME NEW f \in Seq(Rec \cup {Torn}), \A i \in 1..Len(f) : f[i] # Torn
  PROVE  ScanValid(f) = f /\ f \in Seq(Rec)
<1>1. DOMAIN f = 1..Len(f) /\ Len(f) \in Nat
  OBVIOUS
<1>2. {i \in DOMAIN f : f[i] = Torn} = {}
  BY <1>1, Zenon
<1>3. \A i \in 1..Len(f) : f[i] \in Rec
  OBVIOUS
<1> QED
  BY <1>2, <1>3 DEF ScanValid

\* A record takes at least one byte.
LEMMA RecordFacts ==
  ASSUME NEW r \in Rec
  PROVE  RecordBytes(r) \in Nat /\ RecordBytes(r) > 0 /\ r.pos \in Nat
<1>1. r.size \in Nat /\ r.pos \in Nat
  BY DEF Rec
<1> QED
  BY <1>1, HeaderAssumption DEF RecordBytes

-----------------------------------------------------------------------------
(* The layout of a file *)

\* No record of a file reaches beyond its end, which is a number.
LEMMA LaidEnd ==
  ASSUME NEW f \in Seq(Rec), Laid(f), NEW i \in 1..Len(f)
  PROVE  f[i].pos + RecordBytes(f[i]) <= EndPosition(f)
<1>1. PICK n \in Nat : n = Len(f) /\ DOMAIN f = 1..n /\ n \in 1..n /\ (i = n \/ i < n)
  OBVIOUS
<1>2. f[i] \in Rec /\ f[n] \in Rec /\ f # <<>>
  BY <1>1
<1>3. PICK p \in Nat, b \in Nat : p = f[i].pos /\ b = RecordBytes(f[i])
  BY <1>2, RecordFacts, Zenon
<1>4. PICK q \in Nat, d \in Nat : q = f[n].pos /\ d = RecordBytes(f[n])
  BY <1>2, RecordFacts, Zenon
<1>5. EndPosition(f) = q + d
  BY <1>1, <1>2, <1>4, Zenon DEF EndPosition
<1>6. (p = q /\ b = d) \/ p + b <= q
  BY <1>1, <1>3, <1>4, Zenon DEF Laid
<1>7. p + b <= q + d
  BY <1>6
<1> QED
  BY <1>3, <1>5, <1>7, Zenon

\* Serialisation puts a record at the end of what is laid out.
LEMMA LaidAppend ==
  ASSUME NEW f \in Seq(Rec), Laid(f), NEW r \in Rec, r.pos = EndPosition(f),
         NEW g, g = Append(f, r)
  PROVE  Laid(g) /\ EndPosition(g) = EndPosition(f) + RecordBytes(r)
<1>1. PICK n \in Nat : n = Len(f)
  OBVIOUS
<1>2. /\ g \in Seq(Rec) /\ Len(g) = n + 1 /\ DOMAIN g = 1..(n + 1) /\ g[n + 1] = r
      /\ \A i \in 1..n : g[i] = f[i]
  BY <1>1
<1>3. EndPosition(g) = EndPosition(f) + RecordBytes(r)
  <2>1. g # <<>>
    BY <1>2
  <2> QED
    BY <1>2, <2>1, Zenon DEF EndPosition
<1>4. g[1].pos = 0
  <2>1. CASE n = 0
    <3>1. f = <<>> /\ g[1] = r
      BY <1>1, <1>2, <2>1
    <3> QED
      BY <3>1, Zenon DEF EndPosition
  <2>2. CASE n # 0
    <3>1. f # <<>> /\ 1 \in 1..n
      BY <1>1, <2>2
    <3> QED
      BY <1>2, <3>1, Zenon DEF Laid
  <2> QED
    BY <2>1, <2>2
<1>5. ASSUME NEW i \in 1..(n + 1), NEW k \in 1..(n + 1), i < k
      PROVE  g[i].pos + RecordBytes(g[i]) <= g[k].pos
  <2>1. i \in 1..n /\ (k = n + 1 \/ k \in 1..n)
    BY <1>5
  <2>2. CASE k = n + 1
    BY <1>1, <1>2, <2>1, <2>2, LaidEnd, Zenon
  <2>3. CASE k \in 1..n
    <3>1. DOMAIN f = 1..n
      BY <1>1
    <3> QED
      BY <1>2, <1>5, <2>1, <2>3, <3>1, Zenon DEF Laid
  <2> QED
    BY <2>1, <2>2, <2>3
<1> QED
  BY <1>2, <1>3, <1>4, <1>5, Zenon DEF Laid

\* A record of the buffer as the write puts it behind end bytes.
Moved(r, end) == [r EXCEPT !.pos = @ + end]

\* Only its position changes.
LEMMA MovedFacts ==
  ASSUME NEW r \in Rec, NEW end \in Nat
  PROVE  /\ Moved(r, end) \in Rec /\ Moved(r, end).pos = r.pos + end
         /\ Moved(r, end).offset = r.offset /\ RecordBytes(Moved(r, end)) = RecordBytes(r)
BY DEF Moved, Rec, RecordBytes

\* The write puts the buffer behind the records of the file.
LEMMA LaidConcat ==
  ASSUME NEW f \in Seq(Rec), Laid(f), NEW b \in Seq(Rec), Laid(b), Len(b) > 0,
         NEW g \in Seq(Rec), Len(g) = Len(f) + Len(b),
         \A i \in 1..Len(f) : g[i] = f[i],
         \A i \in 1..Len(b) : g[Len(f) + i] = Moved(b[i], EndPosition(f))
  PROVE  Laid(g) /\ EndPosition(g) = EndPosition(f) + EndPosition(b)
<1>1. PICK n \in Nat, m \in Nat : n = Len(f) /\ m = Len(b) /\ m > 0
  OBVIOUS
<1>2. PICK end \in Nat : end = EndPosition(f)
  BY EndPositionType
<1>3. DOMAIN f = 1..n /\ DOMAIN b = 1..m /\ DOMAIN g = 1..(n + m) /\ Len(g) = n + m
  BY <1>1
<1>4. /\ \A i \in 1..n : f[i] \in Rec /\ g[i] = f[i]
      /\ \A i \in 1..m : b[i] \in Rec /\ g[n + i] = Moved(b[i], end)
  BY <1>1, <1>2
<1>5. \A i \in 1..m : /\ g[n + i].pos = b[i].pos + end
                      /\ RecordBytes(g[n + i]) = RecordBytes(b[i])
  <2> SUFFICES ASSUME NEW i \in 1..m
               PROVE  g[n + i].pos = b[i].pos + end /\ RecordBytes(g[n + i]) = RecordBytes(b[i])
    OBVIOUS
  <2>1. PICK r \in Rec : r = b[i] /\ g[n + i] = Moved(r, end)
    BY <1>4, Zenon
  <2>2. /\ Moved(r, end).pos = r.pos + end
        /\ RecordBytes(Moved(r, end)) = RecordBytes(r)
    BY MovedFacts, Zenon
  <2> QED
    BY <2>1, <2>2, Zenon
<1>6. \A i \in 1..m : b[i].pos \in Nat /\ RecordBytes(b[i]) \in Nat
  BY <1>4, RecordFacts, Zenon
<1>7. b # <<>> /\ g # <<>> /\ m \in 1..m /\ 1 \in 1..m
  BY <1>1
<1>8. EndPosition(g) = end + EndPosition(b)
  <2>1. EndPosition(g) = g[n + m].pos + RecordBytes(g[n + m])
    BY <1>3, <1>7, Zenon DEF EndPosition
  <2>2. EndPosition(b) = b[m].pos + RecordBytes(b[m])
    BY <1>1, <1>7, Zenon DEF EndPosition
  <2> QED
    BY <1>5, <1>6, <1>7, <2>1, <2>2
<1>9. g[1].pos = 0
  <2>1. CASE f = <<>>
    <3>1. n + 1 = 1
      BY <1>1, <2>1
    <3>2. end = 0
      BY <1>2, <2>1, Zenon DEF EndPosition
    <3>3. b[1].pos = 0
      BY <1>7, Zenon DEF Laid
    <3>4. g[1].pos = b[1].pos + end
      BY <1>5, <1>7, <3>1, Zenon
    <3> QED
      BY <3>2, <3>3, <3>4
  <2>2. CASE f # <<>>
    <3>1. 1 \in 1..n
      BY <1>1, <2>2
    <3> QED
      BY <1>4, <2>2, <3>1, Zenon DEF Laid
  <2> QED
    BY <2>1, <2>2
<1>10. ASSUME NEW i \in 1..(n + m), NEW k \in 1..(n + m), i < k
       PROVE  g[i].pos + RecordBytes(g[i]) <= g[k].pos
  <2>1. CASE k \in 1..n
    <3>1. i \in 1..n
      BY <1>10, <2>1
    <3> QED
      BY <1>3, <1>4, <1>10, <2>1, <3>1, Zenon DEF Laid
  <2>2. ASSUME NEW l \in 1..m, k = n + l, i \in 1..n PROVE g[i].pos + RecordBytes(g[i]) <= g[k].pos
    <3>1. PICK p \in Nat, q \in Nat : p = g[i].pos /\ q = RecordBytes(g[i])
      BY <1>4, <2>2, RecordFacts, Zenon
    <3>2. p + q <= end
      BY <1>1, <1>2, <1>4, <2>2, <3>1, LaidEnd, Zenon
    <3>3. PICK d \in Nat : d = b[l].pos /\ g[k].pos = d + end
      BY <1>5, <1>6, <2>2, Zenon
    <3>4. p + q <= d + end
      BY <3>2
    <3> QED
      BY <3>1, <3>3, <3>4, Zenon
  <2>3. ASSUME NEW l \in 1..m, k = n + l, NEW h \in 1..m, i = n + h
        PROVE  g[i].pos + RecordBytes(g[i]) <= g[k].pos
    <3>1. h < l
      BY <1>10, <2>3
    <3>2. b[h].pos + RecordBytes(b[h]) <= b[l].pos
      BY <1>3, <3>1, Zenon DEF Laid
    <3>3. PICK p \in Nat, q \in Nat, d \in Nat : p = b[h].pos /\ q = RecordBytes(b[h]) /\ d = b[l].pos
      BY <1>6, Zenon
    <3>4. g[i].pos = p + end /\ RecordBytes(g[i]) = q /\ g[k].pos = d + end
      BY <1>5, <2>3, <3>3, Zenon
    <3>5. p + q <= d
      BY <3>2, <3>3, Zenon
    <3>6. (p + end) + q <= d + end
      BY <3>5
    <3> QED
      BY <3>4, <3>6, Zenon
  <2>4. /\ k \in 1..n \/ \E l \in 1..m : k = n + l
        /\ i \in 1..n \/ \E h \in 1..m : i = n + h
    <3>1. ASSUME NEW x \in 1..(n + m), x \notin 1..n PROVE x - n \in 1..m /\ x = n + (x - n)
      BY <3>1
    <3> QED
      BY <3>1, Zenon
  <2> QED
    BY <2>1, <2>2, <2>3, <2>4, Zenon
<1> QED
  BY <1>2, <1>3, <1>8, <1>9, <1>10, Zenon DEF Laid

-----------------------------------------------------------------------------
(* The files of the segments *)

\* Where file j ends in the log.
FileEnd(j) == IF j = Len(segs) THEN Len(log) ELSE segs[j + 1].start

\* What SubSeq keeps of a part of a sequence.
LEMMA CutFacts ==
  ASSUME NEW S, NEW s \in Seq(S), NEW a \in Nat, NEW e \in Nat, a <= e, e <= Len(s)
  PROVE  /\ SubSeq(s, a + 1, e) \in Seq(S) /\ Len(SubSeq(s, a + 1, e)) = e - a
         /\ \A i \in 1..(e - a) : SubSeq(s, a + 1, e)[i] = s[a + i]
OBVIOUS

\* The types of what is on disk, spelled out for the active segment.
LEMMA DiskFacts ==
  ASSUME DiskType, SegInv
  PROVE  /\ Len(log) \in Nat /\ Len(segs) \in Nat \ {0} /\ synced.log \in Nat /\ synced.idx \in Nat
         /\ segs[Active] \in Segment /\ segs[Active].base \in Nat /\ segs[Active].start \in Nat
         /\ segs[Active].idx \in Seq(IndexEntry) /\ Len(segs[Active].idx) \in Nat
<1>1. Len(segs) \in 1..Len(segs) /\ Len(segs) \in Nat \ {0} /\ Len(log) \in Nat
  BY DEF DiskType, SegInv
<1>2. segs[Len(segs)] \in Segment
  BY <1>1 DEF DiskType
<1> QED
  BY <1>1, <1>2, SMTT(30) DEF DiskType, Segment, Active

\* Until the first crash the log holds whole records only, numbered from 0.
LEMMA LogFacts ==
  ASSUME StoreInv, LayoutInv
  PROVE  /\ log \in Seq(Rec) /\ \A i \in 1..Len(log) : log[i].offset = i - 1
         /\ segs \in Seq(Segment) /\ Len(segs) \in Nat /\ Len(segs) >= 1
<1>1. log \in Seq(Rec \cup {Torn}) /\ segs \in Seq(Segment) /\ Len(segs) >= 1
  BY DEF StoreInv, TypeOK, DiskType, SegInv
<1>2. \A i \in 1..Len(log) : log[i] # Torn
  BY Zenon DEF StoreInv, LogInv, LayoutInv
<1>3. log \in Seq(Rec)
  BY <1>1, <1>2, ScanWhole, Zenon
<1>4. \A i \in 1..Len(log) : log[i].offset = i - 1
  BY <1>2, Zenon DEF StoreInv, LogInv
<1> QED
  BY <1>1, <1>3, <1>4

\* The parts of a segment.
LEMMA SegmentFacts ==
  ASSUME NEW x \in Segment
  PROVE  x.base \in Nat /\ x.start \in Nat /\ x.idx \in Seq(IndexEntry)
BY DEF Segment

\* A file is the part of the log from its start to its end.
LEMMA FileFacts ==
  ASSUME StoreInv, LayoutInv, NEW j \in 1..Len(segs)
  PROVE  /\ segs[j].start \in Nat /\ segs[j].base = segs[j].start
         /\ FileEnd(j) \in Nat /\ segs[j].start <= FileEnd(j) /\ FileEnd(j) <= Len(log)
         /\ File(j) \in Seq(Rec) /\ Len(File(j)) = FileEnd(j) - segs[j].start
         /\ \A i \in 1..(FileEnd(j) - segs[j].start) :
              File(j)[i] = log[segs[j].start + i] /\ File(j)[i].offset = segs[j].start + i - 1
<1>1. PICK n \in Nat : n = Len(segs) /\ j \in 1..n
  BY LogFacts
<1>2. \A k \in 1..n : segs[k] \in Segment
  BY <1>1, LogFacts
<1>3. \A k \in 1..n : segs[k].start \in Nat /\ segs[k].base = segs[k].start /\ segs[k].start <= Len(log)
  BY <1>1, <1>2, SegmentFacts, Zenon DEF LayoutInv
<1>4. j # n => j + 1 \in 1..n /\ j < j + 1
  BY <1>1
<1>5. PICK a \in Nat, e \in Nat : a = segs[j].start /\ e = FileEnd(j) /\ a <= e /\ e <= Len(log)
  <2>1. segs[j].start \in Nat /\ segs[j].start <= Len(log) /\ Len(log) \in Nat
    BY <1>1, <1>3, LogFacts
  <2>2. CASE j = n
    <3>1. FileEnd(j) = Len(log)
      BY <1>1, <2>2, Zenon DEF FileEnd
    <3> QED
      BY <2>1, <3>1
  <2>3. CASE j # n
    <3>1. FileEnd(j) = segs[j + 1].start
      BY <1>1, <2>3, Zenon DEF FileEnd
    <3>2. segs[j].start < segs[j + 1].start
      BY <1>1, <1>4, <2>3, Zenon DEF LayoutInv
    <3>3. segs[j + 1].start \in Nat /\ segs[j + 1].start <= Len(log)
      BY <1>3, <1>4, <2>3, Zenon
    <3> QED
      BY <2>1, <3>1, <3>2, <3>3
  <2> QED
    BY <2>2, <2>3
<1>6. File(j) = SubSeq(log, a + 1, e)
  BY <1>5, Zenon DEF File, FileEnd
<1>7. /\ File(j) \in Seq(Rec) /\ Len(File(j)) = e - a
      /\ \A i \in 1..(e - a) : File(j)[i] = log[a + i]
  <2>1. log \in Seq(Rec) /\ a <= e /\ e <= Len(log)
    BY <1>5, LogFacts, Zenon
  <2>2. /\ SubSeq(log, a + 1, e) \in Seq(Rec) /\ Len(SubSeq(log, a + 1, e)) = e - a
        /\ \A i \in 1..(e - a) : SubSeq(log, a + 1, e)[i] = log[a + i]
    BY <2>1, CutFacts
  <2> QED
    BY <1>6, <2>2, Zenon
<1>8. \A i \in 1..(e - a) : log[a + i].offset = a + i - 1
  <2>1. PICK m \in Nat : m = Len(log) /\ e <= m
    BY <1>5, LogFacts
  <2>2. \A i \in 1..(e - a) : a + i \in 1..m /\ (a + i) - 1 = a + i - 1
    BY <2>1
  <2> QED
    BY <2>1, <2>2, LogFacts, Zenon
<1>9. \A i \in 1..(FileEnd(j) - segs[j].start) :
        File(j)[i] = log[segs[j].start + i] /\ File(j)[i].offset = segs[j].start + i - 1
  <2>1. \A i \in 1..(e - a) : File(j)[i] = log[a + i] /\ File(j)[i].offset = a + i - 1
    BY <1>7, <1>8, Zenon
  <2> QED
    BY <1>5, <2>1, Zenon
<1>10. segs[j].base = segs[j].start
  BY <1>1, <1>3, Zenon
<1> QED
  BY <1>5, <1>7, <1>9, <1>10, Zenon

-----------------------------------------------------------------------------
(* What the readers keep while the log grows *)

\* The log and the list of segments grow, and exact entries stay exact.
Grows ==
  /\ Len(segs) \in Nat /\ Len(segs') \in Nat /\ Len(segs) <= Len(segs')
  /\ Len(log) \in Nat /\ Len(log') \in Nat /\ Len(log) <= Len(log')
  /\ \A i \in 1..Len(log) : log'[i] = log[i]
  /\ \A j \in 1..Len(segs) : segs'[j].base = segs[j].base
  /\ \A j \in 1..Len(segs) : \A e : EntryExact(j, e) => EntryExact(j, e)'

\* Then the sealed segments still exist,
LEMMA SealedKept == ASSUME SealedInv, Grows, sealed_segments' = sealed_segments PROVE SealedInv'
<1>1. \A j \in 1..Len(segs) : j \in 1..Len(segs') /\ segs'[j].base = segs[j].base
  BY DEF Grows
<1> QED
  BY <1>1, Zenon DEF SealedInv

\* the cached indexes stay exact,
LEMMA CacheKept ==
  ASSUME CacheInv, Grows, DOMAIN segment_cache' \subseteq DOMAIN segment_cache,
         \A b \in DOMAIN segment_cache' : segment_cache'[b] = segment_cache[b]
  PROVE  CacheInv'
<1>1. \A j \in 1..Len(segs) : j \in 1..Len(segs') /\ segs'[j].base = segs[j].base
  BY DEF Grows
<1>2. \A j \in 1..Len(segs) : \A e : EntryExact(j, e) => EntryExact(j, e)'
  BY Zenon DEF Grows
<1>3. ASSUME NEW b \in DOMAIN segment_cache'
      PROVE  /\ segment_cache'[b] \in Seq(IndexEntry)
             /\ \E j \in 1..Len(segs') :
                  segs'[j].base = b /\ \A e \in Entries(segment_cache'[b]) : EntryExact(j, e)'
  <2>1. b \in DOMAIN segment_cache /\ segment_cache'[b] = segment_cache[b]
    BY <1>3, Zenon
  <2>2. PICK j \in 1..Len(segs) :
          segs[j].base = b /\ \A e \in Entries(segment_cache[b]) : EntryExact(j, e)
    BY <2>1, Zenon DEF CacheInv
  <2>3. \A e \in Entries(segment_cache'[b]) : EntryExact(j, e)'
    BY <1>2, <2>1, <2>2, Zenon
  <2>4. segment_cache'[b] \in Seq(IndexEntry)
    BY <2>1, Zenon DEF CacheInv
  <2> QED
    BY <1>1, <2>2, <2>3, <2>4, Zenon
<1> QED
  BY <1>3, Zenon DEF CacheInv

\* and so do those in the hands of the readers; what a reader has returned
\* stays in the log.
LEMMA ReadersKept ==
  ASSUME ReaderInv, FetchSound, Grows, fetch' = fetch
  PROVE  ReaderInv' /\ FetchSound'
<1>1. \A j \in 1..Len(segs) : j \in 1..Len(segs') /\ segs'[j].base = segs[j].base
  BY DEF Grows
<1>2. \A j \in 1..Len(segs) : \A e : EntryExact(j, e) => EntryExact(j, e)'
  BY Zenon DEF Grows
<1>3. ASSUME NEW c \in Consumers, fetch[c].pc = "read"
      PROVE  \E j \in 1..Len(segs') :
               segs'[j].base = fetch[c].base /\ \A e \in Entries(fetch[c].idx) : EntryExact(j, e)'
  <2>1. PICK j \in 1..Len(segs) :
          segs[j].base = fetch[c].base /\ \A e \in Entries(fetch[c].idx) : EntryExact(j, e)
    BY <1>3, Zenon DEF ReaderInv
  <2> QED
    BY <1>1, <1>2, <2>1, Zenon
<1>4. ReaderInv'
  BY <1>3, Zenon DEF ReaderInv
<1>5. ASSUME NEW c \in Consumers, fetch[c].pc = "done", NEW i \in DOMAIN fetch[c].result
      PROVE  /\ fetch[c].offset + i <= Len(log')
             /\ fetch[c].result[i] = log'[fetch[c].offset + i]
  <2>1. fetch[c].offset + i <= Len(log) /\ fetch[c].result[i] = log[fetch[c].offset + i]
    BY <1>5, Zenon DEF FetchSound
  <2>2. fetch[c].result \in Seq(Rec) /\ fetch[c].offset \in Nat
    BY <1>5, Zenon DEF ReaderInv
  <2>3. PICK r \in Seq(Rec), o \in Nat : r = fetch[c].result /\ o = fetch[c].offset
    BY <2>2
  <2>4. i \in DOMAIN r
    BY <2>3
  <2>5. i \in Nat /\ i >= 1
    BY <2>4
  <2>6. o + i \in 1..Len(log) /\ o + i <= Len(log')
    <3>1. PICK m \in Nat, n \in Nat : m = Len(log) /\ n = Len(log') /\ m <= n /\ o + i <= m
      BY <2>1, <2>3, Zenon DEF Grows
    <3>2. o + i \in 1..m /\ o + i <= n
      BY <2>5, <3>1
    <3> QED
      BY <3>1, <3>2, Zenon
  <2>7. log'[o + i] = log[o + i]
    BY <2>6, Zenon DEF Grows
  <2> QED
    BY <2>1, <2>3, <2>6, <2>7, Zenon
<1>6. FetchSound'
  BY <1>5, Zenon DEF FetchSound
<1> QED
  BY <1>4, <1>6

-----------------------------------------------------------------------------
(* The steps *)

\* A step that leaves the files and the readers alone and drops at most some of
\* the cached indexes.
LEMMA SameFiles ==
  ASSUME StoreInv, ReadInv, UNCHANGED <<log, segs, fetch>>,
         DOMAIN segment_cache' \subseteq DOMAIN segment_cache,
         \A b \in DOMAIN segment_cache' : segment_cache'[b] = segment_cache[b],
         \A j, e : EntryExact(j, e) => EntryExact(j, e)'
  PROVE  Grows /\ IndexInv' /\ CacheInv' /\ ReaderInv' /\ FetchSound'
<1> USE DEF ReadInv
<1>1. Grows
  <2>1. Len(segs) \in Nat /\ Len(log) \in Nat /\ Len(segs) <= Len(segs) /\ Len(log) <= Len(log)
    BY LogFacts
  <2> QED
    BY <2>1, Zenon DEF Grows
<1>2. IndexInv'
  BY Zenon DEF IndexInv
<1>3. CacheInv'
  BY <1>1, CacheKept, Zenon
<1> QED
  BY <1>1, <1>2, <1>3, ReadersKept, Zenon

\* A step that leaves the buffer and the writer alone, too.
LEMMA ReadKept ==
  ASSUME StoreInv, ReadInv,
         UNCHANGED <<log, segs, writer, sealed_segments, segment_cache, fetch, buffer, buffer_bytes>>,
         io' # "down", io' = "open_segment" => io = "open_segment",
         io = "commit" <=> io' = "commit", io = "write" => io' = "write"
  PROVE  ReadInv'
<1>1. LayoutInv'
  BY Zenon DEF LayoutInv, File, ReadInv
<1>2. \A j, e : EntryExact(j, e) => EntryExact(j, e)'
  BY ZenonT(30) DEF EntryExact, File
<1>3. Grows /\ IndexInv' /\ CacheInv' /\ ReaderInv' /\ FetchSound'
  BY <1>2, SameFiles, Zenon
<1>4. SealedInv'
  BY <1>3, SealedKept, Zenon DEF ReadInv
<1> QED
  BY <1>1, <1>3, <1>4, Zenon DEF ReadInv

\* The commit moves the writer's counter to the end of the file.
LEMMA CommitReads == ASSUME StoreInv, ReadInv, Commit PROVE ReadInv'
<1>1. /\ io = "commit" /\ io' = "fire" /\ UNCHANGED <<log, segs, buffer, buffer_bytes, fetch>>
      /\ UNCHANGED <<sealed_segments, segment_cache>>
      /\ writer' = [writer EXCEPT !.bytes_written = @ + buffer_bytes, !.next_offset = @ + Len(batch)]
  BY Zenon DEF Commit, batchVars, diskVars
<1>2. writer'.base = writer.base /\ writer'.bytes_written = writer.bytes_written + buffer_bytes
  BY <1>1 DEF StoreInv, TypeOK, CounterType
<1>3. LayoutInv'
  BY <1>1, <1>2, Zenon DEF LayoutInv, File, ReadInv
<1>4. \A j, e : EntryExact(j, e) => EntryExact(j, e)'
  BY <1>1, ZenonT(30) DEF EntryExact, File
<1>5. Grows /\ IndexInv' /\ CacheInv' /\ ReaderInv' /\ FetchSound'
  BY <1>1, <1>4, SameFiles, Zenon
<1>6. SealedInv'
  BY <1>1, <1>5, SealedKept, Zenon DEF ReadInv
<1> QED
  BY <1>3, <1>5, <1>6, Zenon DEF ReadInv

\* The end of a batch empties the buffer.
LEMMA FlushPolicyReads == ASSUME StoreInv, ReadInv, FlushPolicy PROVE ReadInv'
<1>1. /\ io = "policy" /\ io' = "take" /\ UNCHANGED <<log, segs, writer, fetch>>
      /\ UNCHANGED <<sealed_segments, segment_cache>> /\ buffer' = <<>> /\ buffer_bytes' = 0
  BY Zenon DEF FlushPolicy, BatchDone, memoryVars
<1>2. Laid(buffer') /\ buffer_bytes' = EndPosition(buffer')
  BY <1>1 DEF Laid, EndPosition
<1>3. LayoutInv'
  BY <1>1, <1>2, Zenon DEF LayoutInv, File, ReadInv
<1>4. \A j, e : EntryExact(j, e) => EntryExact(j, e)'
  BY <1>1, ZenonT(30) DEF EntryExact, File
<1>5. Grows /\ IndexInv' /\ CacheInv' /\ ReaderInv' /\ FetchSound'
  BY <1>1, <1>4, SameFiles, Zenon
<1>6. SealedInv'
  BY <1>1, <1>5, SealedKept, Zenon DEF ReadInv
<1> QED
  BY <1>3, <1>5, <1>6, Zenon DEF ReadInv

\* Sealing publishes the active segment and drops its cached index.
LEMMA SealReads == ASSUME StoreInv, ReadInv, SealSegment PROVE ReadInv'
<1>1. /\ io = "policy" /\ io' = "open_segment"
      /\ UNCHANGED <<log, segs, writer, fetch, buffer, buffer_bytes>>
      /\ sealed_segments' = Append(sealed_segments, writer.base)
      /\ segment_cache' = [b \in DOMAIN segment_cache \ {writer.base} |-> segment_cache[b]]
  BY Zenon DEF SealSegment, batchVars
<1>2. LayoutInv'
  <2>1. writer.bytes_written > 0
    BY StoreAssumption DEF SealSegment, StoreInv, TypeOK, CounterType
  <2> QED
    BY <1>1, <2>1, Zenon DEF LayoutInv, File, ReadInv
<1>3. \A j, e : EntryExact(j, e) => EntryExact(j, e)'
  BY <1>1, ZenonT(30) DEF EntryExact, File
<1>4. Grows /\ IndexInv' /\ CacheInv' /\ ReaderInv' /\ FetchSound'
  <2>1. /\ DOMAIN segment_cache' \subseteq DOMAIN segment_cache
        /\ \A b \in DOMAIN segment_cache' : segment_cache'[b] = segment_cache[b]
    BY <1>1, Zenon
  <2> QED
    BY <1>1, <1>3, <2>1, SameFiles, Zenon
<1>5. PICK n \in Nat : n = Len(segs) /\ n \in 1..n
  BY LogFacts DEF ReadInv
<1>6. writer.base = segs[n].base /\ writer.base \in Nat
  <2>1. writer.base \in Nat
    BY DEF StoreInv, TypeOK, CounterType
  <2> QED
    BY <1>5, <2>1, Zenon DEF ReadInv, LayoutInv
<1>7. SealedInv'
  <2>1. PICK m \in Nat : m = Len(sealed_segments) /\ sealed_segments \in Seq(Nat)
    BY DEF ReadInv, SealedInv
  <2>2. /\ sealed_segments' \in Seq(Nat) /\ Len(sealed_segments') = m + 1
        /\ sealed_segments'[m + 1] = writer.base
        /\ \A i \in 1..m : sealed_segments'[i] = sealed_segments[i]
    BY <1>1, <1>6, <2>1
  <2>3. \A i \in 1..(m + 1) : i = m + 1 \/ i \in 1..m
    OBVIOUS
  <2>4. \A i \in 1..m : \E j \in 1..n : segs[j].base = sealed_segments[i]
    BY <1>5, <2>1, Zenon DEF ReadInv, SealedInv
  <2>5. ASSUME NEW i \in 1..(m + 1) PROVE \E j \in 1..n : segs[j].base = sealed_segments'[i]
    BY <1>5, <1>6, <2>2, <2>3, <2>4, Zenon
  <2> QED
    BY <1>1, <1>5, <2>2, <2>5, Zenon DEF SealedInv
<1> QED
  BY <1>2, <1>4, <1>7, Zenon DEF ReadInv

\* Two prefixes of the log that end in the same place.
LEMMA FileSame ==
  ASSUME StoreInv, LayoutInv, NEW j \in 1..Len(segs), segs'[j].start = segs[j].start,
         FileEnd(j)' = FileEnd(j), Len(log) <= Len(log'), log' \in Seq(Rec),
         \A i \in 1..Len(log) : log'[i] = log[i]
  PROVE  File(j)' = File(j)
<1>1. PICK a \in Nat, e \in Nat : a = segs[j].start /\ e = FileEnd(j) /\ a <= e /\ e <= Len(log)
  BY FileFacts, Zenon
<1>2. Len(log) \in Nat /\ Len(log') \in Nat
  BY LogFacts
<1>3. File(j)' = SubSeq(log', a + 1, e)
  BY <1>1, Zenon DEF File, FileEnd
<1>4. /\ File(j) \in Seq(Rec) /\ Len(File(j)) = e - a
      /\ \A i \in 1..(e - a) : File(j)[i] = log[a + i]
  BY <1>1, FileFacts, Zenon
<1>5. /\ SubSeq(log', a + 1, e) \in Seq(Rec) /\ Len(SubSeq(log', a + 1, e)) = e - a
      /\ \A i \in 1..(e - a) : SubSeq(log', a + 1, e)[i] = log'[a + i]
  <2>1. PICK l \in Seq(Rec) : l = log' /\ a <= e /\ e <= Len(l)
    BY <1>1, <1>2
  <2>2. /\ SubSeq(l, a + 1, e) \in Seq(Rec) /\ Len(SubSeq(l, a + 1, e)) = e - a
        /\ \A i \in 1..(e - a) : SubSeq(l, a + 1, e)[i] = l[a + i]
    BY <2>1, CutFacts, Zenon
  <2> QED
    BY <2>1, <2>2, Zenon
<1>6. \A i \in 1..(e - a) : log'[a + i] = log[a + i]
  <2>1. \A i \in 1..(e - a) : a + i \in 1..Len(log)
    BY <1>1, <1>2, SMTT(30)
  <2> QED
    BY <2>1, Zenon
<1>7. PICK g \in Seq(Rec) : g = SubSeq(log', a + 1, e)
  BY <1>5, Zenon
<1>8. PICK h \in Seq(Rec) : h = File(j)
  BY <1>4, Zenon
<1>9. Len(g) = e - a /\ Len(h) = e - a /\ \A i \in 1..(e - a) : g[i] = h[i]
  BY <1>4, <1>5, <1>6, <1>7, <1>8, Zenon
<1>10. g = h
  BY <1>9
<1> QED
  BY <1>3, <1>7, <1>8, <1>10, Zenon

\* The new segment is empty, and the one before it is not.
LEMMA OpenSegmentReads == ASSUME StoreInv, ReadInv, OpenSegment PROVE ReadInv'
<1>1. /\ io = "open_segment" /\ io' = "take" /\ UNCHANGED <<log, fetch, sealed_segments, segment_cache>>
      /\ segs' = Append(segs, [base |-> writer.next_offset, start |-> Len(log), idx |-> <<>>])
      /\ writer' = NewWriter(writer.next_offset, writer.next_offset, 0)
      /\ buffer' = <<>> /\ buffer_bytes' = 0
  BY Zenon DEF OpenSegment, BatchDone
<1>2. PICK n \in Nat, m \in Nat : n = Len(segs) /\ m = Len(log) /\ n \in 1..n
  BY LogFacts DEF ReadInv
<1>3. log \in Seq(Rec) /\ segs \in Seq(Segment)
  BY LogFacts, Zenon DEF ReadInv
<1>4. writer.next_offset = m
  BY <1>1, <1>2 DEF StoreInv, BatchInv, Running
<1>5. PICK new : new = [base |-> m, start |-> m, idx |-> <<>>] /\ segs' = Append(segs, new)
  BY <1>1, <1>2, <1>4, Zenon
<1>6. new \in Segment /\ new.base = m /\ new.start = m /\ new.idx = <<>>
  BY <1>5 DEF Segment
<1>7. /\ segs' \in Seq(Segment) /\ Len(segs') = n + 1 /\ segs'[n + 1] = new
      /\ \A j \in 1..n : segs'[j] = segs[j]
  BY <1>2, <1>3, <1>5, <1>6
<1>8. writer'.base = m /\ writer'.bytes_written = 0
  BY <1>1, <1>4, Zenon DEF NewWriter
<1>9. \A j \in 1..(n + 1) : j \in 1..n \/ j = n + 1
  OBVIOUS
<1>10. \A j \in 1..n : File(j)' = File(j)
  <2> SUFFICES ASSUME NEW j \in 1..n PROVE File(j)' = File(j)
    OBVIOUS
  <2>1. segs'[j].start = segs[j].start /\ j # n + 1
    BY <1>7
  <2>2. FileEnd(j)' = FileEnd(j)
    <3>1. CASE j = n
      <4>1. FileEnd(j)' = segs'[j + 1].start /\ FileEnd(j) = m
        BY <1>2, <1>7, <2>1, <3>1, Zenon DEF FileEnd
      <4> QED
        BY <1>6, <1>7, <3>1, <4>1, Zenon
    <3>2. CASE j # n
      <4>1. j + 1 \in 1..n
        BY <3>2
      <4> QED
        BY <1>2, <1>7, <2>1, <3>2, <4>1, Zenon DEF FileEnd
    <3> QED
      BY <3>1, <3>2
  <2>3. Len(log) <= Len(log') /\ log' \in Seq(Rec) /\ \A i \in 1..Len(log) : log'[i] = log[i]
    BY <1>1, <1>3
  <2> QED
    BY <1>2, <2>1, <2>2, <2>3, FileSame, Zenon DEF ReadInv
<1>11. File(n + 1)' = <<>>
  <2>1. File(n + 1)' = SubSeq(log, m + 1, m)
    BY <1>1, <1>2, <1>6, <1>7, Zenon DEF File
  <2> QED
    BY <1>2, <1>3, <2>1
<1>12. segs[n].start < m
  <2>1. writer.bytes_written = EndPosition(File(n)) /\ writer.bytes_written > 0
    BY <1>1, <1>2, Zenon DEF ReadInv, LayoutInv
  <2>2. File(n) # <<>>
    BY <2>1 DEF EndPosition
  <2>3. FileEnd(n) = m
    BY <1>2, Zenon DEF FileEnd
  <2>4. PICK a \in Nat : a = segs[n].start /\ a <= m /\ File(n) \in Seq(Rec) /\ Len(File(n)) = m - a
    <3>1. n \in 1..Len(segs) /\ LayoutInv
      BY <1>2, Zenon DEF ReadInv
    <3>2. /\ segs[n].start \in Nat /\ segs[n].start <= FileEnd(n)
          /\ File(n) \in Seq(Rec) /\ Len(File(n)) = FileEnd(n) - segs[n].start
      BY <3>1, FileFacts, Zenon
    <3> QED
      BY <2>3, <3>2
  <2> QED
    BY <1>2, <2>2, <2>4
<1>13. LayoutInv'
  <2>1. Laid(<<>>) /\ EndPosition(<<>>) = 0
    BY DEF Laid, EndPosition
  <2>2. ASSUME NEW j \in 1..(n + 1)
        PROVE  segs'[j].base = segs'[j].start /\ segs'[j].start <= m /\ Laid(File(j)')
    <3>1. CASE j \in 1..n
      BY <1>2, <1>7, <1>10, <3>1, Zenon DEF ReadInv, LayoutInv
    <3>2. CASE j = n + 1
      BY <1>6, <1>7, <1>11, <2>1, <3>2
    <3> QED
      BY <1>9, <3>1, <3>2
  <2>3. ASSUME NEW j \in 1..(n + 1), NEW k \in 1..(n + 1), j < k PROVE segs'[j].start < segs'[k].start
    <3>1. j \in 1..n /\ j <= n
      BY <2>3
    <3>2. CASE k \in 1..n
      BY <1>2, <1>7, <2>3, <3>1, <3>2, Zenon DEF ReadInv, LayoutInv
    <3>3. CASE k = n + 1
      <4>1. PICK a \in Nat, b \in Nat : a = segs[j].start /\ b = segs[n].start
        <5>1. n \in 1..Len(segs) /\ j \in 1..Len(segs) /\ LayoutInv
          BY <1>2, <3>1, Zenon DEF ReadInv
        <5>2. segs[j].start \in Nat /\ segs[n].start \in Nat
          BY <5>1, FileFacts, Zenon
        <5> QED
          BY <5>2
      <4>2. j = n \/ j < n
        BY <3>1
      <4>3. a = b \/ a < b
        <5>1. n \in 1..Len(segs) /\ j \in 1..Len(segs)
          BY <1>2, <3>1, Zenon
        <5> QED
          BY <4>1, <4>2, <5>1, Zenon DEF ReadInv, LayoutInv
      <4>4. a < m
        BY <1>12, <4>1, <4>3
      <4> QED
        BY <1>6, <1>7, <3>1, <3>3, <4>1, <4>4, Zenon
    <3> QED
      BY <1>9, <3>2, <3>3
  <2>4. ASSUME NEW j \in 1..(n + 1), j = n + 1
        PROVE  writer'.base = segs'[j].base /\ writer'.bytes_written = EndPosition(File(j)')
    BY <1>6, <1>7, <1>8, <1>11, <2>1, <2>4, Zenon
  <2>5. /\ io' # "down" /\ io' # "open_segment" /\ io' # "commit"
        /\ Laid(buffer') /\ buffer_bytes' = EndPosition(buffer')
    BY <1>1, <2>1
  <2> QED
    BY <1>1, <1>2, <1>7, <2>2, <2>3, <2>4, <2>5, Zenon DEF LayoutInv
<1>14. ASSUME NEW j \in 1..n, NEW e, EntryExact(j, e) PROVE EntryExact(j, e)'
  BY <1>1, <1>7, <1>10, <1>14, Zenon DEF EntryExact
<1>15. Grows
  <2>1. n <= n + 1 /\ m <= m /\ n + 1 \in Nat
    OBVIOUS
  <2> QED
    BY <1>1, <1>2, <1>7, <1>14, <2>1, Zenon DEF Grows
<1>16. IndexInv'
  <2>1. Entries(new.idx) = {}
    BY <1>6 DEF Entries
  <2>2. ASSUME NEW j \in 1..(n + 1), NEW e \in Entries(segs'[j].idx) PROVE EntryExact(j, e)'
    <3>1. j \in 1..n
      BY <1>7, <1>9, <2>1, <2>2, Zenon
    <3> QED
      BY <1>2, <1>7, <1>14, <2>2, <3>1, Zenon DEF ReadInv, IndexInv
  <2> QED
    BY <1>7, <2>2, Zenon DEF IndexInv
<1>17. SealedInv' /\ CacheInv' /\ ReaderInv' /\ FetchSound'
  BY <1>1, <1>15, SealedKept, CacheKept, ReadersKept, Zenon DEF ReadInv
<1> QED
  BY <1>13, <1>16, <1>17, Zenon DEF ReadInv

\* The segments after an index entry of the active one, which may not be due.
Indexed(s, entry) ==
  s = segs \/ s = [segs EXCEPT ![Active].idx = Append(segs[Active].idx, entry)]

\* A new index entry leaves every file and every other entry where it is.
LEMMA IdxAppend ==
  ASSUME StoreInv, NEW entry \in IndexEntry, NEW n \in Nat, n = Len(segs),
         NEW s, Indexed(s, entry)
  PROVE  /\ Len(s) = n
         /\ \A j \in 1..n : s[j].base = segs[j].base /\ s[j].start = segs[j].start
         /\ \A j \in 1..n : \A e \in Entries(s[j].idx) :
              e \in Entries(segs[j].idx) \/ (j = n /\ e = entry)
<1>1. CASE s = segs
  BY <1>1, Zenon
<1>2. CASE s = [segs EXCEPT ![Active].idx = Append(segs[Active].idx, entry)]
  <2>1. /\ Active = n /\ n \in 1..n /\ segs \in Seq(Segment) /\ DOMAIN segs = 1..n
        /\ segs[n] \in Segment /\ segs[n].idx \in Seq(IndexEntry)
    BY DiskFacts DEF StoreInv, TypeOK, DiskType, Active
  <2>2. PICK x \in Seq(IndexEntry) : x = Append(segs[n].idx, entry)
    <3>1. Append(segs[n].idx, entry) \in Seq(IndexEntry)
      BY <2>1
    <3> QED
      BY <3>1, Zenon
  <2>3. PICK a : a = [segs[n] EXCEPT !.idx = x]
    BY Zenon
  <2>a. a \in Segment
    BY <2>1, <2>3, Zenon DEF Segment
  <2>4. a.base = segs[n].base /\ a.start = segs[n].start /\ a.idx = x
    BY <2>1, <2>3 DEF Segment
  <2>5. s = [segs EXCEPT ![n] = a]
    BY <1>2, <2>1, <2>2, <2>3, Zenon
  <2>6. Len(s) = n /\ s[n] = a /\ \A j \in 1..n : j # n => s[j] = segs[j]
    BY <2>1, <2>a, <2>5
  <2>7. ASSUME NEW e \in Entries(x) PROVE e \in Entries(segs[n].idx) \/ e = entry
    <3>1. PICK y \in Seq(IndexEntry), k \in Nat : y = segs[n].idx /\ k = Len(y)
      BY <2>1
    <3>2. Len(x) = k + 1 /\ x[k + 1] = entry /\ \A i \in 1..k : x[i] = y[i]
      BY <2>2, <3>1
    <3>3. PICK i \in 1..(k + 1) : e = x[i]
      BY <2>7, <3>2, Zenon DEF Entries
    <3>4. i = k + 1 \/ i \in 1..k
      OBVIOUS
    <3> QED
      BY <3>1, <3>2, <3>3, <3>4, Zenon DEF Entries
  <2> QED
    BY <2>4, <2>6, <2>7, Zenon
<1> QED
  BY <1>1, <1>2, Zenon DEF Indexed

\* write_batch points an index entry at the record that it puts in the buffer.
LEMMA SerializeReads == ASSUME StoreInv, ReadInv, SerializeRecord PROVE ReadInv'
<1>1. PICK cmd, entry, rec :
        /\ cmd = batch[Len(buffer) + 1]
        /\ entry = [offset |-> cmd.offset, pos |-> writer.bytes_written + buffer_bytes]
        /\ rec = [offset |-> cmd.offset, val |-> cmd.val, size |-> cmd.size, pos |-> buffer_bytes]
        /\ buffer' = Append(buffer, rec) /\ buffer_bytes' = buffer_bytes + RecordBytes(cmd)
        /\ Indexed(segs', entry)
  BY Zenon DEF SerializeRecord, Indexed
<1>2. /\ io = "write" /\ UNCHANGED <<io, writer, sealed_segments, segment_cache, log, fetch>>
      /\ Len(buffer) < Len(batch)
  BY Zenon DEF SerializeRecord, memoryVars
<1>3. PICK b \in Nat, k \in Nat : b = buffer_bytes /\ k = Len(buffer) /\ buffer \in Seq(Rec)
  BY DEF StoreInv, TypeOK, BatchType
<1>4. PICK m \in Nat, n \in Nat : m = Len(log) /\ n = Len(segs) /\ n \in 1..n
  BY LogFacts DEF ReadInv
<1>5. PICK w \in Nat : w = writer.bytes_written
  BY DEF StoreInv, TypeOK, CounterType
<1>6. k + 1 \in 1..Len(batch) /\ cmd \in Cmd /\ cmd.offset = m + k
  <2>1. k + 1 \in 1..Len(batch) /\ batch \in Seq(Cmd)
    BY <1>2, <1>3 DEF StoreInv, TypeOK, BatchType
  <2>2. cmd.offset = Len(log) + (k + 1) - 1
    BY <1>1, <1>2, <1>3, <2>1, Zenon DEF StoreInv, BatchInv
  <2>3. cmd \in Cmd
    BY <1>1, <1>3, <2>1
  <2> QED
    BY <1>4, <2>1, <2>2, <2>3
<1>7. /\ entry \in IndexEntry /\ entry.offset = m + k /\ entry.pos = w + b
      /\ rec \in Rec /\ rec.pos = b /\ RecordBytes(rec) = RecordBytes(cmd)
  <2>1. cmd.offset \in Nat /\ cmd.val \in Values /\ cmd.size \in Nat
    BY <1>6 DEF Cmd
  <2>2. entry \in IndexEntry /\ entry.offset = m + k /\ entry.pos = w + b
    BY <1>1, <1>3, <1>5, <1>6 DEF IndexEntry
  <2>3. rec \in Rec
    BY <1>1, <1>3, <2>1, Zenon DEF Rec
  <2>4. rec.pos = b /\ rec.size = cmd.size
    BY <1>1, <1>3, Zenon
  <2> QED
    BY <2>2, <2>3, <2>4, Zenon DEF RecordBytes
<1>8. b = EndPosition(buffer) /\ Laid(buffer)
  BY <1>3, Zenon DEF ReadInv, LayoutInv
<1>9. Laid(buffer') /\ buffer_bytes' = EndPosition(buffer')
  <2>1. PICK f, g : f \in Seq(Rec) /\ f = buffer /\ g = buffer' /\ g = Append(f, rec)
    BY <1>1, <1>3, Zenon
  <2>2. Laid(g) /\ EndPosition(g) = EndPosition(f) + RecordBytes(rec)
    BY <1>7, <1>8, <2>1, LaidAppend, Zenon
  <2> QED
    BY <1>1, <1>3, <1>7, <1>8, <2>1, <2>2, Zenon
<1>10. /\ Len(buffer') = k + 1 /\ buffer'[k + 1] = rec /\ \A i \in 1..k : buffer'[i] = buffer[i]
       /\ \A i \in 1..k : i \in 1..(k + 1)
  BY <1>1, <1>3, <1>7
<1>11. /\ Len(segs') = n
       /\ \A j \in 1..n : segs'[j].base = segs[j].base /\ segs'[j].start = segs[j].start
       /\ \A j \in 1..n : \A e \in Entries(segs'[j].idx) :
              e \in Entries(segs[j].idx) \/ (j = n /\ e = entry)
  <2>1. PICK s : s = segs' /\ Indexed(s, entry)
    BY <1>1, Zenon
  <2>2. /\ Len(s) = n
        /\ \A j \in 1..n : s[j].base = segs[j].base /\ s[j].start = segs[j].start
        /\ \A j \in 1..n : \A e \in Entries(s[j].idx) :
              e \in Entries(segs[j].idx) \/ (j = n /\ e = entry)
    <3>1. entry \in IndexEntry /\ n \in Nat /\ n = Len(segs)
      BY <1>4, <1>7
    <3> QED
      BY <2>1, <3>1, IdxAppend
  <2> QED
    BY <2>1, <2>2, Zenon
<1>12. ASSUME NEW j \in 1..n PROVE File(j)' = File(j)
  <2>1. FileEnd(j)' = FileEnd(j)
    <3>1. j # n => j + 1 \in 1..n
      OBVIOUS
    <3> QED
      BY <1>2, <1>4, <1>11, <3>1, Zenon DEF FileEnd
  <2>2. Len(log) <= Len(log') /\ log' \in Seq(Rec) /\ \A i \in 1..Len(log) : log'[i] = log[i]
    <3>1. log \in Seq(Rec)
      BY LogFacts, Zenon DEF ReadInv
    <3> QED
      BY <1>2, <3>1
  <2> QED
    BY <1>4, <1>11, <2>1, <2>2, FileSame, Zenon DEF ReadInv
<1>13. LayoutInv'
  BY <1>2, <1>4, <1>9, <1>11, <1>12, ZenonT(30) DEF ReadInv, LayoutInv
<1>14. ASSUME NEW j \in 1..n, NEW e, EntryExact(j, e) PROVE EntryExact(j, e)'
  BY <1>2, <1>3, <1>4, <1>10, <1>11, <1>12, <1>14, ZenonT(30) DEF EntryExact
<1>15. Grows
  <2>1. n <= n /\ m <= m
    OBVIOUS
  <2> QED
    BY <1>2, <1>4, <1>11, <1>14, <2>1, Zenon DEF Grows
<1>16. EntryExact(n, entry)'
  <2>1. w = EndPosition(File(n))
    BY <1>2, <1>4, <1>5, Zenon DEF ReadInv, LayoutInv
  <2>2. segs[n].start <= m
    BY <1>4, Zenon DEF ReadInv, LayoutInv
  <2>3. segs[n].start \in Nat
    BY <1>4, FileFacts, Zenon DEF ReadInv
  <2>4. (m + k) - m + 1 = k + 1 /\ k + 1 \in 1..(k + 1) /\ segs[n].start <= m + k
    BY <2>2, <2>3
  <2> QED
    BY <1>2, <1>4, <1>7, <1>10, <1>11, <1>12, <2>1, <2>4, Zenon DEF EntryExact
<1>17. IndexInv'
  <2>1. ASSUME NEW j \in 1..n, NEW e \in Entries(segs'[j].idx) PROVE EntryExact(j, e)'
    <3>1. CASE e \in Entries(segs[j].idx)
      BY <1>4, <1>14, <3>1, Zenon DEF ReadInv, IndexInv
    <3>2. CASE j = n /\ e = entry
      BY <1>16, <3>2
    <3> QED
      BY <1>11, <3>1, <3>2, Zenon
  <2> QED
    BY <1>11, <2>1, Zenon DEF IndexInv
<1>18. SealedInv' /\ CacheInv' /\ ReaderInv' /\ FetchSound'
  BY <1>2, <1>15, SealedKept, CacheKept, ReadersKept, Zenon DEF ReadInv
<1> QED
  BY <1>13, <1>17, <1>18, Zenon DEF ReadInv

\* What the concatenation of two sequences of records holds.
LEMMA ConcatFacts ==
  ASSUME NEW s \in Seq(Rec), NEW t \in Seq(Rec)
  PROVE  /\ s \o t \in Seq(Rec) /\ Len(s \o t) = Len(s) + Len(t)
         /\ \A i \in 1..Len(s) : (s \o t)[i] = s[i]
         /\ \A i \in 1..Len(t) : (s \o t)[Len(s) + i] = t[i]
OBVIOUS

\* The log l after a write of the buffer b behind end bytes of the active file.
Longer(l, b, end) == l \o [i \in DOMAIN b |-> Moved(b[i], end)]

\* It holds the records of both.
LEMMA WriteFacts ==
  ASSUME NEW l \in Seq(Rec), NEW b \in Seq(Rec), NEW end \in Nat
  PROVE  /\ Longer(l, b, end) \in Seq(Rec) /\ Len(Longer(l, b, end)) = Len(l) + Len(b)
         /\ \A i \in 1..Len(l) : Longer(l, b, end)[i] = l[i]
         /\ \A i \in 1..Len(b) : Longer(l, b, end)[Len(l) + i] = Moved(b[i], end)
<1>1. PICK k \in Nat : k = Len(b) /\ DOMAIN b = 1..k
  OBVIOUS
<1>2. PICK x : x = [i \in DOMAIN b |-> Moved(b[i], end)]
  BY Zenon
<1>3. \A i \in 1..k : b[i] \in Rec /\ Moved(b[i], end) \in Rec
  <2>1. \A i \in 1..k : b[i] \in Rec
    BY <1>1
  <2> QED
    BY <2>1, MovedFacts, Zenon
<1>4. x \in [1..k -> Rec] /\ \A i \in 1..k : x[i] = Moved(b[i], end)
  BY <1>1, <1>2, <1>3, Zenon
<1>5. x \in Seq(Rec) /\ Len(x) = k
  BY <1>4
<1>6. Longer(l, b, end) = l \o x
  BY <1>2, Zenon DEF Longer
<1>7. /\ l \o x \in Seq(Rec) /\ Len(l \o x) = Len(l) + Len(x)
      /\ \A i \in 1..Len(l) : (l \o x)[i] = l[i]
      /\ \A i \in 1..Len(x) : (l \o x)[Len(l) + i] = x[i]
  BY <1>5, ConcatFacts, Zenon
<1> QED
  BY <1>1, <1>4, <1>5, <1>6, <1>7, Zenon

\* The write puts the records where the index entries already point.
LEMMA WriteLogReads == ASSUME StoreInv, ReadInv, WriteLog PROVE ReadInv'
<1>1. /\ io = "write" /\ io' = "commit" /\ Len(buffer) = Len(batch)
      /\ UNCHANGED <<segs, writer, sealed_segments, segment_cache, fetch, buffer, buffer_bytes>>
  BY Zenon DEF WriteLog, batchVars, memoryVars
<1>2. PICK n \in Nat, m \in Nat : n = Len(segs) /\ m = Len(log) /\ n \in 1..n
  BY LogFacts DEF ReadInv
<1>3. log \in Seq(Rec) /\ segs \in Seq(Segment)
  BY LogFacts, Zenon DEF ReadInv
<1>4. PICK b \in Seq(Rec), k \in Nat : b = buffer /\ k = Len(b) /\ k > 0
  <2>1. buffer \in Seq(Rec) /\ batch \in Seq(Cmd) /\ Len(batch) > 0
    BY <1>1, Zenon DEF StoreInv, TypeOK, BatchType, BatchInv
  <2> QED
    BY <1>1, <2>1
<1>5. n \in 1..Len(segs) /\ LayoutInv
  BY <1>2, Zenon DEF ReadInv
<1>6. PICK a \in Nat, f \in Seq(Rec) :
        /\ a = segs[n].start /\ a <= m /\ f = File(n) /\ Len(f) = m - a
        /\ \A i \in 1..(m - a) : f[i] = log[a + i]
  <2>1. FileEnd(n) = m
    BY <1>2, Zenon DEF FileEnd
  <2>2. /\ segs[n].start \in Nat /\ segs[n].start <= FileEnd(n)
        /\ File(n) \in Seq(Rec) /\ Len(File(n)) = FileEnd(n) - segs[n].start
        /\ \A i \in 1..(FileEnd(n) - segs[n].start) : File(n)[i] = log[segs[n].start + i]
    BY <1>5, FileFacts, Zenon
  <2> QED
    BY <2>1, <2>2, Zenon
<1>7. PICK end \in Nat : end = EndPosition(f)
  BY EndPositionType
<1>8. PICK g : g = log' /\ g = Longer(log, b, end)
  <2>1. end = EndPosition(File(Active)) /\ b = buffer
    BY <1>2, <1>4, <1>6, <1>7, Zenon DEF Active
  <2> QED
    BY <2>1, Zenon DEF WriteLog, Moved, Longer
<1>9. /\ g \in Seq(Rec) /\ Len(g) = m + k
      /\ \A i \in 1..m : g[i] = log[i]
      /\ \A i \in 1..k : g[m + i] = Moved(b[i], end)
  <2>1. PICK l \in Seq(Rec) : l = log
    BY <1>3, Zenon
  <2>2. g = Longer(l, b, end)
    BY <1>8, <2>1, Zenon
  <2>3. /\ Longer(l, b, end) \in Seq(Rec) /\ Len(Longer(l, b, end)) = Len(l) + Len(b)
        /\ \A i \in 1..Len(l) : Longer(l, b, end)[i] = l[i]
        /\ \A i \in 1..Len(b) : Longer(l, b, end)[Len(l) + i] = Moved(b[i], end)
    BY WriteFacts, Zenon
  <2> QED
    BY <1>2, <1>4, <2>1, <2>2, <2>3, Zenon
<1>10. PICK h \in Seq(Rec) :
         /\ h = File(n)' /\ Len(h) = (m - a) + k
         /\ \A i \in 1..(m - a) : h[i] = f[i]
         /\ \A i \in 1..k : h[(m - a) + i] = Moved(b[i], end)
  <2>a. a <= m
    BY <1>6, Zenon
  <2>1. File(n)' = SubSeq(g, a + 1, m + k)
    BY <1>1, <1>2, <1>6, <1>8, <1>9, Zenon DEF File
  <2>2. a <= m + k /\ m + k \in Nat /\ m + k <= Len(g)
    BY <1>6, <1>9
  <2>3. PICK h : h = SubSeq(g, a + 1, m + k)
    BY Zenon
  <2>4. /\ h \in Seq(Rec) /\ Len(h) = (m + k) - a
        /\ \A i \in 1..((m + k) - a) : h[i] = g[a + i]
    <3>1. /\ SubSeq(g, a + 1, m + k) \in Seq(Rec) /\ Len(SubSeq(g, a + 1, m + k)) = (m + k) - a
          /\ \A i \in 1..((m + k) - a) : SubSeq(g, a + 1, m + k)[i] = g[a + i]
      BY <1>9, <2>2, CutFacts
    <3> QED
      BY <2>3, <3>1, Zenon
  <2>5. (m + k) - a = (m - a) + k
    BY <1>6
  <2>6. ASSUME NEW i \in 1..(m - a) PROVE h[i] = f[i]
    <3>1. i \in 1..((m + k) - a) /\ a + i \in 1..m
      BY <2>a
    <3> QED
      BY <1>6, <1>9, <2>4, <3>1, Zenon
  <2>7. ASSUME NEW i \in 1..k PROVE h[(m - a) + i] = Moved(b[i], end)
    <3>1. (m - a) + i \in 1..((m + k) - a) /\ a + ((m - a) + i) = m + i
      BY <2>a
    <3> QED
      BY <1>9, <2>4, <3>1, Zenon
  <2> QED
    BY <2>1, <2>3, <2>4, <2>5, <2>6, <2>7, Zenon
<1>11. Laid(h) /\ EndPosition(h) = end + EndPosition(b)
  <2>1. Laid(f) /\ Laid(b)
    BY <1>4, <1>5, <1>6, Zenon DEF LayoutInv
  <2>2. Len(h) = Len(f) + Len(b) /\ Len(b) > 0
    BY <1>4, <1>6, <1>10, Zenon
  <2>3. \A i \in 1..Len(f) : h[i] = f[i]
    BY <1>6, <1>10, Zenon
  <2>4. \A i \in 1..Len(b) : h[Len(f) + i] = Moved(b[i], EndPosition(f))
    BY <1>4, <1>6, <1>7, <1>10, Zenon
  <2>5. Laid(h) /\ EndPosition(h) = EndPosition(f) + EndPosition(b)
    BY <2>1, <2>2, <2>3, <2>4, LaidConcat, Zenon
  <2> QED
    BY <1>7, <2>5, Zenon
<1>12. ASSUME NEW j \in 1..n, j # n PROVE File(j)' = File(j)
  <2>1. FileEnd(j)' = FileEnd(j)
    BY <1>1, <1>2, <1>12, Zenon DEF FileEnd
  <2>2. Len(log) <= Len(log') /\ log' \in Seq(Rec) /\ \A i \in 1..Len(log) : log'[i] = log[i]
    <3>1. m <= m + k
      OBVIOUS
    <3> QED
      BY <1>2, <1>8, <1>9, <3>1, Zenon
  <2> QED
    BY <1>1, <1>2, <1>5, <2>1, <2>2, FileSame, Zenon
<1>13. LayoutInv'
  <2>1. m <= m + k
    OBVIOUS
  <2>2. ASSUME NEW j \in 1..n
        PROVE  segs[j].base = segs[j].start /\ segs[j].start <= m + k /\ Laid(File(j)')
    <3>1. segs[j].base = segs[j].start /\ segs[j].start <= m /\ Laid(File(j))
      BY <1>2, <1>5, Zenon DEF LayoutInv
    <3>2. segs[j].start \in Nat
      BY <1>2, <1>5, FileFacts, Zenon
    <3>3. segs[j].start <= m + k
      BY <3>1, <3>2
    <3>4. Laid(File(j)')
      BY <1>10, <1>11, <1>12, <3>1, Zenon
    <3> QED
      BY <3>1, <3>3, <3>4
  <2>3. writer.bytes_written + buffer_bytes = EndPosition(h)
    BY <1>1, <1>2, <1>4, <1>5, <1>6, <1>7, <1>11, Zenon DEF LayoutInv
  <2>4. io' # "down" /\ io' # "open_segment"
    BY <1>1, Zenon
  <2> QED
    BY <1>1, <1>2, <1>5, <1>8, <1>9, <1>10, <2>2, <2>3, <2>4, Zenon DEF LayoutInv
<1>14. ASSUME NEW j \in 1..n, NEW e, EntryExact(j, e) PROVE EntryExact(j, e)'
  <2>1. CASE j # n
    BY <1>1, <1>2, <1>12, <1>14, <2>1, Zenon DEF EntryExact
  <2>2. CASE j = n
    <3>1. PICK o \in Nat, p \in Nat : o = e.offset /\ p = e.pos /\ a <= o
      <4>1. e.offset \in Nat /\ e.pos \in Nat
        BY <1>14, Zenon DEF EntryExact, IndexEntry
      <4> QED
        BY <1>6, <1>14, <2>2, <4>1, Zenon DEF EntryExact
    <3>2. CASE o - a + 1 <= Len(f) /\ p = f[o - a + 1].pos
      <4>1. o - a + 1 \in 1..(m - a) /\ o - a + 1 <= (m - a) + k
        <5>1. a <= m /\ o - a + 1 <= m - a
          BY <1>6, <3>2, Zenon
        <5> QED
          BY <3>1, <5>1, SMTT(30)
      <4>2. h[o - a + 1] = f[o - a + 1]
        BY <1>10, <4>1, Zenon
      <4> QED
        BY <1>1, <1>6, <1>10, <1>14, <2>2, <3>1, <3>2, <4>1, <4>2, Zenon DEF EntryExact
    <3>3. CASE o - m + 1 \in 1..k /\ p = end + b[o - m + 1].pos
      <4>1. PICK q \in 1..k : q = o - m + 1 /\ p = end + b[q].pos /\ o - a + 1 = (m - a) + q
        BY <1>6, <3>3, SMTT(30)
      <4>2. o - a + 1 <= (m - a) + k
        BY <4>1
      <4>3. h[(m - a) + q].pos = p
        <5>1. PICK r \in Rec : r = b[q]
          BY <1>4
        <5>2. Moved(r, end).pos = r.pos + end /\ r.pos \in Nat
          BY MovedFacts, RecordFacts
        <5>3. r.pos + end = end + r.pos
          BY <5>2
        <5> QED
          BY <1>10, <4>1, <5>1, <5>2, <5>3, Zenon
      <4> QED
        BY <1>1, <1>6, <1>10, <1>14, <2>2, <3>1, <4>1, <4>2, <4>3, Zenon DEF EntryExact
    <3>4. \/ o - a + 1 <= Len(f) /\ p = f[o - a + 1].pos
          \/ o - m + 1 \in 1..k /\ p = end + b[o - m + 1].pos
      BY <1>2, <1>4, <1>6, <1>7, <1>14, <2>2, <3>1, Zenon DEF EntryExact
    <3> QED
      BY <3>2, <3>3, <3>4, Zenon
  <2> QED
    BY <2>1, <2>2
<1>15. Grows
  <2>1. n <= n /\ m <= m + k /\ m + k \in Nat
    OBVIOUS
  <2> QED
    BY <1>1, <1>2, <1>8, <1>9, <1>14, <2>1, Zenon DEF Grows
<1>16. IndexInv'
  BY <1>1, <1>2, <1>14, Zenon DEF ReadInv, IndexInv
<1>17. SealedInv' /\ CacheInv' /\ ReaderInv' /\ FetchSound'
  BY <1>1, <1>15, SealedKept, CacheKept, ReadersKept, Zenon DEF ReadInv
<1> QED
  BY <1>13, <1>16, <1>17, Zenon DEF ReadInv

-----------------------------------------------------------------------------
(* Loops: induction over the turns, and the function of their states *)

\* A set of numbers that is not empty has a least element.  The inductions rest on
\* it; it is shown at the end, where the library's theorems come in.
WellOrdered == \A T \in SUBSET Nat : T # {} => \E x \in T : \A y \in T : x <= y

\* Induction over the turns of a loop.
LEMMA Induct ==
  ASSUME WellOrdered, NEW n \in Nat, NEW T, 0 \in T, \A i \in 1..n : i - 1 \in T => i \in T
  PROVE  \A i \in 0..n : i \in T
<1> DEFINE F == {i \in 0..n : i \notin T}
<1> SUFFICES ASSUME F # {} PROVE FALSE
  OBVIOUS
<1>1. F \subseteq Nat
  OBVIOUS
<1>2. PICK x \in F : \A y \in F : x <= y
  <2> HIDE DEF F
  <2> QED
    BY <1>1, Zenon DEF WellOrdered
<1>3. x \in 1..n /\ x - 1 \notin F
  BY <1>2
<1> QED
  BY <1>3

\* Turn k of a loop, of n turns, takes a state d in D to G[k][d] in D.
Loop(n, D, G) == \A k \in 1..n : \A d \in D : G[k][d] \in D

\* The states that the loop passes through from c on.
States(n, D, c, G) ==
  {f \in [0..n -> D] : f[0] = c /\ \A k \in 1..n : f[k] = G[k][f[k - 1]]}

\* A loop has a function of its states.
LEMMA Turns ==
  ASSUME WellOrdered, NEW n \in Nat, NEW D, NEW c \in D, NEW G, Loop(n, D, G)
  PROVE  \E f : f \in States(n, D, c, G)
<1> USE DEF Loop, States
<1> DEFINE Run(m, f) == f[0] = c /\ \A k \in 1..m : f[k] = G[k][f[k - 1]]
           T == {m \in 0..n : \E f \in [0..m -> D] : Run(m, f)}
<1>1. 0 \in T
  <2> DEFINE f == [i \in 0..0 |-> c]
  <2>1. f \in [0..0 -> D] /\ f[0] = c
    OBVIOUS
  <2>2. \A k \in 1..0 : f[k] = G[k][f[k - 1]]
    OBVIOUS
  <2>3. 0 \in 0..n
    OBVIOUS
  <2> HIDE DEF f
  <2> QED
    BY <2>1, <2>2, <2>3, Zenon
<1>2. ASSUME NEW m \in 1..n, m - 1 \in T PROVE m \in T
  <2>1. PICK f \in [0..(m - 1) -> D] : Run(m - 1, f)
    BY <1>2, Zenon
  <2> DEFINE g == [i \in 0..m |-> IF i = m THEN G[m][f[m - 1]] ELSE f[i]]
  <2>2. f[m - 1] \in D /\ G[m][f[m - 1]] \in D
    OBVIOUS
  <2>3. g \in [0..m -> D]
    BY <2>2
  <2>4. \A i \in 0..(m - 1) : g[i] = f[i]
    OBVIOUS
  <2>5. g[m] = G[m][g[m - 1]]
    BY <2>4
  <2>6. \A k \in 1..(m - 1) : g[k] = G[k][g[k - 1]]
    BY <2>1, <2>4
  <2>7. 0 \in 0..(m - 1) /\ \A k \in 1..m : k = m \/ k \in 1..(m - 1)
    OBVIOUS
  <2>8. m \in 0..n
    OBVIOUS
  <2> HIDE DEF g
  <2> QED
    BY <2>1, <2>3, <2>4, <2>5, <2>6, <2>7, <2>8, ZenonT(30)
<1>3. \A m \in 0..n : m \in T
  <2> HIDE DEF T
  <2> QED
    BY <1>1, <1>2, Induct, Zenon
<1>4. n \in T
  BY <1>3
<1> QED
  BY <1>4, Zenon

-----------------------------------------------------------------------------
(* The binary search *)

\* The ranges that a search of n keys passes through.
Ranges(n) == {r \in [first : 0..n, len : 0..n] : r.first + r.len <= n}

\* A turn stays inside the range and shortens it, and leaves a key that is not
\* above the target just below it.
LEMMA NarrowedFacts ==
  ASSUME NEW keys \in Seq(Nat), NEW target \in Nat, NEW r \in Ranges(Len(keys)),
         NEW q, q = Narrowed(keys, target, r)
  PROVE  /\ q \in Ranges(Len(keys))
         /\ q.len = 0 \/ q.len < r.len
         /\ q.first = r.first \/ (q.first \in 1..Len(keys) /\ keys[q.first] <= target)
         /\ q.first + q.len = r.first + r.len
              \/ (q.first + q.len + 1 \in 1..Len(keys) /\ target < keys[q.first + q.len + 1])
<1>1. PICK n \in Nat : n = Len(keys)
  OBVIOUS
<1>2. PICK a \in Nat, b \in Nat : r = [first |-> a, len |-> b] /\ a + b <= n
  BY <1>1 DEF Ranges
<1>3. r.first = a /\ r.len = b
  BY <1>2
<1>4. CASE b = 0
  <2>1. q = r
    BY <1>3, <1>4 DEF Narrowed
  <2> QED
    BY <1>3, <1>4, <2>1
<1>5. CASE b > 0
  <2>1. PICK half \in Nat : half = b \div 2
    OBVIOUS
  <2>2. PICK rest \in Nat : b = half + rest + 1
    <3>1. b - half - 1 \in Nat /\ b = half + (b - half - 1) + 1
      BY <1>5, <2>1
    <3> QED
      BY <3>1
  <2>3. PICK m \in 1..n : m = a + half + 1
    BY <1>2, <2>2
  <2>4. keys[m] \in Nat /\ b # 0
    BY <1>1, <1>5
  <2>5. CASE target < keys[m]
    <3>1. q = [first |-> a, len |-> half]
      BY <1>3, <2>1, <2>3, <2>4, <2>5, Zenon DEF Narrowed
    <3>2. q \in Ranges(n)
      BY <1>2, <2>2, <3>1 DEF Ranges
    <3>3. q.first = a /\ q.len = half
      BY <3>1
    <3>4. a + half + 1 = m /\ half < b
      BY <2>2, <2>3
    <3> QED
      BY <1>1, <1>3, <2>5, <3>2, <3>3, <3>4, Zenon
  <2>6. CASE ~(target < keys[m])
    <3>1. q = [first |-> a + half + 1, len |-> b - half - 1]
      BY <1>3, <2>1, <2>3, <2>4, <2>6, Zenon DEF Narrowed
    <3>2. q = [first |-> m, len |-> rest]
      BY <2>2, <2>3, <3>1
    <3>3. m + rest = a + b /\ rest < b /\ m + rest <= n
      BY <1>2, <2>2, <2>3
    <3>4. keys[m] <= target
      BY <2>4, <2>6
    <3>5. q \in Ranges(n)
      BY <3>2, <3>3 DEF Ranges
    <3>6. q.first = m /\ q.len = rest
      BY <3>2
    <3> QED
      BY <1>1, <1>3, <3>3, <3>4, <3>5, <3>6, Zenon
  <2> QED
    BY <2>5, <2>6, Zenon
<1> QED
  BY <1>4, <1>5

\* The search has a function of its ranges, and each of them leaves a key that
\* is not above the target just below it and one that is above it just behind.
LEMMA SearchFacts ==
  ASSUME WellOrdered, NEW keys \in Seq(Nat), NEW target \in Nat
  PROVE  \E r \in Ranges(Len(keys)) :
           /\ UpperBound(keys, target) = r.first /\ r.len = 0
           /\ r.first = 0 \/ keys[r.first] <= target
           /\ r.first = Len(keys) \/ target < keys[r.first + 1]
<1>1. PICK n \in Nat : n = Len(keys)
  OBVIOUS
<1> DEFINE D == Ranges(n)
           whole == [first |-> 0, len |-> n]
           Step(f, k) == IF k = 0 THEN whole ELSE Narrowed(keys, target, f[k - 1])
           Is(f) == f = [k \in 0..n |-> Step(f, k)]
           range == CHOOSE f : Is(f)
<1>2. UpperBound(keys, target) = range[n].first
  BY <1>1, Zenon DEF UpperBound
<1>3. whole \in D
  BY DEF Ranges
<1>4. \E f \in [0..n -> D] : Is(f)
  <2> DEFINE G == [k \in 1..n |-> [r \in D |-> Narrowed(keys, target, r)]]
  <2>1. Loop(n, D, G)
    BY <1>1, NarrowedFacts, Zenon DEF Loop
  <2>2. PICK f : f \in States(n, D, whole, G)
    <3> HIDE DEF D, whole, G
    <3> QED
      BY <1>3, <2>1, Turns, Zenon
  <2>3. f \in [0..n -> D] /\ f[0] = whole /\ \A k \in 1..n : f[k] = G[k][f[k - 1]]
    <3> HIDE DEF D, whole, G
    <3> QED
      BY <2>2, Zenon DEF States
  <2>4. \A k \in 1..n : k - 1 \in 0..n /\ k # 0
    OBVIOUS
  <2>5. \A k \in 1..n : f[k] = Narrowed(keys, target, f[k - 1])
    <3> HIDE DEF D
    <3> QED
      BY <2>3, <2>4, Zenon
  <2>6. \A k \in 0..n : k = 0 \/ k \in 1..n
    OBVIOUS
  <2>7. \A k \in 0..n : f[k] = Step(f, k)
    BY <2>3, <2>4, <2>5, <2>6, Zenon
  <2>8. f = [k \in 0..n |-> f[k]]
    <3> HIDE DEF D
    <3> QED
      BY <2>3, Zenon
  <2>9. [k \in 0..n |-> f[k]] = [k \in 0..n |-> Step(f, k)]
    BY <2>7, Zenon
  <2> QED
    BY <2>3, <2>8, <2>9, Zenon
<1>5. Is(range)
  BY <1>4, Zenon
<1>6. range[0] = whole /\ \A k \in 1..n : range[k] = Narrowed(keys, target, range[k - 1])
  <2>1. 0 \in 0..n /\ \A k \in 1..n : k \in 0..n /\ k # 0
    OBVIOUS
  <2>2. \A k \in 0..n : range[k] = Step(range, k)
    <3> HIDE DEF range
    <3> QED
      BY <1>5, Zenon
  <2> HIDE DEF range
  <2> QED
    BY <2>1, <2>2, Zenon
<1> HIDE DEF range
<1> DEFINE Good(r) == /\ r.first = 0 \/ keys[r.first] <= target
                      /\ r.first + r.len = n \/ target < keys[r.first + r.len + 1]
           T == {k \in 0..n : range[k] \in D /\ Good(range[k]) /\ range[k].len <= n - k}
<1>7. 0 \in T
  <2>1. whole.first = 0 /\ whole.len = n /\ 0 + n = n /\ n <= n - 0 /\ 0 \in 0..n
    OBVIOUS
  <2> HIDE DEF D, whole
  <2> QED
    BY <1>3, <1>6, <2>1, Zenon
<1>8. ASSUME NEW k \in 1..n, k - 1 \in T PROVE k \in T
  <2>1. PICK r \in D : r = range[k - 1] /\ Good(r) /\ r.len <= n - (k - 1)
    BY <1>8, Zenon
  <2>2. PICK q : q = Narrowed(keys, target, r) /\ q = range[k]
    BY <1>6, <2>1, Zenon
  <2>3. /\ q \in D
        /\ q.len = 0 \/ q.len < r.len
        /\ q.first = r.first \/ keys[q.first] <= target
        /\ q.first + q.len = r.first + r.len \/ target < keys[q.first + q.len + 1]
    BY <1>1, <2>2, NarrowedFacts, Zenon
  <2>4. Good(q)
    BY <2>1, <2>3, Zenon
  <2>5. q.len <= n - k
    <3>1. PICK a \in Nat, b \in Nat : a = q.len /\ b = r.len
      BY <2>3 DEF Ranges
    <3> QED
      BY <2>1, <2>3, <3>1
  <2>6. k \in 0..n
    OBVIOUS
  <2> QED
    BY <2>2, <2>3, <2>4, <2>5, <2>6, Zenon
<1>9. \A k \in 0..n : k \in T
  <2> HIDE DEF T
  <2> QED
    BY <1>7, <1>8, Induct, Zenon
<1>10. PICK r : r = range[n] /\ r \in D /\ Good(r) /\ r.len <= n - n
  <2>1. n \in 0..n
    OBVIOUS
  <2> QED
    BY <1>9, <2>1, Zenon
<1>11. r.len = 0 /\ r.first \in Nat
  BY <1>10 DEF Ranges
<1>12. r.first + r.len = r.first
  BY <1>11
<1> QED
  BY <1>1, <1>2, <1>10, <1>11, <1>12, Zenon

\* Whatever the keys, the search ends inside them, behind a key that is not
\* above the target: all that a lookup relies on.
LEMMA UpperBoundFacts ==
  ASSUME WellOrdered, NEW keys \in Seq(Nat), NEW target \in Nat, NEW it, it = UpperBound(keys, target)
  PROVE  it \in 0..Len(keys) /\ (it # 0 => keys[it] <= target)
<1>1. PICK r \in Ranges(Len(keys)) : it = r.first /\ (r.first = 0 \/ keys[r.first] <= target)
  BY SearchFacts, Zenon
<1>2. r.first \in 0..Len(keys)
  BY DEF Ranges
<1> QED
  BY <1>1, <1>2, Zenon

\* On sorted keys it finds the place where the keys pass the target.
LEMMA UpperBoundCounts ==
  ASSUME WellOrdered, NEW keys \in Seq(Nat), NEW target \in Nat,
         \A i, k \in 1..Len(keys) : i < k => keys[i] <= keys[k]
  PROVE  \A i \in 1..Len(keys) : keys[i] <= target <=> i <= UpperBound(keys, target)
<1>1. PICK n \in Nat : n = Len(keys)
  OBVIOUS
<1>2. PICK r \in Ranges(n) :
        /\ UpperBound(keys, target) = r.first /\ r.len = 0
        /\ r.first = 0 \/ keys[r.first] <= target
        /\ r.first = n \/ target < keys[r.first + 1]
  BY <1>1, SearchFacts, Zenon
<1>3. PICK it \in 0..n : it = r.first
  BY DEF Ranges
<1>4. \A i \in 1..n : keys[i] \in Nat
  BY <1>1
<1>5. ASSUME NEW i \in 1..n, i <= it PROVE keys[i] <= target
  <2>1. it \in 1..n /\ keys[it] <= target /\ (i = it \/ i < it)
    BY <1>2, <1>3, <1>5
  <2>2. keys[i] <= keys[it]
    BY <1>1, <1>4, <2>1
  <2> QED
    BY <1>4, <2>1, <2>2
<1>6. ASSUME NEW i \in 1..n, ~(i <= it) PROVE ~(keys[i] <= target)
  <2>1. it + 1 \in 1..n /\ target < keys[it + 1] /\ (i = it + 1 \/ it + 1 < i)
    BY <1>2, <1>3, <1>6
  <2>2. keys[it + 1] <= keys[i]
    BY <1>1, <1>4, <2>1
  <2> QED
    BY <1>4, <2>1, <2>2
<1> QED
  BY <1>1, <1>2, <1>3, <1>5, <1>6, Zenon

-----------------------------------------------------------------------------
(* The scan of a file *)

\* What the reader has after the first i records of file: as many as it may of
\* the records from place lo on.
Scanned(file, s, i, lo, max) ==
  /\ s \in Seq(Rec) /\ Len(s) <= max
  /\ s = <<>> \/ lo + Len(s) - 1 <= i
  /\ Len(s) = max \/ (s = <<>> /\ i < lo) \/ Len(s) = i - lo + 1
  /\ \A j \in 1..Len(s) : s[j] = file[lo + j - 1]

\* One more record keeps it so.
LEMMA TakeFacts ==
  ASSUME NEW file \in Seq(Rec), NEW i \in 1..Len(file), NEW lo \in Nat, lo >= 1,
         NEW max \in Nat, NEW start \in Nat, file[i].offset >= start <=> i >= lo,
         NEW s, Scanned(file, s, i - 1, lo, max)
  PROVE  Scanned(file, Take(s, file[i], start, max), i, lo, max)
<1>1. PICK m \in Nat : m = Len(s) /\ m <= max
  BY DEF Scanned
<1>2. s \in Seq(Rec) /\ \A j \in 1..m : s[j] = file[lo + j - 1]
  BY <1>1, Zenon DEF Scanned
<1>3. CASE i >= lo /\ m < max
  <2>1. Take(s, file[i], start, max) = Append(s, file[i])
    BY <1>1, <1>3, Zenon DEF Take
  <2>2. m = i - lo
    <3>1. m = 0 \/ m # 0
      OBVIOUS
    <3> QED
      BY <1>1, <1>2, <1>3 DEF Scanned
  <2>3. PICK t : t = Append(s, file[i])
    OBVIOUS
  <2>4. /\ t \in Seq(Rec) /\ Len(t) = m + 1 /\ t[m + 1] = file[i]
        /\ \A j \in 1..m : t[j] = s[j]
    BY <1>1, <1>2, <2>3
  <2>5. \A j \in 1..(m + 1) : t[j] = file[lo + j - 1]
    <3>1. lo + (m + 1) - 1 = i /\ \A j \in 1..(m + 1) : j = m + 1 \/ j \in 1..m
      BY <2>2
    <3> QED
      BY <1>2, <2>4, <3>1, Zenon
  <2>6. m + 1 <= max /\ lo + (m + 1) - 1 <= i /\ m + 1 = i - lo + 1
    BY <1>3, <2>2
  <2> QED
    BY <2>1, <2>3, <2>4, <2>5, <2>6, Zenon DEF Scanned
<1>4. CASE ~(i >= lo /\ m < max)
  <2>1. Take(s, file[i], start, max) = s
    BY <1>1, <1>4, Zenon DEF Take
  <2>2. s = <<>> \/ lo + m - 1 <= i
    BY <1>1 DEF Scanned
  <2>3. m = max \/ (s = <<>> /\ i < lo)
    BY <1>1, <1>4 DEF Scanned
  <2> QED
    BY <1>1, <1>2, <2>1, <2>2, <2>3, Zenon DEF Scanned
<1> QED
  BY <1>3, <1>4, Zenon

\* The records of file that start at a position.
At(file, position) == {i \in 1..Len(file) : file[i].pos = position}

\* f[i] is what a scan from the records at on has after the first i records.
Scans(file, at, start, max, f) ==
  /\ f[0] = <<>>
  /\ \A i \in 1..Len(file) :
       f[i] = IF \A k \in at : i < k THEN <<>> ELSE Take(f[i - 1], file[i], start, max)

\* A read returns what such a scan has after the last record.
ByTurns(file, position, start, max) ==
  \E f : /\ Scans(file, At(file, position), start, max, f)
         /\ ReadFrom(file, position, start, max) = f[Len(file)]

\* The scan has a function of its results, turn by turn.
LEMMA ScanStates ==
  ASSUME WellOrdered, NEW file \in Seq(Rec), NEW start \in Nat, NEW max \in Nat, NEW position \in Nat,
         At(file, position) # {} \/ position >= EndPosition(file)
  PROVE  ByTurns(file, position, start, max)
<1> SUFFICES ASSUME NEW at, at = At(file, position), at # {} \/ position >= EndPosition(file)
             PROVE  \E f : /\ Scans(file, at, start, max, f)
                           /\ ReadFrom(file, position, start, max) = f[Len(file)]
  BY Zenon DEF ByTurns
<1>1. PICK n \in Nat : n = Len(file) /\ DOMAIN file = 1..n
  OBVIOUS
<1> DEFINE D == Seq(Rec)
           Step(f, i) == IF i = 0 \/ \A k \in at : i < k THEN <<>>
                         ELSE Take(f[i - 1], file[i], start, max)
           Is(f) == f = [i \in 0..n |-> Step(f, i)]
           taken == CHOOSE f : Is(f)
<1>2. ScanValid(file) = file
  <2>1. file \in Seq(Rec \cup {Torn}) /\ \A i \in 1..Len(file) : file[i] # Torn
    BY TornAssumption
  <2> QED
    BY <2>1, ScanWhole, Zenon
<1>3. ~(at = {} /\ position < EndPosition(file))
  <2>1. EndPosition(file) \in Nat
    BY EndPositionType
  <2> QED
    BY <2>1
<1>4. ReadFrom(file, position, start, max) = taken[n]
  <2>1. at = {i \in DOMAIN file : file[i].pos = position}
    BY <1>1, Zenon DEF At
  <2>2. ReadRecords(file, position, start, max) = taken[n]
    BY <1>1, <1>3, <2>1, Zenon DEF ReadRecords
  <2> QED
    BY <1>2, <2>2, Zenon DEF ReadFrom
<1>5. \E f \in [0..n -> D] : Is(f)
  <2> DEFINE G == [i \in 1..n |-> [s \in D |-> IF \A k \in at : i < k THEN <<>>
                                               ELSE Take(s, file[i], start, max)]]
  <2>1. Loop(n, D, G)
    <3>1. ASSUME NEW s \in D, NEW i \in 1..n PROVE Take(s, file[i], start, max) \in D
      BY <1>1 DEF Take
    <3>2. <<>> \in D
      OBVIOUS
    <3> HIDE DEF D
    <3> QED
      BY <3>1, <3>2, Zenon DEF Loop
  <2>2. PICK f : f \in States(n, D, <<>>, G)
    <3>1. <<>> \in D
      OBVIOUS
    <3> HIDE DEF D, G
    <3> QED
      BY <2>1, <3>1, Turns, Zenon
  <2> HIDE DEF D
  <2>3. f \in [0..n -> D] /\ f[0] = <<>> /\ \A i \in 1..n : f[i] = G[i][f[i - 1]]
    <3> HIDE DEF G
    <3> QED
      BY <2>2, Zenon DEF States
  <2>4. \A i \in 1..n : i - 1 \in 0..n /\ i # 0
    OBVIOUS
  <2>5. \A i \in 1..n : f[i] = IF \A k \in at : i < k THEN <<>>
                               ELSE Take(f[i - 1], file[i], start, max)
    BY <2>3, <2>4, Zenon
  <2>6. \A i \in 0..n : i = 0 \/ i \in 1..n
    OBVIOUS
  <2>7. \A i \in 0..n : f[i] = Step(f, i)
    BY <2>3, <2>4, <2>5, <2>6, Zenon
  <2>8. f = [i \in 0..n |-> f[i]]
    BY <2>3, Zenon
  <2>9. [i \in 0..n |-> f[i]] = [i \in 0..n |-> Step(f, i)]
    BY <2>7, Zenon
  <2> QED
    BY <2>3, <2>8, <2>9, Zenon
<1>6. Is(taken)
  BY <1>5, Zenon
<1> HIDE DEF taken
<1>7. \A i \in 0..n : taken[i] = Step(taken, i)
  BY <1>6, Zenon
<1>8. 0 \in 0..n /\ \A i \in 1..n : i \in 0..n /\ i # 0
  OBVIOUS
<1> QED
  BY <1>1, <1>4, <1>7, <1>8, Zenon DEF Scans

\* The records of the file are numbered from base on.
Numbered(file, base) == \A i \in 1..Len(file) : file[i].offset = base + i - 1

\* The position is the end of the file, or a record at or before the offset.
Hits(file, position, o) ==
  \/ position >= EndPosition(file)
  \/ \E i \in 1..Len(file) : file[i].pos = position /\ file[i].offset <= o

\* r holds the records of the file from the offset on, at most max of them.
Found(r, file, base, o, max) ==
  /\ r \in Seq(Rec) /\ Len(r) <= max
  /\ \A j \in 1..Len(r) : o - base + j \in 1..Len(file) /\ r[j] = file[o - base + j]

\* A read from the end of the file on finds nothing; a read from a record at or
\* before the offset finds the records from that offset on, up to max of them.
LEMMA ReadFacts ==
  ASSUME WellOrdered, NEW file \in Seq(Rec), Laid(file), NEW base \in Nat, Numbered(file, base),
         NEW o \in Nat, base <= o, NEW max \in Nat, NEW position \in Nat, Hits(file, position, o)
  PROVE  Found(ReadFrom(file, position, o, max), file, base, o, max)
<1>b. /\ \A i \in 1..Len(file) : file[i].offset = base + i - 1
      /\ \/ position >= EndPosition(file)
         \/ \E i \in 1..Len(file) : file[i].pos = position /\ file[i].offset <= o
  BY Zenon DEF Numbered, Hits
<1>c. PICK r : r = ReadFrom(file, position, o, max)
  BY Zenon
<1> SUFFICES /\ r \in Seq(Rec) /\ Len(r) <= max
             /\ \A j \in 1..Len(r) : o - base + j \in 1..Len(file) /\ r[j] = file[o - base + j]
  BY <1>c, Zenon DEF Found
<1>1. PICK n \in Nat : n = Len(file)
  OBVIOUS
<1>2. PICK lo \in Nat : lo = o - base + 1 /\ lo >= 1
  OBVIOUS
<1>3. PICK at : at = At(file, position)
  OBVIOUS
<1>4. at = {i \in 1..n : file[i].pos = position}
  BY <1>1, <1>3, Zenon DEF At
<1>5. PICK f : Scans(file, at, o, max, f) /\ r = f[n]
  <2>1. at # {} \/ position >= EndPosition(file)
    BY <1>1, <1>4, <1>b, Zenon
  <2>2. At(file, position) # {} \/ position >= EndPosition(file)
    BY <1>3, <2>1, Zenon
  <2>3. ByTurns(file, position, o, max)
    BY <2>2, ScanStates, Zenon
  <2> QED
    BY <1>1, <1>3, <1>c, <2>3, Zenon DEF ByTurns
<1>a. /\ f[0] = <<>> /\ r = f[n]
      /\ \A i \in 1..n :
           f[i] = IF \A k \in at : i < k THEN <<>> ELSE Take(f[i - 1], file[i], o, max)
  BY <1>1, <1>5, Zenon DEF Scans
<1>6. CASE at = {}
  <2>1. r = <<>>
    BY <1>a, <1>6
  <2> QED
    BY <2>1
<1>7. CASE at # {}
  <2>1. PICK k \in at : k <= lo
    <3>1. CASE \E i \in 1..n : file[i].pos = position /\ file[i].offset <= o
      <4>1. PICK i \in 1..n : file[i].pos = position /\ base + i - 1 <= o
        BY <1>1, <1>b, <3>1, Zenon
      <4> QED
        BY <1>2, <1>4, <4>1
    <3>2. CASE position >= EndPosition(file)
      <4>1. PICK i \in 1..n : file[i].pos = position
        BY <1>4, <1>7, Zenon
      <4>2. n >= 1 /\ file # <<>> /\ file[i] \in Rec /\ file[n] \in Rec
        BY <1>1
      <4>3. EndPosition(file) = file[n].pos + RecordBytes(file[n])
        BY <1>1, <4>2, Zenon DEF EndPosition
      <4>4. RecordBytes(file[n]) > 0 /\ RecordBytes(file[i]) > 0
            /\ RecordBytes(file[n]) \in Nat /\ RecordBytes(file[i]) \in Nat
        BY <4>2, RecordFacts, Zenon
      <4>5. i = n \/ file[i].pos + RecordBytes(file[i]) <= file[n].pos
        <5>1. DOMAIN file = 1..n /\ n \in 1..n /\ (i = n \/ i < n)
          BY <1>1
        <5> QED
          BY <5>1, Zenon DEF Laid
      <4>6. file[i].pos \in Nat /\ file[n].pos \in Nat
        BY <4>2, RecordFacts, Zenon
      <4> QED
        BY <3>2, <4>1, <4>3, <4>4, <4>5, <4>6
    <3> QED
      BY <1>1, <1>b, <3>1, <3>2, Zenon
  <2> DEFINE T == {i \in 0..n : Scanned(file, f[i], i, lo, max)}
  <2>2. 0 \in T
    <3>1. Scanned(file, <<>>, 0, lo, max)
      BY <1>2 DEF Scanned
    <3> QED
      BY <1>a, <3>1
  <2>3. ASSUME NEW i \in 1..n, i - 1 \in T PROVE i \in T
    <3>1. CASE \A m \in at : i < m
      <4>1. f[i] = <<>> /\ i < lo
        BY <1>4, <1>a, <2>1, <3>1
      <4>2. Scanned(file, <<>>, i, lo, max)
        BY <1>2, <4>1 DEF Scanned
      <4> QED
        BY <4>1, <4>2
    <3>2. CASE ~(\A m \in at : i < m)
      <4>1. f[i] = Take(f[i - 1], file[i], o, max)
        BY <1>a, <3>2, Zenon
      <4>2. Scanned(file, f[i - 1], i - 1, lo, max)
        BY <2>3, Zenon
      <4>3. file[i].offset >= o <=> i >= lo
        <5>1. file[i].offset = base + i - 1
          BY <1>1, <1>b, Zenon
        <5> QED
          BY <1>2, <5>1
      <4>4. Scanned(file, f[i], i, lo, max)
        BY <1>1, <1>2, <4>1, <4>2, <4>3, TakeFacts, Zenon
      <4>5. i \in 0..n
        OBVIOUS
      <4> QED
        BY <4>4, <4>5, Zenon
    <3> QED
      BY <3>1, <3>2, Zenon
  <2>4. \A i \in 0..n : i \in T
    <3> HIDE DEF T
    <3> QED
      BY <2>2, <2>3, Induct, Zenon
  <2>5. Scanned(file, r, n, lo, max)
    <3>1. n \in 0..n
      OBVIOUS
    <3> QED
      BY <1>a, <2>4, <3>1, Zenon
  <2>6. PICK m \in Nat : m = Len(r) /\ (m # 0 => lo + m - 1 <= n)
    BY <2>5 DEF Scanned
  <2>7. ASSUME NEW j \in 1..m PROVE o - base + j \in 1..n /\ lo + j - 1 = o - base + j
    BY <1>2, <2>6
  <2> QED
    BY <1>1, <2>5, <2>6, <2>7, Zenon DEF Scanned
<1> QED
  BY <1>6, <1>7, Zenon

\* A lookup returns the start of the file or the position of an entry that is
\* not above the offset.
LEMMA LookupFacts ==
  ASSUME WellOrdered, NEW idx \in Seq(IndexEntry), NEW o \in Nat
  PROVE  \/ Lookup(idx, o) = 0
         \/ \E e \in Entries(idx) : e.offset <= o /\ Lookup(idx, o) = e.pos
<1>1. PICK keys : keys = [i \in DOMAIN idx |-> idx[i].offset]
  BY Zenon
<1>2. PICK n \in Nat : n = Len(idx) /\ DOMAIN idx = 1..n
  OBVIOUS
<1>3. \A i \in 1..n : idx[i].offset \in Nat
  <2>1. \A i \in 1..n : idx[i] \in IndexEntry
    BY <1>2
  <2>2. \A e \in IndexEntry : e.offset \in Nat
    BY DEF IndexEntry
  <2> QED
    BY <2>1, <2>2, Zenon
<1>4. keys \in Seq(Nat) /\ Len(keys) = n /\ \A i \in 1..n : keys[i] = idx[i].offset
  BY <1>1, <1>2, <1>3
<1>5. PICK it : it = UpperBound(keys, o)
  OBVIOUS
<1>6. it \in 0..n /\ (it # 0 => keys[it] <= o)
  BY <1>4, <1>5, UpperBoundFacts, Zenon
<1>7. Lookup(idx, o) = IF it = 0 THEN 0 ELSE idx[it].pos
  BY <1>1, <1>5, Zenon DEF Lookup
<1>8. CASE it # 0
  <2>1. it \in 1..n
    BY <1>6, <1>8
  <2>2. idx[it] \in Entries(idx) /\ idx[it].offset <= o
    BY <1>2, <1>4, <1>6, <1>8, <2>1, Zenon DEF Entries
  <2> QED
    BY <1>7, <1>8, <2>2, Zenon
<1> QED
  BY <1>7, <1>8, Zenon

-----------------------------------------------------------------------------
(* The steps of a fetch *)

\* No two segments have the same name.
LEMMA SegmentOfFacts ==
  ASSUME StoreInv, LayoutInv, NEW j \in 1..Len(segs)
  PROVE  SegmentOf(segs[j].base) = j
<1>1. PICK n \in Nat : n = Len(segs) /\ DOMAIN segs = 1..n /\ j \in 1..n
  BY LogFacts
<1>2. PICK b : b = segs[j].base
  BY Zenon
<1>3. PICK k : k = SegmentOf(b)
  BY Zenon
<1>4. k \in 1..n /\ segs[k].base = b
  BY <1>1, <1>2, <1>3, Zenon DEF SegmentOf
<1>5. PICK x \in Nat, y \in Nat : x = segs[j].start /\ y = segs[k].start /\ x = y
  <2>1. /\ segs[j].start \in Nat /\ segs[j].base = segs[j].start
        /\ segs[k].start \in Nat /\ segs[k].base = segs[k].start
    BY <1>1, <1>4, FileFacts, Zenon
  <2> QED
    BY <1>2, <1>4, <2>1, Zenon
<1>6. ~(x < x)
  OBVIOUS
<1>7. ~(j < k) /\ ~(k < j)
  BY <1>1, <1>4, <1>5, <1>6, Zenon DEF LayoutInv
<1>8. j = k
  BY <1>1, <1>4, <1>7
<1> QED
  BY <1>2, <1>3, <1>8, Zenon

\* What follows the end of a file lies at or behind it.
LEMMA AtLeast == \A x, y \in Nat : x + y >= x
  OBVIOUS

\* An index all of whose entries point at records of segment j.
ExactIndex(j, idx) == \A e \in Entries(idx) : EntryExact(j, e)

\* An exact index leads to a record at or before the offset, or to the end of
\* the file when the record is still in the buffer.
LEMMA ReadPosition ==
  ASSUME WellOrdered, StoreInv, LayoutInv, NEW j \in 1..Len(segs), NEW idx \in Seq(IndexEntry),
         ExactIndex(j, idx), NEW o \in Nat, segs[j].start <= o
  PROVE  Lookup(idx, o) \in Nat /\ Hits(File(j), Lookup(idx, o), o)
<1>0. File(j) \in Seq(Rec)
  BY FileFacts, Zenon
<1> SUFFICES ASSUME NEW f \in Seq(Rec), f = File(j), NEW p, p = Lookup(idx, o),
                    \A e \in Entries(idx) : EntryExact(j, e)
             PROVE  /\ p \in Nat
                    /\ p >= EndPosition(f) \/ \E i \in 1..Len(f) : f[i].pos = p /\ f[i].offset <= o
  BY <1>0, Zenon DEF ExactIndex, Hits
<1>1. PICK a \in Nat, n \in Nat :
        a = segs[j].start /\ n = Len(f) /\ \A i \in 1..n : f[i].offset = a + i - 1
  <2>1. /\ segs[j].start \in Nat /\ Len(File(j)) = FileEnd(j) - segs[j].start
        /\ \A i \in 1..(FileEnd(j) - segs[j].start) : File(j)[i].offset = segs[j].start + i - 1
    BY FileFacts, Zenon
  <2>2. Len(f) \in Nat
    OBVIOUS
  <2> QED
    BY <2>1, <2>2, Zenon
<1>2. PICK end \in Nat : end = EndPosition(f)
  BY EndPositionType, Zenon
<1>3. CASE p = 0
  <2>1. CASE f = <<>>
    <3>1. end = 0
      BY <1>2, <2>1, Zenon DEF EndPosition
    <3>2. p \in Nat /\ p >= end
      BY <1>3, <3>1
    <3> QED
      BY <1>2, <3>2, Zenon
  <2>2. CASE f # <<>>
    <3>1. 1 \in 1..n
      BY <1>1, <2>2
    <3>2. f[1].pos = 0
      BY <2>2, Zenon DEF LayoutInv, Laid
    <3>3. a + 1 - 1 <= o /\ 0 \in Nat
      BY <1>1
    <3> QED
      BY <1>1, <1>3, <3>1, <3>2, <3>3, Zenon
  <2> QED
    BY <2>1, <2>2, Zenon
<1>4. ASSUME NEW e \in Entries(idx), e.offset <= o, p = e.pos
      PROVE  /\ p \in Nat
             /\ p >= EndPosition(f) \/ \E i \in 1..Len(f) : f[i].pos = p /\ f[i].offset <= o
  <2>1. EntryExact(j, e)
    BY <1>4, Zenon
  <2>2. PICK x \in Nat : x = e.offset /\ p \in Nat /\ a <= x /\ x <= o
    <3>1. e.offset \in Nat /\ e.pos \in Nat
      BY <2>1, Zenon DEF EntryExact, IndexEntry
    <3> QED
      BY <1>1, <1>4, <2>1, <3>1, Zenon DEF EntryExact
  <2>3. CASE x - a + 1 <= n /\ p = f[x - a + 1].pos
    <3>1. PICK i \in 1..n : i = x - a + 1 /\ a + i - 1 <= o
      BY <2>2, <2>3
    <3> QED
      BY <1>1, <2>2, <2>3, <3>1, Zenon
  <2>4. CASE x - Len(log) + 1 \in 1..Len(buffer) /\ p = end + buffer[x - Len(log) + 1].pos
    <3>1. PICK i \in 1..Len(buffer) : p = end + buffer[i].pos
      BY <2>4, Zenon
    <3>2. buffer[i] \in Rec
      <4>1. buffer \in Seq(Rec)
        BY Zenon DEF StoreInv, TypeOK, BatchType
      <4> QED
        BY <4>1
    <3>3. PICK d \in Nat : d = buffer[i].pos
      BY <3>2, RecordFacts, Zenon
    <3>4. p = end + d
      BY <3>1, <3>3, Zenon
    <3>5. p >= end
      BY <3>4, AtLeast, Zenon
    <3> QED
      BY <1>2, <2>2, <3>5, Zenon
  <2>5. \/ x - a + 1 <= n /\ p = f[x - a + 1].pos
        \/ x - Len(log) + 1 \in 1..Len(buffer) /\ p = end + buffer[x - Len(log) + 1].pos
    BY <1>1, <1>2, <1>4, <2>1, <2>2, Zenon DEF EntryExact
  <2> QED
    BY <2>3, <2>4, <2>5, Zenon
<1> QED
  BY <1>3, <1>4, LookupFacts, Zenon

\* r holds the records of the log from the offset on, at most max of them.
Delivered(r, o, max) ==
  /\ r \in Seq(Rec) /\ Len(r) <= max
  /\ \A i \in 1..Len(r) : o + i <= Len(log) /\ r[i] = log[o + i]

\* So the read returns the records of the log from the offset on.
LEMMA ReadResult ==
  ASSUME WellOrdered, StoreInv, LayoutInv, NEW j \in 1..Len(segs), NEW idx \in Seq(IndexEntry),
         ExactIndex(j, idx), NEW o \in Nat, segs[j].start <= o, NEW max \in Nat
  PROVE  Delivered(ReadFrom(File(j), Lookup(idx, o), o, max), o, max)
<1>0. PICK r : r = ReadFrom(File(j), Lookup(idx, o), o, max)
  BY Zenon
<1>1. PICK f \in Seq(Rec) : f = File(j)
  BY FileFacts, Zenon
<1>2. PICK a \in Nat, n \in Nat :
        /\ a = segs[j].start /\ n = Len(f) /\ a + n <= Len(log)
        /\ \A i \in 1..n : f[i] = log[a + i] /\ f[i].offset = a + i - 1
  <2>1. PICK a \in Nat, e \in Nat : a = segs[j].start /\ e = FileEnd(j) /\ a <= e /\ e <= Len(log)
    BY FileFacts, Zenon
  <2>2. /\ Len(f) = e - a
        /\ \A i \in 1..(e - a) : f[i] = log[a + i] /\ f[i].offset = a + i - 1
    BY <1>1, <2>1, FileFacts, Zenon
  <2>3. e - a \in Nat /\ a + (e - a) <= Len(log)
    BY <2>1
  <2> QED
    BY <2>1, <2>2, <2>3, Zenon
<1>3. PICK p : p = Lookup(idx, o)
  BY Zenon
<1>4. p \in Nat /\ Hits(f, p, o)
  <2>1. Lookup(idx, o) \in Nat /\ Hits(File(j), Lookup(idx, o), o)
    BY ReadPosition, Zenon
  <2> QED
    BY <1>1, <1>3, <2>1, Zenon
<1>5. Laid(f) /\ a <= o /\ r = ReadFrom(f, p, o, max)
  BY <1>0, <1>1, <1>2, <1>3, Zenon DEF LayoutInv
<1>6. \A i \in 1..Len(f) : f[i].offset = a + i - 1
  BY <1>2, Zenon
<1>7. /\ r \in Seq(Rec) /\ Len(r) <= max
      /\ \A i \in 1..Len(r) : o - a + i \in 1..Len(f) /\ r[i] = f[o - a + i]
  <2>1. Numbered(f, a)
    BY <1>6, Zenon DEF Numbered
  <2>2. Found(ReadFrom(f, p, o, max), f, a, o, max)
    BY <1>4, <1>5, <2>1, ReadFacts, Zenon
  <2> QED
    BY <1>5, <2>2, Zenon DEF Found
<1>8. ASSUME NEW i \in 1..Len(r) PROVE o + i <= Len(log) /\ r[i] = log[o + i]
  <2>1. PICK k \in 1..n : k = o - a + i /\ r[i] = f[k]
    BY <1>2, <1>7, <1>8, Zenon
  <2>2. a + k = o + i /\ o + i <= Len(log)
    <3>1. PICK l \in Nat : l = Len(log) /\ a + n <= l
      <4>1. Len(log) \in Nat
        BY LogFacts
      <4> QED
        BY <1>2, <4>1, Zenon
    <3>2. i \in Nat
      OBVIOUS
    <3>3. a + k = o + i /\ o + i <= l
      BY <2>1, <3>1, <3>2
    <3> QED
      BY <3>1, <3>3, Zenon
  <2> QED
    BY <1>2, <2>1, <2>2, Zenon
<1> QED
  BY <1>0, <1>7, <1>8, Zenon DEF Delivered

\* What ReaderInv and FetchSound ask of the state x of one consumer.
ReaderOk(x) ==
  /\ x.pc \in {"read", "done"} => x.offset \in Nat /\ x.max \in Nat
  /\ x.pc = "done" =>
       /\ x.result \in Seq(Rec) /\ Len(x.result) <= x.max
       /\ \A i \in 1..Len(x.result) : x.offset + i <= Len(log) /\ x.result[i] = log[x.offset + i]
  /\ x.pc = "read" =>
       /\ x.base <= x.offset /\ x.idx \in Seq(IndexEntry)
       /\ \E j \in 1..Len(segs) : segs[j].base = x.base /\ \A e \in Entries(x.idx) : EntryExact(j, e)

\* A step of one consumer that leaves the files and the buffer alone.
LEMMA ReaderStep ==
  ASSUME StoreInv, ReadInv, UNCHANGED <<log, segs, writer, io, buffer, buffer_bytes, sealed_segments>>,
         NEW c \in Consumers, NEW x, fetch' = [fetch EXCEPT ![c] = x], ReaderOk(x)
  PROVE  LayoutInv' /\ IndexInv' /\ SealedInv' /\ ReaderInv' /\ FetchSound'
<1>1. LayoutInv'
  BY Zenon DEF LayoutInv, File, ReadInv
<1>2. \A j, e : EntryExact(j, e) => EntryExact(j, e)'
  BY ZenonT(30) DEF EntryExact, File
<1>3. IndexInv'
  BY <1>2, Zenon DEF ReadInv, IndexInv
<1>4. SealedInv'
  BY Zenon DEF ReadInv, SealedInv
<1>5. DOMAIN fetch = Consumers
  BY Zenon DEF ReadInv, ReaderInv
<1>6. DOMAIN fetch' = Consumers /\ fetch'[c] = x /\ \A d \in Consumers : d # c => fetch'[d] = fetch[d]
  BY <1>5, Zenon
<1>7. ASSUME NEW d \in Consumers
      PROVE  /\ fetch'[d].pc \in {"read", "done"} => fetch'[d].offset \in Nat /\ fetch'[d].max \in Nat
             /\ fetch'[d].pc = "done" => fetch'[d].result \in Seq(Rec)
             /\ fetch'[d].pc = "read" =>
                  fetch'[d].base <= fetch'[d].offset /\ fetch'[d].idx \in Seq(IndexEntry)
  BY <1>6, Zenon DEF ReadInv, ReaderInv, ReaderOk
<1>8. ASSUME NEW d \in Consumers, fetch'[d].pc = "read"
      PROVE  \E j \in 1..Len(segs) :
               segs[j].base = fetch'[d].base /\ \A e \in Entries(fetch'[d].idx) : EntryExact(j, e)
  BY <1>6, <1>8, Zenon DEF ReadInv, ReaderInv, ReaderOk
<1>9. ReaderInv'
  <2>1. ASSUME NEW d \in Consumers, fetch'[d].pc = "read"
        PROVE  \E j \in 1..Len(segs') :
                 segs'[j].base = fetch'[d].base /\ \A e \in Entries(fetch'[d].idx) : EntryExact(j, e)'
    BY <1>2, <1>8, <2>1, Zenon
  <2> QED
    BY <1>6, <1>7, <2>1, ZenonT(30) DEF ReaderInv
<1>10. ASSUME NEW d \in Consumers, fetch'[d].pc = "done"
       PROVE  /\ Len(fetch'[d].result) <= fetch'[d].max
              /\ \A i \in DOMAIN fetch'[d].result :
                   /\ fetch'[d].offset + i <= Len(log)
                   /\ fetch'[d].result[i] = log[fetch'[d].offset + i]
  <2>1. CASE d = c
    <3>1. DOMAIN x.result = 1..Len(x.result)
      <4>1. x.result \in Seq(Rec)
        BY <1>6, <1>10, <2>1, Zenon DEF ReaderOk
      <4> QED
        BY <4>1
    <3> QED
      BY <1>6, <1>10, <2>1, <3>1, Zenon DEF ReaderOk
  <2>2. CASE d # c
    BY <1>6, <1>10, <2>2, Zenon DEF ReadInv, FetchSound
  <2> QED
    BY <2>1, <2>2, Zenon
<1>11. FetchSound'
  BY <1>10, ZenonT(30) DEF FetchSound
<1> QED
  BY <1>1, <1>3, <1>4, <1>9, <1>11

\* The unlocked half of fetch reads the right records, although the segment may
\* have been sealed, and the index extended, since it was located.
LEMMA FetchReadReads ==
  ASSUME WellOrdered, StoreInv, ReadInv, NEW c \in Consumers, FetchRead(c) PROVE ReadInv'
<1>1. /\ fetch[c].pc = "read"
      /\ UNCHANGED <<log, segs, writer, io, buffer, buffer_bytes, sealed_segments, segment_cache>>
  BY Zenon DEF FetchRead, batchVars, memoryVars, diskVars
<1>2. PICK o \in Nat, max \in Nat, idx \in Seq(IndexEntry), j \in 1..Len(segs) :
        /\ o = fetch[c].offset /\ max = fetch[c].max /\ idx = fetch[c].idx
        /\ segs[j].base = fetch[c].base /\ fetch[c].base <= o
        /\ \A e \in Entries(idx) : EntryExact(j, e)
  BY <1>1, Zenon DEF ReadInv, ReaderInv
<1>3. LayoutInv
  BY Zenon DEF ReadInv
<1>4. PICK r : r = ReadFrom(File(j), Lookup(idx, o), o, max)
  BY Zenon
<1>5. SegmentOf(fetch[c].base) = j /\ segs[j].start <= o
  <2>1. SegmentOf(segs[j].base) = j /\ segs[j].base = segs[j].start
    BY <1>3, SegmentOfFacts, FileFacts, Zenon
  <2> QED
    BY <1>2, <2>1, Zenon
<1>6. PICK x : /\ x = [pc |-> "done", offset |-> o, max |-> max,
                       committed |-> fetch[c].committed, result |-> r]
               /\ fetch' = [fetch EXCEPT ![c] = x]
  BY <1>2, <1>4, <1>5, Zenon DEF FetchRead
<1>7. /\ r \in Seq(Rec) /\ Len(r) <= max
      /\ \A i \in 1..Len(r) : o + i <= Len(log) /\ r[i] = log[o + i]
  <2>1. ExactIndex(j, idx)
    BY <1>2, Zenon DEF ExactIndex
  <2>2. Delivered(ReadFrom(File(j), Lookup(idx, o), o, max), o, max)
    BY <1>3, <1>5, <2>1, ReadResult, Zenon
  <2> QED
    BY <1>4, <2>2, Zenon DEF Delivered
<1>8. x.pc = "done" /\ x.offset = o /\ x.max = max /\ x.result = r
  BY <1>6, Zenon
<1>9. ReaderOk(x)
  BY <1>7, <1>8, Zenon DEF ReaderOk
<1>10. LayoutInv' /\ IndexInv' /\ SealedInv' /\ ReaderInv' /\ FetchSound'
  BY <1>1, <1>6, <1>9, ReaderStep, Zenon
<1>11. CacheInv'
  <2>1. \A j1, e : EntryExact(j1, e) => EntryExact(j1, e)'
    BY <1>1, ZenonT(30) DEF EntryExact, File
  <2> QED
    BY <1>1, <2>1, Zenon DEF ReadInv, CacheInv
<1> QED
  BY <1>10, <1>11, Zenon DEF ReadInv

\* The segment that find_segment_for chooses exists and starts at or before the
\* offset.
LEMMA FindFacts ==
  ASSUME WellOrdered, StoreInv, ReadInv, NEW o \in Nat, NEW base \in FindSegmentFor(o)
  PROVE  base <= o /\ \E j \in 1..Len(segs) : segs[j].base = base
<1>1. PICK it : it = UpperBound(sealed_segments, o)
  BY Zenon
<1>2. PICK k \in Nat, keys \in Seq(Nat) : keys = sealed_segments /\ k = Len(keys)
  BY DEF ReadInv, SealedInv
<1>3. it \in 0..k /\ (it # 0 => keys[it] <= o)
  <2>1. it = UpperBound(keys, o)
    BY <1>1, <1>2, Zenon
  <2> QED
    BY <1>2, <2>1, UpperBoundFacts, Zenon
<1>4. (base = keys[it] /\ it > 0) \/ (base = writer.base /\ o >= writer.base)
  BY <1>1, <1>2, Zenon DEF FindSegmentFor
<1>5. CASE base = keys[it] /\ it > 0
  <2>1. it \in 1..k /\ it # 0
    BY <1>3, <1>5
  <2>2. \E j \in 1..Len(segs) : segs[j].base = keys[it]
    BY <1>2, <2>1, Zenon DEF ReadInv, SealedInv
  <2> QED
    BY <1>3, <1>5, <2>1, <2>2, Zenon
<1>6. CASE base = writer.base /\ o >= writer.base
  <2>1. PICK n \in Nat : n = Len(segs) /\ n \in 1..n
    BY LogFacts DEF ReadInv
  <2>2. segs[n].base = writer.base
    BY <2>1, Zenon DEF ReadInv, LayoutInv
  <2>3. writer.base \in Nat
    BY DEF StoreInv, TypeOK, CounterType
  <2>4. writer.base <= o
    BY <1>6, <2>3
  <2> QED
    BY <1>6, <2>1, <2>2, <2>4, Zenon
<1> QED
  BY <1>4, <1>5, <1>6

\* The index that fetch uses: the cached one, or the one of the file.
IndexOf(base) ==
  IF base \in DOMAIN segment_cache THEN segment_cache[base] ELSE segs[SegmentOf(base)].idx

\* The locked half of fetch takes an exact index of that segment, from the cache
\* or from the file, and leaves it in the cache.
LEMMA FetchLocateReads ==
  ASSUME WellOrdered, StoreInv, ReadInv, NEW c \in Consumers, NEW o \in Nat, NEW n \in Nat, FetchLocate(c, o, n)
  PROVE  ReadInv'
<1>1. UNCHANGED <<log, segs, writer, io, buffer, buffer_bytes, sealed_segments>>
  BY Zenon DEF FetchLocate, batchVars, diskVars
<1>2. \A j, e : EntryExact(j, e) => EntryExact(j, e)'
  BY <1>1, ZenonT(30) DEF EntryExact, File
<1>3. CASE /\ fetch' = [fetch EXCEPT ![c] = [pc |-> "done", offset |-> o, max |-> n,
                                             committed |-> committed_offset, result |-> <<>>]]
           /\ UNCHANGED segment_cache
  <2>1. PICK x : /\ x = [pc |-> "done", offset |-> o, max |-> n,
                         committed |-> committed_offset, result |-> <<>>]
                 /\ fetch' = [fetch EXCEPT ![c] = x]
    BY <1>3, Zenon
  <2>2. x.pc = "done" /\ x.offset = o /\ x.max = n /\ x.result = <<>>
    BY <2>1
  <2>3. <<>> \in Seq(Rec) /\ Len(<<>>) <= n /\ 1..Len(<<>>) = {}
    OBVIOUS
  <2>4. ReaderOk(x)
    BY <2>2, <2>3, Zenon DEF ReaderOk
  <2>5. LayoutInv' /\ IndexInv' /\ SealedInv' /\ ReaderInv' /\ FetchSound'
    BY <1>1, <2>1, <2>4, ReaderStep, Zenon
  <2>6. CacheInv'
    BY <1>1, <1>2, <1>3, Zenon DEF ReadInv, CacheInv
  <2> QED
    BY <2>5, <2>6, Zenon DEF ReadInv
<1>4. ASSUME NEW base \in FindSegmentFor(o),
             segment_cache' = [b \in DOMAIN segment_cache \cup {base} |->
                                 IF b = base THEN IndexOf(base) ELSE segment_cache[b]],
             fetch' = [fetch EXCEPT ![c] = [pc |-> "read", offset |-> o, max |-> n,
                                            committed |-> committed_offset,
                                            base |-> base, idx |-> IndexOf(base)]]
      PROVE  ReadInv'
  <2>0. PICK idx : idx = IndexOf(base)
    BY Zenon
  <2>1. base <= o
    BY FindFacts, Zenon
  <2>2. PICK j \in 1..Len(segs) : segs[j].base = base /\ idx \in Seq(IndexEntry) /\ ExactIndex(j, idx)
    <3>1. CASE base \in DOMAIN segment_cache
      BY <2>0, <3>1, Zenon DEF ReadInv, CacheInv, ExactIndex, IndexOf
    <3>2. CASE base \notin DOMAIN segment_cache
      <4>1. PICK j \in 1..Len(segs) : segs[j].base = base
        BY FindFacts, Zenon
      <4>2. SegmentOf(base) = j
        BY <4>1, SegmentOfFacts, Zenon DEF ReadInv
      <4>3. segs[j] \in Segment
        BY LogFacts DEF ReadInv
      <4>4. segs[j].idx \in Seq(IndexEntry)
        BY <4>3, SegmentFacts, Zenon
      <4>5. idx = segs[j].idx
        BY <2>0, <3>2, <4>2, Zenon DEF IndexOf
      <4> QED
        BY <4>1, <4>4, <4>5, Zenon DEF ReadInv, IndexInv, ExactIndex
    <3> QED
      BY <3>1, <3>2, Zenon
  <2>3. PICK x : /\ x = [pc |-> "read", offset |-> o, max |-> n,
                         committed |-> committed_offset, base |-> base, idx |-> idx]
                 /\ fetch' = [fetch EXCEPT ![c] = x]
    BY <1>4, <2>0, Zenon
  <2>4. x.pc = "read" /\ x.offset = o /\ x.max = n /\ x.base = base /\ x.idx = idx
    BY <2>3, Zenon
  <2>5. ReaderOk(x)
    BY <2>1, <2>2, <2>4, Zenon DEF ReaderOk, ExactIndex
  <2>6. LayoutInv' /\ IndexInv' /\ SealedInv' /\ ReaderInv' /\ FetchSound'
    BY <1>1, <2>3, <2>5, ReaderStep, Zenon
  <2>7. /\ DOMAIN segment_cache' = DOMAIN segment_cache \cup {base}
        /\ segment_cache'[base] = idx
        /\ \A b \in DOMAIN segment_cache : b # base => segment_cache'[b] = segment_cache[b]
    BY <1>4, <2>0, Zenon
  <2>8. ASSUME NEW b \in DOMAIN segment_cache'
        PROVE  /\ segment_cache'[b] \in Seq(IndexEntry)
               /\ \E k \in 1..Len(segs) :
                    segs[k].base = b /\ \A e \in Entries(segment_cache'[b]) : EntryExact(k, e)
    <3>1. CASE b = base
      BY <2>2, <2>7, <3>1, Zenon DEF ExactIndex
    <3>2. CASE b # base
      <4>1. b \in DOMAIN segment_cache /\ segment_cache'[b] = segment_cache[b]
        BY <2>7, <3>2, Zenon
      <4> QED
        BY <4>1, Zenon DEF ReadInv, CacheInv
    <3> QED
      BY <3>1, <3>2, Zenon
  <2>9. CacheInv'
    BY <1>1, <1>2, <2>8, Zenon DEF CacheInv
  <2> QED
    BY <2>6, <2>9, Zenon DEF ReadInv
<1> QED
  BY <1>3, <1>4, Zenon DEF FetchLocate, IndexOf

-----------------------------------------------------------------------------
(* Opening, and the theorem *)

\* A store that was closed has no partial record: its last file is read as it is.
LEMMA RecoverWhole ==
  ASSUME StoreInv, LayoutInv, NEW n \in Nat, n = Len(segs)
  PROVE  /\ SubSeq(log, 1, segs[Active].start + Len(Recovered)) = log
         /\ Recovered = File(n) /\ Active = n
<1>1. PICK m \in Nat : m = Len(log) /\ n \in 1..Len(segs) /\ log \in Seq(Rec) /\ Active = n
  BY LogFacts DEF Active
<1>2. PICK f : f = File(n) /\ f \in Seq(Rec) /\ Len(f) = FileEnd(n) - segs[n].start
  BY <1>1, FileFacts, Zenon
<1>3. f \in Seq(Rec \cup {Torn}) /\ \A i \in 1..Len(f) : f[i] # Torn
  <2>1. \A i \in 1..Len(f) : f[i] \in Rec
    BY <1>2
  <2>2. \A i \in 1..Len(f) : f[i] # Torn
    BY <2>1, TornAssumption, Zenon
  <2> QED
    BY <1>2, <2>2
<1>4. Recovered = f
  <2>1. ScanValid(f) = f
    BY <1>3, ScanWhole, Zenon
  <2> QED
    BY <1>1, <1>2, <2>1, Zenon DEF Recovered
<1>5. PICK a \in Nat : a = segs[n].start /\ Len(f) = m - a
  <2>1. FileEnd(n) = m
    BY <1>1, Zenon DEF FileEnd
  <2>2. segs[n].start \in Nat
    BY <1>1, FileFacts, Zenon
  <2> QED
    BY <1>2, <2>1, <2>2, Zenon
<1>6. a + (m - a) = m /\ SubSeq(log, 1, m) = log
  BY <1>1
<1>7. SubSeq(log, 1, segs[Active].start + Len(Recovered)) = log
  BY <1>1, <1>4, <1>5, <1>6, Zenon
<1> QED
  BY <1>1, <1>2, <1>4, <1>7, Zenon

\* Opening a closed store finds the segments and the end of the last one.
LEMMA OpenReads == ASSUME StoreInv, ReadInv, Open PROVE ReadInv'
<1>1. LayoutInv /\ io = "exited" /\ io' = "take" /\ segs' = segs
  BY Zenon DEF Open, ReadInv, LayoutInv
<1>2. PICK n \in Nat : n = Len(segs) /\ n \in 1..n /\ n \in 1..Len(segs)
  BY <1>1, LogFacts
<1>3. log' = log /\ Recovered = File(n) /\ Active = n
  BY <1>1, <1>2, RecoverWhole, Zenon DEF Open
<1>4. /\ buffer' = <<>> /\ buffer_bytes' = 0 /\ segment_cache' = <<>>
      /\ fetch' = [c \in Consumers |-> NoFetch]
      /\ sealed_segments' = [j \in 1..(n - 1) |-> segs[j].base]
      /\ writer' = NewWriter(segs[n].base, RecoveredNextOffset, EndPosition(File(n)))
  BY <1>3, Zenon DEF Open, FreshMemory
<1>5. writer'.base = segs[n].base /\ writer'.bytes_written = EndPosition(File(n))
  BY <1>4 DEF NewWriter
<1>6. \A j : File(j)' = File(j)
  BY <1>1, <1>3, Zenon DEF File
<1>7. LayoutInv'
  <2>1. Laid(buffer') /\ buffer_bytes' = EndPosition(buffer')
    BY <1>4 DEF Laid, EndPosition
  <2>2. io' # "down" /\ io' # "open_segment" /\ io' # "commit"
    BY <1>1
  <2> QED
    BY <1>1, <1>2, <1>3, <1>5, <1>6, <2>1, <2>2, Zenon DEF LayoutInv
<1>8. IndexInv'
  <2>1. \A j, e : EntryExact(j, e) => EntryExact(j, e)'
    BY <1>1, <1>3, <1>6, Zenon DEF EntryExact
  <2> QED
    BY <1>1, <2>1, Zenon DEF ReadInv, IndexInv
<1>9. CacheInv'
  <2>1. DOMAIN segment_cache' = {}
    BY <1>4
  <2> QED
    BY <2>1, Zenon DEF CacheInv
<1>10. SealedInv'
  <2>1. \A j \in 1..(n - 1) : j \in 1..Len(segs)
    BY <1>2
  <2>2. \A j \in 1..(n - 1) : segs[j].base \in Nat
    <3>1. \A j \in 1..Len(segs) : segs[j].base \in Nat
      BY <1>1, FileFacts, Zenon
    <3> QED
      BY <2>1, <3>1, Zenon
  <2>3. PICK s : s = sealed_segments' /\ s = [j \in 1..(n - 1) |-> segs[j].base]
    BY <1>4, Zenon
  <2>4. s \in [1..(n - 1) -> Nat] /\ n - 1 \in Nat
    <3>1. s \in [1..(n - 1) -> Nat]
      BY <2>2, <2>3, Zenon
    <3> QED
      BY <1>2, <3>1
  <2>5. s \in Seq(Nat) /\ Len(s) = n - 1
    BY <2>4
  <2>6. \A i \in 1..(n - 1) : s[i] = segs[i].base
    BY <2>3, Zenon
  <2> QED
    BY <1>1, <2>1, <2>3, <2>5, <2>6, Zenon DEF SealedInv
<1>11. ReaderInv' /\ FetchSound'
  <2>1. NoFetch.pc \notin {"read", "done"} /\ NoFetch.pc # "read" /\ NoFetch.pc # "done"
    BY DEF NoFetch
  <2>2. DOMAIN fetch' = Consumers /\ \A c \in Consumers : fetch'[c] = NoFetch
    BY <1>4, Zenon
  <2> QED
    BY <2>1, <2>2, Zenon DEF ReaderInv, FetchSound
<1> QED
  BY <1>7, <1>8, <1>9, <1>10, <1>11, Zenon DEF ReadInv

\* The empty store.
LEMMA InitReads == ASSUME Init PROVE ReadInv
<1>1. /\ io = "take" /\ log = <<>> /\ segs = <<[base |-> 0, start |-> 0, idx |-> <<>>]>>
      /\ buffer = <<>> /\ buffer_bytes = 0 /\ writer = NewWriter(0, 0, 0)
      /\ sealed_segments = <<>> /\ segment_cache = <<>> /\ fetch = [c \in Consumers |-> NoFetch]
  BY Zenon DEF Init
<1>2. /\ Len(segs) = 1 /\ 1..Len(segs) = {1} /\ Len(log) = 0 /\ segs[1].base = 0
      /\ segs[1].start = 0 /\ segs[1].idx = <<>> /\ writer.base = 0 /\ writer.bytes_written = 0
  BY <1>1 DEF NewWriter
<1>3. File(1) = <<>>
  BY <1>1, <1>2 DEF File
<1>4. Laid(<<>>) /\ EndPosition(<<>>) = 0
  BY DEF Laid, EndPosition
<1>5. ~(1 < 1) /\ 0 <= 0 /\ 1 \in {1} /\ \A j \in {1} : j = 1
  OBVIOUS
<1>6. LayoutInv
  <2>1. io # "down" /\ io # "open_segment" /\ io # "commit"
    BY <1>1, Zenon
  <2> QED
    BY <1>1, <1>2, <1>3, <1>4, <1>5, <2>1, Zenon DEF LayoutInv
<1>7. IndexInv
  <2>1. Entries(segs[1].idx) = {}
    BY <1>2 DEF Entries
  <2> QED
    BY <1>2, <1>5, <2>1, Zenon DEF IndexInv
<1>8. CacheInv
  <2>1. DOMAIN segment_cache = {}
    BY <1>1
  <2> QED
    BY <2>1, Zenon DEF CacheInv
<1>9. SealedInv
  <2>1. <<>> \in Seq(Nat) /\ 1..Len(<<>>) = {}
    OBVIOUS
  <2> QED
    BY <1>1, <2>1, Zenon DEF SealedInv
<1>10. ReaderInv /\ FetchSound
  <2>1. NoFetch.pc \notin {"read", "done"} /\ NoFetch.pc # "read" /\ NoFetch.pc # "done"
    BY DEF NoFetch
  <2>2. DOMAIN fetch = Consumers /\ \A c \in Consumers : fetch[c] = NoFetch
    BY <1>1, Zenon
  <2> QED
    BY <2>1, <2>2, Zenon DEF ReaderInv, FetchSound
<1> QED
  BY <1>6, <1>7, <1>8, <1>9, <1>10, Zenon DEF ReadInv

\* Every step but a crash keeps the readers right.
LEMMA StepReads == ASSUME WellOrdered, StoreInv, ReadInv, [Next]_vars, ~Crash PROVE ReadInv'
<1> DEFINE same == UNCHANGED <<log, segs, writer, sealed_segments, segment_cache, fetch, buffer, buffer_bytes>>
<1> USE DEF batchVars, memoryVars, diskVars
<1>0. io # "down"
  BY Zenon DEF ReadInv, LayoutInv
<1>1. CASE UNCHANGED vars
  <2>1. same /\ io' = io
    BY <1>1, Zenon DEF vars
  <2> QED
    BY <1>0, <2>1, ReadKept, Zenon
<1>2. ASSUME NEW v \in Values, NEW s \in Sizes, AppendRecord(v, s) PROVE ReadInv'
  <2>1. same /\ io' = io
    BY <1>2, Zenon DEF AppendRecord
  <2> QED
    BY <1>0, <2>1, ReadKept, Zenon
<1>3. ASSUME NEW c \in Callbacks, NEW o \in 0..(MaxOffset - 1), SetOnceCommitCallback(c, o)
      PROVE  ReadInv'
  <2>1. same /\ io' = io
    BY <1>3, Zenon DEF SetOnceCommitCallback
  <2> QED
    BY <1>0, <2>1, ReadKept, Zenon
<1>4. ASSUME NEW c \in Consumers, NEW o \in 0..(MaxOffset - 1), NEW n \in FetchSizes,
             FetchLocate(c, o, n)
      PROVE  ReadInv'
  <2>1. o \in Nat /\ n \in Nat
    BY StoreAssumption
  <2> QED
    BY <1>4, <2>1, FetchLocateReads, Zenon
<1>5. ASSUME NEW c \in Consumers, FetchRead(c) PROVE ReadInv'
  BY <1>5, FetchReadReads, Zenon
<1>6. CASE Shutdown
  <2>1. same /\ io' = io
    BY <1>6, Zenon DEF Shutdown
  <2> QED
    BY <1>0, <2>1, ReadKept, Zenon
<1>7. CASE PopRecord
  <2>1. /\ same /\ io \notin {"commit", "write"} /\ io' \in {"write", "gather", "pop"}
    BY <1>7, Zenon DEF PopRecord
  <2> QED
    BY <2>1, ReadKept
<1>8. CASE GatherTimeout
  <2>1. same /\ io = "gather" /\ io' = "write"
    BY <1>8, Zenon DEF GatherTimeout
  <2> QED
    BY <2>1, ReadKept
<1>9. CASE ExitLoop
  <2>1. same /\ io = "take" /\ io' = "exited"
    BY <1>9, Zenon DEF ExitLoop
  <2> QED
    BY <2>1, ReadKept
<1>10. CASE SerializeRecord
  BY <1>10, SerializeReads
<1>11. CASE WriteLog
  BY <1>11, WriteLogReads
<1>12. CASE Commit
  BY <1>12, CommitReads
<1>13. CASE CollectCallbacks
  <2>1. same /\ io = "fire" /\ io' = "callback"
    BY <1>13, Zenon DEF CollectCallbacks
  <2> QED
    BY <2>1, ReadKept
<1>14. CASE RunCallbacks
  <2>1. same /\ io = "callback" /\ io' = "policy"
    BY <1>14, Zenon DEF RunCallbacks
  <2> QED
    BY <2>1, ReadKept
<1>15. CASE SealSegment
  BY <1>15, SealReads
<1>16. CASE OpenSegment
  BY <1>16, OpenSegmentReads
<1>17. CASE FlushPolicy
  BY <1>17, FlushPolicyReads
<1>18. CASE Open
  BY <1>18, OpenReads
<1> QED
  BY ZenonT(30), <1>1, <1>2, <1>3, <1>4, <1>5, <1>6, <1>7, <1>8, <1>9, <1>10, <1>11, <1>12, <1>13,
     <1>14, <1>15, <1>16, <1>17, <1>18 DEF Next, IoStep, ClientStep

-----------------------------------------------------------------------------
(* Until the first crash *)

\* Only a crash is counted as one.
LEMMA CrashCount ==
  ASSUME [Next]_vars PROVE crashes' = crashes \/ (Crash /\ crashes' = crashes + 1)
BY ZenonT(30) DEF Next, IoStep, ClientStep, vars, AppendRecord, SetOnceCommitCallback, FetchLocate,
   FetchRead, Shutdown, PopRecord, GatherTimeout, ExitLoop, SerializeRecord, WriteLog, Commit,
   CollectCallbacks, RunCallbacks, SealSegment, OpenSegment, FlushPolicy, Open, Crash

\* Both invariants, until the first crash.
UntilCrash == crashes \in Nat /\ (crashes = 0 => StoreInv /\ ReadInv)

\* A new store has them.
LEMMA UntilCrashInit == ASSUME Init, StoreInv PROVE UntilCrash
<1>1. crashes \in Nat
  BY Zenon DEF Init
<1> QED
  BY <1>1, InitReads, Zenon DEF UntilCrash

\* Every step keeps them that keeps StoreInv, unless it is a crash.
LEMMA UntilCrashStep ==
  ASSUME WellOrdered, UntilCrash, [Next]_vars, StoreInv /\ ~Crash => StoreInv'
  PROVE  UntilCrash'
<1>0. PICK n \in Nat : n = crashes
  BY Zenon DEF UntilCrash
<1>1. CASE crashes' = crashes + 1
  <2>1. crashes' \in Nat /\ crashes' # 0
    BY <1>0, <1>1
  <2> QED
    BY <2>1, Zenon DEF UntilCrash
<1>2. CASE crashes' = crashes /\ ~Crash
  <2>1. ASSUME crashes = 0 PROVE StoreInv' /\ ReadInv'
    BY <1>2, <2>1, StepReads, Zenon DEF UntilCrash
  <2> QED
    BY <1>2, <2>1, Zenon DEF UntilCrash
<1>3. Crash => crashes' = crashes + 1
  BY Zenon DEF Crash
<1> QED
  BY <1>1, <1>2, <1>3, CrashCount, Zenon

\* The proofs about StoreInv, of the same variables and constants.
Store == INSTANCE PartitionStoreSteps

\* The store those proofs are about is this one.
LEMMA SameStore ==
  (Init <=> Store!Init) /\ (StoreInv <=> Store!StoreInv) /\ (StoreInv' <=> Store!StoreInv')
BY Zenon
   DEF BatchInv, BatchType, CallbackInv, Cmd, CounterType, DiskType, ExitInv, HandedInv,
          IndexEntry, Init, LogInv, NewWriter, NoFetch, OnceCallback, OnceType, QueueInv,
          QueueStart, QueueType, Rec, Running, SegInv, Segment, StoreInv, TypeOK,
          Store!BatchInv, Store!BatchType, Store!CallbackInv, Store!Cmd, Store!CounterType,
          Store!DiskType, Store!ExitInv, Store!HandedInv, Store!IndexEntry, Store!Init,
          Store!LogInv, Store!NewWriter, Store!NoFetch, Store!OnceCallback, Store!OnceType,
          Store!QueueInv, Store!QueueStart, Store!QueueType, Store!Rec, Store!Running,
          Store!SegInv, Store!Segment, Store!StoreInv, Store!TypeOK

\* It takes the same steps.
LEMMA SameSteps == ([Next]_vars <=> [Store!Next]_(Store!vars)) /\ (Crash <=> Store!Crash)
<1> USE DEF Active, Running, batchVars, diskVars, memoryVars, onceVars, queueVars, Store!Active,
         Store!Running, Store!batchVars, Store!diskVars, Store!memoryVars, Store!onceVars,
         Store!queueVars
<1>1. PopRecord <=> Store!PopRecord
  BY ZenonT(30) DEF BatchFull, PopRecord, RecordBytes, Store!BatchFull, Store!PopRecord,
     Store!RecordBytes
<1>2. GatherTimeout <=> Store!GatherTimeout
  BY ZenonT(30) DEF GatherTimeout, Store!GatherTimeout
<1>3. ExitLoop <=> Store!ExitLoop
  BY ZenonT(30) DEF ExitLoop, FlushActive, Store!ExitLoop, Store!FlushActive
<1>4. SerializeRecord <=> Store!SerializeRecord
  BY ZenonT(30) DEF RecordBytes, SerializeRecord, Store!RecordBytes, Store!SerializeRecord
<1>5. WriteLog <=> Store!WriteLog
  BY ZenonT(30) DEF EndPosition, File, RecordBytes, WriteLog, Store!EndPosition, Store!File,
     Store!RecordBytes, Store!WriteLog
<1>6. Commit <=> Store!Commit
  BY ZenonT(30) DEF Commit, Store!Commit
<1>7. CollectCallbacks <=> Store!CollectCallbacks
  BY ZenonT(30) DEF CollectCallbacks, Store!CollectCallbacks
<1>8. RunCallbacks <=> Store!RunCallbacks
  BY ZenonT(30) DEF RunCallbacks, Store!RunCallbacks
<1>9. SealSegment <=> Store!SealSegment
  BY ZenonT(30) DEF FlushActive, SealSegment, Store!FlushActive, Store!SealSegment
<1>10. OpenSegment <=> Store!OpenSegment
  BY ZenonT(30) DEF BatchDone, NewWriter, OpenSegment, Store!BatchDone, Store!NewWriter,
     Store!OpenSegment
<1>11. FlushPolicy <=> Store!FlushPolicy
  BY ZenonT(30) DEF BatchDone, FlushActive, FlushPolicy, Store!BatchDone, Store!FlushActive,
     Store!FlushPolicy
<1>12. ASSUME NEW v, NEW s PROVE AppendRecord(v, s) <=> Store!AppendRecord(v, s)
  BY ZenonT(30) DEF AppendRecord, QueueLocked, Store!AppendRecord, Store!QueueLocked
<1>13. ASSUME NEW c, NEW o PROVE SetOnceCommitCallback(c, o) <=> Store!SetOnceCommitCallback(c, o)
  BY ZenonT(30) DEF SetOnceCommitCallback, Unregistered, Store!SetOnceCommitCallback,
     Store!Unregistered
<1>14. ASSUME NEW c, NEW o, NEW n PROVE FetchLocate(c, o, n) <=> Store!FetchLocate(c, o, n)
  BY ZenonT(30) DEF FetchLocate, FindSegmentFor, Narrowed, SegmentOf, UpperBound,
     Store!FetchLocate, Store!FindSegmentFor, Store!Narrowed, Store!SegmentOf,
     Store!UpperBound
<1>15. ASSUME NEW c PROVE FetchRead(c) <=> Store!FetchRead(c)
  BY ZenonT(30) DEF EndPosition, FetchRead, File, Lookup, Narrowed, ReadFrom, ReadRecords,
     RecordBytes, ScanValid, SegmentOf, Take, UpperBound, Store!EndPosition,
     Store!FetchRead, Store!File, Store!Lookup, Store!Narrowed,
     Store!ReadFrom, Store!ReadRecords, Store!RecordBytes, Store!ScanValid,
     Store!SegmentOf, Store!Take, Store!UpperBound
<1>16. Shutdown <=> Store!Shutdown
  BY ZenonT(30) DEF QueueLocked, Shutdown, Store!QueueLocked, Store!Shutdown
<1>17. Open <=> Store!Open
  BY ZenonT(30) DEF EndPosition, File, FreshMemory, NewWriter, NoFetch, Open, RecordBytes,
     Recovered, RecoveredNextOffset, ScanValid, Store!EndPosition, Store!File,
     Store!FreshMemory, Store!NewWriter, Store!NoFetch, Store!Open,
     Store!RecordBytes, Store!Recovered, Store!RecoveredNextOffset,
     Store!ScanValid
<1>18. Crash <=> Store!Crash
  BY ZenonT(30) DEF Crash, CrashTail, EndPosition, FreshMemory, NewWriter, NoFetch, RecordBytes,
     ZeroRecord, Store!Crash, Store!CrashTail, Store!EndPosition,
     Store!FreshMemory, Store!NewWriter, Store!NoFetch, Store!RecordBytes,
     Store!ZeroRecord
<1>19. (UNCHANGED vars) <=> (UNCHANGED Store!vars)
  BY Zenon DEF vars, Store!vars
<1> QED
  BY ZenonT(30), <1>1, <1>2, <1>3, <1>4, <1>5, <1>6, <1>7, <1>8, <1>9, <1>10, <1>11, <1>12, <1>13, <1>14,
        <1>15, <1>16, <1>17, <1>18, <1>19
     DEF Next, IoStep, ClientStep, Store!Next, Store!IoStep, Store!ClientStep

\* StoreInv holds at first, and a step that is not a crash preserves it.
LEMMA StoreSteps ==
  /\ Init => StoreInv
  /\ StoreInv /\ [Next]_vars /\ ~Crash => StoreInv'
<1>1. Torn \notin Store!Rec
  BY TornAssumption, Zenon DEF Rec, Store!Rec
<1>2. Init => StoreInv
  BY <1>1, SameStore, Store!InitInv, StoreAssumption, HeaderAssumption, Zenon
<1>3. ASSUME StoreInv, [Next]_vars, ~Crash PROVE StoreInv'
  <2>1. Store!StoreInv /\ [Store!Next]_(Store!vars) /\ ~Store!Crash
    BY <1>3, SameStore, SameSteps, Zenon
  <2>2. Store!StoreInv'
    BY <1>1, <2>1, Store!StepInv, StoreAssumption, HeaderAssumption, Zenon
  <2> QED
    BY <2>2, SameStore, Zenon
<1> QED
  BY <1>2, <1>3, Zenon

-----------------------------------------------------------------------------
(* The theorems *)

INSTANCE WellFoundedInduction

\* The numbers are well-ordered.
LEMMA NaturalsWellOrdered == WellOrdered
<1> SUFFICES ASSUME NEW T \in SUBSET Nat, T # {} PROVE \E x \in T : \A y \in T : x <= y
  BY Zenon DEF WellOrdered
<1>1. \E x \in T : \A y \in T : ~ (<<y, x>> \in OpToRel(<, Nat))
  BY WFMin, NatLessThanWellFounded, Zenon
<1>2. PICK x \in T : \A y \in T : ~ (<<y, x>> \in OpToRel(<, Nat))
  BY <1>1, Zenon
<1>3. ASSUME NEW y \in T PROVE x <= y
  <2>1. ~ (y < x)
    BY <1>2, ZenonT(30) DEF OpToRel
  <2> QED
    BY <2>1
<1> QED
  BY <1>3, Zenon

\* On sorted keys the binary search finds the place where the keys pass the
\* target: std::upper_bound, for the sealed segments and the index entries.
THEOREM UpperBoundIsExact ==
  ASSUME NEW keys \in Seq(Nat), NEW target \in Nat,
         \A i, k \in 1..Len(keys) : i < k => keys[i] <= keys[k]
  PROVE  \A i \in 1..Len(keys) : keys[i] <= target <=> i <= UpperBound(keys, target)
BY NaturalsWellOrdered, UpperBoundCounts, Zenon

\* What a fetch returns are consecutive records of the log, the first of them at
\* the requested offset, and no more than it asked for, in every run up to its first
\* crash, orderly restarts included: for all sizes of batches and segments, index
\* intervals and any number of consumers, and however the two halves of fetch
\* interleave with indexing, writing and rotation.
THEOREM FetchIsSound == Spec => [](crashes = 0 => FetchSound)
<1>1. Init => UntilCrash
  BY StoreSteps, UntilCrashInit, Zenon
<1>2. UntilCrash /\ [Next]_vars => UntilCrash'
  BY StoreSteps, NaturalsWellOrdered, UntilCrashStep, Zenon
<1>3. UntilCrash => (crashes = 0 => FetchSound)
  BY Zenon DEF UntilCrash, ReadInv
<1> QED
  BY <1>1, <1>2, <1>3, PTL DEF Spec

=============================================================================

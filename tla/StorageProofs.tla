--------------------------- MODULE StorageProofs ---------------------------
(***************************************************************************)
(* Partitions keep apart, however many there are and whatever is written   *)
(* to them: no two of them have the same path, and a writer, also one that *)
(* dies half way, changes the file of its own partition alone.  So a file  *)
(* is what the last write to its partition has made of it, which is what   *)
(* the theorems on reads and on windows rest on.                           *)
(***************************************************************************)
EXTENDS Storage, DataProofs

\* What joining the parts of a path gives.
LEMMA FourParts ==
  ASSUME NEW a, NEW b, NEW c, NEW d
  PROVE  <<a>> \o <<b, c, d>> = <<a, b, c, d>>
<1> DEFINE S == {a, b, c, d}
           joined == <<a>> \o <<b, c, d>>
<1>1. <<a>> \in Seq(S) /\ <<b, c, d>> \in Seq(S) /\ <<a, b, c, d>> \in Seq(S)
  OBVIOUS
<1>2. /\ joined \in Seq(S) /\ Len(joined) = 4
      /\ \A n \in 1..4 : joined[n] = IF n <= 1 THEN a ELSE <<b, c, d>>[n - 1]
  BY <1>1, ConcatProperties
<1> HIDE DEF joined
<1>3. joined[1] = a /\ joined[2] = b /\ joined[3] = c /\ joined[4] = d
  BY <1>2
<1>4. \A n \in 1..4 : joined[n] = <<a, b, c, d>>[n]
  BY <1>3
<1>5. joined = <<a, b, c, d>>
  BY <1>1, <1>2, <1>4, SeqEqual
<1>. QED BY <1>5 DEF joined

LEMMA FiveParts ==
  ASSUME NEW a, NEW b, NEW c, NEW d, NEW e
  PROVE  <<a>> \o <<b>> \o <<c, d, e>> = <<a, b, c, d, e>>
<1> DEFINE S == {a, b, c, d, e}
           head == <<a>> \o <<b>>
           joined == head \o <<c, d, e>>
<1>1. /\ <<a>> \in Seq(S) /\ <<b>> \in Seq(S) /\ <<c, d, e>> \in Seq(S)
      /\ <<a, b, c, d, e>> \in Seq(S)
  OBVIOUS
<1>2. /\ head \in Seq(S) /\ Len(head) = 2
      /\ \A n \in 1..2 : head[n] = IF n <= 1 THEN a ELSE <<b>>[n - 1]
  BY <1>1, ConcatProperties
<1> HIDE DEF head
<1>3. head[1] = a /\ head[2] = b
  BY <1>2
<1>4. /\ joined \in Seq(S) /\ Len(joined) = 5
      /\ \A n \in 1..5 : joined[n] = IF n <= 2 THEN head[n] ELSE <<c, d, e>>[n - 2]
  <2> DEFINE tail == <<c, d, e>>
  <2>1. tail \in Seq(S) /\ Len(tail) = 3
    BY <1>1
  <2> HIDE DEF tail, S
  <2>2. head \in Seq(S) /\ Len(head) = 2
    BY <1>2
  <2>3. /\ head \o tail \in Seq(S) /\ Len(head \o tail) = Len(head) + Len(tail)
        /\ \A n \in 1..(Len(head) + Len(tail)) :
             (head \o tail)[n] = IF n <= Len(head) THEN head[n] ELSE tail[n - Len(head)]
    BY ONLY <2>1, <2>2, ConcatProperties
  <2>4. /\ head \o tail \in Seq(S) /\ Len(head \o tail) = 5
        /\ \A n \in 1..5 : (head \o tail)[n] = IF n <= 2 THEN head[n] ELSE tail[n - 2]
    BY <2>1, <2>2, <2>3
  <2>. QED BY <2>4 DEF tail
<1> HIDE DEF joined
<1>5. joined[1] = a /\ joined[2] = b /\ joined[3] = c /\ joined[4] = d /\ joined[5] = e
  BY <1>3, <1>4
<1>6. \A n \in 1..5 : joined[n] = <<a, b, c, d, e>>[n]
  BY <1>5
<1>7. joined = <<a, b, c, d, e>>
  BY <1>1, <1>4, <1>6, SeqEqual
<1>. QED BY <1>7 DEF joined, head

LEMMA PathShape ==
  ASSUME NEW p \in Partitions
  PROVE  LET path == ToPath(p)
         IN  IF p.interval = None
             THEN path = <<p.data_kind, p.date, p.symbol, p.part>>
             ELSE path = <<p.data_kind, p.interval[1], p.date, p.symbol, p.part>>
<1>1. CASE p.interval = None
  <2>1. ToPath(p) = <<p.data_kind>> \o <<>> \o <<p.date, p.symbol, p.part>>
    BY <1>1 DEF ToPath, None
  <2>2. <<p.data_kind>> \o <<>> = <<p.data_kind>>
    OBVIOUS
  <2>. QED BY <1>1, <2>1, <2>2, FourParts
<1>2. CASE p.interval # None
  <2>1. p.interval = <<p.interval[1]>>
    BY <1>2, PartitionsAssumption DEF Some
  <2>2. ToPath(p) = <<p.data_kind>> \o <<p.interval[1]>> \o <<p.date, p.symbol, p.part>>
    BY <2>1 DEF ToPath
  <2>. QED BY <1>2, <2>2, FiveParts
<1>. QED BY <1>1, <1>2

\* Two partitions differ in their paths, an interval left out or not.
LEMMA PathsDiffer ==
  ASSUME NEW p \in Partitions, NEW q \in Partitions, ToPath(p) = ToPath(q)
  PROVE  p = q
<1>1. CASE p.interval = None /\ q.interval = None
  <2>1. <<p.data_kind, p.date, p.symbol, p.part>> = <<q.data_kind, q.date, q.symbol, q.part>>
    BY <1>1, PathShape
  <2>2. /\ p.data_kind = q.data_kind /\ p.date = q.date
        /\ p.symbol = q.symbol /\ p.part = q.part
    BY <2>1
  <2>. QED BY <1>1, <2>2, PartitionsAssumption
<1>2. CASE p.interval # None /\ q.interval # None
  <2>1. <<p.data_kind, p.interval[1], p.date, p.symbol, p.part>> =
        <<q.data_kind, q.interval[1], q.date, q.symbol, q.part>>
    BY <1>2, PathShape
  <2>2. /\ p.data_kind = q.data_kind /\ p.interval[1] = q.interval[1] /\ p.date = q.date
        /\ p.symbol = q.symbol /\ p.part = q.part
    BY <2>1
  <2>3. p.interval = q.interval
    BY <1>2, <2>2, PartitionsAssumption
  <2>. QED BY <2>2, <2>3, PartitionsAssumption
<1>3. CASE p.interval = None /\ q.interval # None
  BY <1>3, PathShape
<1>4. CASE p.interval # None /\ q.interval = None
  BY <1>4, PathShape
<1>. QED BY <1>1, <1>2, <1>3, <1>4
-----------------------------------------------------------------------------
\* The write under way is a record of one of the partitions.
WriterOK ==
  IsSome(writing) =>
    writing[1] \in [partition : Partitions, items : Batches, truncated : BOOLEAN]

LEMMA InitHolds == Init => WriterOK
BY DEF Init, WriterOK, IsSome

LEMMA StepHolds == WriterOK /\ [Next]_vars => WriterOK'
<1> SUFFICES ASSUME WriterOK, [Next]_vars PROVE WriterOK'
  OBVIOUS
<1> USE DEF WriterOK, IsSome, Some, None
<1>1. ASSUME NEW p \in Partitions, NEW b \in Batches, WriteFeather(p, b) PROVE WriterOK'
  BY <1>1 DEF WriteFeather
<1>2. CASE CreateFile
  <2> DEFINE w == writing[1]
  <2>1. /\ writing' = <<[w EXCEPT !.truncated = TRUE]>>
        /\ w \in [partition : Partitions, items : Batches, truncated : BOOLEAN]
    BY <1>2 DEF CreateFile
  <2>. QED BY <2>1
<1>3. CASE FinishFile
  BY <1>3 DEF FinishFile
<1>4. CASE FailWrite
  BY <1>4 DEF FailWrite
<1>5. ASSUME NEW p \in Partitions, NEW f \in Filters, Scan(p, f) PROVE WriterOK'
  BY <1>5 DEF Scan
<1>6. CASE UNCHANGED writing
  BY <1>6
<1>. QED BY <1>1, <1>2, <1>3, <1>4, <1>5, <1>6
     DEF Next, vars, OpenFile, Collect, CollectTorn, Return

\* Writing to a path leaves what the others map to.
LEMMA InsertKeepsOthers ==
  ASSUME NEW map, NEW path, NEW other, NEW value, other # path
  PROVE  Get(Insert(map, path, value), other) = Get(map, other)
BY DEF Get, Insert

LEMMA StepTouchesOne ==
  ASSUME WriterOK, [Next]_vars, NEW p \in Partitions, Contents(p)' # Contents(p)
  PROVE  IsSome(writing) /\ writing[1].partition = p
<1> DEFINE w == writing[1]
<1>1. files' # files
  BY DEF Contents
<1>2. PICK value : files' = Insert(files, ToPath(w.partition), value) /\ IsSome(writing)
  <2>1. CASE CreateFile
    BY <2>1 DEF CreateFile
  <2>2. CASE FinishFile
    BY <2>2 DEF FinishFile
  <2>. QED BY <1>1, <2>1, <2>2 DEF Next, vars, WriteFeather, FailWrite, Scan, OpenFile, Collect,
                                CollectTorn, Return
<1>3. w.partition \in Partitions
  BY <1>2 DEF WriterOK
<1>4. ToPath(p) = ToPath(w.partition)
  BY <1>2, InsertKeepsOthers DEF Contents
<1>. QED BY <1>2, <1>3, <1>4, PathsDiffer

\* Whatever is written to a partition, or fails to be, the others keep what
\* they hold.
THEOREM ApartCorrectness == Spec => OthersUntouched
<1>1. WriterOK /\ [Next]_vars =>
        [ \A p \in Partitions :
            Contents(p)' # Contents(p) => IsSome(writing) /\ writing[1].partition = p ]_vars
  BY StepTouchesOne
<1>. QED BY <1>1, InitHolds, StepHolds, PTL DEF Spec, OthersUntouched
-----------------------------------------------------------------------------
\* What a file holds after the last write that truncated it.
FileOf(write) ==
  [rows |-> IF write.finished THEN ToDataframe(write.items) ELSE <<>>, whole |-> write.finished]

\* Every file is what the last write to its partition has made of it.
FilesAreSaved ==
  /\ DOMAIN saved \subseteq Partitions
  /\ \A p \in DOMAIN saved :
       /\ saved[p].items \in Batches
       /\ saved[p].finished \in BOOLEAN
       /\ ToPath(p) \in DOMAIN files
       /\ files[ToPath(p)] = FileOf(saved[p])
  /\ \A path \in DOMAIN files : \E p \in DOMAIN saved : path = ToPath(p)

\* A read under way is of a file that is there: nothing removes one.
ReaderOK ==
  IsSome(reading) =>
    LET r == reading[1]
    IN  /\ r = [partition |-> r.partition, filter |-> r.filter, phase |-> r.phase,
                result |-> r.result]
        /\ r.partition \in Partitions
        /\ r.filter \in Filters
        /\ r.result = None => ToPath(r.partition) \in DOMAIN files

StoreInv == WriterOK /\ FilesAreSaved /\ ReaderOK

LEMMA StoreInit == Init => StoreInv
BY DEF Init, StoreInv, WriterOK, FilesAreSaved, ReaderOK, EmptyMap, IsSome, None

\* A write to one partition's file, noted as such, leaves the others as saved.
LEMMA WriteIsSaved ==
  ASSUME FilesAreSaved, NEW p \in Partitions, NEW write,
         write.items \in Batches, write.finished \in BOOLEAN,
         files' = Insert(files, ToPath(p), FileOf(write)),
         saved' = Insert(saved, p, write)
  PROVE  FilesAreSaved' /\ DOMAIN files \subseteq DOMAIN files'
<1>1. DOMAIN saved' = DOMAIN saved \cup {p} /\ DOMAIN files' = DOMAIN files \cup {ToPath(p)}
  BY DEF Insert
<1>2. ASSUME NEW q \in DOMAIN saved'
      PROVE  /\ saved'[q].items \in Batches
             /\ saved'[q].finished \in BOOLEAN
             /\ ToPath(q) \in DOMAIN files'
             /\ files'[ToPath(q)] = FileOf(saved'[q])
  <2>1. CASE q = p
    BY <2>1 DEF Insert
  <2>2. CASE q # p
    <3>1. q \in DOMAIN saved /\ q \in Partitions /\ saved'[q] = saved[q]
      BY <1>1, <2>2 DEF Insert, FilesAreSaved
    <3>2. ToPath(q) # ToPath(p)
      BY <2>2, <3>1, PathsDiffer
    <3>3. ToPath(q) \in DOMAIN files' /\ files'[ToPath(q)] = files[ToPath(q)]
      BY <3>1, <3>2 DEF Insert, FilesAreSaved
    <3>. QED BY <3>1, <3>3 DEF FilesAreSaved
  <2>. QED BY <2>1, <2>2
<1>3. \A path \in DOMAIN files' : \E q \in DOMAIN saved' : path = ToPath(q)
  BY <1>1 DEF FilesAreSaved
<1>4. DOMAIN saved' \subseteq Partitions
  BY <1>1 DEF FilesAreSaved
<1>5. FilesAreSaved'
  BY <1>2, <1>3, <1>4 DEF FilesAreSaved, FileOf, ToPath, ToDataframe, Stored, Some, None
<1>. QED BY <1>1, <1>5

\* A write of the file leaves the read what it is of, torn or not.
LEMMA DisturbedReads ==
  ASSUME ReaderOK, NEW path, reading' = Disturbed(path), DOMAIN files \subseteq DOMAIN files'
  PROVE  ReaderOK'
<1>1. CASE reading' = reading
  BY <1>1 DEF ReaderOK, IsSome, None, ToPath
<1>2. CASE reading' # reading
  <2> DEFINE r == reading[1]
             s == [partition |-> r.partition, filter |-> r.filter, phase |-> "torn",
                   result |-> r.result]
  <2>1. IsSome(reading) /\ reading' = <<[r EXCEPT !.phase = "torn"]>>
    BY <1>2 DEF Disturbed, Some
  <2>2. /\ r = [partition |-> r.partition, filter |-> r.filter, phase |-> r.phase,
                result |-> r.result]
        /\ r.partition \in Partitions /\ r.filter \in Filters
        /\ r.result = None => ToPath(r.partition) \in DOMAIN files'
    BY <2>1 DEF ReaderOK
  <2>3. reading'[1] = s
    BY <2>1, <2>2
  <2>. QED BY <2>2, <2>3 DEF ReaderOK, ToPath
<1>. QED BY <1>1, <1>2

\* So does its return, with whatever result.
LEMMA ReturnReads ==
  ASSUME ReaderOK, IsSome(reading), NEW result, Return(result)
  PROVE  ReaderOK'
<1> DEFINE r == reading[1]
           s == [partition |-> r.partition, filter |-> r.filter, phase |-> r.phase,
                 result |-> Some(result)]
<1>1. /\ r = [partition |-> r.partition, filter |-> r.filter, phase |-> r.phase,
              result |-> r.result]
      /\ r.partition \in Partitions /\ r.filter \in Filters
  BY DEF ReaderOK
<1>2. reading' = <<[r EXCEPT !.result = Some(result)]>>
  BY DEF Return, Some
<1>3. reading'[1] = s
  BY <1>1, <1>2
<1>. QED BY <1>1, <1>3 DEF ReaderOK, Some, None

LEMMA StoreStep == StoreInv /\ [Next]_vars => StoreInv'
<1> SUFFICES ASSUME StoreInv, [Next]_vars PROVE FilesAreSaved' /\ ReaderOK'
  BY StepHolds DEF StoreInv
<1> DEFINE w == writing[1]
<1>1. IsSome(writing) => w \in [partition : Partitions, items : Batches, truncated : BOOLEAN]
  BY DEF StoreInv, WriterOK
<1> HIDE DEF w
<1>2. ASSUME UNCHANGED <<files, saved>>
      PROVE  FilesAreSaved'
  BY <1>2 DEF StoreInv, FilesAreSaved, FileOf, ToPath, ToDataframe, Stored, Some, None
<1>3. ASSUME UNCHANGED reading, DOMAIN files \subseteq DOMAIN files'
      PROVE  ReaderOK'
  BY <1>3 DEF StoreInv, ReaderOK, IsSome, None, ToPath
<1>4. ASSUME NEW p \in Partitions, NEW b \in Batches, WriteFeather(p, b)
      PROVE  FilesAreSaved' /\ ReaderOK'
  BY <1>2, <1>3, <1>4 DEF WriteFeather
<1>5. CASE CreateFile
  <2> DEFINE write == [items |-> w.items, finished |-> FALSE]
  <2>1. /\ files' = Insert(files, ToPath(w.partition), FileOf(write))
        /\ saved' = Insert(saved, w.partition, write)
        /\ reading' = Disturbed(ToPath(w.partition))
        /\ w.partition \in Partitions /\ write.items \in Batches /\ write.finished = FALSE
    BY <1>1, <1>5 DEF CreateFile, FileOf, w
  <2> HIDE DEF write
  <2>2. FilesAreSaved' /\ DOMAIN files \subseteq DOMAIN files'
    BY <2>1, WriteIsSaved DEF StoreInv
  <2>. QED BY <2>1, <2>2, DisturbedReads DEF StoreInv
<1>6. CASE FinishFile
  <2> DEFINE write == [items |-> w.items, finished |-> TRUE]
  <2>1. /\ files' = Insert(files, ToPath(w.partition), FileOf(write))
        /\ saved' = Insert(saved, w.partition, write)
        /\ reading' = Disturbed(ToPath(w.partition))
        /\ w.partition \in Partitions /\ write.items \in Batches /\ write.finished = TRUE
    BY <1>1, <1>6 DEF FinishFile, FileOf, w
  <2> HIDE DEF write
  <2>2. FilesAreSaved' /\ DOMAIN files \subseteq DOMAIN files'
    BY <2>1, WriteIsSaved DEF StoreInv
  <2>. QED BY <2>1, <2>2, DisturbedReads DEF StoreInv
<1>7. CASE FailWrite
  BY <1>2, <1>3, <1>7 DEF FailWrite
<1>8. ASSUME NEW p \in Partitions, NEW f \in Filters, Scan(p, f)
      PROVE  FilesAreSaved' /\ ReaderOK'
  <2> DEFINE result == IF ToPath(p) \in DOMAIN files THEN None ELSE Some(Failed)
             r == [partition |-> p, filter |-> f, phase |-> "lazy", result |-> result]
  <2>1. reading' = <<r>> /\ UNCHANGED <<files, saved>>
    BY <1>8 DEF Scan, Some
  <2>2. result = None => ToPath(p) \in DOMAIN files
    BY DEF Some, None
  <2>3. reading'[1] = r
    BY <2>1
  <2> HIDE DEF result
  <2>4. ReaderOK'
    BY <2>1, <2>2, <2>3 DEF ReaderOK, ToPath, None
  <2>. QED BY <1>2, <2>1, <2>4
<1>9. CASE OpenFile
  <2> DEFINE r == reading[1]
             s == [partition |-> r.partition, filter |-> r.filter, phase |-> "open",
                   result |-> r.result]
  <2>1. reading' = <<[r EXCEPT !.phase = "open"]>> /\ UNCHANGED <<files, saved>>
    BY <1>9 DEF OpenFile, Some
  <2>2. /\ r = [partition |-> r.partition, filter |-> r.filter, phase |-> r.phase,
                result |-> r.result]
        /\ r.partition \in Partitions /\ r.filter \in Filters
        /\ r.result = None => ToPath(r.partition) \in DOMAIN files'
    BY <1>9, <2>1 DEF OpenFile, StoreInv, ReaderOK
  <2>3. reading'[1] = s
    BY <2>1, <2>2
  <2>4. ReaderOK'
    BY <2>2, <2>3 DEF ReaderOK, ToPath
  <2>. QED BY <1>2, <2>1, <2>4
<1>10. CASE Collect \/ CollectTorn
  <2>1. PICK result : Return(result) /\ IsSome(reading)
    BY <1>10 DEF Collect, CollectTorn
  <2>2. UNCHANGED <<files, saved>>
    BY <2>1 DEF Return
  <2>. QED BY <1>2, <2>1, <2>2, ReturnReads DEF StoreInv
<1>11. CASE UNCHANGED vars
  BY <1>2, <1>3, <1>11 DEF vars
<1>. QED BY <1>4, <1>5, <1>6, <1>7, <1>8, <1>9, <1>10, <1>11 DEF Next
-----------------------------------------------------------------------------
\* The places of the rows a filter asks for.
Asked(filter, rows) == {n \in 1..Len(rows) : Matches(filter, rows[n])}

LEMMA ScanIs ==
  ASSUME NEW rows, Len(rows) \in Nat, NEW filter
  PROVE  /\ Asked(filter, rows) \in SUBSET Int
         /\ IsFiniteSet(Asked(filter, rows))
         /\ Cardinality(Asked(filter, rows)) \in Nat
         /\ ScanKlines(filter, rows) = Chosen(rows, Asked(filter, rows))
         /\ Len(ScanKlines(filter, rows)) = Cardinality(Asked(filter, rows))
<1> DEFINE len == Len(rows)
           S == Asked(filter, rows)
           c == Cardinality(S)
<1>1. IsFiniteSet(1..len)
  BY FS_Interval
<1>2. S \in SUBSET (1..len) /\ S \in SUBSET Int
  BY DEF Asked
<1>3. IsFiniteSet(S)
  BY <1>1, <1>2, FS_Subset
<1>4. c \in Nat
  BY <1>3, FS_CardinalityType
<1>5. ScanKlines(filter, rows) = Chosen(rows, S)
  BY DEF ScanKlines, Asked
<1>6. Chosen(rows, S) = [k \in 1..c |-> Chosen(rows, S)[k]]
  BY <1>2, <1>3, ChosenIs
<1> HIDE DEF c
<1>7. Len([k \in 1..c |-> Chosen(rows, S)[k]]) = c
  BY <1>4
<1>. QED BY <1>2, <1>3, <1>4, <1>5, <1>6, <1>7 DEF c

LEMMA BatchIs ==
  ASSUME NEW b \in Batches
  PROVE  /\ Len(b) \in Nat
         /\ \A n \in 1..Len(b) :
              /\ b[n] = [symbol |-> b[n].symbol, interval |-> b[n].interval,
                         open_time |-> b[n].open_time, close |-> b[n].close]
              /\ b[n].open_time \in Int
              /\ b[n].close \in 0..(10 * Exact - 1)
<1>1. b \in Seq({b[n] : n \in 1..Len(b)})
  BY BatchesAssumption
<1>2. Len(b) \in Nat
  BY <1>1, LenProperties
<1>. QED BY <1>2, BatchesAssumption, ExactAssumption

\* The rows of a batch in a file: the closes are rounded, the rest is kept.
LEMMA RowsAre ==
  ASSUME NEW b \in Batches
  PROVE  LET rows == ToDataframe(b)
         IN  /\ Len(rows) = Len(b)
             /\ \A n \in 1..Len(b) :
                  /\ rows[n] = [symbol |-> b[n].symbol, interval |-> b[n].interval,
                                open_time |-> b[n].open_time, close |-> Stored(b[n].close)]
                  /\ rows[n].symbol = b[n].symbol /\ rows[n].interval = b[n].interval
                  /\ rows[n].open_time = b[n].open_time
<1>1. Len(b) \in Nat
  BY BatchIs
<1>2. Len(ToDataframe(b)) = Len(b)
  BY <1>1 DEF ToDataframe
<1>3. ASSUME NEW n \in 1..Len(b)
      PROVE  ToDataframe(b)[n] =
               [symbol |-> b[n].symbol, interval |-> b[n].interval,
                open_time |-> b[n].open_time, close |-> Stored(b[n].close)]
  <2> DEFINE row == b[n]
             close == Stored(row.close)
  <2>1. row = [symbol |-> row.symbol, interval |-> row.interval,
               open_time |-> row.open_time, close |-> row.close]
    BY BatchIs
  <2>2. ToDataframe(b)[n] = [row EXCEPT !.close = close]
    BY DEF ToDataframe
  <2> HIDE DEF row, close
  <2>3. [row EXCEPT !.close = close] =
          [symbol |-> row.symbol, interval |-> row.interval,
           open_time |-> row.open_time, close |-> close]
    BY <2>1
  <2>. QED BY <2>2, <2>3 DEF row, close
<1>4. ASSUME NEW n \in 1..Len(b), NEW row,
             row = [symbol |-> b[n].symbol, interval |-> b[n].interval,
                    open_time |-> b[n].open_time, close |-> Stored(b[n].close)]
      PROVE  /\ row.symbol = b[n].symbol /\ row.interval = b[n].interval
             /\ row.open_time = b[n].open_time
  BY <1>4
<1>. QED BY <1>2, <1>3, <1>4

\* A filter asks for the same rows of a file as of the batch it is from.
LEMMA AskedOfRows ==
  ASSUME NEW b \in Batches, NEW filter
  PROVE  Asked(filter, ToDataframe(b)) = Asked(filter, b)
<1>1. ASSUME NEW n \in 1..Len(b)
      PROVE  Matches(filter, ToDataframe(b)[n]) <=> Matches(filter, b[n])
  <2> DEFINE row == ToDataframe(b)[n]
  <2>1. row.symbol = b[n].symbol /\ row.interval = b[n].interval /\ row.open_time = b[n].open_time
    BY RowsAre
  <2> HIDE DEF row
  <2>2. Matches(filter, row) <=> Matches(filter, b[n])
    BY <2>1 DEF Matches
  <2>. QED BY <2>2 DEF row
<1>2. Len(ToDataframe(b)) = Len(b)
  BY RowsAre
<1>. QED BY <1>1, <1>2 DEF Asked

\* Every file holds rows with times, if any.
LEMMA RowsHaveTimes ==
  ASSUME FilesAreSaved, NEW path \in DOMAIN files
  PROVE  /\ Len(files[path].rows) \in Nat
         /\ \A n \in 1..Len(files[path].rows) : files[path].rows[n].open_time \in Int
<1>1. PICK p \in DOMAIN saved : path = ToPath(p)
  BY DEF FilesAreSaved
<1> DEFINE b == saved[p].items
<1>2. /\ b \in Batches
      /\ files[path].rows = IF saved[p].finished THEN ToDataframe(b) ELSE <<>>
  <2>1. b \in Batches /\ files[path] = FileOf(saved[p])
    BY <1>1 DEF FilesAreSaved
  <2>. QED BY <2>1 DEF FileOf
<1> HIDE DEF b
<1>3. CASE saved[p].finished
  <2>1. files[path].rows = ToDataframe(b)
    BY <1>2, <1>3
  <2>2. Len(ToDataframe(b)) = Len(b) /\ Len(b) \in Nat
    BY <1>2, RowsAre, BatchIs
  <2>3. ASSUME NEW n \in 1..Len(b)
        PROVE  ToDataframe(b)[n].open_time \in Int
    <3>1. ToDataframe(b)[n].open_time = b[n].open_time
      BY <1>2, RowsAre
    <3>2. b[n].open_time \in Int
      BY <1>2, BatchIs
    <3>. QED BY <3>1, <3>2
  <2>. QED BY <2>1, <2>2, <2>3
<1>4. CASE ~saved[p].finished
  BY <1>2, <1>4
<1>. QED BY <1>3, <1>4

\* The rows of two windows that meet are those of the span, each in one of the
\* windows.
LEMMA WindowsSplit ==
  ASSUME FilesAreSaved, NEW path \in DOMAIN files, NEW pair \in AdjacentWindows
  PROVE  LET rows == files[path].rows
             span == [pair[1] EXCEPT !.end = pair[2].end]
         IN  /\ Asked(span, rows) = Asked(pair[1], rows) \cup Asked(pair[2], rows)
             /\ Asked(pair[1], rows) \cap Asked(pair[2], rows) = {}
<1> DEFINE rows == files[path].rows
           f == pair[1]
           g == pair[2]
           span == [f EXCEPT !.end = g.end]
<1>1. /\ f \in Filters /\ g \in Filters
      /\ IsSome(f.start) /\ IsSome(f.end) /\ IsSome(g.end)
      /\ f.end = g.start /\ f.start[1] <= f.end[1] /\ g.start[1] <= g.end[1]
      /\ f.symbols = g.symbols /\ f.interval = g.interval
  BY DEF AdjacentWindows
<1>2. \A n \in 1..Len(rows) : rows[n].open_time \in Int
  BY RowsHaveTimes
<1>3. f.start[1] \in Int /\ f.end[1] \in Int /\ g.end[1] \in Int /\ IsSome(g.start)
  BY <1>1, FiltersAssumption
<1>4. f = [symbols |-> f.symbols, interval |-> f.interval, start |-> f.start, end |-> f.end]
  BY <1>1, FiltersAssumption
<1> HIDE DEF rows, f, g
<1>5. /\ span.symbols = f.symbols /\ span.interval = f.interval
      /\ span.start = f.start /\ span.end = g.end
  BY <1>4
<1> HIDE DEF span
<1>6. ASSUME NEW n \in 1..Len(rows)
      PROVE  /\ Matches(span, rows[n]) <=> Matches(f, rows[n]) \/ Matches(g, rows[n])
             /\ ~(Matches(f, rows[n]) /\ Matches(g, rows[n]))
  <2> DEFINE row == rows[n]
             time == row.open_time
  <2>1. time \in Int
    BY <1>2
  <2> HIDE DEF time
  <2>2. /\ f.start[1] <= time /\ time < g.end[1] <=>
             \/ f.start[1] <= time /\ time < f.end[1]
             \/ g.start[1] <= time /\ time < g.end[1]
        /\ ~(time < f.end[1] /\ time >= g.start[1])
    BY <1>1, <1>3, <2>1
  <2>3. /\ time >= f.start[1] <=> f.start[1] <= time
        /\ time >= g.start[1] <=> g.start[1] <= time
    BY <1>1, <1>3, <2>1
  <2>. QED BY <1>1, <1>3, <1>5, <2>2, <2>3 DEF Matches, time
<1>7. /\ Asked(span, rows) = Asked(f, rows) \cup Asked(g, rows)
      /\ Asked(f, rows) \cap Asked(g, rows) = {}
  BY <1>6 DEF Asked
<1>. QED BY <1>7 DEF rows, f, g, span

LEMMA WindowsHold == FilesAreSaved => WindowsMeet
<1> SUFFICES ASSUME FilesAreSaved, NEW path \in DOMAIN files, NEW pair \in AdjacentWindows
             PROVE  LET count(filter) == Len(ScanKlines(filter, files[path].rows))
                        span == [pair[1] EXCEPT !.end = pair[2].end]
                    IN  count(pair[1]) + count(pair[2]) = count(span)
  BY DEF WindowsMeet
<1> DEFINE rows == files[path].rows
           span == [pair[1] EXCEPT !.end = pair[2].end]
           A == Asked(pair[1], rows)
           B == Asked(pair[2], rows)
<1>1. Asked(span, rows) = A \cup B /\ A \cap B = {}
  BY WindowsSplit
<1>2. Len(rows) \in Nat
  BY RowsHaveTimes
<1> HIDE DEF span
<1>3. /\ IsFiniteSet(A) /\ IsFiniteSet(B)
      /\ Cardinality(A) \in Nat /\ Cardinality(B) \in Nat
      /\ Len(ScanKlines(pair[1], rows)) = Cardinality(A)
      /\ Len(ScanKlines(pair[2], rows)) = Cardinality(B)
      /\ Len(ScanKlines(span, rows)) = Cardinality(Asked(span, rows))
  BY <1>2, ScanIs
<1> HIDE DEF A, B, rows
<1>4. Cardinality(A \cup B) = Cardinality(A) + Cardinality(B) - Cardinality(A \cap B)
  BY <1>3, FS_Union
<1>5. Cardinality(A \cap B) = 0
  BY <1>1, FS_EmptySet
<1>6. Len(ScanKlines(pair[1], rows)) + Len(ScanKlines(pair[2], rows)) =
        Len(ScanKlines(span, rows))
  BY <1>1, <1>3, <1>4, <1>5
<1>. QED BY <1>6 DEF rows, span

LEMMA StoreHolds == Spec => []StoreInv
BY StoreInit, StoreStep, PTL DEF Spec

\* Windows that meet neither share a bar nor miss one, whatever was written,
\* how far it got and how often it was replaced.
THEOREM WindowsCorrectness == Spec => []WindowsMeet
<1>1. StoreInv => WindowsMeet
  BY WindowsHold DEF StoreInv
<1>. QED BY <1>1, StoreHolds, PTL
-----------------------------------------------------------------------------
LEMMA StoredIs ==
  ASSUME NEW close \in 0..(10 * Exact - 1)
  PROVE  IF close < Exact THEN Stored(close) = close ELSE Stored(close) - close \in -5..5
<1>1. close \in Nat /\ Exact \in Nat
  BY ExactAssumption
<1> DEFINE q == (close + 5) \div 10
<1>2. q \in Int /\ 10 * q <= close + 5 /\ close + 5 < 10 * q + 10
  BY <1>1
<1> HIDE DEF q
<1>3. 10 * q - close \in -5..5
  BY <1>1, <1>2
<1>. QED BY <1>1, <1>3 DEF Stored, q

\* What a filter picks from a batch's rows is what it picks from the batch, the
\* closes apart.
LEMMA ReadBack ==
  ASSUME NEW b \in Batches, NEW filter
  PROVE  SameRows(ScanKlines(filter, ToDataframe(b)), ScanKlines(filter, b))
<1> DEFINE df == ToDataframe(b)
           S == Asked(filter, b)
           c == Cardinality(S)
<1>1. Len(b) \in Nat /\ Len(df) = Len(b) /\ Asked(filter, df) = S
  BY BatchIs, RowsAre, AskedOfRows
<1> HIDE DEF df
<1>2. /\ S \in SUBSET Int /\ IsFiniteSet(S) /\ c \in Nat
      /\ ScanKlines(filter, b) = Chosen(b, S) /\ Len(ScanKlines(filter, b)) = c
  BY <1>1, ScanIs
<1>3. ScanKlines(filter, df) = Chosen(df, S) /\ Len(ScanKlines(filter, df)) = c
  BY <1>1, ScanIs
<1>4. S \subseteq 1..Len(b)
  BY DEF Asked
<1> HIDE DEF S, c
<1>5. ASSUME NEW k \in 1..c, NEW row, row = Chosen(df, S)[k], NEW want, want = Chosen(b, S)[k]
      PROVE  /\ [row EXCEPT !.close = 0] = [want EXCEPT !.close = 0]
             /\ IF want.close < Exact
                THEN row.close = want.close
                ELSE row.close - want.close \in -5..5
  <2>1. PICK n \in S : \A seq : Chosen(seq, S)[k] = seq[n]
    BY <1>2, ChosenPlaces DEF c
  <2>2. row = df[n] /\ want = b[n] /\ n \in 1..Len(b)
    BY <1>4, <1>5, <2>1
  <2> DEFINE s == want.symbol
             i == want.interval
             t == want.open_time
             old == want.close
             new == Stored(old)
  <2>3. want = [symbol |-> s, interval |-> i, open_time |-> t, close |-> old]
    BY <2>2, BatchIs
  <2>4. row = [symbol |-> s, interval |-> i, open_time |-> t, close |-> new]
    BY <2>2, RowsAre DEF df
  <2>5. old \in 0..(10 * Exact - 1)
    BY <2>2, BatchIs
  <2>6. IF old < Exact THEN new = old ELSE new - old \in -5..5
    BY <2>5, StoredIs
  <2>7. row.close = new
    <3> HIDE DEF s, i, t, new
    <3>. QED BY <2>4
  <2>8. [row EXCEPT !.close = 0] = [want EXCEPT !.close = 0]
    <3> HIDE DEF s, i, t, old, new
    <3>1. [row EXCEPT !.close = 0] = [symbol |-> s, interval |-> i, open_time |-> t, close |-> 0]
      BY <2>4
    <3>2. [want EXCEPT !.close = 0] = [symbol |-> s, interval |-> i, open_time |-> t, close |-> 0]
      BY <2>3
    <3>. QED BY <3>1, <3>2
  <2> HIDE DEF new
  <2>. QED BY <2>6, <2>7, <2>8
<1>6. \A k \in 1..c :
        LET row  == Chosen(df, S)[k]
            want == Chosen(b, S)[k]
        IN  /\ [row EXCEPT !.close = 0] = [want EXCEPT !.close = 0]
            /\ IF want.close < Exact
               THEN row.close = want.close
               ELSE row.close - want.close \in -5..5
  BY <1>5
<1>. QED BY <1>2, <1>3, <1>6 DEF SameRows, df

LEMMA CollectReads ==
  ASSUME StoreInv, Collect
  PROVE  LET r    == reading'[1]
             last == saved[r.partition]
         IN  /\ r.partition \in DOMAIN saved
             /\ r.result[1].ok <=> last.finished
             /\ last.finished =>
                  SameRows(r.result[1].rows, ScanKlines(r.filter, last.items))
<1> DEFINE p == reading[1].partition
           filter == reading[1].filter
           last == saved[p]
           file == files[ToPath(p)]
           answer == IF file.whole
                     THEN [ok |-> TRUE, rows |-> ScanKlines(filter, file.rows)]
                     ELSE Failed
           phase == reading[1].phase
           s == [partition |-> p, filter |-> filter, phase |-> phase, result |-> Some(answer)]
<1>1. /\ reading[1] = [partition |-> p, filter |-> filter, phase |-> phase,
                       result |-> reading[1].result]
      /\ p \in Partitions /\ ToPath(p) \in DOMAIN files
  BY DEF Collect, StoreInv, ReaderOK
<1>2. p \in DOMAIN saved
  <2>1. PICK q \in DOMAIN saved : ToPath(p) = ToPath(q)
    BY <1>1 DEF StoreInv, FilesAreSaved
  <2>2. q \in Partitions
    BY DEF StoreInv, FilesAreSaved
  <2>. QED BY <1>1, <2>1, <2>2, PathsDiffer
<1>3. last.items \in Batches /\ last.finished \in BOOLEAN /\ file = FileOf(last)
  BY <1>2 DEF StoreInv, FilesAreSaved
<1>4. reading'[1] = s
  <2>1. reading' = <<[reading[1] EXCEPT !.result = Some(answer)]>>
    BY DEF Collect, Return, Some
  <2> HIDE DEF answer
  <2>2. reading' = <<s>>
    BY <1>1, <2>1
  <2>. QED BY <2>2
<1>5. /\ s.partition = p /\ s.filter = filter /\ s.result[1] = answer
  <2> HIDE DEF answer, p, filter
  <2>. QED BY DEF Some
<1> HIDE DEF s, file, last
<1>6. file.whole = last.finished /\ (last.finished => file.rows = ToDataframe(last.items))
  BY <1>3 DEF FileOf
<1>7. answer.ok <=> last.finished
  BY <1>3, <1>6 DEF Failed
<1>8. ASSUME last.finished
      PROVE  answer.rows = ScanKlines(filter, ToDataframe(last.items))
  BY <1>3, <1>6, <1>8
<1> HIDE DEF answer, p, filter
<1>9. last.finished => SameRows(answer.rows, ScanKlines(filter, last.items))
  BY <1>3, <1>8, ReadBack
<1>. QED BY <1>2, <1>4, <1>5, <1>7, <1>9 DEF last

\* A read whose file no write changes between its opening and its end returns
\* the matching rows of the batch last written to the partition, all of them
\* and in order, and fails exactly if that write has not finished, whenever the
\* writers of this and other partitions are interrupted.  Of a read that a
\* write comes in between it says nothing.
THEOREM ReadCorrectness == Spec => ReadsLastBatch
<1>1. StoreInv /\ [Next]_vars =>
        [ Collect =>
            LET r    == reading'[1]
                last == saved[r.partition]
            IN  /\ r.partition \in DOMAIN saved
                /\ r.result[1].ok <=> last.finished
                /\ last.finished =>
                     SameRows(r.result[1].rows, ScanKlines(r.filter, last.items)) ]_vars
  BY CollectReads
<1>. QED BY <1>1, StoreHolds, PTL DEF Spec, ReadsLastBatch
=============================================================================

------------------------------ MODULE TieFile ------------------------------
(***************************************************************************)
(* Tie::File: a file of records that a program uses as an array.  The      *)
(* object keeps the byte offset of each record it has seen, a cache of     *)
(* records that forgets the least recently used, and records whose writing *)
(* is deferred, because the program asked for it (defer) or because the    *)
(* object guessed from a run of consecutive STOREs (autodefer).            *)
(*                                                                         *)
(* The object is one value, tf, and a method an operator from the object   *)
(* before the call to the object after it.  array is what the program has  *)
(* made of its array and what a reader of the file should find there.      *)
(*                                                                         *)
(* The heap of the cache is modelled by the order it keeps, and copies of  *)
(* blocks of 8192 bytes by the copy of the whole.  Read-only files, text   *)
(* mode and discard_offsets, which no document names, are left out.        *)
(***************************************************************************)
EXTENDS Integers, Sequences, SequencesExt, FiniteSets, FiniteSetsExt

CONSTANTS
  RecSep,     \* the record separator, one byte
  Record,     \* records with their separator: sequences of bytes
  Files,      \* contents of the file when it is tied first
  memory, dw_size, autodefer_threshhold, autodefer_filelen_threshhold,
  Careless,   \* what the program does that it had better not do: a set of
              \* "gaps", "deletes", "shrinks" and "locks late" (see below)
  MaxRecords, \* bound: records in the array
  MaxInserted \* bound: records that one SPLICE inserts

ASSUME TfAssumption ==
  /\ \A r \in Record : Last(r) = RecSep /\ \A i \in 1..(Len(r) - 1) : r[i] # RecSep
  /\ dw_size <= memory

VARIABLES tf, array

tfVars == <<tf, array>>

Blank == <<RecSep>>
Blanks(n) == [i \in 1..n |-> RecSep]
NoMax == -2                      \* deferred_max when it is undefined
NoneDeferred == [n \in {} |-> Blank]

\* TIEARRAY
Tied(f, auto) ==
  [file |-> f, offsets |-> <<0>>, eof |-> FALSE,
   cache |-> <<>>,                \* the least recently used record first
   bytes |-> 0, limit |-> memory, \* BYTES and MAX of the cache
   deferred |-> NoneDeferred, deferred_s |-> 0, deferred_max |-> -1,
   defer |-> FALSE, autodefer |-> auto, autodeferring |-> FALSE, ad_history |-> <<>>]

IsDeferring(s) == s.defer \/ s.autodeferring
HasOffset(s, n) == n < Len(s.offsets)
OffsetOf(s, n) == s.offsets[n + 1]
LastOffset(s) == Last(s.offsets)
-----------------------------------------------------------------------------
\* The cache.

CacheKeys(s) == {s.cache[i].key : i \in DOMAIN s.cache}
CachedRecord(s, n) == s.cache[CHOOSE i \in DOMAIN s.cache : s.cache[i].key = n].rec

\* reduce_size_to
RECURSIVE ReduceTo(_, _)
ReduceTo(s, max) ==
  IF s.bytes <= max \/ s.cache = <<>> THEN s
  ELSE ReduceTo([s EXCEPT !.cache = Tail(@), !.bytes = @ - Len(Head(s.cache).rec)], max)

\* remove
Uncache(s, N) ==
  LET size(n) == Len(CachedRecord(s, n))
  IN  [s EXCEPT !.cache = SelectSeq(@, LAMBDA c : c.key \notin N),
                !.bytes = @ - MapThenSumSet(size, N \cap CacheKeys(s))]

\* insert, and update where the record is not too long
Cache(s, n, rec) ==
  IF Len(rec) > s.limit THEN s
  ELSE LET t == Uncache(s, {n})
       IN  ReduceTo([t EXCEPT !.cache = Append(@, [key |-> n, rec |-> rec]),
                              !.bytes = @ + Len(rec)], s.limit)

\* update: remove has taken the old record's length off BYTES already.
CacheUpdate(s, n, rec) ==
  IF Len(rec) <= s.limit THEN Cache(s, n, rec)
  ELSE LET t == Uncache(s, {n})
       IN  ReduceTo([t EXCEPT !.bytes = @ - (s.bytes - t.bytes)], s.limit)

CacheFlush(s) == ReduceTo(s, memory - s.deferred_s)
-----------------------------------------------------------------------------
\* Reading.  A last record without its separator is given one in the file.

Overwrite(f, pos, data) ==
  SubSeq(f, 1, pos) \o data \o SubSeq(f, pos + Len(data) + 1, Len(f))

\* _read_record at byte o, which is within the file
ReadRecord(f, o) ==
  LET whole == IF \E i \in (o + 1)..Len(f) : f[i] = RecSep THEN f ELSE Append(f, RecSep)
      end == Min({i \in (o + 1)..Len(whole) : whole[i] = RecSep})
  IN  [file |-> whole, rec |-> SubSeq(whole, o + 1, end), end |-> end]

RECURSIVE FillOffsetsTo(_, _)
FillOffsetsTo(s, n) ==
  IF s.eof \/ HasOffset(s, n) THEN s
  ELSE IF LastOffset(s) >= Len(s.file) THEN [s EXCEPT !.eof = TRUE]
  ELSE LET r == ReadRecord(s.file, LastOffset(s))
       IN  FillOffsetsTo([s EXCEPT !.file = r.file, !.offsets = Append(@, r.end)], n)

\* _fill_offsets: no file has as many records as it has bytes and two.
FillOffsets(s) == FillOffsetsTo([s EXCEPT !.eof = FALSE], Len(s.file) + 2)

\* _fetch: the object and the record, which is <<>> for undef
Answer(s, rec) == [obj |-> s, rec |-> rec]
FoundInCache(s, n, rec) ==
  Answer([s EXCEPT !.cache = Append(SelectSeq(@, LAMBDA c : c.key # n),
                                    [key |-> n, rec |-> rec])],
         rec)
ReadIn(s, n, r) == Answer(Cache([s EXCEPT !.file = r.file], n, r.rec), r.rec)
FetchFromFile(s, n) ==
  IF HasOffset(s, n) /\ OffsetOf(s, n) < Len(s.file)
  THEN ReadIn(s, n, ReadRecord(s.file, OffsetOf(s, n)))
  ELSE Answer(s, <<>>)
FetchCached(s, n) ==
  IF n \in CacheKeys(s) THEN FoundInCache(s, n, CachedRecord(s, n))
  ELSE FetchFromFile(FillOffsetsTo(s, n), n)

FETCH(s, n) ==
  IF n \in DOMAIN s.deferred THEN Answer(s, s.deferred[n]) ELSE FetchCached(s, n)

\* _defer_max
KnowMax(s) ==
  [s EXCEPT !.deferred_max = IF @ # NoMax THEN @ ELSE Max(DOMAIN s.deferred \cup {-1})]
FETCHSIZE(s) == KnowMax(IF s.eof THEN s ELSE FillOffsets(s))
SizeOf(s) == Max({Len(s.offsets) - 1, s.deferred_max + 1})
-----------------------------------------------------------------------------
\* Writing.

\* _extend_file_to
ExtendFileTo(s, n) ==
  LET extras == Max({0, n - (Len(s.offsets) - 1)})
  IN  [s EXCEPT !.file = Overwrite(@, LastOffset(s), Blanks(extras)),
                !.offsets = @ \o [i \in 1..extras |-> LastOffset(s) + i]]

\* _mtwrite: each chunk's bytes replace len bytes from pos on, positions being
\* those before the write.  What does not fit goes before the bytes that follow
\* (_downcopy), and a gap is closed (_upcopy).
RECURSIVE WriteChunks(_, _, _, _)
WriteChunks(f, chunks, unwritten, delta) ==
  IF chunks = <<>> THEN f
  ELSE
    LET c     == Head(chunks)
        end   == c.pos + c.len
        next  == IF Len(chunks) > 1 THEN chunks[2].pos ELSE Len(f)
        data  == unwritten \o c.data
        d0    == delta - Len(unwritten)
        room  == IF c.len >= Len(data) THEN Len(data) ELSE Min({c.len - d0, Len(data)})
        rest  == SubSeq(data, room + 1, Len(data))
        f1    == Overwrite(f, c.pos + d0, SubSeq(data, 1, room))
        d1    == d0 + Len(data) - c.len
        moved == rest \o SubSeq(f1, end + 1, next)
        last  == Len(chunks) = 1
    IN  IF d1 = 0
        THEN WriteChunks(Overwrite(f1, c.pos + d0 + room, rest), Tail(chunks), <<>>, 0)
        ELSE IF d1 < 0
        THEN LET up == Overwrite(f1, end + d1, SubSeq(f1, end + 1, next))
             IN  WriteChunks(IF last THEN SubSeq(up, 1, next + d1) ELSE up,
                             Tail(chunks), <<>>, d1)
        ELSE IF last
        THEN Overwrite(f1, end, moved)
        ELSE WriteChunks(Overwrite(f1, end, SubSeq(moved, 1, next - end)), Tail(chunks),
                         SubSeq(moved, next - end + 1, Len(moved)), d1)

\* _oadjust: the offsets once the records of each group have replaced nrecs
\* records from number pos on.
RECURSIVE AdjustOffsets(_, _, _, _, _)
AdjustOffsets(off, groups, delta, delta_recs, prev_end) ==
  IF groups = <<>>
  THEN [i \in DOMAIN off |-> IF i > prev_end + 2 THEN off[i] + delta ELSE off[i]]
  ELSE
    LET g    == Head(groups)
        pos  == g.pos + delta_recs
        off1 == [i \in DOMAIN off |->
                  IF i > prev_end + 2 /\ i <= pos THEN off[i] + delta ELSE off[i]]
        new  == [k \in 1..(Len(g.data) + 1) |->
                  off1[pos + 1] + delta + Len(FlattenSeq(SubSeq(g.data, 1, k - 1)))]
        past == Min({pos + g.nrecs + 1, Len(off1)})
        old  == off1[past] - off1[pos + 1]
    IN  AdjustOffsets(SubSeq(off1, 1, pos) \o new \o SubSeq(off1, pos + g.nrecs + 2, Len(off1)),
                      Tail(groups),
                      delta + Len(FlattenSeq(g.data)) - old,
                      delta_recs + Len(g.data) - g.nrecs,
                      pos + Len(g.data) - 1)

OAdjust(s, groups) ==
  CacheFlush([s EXCEPT !.offsets = AdjustOffsets(@, groups, 0, 0, -1)])

Group(pos, nrecs, data) == [pos |-> pos, nrecs |-> nrecs, data |-> data]
Chunk(data, pos, len) == [data |-> FlattenSeq(data), pos |-> pos, len |-> len]

\* What STORE and _splice do to the file and the offsets: nrecs records from pos
\* on, old bytes of the file, are replaced.
PutRecords(s, pos, nrecs, old, data) ==
  OAdjust([s EXCEPT !.file = WriteChunks(@, <<Chunk(data, OffsetOf(s, pos), old)>>, <<>>, 0)],
          <<Group(pos, nrecs, data)>>)

\* Mutant of DropDeferred: the cache does not get its memory back.
DropDeferredKeepsLimit(s) ==
  [s EXCEPT !.deferred = NoneDeferred, !.deferred_s = 0, !.deferred_max = -1]

\* _discard
DropDeferred(s) ==
  [s EXCEPT !.deferred = NoneDeferred, !.deferred_s = 0, !.deferred_max = -1, !.limit = memory]

\* The loop of _flush over the deferred records in N: it goes by runs of
\* consecutive ones.  Where one run begins and ends is read from the table, which
\* is filled to the end of the run, or the file is extended.
Reaching(s, n) == IF HasOffset(s, n + 1) THEN s ELSE ExtendFileTo(s, n)
AddRun(s, plan, first, last) ==
  LET data  == [i \in 1..(last - first + 1) |-> s.deferred[first + i - 1]]
      start == OffsetOf(s, first)
      end   == OffsetOf(s, IF HasOffset(s, last + 1) THEN last + 1 ELSE last)
  IN  [obj |-> s, chunks |-> Append(plan.chunks, Chunk(data, start, end - start)),
       groups |-> Append(plan.groups, Group(first, last - first + 1, data))]

RECURSIVE PlanFlush(_, _)
PlanFlush(plan, N) ==
  IF N = {} THEN plan
  ELSE LET first == Min(N)
           last  == Max({n \in N : first..n \subseteq N})
       IN  PlanFlush(AddRun(Reaching(FillOffsetsTo(plan.obj, last + 1), last), plan, first, last),
                     N \ (first..last))

\* _flush
WritePlan(plan) ==
  OAdjust(DropDeferred([plan.obj EXCEPT !.file = WriteChunks(@, plan.chunks, <<>>, 0)]),
          plan.groups)
FlushDeferred(s) ==
  WritePlan(PlanFlush([obj |-> s, chunks |-> <<>>, groups |-> <<>>], DOMAIN s.deferred))
FlushIfDeferring(s) == IF IsDeferring(s) THEN FlushDeferred(s) ELSE s
-----------------------------------------------------------------------------
\* Autodeferring.

StopAutodeferring(s) ==
  [(IF s.autodeferring THEN FlushDeferred(s) ELSE s) EXCEPT !.autodeferring = FALSE]

\* _annotate_ad_history looks at calls only while it may have to guess.
Watching(s) ==
  s.autodefer /\ ~s.defer /\ LastOffset(s) >= autodefer_filelen_threshhold

\* for a STORE of record n
AnnotateStore(s, n) ==
  IF ~Watching(s) THEN s
  ELSE IF s.ad_history = <<>> THEN [s EXCEPT !.ad_history = <<n, n>>]
  ELSE IF s.ad_history[2] = n - 1
  THEN [s EXCEPT !.ad_history[2] = n,
                 !.autodeferring = @ \/ n - s.ad_history[1] + 1 >= autodefer_threshhold]
  ELSE StopAutodeferring([s EXCEPT !.ad_history = <<n, n>>])

\* for CLEAR (<<-2, -1>>) and for other calls (<<>>)
AnnotateOther(s, history) ==
  IF Watching(s) THEN StopAutodeferring([s EXCEPT !.ad_history = history]) ELSE s
-----------------------------------------------------------------------------
\* The methods of the array.

\* _store_deferred
MakeRoom(s) ==
  IF s.deferred_s > dw_size THEN FlushDeferred(s)
  ELSE IF s.bytes + s.deferred_s >= memory THEN CacheFlush(s) ELSE s
StoreDeferred(s, n, rec) ==
  LET diff == Len(rec) - (IF n \in DOMAIN s.deferred THEN Len(s.deferred[n]) ELSE 0)
  IN  MakeRoom([Uncache(s, {n}) EXCEPT
        !.deferred = [k \in DOMAIN @ \cup {n} |-> IF k = n THEN rec ELSE @[k]],
        !.deferred_max = IF @ # NoMax /\ n > @ THEN n ELSE @,
        !.deferred_s = @ + diff, !.limit = @ - diff])

\* _delete_deferred, of all records in N
DeleteDeferred(s, N) ==
  LET gone    == N \cap DOMAIN s.deferred
      size(n) == Len(s.deferred[n])
  IN  [s EXCEPT !.deferred = [n \in DOMAIN @ \ gone |-> @[n]],
                !.deferred_max = IF @ \in gone THEN NoMax ELSE @,
                !.deferred_s = @ - MapThenSumSet(size, gone),
                !.limit = @ + MapThenSumSet(size, gone)]

WriteInFile(f, n, rec) ==
  IF f.rec = <<>> THEN PutRecords(ExtendFileTo(f.obj, n + 1), n, 1, 1, <<rec>>)
  ELSE PutRecords(f.obj, n, 1, Len(f.rec), <<rec>>)
StoreRecord(s, n, rec) ==
  IF IsDeferring(s) THEN StoreDeferred(s, n, rec)
  ELSE CacheUpdate(WriteInFile(FetchCached(s, n), n, rec), n, rec)
STORE(s, n, rec) == StoreRecord(AnnotateStore(s, n), n, rec)

\* STORESIZE.  _seek dies for a record without an offset; what was done before
\* stays done.
Chop(s, n) ==
  IF ~HasOffset(s, n) THEN s
  ELSE Uncache([s EXCEPT !.file = SubSeq(@, 1, OffsetOf(s, n)), !.offsets = SubSeq(@, 1, n + 1)],
               {k \in CacheKeys(s) : k >= n})
Shorten(s, len) ==
  Chop(IF ~IsDeferring(s) THEN s
       ELSE [DeleteDeferred(s, {n \in DOMAIN s.deferred : n >= len}) EXCEPT
              !.deferred_max = len - 1],
       len)
Lengthen(s, len) ==
  IF IsDeferring(s)
  THEN FoldLeft(LAMBDA o, n : StoreDeferred(o, n, Blank), s,
                [i \in 1..(len - SizeOf(s)) |-> SizeOf(s) + i - 1])
  ELSE ExtendFileTo(s, len)
SetSize(s, len) ==
  IF len = SizeOf(s) THEN s ELSE IF len > SizeOf(s) THEN Lengthen(s, len) ELSE Shorten(s, len)
STORESIZE(s, len) == SetSize(FETCHSIZE(AnnotateOther(s, <<>>)), len)

\* Mutant of CLEAR: what was deferred is still to be written.
CLEARKeepsDeferred(s) ==
  LET t == AnnotateOther(s, <<-2, -1>>)
  IN  [t EXCEPT !.file = <<>>, !.offsets = <<0>>, !.cache = <<>>, !.bytes = 0]

CLEAR(s) ==
  [DropDeferred(AnnotateOther(s, <<-2, -1>>)) EXCEPT
    !.file = <<>>, !.offsets = <<0>>, !.cache = <<>>, !.bytes = 0]

EXTEND(s, n) == IF IsDeferring(s) THEN s ELSE ExtendFileTo(FillOffsetsTo(s, n), n)

DeleteLast(s, n) ==
  IF ~HasOffset(s, n) THEN s
  ELSE Uncache([s EXCEPT !.file = SubSeq(@, 1, OffsetOf(s, n)), !.offsets = Front(@)], {n})
DeleteFrom(s, n, size) ==
  IF n = size - 1 THEN DeleteLast(s, n)
  ELSE IF n < size THEN STORE(s, n, Blank) ELSE s
Undefer(s, n) == IF IsDeferring(s) THEN DeleteDeferred(s, {n}) ELSE s
DeleteSized(s, n) == DeleteFrom(Undefer(FETCH(s, n).obj, n), n, SizeOf(s))
DELETE(s, n) == DeleteSized(FETCHSIZE(AnnotateOther(s, <<>>)), n)

\* _splice, on its arguments within the array
FetchAll(s, pos, nrecs) ==
  FoldLeft(LAMBDA o, n : FetchCached(o, n).obj, s, [i \in 1..nrecs |-> pos + i - 1])
CacheReplaced(s, pos, nrecs, data) ==
  FoldLeft(LAMBDA o, i : IF i <= Len(data) THEN CacheUpdate(o, pos + i - 1, data[i])
                         ELSE Uncache(o, {pos + i - 1}),
           s, [i \in 1..nrecs |-> i])
Rekey(s, from, delta) ==
  [s EXCEPT !.cache = [i \in DOMAIN @ |->
    IF @[i].key >= from THEN [@[i] EXCEPT !.key = @ + delta] ELSE @[i]]]
ReplaceRead(s, pos, nrecs, data) ==
  LET put == PutRecords(s, pos, nrecs, OffsetOf(s, pos + nrecs) - OffsetOf(s, pos), data)
  IN  CacheFlush(Rekey(CacheReplaced(put, pos, nrecs, data), pos + nrecs, Len(data) - nrecs))
Replace(s, pos, nrecs, data) == ReplaceRead(FetchAll(s, pos, nrecs), pos, nrecs, data)

\* Positions from the end are made ones from the start, and what reaches over the
\* end is cut.
SpliceSized(s, pos, nrecs, data) ==
  LET size == SizeOf(s)
      p == Min({IF pos < 0 THEN pos + size ELSE pos, size})
      k == IF nrecs < 0 THEN Max({size - p + nrecs, 0}) ELSE Min({nrecs, size - p})
  IN  IF p < 0 \/ (pos > size /\ data = <<>>) THEN s ELSE Replace(s, p, k, data)
SPLICE(s, pos, nrecs, data) ==
  SpliceSized(FETCHSIZE(FlushIfDeferring(AnnotateOther(s, <<>>))), pos, nrecs, data)

PushSized(s, data) == SPLICE(s, SizeOf(s), Len(data), data)
PUSH(s, data) == PushSized(FETCHSIZE(s), data)
PopSized(s) == IF SizeOf(s) = 0 THEN s ELSE SPLICE(s, SizeOf(s) - 1, 1, <<>>)
POP(s) == PopSized(FETCHSIZE(s))
-----------------------------------------------------------------------------
\* What the calls mean: the array that a program has in mind.

RECURSIVE SplitFrom(_, _)
SplitFrom(f, o) ==
  IF o >= Len(f) THEN <<>>
  ELSE LET r == ReadRecord(f, o) IN <<r.rec>> \o SplitFrom(r.file, r.end)

Disk(s) == SplitFrom(s.file, 0)

Resized(a, n) == [i \in 1..n |-> IF i <= Len(a) THEN a[i] ELSE Blank]
With(a, n, rec) == [Resized(a, Max({Len(a), n + 1})) EXCEPT ![n + 1] = rec]
Instead(a, pos, nrecs, data) ==
  SubSeq(a, 1, pos) \o data \o SubSeq(a, pos + nrecs + 1, Len(a))

\* The file's records with the deferred ones in their place.
Shown(s) ==
  LET d == Disk(s)
  IN  [i \in 1..Max({Len(d)} \cup {n + 1 : n \in DOMAIN s.deferred}) |->
        IF i - 1 \in DOMAIN s.deferred THEN s.deferred[i - 1]
        ELSE IF i <= Len(d) THEN d[i] ELSE Blank]
-----------------------------------------------------------------------------
Data == UNION {[1..n -> Record] : n \in 0..MaxInserted}
Number == 0..(MaxRecords - 1)

TfInit == \E f \in Files, auto \in BOOLEAN : tf = Tied(f, auto) /\ array = Disk(tf)

Becomes(s, a) == Len(a) <= MaxRecords /\ array' = a /\ tf' = s

Examine ==
  \/ \E n \in 0..MaxRecords : Becomes(FETCH(tf, n).obj, array)
  \/ Becomes(FETCHSIZE(tf), array)

\* Without gaps a program defers, of records past the end of the file, only one
\* run of consecutive ones.
NoGaps(s, n) ==
  LET past == {k \in DOMAIN s.deferred \cup {n} : k >= Len(Disk(s))}
  IN  IsDeferring(s) /\ "gaps" \notin Careless =>
        \A k \in past : \A j \in past : k..j \subseteq past

AssignRecord == \E n \in Number, rec \in Record :
  /\ NoGaps(AnnotateStore(tf, n), n)
  /\ Becomes(STORE(tf, n, rec), With(array, n, rec))

\* Without "shrinks" an array is made shorter only when no writes are deferred.
ResizeFile == \E len \in 0..MaxRecords :
  /\ len < Len(array) /\ "shrinks" \notin Careless => ~IsDeferring(AnnotateOther(tf, <<>>))
  /\ Becomes(STORESIZE(tf, len), Resized(array, len))

ClearFile == Becomes(CLEAR(tf), <<>>)

\* List assignment calls EXTEND between CLEAR and the STOREs.
PreExtend == \E n \in 0..MaxRecords :
  Becomes(EXTEND(tf, n), IF IsDeferring(tf) THEN array ELSE Resized(array, Max({Len(array), n})))

\* Without "deletes" the last record is not deleted while it is in the buffer only.
DeleteRecord == \E n \in Number :
  LET s == AnnotateOther(tf, <<>>)
  IN  /\ IsDeferring(s) /\ "deletes" \notin Careless =>
           (n = Len(array) - 1 => n < Len(Disk(s))) /\ (n < Len(array) => NoGaps(s, n))
      /\ Becomes(DELETE(tf, n),
                 IF n = Len(array) - 1 THEN Front(array)
                 ELSE IF n < Len(array) THEN With(array, n, Blank) ELSE array)

\* SPLICE, SHIFT and UNSHIFT.  Some positions and lengths stand for all: the first,
\* the second and the last record and the end; all but one, none and one.
SpliceRecords == \E pos \in {-1, 0, 1, MaxRecords}, nrecs \in {-1, 0, 1}, data \in Data :
  LET p == IF pos < 0 THEN pos + Len(array) ELSE Min({pos, Len(array)})
      k == IF nrecs < 0 THEN Max({Len(array) - p + nrecs, 0}) ELSE Min({nrecs, Len(array) - p})
  IN  /\ p >= 0
      /\ Becomes(SPLICE(tf, pos, nrecs, data), Instead(array, p, k, data))

PushRecords == \E data \in Data : Becomes(PUSH(tf, data), array \o data)
PopRecord == Becomes(POP(tf), IF array = <<>> THEN <<>> ELSE Front(array))

Defer == Becomes([StopAutodeferring(tf) EXCEPT !.ad_history = <<>>, !.defer = TRUE], array)
Flush == Becomes([FlushDeferred(tf) EXCEPT !.defer = FALSE], array)
Discard == Becomes([DropDeferred(tf) EXCEPT !.defer = FALSE], Disk(tf))

Autodefer == \E auto \in BOOLEAN :
  LET s == [tf EXCEPT !.autodefer = auto]
  IN  Becomes(IF tf.autodefer THEN [StopAutodeferring(s) EXCEPT !.ad_history = <<>>] ELSE s,
              array)

\* flock, with success.  Without "locks late" it is called before the object has
\* seen the end of the file.
Flock ==
  /\ "locks late" \notin Careless => ~tf.eof
  /\ Becomes([tf EXCEPT !.offsets = <<0>>, !.cache = <<>>, !.bytes = 0], array)

\* The array is untied (DESTROY) and the file tied again.
Retie == \E auto \in BOOLEAN :
  Becomes(Tied(FlushIfDeferring(tf).file, auto), array)

TfNext ==
  \/ Examine \/ AssignRecord \/ ResizeFile \/ ClearFile \/ PreExtend
  \/ DeleteRecord \/ SpliceRecords \/ PushRecords \/ PopRecord
  \/ Defer \/ Flush \/ Discard \/ Autodefer \/ Flock \/ Retie

TfSpec == TfInit /\ [][TfNext]_tfVars
-----------------------------------------------------------------------------
TfTypeOK ==
  /\ Range(tf.offsets) \subseteq 0..Len(tf.file)
  /\ tf.eof \in BOOLEAN /\ tf.defer \in BOOLEAN
  /\ tf.autodefer \in BOOLEAN /\ tf.autodeferring \in BOOLEAN
  /\ CacheKeys(tf) \subseteq Number /\ DOMAIN tf.deferred \subseteq Number
  /\ tf.bytes \in Int /\ tf.limit \in Int /\ tf.deferred_s \in Int
  /\ Range(array) \subseteq Record

Known == Disk(tf)
Starts(n) == Len(FlattenSeq(SubSeq(Known, 1, n)))

\* Each offset the object has is the one at which that record begins ("rec ...:
\* offset ... actual ...", File.pm:1329).
OffsetsAreTrue ==
  /\ 1 <= Len(tf.offsets) /\ Len(tf.offsets) <= Len(Known) + 1
  /\ \A n \in 0..(Len(tf.offsets) - 1) : OffsetOf(tf, n) = Starts(n)

\* A table that is marked complete is complete.
EofMeansComplete == tf.eof => Len(tf.offsets) = Len(Known) + 1

\* The cache holds what the file holds, each record once, knows its own
\* size, and leaves the deferred records their memory and their keys.
CacheIsTrue ==
  /\ \A i \in DOMAIN tf.cache :
       LET c == tf.cache[i]
       IN  /\ c.key < Len(Known) /\ c.rec = Known[c.key + 1]
           /\ c.key \notin DOMAIN tf.deferred
           /\ \A j \in DOMAIN tf.cache : tf.cache[j].key = c.key => i = j
  /\ tf.bytes = Len(FlattenSeq([i \in DOMAIN tf.cache |-> tf.cache[i].rec]))
  /\ tf.bytes + tf.deferred_s <= memory
  /\ tf.limit = memory - tf.deferred_s

\* Writes wait only while they are deferred, within the limit of the buffer, and
\* only one of the two reasons for it holds.
BufferIsTrue ==
  LET size(n) == Len(tf.deferred[n])
  IN  /\ ~IsDeferring(tf) => tf.deferred = NoneDeferred
      /\ tf.deferred_s = MapThenSumSet(size, DOMAIN tf.deferred) /\ tf.deferred_s <= dw_size
      /\ tf.deferred_max \in {NoMax, Max(DOMAIN tf.deferred \cup {-1})}
      /\ ~(tf.defer /\ tf.autodeferring)
      /\ tf.autodeferring => tf.autodefer
      /\ ~tf.autodefer => tf.ad_history = <<>>
      /\ tf.ad_history # <<>> => tf.ad_history[1] <= tf.ad_history[2]

\* What _check_integrity checks.
FileIsIndexed == OffsetsAreTrue /\ EofMeansComplete /\ CacheIsTrue /\ BufferIsTrue

\* Whatever is cached, deferred or not yet read, the program reads the array that
\* its calls have made, a record of a gap being undef until it is written; and
\* when no writes are deferred the file holds that array.
ArrayIsKept ==
  /\ Shown(tf) = array
  /\ SizeOf(FETCHSIZE(tf)) = Len(array)
  /\ \A n \in 0..MaxRecords :
       LET rec == FETCH(tf, n).rec
       IN  IF rec # <<>> THEN n < Len(array) /\ rec = array[n + 1]
           ELSE n >= Len(array) \/ (n >= Len(Known) /\ array[n + 1] = Blank)
  /\ ~IsDeferring(tf) => Known = array
=============================================================================

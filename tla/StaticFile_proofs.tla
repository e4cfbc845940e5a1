--------------------------- MODULE StaticFile_proofs ---------------------------
(* Theorems about StaticFile, for every set of lengths, requests and kinds of *)
(* URL, every resolution of the HTTP date, and any replacements.              *)
EXTENDS StaticFile, TLAPS

(***************************************************************************)
(* As long as the URL means one file which only gets newer, the file on     *)
(* disk is the newest there has been.  Whoever saw a version of it - the    *)
(* handler in its metadata, the client in its copy - saw none that is newer, *)
(* and none of the same time that is another.                               *)
(***************************************************************************)
Seen(v) ==
  /\ v.time <= newest
  /\ disk["target"] # Absent /\ v.time = disk["target"].time => v = disk["target"]

DiskInv ==
  /\ \A f \in Files : disk[f].time = 0 => disk[f] = Absent
  /\ steady => /\ ~config.fallback
               /\ disk["target"] # Absent => disk["target"].time = newest

KnownInv == steady => Seen(meta) /\ Seen(copy.etag) /\ Seen(copy.content)

Fetching == pc \in {"read", "open"}

\* What the handler knows of the file it serves: it is still the one metadata()
\* saw, or the answer is marked.
PathInv ==
  /\ path = "fallback" => config.fallback
  /\ pc \in {"resolve", "metadata"} => ~raced
  /\ Fetching => meta # Absent /\ (~raced => disk[path] = meta)

\* What the client knows: the date is not later than the tag, and the content is
\* of the version of the tag if nothing changed in the middle of the answer, and
\* not of an older one if the file only gets newer.
CopyInv ==
  /\ copy.date <= copy.etag.time
  /\ ~copy.raced => copy.content = copy.etag
  /\ steady => copy.etag.time <= copy.content.time

\* A range that is being fetched lies in the file that metadata() saw.
RangeInv ==
  pc = "open" =>
    /\ range.start..range.end = Asked(req.range, meta.len)
    /\ range.start <= range.end /\ range.end < meta.len

IInv == TypeOK /\ DiskInv /\ KnownInv /\ PathInv /\ CopyInv /\ RangeInv

(* ------------------------------ operators ------------------------------- *)

\* Dropping the fraction of a second never makes a date later.
LEMMA DateIsEarlier ==
  ASSUME NEW m \in Versions
  PROVE  Date(m) \in Nat /\ Date(m) <= m.time
<1>1. m.time \in Nat /\ PerSecond \in Nat /\ PerSecond > 0
  BY FileAssumption DEF FileAssumption, Versions
<1>2. m.time % PerSecond \in 0..(PerSecond - 1) /\ m.time % PerSecond <= m.time
  BY <1>1
<1> QED
  BY <1>1, <1>2 DEF Date

\* A file that is there has a time.
LEMMA PresentType ==
  ASSUME NEW v \in Present
  PROVE  v \in Versions /\ v.time \in Nat /\ v.time # 0
<1>1. v.time \in 1..MaxTime /\ v.len \in Lengths /\ v = [time |-> v.time, len |-> v.len]
  BY DEF Present
<1>2. v.time \in Nat /\ v.time # 0 /\ v.len \in Nat
  BY <1>1, FileAssumption DEF FileAssumption
<1> QED
  BY <1>1, <1>2 DEF Versions

\* parse_range names the positions asked for that the file has; it refuses a
\* range only if there are none, and ignores none that makes sense.
LEMMA ParsedAsAsked ==
  ASSUME NEW r \in RangeType, NEW len \in Nat
  PROVE  LET parsed == ParseRange(r, len) IN
         /\ parsed.kind \in {"ignore", "unsatisfiable", "valid"}
         /\ parsed.kind = "valid" =>
              /\ parsed.start \in Nat /\ parsed.end \in Nat
              /\ parsed.start <= parsed.end /\ parsed.end < len
              /\ parsed.start..parsed.end = Asked(r, len)
         /\ parsed.kind = "unsatisfiable" => Asked(r, len) = {}
         /\ parsed.kind = "ignore" =>
              \/ r.form \in {"none", "malformed"}
              \/ r.form = "span" /\ r.b < r.a
<1> USE DEF ParseRange, Ignore, Unsatisfiable, Valid, SaturatingSub, Lesser, Asked
<1>1. /\ r.a \in Nat /\ r.b \in Nat
      /\ r.form \in {"none", "malformed", "suffix", "from", "span"}
  BY DEF RangeType
<1>2. CASE r.form \in {"none", "malformed"}
  BY <1>2
<1>3. CASE r.form = "suffix"
  BY <1>1, <1>3
<1>4. CASE r.form = "from"
  BY <1>1, <1>4
<1>5. CASE r.form = "span"
  BY <1>1, <1>5
<1> QED
  BY <1>1, <1>2, <1>3, <1>4, <1>5

(* -------------------------------- actions ------------------------------- *)

\* The handler returns and the client keeps the copy it had.
LEMMA AnswerStep ==
  ASSUME IInv, NEW r, r.status \in {200, 206, 304, 404, 416, 500},
         Answer(r), UNCHANGED copy
  PROVE  IInv'
<1> USE DEF Answer, history
<1>1. Absent \in Versions /\ NoRange \in [start : Nat, end : Nat] /\ "target" \in Files
  BY DEF Absent, Versions, NoRange, Files
<1>2. TypeOK'
  BY <1>1 DEF IInv, TypeOK
<1>3. steady => Seen(Absent)
  BY <1>1 DEF IInv, TypeOK, DiskInv, Seen, Absent
<1>4. DiskInv' /\ KnownInv'
  <2>1. /\ disk' = disk /\ config' = config /\ meta' = Absent /\ copy' = copy
        /\ steady' = steady /\ newest' = newest
    OBVIOUS
  <2>2. DiskInv'
    BY <2>1 DEF IInv, DiskInv
  <2>3. KnownInv'
    BY <1>3, <2>1 DEF IInv, KnownInv, Seen
  <2> QED
    BY <2>2, <2>3
<1>5. PathInv' /\ CopyInv' /\ RangeInv'
  BY DEF IInv, PathInv, Fetching, CopyInv, RangeInv
<1> QED
  BY <1>2, <1>4, <1>5 DEF IInv

LEMMA RequestStep ==
  ASSUME IInv, NEW r \in Requests, Request(r)
  PROVE  IInv'
<1> USE DEF Request, NoReply, history
<1>1. TypeOK'
  BY DEF IInv, TypeOK
<1>2. DiskInv' /\ KnownInv'
  BY DEF IInv, DiskInv, KnownInv, Seen
<1>3. PathInv' /\ CopyInv' /\ RangeInv'
  BY DEF IInv, PathInv, Fetching, CopyInv, RangeInv
<1> QED
  BY <1>1, <1>2, <1>3 DEF IInv

LEMMA FileResponseStep ==
  ASSUME IInv, NEW file \in Files, FileResponse(file), pc = "resolve",
         file = "fallback" => config.fallback
  PROVE  IInv'
<1> USE DEF FileResponse, history
<1>1. TypeOK'
  BY DEF IInv, TypeOK
<1>2. DiskInv' /\ KnownInv'
  BY DEF IInv, DiskInv, KnownInv, Seen
<1>3. PathInv' /\ CopyInv' /\ RangeInv'
  BY DEF IInv, PathInv, Fetching, CopyInv, RangeInv
<1> QED
  BY <1>1, <1>2, <1>3 DEF IInv

LEMMA ResolveStep == IInv /\ Resolve => IInv'
<1> SUFFICES ASSUME IInv, Resolve PROVE IInv'
  OBVIOUS
<1>1. CASE NotFound
  BY <1>1, AnswerStep DEF NotFound
<1>2. CASE Answer([status |-> 200, listing |-> TRUE]) /\ UNCHANGED copy
  BY <1>2, AnswerStep
<1>3. CASE FileResponse("target")
  BY <1>3, FileResponseStep DEF Resolve, Files
<1>4. CASE config.fallback /\ FileResponse("fallback")
  BY <1>4, FileResponseStep DEF Resolve, Files
<1> QED
  BY <1>1, <1>2, <1>3, <1>4 DEF Resolve

LEMMA MetadataStep == IInv /\ Metadata => IInv'
<1> SUFFICES ASSUME IInv, Metadata PROVE IInv'
  OBVIOUS
<1>1. CASE NotFound
  BY <1>1, AnswerStep DEF NotFound
<1>2. CASE Answer([status |-> 304, meta |-> disk[path]]) /\ UNCHANGED copy
  BY <1>2, AnswerStep
<1>3. CASE /\ disk[path] # Absent /\ meta' = disk[path] /\ pc' = "read"
           /\ UNCHANGED <<config, disk, req, path, range, reply, copy, raced, history>>
  <2>1. path \in Files /\ disk[path] \in Versions /\ disk[path].time \in Nat
    BY DEF IInv, TypeOK, Versions
  <2>2. TypeOK'
    BY <1>3, <2>1 DEF IInv, TypeOK, history
  <2>3. DiskInv' /\ KnownInv'
    <3>1. steady => path = "target" /\ Seen(disk[path])
      BY <1>3, <2>1 DEF IInv, DiskInv, PathInv, Seen, Files
    <3> QED BY <1>3, <3>1 DEF IInv, DiskInv, KnownInv, Seen, history
  <2>4. PathInv'
    BY <1>3, <2>1 DEF IInv, PathInv, Fetching, Metadata
  <2>5. CopyInv' /\ RangeInv'
    BY <1>3 DEF IInv, CopyInv, RangeInv, history
  <2> QED
    BY <2>2, <2>3, <2>4, <2>5 DEF IInv
<1> QED
  BY <1>1, <1>2, <1>3 DEF Metadata

\* The client gets a whole file, with the validators of metadata().
LEMMA WholeStep ==
  ASSUME IInv, pc = "read", disk[path] # Absent, Whole(meta, disk[path])
  PROVE  IInv'
<1> DEFINE kept == [etag |-> meta, date |-> Date(meta), content |-> disk[path],
                   raced |-> raced]
<1>1. /\ Answer([status |-> 200, listing |-> FALSE, meta |-> meta,
                 content |-> disk[path]])
      /\ copy' = kept
  BY DEF Whole, Etag
<1>2. /\ path \in Files /\ disk[path] \in Versions /\ meta \in Versions
      /\ disk[path].time \in Nat /\ meta.time \in Nat
  BY DEF IInv, TypeOK, Versions
<1>3. Date(meta) \in Nat /\ Date(meta) <= meta.time
  BY <1>2, DateIsEarlier
<1>4. TypeOK'
  <2>1. kept \in [etag : Versions, date : Nat, content : Versions, raced : BOOLEAN]
    BY <1>2, <1>3 DEF IInv, TypeOK
  <2>2. Absent \in Versions /\ NoRange \in [start : Nat, end : Nat] /\ "target" \in Files
    BY DEF Absent, Versions, NoRange, Files
  <2> QED
    BY <1>1, <2>1, <2>2 DEF IInv, TypeOK, Answer, history
<1>5. /\ disk' = disk /\ config' = config /\ meta' = Absent
      /\ steady' = steady /\ newest' = newest
  BY <1>1 DEF Answer, history
<1>6. ASSUME steady PROVE
        /\ path = "target" /\ disk[path].time = newest
        /\ Seen(Absent) /\ Seen(meta) /\ Seen(disk[path])
  <2>1. path = "target" /\ disk[path].time = newest
    BY <1>2, <1>6 DEF IInv, DiskInv, PathInv, Files
  <2>2. Seen(Absent)
    BY <2>1 DEF IInv, TypeOK, Seen, DiskInv, Absent, Files
  <2> QED
    BY <1>2, <1>6, <2>1, <2>2 DEF IInv, KnownInv, Seen
<1>7. DiskInv' /\ KnownInv' /\ CopyInv'
  <2>1. DiskInv'
    BY <1>5 DEF IInv, DiskInv
  <2>2. KnownInv'
    BY <1>1, <1>5, <1>6 DEF KnownInv, Seen
  <2>3. ~raced => disk[path] = meta
    BY DEF IInv, PathInv, Fetching
  <2>4. steady => meta.time <= disk[path].time
    BY <1>6 DEF Seen
  <2> QED
    BY <1>1, <1>3, <1>5, <2>1, <2>2, <2>3, <2>4 DEF CopyInv
<1>8. PathInv' /\ RangeInv'
  BY <1>1 DEF IInv, PathInv, Fetching, RangeInv, Answer
<1> QED
  BY <1>4, <1>7, <1>8 DEF IInv

\* What read() leads to when the header names positions of the file.
LEMMA RangeStep ==
  ASSUME IInv, NEW parsed, parsed = ParseRange(req.range, meta.len),
         pc = "read", parsed.kind = "valid",
         range' = [start |-> parsed.start, end |-> parsed.end], pc' = "open",
         UNCHANGED <<config, disk, req, path, meta, reply, copy, raced, history>>
  PROVE  IInv'
<1>1. req.range \in RangeType /\ meta.len \in Nat
  BY FileAssumption DEF FileAssumption, IInv, TypeOK, RequestType, Versions
<1>2. /\ parsed.start \in Nat /\ parsed.end \in Nat
      /\ parsed.start <= parsed.end /\ parsed.end < meta.len
      /\ parsed.start..parsed.end = Asked(req.range, meta.len)
  BY <1>1, ParsedAsAsked
<1>3. TypeOK'
  BY <1>2 DEF IInv, TypeOK, history
<1>4. DiskInv' /\ KnownInv'
  BY DEF IInv, DiskInv, KnownInv, Seen, history
<1>5. PathInv' /\ CopyInv'
  BY DEF IInv, PathInv, Fetching, CopyInv, history
<1>6. RangeInv'
  BY <1>2 DEF RangeInv, Asked
<1> QED
  BY <1>3, <1>4, <1>5, <1>6 DEF IInv

LEMMA ReadStep == IInv /\ Read => IInv'
<1> SUFFICES ASSUME IInv, Read PROVE IInv'
  OBVIOUS
<1> DEFINE parsed == ParseRange(req.range, meta.len)
<1>1. CASE NotFound
  BY <1>1, AnswerStep DEF NotFound
<1>2. CASE Whole(meta, disk[path]) /\ disk[path] # Absent
  BY <1>2, WholeStep DEF Read
<1>3. CASE Answer([status |-> 416, total |-> meta.len]) /\ UNCHANGED copy
  BY <1>3, AnswerStep
<1>4. CASE /\ parsed.kind = "valid"
           /\ range' = [start |-> parsed.start, end |-> parsed.end] /\ pc' = "open"
           /\ UNCHANGED <<config, disk, req, path, meta, reply, copy, raced, history>>
  <2> HIDE DEF parsed
  <2>1. pc = "read"
    BY DEF Read
  <2>2. parsed = ParseRange(req.range, meta.len)
    BY DEF parsed
  <2> QED
    BY <1>4, <2>1, <2>2, RangeStep
<1> QED
  BY <1>1, <1>2, <1>3, <1>4 DEF Read

LEMMA OpenRangeStep == IInv /\ OpenRange => IInv'
  BY AnswerStep DEF OpenRange, NotFound

LEMMA FailsStep == IInv /\ Fails => IInv'
  BY AnswerStep DEF Fails

\* Somebody replaces a file, or deletes it.
LEMMA ChangeStep ==
  ASSUME IInv, NEW file \in Files, NEW version \in Versions,
         Change(file, version), version.time = 0 => version = Absent,
         steady' \in BOOLEAN, newest' \in Nat, steady' => steady,
         \/ version = Absent /\ newest' = newest
         \/ steady' => newest < version.time /\ newest' = version.time
  PROVE  IInv'
<1>1. /\ disk' \in [Files -> Versions] /\ disk'[file] = version
      /\ \A f \in Files : f # file => disk'[f] = disk[f]
  BY DEF Change, IInv, TypeOK
<1>2. /\ newest \in Nat /\ meta.time \in Nat /\ version.time \in Nat
      /\ copy.etag.time \in Nat /\ copy.content.time \in Nat /\ copy.date \in Nat
      /\ "target" \in Files
  BY DEF IInv, TypeOK, Versions, Files
<1>3. TypeOK'
  BY <1>1 DEF IInv, TypeOK, Change
<1>4. steady => file = "target"
  BY DEF IInv, DiskInv, Change, Files
<1>5. DiskInv'
  <2>1. config' = config
    BY DEF Change
  <2>2. \A f \in Files : disk'[f].time = 0 => disk'[f] = Absent
    BY <1>1 DEF IInv, DiskInv
  <2> QED
    BY <1>1, <1>2, <1>4, <2>1, <2>2 DEF IInv, DiskInv
<1>6. ASSUME NEW v, v.time \in Nat, Seen(v), steady' PROVE
        /\ v.time <= newest'
        /\ disk'["target"] # Absent /\ v.time = disk'["target"].time => v = disk'["target"]
  BY <1>1, <1>2, <1>4, <1>6 DEF Seen
<1>7. KnownInv'
  BY <1>2, <1>6 DEF IInv, KnownInv, Seen, Change
<1>8. PathInv'
  <2>1. path \in Files /\ raced \in BOOLEAN
    BY DEF IInv, TypeOK
  <2>2. /\ path' = path /\ meta' = meta /\ pc' = pc /\ config' = config
        /\ ~raced' => ~raced /\ ~(Fetching /\ file = path)
    BY <2>1 DEF Change, Fetching
  <2>3. ASSUME Fetching, ~raced' PROVE disk'[path] = meta
    BY <1>1, <2>1, <2>2, <2>3 DEF IInv, PathInv
  <2>4. pc' \in {"resolve", "metadata"} => ~raced'
    BY DEF IInv, PathInv, Change
  <2> QED
    BY <2>2, <2>3, <2>4 DEF IInv, PathInv, Fetching
<1>9. CopyInv' /\ RangeInv'
  BY DEF IInv, CopyInv, RangeInv, Change
<1> QED
  BY <1>3, <1>5, <1>7, <1>8, <1>9 DEF IInv

LEMMA ReplaceStep ==
  ASSUME IInv, NEW file \in Files, NEW version \in Present, Replace(file, version)
  PROVE  IInv'
<1>1. version \in Versions /\ version.time \in Nat /\ version.time # 0
  BY PresentType
<1>2. /\ Change(file, version)
      /\ steady' = (steady /\ version.time > newest)
      /\ newest' = IF steady' THEN version.time ELSE 0
  BY DEF Replace
<1>3. newest \in Nat /\ steady \in BOOLEAN
  BY DEF IInv, TypeOK
<1>4. /\ steady' \in BOOLEAN /\ newest' \in Nat /\ (steady' => steady)
      /\ steady' => newest < version.time /\ newest' = version.time
  BY <1>1, <1>2, <1>3
<1> QED
  BY <1>1, <1>2, <1>4, ChangeStep

LEMMA DeleteStep ==
  ASSUME IInv, NEW file \in Files, Delete(file)
  PROVE  IInv'
<1>1. /\ Change(file, Absent) /\ steady' = steady /\ newest' = newest
      /\ newest \in Nat /\ steady \in BOOLEAN
  BY DEF Delete, history, IInv, TypeOK
<1>2. Absent \in Versions
  BY DEF Absent, Versions
<1> QED
  BY <1>1, <1>2, ChangeStep

LEMMA StutteringStep == IInv /\ UNCHANGED vars => IInv'
<1> SUFFICES ASSUME IInv, UNCHANGED vars PROVE IInv'
  OBVIOUS
<1>1. TypeOK' /\ DiskInv' /\ KnownInv'
  BY DEF vars, history, IInv, TypeOK, DiskInv, KnownInv, Seen
<1>2. PathInv' /\ CopyInv' /\ RangeInv'
  BY DEF vars, history, IInv, PathInv, Fetching, CopyInv, RangeInv
<1> QED
  BY <1>1, <1>2 DEF IInv

LEMMA Initially == Init => IInv
<1> SUFFICES ASSUME Init PROVE IInv
  OBVIOUS
<1>1. /\ Absent \in Versions
      /\ NoCopy \in [etag : Versions, date : Nat, content : Versions, raced : BOOLEAN]
      /\ NoRange \in [start : Nat, end : Nat]
      /\ "target" \in Files /\ config.fallback \in BOOLEAN
  BY FileAssumption DEF FileAssumption, Init, ConfigType, Absent, Versions, NoCopy, NoRange, Files
<1>2. /\ disk \in [Files -> Versions]
      /\ \A f \in Files : disk[f].time \in Nat /\ (disk[f].time = 0 => disk[f] = Absent)
  <2>1. ASSUME NEW f \in Files
        PROVE  disk[f] \in Versions /\ disk[f].time \in Nat
                 /\ (disk[f].time = 0 => disk[f] = Absent)
    BY <1>1, PresentType DEF Init, Absent
  <2> QED
    BY <2>1 DEF Init
<1>3. TypeOK
  BY <1>1, <1>2 DEF Init, TypeOK, NoReply
<1>4. DiskInv /\ KnownInv
  <2>1. Absent.time = 0 /\ meta = Absent /\ copy.etag = Absent /\ copy.content = Absent
    BY DEF Init, NoCopy, Absent
  <2>2. steady => newest = disk["target"].time /\ newest \in Nat
    BY <1>1, <1>2 DEF Init
  <2>3. steady => Seen(Absent)
    BY <1>1, <1>2, <2>1, <2>2 DEF Seen
  <2>4. steady => ~config.fallback
    BY DEF Init
  <2> QED
    BY <1>2, <2>1, <2>2, <2>3, <2>4 DEF DiskInv, KnownInv
<1>5. PathInv /\ CopyInv /\ RangeInv
  BY <1>2 DEF Init, PathInv, Fetching, CopyInv, RangeInv, NoCopy, Absent
<1> QED
  BY <1>3, <1>4, <1>5 DEF IInv

LEMMA Inductive == Spec => []IInv
<1>1. IInv /\ [Next]_vars => IInv'
  BY RequestStep, ResolveStep, MetadataStep, ReadStep, OpenRangeStep, FailsStep,
     ReplaceStep, DeleteStep, StutteringStep DEF Next
<1> QED
  BY <1>1, Initially, PTL DEF Spec

\* The shape of the state, and with it that positions, lengths and times stay
\* natural numbers, for every set of lengths and any times.
THEOREM TypeCorrect == Spec => []TypeOK
  BY Inductive, PTL DEF IInv

(* -------------------------------- answers ------------------------------- *)

Listed(r) == r = [status |-> 200, listing |-> TRUE]
Failed(r) == r \in {[status |-> 404], [status |-> 500]}

Confirmed ==
  /\ pc = "metadata" /\ disk[path] # Absent /\ NotModified(disk[path])
  /\ reply' = [status |-> 304, meta |-> disk[path]] /\ copy' = copy

SentWhole ==
  /\ pc = "read" /\ ParseRange(req.range, meta.len).kind = "ignore"
  /\ reply' = [status |-> 200, listing |-> FALSE, meta |-> meta,
               content |-> disk[path]]

RefusedRange ==
  /\ pc = "read" /\ ParseRange(req.range, meta.len).kind = "unsatisfiable"
  /\ reply' = [status |-> 416, total |-> meta.len]

SentRange ==
  /\ pc = "open"
  /\ reply' = [status |-> 206, meta |-> meta, content |-> disk[path],
               start |-> range.start, end |-> range.end,
               bytes |-> SliceLength(disk[path])]

Settled == pc = "idle" /\ UNCHANGED <<pc, req, reply, copy, steady>>
Given ==
  Listed(reply') \/ Failed(reply') \/ Confirmed \/ SentWhole \/ RefusedRange \/ SentRange

\* After a step at whose end no request is being answered, either nothing the
\* client sees has changed or one of these answers was given.
LEMMA AnswerKinds ==
  ASSUME IInv, [Next]_vars, pc' = "idle"
  PROVE  UNCHANGED <<config, req, raced, steady>> /\ (Settled \/ Given)
<1>1. CASE UNCHANGED vars
  BY <1>1 DEF vars, history, Settled
<1>2. ASSUME NEW r \in Requests, Request(r) PROVE FALSE
  BY <1>2 DEF Request
<1>3. CASE Resolve
  BY <1>3 DEF Resolve, history, NotFound, Answer, FileResponse, Given, Listed, Failed
<1>4. CASE Metadata
  BY <1>4 DEF Metadata, history, NotFound, Answer, Given, Failed, Confirmed
<1>5. CASE Read
  BY <1>5 DEF Read, history, NotFound, Answer, Whole, Given, Failed, SentWhole, RefusedRange
<1>6. CASE OpenRange
  BY <1>6 DEF OpenRange, history, NotFound, Answer, Given, Failed, SentRange
<1>7. CASE Fails
  BY <1>7 DEF Fails, history, Answer, Given, Failed
<1>8. ASSUME NEW file \in Files, NEW version, Change(file, version) PROVE FALSE
  BY <1>8 DEF Change
<1> QED
  BY <1>1, <1>2, <1>3, <1>4, <1>5, <1>6, <1>7, <1>8 DEF Next, Replace, Delete

\* What a 304 confirms.  If the file only got newer, the version on disk is the
\* newest there has been; by tag or by date, it is not later than the tag, whose
\* version is not later than the content, which cannot be later than it.  If not,
\* the tag alone confirms a copy that is of the version of its tag.
LEMMA ConfirmedIsTrue ==
  ASSUME IInv, Confirmed, steady \/ (req.cond # "date" /\ ~copy.raced)
  PROVE  copy.content = disk[path]
<1> DEFINE m == disk[path]
<1>1. /\ path \in Files /\ m \in Versions /\ m # Absent /\ m.time \in Nat
      /\ copy.etag.time \in Nat /\ copy.content.time \in Nat /\ copy.date \in Nat
  BY DEF Confirmed, IInv, TypeOK, Versions
<1>2. copy.etag = m \/ (req.cond = "date" /\ m.time <= copy.date)
  BY DEF Confirmed, NotModified, Etag
<1>3. CASE steady
  <2>1. path = "target" /\ m.time = newest
    BY <1>1, <1>3 DEF IInv, DiskInv, PathInv, Files
  <2>2. copy.content.time <= m.time
    BY <1>3, <2>1 DEF IInv, KnownInv, Seen
  <2>3. m.time <= copy.etag.time /\ copy.etag.time <= copy.content.time
    BY <1>1, <1>2, <1>3 DEF IInv, CopyInv
  <2>4. copy.content.time = m.time
    BY <1>1, <2>2, <2>3
  <2> QED
    BY <1>1, <1>3, <2>1, <2>4 DEF IInv, KnownInv, Seen
<1>4. CASE req.cond # "date" /\ ~copy.raced
  BY <1>2, <1>4 DEF IInv, CopyInv
<1> QED
  BY <1>3, <1>4

\* A 304 is true: whatever was replaced or deleted between the handler's calls,
\* the client's copy is the file that is there, if that only got newer; and by
\* tag whatever became of the file, if nothing changed while the copy was sent.
THEOREM NotModifiedHolds == Spec => []NotModifiedIsTrue
<1>1. Init => NotModifiedIsTrue
  BY DEF Init, NoReply, NotModifiedIsTrue
<1>2. IInv /\ NotModifiedIsTrue /\ [Next]_vars => NotModifiedIsTrue'
  <2> SUFFICES ASSUME IInv, NotModifiedIsTrue, [Next]_vars, pc' = "idle",
                      reply'.status = 304,
                      steady' \/ (req'.cond # "date" /\ ~copy'.raced)
               PROVE  copy'.content = reply'.meta
    BY DEF NotModifiedIsTrue
  <2>1. UNCHANGED <<config, req, steady>> /\ (Settled \/ Given)
    BY AnswerKinds
  <2>2. CASE Settled
    BY <2>1, <2>2 DEF Settled, NotModifiedIsTrue
  <2>3. CASE Given
    <3>1. Confirmed
      BY <2>3 DEF Given, Listed, Failed, SentWhole, RefusedRange, SentRange
    <3> QED
      BY <2>1, <3>1, ConfirmedIsTrue DEF Confirmed
  <2> QED
    BY <2>1, <2>2, <2>3
<1> QED
  BY <1>1, <1>2, Inductive, PTL DEF Spec

\* Ranges are answered as they were asked: for every length and every header.
THEOREM RangesAnswered == Spec => []RangeIsAnsweredAsAsked
<1>1. Init => RangeIsAnsweredAsAsked
  BY DEF Init, NoReply, RangeIsAnsweredAsAsked
<1>2. IInv /\ RangeIsAnsweredAsAsked /\ [Next]_vars => RangeIsAnsweredAsAsked'
  <2> SUFFICES ASSUME IInv, RangeIsAnsweredAsAsked, [Next]_vars, pc' = "idle"
               PROVE  RangeIsAnsweredAsAsked'
    BY DEF RangeIsAnsweredAsAsked
  <2>1. UNCHANGED <<config, req>> /\ (Settled \/ Given)
    BY AnswerKinds
  <2>2. req.range \in RangeType /\ meta.len \in Nat
    BY FileAssumption DEF FileAssumption, IInv, TypeOK, RequestType, Versions
  <2>3. CASE Settled
    BY <2>1, <2>3 DEF Settled, RangeIsAnsweredAsAsked, Asked
  <2>4. CASE Listed(reply') \/ Failed(reply') \/ Confirmed
    BY <2>4 DEF Listed, Failed, Confirmed, RangeIsAnsweredAsAsked
  <2>5. CASE SentWhole
    BY <2>1, <2>2, <2>5, ParsedAsAsked DEF SentWhole, RangeIsAnsweredAsAsked
  <2>6. CASE RefusedRange
    BY <2>1, <2>2, <2>6, ParsedAsAsked DEF RefusedRange, RangeIsAnsweredAsAsked, Asked
  <2>7. CASE SentRange
    BY <2>1, <2>7 DEF SentRange, IInv, RangeInv, RangeIsAnsweredAsAsked, Asked
  <2> QED
    BY <2>1, <2>3, <2>4, <2>5, <2>6, <2>7 DEF Given
<1> QED
  BY <1>1, <1>2, Inductive, PTL DEF Spec

\* Unless the file was replaced in the middle of the answer, the body is of the
\* version in the headers, and as long as Content-Range says.
THEOREM BodiesMatch == Spec => []BodyMatchesHeaders
<1>1. Init => BodyMatchesHeaders
  BY DEF Init, NoReply, BodyMatchesHeaders
<1>2. IInv /\ BodyMatchesHeaders /\ [Next]_vars => BodyMatchesHeaders'
  <2> SUFFICES ASSUME IInv, BodyMatchesHeaders, [Next]_vars, pc' = "idle", ~raced'
               PROVE  BodyMatchesHeaders'
    BY DEF BodyMatchesHeaders
  <2>1. ~raced /\ (Settled \/ Given)
    BY AnswerKinds
  <2>2. CASE Settled
    BY <2>1, <2>2 DEF Settled, BodyMatchesHeaders
  <2>3. CASE Listed(reply') \/ Failed(reply') \/ Confirmed \/ RefusedRange
    BY <2>3 DEF Listed, Failed, Confirmed, RefusedRange, BodyMatchesHeaders
  <2>4. CASE SentWhole
    BY <2>1, <2>4 DEF SentWhole, IInv, PathInv, Fetching, BodyMatchesHeaders
  <2>5. CASE SentRange
    <3>1. disk[path] = meta
      BY <2>1, <2>5 DEF SentRange, IInv, PathInv, Fetching
    <3>2. /\ range.start \in Nat /\ range.end \in Nat /\ meta.len \in Nat
          /\ range.start <= range.end /\ range.end < meta.len
      BY <2>5 DEF SentRange, IInv, TypeOK, RangeInv, Versions
    <3>3. SliceLength(meta) = range.end - range.start + 1
      BY <3>2 DEF SliceLength, Lesser, SaturatingSub
    <3> QED
      BY <2>5, <3>1, <3>3 DEF SentRange, BodyMatchesHeaders
  <2> QED
    BY <2>1, <2>2, <2>3, <2>4, <2>5 DEF Given
<1> QED
  BY <1>1, <1>2, Inductive, PTL DEF Spec
=============================================================================

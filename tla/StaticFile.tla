------------------------------ MODULE StaticFile ------------------------------
(***************************************************************************)
(* Static files (src/fs.rs): ServeDir and ServeFile resolve a URL and      *)
(* file_response answers it, with conditional and range requests, while    *)
(* somebody replaces and deletes the files.  Every call into the file      *)
(* system is a step of its own.                                            *)
(*                                                                         *)
(* A file is replaced as a whole (written beside and renamed), so what one *)
(* open() reads is of one version, told from the others by its modification *)
(* time and its length.  A replacement may bring any modification time with *)
(* it: that of now, or an earlier one as after a rollback, `cp -p` or       *)
(* `rsync -t`.  Modification times are finer than the seconds of an HTTP    *)
(* date: they are counted in ticks, PerSecond of them to a second.          *)
(***************************************************************************)
EXTENDS Naturals

CONSTANTS Configs,    \* kinds of URL, and options of the ServeDir behind it
          Requests,   \* kinds of request
          Lengths,    \* lengths of files
          PerSecond,  \* ticks in a second
          MaxTime     \* bound on modification times

\* The URL names a file, a directory, or what is refused whatever is on disk
\* (a dotfile, an unsafe path, a place outside the root).  ServeFile is a URL
\* that names a file, without fallback.
ConfigType == [url : {"file", "dir", "refused"}, fallback : BOOLEAN,
               listing : BOOLEAN]

\* A Range header: none, not understood, "-a", "a-" or "a-b".
RangeType == [form : {"none", "malformed", "suffix", "from", "span"},
              a : Nat, b : Nat]

\* The validators of its copy that the client sends.
RequestType == [cond : {"none", "etag", "date", "both"}, range : RangeType]

ASSUME FileAssumption ==
  /\ Configs \subseteq ConfigType /\ Requests \subseteq RequestType
  /\ Lengths \subseteq Nat /\ PerSecond \in Nat \ {0}
  /\ MaxTime \in Nat

VARIABLES
  config,  \* the URL and the handler behind it
  disk,    \* the version of each file, or Absent
  pc,      \* the call the handler awaits, or "idle"
  req,     \* the request being answered, or answered last
  path,    \* the file that file_response was called with
  meta,    \* what metadata() said about it
  range,   \* the range that partial_response was called with
  reply,   \* the answer to `req`
  copy,    \* what the client has cached
  raced,   \* history: `path` changed after metadata()
  steady,  \* history: the URL has always meant one file, which only got newer
  newest   \* history: the modification time that file got to

history == <<steady, newest>>
vars == <<config, disk, pc, req, path, meta, range, reply, copy, raced, history>>

\* "target": the file the URL names, or the index.html of the directory.
Files == {"target", "fallback"}

\* A version of a file; none has the time 0.
Present == [time : 1..MaxTime, len : Lengths]
Absent == [time |-> 0, len |-> 0]

\* The entity tag is the modification time and the length, the date has lost
\* what is finer than a second.
Etag(m) == m
Date(m) == m.time - (m.time % PerSecond)

NoCopy == [etag |-> Absent, date |-> 0, content |-> Absent, raced |-> FALSE]
NoRange == [start |-> 0, end |-> 0]
NoReply == [status |-> 0]

Init ==
  /\ config \in Configs
  /\ disk \in [Files -> Present \cup {Absent}]
  /\ pc = "idle"
  /\ req \in Requests /\ req.cond = "none"
  /\ path = "target" /\ meta = Absent /\ range = NoRange
  /\ reply = NoReply
  /\ copy = NoCopy /\ raced = FALSE
  /\ steady = ~config.fallback
  /\ newest = IF steady THEN disk["target"].time ELSE 0

(* --------------------------------- ranges ------------------------------- *)

Ignore == [kind |-> "ignore"]
Unsatisfiable == [kind |-> "unsatisfiable"]
Valid(start, end) == [kind |-> "valid", start |-> start, end |-> end]

\* A bug: the subtraction does not saturate.
PlainSub(m, n) == m - n

\* saturating_sub.
SaturatingSub(m, n) == IF m < n THEN 0 ELSE m - n
Lesser(m, n) == IF m < n THEN m ELSE n

\* A bug: the last position of a range is taken as it was sent.
ParseRangeUnclipped(r, len) ==
  CASE r.form \in {"none", "malformed"} -> Ignore
    [] r.form = "suffix" ->
         IF r.a = 0 \/ len = 0 THEN Unsatisfiable
         ELSE Valid(SaturatingSub(len, r.a), len - 1)
    [] OTHER ->
         LET end == IF r.form = "span" THEN r.b ELSE SaturatingSub(len, 1)
         IN  IF r.a >= len THEN Unsatisfiable
             ELSE IF end < r.a THEN Ignore ELSE Valid(r.a, end)

\* parse_range.
ParseRange(r, len) ==
  CASE r.form \in {"none", "malformed"} -> Ignore
    [] r.form = "suffix" ->
         IF r.a = 0 \/ len = 0 THEN Unsatisfiable
         ELSE Valid(SaturatingSub(len, r.a), len - 1)
    [] OTHER ->
         LET last == SaturatingSub(len, 1)
             end == IF r.form = "span" THEN Lesser(r.b, last) ELSE last
         IN  IF r.a >= len THEN Unsatisfiable
             ELSE IF end < r.a THEN Ignore ELSE Valid(r.a, end)

(* -------------------------------- requests ------------------------------ *)

\* The client asks; it can only send validators of a copy that it has.
Request(r) ==
  /\ pc = "idle"
  /\ r.cond # "none" => copy # NoCopy
  /\ req' = r /\ pc' = "resolve"
  /\ reply' = NoReply /\ raced' = FALSE
  /\ UNCHANGED <<config, disk, path, meta, range, copy, history>>

\* The handler returns; what it knew about the file goes with it.
Answer(r) ==
  /\ reply' = r /\ pc' = "idle"
  /\ path' = "target" /\ meta' = Absent /\ range' = NoRange
  /\ UNCHANGED <<config, disk, req, raced, history>>

NotFound == Answer([status |-> 404]) /\ UNCHANGED copy

FileResponse(file) ==
  /\ path' = file /\ pc' = "metadata"
  /\ UNCHANGED <<config, disk, req, meta, range, reply, copy, raced, history>>

\* ServeDir::call up to file_response: canonicalize of the path, which fails if
\* there is none or it is out of reach, the check of the root, and for a
\* directory its index.  Only where the path itself fails is there a fallback.
Resolve ==
  /\ pc = "resolve"
  /\ \/ config.url = "refused" /\ NotFound
     \/ /\ config.url # "refused" /\ disk["target"] # Absent
        /\ FileResponse("target")
     \/ /\ config.url # "refused"
        /\ IF config.fallback THEN FileResponse("fallback") ELSE NotFound
     \/ /\ config.url = "dir"
        /\ IF config.listing
           THEN Answer([status |-> 200, listing |-> TRUE]) /\ UNCHANGED copy
           ELSE NotFound

\* If-None-Match is preferred; with it, the date is not looked at.
NotModified(m) ==
  \/ req.cond \in {"etag", "both"} /\ copy.etag = Etag(m)
  \/ req.cond = "date" /\ m.time <= copy.date

\* metadata(), and the decision whether to answer 304.  Like each of the calls
\* after it, metadata() fails without a file, and may fail with one.
Metadata ==
  /\ pc = "metadata"
  /\ LET m == disk[path] IN
       \/ NotFound
       \/ /\ m # Absent /\ NotModified(m)
          /\ Answer([status |-> 304, meta |-> m]) /\ UNCHANGED copy
       \/ /\ m # Absent /\ ~NotModified(m)
          /\ meta' = m /\ pc' = "read"
          /\ UNCHANGED <<config, disk, req, path, range, reply, copy, raced,
                         history>>

\* The client keeps a whole file under the validators it came with.
Whole(m, content) ==
  /\ Answer([status |-> 200, listing |-> FALSE, meta |-> m,
             content |-> content])
  /\ copy' = [etag |-> Etag(m), date |-> Date(m), content |-> content,
              raced |-> raced]

\* A bug: the file is read before its metadata.
ReadBeforeMetadata ==
  /\ pc = "read" /\ ParseRange(req.range, meta.len) = Ignore
  /\ \/ disk[path] = Absent /\ NotFound
     \/ disk[path] # Absent /\ Whole(disk[path], meta)

\* read() of the whole file, then the Range header against the length that
\* metadata() gave.
Read ==
  /\ pc = "read"
  /\ LET content == disk[path]
         parsed == ParseRange(req.range, meta.len)
     IN
       \/ NotFound
       \/ content # Absent /\ parsed.kind = "ignore" /\ Whole(meta, content)
       \/ /\ content # Absent /\ parsed.kind = "unsatisfiable"
          /\ Answer([status |-> 416, total |-> meta.len])
          /\ UNCHANGED copy
       \/ /\ content # Absent /\ parsed.kind = "valid"
          /\ range' = [start |-> parsed.start, end |-> parsed.end]
          /\ pc' = "open"
          /\ UNCHANGED <<config, disk, req, path, meta, reply, copy, raced,
                         history>>

\* A bug: the length of the slice leaves out its last byte.
PartialLength(content) ==
  Lesser(range.end - range.start, SaturatingSub(content.len, range.start))

\* What seek and a bounded read get: at most end - start + 1 bytes.
SliceLength(content) ==
  Lesser(range.end - range.start + 1, SaturatingSub(content.len, range.start))

\* partial_response opens the file once more.
OpenRange ==
  /\ pc = "open"
  /\ LET content == disk[path] IN
       \/ NotFound
       \/ /\ content # Absent
          /\ Answer([status |-> 206, meta |-> meta, content |-> content,
                     start |-> range.start, end |-> range.end,
                     bytes |-> SliceLength(content)])
          /\ UNCHANGED copy

\* canonicalize of the root, modified(), seek or the bounded read fails.
Fails ==
  /\ \/ pc = "resolve" /\ (config.url = "file" => disk["target"] # Absent)
     \/ pc \in {"metadata", "open"} /\ disk[path] # Absent
  /\ Answer([status |-> 500]) /\ UNCHANGED copy

(* ------------------------------ environment ----------------------------- *)

\* Of the two files, only those that the handler can serve; between requests
\* nothing looks at them, so a change then is one before Resolve.
Change(file, version) ==
  /\ pc # "idle" /\ config.url # "refused"
  /\ file = "fallback" => config.fallback
  /\ disk' = [disk EXCEPT ![file] = version]
  /\ raced' = (raced \/ (pc \in {"read", "open"} /\ file = path))
  /\ UNCHANGED <<config, pc, req, path, meta, range, reply, copy>>

\* A file comes with any modification time, later or not than those before it.
Replace(file, version) ==
  /\ Change(file, version)
  /\ steady' = (steady /\ version.time > newest)
  /\ newest' = IF steady' THEN version.time ELSE 0

Delete(file) ==
  /\ disk[file] # Absent
  /\ Change(file, Absent)
  /\ UNCHANGED history

Next ==
  \/ \E r \in Requests : Request(r)
  \/ Resolve \/ Metadata \/ Read \/ OpenRange \/ Fails
  \/ \E file \in Files :
       Delete(file) \/ \E version \in Present : Replace(file, version)

Spec == Init /\ [][Next]_vars

(* ------------------------------ properties ------------------------------ *)

Versions == [time : Nat, len : Nat]

\* The shape of the state.
TypeOK ==
  /\ config \in Configs /\ req \in Requests
  /\ disk \in [Files -> Versions]
  /\ pc \in {"idle", "resolve", "metadata", "read", "open"}
  /\ path \in Files /\ meta \in Versions
  /\ range \in [start : Nat, end : Nat]
  /\ reply.status \in {0, 200, 206, 304, 404, 416, 500}
  /\ copy \in [etag : Versions, date : Nat, content : Versions, raced : BOOLEAN]
  /\ raced \in BOOLEAN /\ steady \in BOOLEAN /\ newest \in Nat

\* A 304 is true: what the client has cached is the file that is there, although
\* its copy may have been read after the validators it came with, and the date
\* in them has lost its fraction of a second.  By date this needs a file that
\* only gets newer; a rollback to an earlier one, or a fallback that is older
\* than a target that was deleted, is confirmed as unmodified (fs.rs:279).  By
\* tag it does not, unless the copy was read after a replacement and so is not
\* the version of its tag, to which the file may then be rolled back.
NotModifiedIsTrue ==
  pc = "idle" /\ reply.status = 304
    /\ (steady \/ (req.cond # "date" /\ ~copy.raced)) =>
      copy.content = reply.meta

\* The positions of a file of length len that a range asks for.
Asked(r, len) ==
  {i \in 0..(SaturatingSub(len, 1)) :
     i < len /\ CASE r.form = "suffix" -> i + r.a >= len
                  [] r.form = "from" -> i >= r.a
                  [] r.form = "span" -> r.a <= i /\ i <= r.b
                  [] OTHER -> FALSE}

\* A range is answered as it was asked: 206 names exactly the positions asked
\* for that the file has; 416 is sent only if there are none, and the whole
\* file only if the header was absent, malformed or inverted.
RangeIsAnsweredAsAsked ==
  pc = "idle" =>
    /\ reply.status = 206 =>
         reply.start..reply.end = Asked(req.range, reply.meta.len)
           /\ reply.start <= reply.end
    /\ reply.status = 416 => Asked(req.range, reply.total) = {}
    /\ reply.status = 200 /\ ~reply.listing =>
         \/ req.range.form \in {"none", "malformed"}
         \/ req.range.form = "span" /\ req.range.b < req.range.a

\* Body and headers are of one version and the slice is as long as
\* Content-Range says, unless the file was replaced in the middle of the answer.
BodyMatchesHeaders ==
  pc = "idle" /\ ~raced =>
    /\ reply.status = 200 /\ ~reply.listing => reply.content = reply.meta
    /\ reply.status = 206 =>
         /\ reply.content = reply.meta
         /\ reply.bytes = reply.end - reply.start + 1
=============================================================================

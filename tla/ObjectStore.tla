----------------------------- MODULE ObjectStore -----------------------------
(***************************************************************************)
(* The storage core of cubby: buckets and objects kept twice, as rows in   *)
(* SQLite and as plain files, by handlers that run concurrently and give   *)
(* way to one another at every await.                                      *)
(*                                                                         *)
(* An action is what one handler does between two awaits: one call of the  *)
(* database (the connection is behind a mutex, so a call is atomic), or    *)
(* one operation on the file system.  pc[r] names what the handler of      *)
(* request r is about to do.                                               *)
(*                                                                         *)
(* A handler may be cut short at any await: the server may stop (Crash),   *)
(* the client may hang up, and hyper then drops the handler (HangUp), or   *)
(* the operation may fail and the handler answers 500 (Fault).             *)
(***************************************************************************)
EXTENDS ObjectCalls

CONSTANT Partial      \* the content of a file that is still being written

ASSUME PartialAssumption == Partial \notin Bodies \union {None}

VARIABLES
    up,        \* the server is running
    buckets,   \* SQLite: the names in table buckets
    rows,      \* SQLite: rows[o] is the etag of o in table objects
    dirs,      \* the buckets b whose directory buckets/b exists
    files,     \* files[o]: the content of the file of o
    tmp,       \* tmp[r]: the content of the file of r in .tmp/
    call,      \* call[r]: what request r asks for
    pc,        \* pc[r]: the next step of the handler of r, or how it ended
    seen,      \* seen[r]: the etag of the row that the handler of r has read
    todo,      \* todo[r]: the objects whose files r has still to unlink
    removed,   \* removed[r]: the objects whose rows r has really removed
    served,    \* served[r]: the bytes that a GetObject answers with
    fired,     \* the pairs <<r, o>> such that r has announced its change to o
    applied,   \* history: the requests that have changed the catalogue
    raced,     \* history: the requests that another one has interfered with
    torn       \* history: the objects whose row and file may disagree

database == <<buckets, rows>>
disk     == <<dirs, files, tmp>>
locals   == <<seen, todo, removed, served>>
history  == <<applied, raced, torn>>

vars == <<up, database, disk, call, pc, locals, fired, history>>

\* How a request ended: "nobytes" is the 500 of a handler that has found a
\* row and then no file, "failed" any other 500, "lost" no answer at all.
Ends == {"ok", "refused", "failed", "nobytes", "lost"}

Steps == {"mkbucket", "insbucket", "delbucket", "rmdir",
          "exists", "stream", "hash", "readsrc", "stage", "copy",
          "mkdir", "rename", "insert", "delrows", "unlink", "reply",
          "readrow", "open"}

InFlight(r) == pc[r] \in Steps

\* The variables have their types.
TypeOK ==
    /\ up \in BOOLEAN
    /\ buckets \subseteq Buckets
    /\ rows \in [Objects -> Bodies \union {None}]
    /\ dirs \subseteq Buckets
    /\ files \in [Objects -> Bodies \union {None}]
    /\ tmp \in [Requests -> Bodies \union {None, Partial}]
    /\ call \in [Requests -> Calls \union {None}]
    /\ pc \in [Requests -> {"idle"} \union Steps \union Ends]
    /\ seen \in [Requests -> Bodies \union {None}]
    /\ todo \in [Requests -> SUBSET Objects]
    /\ removed \in [Requests -> SUBSET Objects]
    /\ served \in [Requests -> Bodies \union {None}]
    /\ fired \subseteq Requests \X Objects
    /\ applied \subseteq Requests
    /\ raced \subseteq Requests
    /\ torn \subseteq Objects

\* What --seed leaves before the server listens: for each object the row and
\* the file of one body, in buckets that exist.
Init ==
    /\ up = TRUE
    /\ buckets \in SUBSET Buckets
    /\ rows \in {f \in [Objects -> Bodies \union {None}] :
                    \A o \in Objects : f[o] # None => o[1] \in buckets}
    /\ dirs = buckets
    /\ files = rows
    /\ tmp = [r \in Requests |-> None]
    /\ call = [r \in Requests |-> None]
    /\ pc = [r \in Requests |-> "idle"]
    /\ seen = [r \in Requests |-> None]
    /\ todo = [r \in Requests |-> {}]
    /\ removed = [r \in Requests |-> {}]
    /\ served = [r \in Requests |-> None]
    /\ fired = {}
    /\ applied = {}
    /\ raced = {}
    /\ torn = {}

------------------------------------------------------------------------------
(* What a request exposes while it is between its first and its last change *)
(* of an object: the file is new and the row is not, or the row is gone and *)
(* the file is not.                                                         *)

Exposed(r) ==
    CASE pc[r] = "insert" -> {call[r].obj}
      [] pc[r] = "unlink" -> todo[r]
      [] OTHER            -> {}

\* The requests in flight that change an object that c changes (writers), or
\* read one that c changes (readers), or change one that c reads (sources).
Writers(c) == {q \in Requests : InFlight(q) /\ Mutates(call[q]) \intersect Mutates(c) # {}}
Readers(c) == {q \in Requests : InFlight(q) /\ Reads(call[q]) \intersect Mutates(c) # {}}
Sources(c) == {q \in Requests : InFlight(q) /\ Mutates(call[q]) \intersect Reads(c) # {}}

Stale(c) == Sources(c) # {} \/ Reads(c) \intersect torn # {}

\* History: which requests overlap r with call c, and on which objects.
Overlap(r, c) ==
    /\ raced' = raced \union Writers(c) \union Readers(c)
                  \union (IF Writers(c) # {} \/ Stale(c) THEN {r} ELSE {})
    /\ torn' = torn
         \union {o \in Mutates(c) :
                    Stale(c) \/ \E q \in Writers(c) : o \in Mutates(call[q])}
         \union UNION {Mutates(call[q]) : q \in Readers(c)}

\* History: r has run to its end; where nobody interfered, what it wrote last
\* holds in the database and on disk alike.
Repair(r) == torn' = IF r \in raced THEN torn ELSE torn \ Mutates(call[r])

------------------------------------------------------------------------------
(* The steps of the handlers.                                              *)

Goto(r, step) == pc' = [pc EXCEPT ![r] = step]

At(r, step) == up /\ pc[r] = step

DropTemp(r) == tmp' = [tmp EXCEPT ![r] = None]

FirstStep(c) ==
    CASE c.op = "CreateBucket"                    -> "mkbucket"
      [] c.op = "DeleteBucket"                    -> "delbucket"
      [] c.op \in {"PutObject", "DeleteObjects"}  -> "exists"
      [] c.op = "CopyObject"                      -> "readsrc"
      [] c.op = "DeleteObject"                    -> "delrows"
      [] c.op \in ReadOps                         -> "readrow"

Send(r, c) ==
    /\ At(r, "idle")
    /\ call' = [call EXCEPT ![r] = c]
    /\ Goto(r, FirstStep(c))
    /\ Overlap(r, c)
    /\ UNCHANGED <<up, database, disk, locals, fired, applied>>

\* CreateBucket: the directory first, then the row.
MakeBucketDir(r) ==
    /\ At(r, "mkbucket")
    /\ dirs' = dirs \union {call[r].bucket}
    /\ Goto(r, "insbucket")
    /\ UNCHANGED <<up, database, files, tmp, call, locals, fired, history>>

InsertBucket(r) ==
    /\ At(r, "insbucket")
    /\ \/ /\ call[r].bucket \notin buckets
          /\ buckets' = buckets \union {call[r].bucket}
          /\ applied' = applied \union {r}
          /\ Goto(r, "reply")
       \/ /\ call[r].bucket \in buckets
          /\ Goto(r, "refused")
          /\ UNCHANGED <<buckets, applied>>
    /\ UNCHANGED <<up, rows, disk, call, locals, fired, raced, torn>>

\* DeleteBucket: the row, if the bucket is there and empty, and then whatever
\* remove_dir_all meets in the directory, file by file, and the directory.
\* (variant: no test that the bucket is empty)
DeleteBucketRowAnyway(r) ==
    /\ At(r, "delbucket")
    /\ call[r].bucket \in buckets
    /\ buckets' = buckets \ {call[r].bucket}
    /\ applied' = applied \union {r}
    /\ todo' = [todo EXCEPT ![r] = ObjectsIn(call[r].bucket)]
    /\ Goto(r, "unlink")
    /\ UNCHANGED <<up, rows, disk, call, seen, removed, served, fired, raced, torn>>

DeleteBucketRow(r) ==
    /\ At(r, "delbucket")
    /\ LET b == call[r].bucket
           empty == \A o \in ObjectsIn(b) : rows[o] = None
       IN \/ /\ b \in buckets /\ empty
             /\ buckets' = buckets \ {b}
             /\ applied' = applied \union {r}
             /\ todo' = [todo EXCEPT ![r] = ObjectsIn(b)]
             /\ Goto(r, "unlink")
          \/ /\ ~(b \in buckets /\ empty)
             /\ Goto(r, "refused")
             /\ UNCHANGED <<buckets, applied, todo>>
    /\ UNCHANGED <<up, rows, disk, call, seen, removed, served, fired, raced, torn>>

RemoveBucketDir(r) ==
    /\ At(r, "rmdir")
    /\ LET b == call[r].bucket
       IN \/ /\ \A o \in ObjectsIn(b) : files[o] = None
             /\ dirs' = dirs \ {b}
             /\ Repair(r)
             /\ Goto(r, "ok")
          \/ /\ \E o \in ObjectsIn(b) : files[o] # None
             /\ Goto(r, "failed")
             /\ UNCHANGED <<dirs, torn>>
    /\ UNCHANGED <<up, database, files, tmp, call, locals, fired, applied, raced>>

\* bucket_exists, before PutObject or CopyObject moves a byte and before
\* DeleteObjects removes a row.  A copy onto itself only rewrites the row, and
\* is illegal unless it replaces the metadata, which the model leaves open.
AfterCheck(c) ==
    CASE c.op = "PutObject"                   -> {"stream"}
      [] c.op = "DeleteObjects"               -> {"delrows"}
      [] c.op = "CopyObject" /\ c.src = c.obj -> {"insert", "refused"}
      [] c.op = "CopyObject" /\ c.src # c.obj -> {"stage"}

\* (variant: no test that the bucket exists)
CheckNothing(r) ==
    /\ At(r, "exists")
    /\ \E s \in AfterCheck(call[r]) : Goto(r, s)
    /\ UNCHANGED <<up, database, disk, call, locals, fired, history>>

CheckBucket(r) ==
    /\ At(r, "exists")
    /\ \/ BucketOf(call[r]) \in buckets /\ \E s \in AfterCheck(call[r]) : Goto(r, s)
       \/ BucketOf(call[r]) \notin buckets /\ Goto(r, "refused")
    /\ UNCHANGED <<up, database, disk, call, locals, fired, history>>

\* stream_to_temp and stage_file_copy: a file in .tmp/ that nobody else has.
CreateTemp(r) ==
    /\ pc[r] \in {"stream", "stage"} /\ up
    /\ tmp' = [tmp EXCEPT ![r] = Partial]
    /\ Goto(r, IF pc[r] = "stream" THEN "hash" ELSE "copy")
    /\ UNCHANGED <<up, database, dirs, files, call, locals, fired, history>>

\* (variant: the body breaks off and is taken for complete)
FinishBrokenBody(r) ==
    /\ At(r, "hash")
    /\ Goto(r, "mkdir")
    /\ UNCHANGED <<up, database, disk, call, locals, fired, history>>

\* The body is complete, its MD5 known, the file synced.
FinishBody(r) ==
    /\ At(r, "hash")
    /\ tmp' = [tmp EXCEPT ![r] = call[r].body]
    /\ Goto(r, "mkdir")
    /\ UNCHANGED <<up, database, dirs, files, call, locals, fired, history>>

\* CopyObject: the row of the source, and a few awaits later its file.
ReadSourceRow(r) ==
    /\ At(r, "readsrc")
    /\ seen' = [seen EXCEPT ![r] = rows[call[r].src]]
    /\ Goto(r, IF rows[call[r].src] = None THEN "refused" ELSE "exists")
    /\ UNCHANGED <<up, database, disk, call, todo, removed, served, fired, history>>

CopySourceFile(r) ==
    /\ At(r, "copy")
    /\ \/ /\ files[call[r].src] # None
          /\ tmp' = [tmp EXCEPT ![r] = files[call[r].src]]
          /\ Goto(r, "mkdir")
       \/ /\ files[call[r].src] = None
          /\ DropTemp(r)
          /\ Goto(r, "nobytes")
    /\ UNCHANGED <<up, database, dirs, files, call, locals, fired, history>>

\* put_bytes and copy_object: the parent directories, whether or not the
\* bucket is still there ...
MakeParentDirs(r) ==
    /\ At(r, "mkdir")
    /\ dirs' = dirs \union {call[r].obj[1]}
    /\ Goto(r, "rename")
    /\ UNCHANGED <<up, database, files, tmp, call, locals, fired, history>>

\* ... the rename into place, which replaces the file of the object at once
\* and fails when the directory has gone again ...
\* (variant: a failed rename leaves the temporary file behind)
RenameLeaving(r) ==
    /\ At(r, "rename")
    /\ \/ /\ call[r].obj[1] \in dirs
          /\ files' = [files EXCEPT ![call[r].obj] = tmp[r]]
          /\ DropTemp(r)
          /\ Goto(r, "insert")
       \/ /\ call[r].obj[1] \notin dirs
          /\ Goto(r, "failed")
          /\ UNCHANGED <<files, tmp>>
    /\ UNCHANGED <<up, database, dirs, call, locals, fired, history>>

Rename(r) ==
    /\ At(r, "rename")
    /\ \/ /\ call[r].obj[1] \in dirs
          /\ files' = [files EXCEPT ![call[r].obj] = tmp[r]]
          /\ Goto(r, "insert")
       \/ /\ call[r].obj[1] \notin dirs
          /\ Goto(r, "failed")
          /\ UNCHANGED files
    /\ DropTemp(r)
    /\ UNCHANGED <<up, database, dirs, call, locals, fired, history>>

\* ... and the row last: of the body for a put, of the row read for a copy.
EtagOf(r) == IF call[r].op = "PutObject" THEN call[r].body ELSE seen[r]

InsertRow(r) ==
    /\ At(r, "insert")
    /\ rows' = [rows EXCEPT ![call[r].obj] = EtagOf(r)]
    /\ applied' = applied \union {r}
    /\ Goto(r, "reply")
    /\ UNCHANGED <<up, buckets, disk, call, locals, fired, raced, torn>>

\* delete_object and delete_objects: the rows, in one transaction, and then
\* the files one by one.
\* (variants: the files are forgotten; the rows are)
DeleteRowsOnly(r) ==
    /\ At(r, "delrows")
    /\ LET gone == Mutates(call[r])
       IN /\ rows' = [o \in Objects |-> IF o \in gone THEN None ELSE rows[o]]
          /\ removed' = [removed EXCEPT ![r] = {o \in gone : rows[o] # None}]
    /\ Goto(r, "reply")
    /\ applied' = applied \union {r}
    /\ UNCHANGED <<up, buckets, disk, call, seen, todo, served, fired, raced, torn>>

DeleteFilesOnly(r) ==
    /\ At(r, "delrows")
    /\ todo' = [todo EXCEPT ![r] = Mutates(call[r])]
    /\ Goto(r, IF Mutates(call[r]) = {} THEN "reply" ELSE "unlink")
    /\ applied' = applied \union {r}
    /\ UNCHANGED <<up, database, disk, call, seen, removed, served, fired, raced, torn>>

DeleteRows(r) ==
    /\ At(r, "delrows")
    /\ LET gone == Mutates(call[r])
       IN /\ rows' = [o \in Objects |-> IF o \in gone THEN None ELSE rows[o]]
          /\ removed' = [removed EXCEPT ![r] = {o \in gone : rows[o] # None}]
          /\ todo' = [todo EXCEPT ![r] = gone]
          /\ Goto(r, IF gone = {} THEN "reply" ELSE "unlink")
    /\ applied' = applied \union {r}
    /\ UNCHANGED <<up, buckets, disk, call, seen, served, fired, raced, torn>>

UnlinkFile(r) ==
    /\ At(r, "unlink")
    /\ \E o \in todo[r] :
          /\ files' = [files EXCEPT ![o] = None]
          /\ todo' = [todo EXCEPT ![r] = @ \ {o}]
          /\ Goto(r, IF todo[r] # {o} THEN "unlink"
                     ELSE IF call[r].op = "DeleteBucket" THEN "rmdir"
                     ELSE "reply")
    /\ UNCHANGED <<up, database, dirs, tmp, call, seen, removed, served, fired, history>>

\* The answer, and before it, with no await between, the events to fire.
\* (variant: an event for every key asked for, whether or not it existed)
AnnouncedAll(r) == Mutates(call[r])

Announced(r) == IF call[r].op \in WriteOps THEN {call[r].obj} ELSE removed[r]

Reply(r) ==
    /\ At(r, "reply")
    /\ fired' = fired \union ({r} \X Announced(r))
    /\ Repair(r)
    /\ Goto(r, "ok")
    /\ UNCHANGED <<up, database, disk, call, locals, applied, raced>>

\* get_object and head_object: the row, and for a GET then the file.
ReadRow(r) ==
    /\ At(r, "readrow")
    /\ seen' = [seen EXCEPT ![r] = rows[call[r].obj]]
    /\ Goto(r, IF rows[call[r].obj] = None THEN "refused"
               ELSE IF call[r].op = "HeadObject" THEN "reply"
               ELSE "open")
    /\ UNCHANGED <<up, database, disk, call, todo, removed, served, fired, history>>

\* An open file is read to its end whatever becomes of its name.
OpenFile(r) ==
    /\ At(r, "open")
    /\ served' = [served EXCEPT ![r] = files[call[r].obj]]
    /\ Goto(r, IF files[call[r].obj] = None THEN "nobytes" ELSE "ok")
    /\ UNCHANGED <<up, database, disk, call, seen, todo, removed, fired, history>>

------------------------------------------------------------------------------
(* What cuts a handler short.                                              *)

\* An operation fails: the handler removes its temporary file and answers 500.
Fault(r) ==
    /\ up /\ InFlight(r) /\ pc[r] # "reply"
    /\ DropTemp(r)
    /\ Goto(r, "failed")
    /\ torn' = torn \union Exposed(r)
    /\ UNCHANGED <<up, database, dirs, files, call, locals, fired, applied, raced>>

\* The client hangs up: the handler is dropped, its temporary file stays.  An
\* operation already handed to the blocking pool (every database and file call
\* is) still completes, and the request counts as in flight until it has.
HangUp(r) ==
    /\ up /\ InFlight(r)
    /\ Goto(r, "lost")
    /\ torn' = torn \union Exposed(r)
    /\ UNCHANGED <<up, database, disk, call, locals, fired, applied, raced>>

Crash ==
    /\ up
    /\ up' = FALSE
    /\ pc' = [r \in Requests |-> IF InFlight(r) THEN "lost" ELSE pc[r]]
    /\ torn' = torn \union UNION {Exposed(r) : r \in Requests}
    /\ UNCHANGED <<database, disk, call, locals, fired, applied, raced>>

Restart ==
    /\ ~up
    /\ up' = TRUE
    /\ UNCHANGED <<database, disk, call, pc, locals, fired, history>>

\* cubby reindex, run between two runs of the server: a row for every bucket
\* directory and for every file that has none, with the MD5 of the file; the
\* bucket before its objects.  It may stop half-way, and be run again.
Orphans == {o \in Objects : files[o] # None /\ rows[o] = None}

Reindex ==
    /\ ~up
    /\ \E found \in SUBSET (dirs \ buckets), adopted \in SUBSET Orphans :
          /\ \A o \in adopted : o[1] \in buckets \union found
          /\ buckets' = buckets \union found
          /\ rows' = [o \in Objects |-> IF o \in adopted THEN files[o] ELSE rows[o]]
          /\ torn' = {o \in torn : rows[o] # None \/ o \in Orphans \ adopted}
    /\ UNCHANGED <<up, disk, call, pc, locals, fired, applied, raced>>

------------------------------------------------------------------------------

Step(r) ==
    \/ MakeBucketDir(r)   \/ InsertBucket(r)
    \/ DeleteBucketRow(r) \/ RemoveBucketDir(r)
    \/ CheckBucket(r)     \/ CreateTemp(r)     \/ FinishBody(r)
    \/ ReadSourceRow(r)   \/ CopySourceFile(r)
    \/ MakeParentDirs(r)  \/ Rename(r)         \/ InsertRow(r)
    \/ DeleteRows(r)      \/ UnlinkFile(r)     \/ Reply(r)
    \/ ReadRow(r)         \/ OpenFile(r)

Next ==
    \/ \E r \in Requests :
          \/ \E c \in Calls : Send(r, c)
          \/ Step(r)
          \/ Fault(r)
          \/ HangUp(r)
    \/ Crash
    \/ Restart
    \/ Reindex

Spec == Init /\ [][Next]_vars

------------------------------------------------------------------------------
(* Properties.                                                             *)

\* The database and the disk tell one story: but for the objects on which two
\* requests have overlapped or one was cut short between its first and last
\* change (store.rs put_bytes, delete_object, copy_object), and for those that
\* a request is changing right now, an object has a row exactly if it has a
\* file, and the row's ETag is that of the bytes in the file.
Settled ==
    \A o \in Objects \ torn :
        (\A r \in Requests : o \notin Exposed(r)) => rows[o] = files[o]

\* The object's bucket is there too: no clean history leaves an object that no
\* listing of buckets leads to (put_object's check, try_delete_bucket's).
NoStrayRows ==
    \A o \in Objects \ torn : rows[o] # None => o[1] \in buckets

\* A GetObject with which nothing has interfered answers with the bytes that
\* its ETag header names, and no such GetObject or CopyObject finds a row and
\* then no file (store.rs get_object, stage_file_copy).
CleanReads ==
    \A r \in Requests \ raced :
        /\ pc[r] # "nobytes"
        /\ pc[r] = "ok" /\ call[r].op = "GetObject" => served[r] = seen[r]

\* A request that has been answered, with success or an error, leaves nothing
\* in .tmp/ on any of its paths (store.rs stream_to_temp, put_bytes).
NoTempLeft ==
    \A r \in Requests : pc[r] \in Ends \ {"lost"} => tmp[r] = None

\* Notifications tell the truth: an event names a request that has changed the
\* catalogue, and a request answered with success has announced every object
\* that it wrote or really removed, and no other (store.rs fire).
EventsMatchEffects ==
    \A r \in Requests :
        /\ (\E o \in Objects : <<r, o>> \in fired) => r \in applied
        /\ pc[r] = "ok" =>
             {o \in Objects : <<r, o>> \in fired} =
                 (IF call[r].op \in WriteOps THEN {call[r].obj} ELSE removed[r])

\* Reindex adopts only what an accident left behind: it brings back no object
\* whose deletion went through, and alters none that was stored undisturbed
\* (reindex.rs run, "additive").
ReindexOnlyAdopts ==
    [][Reindex => \A o \in Objects \ torn : rows'[o] = rows[o]]_vars

------------------------------------------------------------------------------
(* What the code's own words promise, and its concurrency or a crash break. *)

\* A server that stops in the middle of a PUT leaves "only a harmless orphan
\* file" (store.rs put_bytes): every object that has a row is still there.
PutCrashHarmless ==
    ~up => \A o \in Objects : rows[o] # None => files[o] = rows[o]

\* A bucket is deleted only when it holds nothing, a test that "can't race a
\* concurrent put" (db.rs try_delete_bucket): no object is without its bucket.
NoObjectOutlivesBucket ==
    \A o \in Objects : rows[o] # None => o[1] \in buckets

\* The ETag of an object is the "hex MD5 of the object body" (README), at least
\* once every request has been answered and none of them was cut short.
EtagIsMd5OfBody ==
    (\A r \in Requests : pc[r] \notin Steps \union {"lost", "failed", "nobytes"})
        => \A o \in Objects : rows[o] # None => files[o] = rows[o]

------------------------------------------------------------------------------
(* The abstract specification that this module implements.                 *)

\* How far each request has come, as clients and the catalogue see it.
stages ==
    [r \in Requests |->
        CASE pc[r] \in {"idle", "ok", "refused", "lost"} -> pc[r]
          [] pc[r] \in {"failed", "nobytes"}             -> "failed"
          [] OTHER -> IF r \in applied THEN "applied" ELSE "pending"]

C == INSTANCE Catalogue WITH stage <- stages

\* A request changes the catalogue at most once, at one instant, before it is
\* answered with success and never if it is refused: one database call is the
\* effect of each handler, whatever happens to its files.
ImplementsCatalogue == C!Spec

==============================================================================

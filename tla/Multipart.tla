------------------------------- MODULE Multipart -------------------------------
(***************************************************************************)
(* Multipart uploads: CreateMultipartUpload, UploadPart, Complete and      *)
(* Abort, whose handlers run concurrently over the rows of an upload and   *)
(* of its parts and over the staging directory .multipart/<id>/.           *)
(*                                                                         *)
(* As in ObjectStore, an action is what one handler does between two       *)
(* awaits.  A handler serves one request after another, so any number of   *)
(* requests is made, as many at once as there are handlers.  Whatever cuts *)
(* one short, be it a failed operation, a client that hangs up or, for all *)
(* of them, a crash, leaves things as they are (Cut).                      *)
(*                                                                         *)
(* A body stands for its own MD5, and the bytes of an assembled object are *)
(* the sequence of the bodies of its parts; so is its composite ETag, the  *)
(* MD5 of their MD5s and their number.                                     *)
(***************************************************************************)
EXTENDS Naturals, Sequences

CONSTANTS
    Uploads,       \* the ids that new_upload_id may mint, each once
    PartNumbers,   \* the part numbers that clients use
    Bodies,        \* the contents of parts
    Objects,       \* the objects that uploads are completed to
    Submissions,   \* the part lists that clients submit
    Handlers,      \* the requests in progress at once
    None           \* no row, no file, no call

ASSUME NumbersAssumption == PartNumbers \subseteq Nat

\* A part with its ETag, as a client lists it or a row records it.
Entries == [n : PartNumbers, etag : Bodies]

ASSUME SubmissionsAssumption == Submissions \subseteq Seq(Entries)

\* "Nothing" is no content; there are part numbers; a part is not an object.
ASSUME NamesAssumption ==
    /\ None \notin Bodies
    /\ PartNumbers # {}
    /\ Objects \intersect (Uploads \X PartNumbers) = {}

VARIABLES
    minted,      \* the ids given out so far
    open,        \* SQLite: table multipart_uploads
    partRows,    \* SQLite: partRows[p] is the etag of part p in multipart_parts
    rows,        \* SQLite: rows[o] is the etag of object o
    staged,      \* the uploads whose directory exists
    partFiles,   \* partFiles[p]: the content of the file of part p
    files,       \* files[o]: the content of the file of object o
    call,        \* call[h]: what h has been asked for
    pc,          \* pc[h]: the next step of h
    selected,    \* selected[h]: the recorded parts that h is to assemble
    joined,      \* joined[h]: the bodies that it has assembled so far
    commits,     \* history: how often each upload has been completed, 2 for more
    aborted,     \* history: the uploads whose Abort was answered with success
    contested,   \* history: the uploads that two requests have ended at once
    littered,    \* history: the uploads that may have left something behind
    raced,       \* history: the handlers that have met another one
    torn         \* history: the parts and objects that may be inconsistent

database == <<open, partRows, rows>>
disk     == <<staged, partFiles, files>>
handlers == <<call, pc, selected, joined>>
outcome  == <<commits, aborted>>
history  == <<contested, littered, raced, torn>>

vars == <<minted, database, disk, handlers, outcome, history>>

Parts == Uploads \X PartNumbers

PartsOf(u) == {u} \X PartNumbers

Contents == Seq(Bodies)

Calls ==
    [op : {"Create", "Abort"}, id : Uploads]
      \union [op : {"UploadPart"}, id : Uploads, n : PartNumbers, body : Bodies]
      \union [op : {"Complete"}, id : Uploads, list : Submissions, obj : Objects]

Steps == {"bucket", "mkstage", "insert", "find", "receive", "mkdir", "rename", "record",
          "validate", "assemble", "place", "commit", "delrows", "unlink", "rmdir"}

\* The variables have their types.
TypeOK ==
    /\ minted \subseteq Uploads
    /\ open \subseteq Uploads
    /\ partRows \in [Parts -> Bodies \union {None}]
    /\ rows \in [Objects -> Contents \union {None}]
    /\ staged \subseteq Uploads
    /\ partFiles \in [Parts -> Bodies \union {None}]
    /\ files \in [Objects -> Contents \union {None}]
    /\ call \in [Handlers -> Calls \union {None}]
    /\ pc \in [Handlers -> {"idle"} \union Steps]
    /\ selected \in [Handlers -> Seq(Entries)]
    /\ joined \in [Handlers -> Contents]
    /\ commits \in [Uploads -> 0..2]
    /\ aborted \subseteq Uploads
    /\ contested \subseteq Uploads
    /\ littered \subseteq Uploads
    /\ raced \subseteq Handlers
    /\ torn \subseteq Parts \union Objects

\* A server with no uploads; an object is there, empty, or it is not.
Init ==
    /\ minted = {} /\ open = {} /\ staged = {}
    /\ partRows = [p \in Parts |-> None]
    /\ partFiles = [p \in Parts |-> None]
    /\ rows \in [Objects -> {None, <<>>}]
    /\ files = rows
    /\ call = [h \in Handlers |-> None]
    /\ pc = [h \in Handlers |-> "idle"]
    /\ selected = [h \in Handlers |-> <<>>]
    /\ joined = [h \in Handlers |-> <<>>]
    /\ commits = [u \in Uploads |-> 0]
    /\ aborted = {} /\ contested = {} /\ littered = {} /\ raced = {} /\ torn = {}

------------------------------------------------------------------------------
(* Which requests meet, and what is in doubt when they do.                 *)

Busy(h) == pc[h] # "idle"

Ends(c) == c.op \in {"Complete", "Abort"}

\* The parts that a call changes, and the object.
Ours(c) ==
    CASE c.op = "UploadPart" -> {<<c.id, c.n>>}
      [] Ends(c)             -> PartsOf(c.id)
      [] OTHER               -> {}

Target(c) == IF c.op = "Complete" THEN {c.obj} ELSE {}

Mutates(c) == Ours(c) \union Target(c)

Meets(c, d) == Mutates(c) \intersect Mutates(d) # {}

\* The calls in progress that c meets.
Met(c) == {call[h] : h \in {g \in Handlers : Busy(g) /\ Meets(c, call[g])}}

\* An UploadPart that meets another request on a part puts that part in doubt,
\* and the object of the other if it is a Complete; two Completes that meet put
\* only an object in doubt to which both write.
Spoiled(c, d) ==
    IF "UploadPart" \in {c.op, d.op}
    THEN (Ours(c) \intersect Ours(d)) \union Target(c) \union Target(d)
    ELSE Target(c) \intersect Target(d)

\* A Complete that uses a part which is in doubt.
Tainted(c) ==
    c.op = "Complete" /\ \E i \in DOMAIN c.list : <<c.id, c.list[i].n>> \in torn

\* The parts and the object that h would leave inconsistent if it were cut short
\* now, and the upload of which it would leave something behind.
Exposed(h) ==
    CASE pc[h] = "record"             -> {<<call[h].id, call[h].n>>}
      [] pc[h] = "commit"             -> {call[h].obj}
      [] pc[h] \in {"unlink", "rmdir"} -> Ours(call[h])
      [] OTHER                        -> {}

Leftover(h) == IF pc[h] \in {"insert", "unlink", "rmdir"} THEN {call[h].id} ELSE {}

------------------------------------------------------------------------------
(* How a handler starts, goes on and ends.                                 *)

FirstStep(c) == IF c.op = "Create" THEN "bucket" ELSE "find"

Send(h, c) ==
    /\ pc[h] = "idle"
    /\ c.op = "Create" => c.id \notin minted
    /\ minted' = IF c.op = "Create" THEN minted \union {c.id} ELSE minted
    /\ call' = [call EXCEPT ![h] = c]
    /\ pc' = [pc EXCEPT ![h] = FirstStep(c)]
    /\ raced' = raced \union {g \in Handlers : Busy(g) /\ Meets(c, call[g])}
                      \union (IF Met(c) # {} THEN {h} ELSE {})
    /\ torn' = torn \union (UNION {Spoiled(c, d) : d \in Met(c)})
                    \union (IF Tainted(c) THEN Target(c) ELSE {})
    /\ contested' = contested \union {d.id : d \in {e \in Met(c) : Ends(e) /\ Ends(c)}}
    /\ littered' = littered \union
            {d.id : d \in {e \in Met(c) : "UploadPart" \in {c.op, e.op} /\ (Ends(c) \/ Ends(e))}}
    /\ UNCHANGED <<database, disk, selected, joined, outcome>>

Goto(h, step) ==
    /\ pc' = [pc EXCEPT ![h] = step]
    /\ UNCHANGED <<minted, call, selected, joined, history>>

\* The answer, or the end without one; doubtful is what is in doubt from now on.
End(h, doubtful) ==
    /\ pc' = [pc EXCEPT ![h] = "idle"]
    /\ call' = [call EXCEPT ![h] = None]
    /\ selected' = [selected EXCEPT ![h] = <<>>]
    /\ joined' = [joined EXCEPT ![h] = <<>>]
    /\ raced' = raced \ {h}
    /\ torn' = doubtful
    /\ UNCHANGED <<minted, contested>>

Refuse(h) == End(h, torn) /\ UNCHANGED littered

\* After a request that met no other, what it wrote last is right.
Repaired(h) ==
    IF h \in raced THEN torn
    ELSE torn \ (IF Tainted(call[h]) THEN Ours(call[h]) ELSE Mutates(call[h]))

Finish(h) == End(h, Repaired(h)) /\ UNCHANGED littered

\* A failed operation, a client that hangs up, a crash (which cuts all handlers
\* short, one after the other).  A database or file call that a hang-up leaves
\* running in the blocking pool keeps its handler busy until it is done.
Cut(h) ==
    /\ Busy(h)
    /\ End(h, torn \union Exposed(h))
    /\ littered' = littered \union Leftover(h)
    /\ UNCHANGED <<database, disk, outcome>>

------------------------------------------------------------------------------
(* create_multipart_upload: the staging directory, then the row.           *)

\* Whether the bucket exists is left open: no step here depends on it.
CheckBucket(h) ==
    /\ pc[h] = "bucket"
    /\ Goto(h, "mkstage") \/ Refuse(h)
    /\ UNCHANGED <<database, disk, outcome>>

MakeStagingDir(h) ==
    /\ pc[h] = "mkstage"
    /\ staged' = staged \union {call[h].id}
    /\ Goto(h, "insert")
    /\ UNCHANGED <<database, partFiles, files, outcome>>

InsertUpload(h) ==
    /\ pc[h] = "insert"
    /\ open' = open \union {call[h].id}
    /\ Finish(h)
    /\ UNCHANGED <<partRows, rows, disk, outcome>>

\* get_multipart, with which the other three begin.
AfterFind(c) ==
    CASE c.op = "UploadPart" -> "receive"
      [] c.op = "Complete"   -> "validate"
      [] c.op = "Abort"      -> "delrows"

FindUpload(h) ==
    /\ pc[h] = "find"
    /\ \/ call[h].id \in open /\ Goto(h, AfterFind(call[h]))
       \/ call[h].id \notin open /\ Refuse(h)
    /\ UNCHANGED <<database, disk, outcome>>

------------------------------------------------------------------------------
(* upload_part.                                                            *)

\* The body, into a temporary file that no other request sees.
ReceivePart(h) ==
    /\ pc[h] = "receive"
    /\ Goto(h, "mkdir")
    /\ UNCHANGED <<database, disk, outcome>>

\* The staging directory, made again if it has gone.
MakePartDir(h) ==
    /\ pc[h] = "mkdir"
    /\ staged' = staged \union {call[h].id}
    /\ Goto(h, "rename")
    /\ UNCHANGED <<database, partFiles, files, outcome>>

RenamePart(h) ==
    /\ pc[h] = "rename"
    /\ \/ /\ call[h].id \in staged
          /\ partFiles' = [partFiles EXCEPT ![<<call[h].id, call[h].n>>] = call[h].body]
          /\ Goto(h, "record")
       \/ /\ call[h].id \notin staged
          /\ Refuse(h)
          /\ UNCHANGED partFiles
    /\ UNCHANGED <<database, staged, files, outcome>>

\* (variant: a part that is there already keeps its row)
RecordNewPart(h) ==
    /\ pc[h] = "record"
    /\ partRows' = [partRows EXCEPT ![<<call[h].id, call[h].n>>] =
                       IF @ = None THEN call[h].body ELSE @]
    /\ Finish(h)
    /\ UNCHANGED <<open, rows, disk, outcome>>

\* put_part: INSERT OR REPLACE, whether or not the upload is still open.
RecordPart(h) ==
    /\ pc[h] = "record"
    /\ partRows' = [partRows EXCEPT ![<<call[h].id, call[h].n>>] = call[h].body]
    /\ Finish(h)
    /\ UNCHANGED <<open, rows, disk, outcome>>

------------------------------------------------------------------------------
(* complete_multipart_upload.                                              *)

\* validate_complete: the list is not empty, its numbers ascend, and each part
\* is recorded with the ETag that the client names.
Ascending(list) == \A i, j \in DOMAIN list : i < j => list[i].n < list[j].n

\* (variant: the parts need only be there)
RecordedAnyhow(u, list) == \A i \in DOMAIN list : partRows[<<u, list[i].n>>] # None

Recorded(u, list) == \A i \in DOMAIN list : partRows[<<u, list[i].n>>] = list[i].etag

Validate(h) ==
    /\ pc[h] = "validate"
    /\ LET u == call[h].id
           list == call[h].list
           valid == list # <<>> /\ Ascending(list) /\ Recorded(u, list)
       IN \/ /\ valid
             /\ selected' = [selected EXCEPT ![h] =
                    [i \in DOMAIN list |->
                        [n |-> list[i].n, etag |-> partRows[<<u, list[i].n>>]]]]
             /\ pc' = [pc EXCEPT ![h] = "assemble"]
             /\ UNCHANGED <<minted, call, joined, history>>
          \/ /\ ~valid
             /\ Refuse(h)
    /\ UNCHANGED <<database, disk, outcome>>

\* assemble_parts: the parts one after the other; each is opened by its name
\* when its turn comes.
\* (variant: the last of several parts is left out)
AllButLast(h, i) == i + 1 >= Len(selected[h])

AllJoined(h, i) == i = Len(selected[h])

AssemblePart(h) ==
    /\ pc[h] = "assemble"
    /\ LET next == Len(joined[h]) + 1
           found == partFiles[<<call[h].id, selected[h][next].n>>]
       IN \/ /\ found # None
             /\ joined' = [joined EXCEPT ![h] = Append(@, found)]
             /\ pc' = [pc EXCEPT ![h] = IF AllJoined(h, next) THEN "place" ELSE @]
             /\ UNCHANGED <<minted, call, selected, history>>
          \/ /\ found = None
             /\ Refuse(h)
    /\ UNCHANGED <<database, disk, outcome>>

\* The rename into place, its parent directories made before.
PlaceObject(h) ==
    /\ pc[h] = "place"
    /\ files' = [files EXCEPT ![call[h].obj] = joined[h]]
    /\ Goto(h, "commit")
    /\ UNCHANGED <<database, staged, partFiles, outcome>>

\* complete_multipart: the row of the object, with the composite ETag of the
\* selected parts, and the end of the upload's rows, in one transaction.
\* (variant: not the ETags are hashed but the rows)
CompositeOfRows(list) == list

Composite(list) == [i \in DOMAIN list |-> list[i].etag]

\* (variants: the rows of the parts stay; that of the upload does)
PartsStay(u) == partRows' = partRows

PartsGo(u) == partRows' = [p \in Parts |-> IF p[1] = u THEN None ELSE partRows[p]]

UploadStays(u) == open' = open

UploadGoes(u) == open' = open \ {u}

Commit(h) ==
    /\ pc[h] = "commit"
    /\ rows' = [rows EXCEPT ![call[h].obj] = Composite(selected[h])]
    /\ UploadGoes(call[h].id)
    /\ PartsGo(call[h].id)
    /\ commits' = [commits EXCEPT ![call[h].id] = IF @ < 2 THEN @ + 1 ELSE 2]
    /\ Goto(h, "unlink")
    /\ UNCHANGED <<disk, aborted>>

------------------------------------------------------------------------------
(* abort_multipart_upload, and the end that it shares with Complete.       *)

DeleteUploadRows(h) ==
    /\ pc[h] = "delrows"
    /\ UploadGoes(call[h].id)
    /\ PartsGo(call[h].id)
    /\ Goto(h, "unlink")
    /\ UNCHANGED <<rows, disk, outcome>>

\* remove_dir_all: the files it finds, one by one, and then the directory.
UnlinkPart(h) ==
    /\ pc[h] = "unlink"
    /\ \/ /\ \E p \in PartsOf(call[h].id) :
                /\ partFiles[p] # None
                /\ partFiles' = [partFiles EXCEPT ![p] = None]
          /\ UNCHANGED <<minted, handlers, history>>
       \/ /\ \A p \in PartsOf(call[h].id) : partFiles[p] = None
          /\ Goto(h, "rmdir")
          /\ UNCHANGED partFiles
    /\ UNCHANGED <<database, staged, files, outcome>>

\* A part that came in between makes it fail, which a Complete ignores and an
\* Abort reports.
RemoveStagingDir(h) ==
    /\ pc[h] = "rmdir"
    /\ LET u == call[h].id
           empty == \A p \in PartsOf(u) : partFiles[p] = None
       IN /\ staged' = IF empty THEN staged \ {u} ELSE staged
          /\ aborted' = IF empty /\ call[h].op = "Abort" THEN aborted \union {u} ELSE aborted
    /\ Finish(h)
    /\ UNCHANGED <<database, partFiles, files, commits>>

------------------------------------------------------------------------------

Step(h) ==
    \/ CheckBucket(h) \/ MakeStagingDir(h) \/ InsertUpload(h)
    \/ FindUpload(h)
    \/ ReceivePart(h) \/ MakePartDir(h) \/ RenamePart(h) \/ RecordPart(h)
    \/ Validate(h) \/ AssemblePart(h) \/ PlaceObject(h) \/ Commit(h)
    \/ DeleteUploadRows(h) \/ UnlinkPart(h) \/ RemoveStagingDir(h)

Next ==
    \E h \in Handlers :
        \/ \E c \in Calls : Send(h, c)
        \/ Step(h)
        \/ Cut(h)

Spec == Init /\ [][Next]_vars

------------------------------------------------------------------------------
(* Properties.                                                             *)

Pending(x) == \E h \in Handlers : x \in Exposed(h)

\* The ETag recorded for a part is that of the bytes staged for it, and neither
\* is there without the other, but where an UploadPart has met another request on
\* the part or one was cut short (upload_part, put_part, delete_multipart).
PartsSettled ==
    \A p \in Parts \ torn : ~Pending(p) => partRows[p] = partFiles[p]

\* The composite ETag of an object is that of the parts its bytes were put
\* together from, unless its Complete used a part in doubt, or met an UploadPart
\* or another Complete to the object, or was cut short (assemble_parts,
\* complete_multipart).
ObjectsWhole ==
    \A o \in Objects \ torn : ~Pending(o) => rows[o] = files[o]

\* What a Complete has then stored is exactly what its client listed, even if an
\* Abort or another Complete has removed the parts meanwhile (validate_complete,
\* composite_etag).
CompleteStoresList ==
    \A h \in Handlers :
        pc[h] \in {"unlink", "rmdir"} /\ call[h].op = "Complete" /\ call[h].obj \notin torn
            => LET etags == [i \in DOMAIN call[h].list |-> call[h].list[i].etag]
               IN rows[call[h].obj] = etags /\ files[call[h].obj] = etags

\* Of an upload that is over nothing is left, no row of a part, no file and no
\* directory, however many requests have ended it, unless one of them was cut
\* short or met an UploadPart (complete_multipart, delete_multipart).
NothingLeft ==
    \A u \in Uploads \ (open \union littered) :
        (\A h \in Handlers : u \notin Leftover(h)) =>
            /\ u \notin staged
            /\ \A p \in PartsOf(u) : partRows[p] = None /\ partFiles[p] = None

\* An upload is completed at most once, and not at all if it has been aborted,
\* whatever is cut short and retried, unless two requests have ended it at once
\* (get_multipart, complete_multipart).
EndsOnce ==
    \A u \in Uploads \ contested :
        /\ commits[u] <= 1
        /\ commits[u] > 0 => u \notin aborted /\ u \notin open

------------------------------------------------------------------------------
(* What the code's own words promise, and its concurrency breaks.          *)

\* "A completed upload never leaves half its rows behind" (db.rs
\* complete_multipart), once no request is in progress.
CompletedLeavesNoRows ==
    (\A h \in Handlers : ~Busy(h)) =>
        \A p \in Parts : commits[p[1]] > 0 => partRows[p] = None

\* Abort discards the upload, "no object is created" (README): an upload is not
\* completed once its Abort was answered.
AbortIsFinal ==
    [][\A u \in aborted : commits'[u] = commits[u]]_vars

==============================================================================

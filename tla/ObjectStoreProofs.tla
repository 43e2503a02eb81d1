-------------------------- MODULE ObjectStoreProofs --------------------------
(***************************************************************************)
(* Theorems about ObjectStore, for any sets of buckets, keys, bodies and   *)
(* requests: the rows and files of settled keys, then what requests do,    *)
(* seen from outside: temporary files, events and effects, and that the    *)
(* store implements Catalogue.                                             *)
(***************************************************************************)
EXTENDS ObjectStore, TLAPS

------------------------------------------------------------------------------
(* The calls.                                                              *)

\* The fields of a call, by its operation.
LEMMA CallFields ==
    ASSUME NEW c \in Calls
    PROVE  /\ c.op \in AllOps
           /\ c.op \in BucketOps \union {"DeleteObjects"} => c.bucket \in Buckets
           /\ c.op \in WriteOps \union ReadOps \union {"DeleteObject"} => c.obj \in Objects
           /\ c.op = "PutObject" => c.body \in Bodies
           /\ c.op = "CopyObject" => c.src \in Objects
           /\ c.op = "DeleteObjects" => c.keys \subseteq Keys
    BY DEF Calls, AllCalls, AllOps, BucketOps, WriteOps, ReadOps

\* What a call changes and reads, by its operation.
LEMMA CallObjects ==
    ASSUME NEW c \in Calls
    PROVE  /\ Mutates(c) \subseteq Objects
           /\ Reads(c) \subseteq Objects
           /\ c.op \in WriteOps \union {"DeleteObject"} => Mutates(c) = {c.obj}
           /\ c.op = "DeleteBucket" => Mutates(c) = ObjectsIn(c.bucket)
           /\ c.op \in {"CreateBucket"} \union ReadOps => Mutates(c) = {}
           /\ c.op = "CopyObject" => Reads(c) = {c.src}
           /\ c.op \in ReadOps => Reads(c) = {c.obj}
           /\ c.op \notin ReadOps \union {"CopyObject"} => Reads(c) = {}
    <1>1. /\ c.op \in WriteOps \union {"DeleteObject"} => Mutates(c) = {c.obj}
          /\ c.op = "DeleteBucket" => Mutates(c) = ObjectsIn(c.bucket)
          /\ c.op = "DeleteObjects" => Mutates(c) = {c.bucket} \X c.keys
          /\ c.op \in {"CreateBucket"} \union ReadOps => Mutates(c) = {}
        BY CallFields DEF Mutates, AllOps, BucketOps, WriteOps, ReadOps
    <1>2. /\ c.op = "CopyObject" => Reads(c) = {c.src}
          /\ c.op \in ReadOps => Reads(c) = {c.obj}
          /\ c.op \notin ReadOps \union {"CopyObject"} => Reads(c) = {}
        BY CallFields DEF Reads, AllOps, BucketOps, WriteOps, ReadOps
    <1>3. Reads(c) \subseteq Objects
        BY <1>2, CallFields DEF AllOps, BucketOps, WriteOps, ReadOps
    <1>4. Mutates(c) \subseteq Objects
        BY <1>1, CallFields DEF AllOps, BucketOps, WriteOps, ReadOps, Objects, ObjectsIn
    <1>5. QED
        BY <1>1, <1>2, <1>3, <1>4

------------------------------------------------------------------------------
(* Types.  Which operations a step belongs to is part of the invariant: the *)
(* fields of a call exist only for its operation.                           *)

ShapeAt(r) ==
    /\ pc[r] # "idle" => call[r] \in Calls
    /\ pc[r] \in {"mkbucket", "insbucket"} => call[r].op = "CreateBucket"
    /\ pc[r] \in {"delbucket", "rmdir"} => call[r].op = "DeleteBucket"
    /\ pc[r] = "exists" => call[r].op \in WriteOps \union {"DeleteObjects"}
    /\ pc[r] \in {"stream", "hash"} => call[r].op = "PutObject"
    /\ pc[r] \in {"readsrc", "stage", "copy"} => call[r].op = "CopyObject"
    /\ pc[r] \in {"stage", "copy"} => call[r].src # call[r].obj
    /\ pc[r] \in {"mkdir", "rename", "insert"} => call[r].op \in WriteOps
    /\ pc[r] \in {"mkdir", "rename"} => tmp[r] \in Bodies
    /\ pc[r] = "delrows" => call[r].op \in {"DeleteObject", "DeleteObjects"}
    /\ pc[r] = "unlink" =>
          /\ call[r].op \in {"DeleteObject", "DeleteObjects", "DeleteBucket"}
          /\ todo[r] \subseteq Mutates(call[r])
    /\ pc[r] = "readrow" => call[r].op \in ReadOps
    /\ pc[r] = "open" => call[r].op = "GetObject"
    /\ pc[r] = "reply" => call[r].op \in AllOps \ {"GetObject", "DeleteBucket"}

Shape == \A r \in Requests : ShapeAt(r)

TypeInv == TypeOK /\ Shape /\ (~up => \A r \in Requests : ~InFlight(r))

\* The first step of a handler is one of its operation.
LEMMA FirstStepOp ==
    ASSUME NEW c \in Calls
    PROVE  /\ FirstStep(c) \in {"mkbucket", "delbucket", "exists", "readsrc", "delrows", "readrow"}
           /\ FirstStep(c) = "mkbucket" => c.op = "CreateBucket"
           /\ FirstStep(c) = "delbucket" => c.op = "DeleteBucket"
           /\ FirstStep(c) = "exists" => c.op \in {"PutObject", "DeleteObjects"}
           /\ FirstStep(c) = "readsrc" => c.op = "CopyObject"
           /\ FirstStep(c) = "delrows" => c.op = "DeleteObject"
           /\ FirstStep(c) = "readrow" => c.op \in ReadOps
    BY CallFields DEF FirstStep, AllOps, BucketOps, WriteOps, ReadOps

\* The successor of the bucket check, by operation.
LEMMA AfterCheckOp ==
    ASSUME NEW c \in Calls, NEW s \in AfterCheck(c),
           c.op \in WriteOps \union {"DeleteObjects"}
    PROVE  /\ s \in {"stream", "delrows", "insert", "refused", "stage"}
           /\ s = "stream" => c.op = "PutObject"
           /\ s = "delrows" => c.op = "DeleteObjects"
           /\ s \in {"insert", "refused"} => c.op = "CopyObject" /\ c.src = c.obj
           /\ s = "stage" => c.op = "CopyObject" /\ c.src # c.obj
    BY DEF AfterCheck, WriteOps

LEMMA TypeInit == Init => TypeInv
    BY DEF Init, TypeInv, TypeOK, Shape, ShapeAt, InFlight, Steps

LEMMA TypeSend ==
    ASSUME TypeInv, NEW r \in Requests, NEW c \in Calls, Send(r, c)
    PROVE  TypeInv'
    <1>1. Mutates(c) \subseteq Objects /\ \A q \in Readers(c) : Mutates(call[q]) \subseteq Objects
        BY CallObjects DEF TypeInv, Shape, ShapeAt, Readers, InFlight, Steps
    <1>2. torn' \subseteq Objects /\ raced' \subseteq Requests
        BY <1>1 DEF Send, Overlap, TypeInv, TypeOK, Writers, Readers
    <1>3. TypeOK'
        BY <1>2, FirstStepOp DEF TypeInv, TypeOK, Send, At, Goto, Steps,
           database, disk, locals
    <1>4. Shape'
        BY FirstStepOp DEF TypeInv, TypeOK, Shape, ShapeAt, Send, At, Goto,
           database, disk, locals, WriteOps, AllOps
    <1>5. QED
        BY <1>3, <1>4 DEF TypeInv, Send, At

\* What every step of a handler leaves alone.
LEMMA StepFrame ==
    ASSUME TypeInv, NEW r \in Requests, Step(r)
    PROVE  /\ up /\ up' = up
           /\ call' = call
           /\ InFlight(r)
           /\ call[r] \in Calls
           /\ \A q \in Requests \ {r} :
                 pc'[q] = pc[q] /\ tmp'[q] = tmp[q] /\ todo'[q] = todo[q]
    BY DEF TypeInv, TypeOK, Shape, ShapeAt, InFlight, Steps, Step, At, Goto, DropTemp,
       disk, locals, MakeBucketDir, InsertBucket, DeleteBucketRow, RemoveBucketDir,
       CheckBucket, CreateTemp, FinishBody, ReadSourceRow, CopySourceFile,
       MakeParentDirs, Rename, InsertRow, DeleteRows, UnlinkFile, Reply, ReadRow, OpenFile

LEMMA TypeStep ==
    ASSUME TypeInv, NEW r \in Requests, Step(r)
    PROVE  TypeInv'
    <1>1. /\ up /\ up' = up
          /\ call' = call
          /\ call[r] \in Calls
          /\ \A q \in Requests \ {r} :
                pc'[q] = pc[q] /\ tmp'[q] = tmp[q] /\ todo'[q] = todo[q]
        BY StepFrame
    <1>2. /\ call[r].op \in BucketOps \union {"DeleteObjects"} => call[r].bucket \in Buckets
          /\ call[r].op \in WriteOps \union ReadOps \union {"DeleteObject"}
                => call[r].obj \in Objects /\ call[r].obj[1] \in Buckets
          /\ call[r].op = "PutObject" => call[r].body \in Bodies
          /\ call[r].op = "CopyObject" => call[r].src \in Objects
        BY <1>1, CallFields DEF Objects
    <1>3. /\ Mutates(call[r]) \subseteq Objects
          /\ call[r].op = "DeleteBucket" => Mutates(call[r]) = ObjectsIn(call[r].bucket)
        BY <1>1, CallObjects
    <1>4. SUFFICES TypeOK' /\ ShapeAt(r)'
        <2>1. \A q \in Requests \ {r} : ShapeAt(q)'
            BY <1>1 DEF TypeInv, Shape, ShapeAt
        <2>2. QED
            BY <1>1, <2>1 DEF TypeInv, Shape
    <1> USE DEF TypeInv, TypeOK, Shape, ShapeAt, At, Goto, Steps, Ends, database, disk,
                locals, history, DropTemp
    <1>5. CASE MakeBucketDir(r)
        BY <1>5, <1>1, <1>2, <1>3 DEF MakeBucketDir, BucketOps
    <1>6. CASE InsertBucket(r)
        BY <1>6, <1>1, <1>2, <1>3 DEF InsertBucket, AllOps, BucketOps
    <1>7. CASE DeleteBucketRow(r)
        BY <1>7, <1>1, <1>2, <1>3 DEF DeleteBucketRow, BucketOps
    <1>8. CASE RemoveBucketDir(r)
        BY <1>8, <1>1, <1>2, <1>3 DEF RemoveBucketDir, Repair
    <1>9. CASE CheckBucket(r)
        BY <1>9, <1>1, <1>2, <1>3, AfterCheckOp DEF CheckBucket
    <1>10. CASE CreateTemp(r)
        BY <1>10, <1>1, <1>2, <1>3 DEF CreateTemp
    <1>11. CASE FinishBody(r)
        BY <1>11, <1>1, <1>2, <1>3 DEF FinishBody, WriteOps
    <1>12. CASE ReadSourceRow(r)
        BY <1>12, <1>1, <1>2, <1>3 DEF ReadSourceRow, WriteOps
    <1>13. CASE CopySourceFile(r)
        BY <1>13, <1>1, <1>2, <1>3 DEF CopySourceFile, WriteOps
    <1>14. CASE MakeParentDirs(r)
        BY <1>14, <1>1, <1>2, <1>3 DEF MakeParentDirs, WriteOps
    <1>15. CASE Rename(r)
        BY <1>15, <1>1, <1>2, <1>3 DEF Rename, WriteOps
    <1>16. CASE InsertRow(r)
        BY <1>16, <1>1, <1>2, <1>3 DEF InsertRow, WriteOps, EtagOf, AllOps
    <1>17. CASE DeleteRows(r)
        BY <1>17, <1>1, <1>2, <1>3 DEF DeleteRows, AllOps
    <1>18. CASE UnlinkFile(r)
        BY <1>18, <1>1, <1>2, <1>3 DEF UnlinkFile, AllOps
    <1>19. CASE Reply(r)
        BY <1>19, <1>1, <1>2, <1>3 DEF Reply, Repair, Announced, WriteOps
    <1>20. CASE ReadRow(r)
        BY <1>20, <1>1, <1>2, <1>3 DEF ReadRow, ReadOps, AllOps
    <1>21. CASE OpenFile(r)
        BY <1>21, <1>1, <1>2, <1>3 DEF OpenFile, ReadOps
    <1>22. QED
        BY <1>5, <1>6, <1>7, <1>8, <1>9, <1>10, <1>11, <1>12, <1>13, <1>14, <1>15, <1>16, <1>17, <1>18, <1>19, <1>20, <1>21 DEF Step

\* What is exposed by a request is among what it changes.
LEMMA ExposedMutates ==
    ASSUME TypeInv, NEW r \in Requests
    PROVE  /\ Exposed(r) \subseteq Objects
           /\ Exposed(r) # {} => InFlight(r) /\ Exposed(r) \subseteq Mutates(call[r])
    BY CallObjects DEF TypeInv, TypeOK, Shape, ShapeAt, Exposed, InFlight, Steps, WriteOps

\* What ends handlers from outside, and what happens while the server is down.
LEMMA TypeOther ==
    ASSUME TypeInv,
           \/ \E r \in Requests : Fault(r) \/ HangUp(r)
           \/ Crash
           \/ Restart
           \/ Reindex
    PROVE  TypeInv'
    <1>1. CASE \E r \in Requests : Fault(r)
        BY <1>1, ExposedMutates DEF Fault, TypeInv, TypeOK, Shape, ShapeAt, Goto, DropTemp,
           Steps, Ends, InFlight, database, locals
    <1>2. CASE \E r \in Requests : HangUp(r)
        BY <1>2, ExposedMutates DEF HangUp, TypeInv, TypeOK, Shape, ShapeAt, Goto,
           Steps, Ends, InFlight, database, disk, locals
    <1>3. CASE Crash
        <2>1. torn' \subseteq Objects
            BY <1>3, ExposedMutates DEF Crash, TypeInv, TypeOK
        <2>2. /\ pc' \in [Requests -> {"idle"} \union Steps \union Ends]
              /\ \A r \in Requests : (pc'[r] = pc[r] /\ ~InFlight(r)) \/ pc'[r] = "lost"
            BY <1>3 DEF Crash, TypeInv, TypeOK, Ends
        <2>3. TypeOK'
            BY <1>3, <2>1, <2>2 DEF Crash, TypeInv, TypeOK, database, disk, locals
        <2>4. Shape' /\ \A r \in Requests : ~InFlight(r)'
            BY <1>3, <2>2 DEF Crash, TypeInv, Shape, ShapeAt, InFlight, Steps, disk, locals
        <2>5. QED
            BY <2>3, <2>4 DEF TypeInv
    <1>4. CASE Restart
        BY <1>4 DEF Restart, TypeInv, TypeOK, Shape, ShapeAt,
           Steps, Ends, InFlight, database, disk, locals, history
    <1>5. CASE Reindex
        BY <1>5 DEF Reindex, TypeInv, TypeOK, Shape, ShapeAt,
           Steps, Ends, InFlight, disk, locals
    <1>6. QED
        BY <1>1, <1>2, <1>3, <1>4, <1>5

\* Every variable keeps its type, and every handler is at a step of its own
\* operation: no handler reads an argument that its call does not have.
THEOREM TypeCorrect == Spec => []TypeInv
    <1>1. Init => TypeInv
        BY TypeInit
    <1>2. TypeInv /\ [Next]_vars => TypeInv'
        <2>1. TypeInv /\ UNCHANGED vars => TypeInv'
            BY DEF TypeInv, TypeOK, Shape, ShapeAt, InFlight, vars, database, disk, locals, history
        <2>2. TypeInv /\ Next => TypeInv'
            BY TypeSend, TypeStep, TypeOther DEF Next
        <2>3. QED
            BY <2>1, <2>2
    <1>3. QED
        BY <1>1, <1>2, PTL DEF Spec

\* In particular the type invariant that the run checks.
THEOREM TypeOKAlways == Spec => []TypeOK
    <1>1. TypeInv => TypeOK
        BY DEF TypeInv
    <1>2. QED
        BY <1>1, TypeCorrect, PTL

------------------------------------------------------------------------------
(* Why Settled holds.  Settled alone is not inductive: it says nothing of   *)
(* what a request has done so far and will rely on at its next step.  The   *)
(* invariant adds that two requests which are in flight together and meet   *)
(* on an object are on record for it, and, for a request with no such       *)
(* record, where each step has left the row, the file and its own copies.   *)

\* Requests that meet on an object are on record: two that change it both,
\* and one that reads what another changes.
Recorded ==
    \A q, r \in Requests, o \in Objects :
        /\ q # r /\ InFlight(q) /\ InFlight(r)
        /\ o \in Mutates(call[r])
        => /\ o \in Mutates(call[q]) => q \in raced /\ r \in raced /\ o \in torn
           /\ o \in Reads(call[q]) => q \in raced

\* A request that is not on record reads only objects whose row and file
\* agree; a copy that is on record is so for its destination as well.
ReadsSound ==
    \A q \in Requests :
        InFlight(q) =>
            /\ q \notin raced => Reads(call[q]) \intersect torn = {}
            /\ q \in raced /\ call[q].op = "CopyObject" => call[q].obj \in torn

\* Nobody else has changed o since r was sent, or else o is on record as torn.
Clean(r, o) == r \notin raced \/ o \notin torn

Writing == {"stream", "hash", "stage", "copy", "mkdir", "rename", "insert"}

\* Where each step of r has left the object o that it changes.
Progress(r, o) ==
    /\ pc[r] \in Writing => o[1] \in buckets
    /\ pc[r] = "insert" => files[o] = EtagOf(r)
    /\ pc[r] = "unlink" => rows[o] = None /\ (o \notin todo[r] => files[o] = None)
    /\ pc[r] = "rmdir" => rows[o] = None /\ files[o] = None

ProgressOf(r) ==
    /\ InFlight(r) => \A o \in Mutates(call[r]) : Clean(r, o) => Progress(r, o)
    /\ pc[r] = "reply" /\ r \notin raced =>
          \A o \in Mutates(call[r]) :
              rows[o] = files[o] /\ (rows[o] # None => o[1] \in buckets)
    /\ pc[r] \in {"mkdir", "rename"} /\ (call[r].op = "PutObject" \/ r \notin raced)
          => tmp[r] = EtagOf(r)
    /\ pc[r] \in {"exists", "stage", "copy", "open"} /\ r \notin raced =>
          \A o \in Reads(call[r]) : seen[r] = rows[o] /\ rows[o] # None

ProgressInv == \A r \in Requests : ProgressOf(r)

\* Nobody is on record before the request is sent.
IdleUnraced == \A r \in Requests : pc[r] = "idle" => r \notin raced

\* A file lies in a directory.
FilesInDirs == \A o \in Objects : files[o] # None => o[1] \in dirs

IInv ==
    /\ TypeInv
    /\ Recorded
    /\ ReadsSound
    /\ ProgressInv
    /\ IdleUnraced
    /\ FilesInDirs
    /\ Settled
    /\ NoStrayRows
    /\ CleanReads

LEMMA IInvInit == Init => IInv
    BY TypeInit DEF Init, IInv, Recorded, ReadsSound, ProgressInv, ProgressOf, IdleUnraced, FilesInDirs, Settled,
       NoStrayRows, CleanReads, InFlight, Steps, Exposed, Objects

\* Sending a request changes no data; it puts on record whom it meets.
LEMMA IInvSend ==
    ASSUME IInv, NEW r \in Requests, NEW c \in Calls, Send(r, c)
    PROVE  IInv'
    <1>1. /\ TypeInv /\ TypeInv'
          /\ pc[r] = "idle" /\ ~InFlight(r)
          /\ call'[r] = c /\ pc'[r] = FirstStep(c)
          /\ \A q \in Requests \ {r} : pc'[q] = pc[q] /\ call'[q] = call[q]
          /\ UNCHANGED <<up, buckets, rows, dirs, files, tmp, seen, todo, removed, served>>
        BY TypeSend DEF IInv, TypeInv, TypeOK, Send, At, Goto, InFlight, Steps,
           database, disk, locals
    <1>2. /\ raced' = raced \union Writers(c) \union Readers(c)
                        \union (IF Writers(c) # {} \/ Stale(c) THEN {r} ELSE {})
          /\ torn' = torn
                 \union {o \in Mutates(c) :
                            Stale(c) \/ \E q \in Writers(c) : o \in Mutates(call[q])}
                 \union UNION {Mutates(call[q]) : q \in Readers(c)}
        BY DEF Send, Overlap
    <1>3. \A q \in Requests \ {r} : (InFlight(q)' <=> InFlight(q)) /\ Exposed(q)' = Exposed(q)
        BY <1>1 DEF InFlight, Exposed
    <1>4. /\ pc'[r] \in {"mkbucket", "delbucket", "exists", "readsrc", "delrows", "readrow"}
          /\ pc'[r] = "exists" => Reads(c) = {}
          /\ Exposed(r)' = {}
        <2>1. c.op \in {"PutObject", "DeleteObjects"} => Reads(c) = {}
            BY CallObjects DEF ReadOps
        <2>2. QED
            BY <1>1, <2>1, FirstStepOp DEF Exposed
    <1>5. torn \subseteq torn' /\ raced \subseteq raced'
        BY <1>2
    <1>6. Recorded'
        <2> SUFFICES ASSUME NEW q \in Requests, NEW s \in Requests, NEW o \in Objects,
                            q # s, InFlight(q)', InFlight(s)', o \in Mutates(call'[s])
                     PROVE  /\ o \in Mutates(call'[q]) => q \in raced' /\ s \in raced' /\ o \in torn'
                            /\ o \in Reads(call'[q]) => q \in raced'
            BY DEF Recorded
        <2>1. CASE q # r /\ s # r
            BY <2>1, <1>1, <1>3, <1>5 DEF IInv, Recorded
        <2>2. CASE s = r
            BY <2>2, <1>1, <1>2, <1>3 DEF Writers, Readers
        <2>3. CASE q = r
            BY <2>3, <1>1, <1>2, <1>3 DEF Writers, Sources, Stale
        <2>4. QED
            BY <2>1, <2>2, <2>3
    <1>7. ReadsSound'
        <2> SUFFICES ASSUME NEW q \in Requests, InFlight(q)'
                     PROVE  /\ q \notin raced' => Reads(call'[q]) \intersect torn' = {}
                            /\ q \in raced' /\ call'[q].op = "CopyObject" => call'[q].obj \in torn'
            BY DEF ReadsSound
        <2>1. call'[q] \in Calls
            BY <1>1 DEF TypeInv, Shape, ShapeAt, InFlight, Steps
        <2>2. call'[q].op = "CopyObject" => Mutates(call'[q]) = {call'[q].obj}
            BY <2>1, CallObjects DEF WriteOps
        <2>3. CASE q = r
            <3>1. q \notin raced' => Reads(c) \intersect torn' = {}
                BY <2>3, <1>1, <1>2 DEF Stale, Sources, Writers, Readers
            <3>2. q \in raced' /\ c.op = "CopyObject" => c.obj \in torn'
                <4>1. Writers(c) # {} \/ Stale(c) \/ r \notin raced'
                    \/ r \in raced
                    BY <2>3, <1>1, <1>2 DEF Writers, Readers
                <4>2. r \notin raced
                    BY <1>1 DEF IInv, IdleUnraced
                <4>3. QED
                    BY <4>1, <4>2, <2>2, <2>3, <1>1, <1>2 DEF Writers
            <3>3. QED
                BY <3>1, <3>2, <2>3, <1>1
        <2>4. CASE q # r
            <3>1. call'[q] = call[q] /\ InFlight(q)
                BY <2>4, <1>1, <1>3
            <3>2. Reads(call[q]) \subseteq Objects
                BY <2>1, <3>1, CallObjects
            <3>3. q \notin raced' => Reads(call[q]) \intersect torn' = {}
                BY <3>1, <3>2, <1>2, <1>5 DEF IInv, ReadsSound, Recorded, Readers
            <3>4. q \in raced' /\ call[q].op = "CopyObject" => call[q].obj \in torn'
                BY <3>1, <2>2, <2>4, <1>2, <1>5 DEF IInv, ReadsSound, Writers, Readers
            <3>5. QED
                BY <3>1, <3>3, <3>4
        <2>5. QED
            BY <2>3, <2>4
    <1>8. ProgressInv'
        <2>1. \A q \in Requests \ {r} : EtagOf(q)' = EtagOf(q)
            BY <1>1 DEF EtagOf
        <2>2. \A q \in Requests, o \in Objects : Clean(q, o)' => Clean(q, o)
            BY <1>5 DEF Clean
        <2>3. \A q \in Requests \ {r} : InFlight(q) => Mutates(call[q]) \subseteq Objects
            BY CallObjects, <1>1 DEF TypeInv, Shape, ShapeAt, InFlight, Steps
        <2>4. ProgressOf(r)'
            BY <1>1, <1>4 DEF ProgressOf, Progress, Writing
        <2>5. ASSUME NEW q \in Requests \ {r}
              PROVE  ProgressOf(q)'
            <3>1. /\ call'[q] = call[q] /\ pc'[q] = pc[q] /\ (InFlight(q)' <=> InFlight(q))
                  /\ \A o \in Objects : Progress(q, o)' <=> Progress(q, o)
                BY <1>1, <1>3, <2>1 DEF Progress
            <3>2. ProgressOf(q)
                BY DEF IInv, ProgressInv
            <3>3. InFlight(q)' => \A o \in Mutates(call'[q]) : Clean(q, o)' => Progress(q, o)'
                BY <3>1, <3>2, <2>2, <2>3 DEF ProgressOf
            <3>4. QED
                BY <1>1, <1>5, <2>1, <3>1, <3>2, <3>3 DEF ProgressOf
        <2>6. QED
            BY <2>4, <2>5 DEF ProgressInv
    <1>9. FilesInDirs' /\ IdleUnraced'
        <2>1. \A q \in Requests : q \in raced' => q \in raced \/ q = r \/ InFlight(q)
            BY <1>2 DEF Writers, Readers
        <2>2. QED
            BY <1>1, <1>4, <2>1 DEF IInv, FilesInDirs, IdleUnraced, InFlight, Steps
    <1>10. Settled' /\ NoStrayRows'
        <2>1. \A q \in Requests : Exposed(q)' = Exposed(q)
            BY <1>1, <1>3, <1>4 DEF Exposed
        <2>2. Settled'
            BY <1>1, <1>5, <2>1 DEF IInv, Settled
        <2>3. NoStrayRows'
            BY <1>1, <1>5 DEF IInv, NoStrayRows
        <2>4. QED
            BY <2>2, <2>3
    <1>11. CleanReads'
        BY <1>1, <1>4, <1>5 DEF IInv, CleanReads
    <1>12. QED
        BY <1>1, <1>6, <1>7, <1>8, <1>9, <1>10, <1>11 DEF IInv

\* What every step of a handler does to the records and to other handlers.
LEMMA StepHistory ==
    ASSUME TypeInv, NEW r \in Requests, Step(r)
    PROVE  /\ raced' = raced
           /\ \/ torn' = torn
              \/ /\ r \notin raced
                 /\ torn' = torn \ Mutates(call[r])
                 /\ pc'[r] = "ok"
                 /\ pc[r] \in {"rmdir", "reply"}
           /\ pc'[r] # "idle"
           /\ \A q \in Requests \ {r} : seen'[q] = seen[q] /\ served'[q] = served[q]
    <1>1. call[r] \in Calls /\ \A s \in AfterCheck(call[r]) : pc[r] = "exists" => s # "idle"
        BY StepFrame, AfterCheckOp DEF TypeInv, Shape, ShapeAt
    <1> USE DEF TypeInv, TypeOK, Step, At, Goto, database, disk, locals, history
    <1>2. raced' = raced
        BY DEF MakeBucketDir, InsertBucket, DeleteBucketRow, RemoveBucketDir,
           CheckBucket, CreateTemp, FinishBody, ReadSourceRow, CopySourceFile,
           MakeParentDirs, Rename, InsertRow, DeleteRows, UnlinkFile, Reply, ReadRow, OpenFile
    <1>3. \/ torn' = torn
          \/ /\ r \notin raced
             /\ torn' = torn \ Mutates(call[r])
             /\ pc'[r] = "ok"
             /\ pc[r] \in {"rmdir", "reply"}
        BY DEF MakeBucketDir, InsertBucket, DeleteBucketRow, RemoveBucketDir, Repair,
           CheckBucket, CreateTemp, FinishBody, ReadSourceRow, CopySourceFile,
           MakeParentDirs, Rename, InsertRow, DeleteRows, UnlinkFile, Reply, ReadRow, OpenFile
    <1>4. pc'[r] # "idle"
        BY <1>1 DEF MakeBucketDir, InsertBucket, DeleteBucketRow, RemoveBucketDir,
           CheckBucket, CreateTemp, FinishBody, ReadSourceRow, CopySourceFile,
           MakeParentDirs, Rename, InsertRow, DeleteRows, UnlinkFile, Reply, ReadRow, OpenFile
    <1>5. \A q \in Requests \ {r} : seen'[q] = seen[q] /\ served'[q] = served[q]
        BY DEF MakeBucketDir, InsertBucket, DeleteBucketRow, RemoveBucketDir,
           CheckBucket, CreateTemp, FinishBody, ReadSourceRow, CopySourceFile,
           MakeParentDirs, Rename, InsertRow, DeleteRows, UnlinkFile, Reply, ReadRow, OpenFile
    <1>6. QED
        BY <1>2, <1>3, <1>4, <1>5

\* A step of r alters nothing but the objects that r changes.
LEMMA StepTouches ==
    ASSUME TypeInv, NEW r \in Requests, Step(r),
           NEW o \in Objects, o \notin Mutates(call[r])
    PROVE  /\ rows'[o] = rows[o]
           /\ files'[o] = files[o]
           /\ o[1] \in buckets => o[1] \in buckets'
    <1>1. call[r] \in Calls
        BY StepFrame
    <1>2. /\ call[r].op \in WriteOps => o # call[r].obj
          /\ call[r].op = "DeleteBucket" => o[1] # call[r].bucket
        BY <1>1, CallObjects DEF Objects, ObjectsIn
    <1> USE DEF TypeInv, TypeOK, Shape, ShapeAt, Step, At, Goto, database, disk, locals, history
    <1>3. rows'[o] = rows[o]
        BY <1>2 DEF MakeBucketDir, InsertBucket, DeleteBucketRow, RemoveBucketDir,
           CheckBucket, CreateTemp, FinishBody, ReadSourceRow, CopySourceFile,
           MakeParentDirs, Rename, InsertRow, DeleteRows, UnlinkFile, Reply, ReadRow, OpenFile
    <1>4. files'[o] = files[o]
        BY <1>2 DEF MakeBucketDir, InsertBucket, DeleteBucketRow, RemoveBucketDir,
           CheckBucket, CreateTemp, FinishBody, ReadSourceRow, CopySourceFile,
           MakeParentDirs, Rename, InsertRow, DeleteRows, UnlinkFile, Reply, ReadRow, OpenFile
    <1>5. o[1] \in buckets => o[1] \in buckets'
        BY <1>2 DEF MakeBucketDir, InsertBucket, DeleteBucketRow, RemoveBucketDir,
           CheckBucket, CreateTemp, FinishBody, ReadSourceRow, CopySourceFile,
           MakeParentDirs, Rename, InsertRow, DeleteRows, UnlinkFile, Reply, ReadRow, OpenFile
    <1>6. QED
        BY <1>3, <1>4, <1>5

\* A file is made only in a directory, and a directory removed only when empty.
LEMMA FilesInDirsStep ==
    ASSUME TypeInv, FilesInDirs, NEW r \in Requests, Step(r)
    PROVE  FilesInDirs'
    <1>1. call[r] \in Calls
        BY StepFrame
    <1>2. \A b : ObjectsIn(b) = {b} \X Keys
        BY DEF ObjectsIn
    <1> USE DEF TypeInv, TypeOK, Shape, ShapeAt, FilesInDirs, At, Goto,
                database, disk, locals, history
    <1>3. CASE RemoveBucketDir(r)
        BY <1>1, <1>2, <1>3 DEF RemoveBucketDir, Objects
    <1>4. CASE Rename(r)
        BY <1>1, <1>4 DEF Rename
    <1>5. CASE UnlinkFile(r)
        BY <1>5 DEF UnlinkFile
    <1>6. CASE ~RemoveBucketDir(r) /\ ~Rename(r) /\ ~UnlinkFile(r)
        <2>1. files' = files /\ dirs \subseteq dirs'
            BY <1>6 DEF Step, MakeBucketDir, InsertBucket, DeleteBucketRow,
               CheckBucket, CreateTemp, FinishBody, ReadSourceRow, CopySourceFile,
               MakeParentDirs, InsertRow, DeleteRows, Reply, ReadRow, OpenFile
        <2>2. QED
            BY <2>1
    <1>7. QED
        BY <1>3, <1>4, <1>5, <1>6

\* What a clean reader relies on: the row and the file of its source agree.
LEMMA ReadAgree ==
    ASSUME IInv, NEW r \in Requests, InFlight(r), r \notin raced,
           NEW o \in Reads(call[r]), o \in Objects, o \notin Exposed(r)
    PROVE  rows[o] = files[o]
    <1>1. o \notin torn
        BY DEF IInv, ReadsSound
    <1>2. \A q \in Requests \ {r} : o \notin Exposed(q)
        BY ExposedMutates DEF IInv, Recorded
    <1>3. QED
        BY <1>1, <1>2 DEF IInv, Settled

\* Records once made are kept as long as they are needed.
LEMMA RecordsStep ==
    ASSUME IInv, NEW r \in Requests, Step(r)
    PROVE  Recorded' /\ ReadsSound' /\ IdleUnraced'
    <1>1. /\ call' = call /\ InFlight(r)
          /\ \A q \in Requests \ {r} : pc'[q] = pc[q]
        BY StepFrame DEF IInv
    <1>2. /\ raced' = raced
          /\ \/ torn' = torn
             \/ r \notin raced /\ torn' = torn \ Mutates(call[r]) /\ pc'[r] = "ok"
          /\ pc'[r] # "idle"
        BY StepHistory DEF IInv
    <1>3. \A q \in Requests : InFlight(q)' => InFlight(q) /\ (q # r \/ torn' = torn)
        BY <1>1, <1>2 DEF InFlight, Steps
    <1>4. ASSUME NEW q \in Requests, InFlight(q)', NEW o \in Mutates(call[q]), o \in Objects, o \in torn
          PROVE  o \in torn'
        BY <1>1, <1>2, <1>3, <1>4 DEF IInv, Recorded
    <1>5. Recorded'
        BY <1>1, <1>2, <1>3, <1>4 DEF IInv, Recorded
    <1>6. ReadsSound'
        <2> SUFFICES ASSUME NEW q \in Requests, InFlight(q)'
                     PROVE  /\ q \notin raced => Reads(call[q]) \intersect torn' = {}
                            /\ q \in raced /\ call[q].op = "CopyObject" => call[q].obj \in torn'
            BY <1>1, <1>2 DEF ReadsSound
        <2>1. call[q] \in Calls
            BY <1>3 DEF IInv, TypeInv, Shape, ShapeAt, InFlight, Steps
        <2>2. call[q].op = "CopyObject" => call[q].obj \in Mutates(call[q]) /\ call[q].obj \in Objects
            BY <2>1, CallObjects, CallFields DEF WriteOps
        <2>3. QED
            BY <1>2, <1>3, <1>4, <2>2 DEF IInv, ReadsSound
    <1>7. IdleUnraced'
        BY <1>1, <1>2 DEF IInv, IdleUnraced
    <1>8. QED
        BY <1>5, <1>6, <1>7

\* A step of r does not undo what another request relies on.
LEMMA ProgressStepOthers ==
    ASSUME IInv, NEW r \in Requests, Step(r), NEW q \in Requests \ {r}
    PROVE  ProgressOf(q)'
    <1>1. /\ call' = call /\ InFlight(r)
          /\ pc'[q] = pc[q] /\ tmp'[q] = tmp[q] /\ todo'[q] = todo[q]
        BY StepFrame DEF IInv
    <1>2. /\ raced' = raced /\ seen'[q] = seen[q]
          /\ torn' = torn \/ (r \notin raced /\ torn' = torn \ Mutates(call[r]))
        BY StepHistory DEF IInv
    <1>3. (InFlight(q)' <=> InFlight(q)) /\ EtagOf(q)' = EtagOf(q)
        BY <1>1, <1>2 DEF InFlight, EtagOf
    <1>4. InFlight(q) => Mutates(call[q]) \subseteq Objects /\ Reads(call[q]) \subseteq Objects
        BY CallObjects DEF IInv, TypeInv, Shape, ShapeAt, InFlight, Steps
    <1>5. ProgressOf(q)
        BY DEF IInv, ProgressInv
    <1>6. ASSUME InFlight(q), NEW o \in Mutates(call[q]), Clean(q, o)'
          PROVE  Clean(q, o) /\ o \notin Mutates(call[r])
        BY <1>1, <1>2, <1>4, <1>6 DEF IInv, Recorded, Clean
    <1>7. InFlight(q)' => \A o \in Mutates(call'[q]) : Clean(q, o)' => Progress(q, o)'
        BY <1>1, <1>3, <1>4, <1>5, <1>6, StepTouches DEF IInv, ProgressOf, Progress
    <1>8. pc'[q] = "reply" /\ q \notin raced =>
              \A o \in Mutates(call'[q]) :
                  rows'[o] = files'[o] /\ (rows'[o] # None => o[1] \in buckets')
        BY <1>1, <1>2, <1>4, <1>5, <1>6, StepTouches DEF IInv, ProgressOf, Clean, InFlight, Steps
    <1>9. pc'[q] \in {"exists", "stage", "copy", "open"} /\ q \notin raced =>
              \A o \in Reads(call'[q]) : seen'[q] = rows'[o] /\ rows'[o] # None
        <2>1. InFlight(q) /\ q \notin raced => \A o \in Reads(call[q]) : o \notin Mutates(call[r])
            BY <1>1, <1>4 DEF IInv, Recorded
        <2>2. QED
            BY <1>1, <1>2, <1>4, <1>5, <2>1, StepTouches DEF IInv, ProgressOf, InFlight, Steps
    <1>10. QED
        BY <1>1, <1>2, <1>3, <1>5, <1>7, <1>8, <1>9 DEF ProgressOf

\* Each step of r leaves what its next step relies on.
LEMMA ProgressStepSelf ==
    ASSUME IInv, NEW r \in Requests, Step(r)
    PROVE  ProgressOf(r)'
    <1> DEFINE c == call[r]
    <1>1. /\ call' = call /\ raced' = raced /\ InFlight(r) /\ c \in Calls
          /\ torn' = torn \/ (torn' = torn \ Mutates(c) /\ pc'[r] = "ok")
        BY StepFrame, StepHistory DEF IInv
    <1>2. /\ c.op \in BucketOps \union {"DeleteObjects"} => c.bucket \in Buckets
          /\ c.op \in WriteOps \union ReadOps \union {"DeleteObject"} => c.obj \in Objects
          /\ c.op = "CopyObject" => c.src \in Objects
        BY <1>1, CallFields
    <1>3. /\ Mutates(c) \subseteq Objects
          /\ c.op \in WriteOps \union {"DeleteObject"} => Mutates(c) = {c.obj}
          /\ c.op = "DeleteBucket" => Mutates(c) = ObjectsIn(c.bucket)
          /\ c.op \in {"CreateBucket"} \union ReadOps => Mutates(c) = {}
          /\ c.op = "CopyObject" => Reads(c) = {c.src}
          /\ c.op \in ReadOps => Reads(c) = {c.obj}
          /\ c.op \notin ReadOps \union {"CopyObject"} => Reads(c) = {}
        BY <1>1, CallObjects
    <1>4. c.op \in WriteOps => BucketOf(c) = c.obj[1]
        BY DEF BucketOf, WriteOps, BucketOps
    <1>5. ProgressOf(r) /\ ShapeAt(r) /\ TypeOK
        BY DEF IInv, ProgressInv, TypeInv, Shape
    <1>6. /\ r \in raced /\ c.op = "CopyObject" => c.obj \in torn
          /\ r \notin raced => \A o \in Reads(c) : o \notin Exposed(r) => rows[o] = files[o]
        BY <1>1, <1>3, ReadAgree, CallObjects DEF IInv, ReadsSound
    <1>7. pc[r] \notin {"insert", "unlink"} => Exposed(r) = {}
        BY DEF Exposed
    <1>8. (\A o \in Mutates(c) : torn' = torn /\ Clean(r, o)' => Clean(r, o))
        BY <1>1 DEF Clean
    <1> HIDE DEF c
    <1> USE DEF ProgressOf, Progress, ShapeAt, TypeOK, At, Goto, DropTemp, EtagOf, Writing,
                database, disk, locals, history
    <1>9. CASE MakeBucketDir(r)
        BY <1>9, <1>1, <1>3, <1>5 DEF MakeBucketDir, c
    <1>10. CASE InsertBucket(r)
        BY <1>10, <1>1, <1>3, <1>5 DEF InsertBucket, c
    <1>11. CASE DeleteBucketRow(r)
        BY <1>11, <1>1, <1>3, <1>5 DEF DeleteBucketRow, c
    <1>12. CASE RemoveBucketDir(r)
        BY <1>12, <1>1, <1>5 DEF RemoveBucketDir, InFlight, Steps
    <1>13. CASE CheckBucket(r)
        BY <1>13, <1>1, <1>2, <1>3, <1>4, <1>5, <1>6, <1>7, AfterCheckOp
        DEF CheckBucket, c, WriteOps, ReadOps, Clean
    <1>14. CASE CreateTemp(r)
        BY <1>14, <1>1, <1>2, <1>3, <1>5, <1>8 DEF CreateTemp, c, InFlight, Steps
    <1>15. CASE FinishBody(r)
        BY <1>15, <1>1, <1>2, <1>3, <1>5, <1>8 DEF FinishBody, c, InFlight, Steps
    <1>16. CASE ReadSourceRow(r)
        BY <1>16, <1>1, <1>2, <1>3, <1>5 DEF ReadSourceRow, c
    <1>17. CASE CopySourceFile(r)
        BY <1>17, <1>1, <1>2, <1>3, <1>5, <1>6, <1>7, <1>8 DEF CopySourceFile, c, InFlight, Steps
    <1>18. CASE MakeParentDirs(r)
        BY <1>18, <1>1, <1>2, <1>3, <1>5, <1>8 DEF MakeParentDirs, c, InFlight, Steps
    <1>19. CASE Rename(r)
        BY <1>19, <1>1, <1>2, <1>3, <1>5, <1>6, <1>8 DEF Rename, c, InFlight, Steps, Clean, WriteOps
    <1>20. CASE InsertRow(r)
        BY <1>20, <1>1, <1>2, <1>3, <1>5 DEF InsertRow, c, InFlight, Steps, Clean, WriteOps
    <1>21. CASE DeleteRows(r)
        BY <1>21, <1>1, <1>3, <1>5 DEF DeleteRows, c
    <1>22. CASE UnlinkFile(r)
        BY <1>22, <1>1, <1>3, <1>5, <1>8 DEF UnlinkFile, c, InFlight, Steps, Clean
    <1>23. CASE Reply(r)
        BY <1>23, <1>1, <1>5 DEF Reply, InFlight, Steps
    <1>24. CASE ReadRow(r)
        BY <1>24, <1>1, <1>2, <1>3, <1>5 DEF ReadRow, c
    <1>25. CASE OpenFile(r)
        BY <1>25, <1>1, <1>5 DEF OpenFile, InFlight, Steps
    <1>26. QED
        BY <1>9, <1>10, <1>11, <1>12, <1>13, <1>14, <1>15, <1>16, <1>17, <1>18, <1>19,
           <1>20, <1>21, <1>22, <1>23, <1>24, <1>25 DEF Step

\* What r leaves behind on an object that it changes and that is not on record
\* as torn: the row and the file agree unless r still exposes the object.
LEMMA AgreeStep ==
    ASSUME IInv, NEW r \in Requests, Step(r),
           NEW o \in Mutates(call[r]), o \in Objects, o \notin torn'
    PROVE  /\ o \notin Exposed(r)' => rows'[o] = files'[o]
           /\ rows'[o] # None => o[1] \in buckets'
    <1> DEFINE c == call[r]
    <1>1. /\ call' = call /\ raced' = raced /\ InFlight(r) /\ c \in Calls
          /\ \/ torn' = torn
             \/ r \notin raced /\ torn' = torn \ Mutates(c) /\ pc[r] \in {"rmdir", "reply"}
        BY StepFrame, StepHistory DEF IInv
    <1>2. /\ c.op \in WriteOps \union {"DeleteObject"} => Mutates(c) = {c.obj}
          /\ c.op = "DeleteBucket" => Mutates(c) = ObjectsIn(c.bucket)
          /\ c.op \in {"CreateBucket"} \union ReadOps => Mutates(c) = {}
        BY <1>1, CallObjects
    <1>3. Clean(r, o)
        BY <1>1 DEF Clean
    <1>4. ProgressOf(r) /\ ShapeAt(r) /\ TypeOK
        BY DEF IInv, ProgressInv, TypeInv, Shape
    <1>5. Progress(r, o)
        BY <1>1, <1>3, <1>4 DEF ProgressOf
    <1>6. o \notin torn => (rows[o] # None => o[1] \in buckets)
        BY DEF IInv, NoStrayRows
    <1>7. o \notin torn /\ o \notin Exposed(r) => rows[o] = files[o]
        <2>1. \A q \in Requests \ {r} : o \notin torn => o \notin Exposed(q)
            BY <1>1, ExposedMutates DEF IInv, Recorded
        <2>2. QED
            BY <2>1 DEF IInv, Settled
    <1>8. /\ pc[r] \notin {"insert", "unlink"} => Exposed(r) = {}
          /\ pc'[r] = "unlink" => Exposed(r)' = todo'[r]
          /\ pc'[r] = "insert" => Exposed(r)' = {c.obj}
        BY <1>1 DEF Exposed
    <1> HIDE DEF c
    <1> USE DEF Progress, ShapeAt, TypeOK, At, Goto, database, disk, locals, history
    <1>9. CASE DeleteBucketRow(r)
        BY <1>1, <1>2, <1>4, <1>6, <1>7, <1>8, <1>9 DEF DeleteBucketRow, c
    <1>10. CASE RemoveBucketDir(r)
        BY <1>5, <1>10 DEF RemoveBucketDir
    <1>11. CASE Rename(r)
        BY <1>1, <1>2, <1>4, <1>6, <1>7, <1>8, <1>11 DEF Rename, c
    <1>12. CASE InsertRow(r)
        BY <1>1, <1>2, <1>4, <1>5, <1>12 DEF InsertRow, c, Writing
    <1>13. CASE DeleteRows(r)
        BY <1>1, <1>2, <1>4, <1>8, <1>13 DEF DeleteRows, c
    <1>14. CASE UnlinkFile(r)
        BY <1>1, <1>4, <1>5, <1>8, <1>14 DEF UnlinkFile
    <1>15. CASE Reply(r)
        BY <1>1, <1>4, <1>6, <1>7, <1>8, <1>15 DEF Reply, ProgressOf, c
    <1>16. CASE /\ ~DeleteBucketRow(r) /\ ~RemoveBucketDir(r) /\ ~Rename(r)
                /\ ~InsertRow(r) /\ ~DeleteRows(r) /\ ~UnlinkFile(r) /\ ~Reply(r)
        <2>1. /\ rows' = rows /\ files' = files /\ buckets \subseteq buckets' /\ torn' = torn
              /\ pc[r] \notin {"insert", "unlink"}
            BY <1>16 DEF Step, MakeBucketDir, InsertBucket, CheckBucket, CreateTemp,
               FinishBody, ReadSourceRow, CopySourceFile, MakeParentDirs, ReadRow, OpenFile
        <2>2. QED
            BY <1>6, <1>7, <1>8, <2>1
    <1>17. QED
        BY <1>9, <1>10, <1>11, <1>12, <1>13, <1>14, <1>15, <1>16

LEMMA SettledStep ==
    ASSUME IInv, NEW r \in Requests, Step(r)
    PROVE  Settled' /\ NoStrayRows'
    <1>1. ASSUME NEW o \in Objects, o \notin torn', \A q \in Requests : o \notin Exposed(q)'
          PROVE  rows'[o] = files'[o]
        <2>1. CASE o \in Mutates(call[r])
            BY <1>1, <2>1, AgreeStep
        <2>2. CASE o \notin Mutates(call[r])
            <3>1. o \notin torn
                BY <1>1, <2>2, StepHistory DEF IInv
            <3>2. o \notin Exposed(r)
                BY <2>2, ExposedMutates DEF IInv
            <3>3. \A q \in Requests \ {r} : Exposed(q)' = Exposed(q)
                BY StepFrame DEF IInv, Exposed
            <3>4. rows[o] = files[o]
                BY <1>1, <3>1, <3>2, <3>3 DEF IInv, Settled
            <3>5. QED
                BY <2>2, <3>4, StepTouches DEF IInv
        <2>3. QED
            BY <2>1, <2>2
    <1>2. ASSUME NEW o \in Objects, o \notin torn', rows'[o] # None
          PROVE  o[1] \in buckets'
        <2>1. CASE o \in Mutates(call[r])
            BY <1>2, <2>1, AgreeStep
        <2>2. CASE o \notin Mutates(call[r])
            <3>1. o \notin torn
                BY <1>2, <2>2, StepHistory DEF IInv
            <3>2. QED
                BY <1>2, <2>2, <3>1, StepTouches DEF IInv, NoStrayRows
        <2>3. QED
            BY <2>1, <2>2
    <1>3. QED
        BY <1>1, <1>2 DEF Settled, NoStrayRows

LEMMA CleanReadsStep ==
    ASSUME IInv, NEW r \in Requests, Step(r)
    PROVE  CleanReads'
    <1>1. /\ call' = call /\ raced' = raced /\ InFlight(r) /\ call[r] \in Calls
          /\ \A q \in Requests \ {r} : /\ pc'[q] = pc[q]
                                       /\ seen'[q] = seen[q]
                                       /\ served'[q] = served[q]
        BY StepFrame, StepHistory DEF IInv
    <1>2. SUFFICES ASSUME r \notin raced
                   PROVE  /\ pc'[r] # "nobytes"
                          /\ pc'[r] = "ok" /\ call[r].op = "GetObject" => served'[r] = seen'[r]
        BY <1>1 DEF IInv, CleanReads
    <1>3. ProgressOf(r) /\ ShapeAt(r) /\ TypeOK
        BY DEF IInv, ProgressInv, TypeInv, Shape
    <1>4. pc[r] \in {"copy", "open"} =>
              \A o \in Reads(call[r]) : files[o] = seen[r] /\ files[o] # None
        <2>1. pc[r] \in {"copy", "open"} => Exposed(r) = {}
            BY DEF Exposed
        <2>2. QED
            BY <1>1, <1>2, <1>3, <2>1, CallObjects, ReadAgree DEF ProgressOf
    <1>5. /\ call[r].op = "CopyObject" => Reads(call[r]) = {call[r].src}
          /\ call[r].op = "GetObject" => Reads(call[r]) = {call[r].obj}
        BY <1>1, CallObjects DEF ReadOps
    <1> USE DEF ShapeAt, TypeOK, At, Goto, database, disk, locals, history
    <1>6. CASE CopySourceFile(r)
        BY <1>3, <1>4, <1>5, <1>6 DEF CopySourceFile
    <1>7. CASE OpenFile(r)
        BY <1>3, <1>4, <1>5, <1>7 DEF OpenFile
    <1>8. CASE RemoveBucketDir(r) \/ Reply(r)
        BY <1>3, <1>8 DEF RemoveBucketDir, Reply
    <1>9. CASE CheckBucket(r)
        BY <1>1, <1>3, <1>9, AfterCheckOp DEF CheckBucket
    <1>10. CASE /\ ~CopySourceFile(r) /\ ~OpenFile(r) /\ ~RemoveBucketDir(r) /\ ~Reply(r)
                /\ ~CheckBucket(r)
        BY <1>3, <1>10 DEF Step, MakeBucketDir, InsertBucket, DeleteBucketRow,
           CreateTemp, FinishBody, ReadSourceRow, MakeParentDirs, Rename, InsertRow,
           DeleteRows, UnlinkFile, ReadRow
    <1>11. QED
        BY <1>6, <1>7, <1>8, <1>9, <1>10

LEMMA IInvStep ==
    ASSUME IInv, NEW r \in Requests, Step(r)
    PROVE  IInv'
    <1>1. TypeInv' /\ FilesInDirs'
        BY TypeStep, FilesInDirsStep DEF IInv
    <1>2. ProgressInv'
        BY ProgressStepSelf, ProgressStepOthers DEF ProgressInv
    <1>3. QED
        BY <1>1, <1>2, RecordsStep, SettledStep, CleanReadsStep DEF IInv

\* A handler that is cut short puts what it exposes on record.
LEMMA IInvCut ==
    ASSUME IInv, NEW r \in Requests, Fault(r) \/ HangUp(r)
    PROVE  IInv'
    <1>1. /\ TypeInv' /\ InFlight(r) /\ pc'[r] \in {"failed", "lost"}
          /\ \A q \in Requests \ {r} : pc'[q] = pc[q] /\ tmp'[q] = tmp[q]
          /\ torn' = torn \union Exposed(r)
          /\ UNCHANGED <<call, buckets, rows, dirs, files, seen, todo, removed, served, raced>>
        BY TypeOther DEF IInv, TypeInv, TypeOK, Fault, HangUp, Goto, DropTemp,
           database, disk, locals
    <1>2. /\ ~InFlight(r)' /\ Exposed(r)' = {} /\ pc'[r] \notin {"idle", "nobytes", "ok"}
          /\ \A q \in Requests \ {r} : /\ InFlight(q)' <=> InFlight(q)
                                       /\ Exposed(q)' = Exposed(q)
                                       /\ EtagOf(q)' = EtagOf(q)
        BY <1>1 DEF InFlight, Steps, Exposed, EtagOf
    <1>3. Recorded' /\ IdleUnraced' /\ FilesInDirs' /\ CleanReads'
        BY <1>1, <1>2 DEF IInv, Recorded, IdleUnraced, FilesInDirs, CleanReads
    <1>4. ReadsSound'
        <2>1. \A q \in Requests \ {r} : InFlight(q) /\ q \notin raced =>
                  Reads(call[q]) \intersect Exposed(r) = {}
            BY ExposedMutates DEF IInv, Recorded
        <2>2. QED
            BY <1>1, <1>2, <2>1 DEF IInv, ReadsSound
    <1>5. ProgressInv'
        <2>1. ASSUME NEW q \in Requests \ {r}
              PROVE  ProgressOf(q)'
            <3>1. ProgressOf(q) /\ \A o \in Objects : Progress(q, o)' <=> Progress(q, o)
                BY <1>1, <1>2 DEF IInv, ProgressInv, Progress
            <3>2. InFlight(q) => Mutates(call[q]) \subseteq Objects
                BY CallObjects DEF IInv, TypeInv, Shape, ShapeAt, InFlight, Steps
            <3>3. InFlight(q)' => \A o \in Mutates(call'[q]) : Clean(q, o)' => Progress(q, o)'
                BY <1>1, <1>2, <3>1, <3>2 DEF ProgressOf, Clean
            <3>4. QED
                BY <1>1, <1>2, <3>1, <3>3 DEF ProgressOf
        <2>2. ProgressOf(r)'
            BY <1>1, <1>2 DEF ProgressOf, InFlight, Steps
        <2>3. QED
            BY <2>1, <2>2 DEF ProgressInv
    <1>6. Settled' /\ NoStrayRows'
        BY <1>1, <1>2 DEF IInv, Settled, NoStrayRows
    <1>7. QED
        BY <1>1, <1>3, <1>4, <1>5, <1>6 DEF IInv

\* So does the end of the server for all of them.
LEMMA IInvCrash ==
    ASSUME IInv, Crash
    PROVE  IInv'
    <1>1. /\ TypeInv'
          /\ \A q \in Requests : /\ pc'[q] = "lost" \/ (pc'[q] = pc[q] /\ ~InFlight(q))
                                 /\ Exposed(q) \subseteq torn'
          /\ torn \subseteq torn'
          /\ UNCHANGED <<call, buckets, rows, dirs, files, tmp, seen, todo, removed, served, raced>>
        <2>1. TypeInv'
            BY TypeOther DEF IInv
        <2>2. \A q \in Requests : pc'[q] = "lost" \/ (pc'[q] = pc[q] /\ ~InFlight(q))
            BY DEF Crash
        <2>3. QED
            BY <2>1, <2>2 DEF Crash, database, disk, locals
    <1>2. \A q \in Requests : ~InFlight(q)' /\ pc'[q] # "reply"
        BY <1>1 DEF InFlight, Steps
    <1>3. Recorded' /\ ReadsSound' /\ ProgressInv'
        BY <1>1, <1>2 DEF Recorded, ReadsSound, ProgressInv, ProgressOf, InFlight, Steps
    <1>4. IdleUnraced' /\ FilesInDirs' /\ CleanReads'
        BY <1>1 DEF IInv, IdleUnraced, FilesInDirs, CleanReads
    <1>5. Settled' /\ NoStrayRows'
        BY <1>1 DEF IInv, Settled, NoStrayRows
    <1>6. QED
        BY <1>1, <1>3, <1>4, <1>5 DEF IInv

\* Reindex makes a row only of a file, and in a bucket that is there by then.
LEMMA IInvReindex ==
    ASSUME IInv, Reindex
    PROVE  IInv'
    <1>1. /\ TypeInv' /\ \A q \in Requests : ~InFlight(q)
          /\ UNCHANGED <<call, pc, dirs, files, tmp, seen, todo, removed, served, raced>>
        BY TypeOther DEF IInv, TypeInv, TypeOK, Reindex, disk, locals
    <1>. PICK found \in SUBSET (dirs \ buckets), adopted \in SUBSET Orphans :
              /\ \A o \in adopted : o[1] \in buckets \union found
              /\ buckets' = buckets \union found
              /\ rows' = [o \in Objects |-> IF o \in adopted THEN files[o] ELSE rows[o]]
              /\ torn' = {o \in torn : rows[o] # None \/ o \in Orphans \ adopted}
        BY DEF Reindex
    <1>2. \A q \in Requests : ~InFlight(q)' /\ Exposed(q) = {} /\ pc[q] # "reply"
        BY <1>1, ExposedMutates DEF IInv, InFlight, Steps
    <1>3. Recorded' /\ ReadsSound' /\ ProgressInv'
        BY <1>1, <1>2 DEF Recorded, ReadsSound, ProgressInv, ProgressOf, InFlight, Steps
    <1>4. IdleUnraced' /\ FilesInDirs' /\ CleanReads'
        BY <1>1 DEF IInv, IdleUnraced, FilesInDirs, CleanReads
    <1>5. Settled' /\ NoStrayRows'
        BY <1>1, <1>2 DEF IInv, Settled, NoStrayRows, Orphans
    <1>6. QED
        BY <1>1, <1>3, <1>4, <1>5 DEF IInv

LEMMA IInvStutter ==
    ASSUME IInv, Restart \/ UNCHANGED vars
    PROVE  IInv'
    <1>1. /\ TypeInv'
          /\ UNCHANGED <<call, pc, buckets, rows, dirs, files, tmp, seen, todo, removed,
                         served, raced, torn>>
        <2>1. CASE Restart
            BY <2>1, TypeOther DEF IInv, Restart, database, disk, locals, history
        <2>2. CASE UNCHANGED vars
            BY <2>2 DEF IInv, TypeInv, TypeOK, Shape, ShapeAt, InFlight, vars,
               database, disk, locals, history
        <2>3. QED
            BY <2>1, <2>2
    <1>2. QED
        BY <1>1 DEF IInv, Recorded, ReadsSound, ProgressInv, ProgressOf, Progress, Clean,
           IdleUnraced, FilesInDirs, Settled, NoStrayRows, CleanReads, InFlight, Exposed, EtagOf

\* The invariant holds in every reachable state.
THEOREM Invariance == Spec => []IInv
    <1>1. IInv /\ [Next]_vars => IInv'
        BY IInvSend, IInvStep, IInvCut, IInvCrash, IInvReindex, IInvStutter DEF Next
    <1>2. QED
        BY <1>1, IInvInit, PTL DEF Spec

\* The database and the disk agree on every object that no two requests have
\* met on and no accident has befallen (put_bytes, delete_object, copy_object,
\* delete_bucket, reindex).
THEOREM SettledAlways == Spec => []Settled
    <1>1. IInv => Settled
        BY DEF IInv
    <1>2. QED
        BY <1>1, Invariance, PTL

\* No such object is without its bucket (try_delete_bucket, bucket_exists).
THEOREM NoStrayRowsAlways == Spec => []NoStrayRows
    <1>1. IInv => NoStrayRows
        BY DEF IInv
    <1>2. QED
        BY <1>1, Invariance, PTL

\* A read that nobody has interfered with answers with the bytes that its
\* ETag names (get_object, stage_file_copy).
THEOREM CleanReadsAlways == Spec => []CleanReads
    <1>1. IInv => CleanReads
        BY DEF IInv
    <1>2. QED
        BY <1>1, Invariance, PTL

------------------------------------------------------------------------------
(* The invariant: how far a request has come tells whether it has a         *)
(* temporary file, has had its effect, has found what it reads and has      *)
(* announced what it did.                                                   *)

BeforeEffect == {"idle", "mkbucket", "insbucket", "delbucket", "exists", "readsrc",
                 "delrows", "readrow", "open"} \union Writing

TempAt(r) ==
    tmp[r] # None => pc[r] \in {"hash", "copy", "mkdir", "rename", "lost"}

AppliedAt(r) ==
    /\ pc[r] \in BeforeEffect => r \notin applied
    /\ pc[r] \in {"unlink", "rmdir"} => r \in applied
    /\ pc[r] = "reply" => (r \in applied <=> call[r].op # "HeadObject")
    /\ removed[r] # {} => r \in applied /\ call[r].op \in {"DeleteObject", "DeleteObjects"}

SeenAt(r) ==
    /\ pc[r] \in {"idle", "readsrc", "readrow"} => seen[r] = None
    /\ pc[r] = "open" => seen[r] # None
    /\ pc[r] = "reply" /\ call[r].op = "HeadObject" => seen[r] # None
    /\ pc[r] \in Writing \union {"exists"} /\ call[r].op = "CopyObject" => seen[r] # None

FiredAt(r) ==
    /\ \A o : <<r, o>> \in fired => pc[r] = "ok"
    /\ pc[r] = "ok" =>
          /\ \A o \in Objects : <<r, o>> \in fired <=> o \in Announced(r)
          /\ call[r].op \in WriteOps => r \in applied

EffectAt(r) == TempAt(r) /\ AppliedAt(r) /\ SeenAt(r) /\ FiredAt(r)

EffectInv == \A r \in Requests : EffectAt(r)

LEMMA EffectInit == Init => EffectInv
    BY DEF Init, EffectInv, EffectAt, TempAt, AppliedAt, SeenAt, FiredAt, Writing

\* What a step of r leaves alone of every other request.
LEMMA StepOfOthers ==
    ASSUME TypeInv, NEW r \in Requests, Step(r), NEW q \in Requests \ {r}
    PROVE  /\ pc'[q] = pc[q] /\ tmp'[q] = tmp[q] /\ call'[q] = call[q]
           /\ seen'[q] = seen[q] /\ removed'[q] = removed[q]
           /\ q \in applied' <=> q \in applied
           /\ \A o : <<q, o>> \in fired' <=> <<q, o>> \in fired
    <1>1. pc'[q] = pc[q] /\ tmp'[q] = tmp[q] /\ call'[q] = call[q]
        BY StepFrame
    <1>2. /\ seen'[q] = seen[q] /\ removed'[q] = removed[q]
          /\ q \in applied' <=> q \in applied
          /\ \A o : <<q, o>> \in fired' <=> <<q, o>> \in fired
        BY DEF TypeInv, TypeOK, Step, locals, history,
           MakeBucketDir, InsertBucket, DeleteBucketRow, RemoveBucketDir,
           CheckBucket, CreateTemp, FinishBody, ReadSourceRow, CopySourceFile,
           MakeParentDirs, Rename, InsertRow, DeleteRows, UnlinkFile, Reply, ReadRow, OpenFile
    <1>3. QED
        BY <1>1, <1>2

\* What the request that takes a step has of each.
LEMMA EffectStepSelf ==
    ASSUME TypeInv, NEW r \in Requests, EffectAt(r), Step(r)
    PROVE  EffectAt(r)'
    <1>1. call' = call /\ call[r] \in Calls /\ InFlight(r)
        BY StepFrame
    <1>2. /\ call[r].op \in AllOps
          /\ call[r].op \in WriteOps => call[r].obj \in Objects
          /\ Announced(r) \subseteq Objects
        BY <1>1, CallFields DEF Announced, TypeInv, TypeOK
    <1> USE <1>1, <1>2 DEF TypeInv, TypeOK, Shape, ShapeAt, At, Goto, Steps, Ends,
            database, disk, locals, history, DropTemp, InFlight,
            EffectAt, TempAt, AppliedAt, SeenAt, FiredAt, BeforeEffect, Writing
    <1>3. CASE MakeBucketDir(r)
        BY <1>3 DEF MakeBucketDir
    <1>4. CASE InsertBucket(r)
        BY <1>4 DEF InsertBucket
    <1>5. CASE DeleteBucketRow(r)
        BY <1>5 DEF DeleteBucketRow
    <1>6. CASE RemoveBucketDir(r)
        BY <1>6 DEF RemoveBucketDir, Announced, WriteOps
    <1>7. CASE CheckBucket(r)
        BY <1>7, AfterCheckOp DEF CheckBucket
    <1>8. CASE CreateTemp(r)
        BY <1>8 DEF CreateTemp
    <1>9. CASE FinishBody(r)
        BY <1>9 DEF FinishBody
    <1>10. CASE ReadSourceRow(r)
        BY <1>10 DEF ReadSourceRow
    <1>11. CASE CopySourceFile(r)
        BY <1>11 DEF CopySourceFile
    <1>12. CASE MakeParentDirs(r)
        BY <1>12 DEF MakeParentDirs
    <1>13. CASE Rename(r)
        BY <1>13 DEF Rename
    <1>14. CASE InsertRow(r)
        BY <1>14 DEF InsertRow, WriteOps
    <1>15. CASE DeleteRows(r)
        BY <1>15 DEF DeleteRows
    <1>16. CASE UnlinkFile(r)
        BY <1>16 DEF UnlinkFile
    <1>17. CASE Reply(r)
        BY <1>17 DEF Reply, Announced, WriteOps
    <1>18. CASE ReadRow(r)
        BY <1>18 DEF ReadRow, ReadOps
    <1>19. CASE OpenFile(r)
        BY <1>19 DEF OpenFile, Announced, WriteOps
    <1>20. QED
        BY <1>3, <1>4, <1>5, <1>6, <1>7, <1>8, <1>9, <1>10, <1>11, <1>12, <1>13, <1>14,
           <1>15, <1>16, <1>17, <1>18, <1>19 DEF Step

\* What a request has of each, when others take a step or nobody does.
LEMMA EffectFrame ==
    ASSUME NEW q \in Requests, EffectAt(q),
           pc'[q] = pc[q], tmp'[q] = tmp[q] \/ tmp'[q] = None, call'[q] = call[q],
           seen'[q] = seen[q], removed'[q] = removed[q],
           q \in applied' <=> q \in applied,
           \A o : <<q, o>> \in fired' <=> <<q, o>> \in fired
    PROVE  EffectAt(q)'
    BY DEF EffectAt, TempAt, AppliedAt, SeenAt, FiredAt, Announced

LEMMA EffectStep ==
    ASSUME TypeInv, EffectInv, NEW r \in Requests, Step(r)
    PROVE  EffectInv'
    BY EffectStepSelf, StepOfOthers, EffectFrame DEF EffectInv

LEMMA EffectSend ==
    ASSUME TypeInv, EffectInv, NEW r \in Requests, NEW c \in Calls, Send(r, c)
    PROVE  EffectInv'
    <1>1. \A q \in Requests \ {r} : EffectAt(q)'
        BY EffectFrame DEF Send, EffectInv, TypeInv, TypeOK, Goto, database, disk, locals
    <1>2. EffectAt(r)'
        BY FirstStepOp DEF Send, EffectInv, EffectAt, TempAt, AppliedAt, SeenAt, FiredAt,
           TypeInv, TypeOK, At, Goto, BeforeEffect, Writing, database, disk, locals
    <1>3. QED
        BY <1>1, <1>2 DEF EffectInv

\* A handler cut short by a failed operation removes its temporary file; one
\* that is dropped leaves it, and is not answered.
LEMMA EffectOther ==
    ASSUME TypeInv, EffectInv,
           \/ \E r \in Requests : Fault(r) \/ HangUp(r)
           \/ Crash
           \/ Restart
           \/ Reindex
           \/ UNCHANGED vars
    PROVE  EffectInv'
    <1>1. ASSUME NEW q \in Requests
          PROVE  /\ \/ pc'[q] = pc[q] /\ tmp'[q] = tmp[q]
                    \/ InFlight(q) /\ pc'[q] = "lost"
                    \/ InFlight(q) /\ pc'[q] = "failed" /\ tmp'[q] = None
                 /\ call'[q] = call[q] /\ seen'[q] = seen[q] /\ removed'[q] = removed[q]
                 /\ UNCHANGED <<applied, fired>>
        BY DEF TypeInv, TypeOK, Fault, HangUp, Crash, Restart, Reindex, Goto, DropTemp,
           vars, database, disk, locals, history
    <1>2. ASSUME NEW q \in Requests
          PROVE  EffectAt(q)'
        <2>1. CASE pc'[q] = pc[q] /\ tmp'[q] = tmp[q]
            BY <2>1, <1>1, EffectFrame DEF EffectInv
        <2>2. CASE InFlight(q) /\ (pc'[q] = "lost" \/ (pc'[q] = "failed" /\ tmp'[q] = None))
            BY <2>2, <1>1 DEF EffectInv, EffectAt, TempAt, AppliedAt, SeenAt, FiredAt,
               BeforeEffect, Writing, InFlight, Steps
        <2>3. QED
            BY <1>1, <2>1, <2>2
    <1>3. QED
        BY <1>2 DEF EffectInv

THEOREM EffectsInvariance == Spec => [](TypeInv /\ EffectInv)
    <1>1. TypeInv /\ EffectInv /\ [Next]_vars => EffectInv'
        BY EffectSend, EffectStep, EffectOther DEF Next
    <1>2. QED
        BY <1>1, EffectInit, TypeCorrect, PTL DEF Spec

\* A request that has been answered leaves nothing in .tmp/ (stream_to_temp,
\* put_bytes, copy_object).
THEOREM NoTempLeftAlways == Spec => []NoTempLeft
    <1>1. EffectInv => NoTempLeft
        BY DEF EffectInv, EffectAt, TempAt, NoTempLeft, Ends
    <1>2. QED
        BY <1>1, EffectsInvariance, PTL

\* Every event tells of a change that has happened, and a request answered with
\* success has announced what it changed and nothing else (fire).
THEOREM EventsMatchEffectsAlways == Spec => []EventsMatchEffects
    <1>1. TypeInv /\ EffectInv => EventsMatchEffects
        <2> SUFFICES ASSUME TypeInv, EffectInv, NEW r \in Requests
                     PROVE  /\ (\E o \in Objects : <<r, o>> \in fired) => r \in applied
                            /\ pc[r] = "ok" =>
                                  {o \in Objects : <<r, o>> \in fired} = Announced(r)
            BY DEF EventsMatchEffects, Announced
        <2>1. EffectAt(r)
            BY DEF EffectInv
        <2>2. (\E o \in Objects : <<r, o>> \in fired) => r \in applied
            BY <2>1 DEF EffectAt, FiredAt, AppliedAt, Announced
        <2>3. pc[r] = "ok" => Announced(r) \subseteq Objects
            BY CallFields DEF TypeInv, TypeOK, Shape, ShapeAt, Announced
        <2>4. QED
            BY <2>1, <2>2, <2>3 DEF EffectAt, FiredAt
    <1>2. QED
        BY <1>1, EffectsInvariance, PTL

\* Reindex alters no object that was stored or deleted undisturbed (run).
THEOREM ReindexOnlyAdoptsAlways == Spec => ReindexOnlyAdopts
    <1>1. IInv /\ Reindex => \A o \in Objects \ torn : rows'[o] = rows[o]
        <2> SUFFICES ASSUME IInv, Reindex, NEW o \in Objects \ torn
                     PROVE  rows'[o] = rows[o]
            OBVIOUS
        <2>1. \A r \in Requests : Exposed(r) = {}
            BY ExposedMutates DEF IInv, TypeInv, Reindex
        <2>2. rows[o] = files[o]
            BY <2>1 DEF IInv, Settled
        <2>3. QED
            BY <2>2 DEF Reindex, Orphans
    <1>2. QED
        BY <1>1, Invariance, PTL DEF Spec, ReindexOnlyAdopts

------------------------------------------------------------------------------
(* The handlers implement the catalogue.  Each step of one is a step of     *)
(* Catalogue, the row it writes being the effect, or changes nothing that   *)
(* Catalogue knows of.                                                      *)

\* Catalogue speaks of the same calls and objects.
LEMMA SameCalls ==
    /\ C!Objects = Objects /\ C!Calls = Calls /\ C!ReadOps = ReadOps
    /\ \A b : C!ObjectsIn(b) = ObjectsIn(b)
    /\ \A c : C!Mutates(c) = Mutates(c) /\ C!Reads(c) = Reads(c)
    <1>1. C!Objects = Objects /\ C!ReadOps = ReadOps /\ \A b : C!ObjectsIn(b) = ObjectsIn(b)
        BY DEF C!Objects, Objects, C!ReadOps, ReadOps, C!ObjectsIn, ObjectsIn
    <1>2. C!Calls = Calls
        BY <1>1 DEF C!Calls, Calls, C!AllCalls, AllCalls, C!BucketOps, BucketOps
    <1>3. \A c : C!Mutates(c) = Mutates(c) /\ C!Reads(c) = Reads(c)
        BY <1>1 DEF C!Mutates, Mutates, C!Reads, Reads, C!WriteOps, WriteOps
    <1>4. QED
        BY <1>1, <1>2, <1>3

\* How far r has come, by its step.
LEMMA StageOf ==
    ASSUME NEW r \in Requests
    PROVE  /\ pc[r] \in {"idle", "ok", "refused", "lost"} => stages[r] = pc[r]
           /\ pc[r] \in {"failed", "nobytes"} => stages[r] = "failed"
           /\ InFlight(r) /\ r \in applied => stages[r] = "applied"
           /\ InFlight(r) /\ r \notin applied => stages[r] = "pending"
    BY DEF stages, InFlight, Steps

LEMMA StageOfPrime ==
    ASSUME NEW r \in Requests
    PROVE  /\ pc'[r] \in {"idle", "ok", "refused", "lost"} => stages'[r] = pc'[r]
           /\ pc'[r] \in {"failed", "nobytes"} => stages'[r] = "failed"
           /\ pc'[r] \in Steps /\ r \in applied' => stages'[r] = "applied"
           /\ pc'[r] \in Steps /\ r \notin applied' => stages'[r] = "pending"
    BY DEF stages, InFlight, Steps

LEMMA StageSame ==
    ASSUME TypeInv, NEW q \in Requests, pc'[q] = pc[q], q \in applied' <=> q \in applied
    PROVE  stages'[q] = stages[q]
    <1>1. pc[q] \in {"idle", "ok", "refused", "lost", "failed", "nobytes"} \/ InFlight(q)
        BY DEF TypeInv, TypeOK, Ends, InFlight
    <1>2. QED
        BY <1>1, StageOf, StageOfPrime DEF InFlight

\* stages has a value for each request and for nothing else.
LEMMA StagesFunction ==
    /\ stages = [q \in Requests |-> stages[q]]
    /\ stages' = [q \in Requests |-> stages'[q]]
    BY DEF stages

\* What moves r alone.
LEMMA Moved ==
    ASSUME NEW r \in Requests, \A q \in Requests \ {r} : stages'[q] = stages[q]
    PROVE  stages' = [stages EXCEPT ![r] = stages'[r]]
    BY StagesFunction

LEMMA StepImplements ==
    ASSUME TypeInv, TypeInv', EffectInv, NEW r \in Requests, Step(r)
    PROVE  C!Next \/ UNCHANGED C!vars
    <1>1. \A q \in Requests \ {r} : stages'[q] = stages[q]
        BY StepOfOthers, StageSame
    <1>2. call' = call /\ call[r] \in Calls /\ InFlight(r) /\ EffectAt(r) /\ up
        BY StepFrame DEF EffectInv
    <1>moved. stages' = [stages EXCEPT ![r] = stages'[r]]
        BY <1>1, Moved
    <1>3. ASSUME stages'[r] = stages[r], UNCHANGED <<buckets, rows, seen>>
          PROVE  UNCHANGED C!vars
        <2>1. stages' = stages
            BY <1>moved, <1>3 DEF stages
        <2>2. QED
            BY <1>2, <1>3, <2>1 DEF C!vars
    <1> DEFINE Same == UNCHANGED <<buckets, rows, call, seen>>
    <1>4. ASSUME Same, stages[r] = "pending", stages'[r] = "refused"
          PROVE  C!Next
        BY <1>moved, <1>4, SameCalls DEF C!Next, C!Refuse, C!Move
    <1>5. ASSUME Same, stages[r] \in {"pending", "applied"}, stages'[r] = "failed"
          PROVE  C!Next
        BY <1>moved, <1>5, SameCalls DEF C!Next, C!Fail, C!Move
    <1>6. ASSUME Same, stages[r] = "applied", stages'[r] = "ok"
          PROVE  C!Next
        BY <1>moved, <1>6, SameCalls DEF C!Next, C!Succeed, C!Move
    <1>7. ASSUME Same, stages[r] = "pending", stages'[r] = "ok",
                 call[r].op \in ReadOps, seen[r] # None
          PROVE  C!Next
        BY <1>moved, <1>7, SameCalls DEF C!Next, C!Succeed, C!Move
    <1>8. ASSUME stages[r] = "pending", stages'[r] = "applied", UNCHANGED <<call, seen>>,
                 \/ C!CreateBucket(r) \/ C!DeleteBucket(r) \/ C!PutObject(r)
                 \/ C!CopyObject(r) \/ C!RemoveObjects(r)
          PROVE  C!Next
        BY <1>moved, <1>8, SameCalls DEF C!Next, C!Apply, C!Move
    <1>9. ASSUME stages[r] = "pending", stages'[r] = "pending",
                 NEW o \in Reads(call[r]), rows[o] # None,
                 seen' = [seen EXCEPT ![r] = rows[o]],
                 UNCHANGED <<buckets, rows>>
          PROVE  C!Next
        <2>1. stages' = stages
            BY <1>moved, <1>9 DEF stages
        <2>2. C!Look(r)
            BY <1>2, <1>9, <2>1, SameCalls DEF C!Look
        <2>3. QED
            BY <2>2 DEF C!Next
    <1> USE StageOf, StageOfPrime, SameCalls DEF TypeInv, TypeOK, At, Goto, Steps, InFlight,
            database, disk, locals, history, EffectAt, AppliedAt, SeenAt, BeforeEffect, Writing
    <1>10. CASE MakeBucketDir(r) \/ CreateTemp(r) \/ FinishBody(r) \/ MakeParentDirs(r)
                \/ UnlinkFile(r)
        BY <1>2, <1>3, <1>10, ZenonT(60) DEF MakeBucketDir, CreateTemp, FinishBody, MakeParentDirs, UnlinkFile
    <1>11. CASE InsertBucket(r)
        BY <1>2, <1>4, <1>8, <1>11 DEF InsertBucket, Shape, ShapeAt, C!CreateBucket
    <1>12. CASE DeleteBucketRow(r)
        BY <1>2, <1>4, <1>8, <1>12 DEF DeleteBucketRow, Shape, ShapeAt, C!DeleteBucket
    <1>13. CASE RemoveBucketDir(r)
        BY <1>2, <1>5, <1>6, <1>13 DEF RemoveBucketDir
    <1>14. CASE CheckBucket(r)
        <2>1. pc'[r] \in {"stream", "delrows", "insert", "refused", "stage"}
            BY <1>2, <1>14, AfterCheckOp DEF CheckBucket, Shape, ShapeAt
        <2>2. QED
            BY <1>2, <1>3, <1>4, <1>14, <2>1 DEF CheckBucket
    <1>15. CASE ReadSourceRow(r)
        <2>1. CASE rows[call[r].src] = None
            BY <1>2, <1>4, <1>15, <2>1 DEF ReadSourceRow
        <2>2. CASE rows[call[r].src] # None
            <3>1. call[r].src \in Reads(call[r])
                BY <1>2, <1>15, CallObjects DEF ReadSourceRow, Shape, ShapeAt
            <3>2. stages[r] = "pending" /\ stages'[r] = "pending"
                BY <1>2, <1>15, <2>2 DEF ReadSourceRow
            <3>3. seen' = [seen EXCEPT ![r] = rows[call[r].src]] /\ UNCHANGED <<buckets, rows>>
                BY <1>15 DEF ReadSourceRow
            <3>4. QED
                BY <1>9, <2>2, <3>1, <3>2, <3>3
        <2>3. QED
            BY <2>1, <2>2
    <1>16. CASE CopySourceFile(r)
        BY <1>2, <1>3, <1>5, <1>16 DEF CopySourceFile
    <1>17. CASE Rename(r)
        BY <1>2, <1>3, <1>5, <1>17 DEF Rename
    <1>18. CASE InsertRow(r)
        BY <1>2, <1>8, <1>18, ZenonT(60) DEF InsertRow, EtagOf, WriteOps, Shape, ShapeAt,
           C!PutObject, C!CopyObject
    <1>19. CASE DeleteRows(r)
        BY <1>2, <1>8, <1>19 DEF DeleteRows, Shape, ShapeAt, C!RemoveObjects
    <1>20. CASE Reply(r)
        BY <1>2, <1>6, <1>7, <1>20 DEF Reply, ReadOps
    <1>21. CASE ReadRow(r)
        <2>1. CASE rows[call[r].obj] = None
            BY <1>2, <1>4, <1>21, <2>1 DEF ReadRow
        <2>2. CASE rows[call[r].obj] # None
            <3>1. call[r].obj \in Reads(call[r])
                BY <1>2, <1>21, CallObjects DEF ReadRow, Shape, ShapeAt
            <3>2. stages[r] = "pending" /\ stages'[r] = "pending"
                BY <1>2, <1>21, <2>2 DEF ReadRow
            <3>3. seen' = [seen EXCEPT ![r] = rows[call[r].obj]] /\ UNCHANGED <<buckets, rows>>
                BY <1>21 DEF ReadRow
            <3>4. QED
                BY <1>9, <2>2, <3>1, <3>2, <3>3
        <2>3. QED
            BY <2>1, <2>2
    <1>22. CASE OpenFile(r)
        BY <1>2, <1>5, <1>7, <1>22 DEF OpenFile, Shape, ShapeAt, ReadOps
    <1>23. QED
        BY <1>10, <1>11, <1>12, <1>13, <1>14, <1>15, <1>16, <1>17, <1>18, <1>19, <1>20,
           <1>21, <1>22 DEF Step

LEMMA SendImplements ==
    ASSUME TypeInv, EffectInv, NEW r \in Requests, NEW c \in Calls, Send(r, c)
    PROVE  C!Next
    <1>1. /\ \A q \in Requests \ {r} : pc'[q] = pc[q]
          /\ pc[r] = "idle" /\ pc'[r] \in Steps /\ r \notin applied
          /\ call' = [call EXCEPT ![r] = c]
          /\ UNCHANGED <<buckets, rows, seen, applied>>
        BY FirstStepOp DEF Send, TypeInv, TypeOK, EffectInv, EffectAt, AppliedAt,
           At, Goto, Steps, BeforeEffect, database, locals
    <1>2. \A q \in Requests \ {r} : stages'[q] = stages[q]
        BY <1>1, StageSame
    <1>3. stages[r] = "idle" /\ stages'[r] = "pending"
        BY <1>1, StageOf, StageOfPrime
    <1>4. C!Send(r, c)
        BY <1>1, <1>2, <1>3, Moved DEF C!Send, C!Move
    <1>5. QED
        BY <1>4, SameCalls DEF C!Next

\* Being cut short is to fail or to be lost, before or after the effect.
LEMMA CutImplements ==
    ASSUME TypeInv, NEW r \in Requests, Fault(r) \/ HangUp(r)
    PROVE  C!Next
    <1>1. /\ \A q \in Requests \ {r} : pc'[q] = pc[q]
          /\ InFlight(r) /\ pc'[r] \in {"failed", "lost"}
          /\ UNCHANGED <<buckets, rows, call, seen, applied>>
        BY DEF Fault, HangUp, TypeInv, TypeOK, Goto, database, locals
    <1>2. \A q \in Requests \ {r} : stages'[q] = stages[q]
        BY <1>1, StageSame
    <1>3. stages[r] \in {"pending", "applied"} /\ stages'[r] = pc'[r]
        BY <1>1, StageOf, StageOfPrime
    <1>4. CASE pc'[r] = "failed"
        BY <1>1, <1>2, <1>3, <1>4, Moved DEF C!Next, C!Fail, C!Move
    <1>5. CASE pc'[r] = "lost"
        <2>1. C!Lose({r})
            BY <1>1, <1>2, <1>3, <1>5, StagesFunction DEF C!Lose
        <2>2. QED
            BY <2>1 DEF C!Next
    <1>6. QED
        BY <1>1, <1>4, <1>5

LEMMA CrashImplements ==
    ASSUME TypeInv, Crash
    PROVE  C!Next
    <1> DEFINE Q == {r \in Requests : InFlight(r)}
    <1>1. \A r \in Q : stages[r] \in {"pending", "applied"}
        BY StageOf
    <1>2. ASSUME NEW r \in Requests
          PROVE  stages'[r] = IF r \in Q THEN "lost" ELSE stages[r]
        <2>1. CASE r \in Q
            BY <2>1, StageOfPrime DEF Crash
        <2>2. CASE r \notin Q
            <3>1. pc'[r] = pc[r] /\ applied' = applied
                BY <2>2 DEF Crash
            <3>2. QED
                BY <2>2, <3>1, StageSame
        <2>3. QED
            BY <2>1, <2>2
    <1>3. C!Lose(Q)
        BY <1>1, <1>2, StagesFunction DEF C!Lose, Crash, database, locals
    <1>4. QED
        BY <1>3 DEF C!Next

\* Reindexing adds buckets and objects and alters none.
LEMMA OfflineImplements ==
    ASSUME TypeInv, Restart \/ Reindex \/ UNCHANGED vars
    PROVE  C!Next \/ UNCHANGED C!vars
    <1>1. stages' = stages
        BY DEF Restart, Reindex, vars, history, stages
    <1>2. CASE Restart \/ UNCHANGED vars
        BY <1>1, <1>2 DEF Restart, vars, database, locals, C!vars
    <1>3. CASE Reindex
        <2>1. C!Adopt
            BY <1>1, <1>3, SameCalls DEF Reindex, Orphans, TypeInv, TypeOK, disk, locals, C!Adopt
        <2>2. QED
            BY <2>1 DEF C!Next
    <1>4. QED
        BY <1>2, <1>3

\* Each request has its effect on the catalogue at most once, at one instant
\* before it is answered with success, and none if it is refused (the handlers
\* of store.rs over the single calls of db.rs).
THEOREM StoreImplementsCatalogue == Spec => ImplementsCatalogue
    <1>1. Init => C!Init
        BY SameCalls DEF Init, C!Init, stages
    <1>2. TypeInv /\ EffectInv /\ TypeInv' /\ [Next]_vars => [C!Next]_(C!vars)
        BY StepImplements, SendImplements, CutImplements, CrashImplements,
           OfflineImplements DEF Next
    <1>3. QED
        BY <1>1, <1>2, EffectsInvariance, PTL DEF Spec, ImplementsCatalogue, C!Spec

==============================================================================

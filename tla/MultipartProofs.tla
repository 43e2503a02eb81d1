---------------------------- MODULE MultipartProofs ----------------------------
(***************************************************************************)
(* Theorems about Multipart, for any sets of uploads, parts, objects and   *)
(* handlers.                                                               *)
(***************************************************************************)
EXTENDS Multipart, TLAPS

------------------------------------------------------------------------------
(* The inductive invariant, in parts.                                      *)

\* Which operation a step belongs to: the fields of a call exist only for it.
ShapeAt(h) ==
    /\ Busy(h) => call[h] \in Calls
    /\ pc[h] \in {"bucket", "mkstage", "insert"} => call[h].op = "Create"
    /\ pc[h] = "find" => call[h].op \in {"UploadPart", "Complete", "Abort"}
    /\ pc[h] \in {"receive", "mkdir", "rename", "record"} => call[h].op = "UploadPart"
    /\ pc[h] \in {"validate", "assemble", "place", "commit"} => call[h].op = "Complete"
    /\ pc[h] = "delrows" => call[h].op = "Abort"
    /\ pc[h] \in {"unlink", "rmdir"} => Ends(call[h])
    /\ pc[h] \in {"idle", "find", "validate"} => joined[h] = <<>>
    /\ pc[h] = "assemble" => Len(joined[h]) < Len(selected[h])

TypeInv == TypeOK /\ \A h \in Handlers : ShapeAt(h)

\* Requests that meet know it: both count as raced, what they may spoil is in
\* doubt, and the upload is contested or littered.
MeetAt(g, h) ==
    /\ g \in raced
    /\ Spoiled(call[g], call[h]) \subseteq torn
    /\ Ends(call[g]) /\ Ends(call[h]) /\ call[g].id = call[h].id => call[g].id \in contested
    /\ call[g].op = "UploadPart" /\ Ends(call[h]) => call[g].id \in littered

MeetInv ==
    \A g, h \in Handlers :
        g # h /\ Busy(g) /\ Busy(h) /\ Meets(call[g], call[h]) => MeetAt(g, h)

\* What h wrote last is there, unless another request has put it in doubt.
Sure(h, x) == h \notin raced \/ x \notin torn

StagedAt(h) ==
    /\ pc[h] = "record" =>
          LET p == <<call[h].id, call[h].n>>
          IN Sure(h, p) => partFiles[p] = call[h].body
    /\ pc[h] \in {"unlink", "rmdir"} =>
          \A p \in PartsOf(call[h].id) : Sure(h, p) =>
              /\ partRows[p] = None
              /\ pc[h] = "rmdir" => partFiles[p] = None

PartsInv == PartsSettled /\ \A h \in Handlers : StagedAt(h)

\* How far a Complete has come, when nothing that it uses is in doubt.
Trusted(h) ==
    \/ call[h].obj \notin torn
    \/ h \notin raced /\ ~Tainted(call[h])

Listed(h) == [i \in DOMAIN call[h].list |-> call[h].list[i].etag]

AssembledAt(h) ==
    LET u == call[h].id
        list == call[h].list
    IN /\ pc[h] \in {"find", "validate"} =>
             \A i \in DOMAIN list :
                 LET p == <<u, list[i].n>>
                 IN partRows[p] = None \/ partFiles[p] \in {None, partRows[p]}
       /\ pc[h] \in {"assemble", "place", "commit"} => selected[h] = list
       /\ pc[h] = "assemble" =>
             /\ \A i \in DOMAIN list : partFiles[<<u, list[i].n>>] \in {None, list[i].etag}
             /\ \A i \in DOMAIN joined[h] : joined[h][i] = list[i].etag
       /\ pc[h] \in {"place", "commit"} => joined[h] = Listed(h)
       /\ pc[h] \in {"commit", "unlink", "rmdir"} => files[call[h].obj] = Listed(h)
       /\ pc[h] \in {"unlink", "rmdir"} => rows[call[h].obj] = Listed(h)

CompleteAt(h) ==
    Busy(h) /\ call[h].op = "Complete" /\ Trusted(h) => AssembledAt(h)

ObjectsInv == ObjectsWhole /\ \A h \in Handlers : CompleteAt(h)

\* An upload that somebody has found, completed or aborted has been created, and
\* its id is not minted again.
Created(u) ==
    u \in minted /\ \A h \in Handlers : Busy(h) /\ call[h].op = "Create" => call[h].id # u

MintInv ==
    /\ \A h \in Handlers : Busy(h) /\ call[h].op = "Create" => call[h].id \in minted
    /\ \A g, h \in Handlers :
          g # h /\ Busy(g) /\ Busy(h) /\ call[g].op = "Create" /\ call[h].op = "Create"
              => call[g].id # call[h].id
    /\ \A u \in Uploads : u \in open \/ u \in aborted \/ commits[u] > 0 => Created(u)
    /\ \A h \in Handlers :
          pc[h] \notin {"idle", "bucket", "mkstage", "insert", "find"} => Created(call[h].id)

\* The upload of a request that will end it is open until it does, and over from
\* then on.
EndAt(h) ==
    LET u == call[h].id
    IN /\ pc[h] \in {"validate", "assemble", "place", "commit", "delrows"} =>
             u \in open \/ u \in contested
       /\ pc[h] \in {"unlink", "rmdir"} => u \notin open
       /\ pc[h] \in {"unlink", "rmdir"} /\ call[h].op = "Abort" =>
             commits[u] = 0 \/ u \in contested

EndInv ==
    /\ EndsOnce
    /\ aborted \intersect open = {}
    /\ \A h \in Handlers : EndAt(h)

\* Only an UploadPart that no request to end its upload has met adds a part, and
\* its upload is open.
LitterAt(h) ==
    LET u == call[h].id
    IN /\ pc[h] \in {"receive", "mkdir", "rename", "record"} => u \in open \/ u \in littered
       /\ pc[h] = "rmdir" /\ u \notin littered => \A p \in PartsOf(u) : partFiles[p] = None

LitterInv ==
    /\ NothingLeft
    /\ \A u \in Uploads \ (open \union littered) : \A p \in PartsOf(u) : partRows[p] = None
    /\ \A h \in Handlers : LitterAt(h)
    /\ \A u \in Uploads \ (open \union littered) :
          (\A h \in Handlers : pc[h] \in {"unlink", "rmdir"} => call[h].id # u) =>
              \A p \in PartsOf(u) : partFiles[p] = None

------------------------------------------------------------------------------
(* Calls.                                                                  *)

\* The fields of a call, by its operation.
LEMMA CallFields ==
    ASSUME NEW c \in Calls
    PROVE  /\ c.op \in {"Create", "UploadPart", "Complete", "Abort"}
           /\ c.id \in Uploads
           /\ c.op = "UploadPart" => c.n \in PartNumbers /\ c.body \in Bodies
           /\ c.op = "Complete" =>
                 /\ c.list \in Seq(Entries)
                 /\ \A i \in DOMAIN c.list :
                       c.list[i].n \in PartNumbers /\ c.list[i].etag \in Bodies
                 /\ c.obj \in Objects
    <1>1. c.op = "Complete" => c \in [op : {"Complete"}, id : Uploads, list : Submissions, obj : Objects]
        BY DEF Calls
    <1>2. c.op = "UploadPart" => c.n \in PartNumbers /\ c.body \in Bodies
        BY DEF Calls
    <1>3. c.op \in {"Create", "UploadPart", "Complete", "Abort"} /\ c.id \in Uploads
        BY DEF Calls
    <1>4. \A s \in Seq(Entries) : \A i \in DOMAIN s : s[i].n \in PartNumbers /\ s[i].etag \in Bodies
        <2> SUFFICES ASSUME NEW s \in Seq(Entries), NEW i \in DOMAIN s
                     PROVE  s[i].n \in PartNumbers /\ s[i].etag \in Bodies
            OBVIOUS
        <2>1. s[i] \in Entries
            OBVIOUS
        <2>2. QED
            BY <2>1 DEF Entries
    <1>5. QED
        BY <1>1, <1>2, <1>3, <1>4, SubmissionsAssumption

\* What a call changes, by its operation.
LEMMA CallObjects ==
    ASSUME NEW c \in Calls
    PROVE  /\ c.op = "Create" => Ours(c) = {} /\ Target(c) = {}
           /\ c.op = "UploadPart" => Ours(c) = {<<c.id, c.n>>} /\ Target(c) = {}
           /\ c.op = "Complete" => Ours(c) = PartsOf(c.id) /\ Target(c) = {c.obj}
           /\ c.op = "Abort" => Ours(c) = PartsOf(c.id) /\ Target(c) = {}
           /\ Ours(c) \subseteq Parts
           /\ Target(c) \subseteq Objects
           /\ Ours(c) \intersect Objects = {} /\ Target(c) \intersect Parts = {}
    <1>1. /\ c.op = "Create" => Ours(c) = {} /\ Target(c) = {}
          /\ c.op = "UploadPart" => Ours(c) = {<<c.id, c.n>>} /\ Target(c) = {}
          /\ c.op = "Complete" => Ours(c) = PartsOf(c.id) /\ Target(c) = {c.obj}
          /\ c.op = "Abort" => Ours(c) = PartsOf(c.id) /\ Target(c) = {}
        BY DEF Ours, Target, Ends
    <1>2. c.id \in Uploads => PartsOf(c.id) \subseteq Parts
        BY DEF PartsOf, Parts
    <1>3. Ours(c) \subseteq Parts /\ Target(c) \subseteq Objects
        BY <1>1, <1>2, CallFields DEF Parts
    <1>4. Objects \intersect Parts = {}
        BY NamesAssumption DEF Parts
    <1>5. QED
        BY <1>1, <1>3, <1>4

LEMMA MeetsSymmetric ==
    ASSUME NEW c, NEW d, Meets(c, d)
    PROVE  Meets(d, c)
    BY DEF Meets

\* Two requests that end one upload meet, and so do an UploadPart and a request
\* that ends its upload, over the part.
LEMMA MeetOverParts ==
    ASSUME NEW c \in Calls, NEW d \in Calls, c.id = d.id, Ends(c)
    PROVE  /\ Ends(d) => Meets(c, d)
           /\ d.op = "UploadPart" => Meets(c, d) /\ <<d.id, d.n>> \in Spoiled(c, d)
    <1>1. Ours(c) = PartsOf(c.id)
        BY CallObjects DEF Ends
    <1>2. Ends(d) => Ours(d) = PartsOf(c.id)
        BY CallObjects DEF Ends
    <1>3. PartsOf(c.id) # {}
        <2>1. PICK n \in PartNumbers : TRUE
            BY NamesAssumption
        <2>2. <<c.id, n>> \in PartsOf(c.id)
            BY DEF PartsOf
        <2>3. QED
            BY <2>2
    <1>4. d.op = "UploadPart" => Ours(d) = {<<d.id, d.n>>} /\ <<d.id, d.n>> \in PartsOf(c.id)
        BY CallObjects, CallFields DEF PartsOf
    <1>5. QED
        BY <1>1, <1>2, <1>3, <1>4 DEF Meets, Mutates, Spoiled

------------------------------------------------------------------------------
(* Types.                                                                  *)

LEMMA TypeInit == Init => TypeInv
    <1> SUFFICES ASSUME Init PROVE TypeInv
        OBVIOUS
    <1>1. rows \in [Objects -> Contents \union {None}]
        <2>1. <<>> \in Contents
            BY DEF Contents
        <2>2. {None, <<>>} \subseteq Contents \union {None}
            BY <2>1
        <2>3. rows \in [Objects -> {None, <<>>}]
            BY DEF Init
        <2>4. QED
            BY <2>2, <2>3, Zenon
    <1>2. <<>> \in Seq(Entries) /\ <<>> \in Contents
        BY DEF Contents
    <1>3. TypeOK
        BY <1>1, <1>2 DEF Init, TypeOK
    <1>4. \A h \in Handlers : ShapeAt(h)
        BY DEF Init, ShapeAt, Busy
    <1>5. QED
        BY <1>3, <1>4 DEF TypeInv

LEMMA TypeSend ==
    ASSUME TypeInv, NEW h \in Handlers, NEW c \in Calls, Send(h, c)
    PROVE  TypeInv'
    <1>1. \A d \in Met(c) : d \in Calls
        BY DEF Met, TypeInv, ShapeAt
    <1>2. \A d \in Met(c) : Spoiled(c, d) \subseteq Parts \union Objects
        BY <1>1, CallObjects DEF Spoiled
    <1>3. Target(c) \subseteq Parts \union Objects
        BY CallObjects
    <1>4. torn' \subseteq Parts \union Objects
        BY <1>2, <1>3 DEF Send, TypeInv, TypeOK
    <1>5. \A d \in Met(c) : d.id \in Uploads
        BY <1>1, CallFields
    <1>6. contested' \subseteq Uploads /\ littered' \subseteq Uploads
        BY <1>5 DEF Send, TypeInv, TypeOK
    <1>7. FirstStep(c) \in Steps /\ c.id \in Uploads
        BY CallFields DEF FirstStep, Steps
    <1>8. TypeOK'
        BY <1>4, <1>6, <1>7 DEF Send, TypeInv, TypeOK, database, disk, outcome
    <1>9. ShapeAt(h)'
        BY CallFields DEF Send, TypeInv, TypeOK, ShapeAt, Busy, FirstStep
    <1>10. \A g \in Handlers \ {h} : ShapeAt(g)'
        BY DEF Send, TypeInv, TypeOK, ShapeAt, Busy
    <1>11. QED
        BY <1>8, <1>9, <1>10 DEF TypeInv

\* What a handler does, and how it may be cut short.
Move(h) == Step(h) \/ Cut(h)

\* A handler either goes on, with its call and without a word to the others, or it
\* ends, and takes out of doubt only what no other request has met it over.
GoesOn(h) ==
    /\ Busy(h)'
    /\ UNCHANGED <<call, history>>

Stops(h) ==
    /\ ~Busy(h)'
    /\ call' = [call EXCEPT ![h] = None]
    /\ selected'[h] = <<>> /\ joined'[h] = <<>>
    /\ raced' = raced \ {h}
    /\ contested' = contested
    /\ littered \subseteq littered'
    /\ torn' \subseteq torn \union Exposed(h)
    /\ \A x \in torn \ torn' :
          /\ h \notin raced
          /\ x \in Mutates(call[h])
          /\ Tainted(call[h]) => x \in Ours(call[h])

LEMMA MoveFrame ==
    ASSUME TypeInv, NEW h \in Handlers, Move(h)
    PROVE  /\ Busy(h) /\ call[h] \in Calls
           /\ minted' = minted
           /\ \A g \in Handlers \ {h} :
                 /\ pc'[g] = pc[g] /\ call'[g] = call[g]
                 /\ selected'[g] = selected[g] /\ joined'[g] = joined[g]
                 /\ g \in raced' <=> g \in raced
           /\ GoesOn(h) \/ Stops(h)
    <1> USE DEF TypeInv, TypeOK, Busy
    <1>1. Busy(h) /\ call[h] \in Calls
        BY DEF Move, Step, Cut, ShapeAt, CheckBucket, MakeStagingDir, InsertUpload, FindUpload,
           ReceivePart, MakePartDir, RenamePart, RecordPart, Validate, AssemblePart, PlaceObject,
           Commit, DeleteUploadRows, UnlinkPart, RemoveStagingDir
    <1> DEFINE Frame ==
            /\ minted' = minted
            /\ \A g \in Handlers \ {h} :
                  /\ pc'[g] = pc[g] /\ call'[g] = call[g]
                  /\ selected'[g] = selected[g] /\ joined'[g] = joined[g]
                  /\ g \in raced' <=> g \in raced
    <1>2. ASSUME NEW D, End(h, D), littered \subseteq littered', D \subseteq torn \union Exposed(h),
                 \A x \in torn \ D : h \notin raced /\ x \in Mutates(call[h])
                                        /\ (Tainted(call[h]) => x \in Ours(call[h]))
          PROVE  Frame /\ Stops(h)
        BY <1>2 DEF End, Stops
    <1>3. Refuse(h) => Frame /\ Stops(h)
        BY <1>2 DEF Refuse
    <1>4. Finish(h) => Frame /\ Stops(h)
        <2>1. Repaired(h) \subseteq torn \union Exposed(h)
            BY DEF Repaired
        <2>2. \A x \in torn \ Repaired(h) : h \notin raced /\ x \in Mutates(call[h])
                                              /\ (Tainted(call[h]) => x \in Ours(call[h]))
            BY DEF Repaired, Mutates
        <2>3. QED
            BY <1>2, <2>1, <2>2 DEF Finish
    <1>5. Cut(h) => Frame /\ Stops(h)
        BY <1>2 DEF Cut
    <1>6. ASSUME NEW s \in Steps, Goto(h, s)
          PROVE  Frame /\ GoesOn(h)
        BY <1>6 DEF Goto, GoesOn, Steps, history
    <1> HIDE DEF Frame
    <1>7. ASSUME Step(h) PROVE Frame /\ (GoesOn(h) \/ Stops(h))
        <2> USE DEF Steps
        <2>1. CASE CheckBucket(h)
            BY <1>1, <1>3, <1>6, <2>1 DEF CheckBucket
        <2>2. CASE MakeStagingDir(h)
            BY <1>1, <1>6, <2>2 DEF MakeStagingDir
        <2>3. CASE InsertUpload(h)
            BY <1>1, <1>4, <2>3 DEF InsertUpload
        <2>4. CASE FindUpload(h)
            <3>1. AfterFind(call[h]) \in Steps
                BY <1>1, <2>4, CallFields DEF AfterFind, ShapeAt, FindUpload
            <3>2. QED
                BY <1>1, <1>3, <1>6, <2>4, <3>1 DEF FindUpload
        <2>5. CASE ReceivePart(h)
            BY <1>1, <1>6, <2>5 DEF ReceivePart
        <2>6. CASE MakePartDir(h)
            BY <1>1, <1>6, <2>6 DEF MakePartDir
        <2>7. CASE RenamePart(h)
            BY <1>1, <1>3, <1>6, <2>7 DEF RenamePart
        <2>8. CASE RecordPart(h)
            BY <1>1, <1>4, <2>8 DEF RecordPart
        <2>9. CASE Validate(h)
            BY <1>1, <1>3, <2>9 DEF Validate, GoesOn, Frame, history
        <2>10. CASE AssemblePart(h)
            BY <1>1, <1>3, <2>10 DEF AssemblePart, GoesOn, Frame, history
        <2>11. CASE PlaceObject(h)
            BY <1>1, <1>6, <2>11 DEF PlaceObject
        <2>12. CASE Commit(h)
            BY <1>1, <1>6, <2>12 DEF Commit
        <2>13. CASE DeleteUploadRows(h)
            BY <1>1, <1>6, <2>13 DEF DeleteUploadRows
        <2>14. CASE UnlinkPart(h)
            <3>1. CASE UNCHANGED <<minted, handlers, history>>
                BY <1>1, <3>1 DEF handlers, Frame, GoesOn, history
            <3>2. CASE Goto(h, "rmdir")
                BY <1>1, <1>6, <3>2
            <3>3. QED
                BY <2>14, <3>1, <3>2 DEF UnlinkPart
        <2>15. CASE RemoveStagingDir(h)
            BY <1>1, <1>4, <2>15 DEF RemoveStagingDir
        <2>16. QED
            BY <1>7, <2>1, <2>2, <2>3, <2>4, <2>5, <2>6, <2>7, <2>8, <2>9, <2>10, <2>11,
               <2>12, <2>13, <2>14, <2>15 DEF Step
    <1>8. QED
        BY <1>1, <1>5, <1>7 DEF Move, Frame

LEMMA EndStops ==
    ASSUME TypeInv, NEW h \in Handlers, Move(h), \E D : End(h, D)
    PROVE  Stops(h)
    <1>1. ~Busy(h)'
        BY DEF End, Busy, TypeInv, TypeOK
    <1>2. QED
        BY <1>1, MoveFrame DEF GoesOn

\* The parts that are selected are those that the client lists.
LEMMA SelectsList ==
    ASSUME TypeInv, NEW c \in Calls, c.op = "Complete", Recorded(c.id, c.list)
    PROVE  [i \in DOMAIN c.list |-> [n |-> c.list[i].n, etag |-> partRows[<<c.id, c.list[i].n>>]]]
              = c.list
    <1>1. c.list \in Seq(Entries)
        BY CallFields
    <1>2. \A i \in DOMAIN c.list :
              [n |-> c.list[i].n, etag |-> partRows[<<c.id, c.list[i].n>>]] = c.list[i]
        <2> SUFFICES ASSUME NEW i \in DOMAIN c.list
                     PROVE [n |-> c.list[i].n, etag |-> partRows[<<c.id, c.list[i].n>>]] = c.list[i]
            OBVIOUS
        <2>1. c.list[i] \in Entries
            BY <1>1
        <2>2. partRows[<<c.id, c.list[i].n>>] = c.list[i].etag
            BY DEF Recorded
        <2>3. QED
            BY <2>1, <2>2 DEF Entries
    <1>3. c.list = [i \in DOMAIN c.list |-> c.list[i]]
        BY <1>1
    <1>4. QED
        BY <1>2, <1>3

\* The composite of a list is a content of its length.
LEMMA CompositeContent ==
    ASSUME NEW s \in Seq(Entries)
    PROVE  /\ Composite(s) \in Contents
           /\ Len(Composite(s)) = Len(s)
           /\ DOMAIN Composite(s) = DOMAIN s
    <1>1. \A i \in 1..Len(s) : s[i].etag \in Bodies
        <2>1. \A i \in 1..Len(s) : s[i] \in Entries
            OBVIOUS
        <2>2. QED
            BY <2>1 DEF Entries
    <1>2. DOMAIN s = 1..Len(s) /\ Len(s) \in Nat
        OBVIOUS
    <1>3. Composite(s) \in [1..Len(s) -> Bodies]
        BY <1>1, <1>2 DEF Composite
    <1>4. QED
        BY <1>2, <1>3 DEF Contents

\* What Stops leaves has its types.
LEMMA TypeStop ==
    ASSUME TypeInv, NEW h \in Handlers, Move(h), Stops(h),
           open' \subseteq Uploads,
           partRows' \in [Parts -> Bodies \union {None}],
           rows' \in [Objects -> Contents \union {None}],
           staged' \subseteq Uploads,
           partFiles' \in [Parts -> Bodies \union {None}],
           files' \in [Objects -> Contents \union {None}],
           commits' \in [Uploads -> 0..2], aborted' \subseteq Uploads,
           littered' \subseteq littered \union {call[h].id},
           \E D : End(h, D)
    PROVE  TypeInv'
    <1>1. call[h] \in Calls /\ minted' = minted
        BY MoveFrame
    <1>2. Exposed(h) \subseteq Parts \union Objects
        <2>1. pc[h] = "record" => Exposed(h) = {<<call[h].id, call[h].n>>} /\ call[h].op = "UploadPart"
            BY DEF Exposed, TypeInv, ShapeAt
        <2>2. pc[h] = "commit" => Exposed(h) = {call[h].obj} /\ call[h].op = "Complete"
            BY DEF Exposed, TypeInv, ShapeAt
        <2>3. pc[h] \in {"unlink", "rmdir"} => Exposed(h) = Ours(call[h])
            BY DEF Exposed
        <2>4. pc[h] \notin {"record", "commit", "unlink", "rmdir"} => Exposed(h) = {}
            BY DEF Exposed
        <2>5. QED
            BY <1>1, <2>1, <2>2, <2>3, <2>4, CallFields, CallObjects DEF Parts
    <1>3. call[h].id \in Uploads
        BY <1>1, CallFields
    <1>4. <<>> \in Seq(Entries) /\ <<>> \in Contents
        BY DEF Contents
    <1>5. PICK D : End(h, D)
        OBVIOUS
    <1>6. pc' \in [Handlers -> {"idle"} \union Steps] /\ call' \in [Handlers -> Calls \union {None}]
        BY <1>5 DEF End, TypeInv, TypeOK
    <1>7. selected' \in [Handlers -> Seq(Entries)] /\ joined' \in [Handlers -> Contents]
        BY <1>4, <1>5 DEF End, TypeInv, TypeOK
    <1>8. TypeOK'
        BY <1>1, <1>2, <1>3, <1>6, <1>7 DEF Stops, TypeInv, TypeOK
    <1>9. ShapeAt(h)'
        BY DEF Stops, ShapeAt, Busy
    <1>10. \A g \in Handlers \ {h} : ShapeAt(g)'
        BY MoveFrame DEF TypeInv, ShapeAt, Busy
    <1>11. QED
        BY <1>8, <1>9, <1>10 DEF TypeInv

\* So does what GoesOn leaves, with a step of the call's operation.
LEMMA TypeGo ==
    ASSUME TypeInv, NEW h \in Handlers, Move(h), GoesOn(h),
           open' \subseteq Uploads,
           partRows' \in [Parts -> Bodies \union {None}],
           rows' \in [Objects -> Contents \union {None}],
           staged' \subseteq Uploads,
           partFiles' \in [Parts -> Bodies \union {None}],
           files' \in [Objects -> Contents \union {None}],
           commits' \in [Uploads -> 0..2], aborted' \subseteq Uploads,
           pc' \in [Handlers -> {"idle"} \union Steps],
           selected' \in [Handlers -> Seq(Entries)],
           joined' \in [Handlers -> Contents],
           ShapeAt(h)'
    PROVE  TypeInv'
    <1>1. minted' = minted
        BY MoveFrame
    <1>2. TypeOK'
        BY <1>1 DEF GoesOn, history, TypeInv, TypeOK
    <1>3. \A g \in Handlers \ {h} : ShapeAt(g)'
        <2> SUFFICES ASSUME NEW g \in Handlers \ {h} PROVE ShapeAt(g)'
            OBVIOUS
        <2>1. /\ pc'[g] = pc[g] /\ call'[g] = call[g]
              /\ selected'[g] = selected[g] /\ joined'[g] = joined[g]
            BY MoveFrame
        <2>2. ShapeAt(g)
            BY DEF TypeInv
        <2>3. QED
            BY <2>1, <2>2 DEF ShapeAt, Busy, Ends
    <1>4. QED
        BY <1>2, <1>3 DEF TypeInv

LEMMA TypeMove ==
    ASSUME TypeInv, NEW h \in Handlers, Move(h)
    PROVE  TypeInv'
    <1>1. Busy(h) /\ call[h] \in Calls
        BY MoveFrame
    <1>2. call[h].id \in Uploads
        BY <1>1, CallFields
    <1> DEFINE DatabaseOK ==
                   /\ open' \subseteq Uploads
                   /\ partRows' \in [Parts -> Bodies \union {None}]
                   /\ rows' \in [Objects -> Contents \union {None}]
               DiskOK ==
                   /\ staged' \subseteq Uploads
                   /\ partFiles' \in [Parts -> Bodies \union {None}]
                   /\ files' \in [Objects -> Contents \union {None}]
               OutcomeOK == commits' \in [Uploads -> 0..2] /\ aborted' \subseteq Uploads
    <1>3. ASSUME NEW s \in Steps, Goto(h, s)
          PROVE  /\ pc' \in [Handlers -> {"idle"} \union Steps] /\ pc'[h] = s
                 /\ selected' \in [Handlers -> Seq(Entries)] /\ joined' \in [Handlers -> Contents]
                 /\ selected' = selected /\ joined' = joined /\ call' = call
                 /\ GoesOn(h)
        BY <1>3 DEF Goto, GoesOn, TypeInv, TypeOK, Busy, Steps, history
    <1>4. Refuse(h) => littered' = littered /\ (\E D : End(h, D)) /\ Stops(h)
        BY EndStops DEF Refuse
    <1>5. Finish(h) => littered' = littered /\ (\E D : End(h, D)) /\ Stops(h)
        BY EndStops DEF Finish
    <1>6. ASSUME DatabaseOK, DiskOK, OutcomeOK, Refuse(h) \/ Finish(h)
          PROVE  TypeInv'
        BY <1>4, <1>5, <1>6, TypeStop
    <1>7. ASSUME DatabaseOK, DiskOK, OutcomeOK, NEW s \in Steps, Goto(h, s), ShapeAt(h)'
          PROVE  TypeInv'
        BY <1>3, <1>7, TypeGo
    <1>8. UNCHANGED database => DatabaseOK
        BY DEF database, TypeInv, TypeOK
    <1>9. UNCHANGED disk => DiskOK
        BY DEF disk, TypeInv, TypeOK
    <1>10. UNCHANGED outcome => OutcomeOK
        BY DEF outcome, TypeInv, TypeOK
    <1>11. Cut(h) => TypeInv'
        <2> SUFFICES ASSUME Cut(h) PROVE TypeInv'
            OBVIOUS
        <2>1. Leftover(h) \subseteq {call[h].id}
            BY DEF Leftover
        <2>2. \E D : End(h, D)
            BY DEF Cut
        <2>3. Stops(h)
            BY <2>2, EndStops
        <2>4. DatabaseOK /\ DiskOK /\ OutcomeOK
            BY <1>8, <1>9, <1>10 DEF Cut
        <2>5. littered' \subseteq littered \union {call[h].id}
            BY <2>1 DEF Cut
        <2>6. QED
            BY <2>2, <2>3, <2>4, <2>5, TypeStop
    <1> HIDE DEF DatabaseOK, DiskOK, OutcomeOK
    <1>12. ASSUME Step(h) PROVE TypeInv'
        <2>1. CASE CheckBucket(h)
            <3>1. Goto(h, "mkstage") => ShapeAt(h)'
                BY <1>1, <1>3, <2>1 DEF CheckBucket, Steps, TypeInv, ShapeAt, Busy
            <3>2. QED
                BY <1>6, <1>7, <1>8, <1>9, <1>10, <2>1, <3>1 DEF CheckBucket, Steps
        <2>2. CASE MakeStagingDir(h)
            <3>1. ShapeAt(h)'
                BY <1>1, <1>3, <2>2 DEF MakeStagingDir, Steps, TypeInv, ShapeAt, Busy
            <3>2. DiskOK
                BY <1>2, <2>2 DEF MakeStagingDir, DiskOK, TypeInv, TypeOK
            <3>3. QED
                BY <1>7, <1>8, <1>10, <2>2, <3>1, <3>2 DEF MakeStagingDir, Steps
        <2>3. CASE InsertUpload(h)
            <3>1. DatabaseOK
                BY <1>2, <2>3 DEF InsertUpload, DatabaseOK, TypeInv, TypeOK
            <3>2. QED
                BY <1>6, <1>9, <1>10, <2>3, <3>1 DEF InsertUpload
        <2>4. CASE FindUpload(h)
            <3>1. /\ call[h].op = "UploadPart" => AfterFind(call[h]) = "receive"
                  /\ call[h].op = "Complete" => AfterFind(call[h]) = "validate"
                  /\ call[h].op = "Abort" => AfterFind(call[h]) = "delrows"
                BY DEF AfterFind
            <3>2. call[h].op \in {"UploadPart", "Complete", "Abort"} /\ joined[h] = <<>>
                BY <2>4 DEF FindUpload, TypeInv, ShapeAt
            <3>3. AfterFind(call[h]) \in Steps
                BY <3>1, <3>2 DEF Steps
            <3>4. Goto(h, AfterFind(call[h])) => ShapeAt(h)'
                BY <1>1, <1>3, <3>1, <3>2, <3>3 DEF ShapeAt
            <3>5. QED
                BY <1>6, <1>7, <1>8, <1>9, <1>10, <2>4, <3>3, <3>4 DEF FindUpload
        <2>5. CASE ReceivePart(h)
            <3>1. ShapeAt(h)'
                BY <1>1, <1>3, <2>5 DEF ReceivePart, Steps, TypeInv, ShapeAt, Busy
            <3>2. QED
                BY <1>7, <1>8, <1>9, <1>10, <2>5, <3>1 DEF ReceivePart, Steps
        <2>6. CASE MakePartDir(h)
            <3>1. ShapeAt(h)'
                BY <1>1, <1>3, <2>6 DEF MakePartDir, Steps, TypeInv, ShapeAt, Busy
            <3>2. DiskOK
                BY <1>2, <2>6 DEF MakePartDir, DiskOK, TypeInv, TypeOK
            <3>3. QED
                BY <1>7, <1>8, <1>10, <2>6, <3>1, <3>2 DEF MakePartDir, Steps
        <2>7. CASE RenamePart(h)
            <3>1. call[h].op = "UploadPart" /\ call[h].body \in Bodies
                BY <1>1, <2>7, CallFields DEF RenamePart, TypeInv, ShapeAt
            <3>2. DiskOK
                BY <2>7, <3>1 DEF RenamePart, DiskOK, TypeInv, TypeOK
            <3>3. Goto(h, "record") => ShapeAt(h)'
                BY <1>1, <1>3, <3>1 DEF Steps, ShapeAt
            <3>4. QED
                BY <1>6, <1>7, <1>8, <1>10, <2>7, <3>2, <3>3 DEF RenamePart, Steps
        <2>8. CASE RecordPart(h)
            <3>1. call[h].op = "UploadPart" /\ call[h].body \in Bodies
                BY <1>1, <2>8, CallFields DEF RecordPart, TypeInv, ShapeAt
            <3>2. DatabaseOK
                BY <2>8, <3>1 DEF RecordPart, DatabaseOK, TypeInv, TypeOK
            <3>3. QED
                BY <1>6, <1>9, <1>10, <2>8, <3>2 DEF RecordPart
        <2>9. CASE Validate(h)
            <3>1. call[h].op = "Complete" /\ call[h].list \in Seq(Entries) /\ joined[h] = <<>>
                BY <1>1, <2>9, CallFields DEF Validate, TypeInv, ShapeAt
            <3>2. CASE Refuse(h)
                BY <1>6, <1>8, <1>9, <1>10, <2>9, <3>2 DEF Validate
            <3>3. CASE ~Refuse(h)
                <4>1. Recorded(call[h].id, call[h].list) /\ call[h].list # <<>>
                    BY <2>9, <3>3 DEF Validate
                <4>2. /\ selected' = [selected EXCEPT ![h] = call[h].list]
                      /\ pc' = [pc EXCEPT ![h] = "assemble"]
                      /\ UNCHANGED <<minted, call, joined, history>>
                    BY <1>1, <2>9, <3>1, <3>3, <4>1, SelectsList DEF Validate
                <4>3. GoesOn(h)
                    BY <4>2 DEF GoesOn, Busy, TypeInv, TypeOK
                <4>4. Len(call[h].list) > 0
                    BY <3>1, <4>1
                <4>5. Len(<<>>) = 0
                    OBVIOUS
                <4>6. ShapeAt(h)'
                    BY <1>1, <3>1, <4>2, <4>4, <4>5 DEF TypeInv, TypeOK, ShapeAt
                <4>7. /\ pc' \in [Handlers -> {"idle"} \union Steps]
                      /\ selected' \in [Handlers -> Seq(Entries)]
                      /\ joined' \in [Handlers -> Contents]
                    BY <3>1, <4>2 DEF TypeInv, TypeOK, Steps
                <4>8. DatabaseOK /\ DiskOK /\ OutcomeOK
                    BY <1>8, <1>9, <1>10, <2>9 DEF Validate
                <4>9. QED
                    BY <4>3, <4>6, <4>7, <4>8, TypeGo DEF DatabaseOK, DiskOK, OutcomeOK
            <3>4. QED
                BY <3>2, <3>3
        <2>10. CASE AssemblePart(h)
            <3>1. /\ call[h].op = "Complete" /\ Len(joined[h]) < Len(selected[h])
                  /\ joined[h] \in Contents /\ selected[h] \in Seq(Entries)
                  /\ pc[h] = "assemble"
                BY <1>1, <2>10 DEF AssemblePart, TypeInv, TypeOK, ShapeAt
            <3>2. CASE Refuse(h)
                BY <1>6, <1>8, <1>9, <1>10, <2>10, <3>2 DEF AssemblePart
            <3>3. CASE ~Refuse(h)
                <4> DEFINE next == Len(joined[h]) + 1
                           found == partFiles[<<call[h].id, selected[h][next].n>>]
                <4>1. /\ found # None
                      /\ joined' = [joined EXCEPT ![h] = Append(@, found)]
                      /\ pc' = [pc EXCEPT ![h] = IF AllJoined(h, next) THEN "place" ELSE @]
                      /\ UNCHANGED <<minted, call, selected, history>>
                    BY <2>10, <3>3 DEF AssemblePart
                <4>2. GoesOn(h)
                    BY <1>1, <3>1, <4>1 DEF GoesOn, Busy, TypeInv, TypeOK
                <4>3. next \in 1..Len(selected[h]) /\ Len(joined[h]) \in Nat
                    BY <3>1 DEF Contents
                <4>4. selected[h][next].n \in PartNumbers
                    <5>1. selected[h][next] \in Entries
                        BY <3>1, <4>3
                    <5>2. QED
                        BY <5>1 DEF Entries
                <4>5. found \in Bodies
                    BY <1>2, <4>1, <4>4 DEF TypeInv, TypeOK, Parts
                <4>6. joined'[h] \in Contents /\ Len(joined'[h]) = next
                    BY <3>1, <4>1, <4>5 DEF Contents, TypeInv, TypeOK
                <4>7. \/ pc'[h] = "place"
                      \/ pc'[h] = "assemble" /\ next < Len(selected[h])
                    <5>1. pc'[h] = IF next = Len(selected[h]) THEN "place" ELSE "assemble"
                        BY <3>1, <4>1 DEF AllJoined, TypeInv, TypeOK
                    <5>2. Len(selected[h]) \in Nat
                        BY <3>1
                    <5>3. QED
                        BY <4>3, <5>1, <5>2
                <4>8. ShapeAt(h)'
                    BY <1>1, <3>1, <4>1, <4>6, <4>7 DEF TypeInv, ShapeAt
                <4>9. /\ pc' \in [Handlers -> {"idle"} \union Steps]
                      /\ selected' \in [Handlers -> Seq(Entries)]
                      /\ joined' \in [Handlers -> Contents]
                    BY <4>1, <4>6 DEF TypeInv, TypeOK, Steps
                <4>10. DatabaseOK /\ DiskOK /\ OutcomeOK
                    BY <1>8, <1>9, <1>10, <2>10 DEF AssemblePart
                <4>11. QED
                    BY <4>2, <4>8, <4>9, <4>10, TypeGo DEF DatabaseOK, DiskOK, OutcomeOK
            <3>4. QED
                BY <3>2, <3>3
        <2>11. CASE PlaceObject(h)
            <3>1. call[h].op = "Complete" /\ joined[h] \in Contents
                BY <1>1, <2>11 DEF PlaceObject, TypeInv, TypeOK, ShapeAt
            <3>2. DiskOK
                BY <2>11, <3>1 DEF PlaceObject, DiskOK, TypeInv, TypeOK
            <3>3. ShapeAt(h)'
                BY <1>1, <1>3, <2>11, <3>1 DEF PlaceObject, Steps, ShapeAt
            <3>4. QED
                BY <1>7, <1>8, <1>10, <2>11, <3>2, <3>3 DEF PlaceObject, Steps
        <2>12. CASE Commit(h)
            <3>1. call[h].op = "Complete" /\ call[h].obj \in Objects
                BY <1>1, <2>12, CallFields DEF Commit, TypeInv, ShapeAt
            <3>2. Composite(selected[h]) \in Contents
                BY CompositeContent DEF TypeInv, TypeOK
            <3>3. DatabaseOK
                BY <2>12, <3>1, <3>2 DEF Commit, UploadGoes, PartsGo, DatabaseOK, TypeInv, TypeOK
            <3>4. OutcomeOK
                BY <1>2, <2>12 DEF Commit, OutcomeOK, TypeInv, TypeOK
            <3>5. ShapeAt(h)'
                BY <1>1, <1>3, <2>12, <3>1 DEF Commit, Steps, ShapeAt, Ends
            <3>6. QED
                BY <1>7, <1>9, <2>12, <3>3, <3>4, <3>5 DEF Commit, Steps
        <2>13. CASE DeleteUploadRows(h)
            <3>1. DatabaseOK
                BY <2>13 DEF DeleteUploadRows, UploadGoes, PartsGo, DatabaseOK, TypeInv, TypeOK
            <3>2. ShapeAt(h)'
                BY <1>1, <1>3, <2>13 DEF DeleteUploadRows, Steps, TypeInv, ShapeAt, Ends
            <3>3. QED
                BY <1>7, <1>9, <1>10, <2>13, <3>1, <3>2 DEF DeleteUploadRows, Steps
        <2>14. CASE UnlinkPart(h)
            <3>1. DatabaseOK /\ OutcomeOK
                BY <1>8, <1>10, <2>14 DEF UnlinkPart
            <3>2. DiskOK
                BY <2>14 DEF UnlinkPart, DiskOK, TypeInv, TypeOK
            <3>3. CASE Goto(h, "rmdir")
                <4>1. ShapeAt(h)'
                    BY <1>1, <1>3, <2>14, <3>3 DEF UnlinkPart, Steps, TypeInv, ShapeAt, Ends
                <4>2. QED
                    BY <1>7, <3>1, <3>2, <3>3, <4>1 DEF Steps
            <3>4. CASE UNCHANGED <<minted, handlers, history>>
                <4>1. UNCHANGED <<call, pc, selected, joined>> /\ GoesOn(h)
                    BY <1>1, <3>4 DEF handlers, GoesOn, Busy
                <4>2. ShapeAt(h)'
                    BY <4>1 DEF TypeInv, ShapeAt, Busy, Ends
                <4>3. QED
                    BY <3>1, <3>2, <4>1, <4>2, TypeGo
                       DEF DatabaseOK, DiskOK, OutcomeOK, TypeInv, TypeOK
            <3>5. QED
                BY <2>14, <3>3, <3>4 DEF UnlinkPart
        <2>15. CASE RemoveStagingDir(h)
            <3>1. DiskOK /\ OutcomeOK
                BY <1>2, <2>15 DEF RemoveStagingDir, DiskOK, OutcomeOK, TypeInv, TypeOK
            <3>2. QED
                BY <1>6, <1>8, <2>15, <3>1 DEF RemoveStagingDir
        <2>16. QED
            BY <1>12, <2>1, <2>2, <2>3, <2>4, <2>5, <2>6, <2>7, <2>8, <2>9, <2>10, <2>11,
               <2>12, <2>13, <2>14, <2>15 DEF Step
    <1>13. QED
        BY <1>11, <1>12 DEF Move

------------------------------------------------------------------------------
(* Requests that meet.                                                     *)

LEMMA SpoiledSymmetric ==
    ASSUME NEW c, NEW d
    PROVE  Spoiled(c, d) = Spoiled(d, c)
    BY DEF Spoiled

\* What a meeting may spoil is something that one of the two changes.
LEMMA SpoiledIsMutated ==
    ASSUME NEW c, NEW d, NEW x \in Spoiled(c, d)
    PROVE  x \in Mutates(c) \/ x \in Mutates(d)
    BY DEF Spoiled, Mutates

\* Nothing that a request changes comes out of doubt while it is in progress.
LEMMA DoubtRemains ==
    ASSUME TypeInv, MeetInv, NEW k \in Handlers, Move(k),
           NEW h \in Handlers \ {k}, Busy(h), NEW x \in Mutates(call[h]), x \in torn
    PROVE  x \in torn'
    <1>1. Busy(k) /\ (GoesOn(k) \/ Stops(k))
        BY MoveFrame
    <1>2. CASE GoesOn(k)
        BY <1>2 DEF GoesOn, history
    <1>3. CASE Stops(k)
        <2> SUFFICES ASSUME x \notin torn' PROVE FALSE
            OBVIOUS
        <2>1. k \notin raced /\ x \in Mutates(call[k])
            BY <1>3 DEF Stops
        <2>2. Meets(call[k], call[h])
            BY <2>1 DEF Meets
        <2>3. QED
            BY <1>1, <2>1, <2>2 DEF MeetInv, MeetAt
    <1>4. QED
        BY <1>1, <1>2, <1>3

LEMMA MeetSend ==
    ASSUME TypeInv, MeetInv, NEW k \in Handlers, NEW c \in Calls, Send(k, c)
    PROVE  MeetInv'
    <1> SUFFICES ASSUME NEW g \in Handlers, NEW h \in Handlers, g # h,
                        Busy(g)', Busy(h)', Meets(call'[g], call'[h])
                 PROVE  MeetAt(g, h)'
        BY DEF MeetInv, Meets, Mutates, Ours, Target, Ends
    <1>1. /\ call'[k] = c
          /\ \A f \in Handlers \ {k} : call'[f] = call[f] /\ (Busy(f)' => Busy(f))
          /\ raced \subseteq raced' /\ torn \subseteq torn'
          /\ contested \subseteq contested' /\ littered \subseteq littered'
        BY DEF Send, TypeInv, TypeOK, Busy
    <1>2. ASSUME NEW f \in Handlers \ {k}, Busy(f), Meets(c, call[f])
          PROVE  /\ f \in raced' /\ k \in raced'
                 /\ Spoiled(c, call[f]) \subseteq torn'
                 /\ Ends(c) /\ Ends(call[f]) => call[f].id \in contested'
                 /\ "UploadPart" \in {c.op, call[f].op} /\ (Ends(c) \/ Ends(call[f]))
                       => call[f].id \in littered'
        <2>1. call[f] \in Met(c)
            BY <1>2 DEF Met
        <2>2. f \in raced' /\ k \in raced'
            BY <1>2, <2>1 DEF Send
        <2>3. Spoiled(c, call[f]) \subseteq torn'
            BY <2>1 DEF Send
        <2>4. Ends(c) /\ Ends(call[f]) => call[f].id \in contested'
            BY <2>1 DEF Send
        <2>5. "UploadPart" \in {c.op, call[f].op} /\ (Ends(c) \/ Ends(call[f]))
                 => call[f].id \in littered'
            BY <2>1 DEF Send
        <2>6. QED
            BY <2>2, <2>3, <2>4, <2>5
    <1>3. ASSUME NEW d \in Calls, NEW e \in Calls, d.op = "UploadPart", Ends(e), Meets(d, e)
          PROVE  d.id = e.id
        BY <1>3, CallObjects, CallFields DEF Meets, Mutates, Ends, PartsOf
    <1>4. CASE g = k
        <2>1. h # k /\ Busy(h) /\ call'[h] = call[h] /\ call[h] \in Calls
            BY <1>1, <1>4 DEF TypeInv, ShapeAt
        <2>2. QED
            BY <1>1, <1>2, <1>3, <1>4, <2>1 DEF MeetAt, Spoiled, Ours, Target, Ends
    <1>5. CASE h = k
        <2>1. g # k /\ Busy(g) /\ call'[g] = call[g] /\ call[g] \in Calls
            BY <1>1, <1>5 DEF TypeInv, ShapeAt
        <2>2. Meets(c, call[g]) /\ Spoiled(c, call[g]) = Spoiled(call[g], c)
            BY <1>1, <1>5, <2>1, MeetsSymmetric, SpoiledSymmetric
        <2>3. QED
            BY <1>1, <1>2, <1>5, <2>1, <2>2 DEF MeetAt, Spoiled, Ours, Target, Ends
    <1>6. CASE g # k /\ h # k
        <2>1. MeetAt(g, h)
            BY <1>1, <1>6 DEF MeetInv
        <2>2. QED
            BY <1>1, <1>6, <2>1 DEF MeetAt, Spoiled, Ours, Target, Ends
    <1>7. QED
        BY <1>4, <1>5, <1>6

LEMMA MeetMove ==
    ASSUME TypeInv, MeetInv, NEW k \in Handlers, Move(k)
    PROVE  MeetInv'
    <1> SUFFICES ASSUME NEW g \in Handlers, NEW h \in Handlers, g # h,
                        Busy(g)', Busy(h)', Meets(call'[g], call'[h])
                 PROVE  MeetAt(g, h)'
        BY DEF MeetInv, Meets, Mutates, Ours, Target, Ends
    <1>1. GoesOn(k) \/ Stops(k)
        BY MoveFrame
    <1>2. \A f \in Handlers : Busy(f)' =>
              Busy(f) /\ call'[f] = call[f] /\ (f \in raced => f \in raced')
        BY MoveFrame, <1>1 DEF GoesOn, Stops, Busy, history
    <1>3. MeetAt(g, h)
        BY <1>2 DEF MeetInv
    <1>4. Spoiled(call[g], call[h]) \subseteq torn'
        <2>1. CASE GoesOn(k)
            BY <1>3, <2>1 DEF MeetAt, GoesOn, history
        <2>2. CASE Stops(k)
            <3>1. k # g /\ k # h
                BY <2>2 DEF Stops
            <3>2. \A x \in Spoiled(call[g], call[h]) : x \in torn'
                BY <1>2, <1>3, <3>1, DoubtRemains, SpoiledIsMutated DEF MeetAt
            <3>3. QED
                BY <3>2
        <2>3. QED
            BY <1>1, <2>1, <2>2
    <1>5. contested \subseteq contested' /\ littered \subseteq littered'
        BY <1>1 DEF GoesOn, Stops, history
    <1>6. QED
        BY <1>2, <1>3, <1>4, <1>5 DEF MeetAt, Spoiled, Ours, Target, Ends

------------------------------------------------------------------------------
(* The parts: rows and files.                                              *)

\* What h would leave inconsistent, by its step.
LEMMA ExposedAt ==
    ASSUME TypeInv, NEW h \in Handlers
    PROVE  /\ pc[h] = "record" => Exposed(h) = {<<call[h].id, call[h].n>>}
           /\ pc[h] = "commit" => Exposed(h) = {call[h].obj} /\ call[h].obj \in Objects
           /\ pc[h] \in {"unlink", "rmdir"} => Exposed(h) = PartsOf(call[h].id)
           /\ pc[h] \notin {"record", "commit", "unlink", "rmdir"} => Exposed(h) = {}
    <1>1. Busy(h) => call[h] \in Calls
        BY DEF TypeInv, ShapeAt
    <1>2. pc[h] \in {"unlink", "rmdir"} => Exposed(h) = Ours(call[h]) /\ Ours(call[h]) = PartsOf(call[h].id)
        BY <1>1, CallObjects DEF TypeInv, ShapeAt, Exposed, Ends, Busy
    <1>3. pc[h] = "commit" => call[h].obj \in Objects
        BY <1>1, CallFields DEF TypeInv, ShapeAt, Busy
    <1>4. QED
        BY <1>2, <1>3 DEF Exposed

\* A step changes only parts of its own call, and a request that ends an upload
\* only takes them away.
LEMMA PartWrites ==
    ASSUME TypeInv, NEW k \in Handlers, Move(k), NEW p \in Parts,
           partRows'[p] # partRows[p] \/ partFiles'[p] # partFiles[p]
    PROVE  /\ p \in Ours(call[k])
           /\ \/ call[k].op = "UploadPart"
              \/ /\ partRows'[p] # partRows[p] => partRows'[p] = None
                 /\ partFiles'[p] # partFiles[p] => partFiles'[p] = None
    <1>1. call[k] \in Calls
        BY MoveFrame
    <1>2. CASE RenamePart(k)
        BY <1>1, <1>2, CallObjects DEF RenamePart, database, TypeInv, TypeOK, ShapeAt
    <1>3. CASE RecordPart(k)
        BY <1>1, <1>3, CallObjects DEF RecordPart, disk, TypeInv, TypeOK, ShapeAt
    <1>4. CASE Commit(k) \/ DeleteUploadRows(k)
        <2>1. Ours(call[k]) = PartsOf(call[k].id)
            BY <1>1, <1>4, CallObjects DEF Commit, DeleteUploadRows, TypeInv, ShapeAt
        <2>2. partFiles' = partFiles /\ PartsGo(call[k].id)
            BY <1>4 DEF Commit, DeleteUploadRows, disk
        <2>3. p[1] = call[k].id /\ partRows'[p] = None
            BY <2>2 DEF PartsGo
        <2>4. p \in PartsOf(call[k].id)
            BY <2>3 DEF Parts, PartsOf
        <2>5. QED
            BY <2>1, <2>2, <2>3, <2>4
    <1>5. CASE UnlinkPart(k)
        <2>1. Ours(call[k]) = PartsOf(call[k].id)
            BY <1>1, <1>5, CallObjects DEF UnlinkPart, TypeInv, ShapeAt, Ends
        <2>2. QED
            BY <1>5, <2>1 DEF UnlinkPart, database, TypeInv, TypeOK
    <1>6. CASE ~(RenamePart(k) \/ RecordPart(k) \/ Commit(k) \/ DeleteUploadRows(k) \/ UnlinkPart(k))
        BY <1>6 DEF Move, Step, Cut, CheckBucket, MakeStagingDir, InsertUpload, FindUpload,
           ReceivePart, MakePartDir, Validate, AssemblePart, PlaceObject, RemoveStagingDir,
           database, disk
    <1>7. QED
        BY <1>2, <1>3, <1>4, <1>5, <1>6

\* Over a part of both, an UploadPart and another request are not sure.
LEMMA NotSure ==
    ASSUME TypeInv, MeetInv, NEW g \in Handlers, NEW h \in Handlers, g # h,
           Busy(g), Busy(h), NEW p \in Ours(call[g]) \intersect Ours(call[h]),
           "UploadPart" \in {call[g].op, call[h].op}
    PROVE  ~Sure(h, p)
    <1>1. Meets(call[h], call[g]) /\ p \in Spoiled(call[h], call[g])
        BY DEF Meets, Mutates, Spoiled
    <1>2. QED
        BY <1>1 DEF MeetInv, MeetAt, Sure

LEMMA PartsInit == Init => PartsInv
    BY DEF Init, PartsInv, PartsSettled, StagedAt

LEMMA PartsSend ==
    ASSUME TypeInv, PartsInv, NEW k \in Handlers, NEW c \in Calls, Send(k, c)
    PROVE  PartsInv'
    <1>1. /\ UNCHANGED <<partRows, partFiles>> /\ torn \subseteq torn' /\ raced \subseteq raced'
          /\ pc[k] = "idle" /\ pc'[k] \in {"bucket", "find"}
          /\ \A h \in Handlers \ {k} : pc'[h] = pc[h] /\ call'[h] = call[h]
        BY DEF Send, TypeInv, TypeOK, database, disk, FirstStep
    <1>2. \A h \in Handlers \ {k} : Exposed(h)' = Exposed(h)
        BY <1>1 DEF Exposed, Ours, Ends
    <1>3. Exposed(k) = {}
        BY <1>1, ExposedAt
    <1>4. \A x : Pending(x) => Pending(x)'
        BY <1>2, <1>3 DEF Pending
    <1>5. PartsSettled'
        BY <1>1, <1>4 DEF PartsInv, PartsSettled
    <1>6. \A h \in Handlers : StagedAt(h)'
        BY <1>1 DEF PartsInv, StagedAt, Sure, PartsOf
    <1>7. QED
        BY <1>5, <1>6 DEF PartsInv

\* A handler's own progress.
LEMMA StagedOwn ==
    ASSUME TypeInv, PartsInv, NEW k \in Handlers, Move(k)
    PROVE  StagedAt(k)'
    <1>1. Busy(k) /\ call[k] \in Calls /\ (GoesOn(k) \/ Stops(k))
        BY MoveFrame
    <1>2. CASE RenamePart(k)
        <2>1. call[k].op = "UploadPart"
            BY <1>2 DEF RenamePart, TypeInv, ShapeAt
        <2>2. <<call[k].id, call[k].n>> \in Parts
            BY <1>1, <2>1, CallFields DEF Parts
        <2>3. QED
            BY <1>2, <2>2 DEF RenamePart, Goto, Refuse, End, StagedAt, TypeInv, TypeOK
    <1>3. CASE Commit(k) \/ DeleteUploadRows(k)
        <2>1. pc'[k] = "unlink" /\ call'[k] = call[k] /\ PartsGo(call[k].id)
            BY <1>3 DEF Commit, DeleteUploadRows, Goto, TypeInv, TypeOK
        <2>2. \A p \in PartsOf(call[k].id) : p \in Parts /\ p[1] = call[k].id
            BY <1>1, CallFields DEF Parts, PartsOf
        <2>3. QED
            BY <2>1, <2>2 DEF StagedAt, PartsGo, PartsOf
    <1>4. CASE UnlinkPart(k)
        <2>1. /\ pc[k] = "unlink" /\ call' = call /\ UNCHANGED <<partRows, raced, torn>>
              /\ pc'[k] = "rmdir" => \A p \in PartsOf(call[k].id) : partFiles'[p] = None
              /\ pc'[k] \in {"unlink", "rmdir"}
            BY <1>4 DEF UnlinkPart, Goto, handlers, history, database, TypeInv, TypeOK
        <2>2. QED
            BY <2>1 DEF StagedAt, PartsInv, Sure, PartsOf
    <1>5. CASE ~(RenamePart(k) \/ Commit(k) \/ DeleteUploadRows(k) \/ UnlinkPart(k))
        <2>1. pc'[k] \notin {"record", "unlink", "rmdir"}
            <3>1. call[k].op \in {"UploadPart", "Complete", "Abort"} =>
                      AfterFind(call[k]) \in {"receive", "validate", "delrows"}
                BY DEF AfterFind
            <3>2. pc[k] = "find" => call[k].op \in {"UploadPart", "Complete", "Abort"}
                BY DEF TypeInv, ShapeAt
            <3>3. QED
                BY <1>5, <3>1, <3>2
                   DEF Move, Step, Cut, CheckBucket, MakeStagingDir, InsertUpload, FindUpload,
                   ReceivePart, MakePartDir, RecordPart, Validate, AssemblePart, PlaceObject,
                   RemoveStagingDir, Goto, Finish, Refuse, End, TypeInv, TypeOK
        <2>2. QED
            BY <2>1 DEF StagedAt
    <1>6. QED
        BY <1>2, <1>3, <1>4, <1>5

\* What another handler has come to stays as it is, where it is sure.
LEMMA StagedOthers ==
    ASSUME TypeInv, MeetInv, PartsInv, NEW k \in Handlers, Move(k), NEW h \in Handlers \ {k}
    PROVE  StagedAt(h)'
    <1>1. /\ Busy(k) /\ call[k] \in Calls
          /\ pc'[h] = pc[h] /\ call'[h] = call[h] /\ (h \in raced' <=> h \in raced)
        BY MoveFrame
    <1>2. ASSUME Busy(h), NEW p \in Ours(call[h]), Sure(h, p)'
          PROVE  Sure(h, p)
        BY <1>1, <1>2, DoubtRemains DEF Sure, Mutates
    <1>3. ASSUME Busy(h), NEW p \in Ours(call[h]) \intersect Parts, Sure(h, p),
                 partRows'[p] # partRows[p] \/ partFiles'[p] # partFiles[p]
          PROVE  /\ call[h].op # "UploadPart"
                 /\ partRows'[p] # partRows[p] => partRows'[p] = None
                 /\ partFiles'[p] # partFiles[p] => partFiles'[p] = None
        <2>1. p \in Ours(call[k]) \intersect Ours(call[h])
            BY <1>3, PartWrites
        <2>2. "UploadPart" \notin {call[k].op, call[h].op}
            BY <1>1, <1>3, <2>1, NotSure
        <2>3. QED
            BY <1>3, <2>2, PartWrites
    <1>4. StagedAt(h) /\ ShapeAt(h) /\ (Busy(h) => call[h] \in Calls)
        BY DEF PartsInv, TypeInv, ShapeAt
    <1>5. CASE pc[h] = "record"
        <2> DEFINE p == <<call[h].id, call[h].n>>
        <2>1. Busy(h) /\ call[h].op = "UploadPart" /\ p \in Ours(call[h]) \intersect Parts
            BY <1>4, <1>5, CallObjects DEF ShapeAt, Busy
        <2>2. Sure(h, p)' => partFiles'[p] = call[h].body
            <3> SUFFICES ASSUME Sure(h, p)' PROVE partFiles'[p] = call[h].body
                OBVIOUS
            <3>1. Sure(h, p)
                BY <1>1, <1>2, <2>1
            <3>2. partFiles[p] = call[h].body
                BY <1>4, <1>5, <3>1 DEF StagedAt
            <3>3. partFiles'[p] = partFiles[p]
                BY <1>3, <2>1, <3>1
            <3>4. QED
                BY <3>2, <3>3
        <2>3. QED
            BY <1>1, <1>5, <2>2 DEF StagedAt, Sure
    <1>6. CASE pc[h] \in {"unlink", "rmdir"}
        <2>1. Busy(h) /\ Ours(call[h]) = PartsOf(call[h].id) /\ Ours(call[h]) \subseteq Parts
            BY <1>4, <1>6, CallObjects DEF ShapeAt, Busy, Ends
        <2> SUFFICES ASSUME NEW p \in PartsOf(call[h].id), Sure(h, p)'
                     PROVE  partRows'[p] = None /\ (pc[h] = "rmdir" => partFiles'[p] = None)
            BY <1>1, <1>6 DEF StagedAt, PartsOf, Sure
        <2>2. Sure(h, p)
            BY <1>1, <1>2, <2>1
        <2>3. partRows[p] = None /\ (pc[h] = "rmdir" => partFiles[p] = None)
            BY <1>4, <1>6, <2>2 DEF StagedAt
        <2>4. QED
            BY <1>3, <2>1, <2>2, <2>3
    <1>7. QED
        BY <1>1, <1>5, <1>6 DEF StagedAt

LEMMA PartsMove ==
    ASSUME TypeInv, MeetInv, PartsInv, NEW k \in Handlers, Move(k)
    PROVE  PartsInv'
    <1>1. Busy(k) /\ call[k] \in Calls
        BY MoveFrame
    <1>2. \A h \in Handlers \ {k} : Exposed(h)' = Exposed(h)
        BY MoveFrame DEF Exposed, Ours, Ends
    <1>3. \A p \in Parts : ~Pending(p)' => ~Pending(p) \/ p \in Exposed(k)
        BY <1>2 DEF Pending
    <1>4. StagedAt(k) /\ ShapeAt(k)
        BY DEF PartsInv, TypeInv
    <1>5. Objects \intersect Parts = {}
        BY NamesAssumption DEF Parts
    <1>6. ASSUME NEW p \in Parts \ torn', ~Pending(p)' PROVE partRows'[p] = partFiles'[p]
        <2>1. CASE p \notin torn /\ p \notin Exposed(k) /\ partRows'[p] = partRows[p]
                   /\ partFiles'[p] = partFiles[p]
            BY <1>3, <1>6, <2>1 DEF PartsInv, PartsSettled
        <2>2. CASE RecordPart(k)
            <3>1. Exposed(k) = {<<call[k].id, call[k].n>>} /\ Mutates(call[k]) = Exposed(k)
                BY <1>1, <1>4, <2>2, ExposedAt, CallObjects DEF RecordPart, ShapeAt, Mutates
            <3>2. torn' = Repaired(k)
                BY <2>2 DEF RecordPart, Finish, End
            <3>3. CASE p = <<call[k].id, call[k].n>>
                <4>1. Sure(k, p)
                    BY <1>6, <3>2 DEF Sure, Repaired
                <4>2. partFiles[p] = call[k].body /\ partFiles' = partFiles
                    BY <1>4, <2>2, <3>3, <4>1 DEF StagedAt, RecordPart, disk
                <4>3. partRows'[p] = call[k].body
                    BY <2>2, <3>3 DEF RecordPart, TypeInv, TypeOK
                <4>4. QED
                    BY <4>2, <4>3
            <3>4. CASE p # <<call[k].id, call[k].n>>
                <4>1. p \notin Mutates(call[k])
                    BY <3>1, <3>4
                <4>2. p \notin Ours(call[k])
                    BY <4>1 DEF Mutates
                <4>3. p \notin torn
                    BY <1>6, <3>2, <4>1, <4>2 DEF Repaired
                <4>4. partRows'[p] = partRows[p] /\ partFiles'[p] = partFiles[p]
                    BY <4>2, PartWrites
                <4>5. QED
                    BY <2>1, <3>1, <4>1, <4>3, <4>4
            <3>5. QED
                BY <3>3, <3>4
        <2>3. CASE RemoveStagingDir(k)
            <3>1. Exposed(k) = PartsOf(call[k].id) /\ Ours(call[k]) = PartsOf(call[k].id)
                BY <1>1, <1>4, <2>3, ExposedAt, CallObjects DEF RemoveStagingDir, ShapeAt, Ends
            <3>2. torn' = Repaired(k) /\ UNCHANGED <<partRows, partFiles>>
                BY <2>3 DEF RemoveStagingDir, Finish, End, database
            <3>3. CASE p \in PartsOf(call[k].id)
                <4>1. Sure(k, p)
                    BY <1>6, <3>2 DEF Sure, Repaired
                <4>2. partRows[p] = None /\ partFiles[p] = None
                    BY <1>4, <2>3, <3>3, <4>1 DEF StagedAt, RemoveStagingDir
                <4>3. QED
                    BY <3>2, <4>2
            <3>4. CASE p \notin PartsOf(call[k].id)
                <4>1. p \notin Mutates(call[k])
                    BY <1>1, <3>1, <3>4, CallObjects DEF Mutates
                <4>2. p \notin torn
                    BY <1>6, <3>1, <3>2, <3>4, <4>1 DEF Repaired
                <4>3. QED
                    BY <2>1, <3>1, <3>2, <3>4, <4>2
            <3>5. QED
                BY <3>3, <3>4
        <2>4. CASE Cut(k)
            <3>1. p \notin torn /\ p \notin Exposed(k) /\ UNCHANGED <<partRows, partFiles>>
                BY <1>6, <2>4 DEF Cut, End, database, disk
            <3>2. QED
                BY <2>1, <3>1
        <2>5. CASE Step(k) /\ ~RecordPart(k) /\ ~RemoveStagingDir(k)
            <3>1. p \notin torn
                <4>1. CASE InsertUpload(k)
                    <5>1. Mutates(call[k]) = {} /\ Ours(call[k]) = {}
                        BY <1>1, <1>4, <4>1, CallObjects DEF InsertUpload, ShapeAt, Mutates
                    <5>2. QED
                        BY <1>6, <4>1, <5>1 DEF InsertUpload, Finish, End, Repaired
                <4>2. CASE ~InsertUpload(k)
                    BY <1>6, <2>5, <4>2 DEF Step, CheckBucket, MakeStagingDir, FindUpload,
                       ReceivePart, MakePartDir, RenamePart, Validate, AssemblePart, PlaceObject,
                       Commit, DeleteUploadRows, UnlinkPart, Goto, Refuse, End, history
                <4>3. QED
                    BY <4>1, <4>2
            <3>2. p \notin Exposed(k)
                <4>1. CASE UnlinkPart(k)
                    <5>1. pc[k] = "unlink" /\ pc'[k] \in {"unlink", "rmdir"} /\ call' = call
                        BY <4>1 DEF UnlinkPart, Goto, handlers, TypeInv, TypeOK
                    <5>2. Exposed(k)' = Exposed(k)
                        BY <5>1 DEF Exposed, Ours, Ends
                    <5>3. QED
                        BY <1>6, <5>2 DEF Pending
                <4>2. CASE Commit(k)
                    BY <1>5, <4>2, ExposedAt DEF Commit
                <4>3. CASE ~UnlinkPart(k) /\ ~Commit(k)
                    <5>1. pc[k] \notin {"record", "commit", "unlink", "rmdir"}
                        BY <2>5, <4>3 DEF Step, CheckBucket, MakeStagingDir, FindUpload, InsertUpload,
                           ReceivePart, MakePartDir, RenamePart, Validate, AssemblePart, PlaceObject,
                           DeleteUploadRows
                    <5>2. QED
                        BY <5>1, ExposedAt
                <4>4. QED
                    BY <4>1, <4>2, <4>3
            <3>3. partRows'[p] = partRows[p] /\ partFiles'[p] = partFiles[p]
                <4>1. CASE RenamePart(k)
                    <5>1. CASE Refuse(k)
                        BY <4>1, <5>1 DEF RenamePart, database, Refuse, End, Goto, TypeInv, TypeOK
                    <5>2. CASE Goto(k, "record")
                        <6>1. pc'[k] = "record" /\ call' = call
                            BY <5>2 DEF Goto, TypeInv, TypeOK
                        <6>2. Exposed(k)' = {<<call[k].id, call[k].n>>}
                            BY <6>1 DEF Exposed
                        <6>3. p # <<call[k].id, call[k].n>>
                            BY <1>6, <6>2 DEF Pending
                        <6>4. QED
                            BY <4>1, <6>3 DEF RenamePart, database, TypeInv, TypeOK
                    <5>3. QED
                        BY <4>1, <5>1, <5>2 DEF RenamePart
                <4>2. CASE Commit(k) \/ DeleteUploadRows(k) \/ UnlinkPart(k)
                    <5>1. pc'[k] \in {"unlink", "rmdir"} /\ call' = call
                        BY <4>2 DEF Commit, DeleteUploadRows, UnlinkPart, Goto, handlers, TypeInv, TypeOK
                    <5>2. Exposed(k)' = Ours(call[k])
                        BY <5>1 DEF Exposed, Ours, Ends
                    <5>3. p \notin Ours(call[k])
                        BY <1>6, <5>2 DEF Pending
                    <5>4. QED
                        BY <5>3, PartWrites
                <4>3. CASE ~(RenamePart(k) \/ Commit(k) \/ DeleteUploadRows(k) \/ UnlinkPart(k))
                    BY <2>5, <4>3 DEF Step, CheckBucket, MakeStagingDir, InsertUpload, FindUpload,
                       ReceivePart, MakePartDir, Validate, AssemblePart, PlaceObject, database, disk
                <4>4. QED
                    BY <4>1, <4>2, <4>3
            <3>4. QED
                BY <2>1, <3>1, <3>2, <3>3
        <2>6. QED
            BY <2>2, <2>3, <2>4, <2>5 DEF Move
    <1>7. PartsSettled'
        BY <1>6 DEF PartsSettled
    <1>8. QED
        BY <1>7, StagedOwn, StagedOthers DEF PartsInv

------------------------------------------------------------------------------
(* The objects.                                                            *)

\* A step changes only the object of its own Complete.
LEMMA ObjectWrites ==
    ASSUME TypeInv, NEW k \in Handlers, Move(k), NEW o \in Objects,
           rows'[o] # rows[o] \/ files'[o] # files[o]
    PROVE  call[k].op = "Complete" /\ o = call[k].obj
    <1>1. CASE PlaceObject(k)
        BY <1>1 DEF PlaceObject, database, TypeInv, TypeOK, ShapeAt
    <1>2. CASE Commit(k)
        BY <1>2 DEF Commit, disk, TypeInv, TypeOK, ShapeAt
    <1>3. CASE ~(PlaceObject(k) \/ Commit(k))
        BY <1>3 DEF Move, Step, Cut, CheckBucket, MakeStagingDir, InsertUpload, FindUpload,
           ReceivePart, MakePartDir, RenamePart, RecordPart, Validate, AssemblePart,
           DeleteUploadRows, UnlinkPart, RemoveStagingDir, database, disk
    <1>4. QED
        BY <1>1, <1>2, <1>3

\* A Complete is not trusted beside an UploadPart to its upload, nor beside a
\* Complete to its object.
LEMMA NotTrusted ==
    ASSUME TypeInv, MeetInv, NEW g \in Handlers, NEW h \in Handlers, g # h,
           Busy(g), Busy(h), call[h].op = "Complete",
           \/ call[g].op = "UploadPart" /\ call[g].id = call[h].id
           \/ call[g].op = "Complete" /\ call[g].obj = call[h].obj
    PROVE  ~Trusted(h)
    <1>1. call[g] \in Calls /\ call[h] \in Calls
        BY DEF TypeInv, ShapeAt
    <1>2. Target(call[h]) = {call[h].obj}
        BY <1>1, CallObjects
    <1>3. Meets(call[h], call[g]) /\ call[h].obj \in Spoiled(call[h], call[g])
        <2>1. CASE call[g].op = "UploadPart" /\ call[g].id = call[h].id
            BY <1>1, <1>2, <2>1, MeetOverParts DEF Spoiled, Ends
        <2>2. CASE call[g].op = "Complete" /\ call[g].obj = call[h].obj
            BY <1>1, <1>2, <2>2, CallObjects DEF Spoiled, Meets, Mutates
        <2>3. QED
            BY <2>1, <2>2
    <1>4. QED
        BY <1>3 DEF MeetInv, MeetAt, Trusted

LEMMA ObjectsInit == Init => ObjectsInv
    BY DEF Init, ObjectsInv, ObjectsWhole, CompleteAt, Busy

LEMMA ObjectsSend ==
    ASSUME TypeInv, PartsInv, ObjectsInv,
           NEW k \in Handlers, NEW c \in Calls, Send(k, c)
    PROVE  ObjectsInv'
    <1>1. /\ UNCHANGED <<partRows, partFiles, rows, files, selected, joined>>
          /\ torn \subseteq torn' /\ raced \subseteq raced'
          /\ pc[k] = "idle" /\ pc'[k] \in {"bucket", "find"} /\ call'[k] = c
          /\ \A h \in Handlers \ {k} : pc'[h] = pc[h] /\ call'[h] = call[h]
        BY DEF Send, TypeInv, TypeOK, database, disk, FirstStep
    <1>2. \A h \in Handlers \ {k} : Exposed(h)' = Exposed(h)
        BY <1>1 DEF Exposed, Ours, Ends
    <1>3. Exposed(k) = {}
        BY <1>1, ExposedAt
    <1>4. \A x : Pending(x) => Pending(x)'
        BY <1>2, <1>3 DEF Pending
    <1>5. ObjectsWhole'
        BY <1>1, <1>4 DEF ObjectsInv, ObjectsWhole
    <1>6. ASSUME NEW h \in Handlers \ {k} PROVE CompleteAt(h)'
        <2>1. CompleteAt(h)
            BY DEF ObjectsInv
        <2>2. Busy(h)' /\ call'[h].op = "Complete" /\ Trusted(h)' => Trusted(h)
            BY <1>1 DEF Trusted, Tainted
        <2>3. QED
            BY <1>1, <2>1, <2>2 DEF CompleteAt, AssembledAt, Listed, Busy
    <1>7. CompleteAt(k)'
        <2> SUFFICES ASSUME c.op = "Complete", Trusted(k)' PROVE AssembledAt(k)'
            BY <1>1 DEF CompleteAt
        <2>1. \A i \in DOMAIN c.list : <<c.id, c.list[i].n>> \in Parts \ torn
            <3>1. \A i \in DOMAIN c.list : <<c.id, c.list[i].n>> \in Parts
                BY CallFields DEF Parts
            <3>2. Tainted(c) => c.obj \in torn'
                BY CallObjects DEF Send
            <3>3. ~Tainted(c)
                BY <1>1, <3>2 DEF Trusted, Tainted
            <3>4. QED
                BY <3>1, <3>3 DEF Tainted
        <2>2. ASSUME NEW i \in DOMAIN c.list, Pending(<<c.id, c.list[i].n>>)
              PROVE  partRows[<<c.id, c.list[i].n>>] = None
            <3> DEFINE p == <<c.id, c.list[i].n>>
            <3>1. PICK h \in Handlers : p \in Exposed(h)
                BY <2>2 DEF Pending
            <3>2. h # k /\ call'[h] = call[h] /\ pc'[h] = pc[h]
                BY <1>1, <1>3, <3>1
            <3>3. p \in Parts \ torn
                BY <2>1
            <3>4. pc[h] \notin {"commit"} /\ pc[h] \in {"record", "unlink", "rmdir"}
                BY <3>1, <3>3, ExposedAt, NamesAssumption DEF Parts
            <3>5. CASE pc[h] = "record"
                <4>1. call[h].op = "UploadPart" /\ call[h].id = c.id
                    BY <3>1, <3>5, ExposedAt DEF TypeInv, ShapeAt
                <4>2. ~Trusted(k)'
                    <5>1. call[h] \in Calls /\ Target(c) = {c.obj}
                        BY <3>5, CallObjects DEF TypeInv, ShapeAt, Busy
                    <5>2. Meets(c, call[h]) /\ c.obj \in Spoiled(c, call[h])
                        BY <4>1, <5>1, MeetOverParts DEF Spoiled, Ends
                    <5>3. call[h] \in Met(c)
                        BY <3>5, <5>2 DEF Met, Busy
                    <5>4. k \in raced' /\ c.obj \in torn'
                        BY <5>2, <5>3 DEF Send
                    <5>5. QED
                        BY <1>1, <5>4 DEF Trusted
                <4>3. QED
                    BY <4>2
            <3>6. CASE pc[h] \in {"unlink", "rmdir"}
                BY <3>1, <3>3, <3>6, ExposedAt DEF PartsInv, StagedAt, Sure
            <3>7. QED
                BY <3>4, <3>5, <3>6
        <2>3. \A i \in DOMAIN c.list :
                  LET p == <<c.id, c.list[i].n>>
                  IN partRows[p] = None \/ partFiles[p] \in {None, partRows[p]}
            BY <2>1, <2>2 DEF PartsInv, PartsSettled
        <2>4. QED
            BY <1>1, <2>3 DEF AssembledAt
    <1>8. QED
        BY <1>5, <1>6, <1>7 DEF ObjectsInv

\* The parts that a Complete lists are its own.
LEMMA ListedParts ==
    ASSUME NEW c \in Calls, c.op = "Complete", NEW i \in DOMAIN c.list
    PROVE  <<c.id, c.list[i].n>> \in Ours(c) \intersect Parts
    BY CallFields, CallObjects DEF PartsOf, Parts

LEMMA CompleteOthers ==
    ASSUME TypeInv, MeetInv, ObjectsInv, NEW k \in Handlers, Move(k), NEW h \in Handlers \ {k}
    PROVE  CompleteAt(h)'
    <1>1. /\ Busy(k) /\ call[k] \in Calls
          /\ pc'[h] = pc[h] /\ call'[h] = call[h] /\ (h \in raced' <=> h \in raced)
          /\ selected'[h] = selected[h] /\ joined'[h] = joined[h]
        BY MoveFrame
    <1> SUFFICES ASSUME Busy(h), call[h].op = "Complete", Trusted(h)' PROVE AssembledAt(h)'
        BY <1>1 DEF CompleteAt, Busy
    <1>2. call[h] \in Calls /\ call[h].obj \in Objects /\ call[h].list \in Seq(Entries)
        BY CallFields DEF TypeInv, ShapeAt
    <1>3. Trusted(h)
        <2>1. call[h].obj \in torn => call[h].obj \in torn'
            BY <1>2, CallObjects, DoubtRemains DEF Mutates
        <2>2. Tainted(call[h]) => Tainted(call[h])'
            BY <1>1, <1>2, ListedParts, DoubtRemains DEF Tainted, Mutates
        <2>3. QED
            BY <1>1, <2>1, <2>2 DEF Trusted, Tainted
    <1>4. AssembledAt(h)
        BY <1>3 DEF ObjectsInv, CompleteAt
    <1>5. ~(call[k].op = "UploadPart" /\ call[k].id = call[h].id)
        BY <1>1, <1>3, NotTrusted
    <1>6. ~(call[k].op = "Complete" /\ call[k].obj = call[h].obj)
        BY <1>1, <1>3, NotTrusted
    <1>7. rows'[call[h].obj] = rows[call[h].obj] /\ files'[call[h].obj] = files[call[h].obj]
        BY <1>2, <1>6, ObjectWrites
    <1>8. ASSUME NEW i \in DOMAIN call[h].list
          PROVE  LET p == <<call[h].id, call[h].list[i].n>>
                 IN /\ partRows'[p] \in {None, partRows[p]}
                    /\ partFiles'[p] \in {None, partFiles[p]}
        <2> DEFINE p == <<call[h].id, call[h].list[i].n>>
        <2>1. p \in Parts
            BY <1>2, ListedParts
        <2>2. p \in Ours(call[k]) => call[k].op # "UploadPart"
            BY <1>1, <1>5, CallObjects
        <2>3. QED
            BY <2>1, <2>2, PartWrites
    <1>9. QED
        BY <1>1, <1>4, <1>7, <1>8 DEF AssembledAt, Listed

LEMMA CompleteOwn ==
    ASSUME TypeInv, ObjectsInv, NEW k \in Handlers, Move(k)
    PROVE  CompleteAt(k)'
    <1>1. Busy(k) /\ call[k] \in Calls /\ (GoesOn(k) \/ Stops(k)) /\ ShapeAt(k)
        BY MoveFrame DEF TypeInv
    <1> SUFFICES ASSUME Busy(k)', call'[k].op = "Complete", Trusted(k)'
                 PROVE  AssembledAt(k)'
        BY DEF CompleteAt
    <1>2. UNCHANGED <<call, raced, torn>>
        BY <1>1 DEF GoesOn, Stops, history
    <1>3. AssembledAt(k) /\ call[k].op = "Complete"
        BY <1>1, <1>2 DEF ObjectsInv, CompleteAt, Trusted, Tainted
    <1>4. call[k].obj \in Objects /\ call[k].list \in Seq(Entries)
        BY <1>1, <1>3, CallFields
    <1> DEFINE u == call[k].id
               list == call[k].list
    <1>5. \A i \in DOMAIN list : list[i].etag \in Bodies
        BY <1>1, <1>3, CallFields
    <1>6. CASE FindUpload(k)
        <2>1. /\ AfterFind(call[k]) = "validate"
              /\ ~Refuse(k)
            BY <1>3, <1>1 DEF AfterFind, Refuse, End, Busy, TypeInv, TypeOK
        <2>2. pc'[k] = "validate" /\ pc[k] = "find" /\ UNCHANGED <<partRows, partFiles>>
            BY <1>6, <2>1 DEF FindUpload, Goto, database, disk, TypeInv, TypeOK
        <2>3. QED
            BY <1>2, <1>3, <2>2 DEF AssembledAt
    <1>7. CASE Validate(k)
        <2>1. ~Refuse(k)
            BY DEF Refuse, End, Busy, TypeInv, TypeOK
        <2>2. Recorded(u, list) /\ pc[k] = "validate"
            BY <1>7, <2>1 DEF Validate
        <2>3. /\ selected'[k] = list /\ pc'[k] = "assemble"
              /\ joined'[k] = <<>> /\ UNCHANGED <<partRows, partFiles>>
            BY <1>1, <1>3, <1>7, <2>1, <2>2, SelectsList
               DEF Validate, database, disk, TypeInv, TypeOK, ShapeAt
        <2>4. \A i \in DOMAIN list : partFiles[<<u, list[i].n>>] \in {None, list[i].etag}
            BY <1>3, <1>5, <2>2, NamesAssumption DEF AssembledAt, Recorded
        <2>5. DOMAIN joined'[k] = {}
            BY <2>3
        <2>6. QED
            BY <1>2, <2>3, <2>4, <2>5 DEF AssembledAt
    <1>8. CASE AssemblePart(k)
        <2> DEFINE next == Len(joined[k]) + 1
                   found == partFiles[<<call[k].id, selected[k][next].n>>]
        <2>1. ~Refuse(k)
            BY DEF Refuse, End, Busy, TypeInv, TypeOK
        <2>2. /\ pc[k] = "assemble"
              /\ found # None
              /\ joined'[k] = Append(joined[k], found)
              /\ pc'[k] = IF next = Len(selected[k]) THEN "place" ELSE "assemble"
              /\ selected' = selected
              /\ UNCHANGED <<partRows, partFiles>>
            BY <1>8, <2>1 DEF AssemblePart, AllJoined, database, disk, TypeInv, TypeOK
        <2>3. selected[k] = list /\ Len(joined[k]) < Len(list)
            BY <1>1, <1>3, <2>2 DEF AssembledAt, ShapeAt
        <2>4. joined[k] \in Seq(Bodies) /\ Len(joined[k]) \in Nat /\ DOMAIN list = 1..Len(list)
            BY <1>4 DEF TypeInv, TypeOK, Contents
        <2>5. next \in DOMAIN list
            BY <1>4, <2>3, <2>4
        <2>6. found = list[next].etag
            BY <1>3, <2>2, <2>3, <2>5 DEF AssembledAt
        <2>7. /\ Len(joined'[k]) = next /\ DOMAIN joined'[k] = 1..next
              /\ joined'[k] = [i \in 1..next |-> joined'[k][i]]
              /\ \A i \in 1..next : joined'[k][i] = list[i].etag
            <3>1. found \in Bodies
                BY <1>5, <2>5, <2>6
            <3>2. joined'[k] \in Seq(Bodies) /\ Len(joined'[k]) = next
                BY <2>2, <2>4, <3>1
            <3>3. joined'[k][next] = found /\ \A i \in 1..Len(joined[k]) : joined'[k][i] = joined[k][i]
                BY <2>2, <2>4, <3>1
            <3>4. \A i \in 1..Len(joined[k]) : joined[k][i] = list[i].etag
                BY <1>3, <2>2, <2>4 DEF AssembledAt
            <3>5. QED
                BY <2>4, <2>6, <3>2, <3>3, <3>4
        <2>8. CASE next = Len(list)
            <3>1. pc'[k] = "place"
                BY <2>2, <2>3, <2>8
            <3>2. joined'[k] = [i \in DOMAIN list |-> list[i].etag]
                BY <2>4, <2>7, <2>8
            <3>3. QED
                BY <1>2, <2>2, <2>3, <3>1, <3>2 DEF AssembledAt, Listed
        <2>9. CASE next # Len(list)
            <3>1. pc'[k] = "assemble"
                BY <2>2, <2>3, <2>9
            <3>2. \A i \in DOMAIN list : partFiles'[<<u, list[i].n>>] \in {None, list[i].etag}
                BY <1>3, <2>2 DEF AssembledAt
            <3>3. \A i \in DOMAIN joined'[k] : joined'[k][i] = list[i].etag
                BY <2>7
            <3>4. QED
                BY <1>2, <2>2, <2>3, <3>1, <3>2, <3>3 DEF AssembledAt
        <2>10. QED
            BY <2>8, <2>9
    <1>9. CASE PlaceObject(k)
        <2>1. /\ pc[k] = "place" /\ pc'[k] = "commit"
              /\ files'[call[k].obj] = joined[k] /\ joined' = joined /\ selected' = selected
            BY <1>4, <1>9 DEF PlaceObject, Goto, TypeInv, TypeOK
        <2>2. QED
            BY <1>2, <1>3, <2>1 DEF AssembledAt, Listed
    <1>10. CASE Commit(k)
        <2>1. /\ pc[k] = "commit" /\ pc'[k] = "unlink"
              /\ rows'[call[k].obj] = Composite(selected[k]) /\ files' = files
            BY <1>4, <1>10 DEF Commit, Goto, disk, TypeInv, TypeOK
        <2>2. Composite(selected[k]) = Listed(k)
            BY <1>3, <2>1 DEF AssembledAt, Composite, Listed
        <2>3. QED
            BY <1>2, <1>3, <2>1, <2>2 DEF AssembledAt, Listed
    <1>11. CASE UnlinkPart(k)
        <2>1. pc[k] = "unlink" /\ pc'[k] \in {"unlink", "rmdir"} /\ UNCHANGED <<rows, files>>
            BY <1>11 DEF UnlinkPart, Goto, handlers, database, TypeInv, TypeOK
        <2>2. QED
            BY <1>2, <1>3, <2>1 DEF AssembledAt, Listed
    <1>12. CASE InsertUpload(k) \/ RecordPart(k) \/ RemoveStagingDir(k) \/ Cut(k)
        BY <1>12 DEF InsertUpload, RecordPart, RemoveStagingDir, Cut, Finish, End, Busy, TypeInv, TypeOK
    <1>13. CASE CheckBucket(k) \/ MakeStagingDir(k) \/ ReceivePart(k) \/ MakePartDir(k)
                \/ RenamePart(k) \/ DeleteUploadRows(k)
        BY <1>1, <1>3, <1>13 DEF CheckBucket, MakeStagingDir, ReceivePart, MakePartDir,
           RenamePart, DeleteUploadRows, ShapeAt
    <1>14. QED
        BY <1>6, <1>7, <1>8, <1>9, <1>10, <1>11, <1>12, <1>13 DEF Move, Step

LEMMA ObjectsMove ==
    ASSUME TypeInv, MeetInv, ObjectsInv, NEW k \in Handlers, Move(k)
    PROVE  ObjectsInv'
    <1>1. Busy(k) /\ call[k] \in Calls /\ ShapeAt(k) /\ CompleteAt(k)
        BY MoveFrame DEF TypeInv, ObjectsInv
    <1>2. \A h \in Handlers \ {k} : Exposed(h)' = Exposed(h)
        BY MoveFrame DEF Exposed, Ours, Ends
    <1>3. \A o \in Objects : ~Pending(o)' => ~Pending(o) \/ o \in Exposed(k)
        BY <1>2 DEF Pending
    <1>4. ASSUME NEW o \in Objects \ torn', ~Pending(o)' PROVE rows'[o] = files'[o]
        <2>1. o \notin Ours(call[k])
            BY <1>1, CallObjects
        <2>2. CASE o \notin torn /\ o \notin Exposed(k) /\ rows'[o] = rows[o] /\ files'[o] = files[o]
            BY <1>3, <1>4, <2>2 DEF ObjectsInv, ObjectsWhole
        <2>3. CASE Commit(k)
            <3>1. torn' = torn /\ pc[k] = "commit" /\ call[k].op = "Complete"
                BY <1>1, <2>3 DEF Commit, Goto, history, ShapeAt
            <3>2. CASE o = call[k].obj
                <4>1. AssembledAt(k)
                    BY <1>1, <1>4, <3>1, <3>2 DEF CompleteAt, Trusted
                <4>2. files[o] = Listed(k) /\ selected[k] = call[k].list
                    BY <3>1, <3>2, <4>1 DEF AssembledAt
                <4>3. rows'[o] = Composite(selected[k]) /\ files' = files
                    BY <2>3, <3>2 DEF Commit, disk, TypeInv, TypeOK
                <4>4. QED
                    BY <4>2, <4>3 DEF Composite, Listed
            <3>3. CASE o # call[k].obj
                BY <1>4, <2>2, <3>1, <3>3, ExposedAt, ObjectWrites
            <3>4. QED
                BY <3>2, <3>3
        <2>4. CASE RemoveStagingDir(k)
            <3>1. torn' = Repaired(k) /\ UNCHANGED <<rows, files>>
                BY <2>4 DEF RemoveStagingDir, Finish, End, database
            <3>2. pc[k] = "rmdir" /\ Ends(call[k])
                BY <1>1, <2>4 DEF RemoveStagingDir, ShapeAt
            <3>3. CASE o \in Target(call[k])
                <4>1. call[k].op = "Complete" /\ o = call[k].obj
                    BY <3>3 DEF Target
                <4>2. Trusted(k)
                    BY <1>4, <2>1, <3>1, <4>1 DEF Trusted, Repaired
                <4>3. AssembledAt(k)
                    BY <1>1, <4>1, <4>2 DEF CompleteAt
                <4>4. QED
                    BY <3>1, <3>2, <4>1, <4>3 DEF AssembledAt
            <3>4. CASE o \notin Target(call[k])
                <4>1. o \notin torn
                    BY <1>4, <2>1, <3>1, <3>4 DEF Repaired, Mutates
                <4>2. o \notin Exposed(k)
                    BY <2>1, <3>2 DEF Exposed
                <4>3. QED
                    BY <2>2, <3>1, <4>1, <4>2
            <3>5. QED
                BY <3>3, <3>4
        <2>5. CASE Cut(k)
            <3>1. o \notin torn /\ o \notin Exposed(k) /\ UNCHANGED <<rows, files>>
                BY <1>4, <2>5 DEF Cut, End, database, disk
            <3>2. QED
                BY <2>2, <3>1
        <2>6. CASE Step(k) /\ ~Commit(k) /\ ~RemoveStagingDir(k)
            <3>1. o \notin torn
                <4>1. CASE InsertUpload(k) \/ RecordPart(k)
                    <5>1. o \notin Mutates(call[k])
                        BY <1>1, <2>1, <4>1 DEF InsertUpload, RecordPart, ShapeAt, Mutates, Target
                    <5>2. torn' = Repaired(k)
                        BY <4>1 DEF InsertUpload, RecordPart, Finish, End
                    <5>3. QED
                        BY <1>4, <2>1, <5>1, <5>2 DEF Repaired
                <4>2. CASE ~(InsertUpload(k) \/ RecordPart(k))
                    BY <1>4, <2>6, <4>2 DEF Step, CheckBucket, MakeStagingDir, FindUpload,
                       ReceivePart, MakePartDir, RenamePart, Validate, AssemblePart, PlaceObject,
                       DeleteUploadRows, UnlinkPart, Goto, Refuse, End, history
                <4>3. QED
                    BY <4>1, <4>2
            <3>2. o \notin Exposed(k)
                <4>1. pc[k] # "commit"
                    BY <2>6 DEF Step, CheckBucket, MakeStagingDir, FindUpload, InsertUpload,
                       ReceivePart, MakePartDir, RenamePart, RecordPart, Validate, AssemblePart,
                       PlaceObject, DeleteUploadRows, UnlinkPart
                <4>2. QED
                    BY <1>1, <2>1, <4>1, CallObjects DEF Exposed, ShapeAt
            <3>3. rows'[o] = rows[o] /\ files'[o] = files[o]
                <4>1. CASE PlaceObject(k)
                    <5>1. pc'[k] = "commit" /\ call' = call
                        BY <4>1 DEF PlaceObject, Goto, TypeInv, TypeOK
                    <5>2. Exposed(k)' = {call[k].obj}
                        BY <5>1 DEF Exposed
                    <5>3. o # call[k].obj
                        BY <1>4, <5>2 DEF Pending
                    <5>4. QED
                        BY <5>3, ObjectWrites
                <4>2. CASE ~PlaceObject(k)
                    BY <2>6, <4>2 DEF Step, CheckBucket, MakeStagingDir, InsertUpload, FindUpload,
                       ReceivePart, MakePartDir, RenamePart, RecordPart, Validate, AssemblePart,
                       DeleteUploadRows, UnlinkPart, database, disk
                <4>3. QED
                    BY <4>1, <4>2
            <3>4. QED
                BY <2>2, <3>1, <3>2, <3>3
        <2>7. QED
            BY <2>3, <2>4, <2>5, <2>6 DEF Move
    <1>5. ObjectsWhole'
        BY <1>4 DEF ObjectsWhole
    <1>6. QED
        BY <1>5, CompleteOwn, CompleteOthers DEF ObjectsInv

LEMMA ObjectsStored ==
    ASSUME TypeInv, ObjectsInv
    PROVE  CompleteStoresList
    <1> SUFFICES ASSUME NEW h \in Handlers, pc[h] \in {"unlink", "rmdir"},
                        call[h].op = "Complete", call[h].obj \notin torn
                 PROVE  rows[call[h].obj] = Listed(h) /\ files[call[h].obj] = Listed(h)
        BY DEF CompleteStoresList, Listed
    <1>1. QED
        BY DEF ObjectsInv, CompleteAt, Trusted, AssembledAt, Busy

------------------------------------------------------------------------------
(* The ends of an upload.                                                  *)

LEMMA MintInit == Init => MintInv
    BY DEF Init, MintInv, Busy

LEMMA MintSend ==
    ASSUME TypeInv, MintInv, NEW k \in Handlers, NEW c \in Calls, Send(k, c)
    PROVE  MintInv'
    <1>1. /\ UNCHANGED <<open, commits, aborted>>
          /\ pc[k] = "idle" /\ pc'[k] \in {"bucket", "find"} /\ call'[k] = c
          /\ \A h \in Handlers \ {k} : pc'[h] = pc[h] /\ call'[h] = call[h]
          /\ minted \subseteq minted'
          /\ c.op = "Create" => c.id \in minted' /\ c.id \notin minted
        BY DEF Send, TypeInv, TypeOK, database, outcome, FirstStep
    <1>2. \A u : Created(u) => Created(u)'
        BY <1>1 DEF Created, Busy
    <1>3. \A u \in Uploads : u \in open \/ u \in aborted \/ commits[u] > 0 => Created(u)
        BY DEF MintInv
    <1>4. (\A h \in Handlers :
               pc[h] \notin {"idle", "bucket", "mkstage", "insert", "find"} => Created(call[h].id))'
        BY <1>1, <1>2 DEF MintInv
    <1>5. \A h \in Handlers : Busy(h)' /\ call'[h].op = "Create" => call'[h].id \in minted'
        BY <1>1 DEF MintInv, Busy
    <1>6. \A g, h \in Handlers :
              g # h /\ Busy(g)' /\ Busy(h)' /\ call'[g].op = "Create" /\ call'[h].op = "Create"
                  => call'[g].id # call'[h].id
        BY <1>1 DEF MintInv, Busy
    <1>7. \A u \in Uploads : u \in open' \/ u \in aborted' \/ commits'[u] > 0 => Created(u)'
        BY <1>1, <1>2, <1>3
    <1>8. QED
        BY <1>4, <1>5, <1>6, <1>7 DEF MintInv

LEMMA MintMove ==
    ASSUME TypeInv, MintInv, NEW k \in Handlers, Move(k)
    PROVE  MintInv'
    <1>1. /\ Busy(k) /\ call[k] \in Calls /\ (GoesOn(k) \/ Stops(k)) /\ minted' = minted
          /\ \A h \in Handlers \ {k} : pc'[h] = pc[h] /\ call'[h] = call[h]
        BY MoveFrame
    <1>2. \A h \in Handlers : Busy(h)' => Busy(h) /\ call'[h] = call[h]
        BY <1>1 DEF GoesOn, Stops, Busy
    <1>3. \A u : Created(u) => Created(u)'
        BY <1>1, <1>2 DEF Created
    <1>4. call[k].id \in Uploads /\ ShapeAt(k)
        BY <1>1, CallFields DEF TypeInv
    <1>5. ASSUME InsertUpload(k), NEW u, u = call[k].id
          PROVE  Created(u)'
        <2>1. call'[k] = None /\ ~Busy(k)' /\ call[k].op = "Create" /\ pc[k] = "insert"
            BY <1>4, <1>5 DEF InsertUpload, Finish, End, Busy, ShapeAt, TypeInv, TypeOK
        <2>2. u \in minted'
            BY <1>1, <1>5, <2>1 DEF MintInv
        <2>3. \A h \in Handlers : Busy(h)' /\ call'[h].op = "Create" => call'[h].id # u
            BY <1>1, <1>2, <1>5, <2>1 DEF MintInv
        <2>4. QED
            BY <2>2, <2>3 DEF Created
    <1>6. \A u \in open' \ open : InsertUpload(k) /\ u = call[k].id
        BY DEF Move, Step, Cut, CheckBucket, MakeStagingDir, InsertUpload, FindUpload,
           ReceivePart, MakePartDir, RenamePart, RecordPart, Validate, AssemblePart,
           PlaceObject, Commit, UploadGoes, DeleteUploadRows, UnlinkPart, RemoveStagingDir, database
    <1>7. \A u \in aborted' \ aborted : u = call[k].id /\ pc[k] = "rmdir"
        BY DEF Move, Step, Cut, CheckBucket, MakeStagingDir, InsertUpload, FindUpload,
           ReceivePart, MakePartDir, RenamePart, RecordPart, Validate, AssemblePart,
           PlaceObject, Commit, DeleteUploadRows, UnlinkPart, RemoveStagingDir, outcome
    <1>8. \A u \in Uploads : commits'[u] # commits[u] => u = call[k].id /\ pc[k] = "commit"
        BY DEF Move, Step, Cut, CheckBucket, MakeStagingDir, InsertUpload, FindUpload,
           ReceivePart, MakePartDir, RenamePart, RecordPart, Validate, AssemblePart,
           PlaceObject, Commit, DeleteUploadRows, UnlinkPart, RemoveStagingDir, outcome,
           TypeInv, TypeOK
    <1>9. ASSUME NEW u \in Uploads, u \in open' \/ u \in aborted' \/ commits'[u] > 0
          PROVE  Created(u)'
        <2>1. CASE u \in open \/ u \in aborted \/ commits[u] > 0
            BY <1>3, <2>1 DEF MintInv
        <2>2. CASE InsertUpload(k) /\ u = call[k].id
            BY <1>5, <2>2
        <2>3. CASE pc[k] \in {"rmdir", "commit"} /\ u = call[k].id
            BY <1>3, <2>3 DEF MintInv
        <2>4. QED
            BY <1>6, <1>7, <1>8, <1>9, <2>1, <2>2, <2>3
    <1>10. ASSUME pc'[k] \notin {"idle", "bucket", "mkstage", "insert", "find"}
           PROVE  Created(call[k].id)'
        <2>1. call'[k] = call[k]
            BY <1>2, <1>10 DEF Busy
        <2>2. CASE FindUpload(k)
            <3>1. call[k].id \in open
                BY <1>10, <2>2 DEF FindUpload, Refuse, End, TypeInv, TypeOK
            <3>2. QED
                BY <1>3, <1>4, <2>1, <3>1 DEF MintInv
        <2>3. CASE ~FindUpload(k)
            <3>1. pc[k] \notin {"idle", "bucket", "mkstage", "insert", "find"}
                BY <1>10, <2>3 DEF Move, Step, Cut, CheckBucket, MakeStagingDir, InsertUpload,
                   ReceivePart, MakePartDir, RenamePart, RecordPart, Validate, AssemblePart,
                   PlaceObject, Commit, DeleteUploadRows, UnlinkPart, RemoveStagingDir,
                   Goto, Finish, Refuse, End, Busy, TypeInv, TypeOK
            <3>2. QED
                BY <1>3, <2>1, <3>1 DEF MintInv
        <2>4. QED
            BY <2>2, <2>3
    <1>11. (\A h \in Handlers :
                pc[h] \notin {"idle", "bucket", "mkstage", "insert", "find"} => Created(call[h].id))'
        BY <1>1, <1>3, <1>10 DEF MintInv
    <1>12. \A h \in Handlers : Busy(h)' /\ call'[h].op = "Create" => call'[h].id \in minted'
        BY <1>1, <1>2 DEF MintInv
    <1>13. \A g, h \in Handlers :
              g # h /\ Busy(g)' /\ Busy(h)' /\ call'[g].op = "Create" /\ call'[h].op = "Create"
                  => call'[g].id # call'[h].id
        BY <1>2 DEF MintInv
    <1>14. QED
        BY <1>9, <1>11, <1>12, <1>13 DEF MintInv

LEMMA EndInit == Init => EndInv
    BY DEF Init, EndInv, EndsOnce, EndAt

LEMMA EndSend ==
    ASSUME TypeInv, EndInv, NEW k \in Handlers, NEW c \in Calls, Send(k, c)
    PROVE  EndInv'
    <1>1. /\ UNCHANGED <<open, commits, aborted>> /\ contested \subseteq contested'
          /\ pc'[k] \in {"bucket", "find"}
          /\ \A h \in Handlers \ {k} : pc'[h] = pc[h] /\ call'[h] = call[h]
        BY DEF Send, TypeInv, TypeOK, database, outcome, FirstStep
    <1>2. EndsOnce' /\ (aborted \intersect open = {})'
        BY <1>1 DEF EndInv, EndsOnce
    <1>3. \A h \in Handlers : EndAt(h)'
        BY <1>1 DEF EndInv, EndAt
    <1>4. QED
        BY <1>2, <1>3 DEF EndInv

LEMMA EndMove ==
    ASSUME TypeInv, MeetInv, MintInv, EndInv, NEW k \in Handlers, Move(k)
    PROVE  EndInv'
    <1>1. /\ Busy(k) /\ call[k] \in Calls /\ (GoesOn(k) \/ Stops(k))
          /\ \A h \in Handlers \ {k} : pc'[h] = pc[h] /\ call'[h] = call[h]
        BY MoveFrame
    <1>2. contested' = contested /\ (Busy(k)' => call'[k] = call[k])
        BY <1>1 DEF GoesOn, Stops, history
    <1>3. call[k].id \in Uploads /\ ShapeAt(k)
        BY <1>1, CallFields DEF TypeInv
    \* Two that end one upload contest it.
    <1>4. ASSUME NEW h \in Handlers \ {k}, Busy(h), Ends(call[h]), Ends(call[k]),
                 call[h].id = call[k].id
          PROVE  call[k].id \in contested
        <2>1. call[h] \in Calls
            BY <1>4 DEF TypeInv, ShapeAt
        <2>2. Meets(call[k], call[h])
            BY <1>1, <1>4, <2>1, MeetOverParts
        <2>3. QED
            BY <1>1, <1>4, <2>2 DEF MeetInv, MeetAt
    \* A new upload has been neither found nor ended.
    <1>5. ASSUME InsertUpload(k)
          PROVE  /\ ~Created(call[k].id)
                 /\ call[k].id \notin aborted /\ ~(commits[call[k].id] > 0)
        BY <1>1, <1>3, <1>5 DEF InsertUpload, ShapeAt, Created, MintInv
    <1>6. CASE InsertUpload(k)
        <2>1. /\ open' = open \union {call[k].id} /\ UNCHANGED <<commits, aborted>>
              /\ ~Busy(k)'
            BY <1>6 DEF InsertUpload, outcome, Finish, End, Busy, TypeInv, TypeOK
        <2>2. EndsOnce' /\ (aborted \intersect open = {})'
            BY <1>2, <1>5, <1>6, <2>1 DEF EndInv, EndsOnce
        <2>3. ASSUME NEW h \in Handlers \ {k} PROVE EndAt(h)'
            <3>1. pc[h] \in {"unlink", "rmdir"} => call[h].id # call[k].id
                BY <1>5, <1>6 DEF MintInv
            <3>2. QED
                BY <1>1, <1>2, <2>1, <3>1 DEF EndInv, EndAt
        <2>4. EndAt(k)'
            BY <2>1 DEF EndAt, Busy
        <2>5. QED
            BY <2>2, <2>3, <2>4 DEF EndInv
    <1>7. CASE Commit(k)
        <2> DEFINE u == call[k].id
        <2>1. /\ pc[k] = "commit" /\ Ends(call[k]) /\ call[k].op = "Complete"
              /\ open' = open \ {u} /\ aborted' = aborted /\ pc'[k] = "unlink" /\ call'[k] = call[k]
              /\ commits'[u] = IF commits[u] < 2 THEN commits[u] + 1 ELSE 2
              /\ \A v \in Uploads \ {u} : commits'[v] = commits[v]
            BY <1>1, <1>3, <1>7 DEF Commit, UploadGoes, Goto, ShapeAt, Ends, TypeInv, TypeOK
        <2>2. u \notin contested => u \in open /\ commits[u] = 0 /\ u \notin aborted
            <3>1. commits[u] \in 0..2
                BY <1>3 DEF TypeInv, TypeOK
            <3>2. QED
                BY <1>3, <2>1, <3>1 DEF EndInv, EndAt, EndsOnce
        <2>3. EndsOnce' /\ (aborted \intersect open = {})'
            BY <1>2, <2>1, <2>2 DEF EndInv, EndsOnce
        <2>4. ASSUME NEW h \in Handlers \ {k} PROVE EndAt(h)'
            <3>1. Busy(h) /\ Ends(call[h]) /\ call[h].id = u => u \in contested
                BY <1>4, <2>1
            <3>2. pc[h] \in {"validate", "assemble", "place", "commit", "delrows", "unlink", "rmdir"}
                     => Busy(h) /\ Ends(call[h]) /\ call[h].id \in Uploads
                BY CallFields DEF TypeInv, ShapeAt, Ends, Busy
            <3>3. QED
                BY <1>1, <1>2, <2>1, <3>1, <3>2 DEF EndInv, EndAt
        <2>5. EndAt(k)'
            BY <2>1 DEF EndAt
        <2>6. QED
            BY <2>3, <2>4, <2>5 DEF EndInv
    <1>8. CASE DeleteUploadRows(k)
        <2> DEFINE u == call[k].id
        <2>1. /\ pc[k] = "delrows" /\ Ends(call[k]) /\ call[k].op = "Abort"
              /\ open' = open \ {u} /\ UNCHANGED <<aborted, commits>>
              /\ pc'[k] = "unlink" /\ call'[k] = call[k]
            BY <1>1, <1>3, <1>8 DEF DeleteUploadRows, UploadGoes, Goto, outcome, ShapeAt, Ends,
               TypeInv, TypeOK
        <2>2. u \notin contested => commits[u] = 0
            <3>1. commits[u] \in 0..2
                BY <1>3 DEF TypeInv, TypeOK
            <3>2. QED
                BY <1>3, <2>1, <3>1 DEF EndInv, EndAt, EndsOnce
        <2>3. EndsOnce' /\ (aborted \intersect open = {})'
            BY <1>2, <2>1 DEF EndInv, EndsOnce
        <2>4. ASSUME NEW h \in Handlers \ {k} PROVE EndAt(h)'
            <3>1. Busy(h) /\ Ends(call[h]) /\ call[h].id = u => u \in contested
                BY <1>4, <2>1
            <3>2. pc[h] \in {"validate", "assemble", "place", "commit", "delrows"}
                     => Busy(h) /\ Ends(call[h])
                BY DEF TypeInv, ShapeAt, Ends, Busy
            <3>3. QED
                BY <1>1, <1>2, <2>1, <3>1, <3>2 DEF EndInv, EndAt
        <2>5. EndAt(k)'
            BY <1>2, <2>1, <2>2 DEF EndAt
        <2>6. QED
            BY <2>3, <2>4, <2>5 DEF EndInv
    <1>9. CASE RemoveStagingDir(k)
        <2> DEFINE u == call[k].id
        <2>1. /\ pc[k] = "rmdir" /\ UNCHANGED <<open, commits>> /\ ~Busy(k)'
              /\ aborted' \in {aborted, aborted \union {u}}
              /\ aborted' # aborted => call[k].op = "Abort"
            BY <1>9 DEF RemoveStagingDir, Finish, End, database, Busy, TypeInv, TypeOK
        <2>2. u \notin open /\ (call[k].op = "Abort" /\ u \notin contested => commits[u] = 0)
            BY <2>1 DEF EndInv, EndAt
        <2>3. EndsOnce' /\ (aborted \intersect open = {})'
            BY <1>2, <2>1, <2>2 DEF EndInv, EndsOnce
        <2>4. \A h \in Handlers : EndAt(h)'
            BY <1>1, <1>2, <2>1 DEF EndInv, EndAt, Busy
        <2>5. QED
            BY <2>3, <2>4 DEF EndInv
    <1>10. CASE ~(InsertUpload(k) \/ Commit(k) \/ DeleteUploadRows(k) \/ RemoveStagingDir(k))
        <2>1. UNCHANGED <<open, aborted, commits>>
            BY <1>10 DEF Move, Step, Cut, CheckBucket, MakeStagingDir, FindUpload,
               ReceivePart, MakePartDir, RenamePart, RecordPart, Validate, AssemblePart,
               PlaceObject, UnlinkPart, database, outcome
        <2>2. EndsOnce' /\ (aborted \intersect open = {})'
            BY <1>2, <2>1 DEF EndInv, EndsOnce
        <2>3. \A h \in Handlers \ {k} : EndAt(h)'
            BY <1>1, <1>2, <2>1 DEF EndInv, EndAt
        <2>4. /\ pc'[k] \in {"validate", "assemble", "place", "commit", "delrows"} =>
                    \/ call[k].id \in open
                    \/ pc[k] \in {"validate", "assemble", "place", "commit", "delrows"}
              /\ pc'[k] \in {"unlink", "rmdir"} => pc[k] = "unlink"
            <3>1. AfterFind(call[k]) \in {"receive", "validate", "delrows"} \/ pc[k] # "find"
                BY <1>3 DEF AfterFind, ShapeAt
            <3>2. QED
                BY <1>1, <1>10, <3>1 DEF Move, Step, Cut, CheckBucket, MakeStagingDir, FindUpload,
                   ReceivePart, MakePartDir, RenamePart, RecordPart, Validate, AssemblePart,
                   PlaceObject, UnlinkPart, Goto, Finish, Refuse, End, Busy, handlers, TypeInv, TypeOK
        <2>5. EndAt(k)'
            BY <1>2, <2>1, <2>4 DEF EndInv, EndAt, Busy
        <2>6. QED
            BY <2>2, <2>3, <2>5 DEF EndInv
    <1>11. QED
        BY <1>6, <1>7, <1>8, <1>9, <1>10

------------------------------------------------------------------------------
(* What an upload leaves behind.                                           *)

LEMMA LitterInit == Init => LitterInv
    <1>1. \A u : PartsOf(u) \subseteq {u} \X PartNumbers
        BY DEF PartsOf
    <1>2. QED
        BY <1>1 DEF Init, LitterInv, NothingLeft, LitterAt, Parts

LEMMA LitterSend ==
    ASSUME TypeInv, LitterInv, NEW k \in Handlers, NEW c \in Calls, Send(k, c)
    PROVE  LitterInv'
    <1>1. /\ UNCHANGED <<open, partRows, staged, partFiles>> /\ littered \subseteq littered'
          /\ pc[k] = "idle" /\ pc'[k] \in {"bucket", "find"} /\ call'[k] = c
          /\ \A h \in Handlers \ {k} : pc'[h] = pc[h] /\ call'[h] = call[h]
        BY DEF Send, TypeInv, TypeOK, database, disk, FirstStep
    <1>2. \A h \in Handlers : Leftover(h)' = Leftover(h)
        BY <1>1 DEF Leftover
    <1>3. NothingLeft'
        BY <1>1, <1>2 DEF LitterInv, NothingLeft, PartsOf
    <1>4. \A u \in Uploads \ (open' \union littered') : \A p \in PartsOf(u) : partRows'[p] = None
        BY <1>1 DEF LitterInv
    <1>5. \A h \in Handlers : LitterAt(h)'
        BY <1>1 DEF LitterInv, LitterAt, PartsOf
    <1>6. \A u \in Uploads \ (open' \union littered') :
              (\A h \in Handlers : pc'[h] \in {"unlink", "rmdir"} => call'[h].id # u) =>
                  \A p \in PartsOf(u) : partFiles'[p] = None
        BY <1>1 DEF LitterInv
    <1>7. QED
        BY <1>3, <1>4, <1>5, <1>6 DEF LitterInv, PartsOf

LEMMA LitterMove ==
    ASSUME TypeInv, MeetInv, EndInv, LitterInv, NEW k \in Handlers, Move(k)
    PROVE  LitterInv'
    <1> DEFINE v == call[k].id
    <1>1. /\ Busy(k) /\ call[k] \in Calls /\ (GoesOn(k) \/ Stops(k))
          /\ \A h \in Handlers \ {k} : pc'[h] = pc[h] /\ call'[h] = call[h]
        BY MoveFrame
    <1>2. littered \subseteq littered' /\ (Busy(k)' => call'[k] = call[k])
        BY <1>1 DEF GoesOn, Stops, history
    <1>3. v \in Uploads /\ ShapeAt(k) /\ LitterAt(k)
        BY <1>1, CallFields DEF TypeInv, LitterInv
    <1>4. \A h \in Handlers \ {k} : Leftover(h)' = Leftover(h)
        BY <1>1 DEF Leftover
    \* Only the end of its rows closes an upload.
    <1>5. ASSUME NEW u \in open \ open'
          PROVE  /\ u = v /\ Ends(call[k]) /\ pc'[k] = "unlink" /\ call'[k] = call[k]
                 /\ \A p \in PartsOf(u) : partRows'[p] = None
        <2>1. CASE Commit(k) \/ DeleteUploadRows(k)
            <3>1. u = v /\ PartsGo(v) /\ pc'[k] = "unlink" /\ call' = call
                BY <1>5, <2>1 DEF Commit, DeleteUploadRows, UploadGoes, Goto, TypeInv, TypeOK
            <3>2. Ends(call[k])
                BY <1>3, <2>1 DEF Commit, DeleteUploadRows, ShapeAt, Ends
            <3>3. \A p \in PartsOf(v) : p \in Parts /\ p[1] = v
                BY <1>3 DEF Parts, PartsOf
            <3>4. QED
                BY <3>1, <3>2, <3>3 DEF PartsGo
        <2>2. CASE ~(Commit(k) \/ DeleteUploadRows(k))
            BY <1>5, <2>2 DEF Move, Step, Cut, CheckBucket, MakeStagingDir, InsertUpload, FindUpload,
               ReceivePart, MakePartDir, RenamePart, RecordPart, Validate, AssemblePart,
               PlaceObject, UnlinkPart, RemoveStagingDir, database
        <2>3. QED
            BY <2>1, <2>2
    \* What is neither open nor littered gets nothing.
    <1>6. ASSUME NEW u \in Uploads, u \notin open, u \notin littered, NEW p \in PartsOf(u)
          PROVE  partRows'[p] \in {None, partRows[p]} /\ partFiles'[p] \in {None, partFiles[p]}
        <2>1. p \in Parts /\ p[1] = u
            BY DEF PartsOf, Parts
        <2>2. CASE call[k].op = "UploadPart" /\ p \in Ours(call[k])
            <3>1. v = u
                BY <1>1, <2>1, <2>2, CallObjects
            <3>2. pc[k] \notin {"receive", "mkdir", "rename", "record"}
                BY <1>3, <1>6, <3>1 DEF LitterAt
            <3>3. UNCHANGED <<partRows, partFiles>>
                BY <1>1, <1>3, <2>2, <3>2
                   DEF Move, Step, Cut, CheckBucket, MakeStagingDir, InsertUpload, FindUpload,
                   ReceivePart, MakePartDir, RenamePart, RecordPart, Validate, AssemblePart,
                   PlaceObject, Commit, DeleteUploadRows, UnlinkPart, RemoveStagingDir, ShapeAt, Ends,
                   database, disk
            <3>4. QED
                BY <3>3
        <2>3. QED
            BY <2>1, <2>2, PartWrites
    <1>7. ASSUME NEW u \in Uploads, u \notin open', u \notin littered', NEW p \in PartsOf(u)
          PROVE  partRows'[p] = None
        <2>1. CASE u \in open
            BY <1>5, <1>7, <2>1
        <2>2. CASE u \notin open
            <3>1. partRows[p] = None
                BY <1>2, <1>7, <2>2 DEF LitterInv
            <3>2. QED
                BY <1>2, <1>6, <1>7, <2>2, <3>1
        <2>3. QED
            BY <2>1, <2>2
    \* A removal that nothing disturbed has found all files gone.
    <1>8. ASSUME pc[k] = "rmdir", v \notin littered'
          PROVE  /\ \A p \in PartsOf(v) : partFiles[p] = None /\ partFiles'[p] = None
                 /\ v \notin staged'
        <2>1. \A p \in PartsOf(v) : partFiles[p] = None
            BY <1>2, <1>3, <1>8 DEF LitterAt
        <2>2. RemoveStagingDir(k)
            <3>1. ~Cut(k)
                BY <1>8 DEF Cut, Leftover
            <3>2. QED
                BY <1>8, <3>1 DEF Move, Step, CheckBucket, MakeStagingDir, InsertUpload, FindUpload,
                   ReceivePart, MakePartDir, RenamePart, RecordPart, Validate, AssemblePart,
                   PlaceObject, Commit, DeleteUploadRows, UnlinkPart
        <2>3. QED
            BY <2>1, <2>2 DEF RemoveStagingDir
    <1>9. ASSUME NEW u \in Uploads, u \notin open', u \notin littered', NEW p \in PartsOf(u),
                 \A h \in Handlers : pc'[h] \in {"unlink", "rmdir"} => call'[h].id # u
          PROVE  partFiles'[p] = None
        <2>1. u \notin open
            BY <1>5, <1>9
        <2>2. CASE pc[k] \in {"unlink", "rmdir"} /\ v = u
            <3>1. CASE pc[k] = "rmdir"
                BY <1>8, <1>9, <2>2, <3>1
            <3>2. CASE pc[k] = "unlink"
                <4>1. CASE UnlinkPart(k)
                    BY <1>9, <2>2, <4>1 DEF UnlinkPart, Goto, handlers, TypeInv, TypeOK
                <4>2. CASE Cut(k)
                    BY <1>9, <2>2, <3>2, <4>2 DEF Cut, Leftover
                <4>3. QED
                    BY <3>2, <4>1, <4>2 DEF Move, Step, CheckBucket, MakeStagingDir, InsertUpload,
                       FindUpload, ReceivePart, MakePartDir, RenamePart, RecordPart, Validate,
                       AssemblePart, PlaceObject, Commit, DeleteUploadRows, RemoveStagingDir
            <3>3. QED
                BY <2>2, <3>1, <3>2
        <2>3. CASE ~(pc[k] \in {"unlink", "rmdir"} /\ v = u)
            <3>1. \A h \in Handlers : pc[h] \in {"unlink", "rmdir"} => call[h].id # u
                BY <1>1, <1>9, <2>3
            <3>2. partFiles[p] = None
                BY <1>2, <1>9, <2>1, <3>1 DEF LitterInv
            <3>3. QED
                BY <1>2, <1>6, <1>9, <2>1, <3>2
        <2>4. QED
            BY <2>2, <2>3
    <1>10. ASSUME NEW u \in Uploads, u \notin open', u \notin littered',
                  \A h \in Handlers : u \notin Leftover(h)'
           PROVE  u \notin staged'
        <2>1. u \notin open
            BY <1>5, <1>10 DEF Leftover
        <2>2. CASE u \in Leftover(k)
            <3>1. pc[k] \in {"insert", "unlink", "rmdir"} /\ v = u
                BY <2>2 DEF Leftover
            <3>2. ~Cut(k)
                BY <1>10, <2>2 DEF Cut
            <3>3. ~UnlinkPart(k)
                BY <1>10, <3>1 DEF UnlinkPart, Goto, handlers, Leftover, TypeInv, TypeOK
            <3>4. ~InsertUpload(k)
                BY <1>10, <3>1 DEF InsertUpload
            <3>5. pc[k] = "rmdir"
                BY <3>1, <3>2, <3>3, <3>4
                   DEF Move, Step, CheckBucket, MakeStagingDir, FindUpload,
                   ReceivePart, MakePartDir, RenamePart, RecordPart, Validate, AssemblePart,
                   PlaceObject, Commit, DeleteUploadRows, RemoveStagingDir
            <3>6. QED
                BY <1>8, <1>10, <3>1, <3>5
        <2>3. CASE u \notin Leftover(k)
            <3>1. u \notin staged
                BY <1>2, <1>4, <1>10, <2>1, <2>3 DEF LitterInv, NothingLeft
            <3>2. MakeStagingDir(k) => u # v
                BY <1>10 DEF MakeStagingDir, Goto, Leftover, TypeInv, TypeOK
            <3>3. MakePartDir(k) => u # v
                BY <1>2, <1>3, <1>10, <2>1 DEF MakePartDir, LitterAt
            <3>4. QED
                BY <3>1, <3>2, <3>3
                   DEF Move, Step, Cut, CheckBucket, MakeStagingDir, InsertUpload, FindUpload,
                   ReceivePart, MakePartDir, RenamePart, RecordPart, Validate, AssemblePart,
                   PlaceObject, Commit, DeleteUploadRows, UnlinkPart, RemoveStagingDir, disk
        <2>4. QED
            BY <2>2, <2>3
    <1>11. NothingLeft'
        <2> SUFFICES ASSUME NEW u \in Uploads, u \notin open', u \notin littered',
                            \A h \in Handlers : u \notin Leftover(h)'
                     PROVE  /\ u \notin staged'
                            /\ \A p \in PartsOf(u) : partRows'[p] = None /\ partFiles'[p] = None
            BY DEF NothingLeft, PartsOf
        <2>1. \A h \in Handlers : pc'[h] \in {"unlink", "rmdir"} => call'[h].id # u
            BY DEF Leftover
        <2>2. QED
            BY <1>7, <1>9, <1>10, <2>1
    <1>12. ASSUME NEW h \in Handlers \ {k} PROVE LitterAt(h)'
        <2> DEFINE u == call[h].id
        <2>1. LitterAt(h) /\ ShapeAt(h) /\ (Busy(h) => call[h] \in Calls)
            BY DEF LitterInv, TypeInv, ShapeAt
        <2>2. Busy(h) => u \in Uploads
            BY <2>1, CallFields
        <2>3. ASSUME pc[h] \in {"receive", "mkdir", "rename", "record"}
              PROVE  u \in open' \/ u \in littered'
            <3>1. call[h].op = "UploadPart" /\ Busy(h)
                BY <2>1, <2>3 DEF ShapeAt, Busy
            <3>2. CASE u \in open \ open'
                <4>1. u = v /\ Ends(call[k])
                    BY <1>5, <3>2
                <4>2. Meets(call[k], call[h])
                    BY <1>1, <2>1, <3>1, <4>1, MeetOverParts
                <4>3. u \in littered
                    BY <1>1, <3>1, <4>1, <4>2, MeetsSymmetric DEF MeetInv, MeetAt
                <4>4. QED
                    BY <1>2, <4>3
            <3>3. QED
                BY <1>2, <2>1, <2>3, <3>2 DEF LitterAt
        <2>4. ASSUME pc[h] = "rmdir", u \notin littered', NEW p \in PartsOf(u)
              PROVE  partFiles'[p] = None
            <3>1. u \notin open /\ u \notin littered /\ u \in Uploads
                BY <1>2, <2>2, <2>4 DEF EndInv, EndAt, Busy
            <3>2. partFiles[p] = None
                BY <2>1, <2>4, <3>1 DEF LitterAt
            <3>3. QED
                BY <1>6, <2>4, <3>1, <3>2
        <2>5. QED
            BY <1>1, <2>3, <2>4 DEF LitterAt, PartsOf
    <1>13. LitterAt(k)'
        <2>1. ASSUME pc'[k] \in {"receive", "mkdir", "rename", "record"}
              PROVE  call'[k] = call[k] /\ (v \in open' \/ v \in littered')
            <3>1. call'[k] = call[k]
                BY <1>2, <2>1 DEF Busy
            <3>2. v \in open \/ v \in littered
                <4>1. CASE FindUpload(k)
                    BY <2>1, <4>1 DEF FindUpload, Refuse, End, TypeInv, TypeOK
                <4>2. CASE ~FindUpload(k)
                    <5>1. pc[k] \in {"receive", "mkdir", "rename", "record"}
                        BY <2>1, <4>2 DEF Move, Step, Cut, CheckBucket, MakeStagingDir, InsertUpload,
                           ReceivePart, MakePartDir, RenamePart, RecordPart, Validate, AssemblePart,
                           PlaceObject, Commit, DeleteUploadRows, UnlinkPart, RemoveStagingDir,
                           Goto, Finish, Refuse, End, handlers, Busy, TypeInv, TypeOK
                    <5>2. QED
                        BY <1>3, <5>1 DEF LitterAt
                <4>3. QED
                    BY <4>1, <4>2
            <3>3. QED
                BY <1>2, <1>5, <2>1, <3>1, <3>2
        <2>2. ASSUME pc'[k] = "rmdir"
              PROVE  call'[k] = call[k] /\ \A p \in PartsOf(v) : partFiles'[p] = None
            <3>1. UnlinkPart(k)
                <4>1. call[k].op \in {"UploadPart", "Complete", "Abort"} =>
                          AfterFind(call[k]) \in {"receive", "validate", "delrows"}
                    BY DEF AfterFind
                <4>2. QED
                    BY <1>1, <1>3, <2>2, <4>1
                       DEF Move, Step, Cut, CheckBucket, MakeStagingDir, InsertUpload, FindUpload,
                       ReceivePart, MakePartDir, RenamePart, RecordPart, Validate, AssemblePart,
                       PlaceObject, Commit, DeleteUploadRows, RemoveStagingDir,
                       Goto, Finish, Refuse, End, Busy, ShapeAt, TypeInv, TypeOK
            <3>2. QED
                BY <2>2, <3>1 DEF UnlinkPart, Goto, handlers, TypeInv, TypeOK
        <2>3. QED
            BY <2>1, <2>2 DEF LitterAt, PartsOf
    <1>14. QED
        BY <1>7, <1>9, <1>11, <1>12, <1>13 DEF LitterInv, PartsOf

------------------------------------------------------------------------------
(* The theorems.                                                           *)

UploadInv ==
    TypeInv /\ MeetInv /\ PartsInv /\ ObjectsInv /\ MintInv /\ EndInv /\ LitterInv

LEMMA UploadInvStutters ==
    ASSUME UploadInv, UNCHANGED vars
    PROVE  UploadInv'
    <1> USE DEF vars, database, disk, handlers, outcome, history
    <1>1. \A h \in Handlers : Exposed(h)' = Exposed(h) /\ Leftover(h)' = Leftover(h)
        BY DEF Exposed, Leftover, Ours, Ends
    <1>2. \A x : Pending(x)' = Pending(x)
        BY <1>1 DEF Pending
    <1>3. TypeInv'
        BY DEF UploadInv, TypeInv, TypeOK, ShapeAt, Busy, Ends
    <1>4. MeetInv'
        BY DEF UploadInv, MeetInv, MeetAt, Meets, Mutates, Spoiled, Ours, Target, Ends, Busy
    <1>5. PartsInv'
        BY <1>2 DEF UploadInv, PartsInv, PartsSettled, StagedAt, Sure, PartsOf
    <1>6. ObjectsInv'
        <2>1. ObjectsWhole'
            BY <1>2 DEF UploadInv, ObjectsInv, ObjectsWhole
        <2>2. ASSUME NEW h \in Handlers PROVE CompleteAt(h)'
            <3>1. Trusted(h)' = Trusted(h)
                BY DEF Trusted, Tainted
            <3>2. AssembledAt(h)' = AssembledAt(h)
                BY DEF AssembledAt, Listed
            <3>3. QED
                BY <3>1, <3>2 DEF UploadInv, ObjectsInv, CompleteAt, Busy
        <2>3. QED
            BY <2>1, <2>2 DEF ObjectsInv
    <1>7. MintInv'
        BY DEF UploadInv, MintInv, Created, Busy
    <1>8. EndInv'
        BY DEF UploadInv, EndInv, EndsOnce, EndAt
    <1>9. LitterInv'
        BY <1>1 DEF UploadInv, LitterInv, NothingLeft, LitterAt, PartsOf
    <1>10. QED
        BY <1>3, <1>4, <1>5, <1>6, <1>7, <1>8, <1>9 DEF UploadInv

\* The inductive invariant: whatever the requests that meet, fail and are cut short,
\* each handler knows what it has come to unless it has met another one.
THEOREM UploadsInductive == Spec => []UploadInv
    <1>1. Init => UploadInv
        BY TypeInit, PartsInit, ObjectsInit, MintInit, EndInit, LitterInit
           DEF UploadInv, MeetInv, Init, Busy
    <1>2. UploadInv /\ [Next]_vars => UploadInv'
        <2> SUFFICES ASSUME UploadInv, [Next]_vars PROVE UploadInv'
            OBVIOUS
        <2>1. ASSUME NEW h \in Handlers, NEW c \in Calls, Send(h, c) PROVE UploadInv'
            BY <2>1, TypeSend, MeetSend, PartsSend, ObjectsSend, MintSend, EndSend, LitterSend
               DEF UploadInv
        <2>2. ASSUME NEW h \in Handlers, Move(h) PROVE UploadInv'
            BY <2>2, TypeMove, MeetMove, PartsMove, ObjectsMove, MintMove, EndMove, LitterMove
               DEF UploadInv
        <2>3. QED
            BY <2>1, <2>2, UploadInvStutters DEF Next, Move
    <1>3. QED
        BY <1>1, <1>2, PTL DEF Spec

\* The variables keep their types.
THEOREM UploadsTyped == Spec => []TypeOK
    BY UploadsInductive, PTL DEF UploadInv, TypeInv

\* A part's row and file agree wherever no UploadPart has met another request on the
\* part or been cut short (upload_part, put_part, delete_multipart).
THEOREM PartsAreSettled == Spec => []PartsSettled
    BY UploadsInductive, PTL DEF UploadInv, PartsInv

\* An object's row and file agree wherever its Complete used nothing in doubt
\* (assemble_parts, complete_multipart).
THEOREM ObjectsAreWhole == Spec => []ObjectsWhole
    BY UploadsInductive, PTL DEF UploadInv, ObjectsInv

\* A Complete stores what its client listed (validate_complete, composite_etag).
THEOREM CompletesStoreTheirList == Spec => []CompleteStoresList
    <1>1. UploadInv => CompleteStoresList
        BY ObjectsStored DEF UploadInv
    <1>2. QED
        BY <1>1, UploadsInductive, PTL

\* Nothing is left of an upload that is over (complete_multipart, delete_multipart).
THEOREM NothingIsLeft == Spec => []NothingLeft
    BY UploadsInductive, PTL DEF UploadInv, LitterInv

\* An upload that two requests have not ended at once ends one way (get_multipart,
\* complete_multipart).
THEOREM UploadsEndOnce == Spec => []EndsOnce
    BY UploadsInductive, PTL DEF UploadInv, EndInv

\* No upload opens again: once somebody has found, completed or aborted it and its row
\* is gone, no request brings the row back (create_multipart_upload, new_upload_id).
NeverReopened ==
    [][\A u \in Uploads : Created(u) /\ u \notin open => u \notin open']_vars

THEOREM UploadsNeverReopen == Spec => NeverReopened
    <1>1. UploadInv /\ [Next]_vars
             => [\A u \in Uploads : Created(u) /\ u \notin open => u \notin open']_vars
        <2> SUFFICES ASSUME UploadInv, Next, NEW u \in Uploads, Created(u), u \notin open
                     PROVE  u \notin open'
            OBVIOUS
        <2>1. ASSUME NEW h \in Handlers, NEW c \in Calls, Send(h, c) PROVE u \notin open'
            BY <2>1 DEF Send, database
        <2>2. ASSUME NEW h \in Handlers, InsertUpload(h) PROVE u \notin open'
            <3>1. pc[h] = "insert" /\ call[h].op = "Create" /\ Busy(h)
                BY <2>2 DEF InsertUpload, UploadInv, TypeInv, ShapeAt, Busy
            <3>2. call[h].id # u
                BY <3>1 DEF Created
            <3>3. QED
                BY <2>2, <3>2 DEF InsertUpload
        <2>3. ASSUME NEW h \in Handlers, Move(h), ~InsertUpload(h) PROVE u \notin open'
            BY <2>3 DEF Move, Step, Cut, CheckBucket, MakeStagingDir, FindUpload, ReceivePart,
               MakePartDir, RenamePart, RecordPart, Validate, AssemblePart, PlaceObject, Commit,
               UploadGoes, DeleteUploadRows, UnlinkPart, RemoveStagingDir, database
        <2>4. QED
            BY <2>1, <2>2, <2>3 DEF Next, Move
    <1>2. QED
        BY <1>1, UploadsInductive, PTL DEF Spec, NeverReopened

==============================================================================

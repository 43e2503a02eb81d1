------------------------------ MODULE Catalogue ------------------------------
(***************************************************************************)
(* What cubby promises about its catalogue, the buckets that exist and the *)
(* objects in them with their ETags, with no files, no temporary files and *)
(* no steps in between.  A request takes effect on the catalogue at most   *)
(* once, all at once, at some instant between the moment it is sent and    *)
(* the moment it is answered: an answer of success follows the effect, a   *)
(* refusal (a 4xx) means that there was none, and of a failed request (a   *)
(* 500) or one whose client never hears back either may be true.           *)
(*                                                                         *)
(* ObjectStore implements this module.                                     *)
(***************************************************************************)
EXTENDS ObjectCalls

VARIABLES
    buckets,   \* the buckets that exist
    rows,      \* rows[o]: the ETag of object o, None where there is no object
    call,      \* call[r]: what request r asks for
    stage,     \* stage[r]: how far r has come
    seen       \* seen[r]: the ETag that r found on the object it reads

vars == <<buckets, rows, call, stage, seen>>

Stages == {"idle", "pending", "applied", "ok", "refused", "failed", "lost"}

\* The variables have their types.
TypeOK ==
    /\ buckets \subseteq Buckets
    /\ rows \in [Objects -> Bodies \union {None}]
    /\ call \in [Requests -> Calls \union {None}]
    /\ stage \in [Requests -> Stages]
    /\ seen \in [Requests -> Bodies \union {None}]

Init ==
    /\ buckets \in SUBSET Buckets
    /\ rows \in [Objects -> Bodies \union {None}]
    /\ call = [r \in Requests |-> None]
    /\ stage = [r \in Requests |-> "idle"]
    /\ seen = [r \in Requests |-> None]

Move(r, from, to) ==
    /\ stage[r] \in from
    /\ stage' = [stage EXCEPT ![r] = to]

Send(r, c) ==
    /\ Move(r, {"idle"}, "pending")
    /\ call' = [call EXCEPT ![r] = c]
    /\ UNCHANGED <<buckets, rows, seen>>

\* GetObject, HeadObject and CopyObject find what they read at one instant.
Look(r) ==
    /\ stage[r] = "pending"
    /\ \E o \in Reads(call[r]) :
          /\ rows[o] # None
          /\ seen' = [seen EXCEPT ![r] = rows[o]]
    /\ UNCHANGED <<buckets, rows, call, stage>>

\* The one instant at which r changes the catalogue.
CreateBucket(r) ==
    /\ call[r].op = "CreateBucket"
    /\ call[r].bucket \notin buckets
    /\ buckets' = buckets \union {call[r].bucket}
    /\ UNCHANGED rows

DeleteBucket(r) ==
    /\ call[r].op = "DeleteBucket"
    /\ call[r].bucket \in buckets
    /\ \A o \in ObjectsIn(call[r].bucket) : rows[o] = None
    /\ buckets' = buckets \ {call[r].bucket}
    /\ UNCHANGED rows

PutObject(r) ==
    /\ call[r].op = "PutObject"
    /\ rows' = [rows EXCEPT ![call[r].obj] = call[r].body]
    /\ UNCHANGED buckets

CopyObject(r) ==
    /\ call[r].op = "CopyObject"
    /\ seen[r] # None
    /\ rows' = [rows EXCEPT ![call[r].obj] = seen[r]]
    /\ UNCHANGED buckets

RemoveObjects(r) ==
    /\ call[r].op \in {"DeleteObject", "DeleteObjects"}
    /\ rows' = [o \in Objects |-> IF o \in Mutates(call[r]) THEN None ELSE rows[o]]
    /\ UNCHANGED buckets

Apply(r) ==
    /\ Move(r, {"pending"}, "applied")
    /\ \/ CreateBucket(r)
       \/ DeleteBucket(r)
       \/ PutObject(r)
       \/ CopyObject(r)
       \/ RemoveObjects(r)
    /\ UNCHANGED <<call, seen>>

\* Success: the effect has happened, or what was to be read has been found.
Succeed(r) ==
    /\ \/ Move(r, {"applied"}, "ok")
       \/ /\ Move(r, {"pending"}, "ok")
          /\ call[r].op \in ReadOps
          /\ seen[r] # None
    /\ UNCHANGED <<buckets, rows, call, seen>>

\* A refusal: the catalogue has not been touched.
Refuse(r) ==
    /\ Move(r, {"pending"}, "refused")
    /\ UNCHANGED <<buckets, rows, call, seen>>

\* An internal error, before or after the effect.
Fail(r) ==
    /\ Move(r, {"pending", "applied"}, "failed")
    /\ UNCHANGED <<buckets, rows, call, seen>>

\* The server stops, or the clients Q hang up, before or after the effect.
Lose(Q) ==
    /\ \A r \in Q : stage[r] \in {"pending", "applied"}
    /\ stage' = [r \in Requests |-> IF r \in Q THEN "lost" ELSE stage[r]]
    /\ UNCHANGED <<buckets, rows, call, seen>>

\* An offline reindex adds buckets and objects and alters none that is there.
Adopt ==
    /\ buckets \subseteq buckets' /\ buckets' \subseteq Buckets
    /\ rows' \in [Objects -> Bodies \union {None}]
    /\ \A o \in Objects : rows[o] # None => rows'[o] = rows[o]
    /\ UNCHANGED <<call, stage, seen>>

Next ==
    \/ \E r \in Requests :
          \/ \E c \in Calls : Send(r, c)
          \/ Look(r)
          \/ Apply(r)
          \/ Succeed(r)
          \/ Refuse(r)
          \/ Fail(r)
    \/ \E Q \in SUBSET Requests : Lose(Q)
    \/ Adopt

Spec == Init /\ [][Next]_vars

==============================================================================

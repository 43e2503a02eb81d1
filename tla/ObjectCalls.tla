----------------------------- MODULE ObjectCalls -----------------------------
(***************************************************************************)
(* The object API as a client sees it: the calls, and the objects that     *)
(* each one changes or reads.  A body stands for its own MD5, so it is at  *)
(* once the bytes of an object and its (single-part) ETag.                 *)
(***************************************************************************)
CONSTANTS
    Buckets, Keys,   \* the names clients use
    Bodies,          \* the contents clients send
    Requests,        \* the requests that may be made, each at most once
    Ops,             \* the operations clients use
    None             \* no row, no file, no value

Objects == Buckets \X Keys

ObjectsIn(b) == {b} \X Keys

BucketOps == {"CreateBucket", "DeleteBucket"}
WriteOps  == {"PutObject", "CopyObject"}
ReadOps   == {"GetObject", "HeadObject"}
AllOps    == BucketOps \union WriteOps \union ReadOps
                 \union {"DeleteObject", "DeleteObjects"}

ASSUME OpsAssumption == Ops \subseteq AllOps

ASSUME NoneAssumption == None \notin Bodies

AllCalls ==
    [op : BucketOps, bucket : Buckets]
      \union [op : {"PutObject"}, obj : Objects, body : Bodies]
      \union [op : {"CopyObject"}, src : Objects, obj : Objects]
      \union [op : ReadOps \union {"DeleteObject"}, obj : Objects]
      \union [op : {"DeleteObjects"}, bucket : Buckets, keys : SUBSET Keys]

Calls == {c \in AllCalls : c.op \in Ops}

\* The bucket whose existence or directory a call depends on.
BucketOf(c) ==
    IF c.op \in BucketOps \union {"DeleteObjects"} THEN c.bucket ELSE c.obj[1]

\* The objects whose row or file a call may change.
Mutates(c) ==
    CASE c.op \in WriteOps \union {"DeleteObject"} -> {c.obj}
      [] c.op = "DeleteObjects"                    -> {c.bucket} \X c.keys
      [] c.op = "DeleteBucket"                     -> ObjectsIn(c.bucket)
      [] OTHER                                     -> {}

\* The objects whose row or file a call looks at without changing it.
Reads(c) ==
    CASE c.op = "CopyObject" -> {c.src}
      [] c.op \in ReadOps    -> {c.obj}
      [] OTHER               -> {}

==============================================================================

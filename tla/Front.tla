--------------------------------- MODULE Front --------------------------------
(***************************************************************************)
(* The routing layer in front of the S3 service (http.rs, access_log.rs):  *)
(* which requests reach the service, what the live log records of them,    *)
(* and the headers that let a page of another origin read the answer.  The *)
(* rules for these are state of a bucket (table bucket_cors), which other  *)
(* requests change meanwhile.  The web UI's requests are routed to its own *)
(* handlers, of which those that read or change that state are here too.   *)
(*                                                                         *)
(* Each request is a task of its own; its steps are those between which    *)
(* others run.  It is dropped where it is when its connection ends.        *)
(***************************************************************************)
EXTENDS Cors, UiApi, FiniteSets

CONSTANTS
    Buckets,
    Requests,    \* the requests that may be made, each at most once
    Inputs,      \* what they may ask for
    Configs,     \* the rules that a bucket may have to begin with
    None         \* no bucket, no header, no operation, no rules

\* Requests for the UI, of browsers and for the list of buckets name no bucket.
ASSUME NamesAssumption == {"ui", "probe", "root"} \intersect Buckets = {}

\* Rules that a bucket has to begin with were accepted by a PutBucketCors.
ASSUME ConfigsAssumption == \A rules \in Configs : Valid(rules)

\* s3s finds CreateBucket only in a request that names a bucket, and None is
\* nothing that the access hook records.
ASSUME OperationsAssumption ==
    \A q \in Inputs :
        /\ q.op = "CreateBucket" => q.to \in Buckets
        /\ [op |-> q.op, auth |-> q.sign] # None

VARIABLES
    buckets,   \* the rows of table buckets
    cors,      \* cors[b]: the rules in table bucket_cors, or None
    at,        \* at[r]: where request r is
    asked,     \* asked[r]: its input
    status,    \* status[r]: that of the response
    slot,      \* slot[r]: the operation and authentication that s3s found
    grant,     \* grant[r]: the headers that its answer carries, or NoGrant
    lines,     \* the live log
    read,      \* history: the rules from which grant[r] was made
    fresh      \* history: the rules of b were put after it was last created

config  == <<buckets, cors, fresh>>
reply   == <<status, slot, grant, read>>

vars == <<config, at, asked, reply, lines>>

\* An input: the method, where it goes ("ui", "probe", "root" or a bucket), the
\* operation that s3s finds in it (None if it finds none), the rules it
\* carries, how it is signed ("header", "presigned", "none", "bad"), its Origin,
\* the method and headers that a preflight asks about, and whether it accepts
\* HTML.  For the UI: the path after /_/api/ (None for an asset), whether it asks
\* for content, and the bucket in its body.  Of a request of the page for an
\* object: the bucket and the key that it means, whatever its URL comes to.
Open   == {"run", "put", "served", "ui"}
Closed == {"answered", "failed", "gone"}

\* The variables have their types: the rules of a bucket name methods of S3
\* only, and a request has a status once its response exists.
TypeOK ==
    /\ buckets \subseteq Buckets
    /\ \A b \in Buckets : cors[b] # None =>
          cors[b] # <<>> /\ \A i \in DOMAIN cors[b] : cors[b][i].methods \subseteq S3Methods
    /\ fresh \in [Buckets -> BOOLEAN]
    /\ at \in [Requests -> Open \union Closed \union {"none", "detached"}]
    /\ asked \in [Requests -> Inputs \union {None}]
    /\ status \in [Requests -> {0, 200, 201, 204, 302, 400, 403, 404, 405, 409, 500, 501}]
    /\ \A r \in Requests : at[r] \in {"served", "answered"} <=> status[r] # 0
    /\ \A i \in DOMAIN lines : lines[i].req \in Requests /\ lines[i].status # 0

Init ==
    /\ buckets \in SUBSET Buckets
    /\ cors \in [Buckets -> Configs \union {None}]
    /\ \A b \in Buckets \ buckets : cors[b] = None
    /\ fresh = [b \in Buckets |-> TRUE]
    /\ at = [r \in Requests |-> "none"]
    /\ asked = [r \in Requests |-> None]
    /\ status = [r \in Requests |-> 0]
    /\ slot = [r \in Requests |-> None]
    /\ grant = [r \in Requests |-> NoGrant]
    /\ lines = <<>>
    /\ read = [r \in Requests |-> None]

------------------------------------------------------------------------------
(* What several steps do.                                                  *)

RulesOf(b) == IF b \in Buckets /\ cors[b] # None THEN cors[b] ELSE <<>>

\* What a reader gets: no rules also when the database fails.
RulesRead(b) == {RulesOf(b), <<>>}

\* emit_event, with what is known of the request.
Line(r, op, auth, code) == [req |-> r, op |-> op, auth |-> auth, status |-> code]

Log(line) == lines' = Append(lines, line)

Goes(r, where) == at' = [at EXCEPT ![r] = where]

Serve(r, code) ==
    /\ Goes(r, "served")
    /\ status' = [status EXCEPT ![r] = code]

------------------------------------------------------------------------------
(* Routing: Router::call, in this order.                                   *)

ForUi(q) == q.to = "ui"

\* The path need only begin with a name: /favicon.ico is taken for a bucket, one
\* without rules.
ForPreflight(q) ==
    q.method = "OPTIONS" /\ q.origin # None /\ q.wants # None /\ q.to \in Buckets \union {"probe"}

\* looks_like_browser: HTML, and no sign of SigV4.
FrontDoor(q) == q.to = "root" /\ q.method = "GET" /\ q.html /\ q.sign = "none"

ForS3(q) == ~ForUi(q) /\ ~ForPreflight(q) /\ q.to # "probe" /\ ~FrontDoor(q)

ForApi(q) == ForUi(q) /\ q.path # None

\* What the page asks for an object, of a bucket and a key that are not empty
\* (web/src/lib/api.ts), comes from the browser with its URL resolved, which may
\* lead out of the API.
ASSUME PageAssumption ==
    \A q \in Inputs : q.key # None =>
        /\ q.method \in {"GET", "PUT", "DELETE"}
        /\ q.bucket \in Seq(STRING) \ ({<<>>} \union DotSegments)
        /\ q.key \in Seq(Seq(STRING)) \ {<<>>, <<<<>>>>}
        /\ LET url == Resolved(ObjectUrl(q.bucket, q.key))
           IN /\ ForUi(q) <=> url[1] = <<"_">>
              /\ ForApi(q) <=> InApi(url)
              /\ ForApi(q) => q.path = ApiPath(url)

\* Assets of the web UI, probes of browsers and the way to the UI: 404 to a probe,
\* unless it is a preflight.
AnswerAside(r, q) ==
    /\ ~ForS3(q) /\ ~ForPreflight(q) /\ ~ForApi(q)
    /\ Goes(r, "answered")
    /\ status' = [status EXCEPT ![r] = IF q.to = "probe" THEN 404 ELSE IF q.to = "root" THEN 302 ELSE 200]
    /\ UNCHANGED <<slot, grant, read, lines>>

\* maybe_preflight: before s3s, since it is not signed.
\* (variant: the refusals are not recorded)
AnswerPreflightGranted(r, q) ==
    /\ ForPreflight(q)
    /\ Goes(r, "answered")
    /\ \E rules \in RulesRead(q.to) :
          LET g == MatchPreflight(rules, q.origin, q.wants, q.headers)
              code == IF g = NoGrant THEN 403 ELSE 204
          IN /\ grant' = [grant EXCEPT ![r] = g]
             /\ read' = [read EXCEPT ![r] = rules]
             /\ status' = [status EXCEPT ![r] = code]
             /\ IF g = NoGrant THEN UNCHANGED lines ELSE Log(Line(r, "Preflight", "none", code))
    /\ UNCHANGED slot

AnswerPreflight(r, q) ==
    /\ ForPreflight(q)
    /\ Goes(r, "answered")
    /\ \E rules \in RulesRead(q.to) :
          LET g == MatchPreflight(rules, q.origin, q.wants, q.headers)
              code == IF g = NoGrant THEN 403 ELSE 204
          IN /\ grant' = [grant EXCEPT ![r] = g]
             /\ read' = [read EXCEPT ![r] = rules]
             /\ status' = [status EXCEPT ![r] = code]
             /\ Log(Line(r, "Preflight", "none", code))
    /\ UNCHANGED slot

PassOn(r, q) ==
    /\ ForS3(q) \/ ForApi(q)
    /\ Goes(r, IF ForApi(q) THEN "ui" ELSE "run")
    /\ UNCHANGED <<reply, lines>>

Arrive(r, q) ==
    /\ at[r] = "none"
    /\ asked' = [asked EXCEPT ![r] = q]
    /\ AnswerAside(r, q) \/ AnswerPreflight(r, q) \/ PassOn(r, q)
    /\ UNCHANGED config

------------------------------------------------------------------------------
(* The API of the UI: unsigned, without CORS, and without lines.           *)

Route(q) == Dispatch(q.method, q.path, q.content)

AnswerUi(r, by, code) ==
    /\ at[r] = "ui" /\ Route(asked[r]).by = by
    /\ Goes(r, "answered")
    /\ status' = [status EXCEPT ![r] = code]
    /\ UNCHANGED <<asked, slot, grant, read, lines>>

\* create in api/buckets.rs, once the body is there; it may name no valid bucket.
UiCreateBucket(r) ==
    LET b == asked[r].names
    IN /\ AnswerUi(r, "create bucket", IF b \notin Buckets THEN 400 ELSE IF b \in buckets THEN 409 ELSE 200)
       /\ buckets' = buckets \union ({b} \intersect Buckets)
       /\ fresh' = [c \in Buckets |-> IF c = b /\ b \notin buckets THEN FALSE ELSE fresh[c]]
       /\ UNCHANGED cors

\* get in api/cors.rs: the rules, also of no bucket.
UiReadRules(r) == AnswerUi(r, "read rules", 200) /\ UNCHANGED config

\* A path or a method that no handler takes.
UiRefuse(r) == AnswerUi(r, "nobody", Route(asked[r]).code) /\ UNCHANGED config

\* Handlers of objects, destinations and the rest, with success or an error.
UiOther(r) ==
    /\ Route(asked[r]).by \notin {"create bucket", "read rules", "nobody"}
    /\ \E code \in {200, 404} : AnswerUi(r, Route(asked[r]).by, code)
    /\ UNCHANGED config

UiStep(r) ==
    /\ at[r] = "ui"
    /\ UiCreateBucket(r) \/ UiReadRules(r) \/ UiRefuse(r) \/ UiOther(r)

------------------------------------------------------------------------------
(* The S3 service.                                                         *)

\* s3s refuses a wrong signature and what it finds no operation in, be it signed
\* or not, before it calls the access hook.
WronglySigned(r) ==
    /\ at[r] = "run" /\ asked[r].sign = "bad"
    /\ Serve(r, 403)
    /\ UNCHANGED <<config, asked, slot, grant, read, lines>>

NoOperation(r) ==
    /\ at[r] = "run" /\ asked[r].op = None
    /\ Serve(r, 501)
    /\ UNCHANGED <<config, asked, slot, grant, read, lines>>

\* AccessLog::check: records the operation, and then refuses who is anonymous.
Recorded(r) == slot' = [slot EXCEPT ![r] = [op |-> asked[r].op, auth |-> asked[r].sign]]

Denied(r) ==
    /\ at[r] = "run" /\ asked[r].op # None /\ asked[r].sign = "none"
    /\ Recorded(r)
    /\ Serve(r, 403)
    /\ UNCHANGED <<config, asked, grant, read, lines>>

\* A right signature, and an operation to run.
MayRun(q) == q.op # None /\ q.sign \notin {"none", "bad"}

Runs(r, ops) ==
    /\ at[r] = "run" /\ asked[r].op \in ops /\ MayRun(asked[r])
    /\ Recorded(r)
    /\ UNCHANGED <<asked, grant, read, lines>>

CreateBucket(r) ==
    LET b == asked[r].to
    IN /\ Runs(r, {"CreateBucket"})
       /\ Serve(r, IF b \in buckets THEN 409 ELSE 200)
       /\ buckets' = buckets \union {b}
       /\ fresh' = IF b \in buckets THEN fresh ELSE [fresh EXCEPT ![b] = FALSE]
       /\ UNCHANGED cors

\* The rules go with their bucket: ON DELETE CASCADE.  A bucket may be refused for
\* the objects in it, which are not in this module.
DeleteBucket(r) ==
    LET b == asked[r].to
    IN /\ Runs(r, {"DeleteBucket"})
       /\ \/ /\ Serve(r, IF b \in buckets THEN 204 ELSE 404)
             /\ buckets' = buckets \ {b}
             /\ cors' = [cors EXCEPT ![b] = None]
          \/ /\ b \in buckets
             /\ Serve(r, 409)
             /\ UNCHANGED <<buckets, cors>>
       /\ UNCHANGED fresh

DeleteBucketCors(r) ==
    /\ Runs(r, {"DeleteBucketCors"})
    /\ Serve(r, 204)
    /\ cors' = [cors EXCEPT ![asked[r].to] = None]
    /\ UNCHANGED <<buckets, fresh>>

\* put_bucket_cors: the bucket and the rules are looked at, and then ...
BeginPutBucketCors(r) ==
    LET b == asked[r].to
    IN /\ Runs(r, {"PutBucketCors"})
       /\ CASE b \notin buckets                              -> Serve(r, 404)
            [] b \in buckets /\ ~Valid(asked[r].rules)       -> Serve(r, 400)
            [] b \in buckets /\ Valid(asked[r].rules)        -> Goes(r, "put") /\ UNCHANGED status
       /\ UNCHANGED config

\* ... the row is replaced, if the bucket is still there: a foreign key.
\* (variant: no foreign key)
ReplaceAnyway(b, rules) ==
    /\ cors' = [cors EXCEPT ![b] = rules]
    /\ fresh' = [fresh EXCEPT ![b] = TRUE]

Replace(b, rules) ==
    IF b \in buckets
    THEN cors' = [cors EXCEPT ![b] = rules] /\ fresh' = [fresh EXCEPT ![b] = TRUE]
    ELSE UNCHANGED <<cors, fresh>>

EndPutBucketCors(r) ==
    /\ at[r] = "put"
    /\ Replace(asked[r].to, asked[r].rules)
    /\ Serve(r, IF asked[r].to \in buckets THEN 200 ELSE 500)
    /\ UNCHANGED <<buckets, asked, slot, grant, read, lines>>

\* Any other operation, with success or an error.
RunOther(r) ==
    /\ Runs(r, {"GetObject", "PutObject", "ListBuckets"})
    /\ \E code \in {200, 404} : Serve(r, code)
    /\ UNCHANGED config

------------------------------------------------------------------------------
(* The capture: log_and_serve_s3 after the call.                           *)

\* apply_actual_cors: the rules as they are now, whatever the request did.
Access(q, rules) ==
    IF q.origin = None \/ q.to \notin Buckets THEN NoGrant
    ELSE MatchActual(rules, q.origin, q.method)

Capture(r) ==
    LET op == IF slot[r] = None THEN None ELSE slot[r].op
        auth == IF slot[r] = None THEN "none" ELSE slot[r].auth
    IN /\ at[r] = "served"
       /\ \E rules \in RulesRead(asked[r].to) :
             /\ grant' = [grant EXCEPT ![r] = Access(asked[r], rules)]
             /\ read' = [read EXCEPT ![r] = rules]
       /\ Log(Line(r, op, auth, status[r]))
       /\ Goes(r, "answered")
       /\ UNCHANGED <<config, asked, status, slot>>

\* The call itself fails: a line, and no answer.
TransportError(r) ==
    /\ at[r] = "run"
    /\ Log(Line(r, None, "none", 500))
    /\ Goes(r, "failed")
    /\ UNCHANGED <<config, asked, reply>>

------------------------------------------------------------------------------
(* The world.                                                              *)

\* The connection ends and the handler is dropped: no line, whatever the
\* request has done.  A statement that the database has begun is not stopped.
HangUp(r) ==
    /\ at[r] \in Open
    /\ Goes(r, IF at[r] = "put" THEN "detached" ELSE "gone")
    /\ status' = [status EXCEPT ![r] = 0]
    /\ UNCHANGED <<config, asked, slot, grant, read, lines>>

PutDetached(r) ==
    /\ at[r] = "detached"
    /\ Replace(asked[r].to, asked[r].rules)
    /\ Goes(r, "gone")
    /\ UNCHANGED <<buckets, asked, reply, lines>>

S3Step(r) ==
    \/ WronglySigned(r) \/ NoOperation(r) \/ Denied(r)
    \/ CreateBucket(r) \/ DeleteBucket(r)
    \/ DeleteBucketCors(r) \/ BeginPutBucketCors(r) \/ EndPutBucketCors(r)
    \/ RunOther(r)

Next ==
    \E r \in Requests :
        \/ \E q \in Inputs : Arrive(r, q)
        \/ UiStep(r) \/ S3Step(r) \/ Capture(r) \/ TransportError(r)
        \/ HangUp(r) \/ PutDetached(r)

Spec == Init /\ [][Next]_vars

------------------------------------------------------------------------------
(* Properties.                                                             *)

\* The rules are state of a bucket: there are none without it, also when a
\* PutBucketCors was under way as it was deleted, and a bucket that is created
\* again begins without rules.
RulesNeedBucket ==
    \A b \in Buckets : cors[b] # None => b \in buckets /\ fresh[b]

\* What a preflight grants, the answer to the request that follows does not
\* take back: if the rules are the same, a page may read the answer, also that
\* of an error.
PreflightHonoured ==
    \A p, r \in Requests :
        (/\ at[p] = "answered" /\ ForPreflight(asked[p]) /\ grant[p] # NoGrant
         /\ at[r] = "answered" /\ ForS3(asked[r])
         /\ asked[r].to = asked[p].to /\ asked[r].origin = asked[p].origin
         /\ asked[r].method = asked[p].wants /\ read[r] = read[p])
            => grant[r] # NoGrant /\ grant[r].allow \in {<<Star>>, asked[r].origin}

LinesOf(r) == {i \in DOMAIN lines : lines[i].req = r}

\* The statuses with which a request of S3 that may not run is turned away: that
\* for want of an operation comes only if there is none.
Refusals(q) ==
    IF q.op # None THEN {403} ELSE IF q.sign = "bad" THEN {403, 501} ELSE {501}

\* The live log has one line for each S3 request and preflight that was
\* answered, none for what is not S3, and none yet of one that has not been
\* answered; the line has the status of the answer and, if the signature was
\* not wrong, the operation, also of a request that was denied.  Whoever may not
\* run an operation is told so.
LoggedTruly ==
    \A r \in Requests : asked[r] # None =>
        /\ at[r] = "answered" =>
              Cardinality(LinesOf(r)) = IF ForS3(asked[r]) \/ ForPreflight(asked[r]) THEN 1 ELSE 0
        /\ at[r] \in Open \union {"detached", "gone"} => LinesOf(r) = {}
        /\ \A i \in LinesOf(r) : at[r] = "answered" =>
              /\ lines[i].status = status[r]
              /\ ForS3(asked[r]) /\ asked[r].sign # "bad" => lines[i].op = asked[r].op
              /\ ForS3(asked[r]) /\ ~MayRun(asked[r]) => status[r] \in Refusals(asked[r])

\* What the page asks for an object of a bucket comes to the handler of objects,
\* for that bucket and key, unless a segment of the key is "." or "..", which the
\* browser takes out, or begins with the word that separates notifications, or
\* the page asks for the data of a key whose last segment is "content" and gets
\* its bytes.
UiReaches(q) ==
    q.key # None =>
        \/ /\ ForApi(q) /\ Route(q).by \in {"content", "meta", "upload", "delete object"}
           /\ Route(q).bucket = <<q.bucket>> /\ Route(q).item = q.key
           /\ q.method = "GET" /\ q.key[Len(q.key)] # <<"content">> =>
                 (Route(q).by = "content" <=> q.content)
        \/ \E i \in DOMAIN q.key :
              \/ q.key[i] \in DotSegments
              \/ q.key[i] # <<>> /\ q.key[i][1] = "notifications"

\* Requests are answered where they should be and leave the lines they should.
HandledAndLogged ==
    LoggedTruly /\ \A r \in Requests : at[r] = "answered" => UiReaches(asked[r])

==============================================================================

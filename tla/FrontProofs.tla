------------------------------ MODULE FrontProofs ------------------------------
(***************************************************************************)
(* Theorems about Front, for any buckets, requests, inputs and rules.      *)
(***************************************************************************)
EXTENDS Front, FiniteSetTheorems, SequenceTheorems, TLAPS

------------------------------------------------------------------------------
(* The rules of buckets.                                                   *)

\* The functions on buckets stay functions on buckets, and no rules are without
\* their bucket or older than it.
RulesInv ==
    /\ cors = [b \in Buckets |-> cors[b]]
    /\ fresh = [b \in Buckets |-> fresh[b]]
    /\ RulesNeedBucket

\* The rules that a bucket has were put since the bucket was created, and
\* there are none without a bucket: whatever PutBucketCors, DeleteBucket and
\* CreateBucket, of S3 or of the UI, do between one another's steps, and also
\* when the client of a PutBucketCors is gone before its statement runs.
THEOREM RulesNeedBucketAlways == Spec => []RulesNeedBucket
<1>1. Init => RulesInv
  BY DEF Init, RulesInv, RulesNeedBucket
<1>2. RulesInv /\ [Next]_vars => RulesInv'
  <2> SUFFICES ASSUME RulesInv, [Next]_vars PROVE RulesInv'
    OBVIOUS
  <2> USE DEF RulesInv, RulesNeedBucket
  <2>1. CASE UNCHANGED config
    BY <2>1 DEF config
  <2>2. ASSUME NEW r \in Requests, UiCreateBucket(r) PROVE RulesInv'
    BY <2>2 DEF UiCreateBucket
  <2>3. ASSUME NEW r \in Requests, CreateBucket(r) PROVE RulesInv'
    BY <2>3 DEF CreateBucket
  <2>4. ASSUME NEW r \in Requests, DeleteBucket(r) PROVE RulesInv'
    BY <2>4 DEF DeleteBucket
  <2>5. ASSUME NEW r \in Requests, DeleteBucketCors(r) PROVE RulesInv'
    BY <2>5 DEF DeleteBucketCors
  <2>6. ASSUME NEW r \in Requests, EndPutBucketCors(r) \/ PutDetached(r) PROVE RulesInv'
    BY <2>6 DEF EndPutBucketCors, PutDetached, Replace
  <2> QED
    BY <2>1, <2>2, <2>3, <2>4, <2>5, <2>6, ZenonT(60)
    DEF Next, vars, config, Arrive, UiStep, UiReadRules, UiRefuse, UiOther, S3Step, WronglySigned,
        NoOperation, Denied, BeginPutBucketCors, RunOther, Capture, TransportError, HangUp
<1>3. RulesInv => RulesNeedBucket
  BY DEF RulesInv
<1> QED
  BY <1>1, <1>2, <1>3, PTL DEF Spec

------------------------------------------------------------------------------
(* Preflights and the requests that follow them.                           *)

\* The first rule that matches a preflight is among those that match the
\* request it asks about; the rule that answers may be another one, and still
\* lets this origin read the answer (match_preflight and match_actual).
LEMMA MatchersAgree ==
    ASSUME NEW rules, NEW origin, NEW method, NEW headers,
           MatchPreflight(rules, origin, method, headers) # NoGrant
    PROVE  LET g == MatchActual(rules, origin, method)
           IN g # NoGrant /\ g.allow \in {<<Star>>, origin}
<1> DEFINE actual == {i \in DOMAIN rules : Covers(rules[i], origin, method)}
           rule == rules[Least(actual)]
<1>1. actual # {}
  BY DEF MatchPreflight, FirstGrant
<1>2. MatchActual(rules, origin, method) = Grant(rule, origin)
  BY <1>1 DEF MatchActual, FirstGrant
<1>3. Grant(rule, origin) # NoGrant
  <2>1. "allow" \in DOMAIN Grant(rule, origin)
    BY DEF Grant
  <2>2. DOMAIN NoGrant = {}
    BY DEF NoGrant
  <2> QED
    BY <2>1, <2>2
<1>4. Grant(rule, origin).allow \in {<<Star>>, origin}
  BY DEF Grant
<1> QED
  BY <1>2, <1>3, <1>4

\* Where a request is tells what it is, and the headers of an answer are what
\* the rules that were read for it give.
GrantAt(r) ==
    /\ at[r] \in {"run", "put", "served"} => ForS3(asked[r])
    /\ at[r] = "ui" => ForApi(asked[r])
    /\ at[r] = "answered" /\ ForPreflight(asked[r]) /\ ~ForUi(asked[r]) =>
          grant[r] = MatchPreflight(read[r], asked[r].origin, asked[r].wants, asked[r].headers)
    /\ at[r] = "answered" /\ ForS3(asked[r]) => grant[r] = Access(asked[r], read[r])

GrantInv ==
    /\ at \in [Requests -> Open \union Closed \union {"none", "detached"}]
    /\ asked = [r \in Requests |-> asked[r]]
    /\ grant = [r \in Requests |-> grant[r]]
    /\ read = [r \in Requests |-> read[r]]
    /\ \A r \in Requests : GrantAt(r)

\* A step of one request leaves what is known of the others.
LEMMA OthersKeepGrants ==
    ASSUME GrantInv, NEW r \in Requests, NEW w \in Open \union Closed \union {"none", "detached"},
           at' = [at EXCEPT ![r] = w],
           asked' = [asked EXCEPT ![r] = asked'[r]],
           grant' = [grant EXCEPT ![r] = grant'[r]],
           read' = [read EXCEPT ![r] = read'[r]],
           GrantAt(r)'
    PROVE  GrantInv'
<1>1. at' \in [Requests -> Open \union Closed \union {"none", "detached"}]
  BY DEF GrantInv
<1>2. /\ asked' = [s \in Requests |-> asked'[s]]
      /\ grant' = [s \in Requests |-> grant'[s]]
      /\ read' = [s \in Requests |-> read'[s]]
  BY DEF GrantInv
<1>3. ASSUME NEW s \in Requests, s # r PROVE GrantAt(s)'
  <2>1. at'[s] = at[s] /\ asked'[s] = asked[s] /\ grant'[s] = grant[s] /\ read'[s] = read[s]
    BY <1>3 DEF GrantInv
  <2> QED
    BY <2>1 DEF GrantInv, GrantAt
<1> QED
  BY <1>1, <1>2, <1>3 DEF GrantInv

\* What a preflight grants, the answer to the request that it asked about does
\* not take back, as long as the rules are the same: for any rules, and however
\* the requests that read and change them are interleaved.
THEOREM PreflightHonouredAlways == Spec => []PreflightHonoured
<1>1. Init => GrantInv
  BY DEF Init, GrantInv, GrantAt
<1>2. GrantInv /\ [Next]_vars => GrantInv'
  <2> SUFFICES ASSUME GrantInv, [Next]_vars PROVE GrantInv'
    OBVIOUS
  <2>1. CASE UNCHANGED vars
    BY <2>1 DEF vars, reply, GrantInv, GrantAt
  <2>2. ASSUME NEW r \in Requests, NEW q \in Inputs, Arrive(r, q) PROVE GrantInv'
    <3>1. asked'[r] = q /\ asked' = [asked EXCEPT ![r] = q]
      BY <2>2 DEF Arrive, GrantInv
    <3>2. CASE AnswerAside(r, q)
      <4>1. at' = [at EXCEPT ![r] = "answered"] /\ UNCHANGED <<grant, read>>
        BY <3>2 DEF AnswerAside, Goes
      <4>2. GrantAt(r)'
        BY <3>1, <3>2, <4>1 DEF AnswerAside, GrantAt, GrantInv
      <4> QED
        BY <3>1, <4>1, <4>2, OthersKeepGrants DEF GrantInv, Closed
    <3>3. CASE AnswerPreflight(r, q)
      <4>1. at' = [at EXCEPT ![r] = "answered"]
        BY <3>3 DEF AnswerPreflight, Goes
      <4>2. PICK rules \in RulesRead(q.to) :
              /\ grant' = [grant EXCEPT ![r] = MatchPreflight(rules, q.origin, q.wants, q.headers)]
              /\ read' = [read EXCEPT ![r] = rules]
        BY <3>3 DEF AnswerPreflight
      <4>3. ~ForS3(q)
        BY <3>3 DEF AnswerPreflight, ForS3
      <4>4. GrantAt(r)'
        BY <3>1, <4>1, <4>2, <4>3 DEF GrantAt, GrantInv
      <4> QED
        BY <3>1, <4>1, <4>2, <4>4, OthersKeepGrants DEF GrantInv, Closed
    <3>4. CASE PassOn(r, q)
      <4>1. /\ at' = [at EXCEPT ![r] = IF ForApi(q) THEN "ui" ELSE "run"]
            /\ UNCHANGED <<grant, read>>
            /\ ForApi(q) \/ ForS3(q)
        BY <3>4 DEF PassOn, Goes, reply
      <4>2. GrantAt(r)'
        BY <3>1, <4>1 DEF GrantAt, GrantInv
      <4> QED
        BY <3>1, <4>1, <4>2, OthersKeepGrants DEF GrantInv, Open
    <3> QED
      BY <2>2, <3>2, <3>3, <3>4 DEF Arrive
  <2>3. ASSUME NEW r \in Requests, UiStep(r) PROVE GrantInv'
    <3>1. /\ at[r] = "ui" /\ at' = [at EXCEPT ![r] = "answered"]
          /\ UNCHANGED <<asked, grant, read>>
      BY <2>3 DEF UiStep, UiCreateBucket, UiReadRules, UiRefuse, UiOther, AnswerUi, Goes
    <3>2. ForUi(asked[r]) /\ ~ForS3(asked[r])
      BY <3>1 DEF GrantInv, GrantAt, ForApi, ForS3
    <3>3. GrantAt(r)'
      BY <3>1, <3>2 DEF GrantAt, GrantInv
    <3> QED
      BY <3>1, <3>3, OthersKeepGrants DEF GrantInv, Closed
  <2>4. ASSUME NEW r \in Requests, S3Step(r) PROVE GrantInv'
    <3>1. PICK w \in {"served", "put"} : at' = [at EXCEPT ![r] = w]
      BY <2>4 DEF S3Step, WronglySigned, NoOperation, Denied, CreateBucket, DeleteBucket,
                  DeleteBucketCors, BeginPutBucketCors, EndPutBucketCors, RunOther, Serve, Goes
    <3>2. at[r] \in {"run", "put"} /\ UNCHANGED <<asked, grant, read>>
      BY <2>4 DEF S3Step, WronglySigned, NoOperation, Denied, CreateBucket, DeleteBucket,
                  DeleteBucketCors, BeginPutBucketCors, EndPutBucketCors, RunOther, Runs
    <3>3. GrantAt(r)'
      BY <3>1, <3>2 DEF GrantAt, GrantInv
    <3> QED
      BY <3>1, <3>2, <3>3, OthersKeepGrants DEF GrantInv, Open
  <2>5. ASSUME NEW r \in Requests, Capture(r) PROVE GrantInv'
    <3>1. at[r] = "served" /\ at' = [at EXCEPT ![r] = "answered"] /\ UNCHANGED asked
      BY <2>5 DEF Capture, Goes
    <3>2. PICK rules \in RulesRead(asked[r].to) :
            /\ grant' = [grant EXCEPT ![r] = Access(asked[r], rules)]
            /\ read' = [read EXCEPT ![r] = rules]
      BY <2>5 DEF Capture
    <3>3. ForS3(asked[r]) /\ (~ForPreflight(asked[r]) \/ ForUi(asked[r]))
      BY <3>1 DEF GrantInv, GrantAt, ForS3
    <3>4. Access(asked[r], rules)' = Access(asked[r], rules)
      BY <3>1 DEF Access
    <3>5. GrantAt(r)'
      BY <3>1, <3>2, <3>3 DEF GrantAt, GrantInv, Access
    <3> QED
      BY <3>1, <3>2, <3>5, OthersKeepGrants DEF GrantInv, Closed
  <2>6. ASSUME NEW r \in Requests, TransportError(r) \/ HangUp(r) \/ PutDetached(r) PROVE GrantInv'
    <3>1. PICK w \in {"failed", "gone", "detached"} : at' = [at EXCEPT ![r] = w]
      BY <2>6 DEF TransportError, HangUp, PutDetached, Goes
    <3>2. UNCHANGED <<asked, grant, read>>
      BY <2>6 DEF TransportError, HangUp, PutDetached, reply
    <3>3. GrantAt(r)'
      BY <3>1, <3>2 DEF GrantAt, GrantInv
    <3> QED
      BY <3>1, <3>2, <3>3, OthersKeepGrants DEF GrantInv, Closed
  <2> QED
    BY <2>1, <2>2, <2>3, <2>4, <2>5, <2>6 DEF Next
<1>3. GrantInv => PreflightHonoured
  <2> SUFFICES ASSUME GrantInv, NEW p \in Requests, NEW r \in Requests,
                      at[p] = "answered", ForPreflight(asked[p]), grant[p] # NoGrant,
                      at[r] = "answered", ForS3(asked[r]),
                      asked[r].to = asked[p].to, asked[r].origin = asked[p].origin,
                      asked[r].method = asked[p].wants, read[r] = read[p]
               PROVE  grant[r] # NoGrant /\ grant[r].allow \in {<<Star>>, asked[r].origin}
    BY DEF PreflightHonoured
  <2>1. asked[p].to \in Buckets /\ asked[p].origin # None
    BY DEF ForPreflight, ForS3
  <2>2. ~ForUi(asked[p])
    BY <2>1, NamesAssumption DEF ForUi
  <2>3. MatchPreflight(read[p], asked[p].origin, asked[p].wants, asked[p].headers) # NoGrant
    BY <2>2 DEF GrantInv, GrantAt
  <2>4. grant[r] = MatchActual(read[p], asked[p].origin, asked[p].wants)
    BY <2>1 DEF GrantInv, GrantAt, Access
  <2> QED
    BY <2>3, <2>4, MatchersAgree
<1> QED
  BY <1>1, <1>2, <1>3, PTL DEF Spec

------------------------------------------------------------------------------
(* Where the API of the UI sends a request.                                *)

\* A sequence after another; a name for it keeps the provers from rewriting it.
Joined(h, key) == h \o key

\* What it is, place by place.
LEMMA AfterAnother ==
    ASSUME NEW S, NEW h \in Seq(S), NEW m \in Nat, Len(h) = m,
           NEW key \in Seq(S), NEW n \in Nat, Len(key) = n
    PROVE  /\ Joined(h, key) \in Seq(S) /\ Len(Joined(h, key)) = m + n
           /\ \A i \in 1..m : Joined(h, key)[i] = h[i]
           /\ \A i \in 1..n : Joined(h, key)[m + i] = key[i]
<1> DEFINE s == Joined(h, key)
<1>1. /\ s \in Seq(S) /\ Len(s) = m + n
      /\ \A i \in 1..(m + n) : s[i] = IF i <= m THEN h[i] ELSE key[i - m]
  BY ConcatProperties DEF Joined
<1> HIDE DEF s
<1>2. ASSUME NEW i \in 1..n PROVE s[m + i] = key[i]
  <2>1. m + i \in 1..(m + n) /\ ~(m + i <= m) /\ (m + i) - m = i
    OBVIOUS
  <2> QED
    BY <1>1, <2>1
<1>3. \A i \in 1..m : s[i] = h[i]
  BY <1>1
<1> QED
  BY <1>1, <1>2, <1>3 DEF s

\* A part that is one element.
LEMMA PartOfOne ==
    ASSUME NEW S, NEW s \in Seq(S), NEW i \in 1..Len(s)
    PROVE  SubSeq(s, i, i) = <<s[i]>>
<1> DEFINE r == SubSeq(s, i, i)
           y == s[i]
<1>1. y \in S /\ i \in Int
  OBVIOUS
<1>2. r \in Seq(S) /\ Len(r) = 1 /\ r[1] = y
  <2>1. \A j \in i..i : s[j] \in S
    OBVIOUS
  <2>2. (i - i) + 1 = 1 /\ i <= i /\ (i + 1) - 1 = i
    OBVIOUS
  <2> QED
    BY <1>1, <2>1, <2>2, SubSeqProperties
<1> HIDE DEF r, y
<1>3. <<y>> \in Seq(S) /\ Len(<<y>>) = 1 /\ <<y>>[1] = y
  BY <1>1
<1>4. r = <<y>>
  BY <1>2, <1>3, SeqEqual
<1> QED
  BY <1>4 DEF r, y

\* The path that dispatch gets for an object.
ObjectPath(b, key) == <<<<"buckets">>, b, <<"objects">>>> \o key

\* That path, segment by segment.
LEMMA PathIs ==
    ASSUME NEW T, NEW b, NEW key \in Seq(T)
    PROVE  LET sub == ObjectPath(b, key)
           IN /\ Len(sub) = 3 + Len(key) /\ sub # <<>>
              /\ sub[1] = <<"buckets">> /\ sub[2] = b /\ sub[3] = <<"objects">>
              /\ \A i \in 1..Len(key) : sub[3 + i] = key[i]
              /\ SubSeq(sub, 2, 2) = <<b>> /\ SubSeq(sub, 4, Len(sub)) = key
<1> DEFINE x == <<"buckets">>
           z == <<"objects">>
           S == T \union {x, b, z}
           h == <<x, b, z>>
           s == Joined(h, key)
           m == 3
           n == Len(key)
<1>1. n \in Nat /\ key \in Seq(S) /\ b \in S
  BY SeqMonotonic
<1> HIDE DEF x, z
<1>2. h \in Seq(S) /\ Len(h) = m /\ m \in Nat
  OBVIOUS
<1>3. /\ 1 \in 1..m /\ 2 \in 1..m /\ 3 \in 1..m
      /\ h[1] = x /\ h[2] = b /\ h[3] = z
  OBVIOUS
<1> HIDE DEF S, h, m, n, s
<1>4. s = Joined(h, key)
  BY DEF s
<1>5. Len(key) = n
  BY DEF n
<1>6. s \in Seq(S) /\ Len(s) = m + n
  BY <1>1, <1>2, <1>4, <1>5, AfterAnother
<1>7. \A i \in 1..m : s[i] = h[i]
  <2> SUFFICES ASSUME NEW i \in 1..m PROVE s[i] = h[i]
    OBVIOUS
  <2>1. Joined(h, key)[i] = h[i]
    BY <1>1, <1>2, <1>5, AfterAnother
  <2> QED
    BY <2>1, <1>4
<1>8. \A i \in 1..n : s[m + i] = key[i]
  <2> SUFFICES ASSUME NEW i \in 1..n PROVE s[m + i] = key[i]
    OBVIOUS
  <2>1. Joined(h, key)[m + i] = key[i]
    BY <1>1, <1>2, <1>5, AfterAnother
  <2> QED
    BY <2>1, <1>4
<1>9. s[1] = x /\ s[2] = b /\ s[3] = z
  BY <1>7, <1>3
<1>10. SubSeq(s, 2, 2) = <<b>>
  <2>1. 2 \in 1..Len(s)
    BY <1>1, <1>6 DEF m
  <2> QED
    BY <1>6, <1>9, <2>1, PartOfOne
<1>11. SubSeq(s, 4, Len(s)) = key
  <2> DEFINE r == SubSeq(s, 4, Len(s))
  <2>1. Len(s) = 3 + n /\ \A i \in 1..n : s[3 + i] = key[i]
    BY <1>6, <1>8 DEF m
  <2>2. r \in Seq(S) /\ Len(r) = n /\ \A i \in 1..n : r[i] = s[3 + i]
    BY <1>1, <1>6, <2>1
  <2> HIDE DEF r
  <2>3. r = key
    BY <2>1, <2>2, <1>5, SeqEqual
  <2> QED
    BY <2>3 DEF r
<1>12. s = ObjectPath(b, key)
  BY DEF s, h, x, z, ObjectPath, Joined
<1>13. s # <<>>
  <2>1. Len(s) # 0
    BY <1>1, <1>6 DEF m
  <2> QED
    BY <2>1
<1>14. Len(s) = 3 + Len(key) /\ \A i \in 1..Len(key) : s[3 + i] = key[i]
  BY <1>6, <1>8 DEF m, n
<1>15. s[1] = <<"buckets">> /\ s[3] = <<"objects">>
  BY <1>9 DEF x, z
<1> QED
  BY <1>9, <1>10, <1>11, <1>12, <1>13, <1>14, <1>15

\* A URL without segments of dots arrives as it was built, at the API.
LEMMA UrlArrives ==
    ASSUME NEW T, NEW b, b \notin DotSegments,
           NEW key \in Seq(T), \A i \in DOMAIN key : key[i] \notin DotSegments
    PROVE  LET url == Resolved(ObjectUrl(b, key))
           IN InApi(url) /\ ApiPath(url) = ObjectPath(b, key)
<1> DEFINE u == <<"_">>
           v == <<"api">>
           x == <<"buckets">>
           z == <<"objects">>
           S == T \union {u, v, x, b, z}
           h == <<u, v, x, b, z>>
           s == Joined(h, key)
           g == <<x, b, z>>
           p == Joined(g, key)
           m == 5
           k == 3
           n == Len(key)
<1>1. n \in Nat /\ key \in Seq(S) /\ b \in S
  <2> HIDE DEF u, v, x, z, h, g, s, p, m, k
  <2>1. T \subseteq S
    OBVIOUS
  <2> QED
    BY <2>1, SeqMonotonic
<1>2. u \notin DotSegments /\ v \notin DotSegments /\ x \notin DotSegments /\ z \notin DotSegments
  BY DEF DotSegments
<1> HIDE DEF u, v, x, z
<1>3. /\ h \in Seq(S) /\ Len(h) = m /\ m \in Nat
      /\ g \in Seq(S) /\ Len(g) = k /\ k \in Nat
  OBVIOUS
<1>4. /\ h[1] = u /\ h[2] = v /\ h[3] = x /\ h[4] = b /\ h[5] = z
      /\ g[1] = x /\ g[2] = b /\ g[3] = z
  OBVIOUS
<1> HIDE DEF S, h, g, m, k, n, s, p
<1>5. /\ s \in Seq(S) /\ Len(s) = m + n
      /\ \A i \in 1..m : s[i] = h[i]
      /\ \A i \in 1..n : s[m + i] = key[i]
  <2>1. Len(key) = n
    BY DEF n
  <2>2. /\ Joined(h, key) \in Seq(S) /\ Len(Joined(h, key)) = m + n
        /\ \A i \in 1..m : Joined(h, key)[i] = h[i]
        /\ \A i \in 1..n : Joined(h, key)[m + i] = key[i]
    BY <1>1, <1>3, <2>1, AfterAnother
  <2> QED
    BY <2>2 DEF s
<1>6. /\ p \in Seq(S) /\ Len(p) = k + n
      /\ \A i \in 1..k : p[i] = g[i]
      /\ \A i \in 1..n : p[k + i] = key[i]
  <2>1. Len(key) = n
    BY DEF n
  <2>2. /\ Joined(g, key) \in Seq(S) /\ Len(Joined(g, key)) = k + n
        /\ \A i \in 1..k : Joined(g, key)[i] = g[i]
        /\ \A i \in 1..n : Joined(g, key)[k + i] = key[i]
    BY <1>1, <1>3, <2>1, AfterAnother
  <2> QED
    BY <2>2 DEF p
<1>7. s[1] = u /\ s[2] = v /\ s[3] = x /\ s[4] = b /\ s[5] = z
  BY <1>4, <1>5 DEF m
<1>8. p[1] = x /\ p[2] = b /\ p[3] = z
  BY <1>4, <1>6 DEF k
<1>9. \A i \in 1..n : key[i] \notin DotSegments
  BY DEF n
<1>10. Resolved(s) = s
  <2>1. ASSUME NEW i \in 1..(5 + n) PROVE s[i] \notin DotSegments
    <3>1. CASE i \in 1..5
      <4>1. i = 1 \/ i = 2 \/ i = 3 \/ i = 4 \/ i = 5
        BY <3>1
      <4> QED
        BY <1>2, <1>7, <4>1
    <3>2. CASE i \notin 1..5
      <4>1. i - 5 \in 1..n /\ 5 + (i - 5) = i
        BY <1>1, <3>2
      <4>2. s[i] = key[i - 5]
        BY <1>5, <4>1 DEF m
      <4> QED
        BY <1>9, <4>1, <4>2
    <3> QED
      BY <3>1, <3>2
  <2>2. DOMAIN s = 1..(5 + n)
    BY <1>5, LenProperties DEF m
  <2>3. \A i \in DOMAIN s : s[i] \notin DotSegments
    BY <2>1, <2>2
  <2> QED
    BY <2>3 DEF Resolved
<1>11. InApi(s)
  <2>1. Len(s) > 2
    BY <1>1, <1>5 DEF m
  <2> QED
    BY <1>7, <2>1 DEF InApi, u, v
<1>12. ApiPath(s) = p
  <2> DEFINE r == SubSeq(s, 3, Len(s))
  <2>1. Len(s) = 5 + n /\ \A i \in 1..n : s[5 + i] = key[i]
    BY <1>5 DEF m
  <2>2. r \in Seq(S) /\ Len(r) = 3 + n /\ \A i \in 1..(3 + n) : r[i] = s[2 + i]
    BY <1>1, <1>5, <2>1
  <2> HIDE DEF r
  <2>3. ASSUME NEW i \in 1..(3 + n) PROVE r[i] = p[i]
    <3>1. CASE i \in 1..3
      <4>1. i = 1 \/ i = 2 \/ i = 3
        BY <3>1
      <4>2. r[i] = s[2 + i]
        BY <2>2
      <4>3. CASE i = 1
        BY <1>7, <1>8, <4>2, <4>3
      <4>4. CASE i = 2
        BY <1>7, <1>8, <4>2, <4>4
      <4>5. CASE i = 3
        BY <1>7, <1>8, <4>2, <4>5
      <4> QED
        BY <4>1, <4>3, <4>4, <4>5
    <3>2. CASE i \notin 1..3
      <4>1. i - 3 \in 1..n /\ 3 + (i - 3) = i /\ 5 + (i - 3) = 2 + i
        BY <1>1, <3>2
      <4>2. p[i] = key[i - 3]
        BY <1>6, <4>1 DEF k
      <4>3. s[2 + i] = key[i - 3]
        BY <2>1, <4>1
      <4> QED
        BY <2>2, <4>2, <4>3
    <3> QED
      BY <3>1, <3>2
  <2>4. Len(p) = 3 + n
    BY <1>6 DEF k
  <2>5. r = p
    BY <1>6, <2>2, <2>3, <2>4, SeqEqual
  <2> DEFINE starts == {i \in 3..Len(s) : s[i] # <<>> \/ i = Len(s)}
             first == CHOOSE i \in starts : \A j \in starts : i <= j
  <2>6. first = 3
    <3>1. s[3] # <<>>
      BY <1>7 DEF x
    <3>2. 3 \in 3..Len(s) /\ \A i \in 3..Len(s) : i \in Nat /\ 3 <= i
      BY <1>1, <2>1
    <3>3. 3 \in starts /\ \A i \in starts : i \in Nat /\ 3 <= i
      BY <3>1, <3>2
    <3> HIDE DEF starts
    <3>4. \A i \in starts : (\A j \in starts : i <= j) => i = 3
      BY <3>3
    <3> QED
      BY <3>3, <3>4
  <2>7. ApiPath(s) = SubSeq(s, first, Len(s))
    BY DEF ApiPath
  <2> HIDE DEF first
  <2> QED
    BY <2>5, <2>6, <2>7 DEF r
<1>13. s = ObjectUrl(b, key) /\ p = ObjectPath(b, key)
  BY DEF s, p, h, g, u, v, x, z, ObjectUrl, ObjectPath, Joined
<1> QED
  BY <1>10, <1>11, <1>12, <1>13

\* What comes to the API for an object goes to the handler of objects, for that
\* bucket and key, unless the word of notifications begins a segment of the key.
LEMMA ObjectsGetTheirs ==
    ASSUME NEW b, b # <<>>, NEW T, NEW key \in Seq(T), key # <<>>, key # <<<<>>>>,
           \A i \in DOMAIN key : key[i] # <<>> => key[i][1] # "notifications",
           NEW method, NEW content
    PROVE  Dispatch(method, ObjectPath(b, key), content) = RouteObjects(method, <<b>>, key, content)
<1> DEFINE sub == ObjectPath(b, key)
           word == <<"objects">>
<1>1. word # <<>> /\ word[1] = "objects" /\ Len(word) = 1
  OBVIOUS
<1>2. /\ Len(sub) = 3 + Len(key) /\ sub # <<>>
      /\ sub[1] = <<"buckets">> /\ sub[2] = b /\ sub[3] = word
  BY PathIs
<1>3. \A i \in 1..Len(key) : sub[3 + i] = key[i]
  BY PathIs
<1>4. SubSeq(sub, 2, 2) = <<b>> /\ SubSeq(sub, 4, Len(sub)) = key
  BY PathIs
<1> HIDE DEF sub, word
<1>len. Len(key) \in Nat /\ Len(key) # 0 /\ DOMAIN key = 1..Len(key)
  OBVIOUS
<1>5. Separators(sub, "notifications") = {}
  <2> SUFFICES ASSUME NEW i \in 3..Len(sub), sub[i] # <<>>, sub[i][1] = "notifications"
               PROVE  FALSE
    BY DEF Separators
  <2>1. CASE i = 3
    BY <2>1, <1>1, <1>2, <1>3, <1>4
  <2>2. CASE i # 3
    <3>1. i - 3 \in 1..Len(key) /\ 3 + (i - 3) = i
      BY <2>2, <1>len, <1>2, <1>3, <1>4
    <3>2. sub[i] = key[i - 3]
      BY <3>1, <1>2, <1>3, <1>4
    <3> QED
      BY <3>1, <3>2, <1>len
  <2> QED
    BY <2>1, <2>2
<1>6. ~IsNotifications(sub)
  BY <1>5 DEF IsNotifications, HasBucket
<1>7. ~IsCors(sub)
  BY <1>len, <1>2, <1>3, <1>4 DEF IsCors
<1>8. 3 \in Separators(sub, "objects") /\ \A i \in Separators(sub, "objects") : i \in Nat /\ 3 <= i
  <2>1. sub # <<>> /\ 3 \in 3..Len(sub)
    BY <1>len, <1>2, <1>3, <1>4
  <2>2. \A i \in 3..Len(sub) : i \in Nat /\ 3 <= i
    BY <1>len, <1>2, <1>3, <1>4
  <2>3. sub[1] = <<"buckets">>
    BY <1>2, <1>3, <1>4
  <2> QED
    BY <1>1, <1>2, <1>3, <1>4, <2>1, <2>2, <2>3 DEF Separators
<1>9. Separator(sub, "objects") = 3
  <2>1. \A i \in Separators(sub, "objects") :
          (\A j \in Separators(sub, "objects") : i <= j) => i = 3
    BY <1>8
  <2> QED
    BY <1>8, <2>1 DEF Separator
<1>10. Before(sub, 3) = <<b>> /\ <<b>> # <<<<>>>>
  <2>1. <<b>>[1] = b /\ <<<<>>>>[1] = <<>>
    OBVIOUS
  <2>2. 3 - 1 = 2
    OBVIOUS
  <2> QED
    BY <1>2, <1>3, <1>4, <2>1, <2>2 DEF Before
<1>11. Item(sub, 3) = key
  <2>1. ~(Len(sub[3]) > 1)
    <3>1. Len(sub[3]) = 1
      BY <1>1, <1>2, <1>3, <1>4
    <3> QED
      BY <3>1
  <2>2. 3 + 1 = 4
    OBVIOUS
  <2> QED
    BY <1>2, <1>3, <1>4, <2>1, <2>2 DEF Item
<1>12. IsObjects(sub)
  BY <1>8, <1>9, <1>10 DEF IsObjects, HasBucket
<1>13. <<method, sub>> \notin FixedPaths /\ sub # <<<<"buckets">>>>
  <2>1. \A p \in FixedPaths : Len(p[2]) \in {1, 2}
    BY DEF FixedPaths
  <2>2. Len(<<<<"buckets">>>>) = 1
    OBVIOUS
  <2>3. <<method, sub>>[2] = sub
    OBVIOUS
  <2>4. Len(sub) \notin {1, 2}
    BY <1>len, <1>2, <1>3, <1>4
  <2> QED
    BY <2>1, <2>2, <2>3, <2>4
<1>14. Dispatch(method, sub, content) = RouteObjects(method, <<b>>, key, content)
  BY <1>6, <1>7, <1>9, <1>10, <1>11, <1>12, <1>13 DEF Dispatch
<1> QED
  BY <1>14 DEF sub

\* Every request of the page for an object is answered where it should be.
LEMMA PageReaches ==
    ASSUME NEW q \in Inputs
    PROVE  UiReaches(q)
<1> SUFFICES ASSUME q.key # None,
                    \A i \in DOMAIN q.key : q.key[i] \notin DotSegments,
                    \A i \in DOMAIN q.key : q.key[i] # <<>> => q.key[i][1] # "notifications"
             PROVE  /\ ForApi(q) /\ Route(q).by \in {"content", "meta", "upload", "delete object"}
                    /\ Route(q).bucket = <<q.bucket>> /\ Route(q).item = q.key
                    /\ q.method = "GET" /\ q.key[Len(q.key)] # <<"content">> =>
                         (Route(q).by = "content" <=> q.content)
  BY DEF UiReaches
<1> DEFINE b == q.bucket
           key == q.key
<1>page. /\ q.method \in {"GET", "PUT", "DELETE"}
         /\ b # <<>> /\ b \notin DotSegments
         /\ key \in Seq(Seq(STRING)) /\ key # <<>> /\ key # <<<<>>>>
         /\ ForApi(q) <=> InApi(Resolved(ObjectUrl(b, key)))
         /\ ForApi(q) => q.path = ApiPath(Resolved(ObjectUrl(b, key)))
  BY PageAssumption
<1>dots. \A i \in DOMAIN key : key[i] \notin DotSegments
  OBVIOUS
<1>2. \A i \in DOMAIN key : key[i] # <<>> => key[i][1] # "notifications"
  OBVIOUS
<1> HIDE DEF b, key
<1>1. /\ q.method \in {"GET", "PUT", "DELETE"}
      /\ ForApi(q) /\ q.path = ObjectPath(b, key)
      /\ b # <<>>
      /\ key \in Seq(Seq(STRING)) /\ key # <<>> /\ key # <<<<>>>>
  <2>1. /\ InApi(Resolved(ObjectUrl(b, key)))
        /\ ApiPath(Resolved(ObjectUrl(b, key))) = ObjectPath(b, key)
    BY <1>page, <1>dots, UrlArrives
  <2> QED
    BY <1>page, <2>1
<1>3. Route(q) = RouteObjects(q.method, <<b>>, key, q.content)
  BY <1>1, <1>2, ObjectsGetTheirs DEF Route
<1>4. CASE q.method = "GET"
  BY <1>1, <1>3, <1>4 DEF RouteObjects, To, b, key
<1>5. CASE q.method \in {"PUT", "DELETE"}
  <2>1. CASE q.method = "PUT"
    BY <1>1, <1>3, <2>1 DEF RouteObjects, To, b, key
  <2>2. CASE q.method = "DELETE"
    <3>1. Route(q) = To("delete object", <<b>>, key)
      BY <1>1, <1>3, <2>2 DEF RouteObjects
    <3>2. q.method # "GET"
      BY <2>2
    <3> DEFINE route == Route(q)
               bs == <<b>>
    <3> HIDE DEF route, bs
    <3>3. route.by = "delete object" /\ route.bucket = bs /\ route.item = key
      <4>1. route = To("delete object", bs, key)
        BY <3>1 DEF route, bs
      <4> QED
        BY <4>1 DEF To
    <3>4. ForApi(q)
      BY <1>1
    <3> QED
      BY <3>2, <3>3, <3>4 DEF b, key, route, bs
  <2> QED
    BY <1>5, <2>1, <2>2
<1> QED
  BY <1>1, <1>4, <1>5

\* A refusal has one of these statuses.
LEMMA UiRefusals ==
    ASSUME NEW method, NEW sub, NEW content, Dispatch(method, sub, content).by = "nobody"
    PROVE  Dispatch(method, sub, content).code \in {400, 404, 405}
<1>1. ASSUME NEW b, NEW i, RouteNotifications(method, b, i).by = "nobody"
      PROVE  RouteNotifications(method, b, i).code \in {400, 404, 405}
  BY <1>1 DEF RouteNotifications, Refuse, To
<1>2. ASSUME NEW b, RouteCors(method, b).by = "nobody"
      PROVE  RouteCors(method, b).code \in {400, 404, 405}
  BY <1>2 DEF RouteCors, Refuse, To
<1>3. ASSUME NEW b, NEW key, RouteObjects(method, b, key, content).by = "nobody"
      PROVE  RouteObjects(method, b, key, content).code \in {400, 404, 405}
  BY <1>3 DEF RouteObjects, Refuse, To
<1> QED
  BY <1>1, <1>2, <1>3 DEF Dispatch, Refuse, To

------------------------------------------------------------------------------
(* What the variables hold, and what the live log has of each request.     *)

Places == Open \union Closed \union {"none", "detached"}
Codes  == {0, 200, 201, 204, 302, 400, 403, 404, 405, 409, 500, 501}
Slots  == {[op |-> q.op, auth |-> q.sign] : q \in Inputs}

LogLines ==
    [req : Requests, op : {q.op : q \in Inputs} \union {None, "Preflight"},
     auth : {q.sign : q \in Inputs} \union {"none"}, status : Codes \ {0}]

\* The rows: the rules of a bucket are those that some PutBucketCors accepted.
RowsTyped ==
    /\ buckets \subseteq Buckets
    /\ cors = [b \in Buckets |-> cors[b]]
    /\ fresh \in [Buckets -> BOOLEAN]
    /\ \A b \in Buckets : cors[b] # None => Valid(cors[b])

TasksTyped ==
    /\ at \in [Requests -> Places]
    /\ asked \in [Requests -> Inputs \union {None}]
    /\ status \in [Requests -> Codes]
    /\ slot \in [Requests -> Slots \union {None}]
    /\ lines \in Seq(LogLines)

\* What is true of one request where it is: what it asks, what the access hook
\* has recorded of it, the status of its response, and its lines.
StatusAt(r) == at[r] \in {"served", "answered"} <=> status[r] # 0

AskedAt(r) ==
    /\ at[r] # "none" => asked[r] \in Inputs
    /\ at[r] \in {"run", "put", "served", "detached"} => ForS3(asked[r])
    /\ at[r] = "ui" => ForApi(asked[r])
    /\ at[r] \in {"put", "detached"} => Valid(asked[r].rules) /\ MayRun(asked[r])

RecordedAt(r) ==
    /\ at[r] \in {"none", "run"} => slot[r] = None
    /\ at[r] = "put" => slot[r] # None /\ slot[r].op = asked[r].op
    /\ at[r] = "served" =>
          /\ slot[r] = None => asked[r].op = None \/ asked[r].sign = "bad"
          /\ slot[r] # None => slot[r].op = asked[r].op
          /\ ~MayRun(asked[r]) => status[r] \in Refusals(asked[r])

TrueLine(r, i) ==
    /\ lines[i].status = status[r]
    /\ ForS3(asked[r]) /\ asked[r].sign # "bad" => lines[i].op = asked[r].op
    /\ ForS3(asked[r]) /\ ~MayRun(asked[r]) => status[r] \in Refusals(asked[r])

LinesAt(r) ==
    /\ at[r] \notin {"answered", "failed"} => LinesOf(r) = {}
    /\ at[r] = "answered" /\ ~ForS3(asked[r]) /\ ~ForPreflight(asked[r]) => LinesOf(r) = {}
    /\ at[r] = "answered" /\ (ForS3(asked[r]) \/ ForPreflight(asked[r])) =>
          \E i \in DOMAIN lines : LinesOf(r) = {i} /\ TrueLine(r, i)

RequestAt(r) == StatusAt(r) /\ AskedAt(r) /\ RecordedAt(r) /\ LinesAt(r)

FrontInv == RowsTyped /\ TasksTyped /\ \A r \in Requests : RequestAt(r)

\* A sequence with one more element.
LEMMA OneMore ==
    ASSUME NEW S, NEW s \in Seq(S), NEW e \in S
    PROVE  /\ Append(s, e) \in Seq(S)
           /\ DOMAIN Append(s, e) = DOMAIN s \union {Len(s) + 1} /\ Len(s) + 1 \notin DOMAIN s
           /\ Append(s, e)[Len(s) + 1] = e
           /\ \A i \in DOMAIN s : Append(s, e)[i] = s[i]
<1> DEFINE n == Len(s)
<1>1. n \in Nat /\ DOMAIN s = 1..n
  OBVIOUS
<1>2. /\ Append(s, e) \in Seq(S) /\ Len(Append(s, e)) = n + 1
      /\ \A i \in 1..n : Append(s, e)[i] = s[i]
      /\ Append(s, e)[n + 1] = e
  BY AppendProperties
<1>3. DOMAIN Append(s, e) = 1..(n + 1)
  BY <1>2, LenProperties
<1>4. 1..(n + 1) = (1..n) \union {n + 1} /\ n + 1 \notin 1..n
  BY <1>1
<1> QED
  BY <1>1, <1>2, <1>3, <1>4

\* A new line is one of its request, and the lines of the others are what they were.
LEMMA Logged ==
    ASSUME lines \in Seq(LogLines), NEW l \in LogLines, lines' = Append(lines, l)
    PROVE  /\ lines' \in Seq(LogLines)
           /\ \A s \in Requests : s # l.req => LinesOf(s)' = LinesOf(s)
           /\ \A i \in DOMAIN lines : lines'[i] = lines[i] /\ i \in DOMAIN lines'
           /\ \E n \in DOMAIN lines' :
                 lines'[n] = l /\ \A s \in Requests : s = l.req => LinesOf(s)' = LinesOf(s) \union {n}
<1> DEFINE n == Len(lines) + 1
<1>1. /\ lines' \in Seq(LogLines)
      /\ DOMAIN lines' = DOMAIN lines \union {n} /\ n \notin DOMAIN lines
      /\ lines'[n] = l
      /\ \A i \in DOMAIN lines : lines'[i] = lines[i]
  BY OneMore
<1> HIDE DEF n
<1>2. \A s \in Requests : s # l.req => LinesOf(s)' = LinesOf(s)
  BY <1>1 DEF LinesOf
<1>3. \A s \in Requests : s = l.req => LinesOf(s)' = LinesOf(s) \union {n}
  BY <1>1 DEF LinesOf
<1> QED
  BY <1>1, <1>2, <1>3

\* A step of one request, which may log a line of it, leaves what is known of the others.
LEMMA OthersKeepLines ==
    ASSUME TasksTyped, \A s \in Requests : RequestAt(s), NEW r \in Requests,
           NEW w \in Places, NEW q \in Inputs, NEW code \in Codes, NEW found \in Slots \union {None},
           at' = [at EXCEPT ![r] = w], asked' = [asked EXCEPT ![r] = q],
           status' = [status EXCEPT ![r] = code], slot' = [slot EXCEPT ![r] = found],
           lines' = lines \/ \E l \in LogLines : l.req = r /\ lines' = Append(lines, l),
           RequestAt(r)'
    PROVE  TasksTyped' /\ \A s \in Requests : RequestAt(s)'
<1>1. /\ lines' \in Seq(LogLines)
      /\ \A s \in Requests : s # r => LinesOf(s)' = LinesOf(s)
      /\ \A i \in DOMAIN lines : lines'[i] = lines[i] /\ i \in DOMAIN lines'
  <2>1. CASE lines' = lines
    BY <2>1 DEF TasksTyped, LinesOf
  <2>2. CASE \E l \in LogLines : l.req = r /\ lines' = Append(lines, l)
    BY <2>2, Logged DEF TasksTyped
  <2> QED
    BY <2>1, <2>2
<1>2. TasksTyped'
  BY <1>1 DEF TasksTyped
<1>3. ASSUME NEW s \in Requests, s # r PROVE RequestAt(s)'
  <2>1. at'[s] = at[s] /\ asked'[s] = asked[s] /\ status'[s] = status[s] /\ slot'[s] = slot[s]
    BY <1>3 DEF TasksTyped
  <2>2. StatusAt(s)' /\ AskedAt(s)' /\ RecordedAt(s)'
    BY <2>1 DEF RequestAt, StatusAt, AskedAt, RecordedAt
  <2>3. LinesAt(s)'
    <3>1. LinesOf(s)' = LinesOf(s) /\ LinesAt(s)
      BY <1>1, <1>3 DEF RequestAt
    <3>2. ASSUME NEW i \in DOMAIN lines, TrueLine(s, i) PROVE i \in DOMAIN lines' /\ TrueLine(s, i)'
      BY <1>1, <2>1, <3>2 DEF TrueLine
    <3> QED
      BY <2>1, <3>1, <3>2 DEF LinesAt
  <2> QED
    BY <2>2, <2>3 DEF RequestAt
<1> QED
  BY <1>2, <1>3

\* Every step keeps the rows: what replaces rules was accepted before.
LEMMA RowsKept ==
    ASSUME FrontInv, [Next]_vars
    PROVE  RowsTyped'
<1> USE DEF RowsTyped
<1>1. RowsTyped
  BY DEF FrontInv
<1>2. CASE UNCHANGED config
  BY <1>1, <1>2 DEF config
<1>3. ASSUME NEW r \in Requests, UiCreateBucket(r) PROVE RowsTyped'
  BY <1>1, <1>3 DEF UiCreateBucket
<1>4. ASSUME NEW r \in Requests, CreateBucket(r) PROVE RowsTyped'
  <2>1. at[r] = "run" /\ asked[r].op = "CreateBucket"
    BY <1>4 DEF CreateBucket, Runs
  <2>2. asked[r].to \in Buckets
    BY <2>1, OperationsAssumption DEF FrontInv, RequestAt, AskedAt
  <2> QED
    BY <1>1, <1>4, <2>2 DEF CreateBucket
<1>5. ASSUME NEW r \in Requests, DeleteBucket(r) PROVE RowsTyped'
  BY <1>1, <1>5 DEF DeleteBucket
<1>6. ASSUME NEW r \in Requests, DeleteBucketCors(r) PROVE RowsTyped'
  BY <1>1, <1>6 DEF DeleteBucketCors
<1>7. ASSUME NEW r \in Requests, EndPutBucketCors(r) \/ PutDetached(r) PROVE RowsTyped'
  <2>1. at[r] \in {"put", "detached"} /\ Replace(asked[r].to, asked[r].rules) /\ UNCHANGED buckets
    BY <1>7 DEF EndPutBucketCors, PutDetached
  <2>2. Valid(asked[r].rules)
    BY <2>1 DEF FrontInv, RequestAt, AskedAt
  <2> QED
    BY <1>1, <2>1, <2>2 DEF Replace
<1>8. ASSUME NEW r \in Requests,
             \/ UiReadRules(r) \/ UiRefuse(r) \/ UiOther(r)
             \/ WronglySigned(r) \/ NoOperation(r) \/ Denied(r)
             \/ BeginPutBucketCors(r) \/ RunOther(r)
             \/ Capture(r) \/ TransportError(r) \/ HangUp(r)
      PROVE  UNCHANGED config
  BY <1>8 DEF UiReadRules, UiRefuse, UiOther, WronglySigned, NoOperation, Denied,
              BeginPutBucketCors, RunOther, Capture, TransportError, HangUp
<1>9. ASSUME NEW r \in Requests, UiStep(r) \/ S3Step(r) PROVE RowsTyped'
  <2> HIDE DEF RowsTyped
  <2> QED
    BY <1>2, <1>3, <1>4, <1>5, <1>6, <1>7, <1>8, <1>9 DEF UiStep, S3Step
<1>10. ASSUME NEW r \in Requests, NEW q \in Inputs, Arrive(r, q) PROVE UNCHANGED config
  BY <1>10 DEF Arrive
<1>11. CASE UNCHANGED vars
  BY <1>2, <1>11 DEF vars
<1> HIDE DEF RowsTyped
<1> QED
  BY <1>2, <1>7, <1>8, <1>9, <1>10, <1>11 DEF Next

\* A request arrives: it is answered at once, or goes to its handler.
LEMMA ArriveKept ==
    ASSUME FrontInv, NEW r \in Requests, NEW q \in Inputs, Arrive(r, q)
    PROVE  TasksTyped' /\ \A s \in Requests : RequestAt(s)'
<1>1. /\ TasksTyped /\ \A s \in Requests : RequestAt(s)
      /\ at[r] = "none" /\ asked' = [asked EXCEPT ![r] = q]
      /\ slot[r] = None /\ status[r] = 0 /\ LinesOf(r) = {}
  BY DEF Arrive, FrontInv, RequestAt, RecordedAt, StatusAt, LinesAt, TasksTyped, Codes
<1>2. asked'[r] = q
  BY <1>1 DEF TasksTyped
<1>3. CASE AnswerAside(r, q)
  <2>1. PICK code \in Codes \ {0} : status' = [status EXCEPT ![r] = code]
    <3> DEFINE c == IF q.to = "probe" THEN 404 ELSE IF q.to = "root" THEN 302 ELSE 200
    <3>1. c \in Codes \ {0}
      BY DEF Codes
    <3>2. status' = [status EXCEPT ![r] = c]
      BY <1>3 DEF AnswerAside
    <3> HIDE DEF c
    <3> QED
      BY <3>1, <3>2
  <2>2. at' = [at EXCEPT ![r] = "answered"] /\ slot' = [slot EXCEPT ![r] = None] /\ lines' = lines
    BY <1>1, <1>3 DEF AnswerAside, Goes, TasksTyped
  <2>3. at'[r] = "answered" /\ status'[r] = code /\ LinesOf(r)' = {}
    BY <1>1, <2>1, <2>2 DEF TasksTyped, LinesOf
  <2>4. ~ForS3(q) /\ ~ForPreflight(q)
    BY <1>3 DEF AnswerAside
  <2>5. RequestAt(r)'
    BY <1>2, <2>3, <2>4 DEF RequestAt, StatusAt, AskedAt, RecordedAt, LinesAt, ForS3, ForPreflight,
                            ForUi, FrontDoor
  <2>6. "answered" \in Places /\ code \in Codes /\ None \in Slots \union {None}
    BY DEF Places, Closed
  <2> QED
    BY <1>1, <2>1, <2>2, <2>5, <2>6, OthersKeepLines, ZenonT(60)
<1>4. CASE AnswerPreflight(r, q)
  <2>1. PICK code \in {403, 204} : /\ status' = [status EXCEPT ![r] = code]
                                   /\ lines' = Append(lines, Line(r, "Preflight", "none", code))
    BY <1>4 DEF AnswerPreflight, Log
  <2>2. at' = [at EXCEPT ![r] = "answered"] /\ slot' = [slot EXCEPT ![r] = slot[r]]
    BY <1>1, <1>4 DEF AnswerPreflight, Goes, TasksTyped
  <2>3. at'[r] = "answered" /\ status'[r] = code
    BY <1>1, <2>1, <2>2 DEF TasksTyped
  <2> DEFINE l == Line(r, "Preflight", "none", code)
  <2>4. l \in LogLines /\ l.req = r /\ l.status = code
    BY DEF Line, LogLines, Codes
  <2> HIDE DEF l
  <2>5. PICK n \in DOMAIN lines' : lines'[n] = l /\ LinesOf(r)' = {n}
    BY <1>1, <2>1, <2>4, Logged DEF TasksTyped, l
  <2>6. ~ForS3(q)
    BY <1>4 DEF AnswerPreflight, ForS3
  <2>7. TrueLine(r, n)'
    BY <1>2, <2>3, <2>4, <2>5, <2>6 DEF TrueLine, MayRun, Refusals, ForS3, ForPreflight, ForUi, FrontDoor
  <2>8. RequestAt(r)'
    <3>1. asked'[r] \in Inputs
      BY <1>2
    <3>2. StatusAt(r)' /\ RecordedAt(r)'
      BY <2>3 DEF StatusAt, RecordedAt
    <3>3. AskedAt(r)'
      BY <2>3, <3>1 DEF AskedAt
    <3>4. LinesAt(r)'
      <4>1. ForS3(asked[r])' \/ ForPreflight(asked[r])'
        BY <1>2, <1>4 DEF AnswerPreflight, ForPreflight
      <4> QED
        BY <2>3, <2>5, <2>7, <4>1 DEF LinesAt
    <3> QED
      BY <3>2, <3>3, <3>4 DEF RequestAt
  <2>9. "answered" \in Places /\ code \in Codes /\ slot[r] \in Slots \union {None}
    BY <1>1 DEF Places, Closed, Codes
  <2> QED
    BY <1>1, <2>1, <2>2, <2>4, <2>8, <2>9, OthersKeepLines, ZenonT(60) DEF l
<1>5. CASE PassOn(r, q)
  <2>1. PICK w \in {"ui", "run"} : /\ at' = [at EXCEPT ![r] = w]
                                   /\ w = "ui" => ForApi(q)
                                   /\ w = "run" => ForS3(q)
    BY <1>5 DEF PassOn, Goes
  <2>2. /\ status' = [status EXCEPT ![r] = 0] /\ slot' = [slot EXCEPT ![r] = None] /\ lines' = lines
    BY <1>1, <1>5 DEF PassOn, reply, TasksTyped
  <2>3. at'[r] = w /\ status'[r] = 0 /\ slot'[r] = None /\ LinesOf(r)' = {}
    BY <1>1, <2>1, <2>2 DEF TasksTyped, LinesOf
  <2>4. RequestAt(r)'
    <3>1. asked'[r] \in Inputs /\ (w = "run" => ForS3(asked'[r])) /\ (w = "ui" => ForApi(asked'[r]))
      BY <1>2, <2>1
    <3>2. StatusAt(r)' /\ RecordedAt(r)' /\ LinesAt(r)'
      BY <2>3 DEF StatusAt, RecordedAt, LinesAt
    <3>3. AskedAt(r)'
      BY <2>3, <3>1 DEF AskedAt, MayRun, ForS3, ForApi, ForPreflight, ForUi, FrontDoor
    <3> QED
      BY <3>2, <3>3 DEF RequestAt
  <2>5. w \in Places /\ 0 \in Codes /\ None \in Slots \union {None}
    BY DEF Places, Open, Codes
  <2> QED
    BY <1>1, <2>1, <2>2, <2>4, <2>5, OthersKeepLines
<1> QED
  BY <1>3, <1>4, <1>5 DEF Arrive

\* The API of the UI answers: no line, whatever the handler did.
LEMMA UiKept ==
    ASSUME FrontInv, NEW r \in Requests, UiStep(r)
    PROVE  TasksTyped' /\ \A s \in Requests : RequestAt(s)'
<1>1. /\ TasksTyped /\ \A s \in Requests : RequestAt(s)
      /\ at[r] = "ui" /\ asked[r] \in Inputs /\ ForApi(asked[r]) /\ LinesOf(r) = {}
      /\ slot[r] \in Slots \union {None}
  BY DEF UiStep, FrontInv, RequestAt, AskedAt, LinesAt, TasksTyped
<1>2. /\ at' = [at EXCEPT ![r] = "answered"] /\ lines' = lines
      /\ asked' = [asked EXCEPT ![r] = asked[r]] /\ slot' = [slot EXCEPT ![r] = slot[r]]
  <2>1. at' = [at EXCEPT ![r] = "answered"] /\ UNCHANGED <<asked, slot, lines>>
    BY DEF UiStep, UiCreateBucket, UiReadRules, UiRefuse, UiOther, AnswerUi, Goes
  <2> QED
    BY <1>1, <2>1 DEF TasksTyped
<1>3. PICK code \in Codes \ {0} : status' = [status EXCEPT ![r] = code]
  <2>1. CASE UiCreateBucket(r)
    <3> DEFINE b == asked[r].names
               c == IF b \notin Buckets THEN 400 ELSE IF b \in buckets THEN 409 ELSE 200
    <3>1. c \in Codes \ {0}
      BY DEF Codes
    <3>2. status' = [status EXCEPT ![r] = c]
      BY <2>1 DEF UiCreateBucket, AnswerUi
    <3> HIDE DEF c
    <3> QED
      BY <3>1, <3>2
  <2>2. CASE UiReadRules(r)
    <3>1. status' = [status EXCEPT ![r] = 200]
      BY <2>2 DEF UiReadRules, AnswerUi
    <3>2. 200 \in Codes \ {0}
      BY DEF Codes
    <3> QED
      BY <3>1, <3>2
  <2>3. CASE UiRefuse(r)
    <3> DEFINE c == Route(asked[r]).code
    <3>1. Route(asked[r]).by = "nobody" /\ status' = [status EXCEPT ![r] = c]
      BY <2>3 DEF UiRefuse, AnswerUi
    <3>2. c \in {400, 404, 405}
      BY <3>1, UiRefusals DEF Route
    <3>3. c \in Codes \ {0}
      BY <3>2 DEF Codes
    <3> HIDE DEF c
    <3> QED
      BY <3>1, <3>3
  <2>4. CASE UiOther(r)
    <3>1. PICK c \in {200, 404} : AnswerUi(r, Route(asked[r]).by, c)
      BY <2>4 DEF UiOther
    <3>2. c \in Codes \ {0} /\ status' = [status EXCEPT ![r] = c]
      BY <3>1 DEF AnswerUi, Codes
    <3> QED
      BY <3>2
  <2> QED
    BY <2>1, <2>2, <2>3, <2>4 DEF UiStep
<1>4. /\ at'[r] = "answered" /\ status'[r] = code /\ asked'[r] = asked[r] /\ LinesOf(r)' = {}
  BY <1>1, <1>2, <1>3 DEF TasksTyped, LinesOf
<1>5. ~ForS3(asked[r]) /\ ~ForPreflight(asked[r])
  BY <1>1, NamesAssumption DEF ForApi, ForUi, ForS3, ForPreflight
<1>6. RequestAt(r)'
  <2>1. StatusAt(r)' /\ RecordedAt(r)'
    BY <1>4 DEF StatusAt, RecordedAt
  <2>2. AskedAt(r)'
    BY <1>1, <1>4 DEF AskedAt
  <2>3. LinesAt(r)'
    BY <1>4, <1>5 DEF LinesAt, ForS3, ForPreflight, ForUi, FrontDoor
  <2> QED
    BY <2>1, <2>2, <2>3 DEF RequestAt
<1>7. "answered" \in Places /\ code \in Codes
  BY DEF Places, Closed
<1> QED
  BY <1>1, <1>2, <1>3, <1>6, <1>7, OthersKeepLines

\* The S3 service: what it answers, and what the access hook has recorded.
LEMMA S3Kept ==
    ASSUME FrontInv, NEW r \in Requests, S3Step(r)
    PROVE  TasksTyped' /\ \A s \in Requests : RequestAt(s)'
<1>1. /\ TasksTyped /\ \A s \in Requests : RequestAt(s)
      /\ at[r] \in {"run", "put"} /\ asked[r] \in Inputs /\ ForS3(asked[r]) /\ LinesOf(r) = {}
      /\ status[r] = 0 /\ slot[r] \in Slots \union {None}
      /\ at[r] = "run" => slot[r] = None
      /\ at[r] = "put" => /\ slot[r] # None /\ slot[r].op = asked[r].op
                          /\ MayRun(asked[r])
  <2>1. at[r] \in {"run", "put"}
    BY DEF S3Step, WronglySigned, NoOperation, Denied, CreateBucket, DeleteBucket,
           DeleteBucketCors, BeginPutBucketCors, EndPutBucketCors, RunOther, Runs
  <2> QED
    BY <2>1 DEF FrontInv, RequestAt, StatusAt, AskedAt, RecordedAt, LinesAt, TasksTyped, Codes
<1>2. asked' = [asked EXCEPT ![r] = asked[r]] /\ lines' = lines
  BY <1>1 DEF S3Step, WronglySigned, NoOperation, Denied, CreateBucket, DeleteBucket,
              DeleteBucketCors, BeginPutBucketCors, EndPutBucketCors, RunOther, Runs, TasksTyped
<1> DEFINE found == [op |-> asked[r].op, auth |-> asked[r].sign]
           \* The response is there, or the row is to be replaced.
           Ends(w, code, kept) ==
               /\ at' = [at EXCEPT ![r] = w]
               /\ status' = [status EXCEPT ![r] = code]
               /\ slot' = [slot EXCEPT ![r] = kept]
<1>3. found \in Slots /\ found # None /\ found.op = asked[r].op
  BY <1>1, OperationsAssumption DEF Slots
<1> HIDE DEF found
<1>4. \E w \in {"served", "put"}, code \in Codes, kept \in Slots \union {None} :
        /\ Ends(w, code, kept)
        /\ w = "served" <=> code # 0
        /\ kept = None => w = "served" /\ (asked[r].op = None \/ asked[r].sign = "bad")
        /\ kept # None => kept.op = asked[r].op
        /\ ~MayRun(asked[r]) => w = "served" /\ code \in Refusals(asked[r])
        /\ w = "put" => Valid(asked[r].rules)
  <2>1. CASE WronglySigned(r) \/ NoOperation(r)
    <3>1. PICK c \in {403, 501} : /\ Ends("served", c, slot[r])
                                  /\ asked[r].op = None \/ asked[r].sign = "bad"
                                  /\ c \in Refusals(asked[r])
      <4>1. CASE WronglySigned(r)
        <5>1. Ends("served", 403, slot[r])
          BY <1>1, <4>1 DEF WronglySigned, Serve, Goes, TasksTyped
        <5>2. asked[r].sign = "bad" /\ 403 \in Refusals(asked[r])
          BY <4>1 DEF WronglySigned, Refusals
        <5> QED
          BY <5>1, <5>2
      <4>2. CASE NoOperation(r)
        <5>1. Ends("served", 501, slot[r])
          BY <1>1, <4>2 DEF NoOperation, Serve, Goes, TasksTyped
        <5>2. asked[r].op = None /\ 501 \in Refusals(asked[r])
          BY <4>2 DEF NoOperation, Refusals
        <5> QED
          BY <5>1, <5>2
      <4> QED
        BY <2>1, <4>1, <4>2
    <3>2. at[r] = "run"
      BY <2>1 DEF WronglySigned, NoOperation
    <3>3. slot[r] = None /\ c \in Codes /\ c # 0
      BY <1>1, <3>2 DEF Codes
    <3> HIDE DEF Ends
    <3> QED
      BY <3>1, <3>3
  <2>2. CASE Denied(r)
    <3>1. Ends("served", 403, found)
      BY <1>1, <2>2 DEF Denied, Serve, Goes, Recorded, found
    <3>2. 403 \in Codes /\ 403 # 0
      BY DEF Codes
    <3>3. 403 \in Refusals(asked[r])
      BY <2>2 DEF Denied, Refusals
    <3> QED
      BY <1>3, <3>1, <3>2, <3>3
  <2>3. ASSUME NEW ops, NEW code \in Codes \ {0}, Runs(r, ops), Serve(r, code)
        PROVE  /\ Ends("served", code, found)
               /\ MayRun(asked[r])
    BY <2>3 DEF Runs, Serve, Goes, Recorded, found
  <2>4. CASE CreateBucket(r) \/ DeleteBucket(r) \/ DeleteBucketCors(r) \/ RunOther(r)
    <3>1. PICK ops \in SUBSET {"CreateBucket", "DeleteBucket", "DeleteBucketCors", "GetObject",
                               "PutObject", "ListBuckets"},
               code \in Codes \ {0} : Runs(r, ops) /\ Serve(r, code)
      <4>1. CASE CreateBucket(r)
        <5> DEFINE c == IF asked[r].to \in buckets THEN 409 ELSE 200
        <5>1. c \in Codes \ {0} /\ Serve(r, c) /\ Runs(r, {"CreateBucket"})
          BY <4>1 DEF CreateBucket, Codes
        <5> QED
          BY <5>1
      <4>2. CASE DeleteBucket(r)
        <5>1. PICK c \in {204, 404, 409} : Serve(r, c)
          BY <4>2 DEF DeleteBucket
        <5>2. c \in Codes \ {0} /\ Runs(r, {"DeleteBucket"})
          BY <4>2 DEF DeleteBucket, Codes
        <5> QED
          BY <5>1, <5>2
      <4>3. CASE DeleteBucketCors(r)
        BY <4>3 DEF DeleteBucketCors, Codes
      <4>4. CASE RunOther(r)
        <5>1. PICK c \in {200, 404} : Serve(r, c)
          BY <4>4 DEF RunOther
        <5>2. c \in Codes \ {0} /\ Runs(r, {"GetObject", "PutObject", "ListBuckets"})
          BY <4>4 DEF RunOther, Codes
        <5> QED
          BY <5>1, <5>2
      <4> QED
        BY <2>4, <4>1, <4>2, <4>3, <4>4
    <3> QED
      BY <1>3, <2>3, <3>1
  <2>5. CASE BeginPutBucketCors(r)
    <3> DEFINE ops == {"PutBucketCors"}
    <3>1. Runs(r, ops)
      BY <2>5 DEF BeginPutBucketCors
    <3> HIDE DEF ops
    <3>2. CASE asked[r].to \notin buckets
      <4>1. Serve(r, 404)
        BY <2>5, <3>2 DEF BeginPutBucketCors
      <4>2. 404 \in Codes \ {0}
        BY DEF Codes
      <4> QED
        BY <1>3, <2>3, <3>1, <4>1, <4>2
    <3>3. CASE asked[r].to \in buckets /\ ~Valid(asked[r].rules)
      <4>1. Serve(r, 400)
        BY <2>5, <3>3 DEF BeginPutBucketCors
      <4>2. 400 \in Codes \ {0}
        BY DEF Codes
      <4> QED
        BY <1>3, <2>3, <3>1, <4>1, <4>2
    <3>4. CASE asked[r].to \in buckets /\ Valid(asked[r].rules)
      <4>1. Goes(r, "put") /\ UNCHANGED status
        BY <2>5, <3>4 DEF BeginPutBucketCors
      <4>2. Ends("put", 0, found) /\ 0 \in Codes /\ MayRun(asked[r])
        BY <1>1, <3>1, <4>1 DEF Goes, Runs, Recorded, TasksTyped, Codes, found
      <4> QED
        BY <1>3, <3>4, <4>2
    <3> QED
      BY <3>2, <3>3, <3>4
  <2>6. CASE EndPutBucketCors(r)
    <3> DEFINE c == IF asked[r].to \in buckets THEN 200 ELSE 500
    <3>1. c \in Codes \ {0}
      BY DEF Codes
    <3>2. Ends("served", c, slot[r]) /\ at[r] = "put"
      BY <1>1, <2>6 DEF EndPutBucketCors, Serve, Goes, TasksTyped
    <3> HIDE DEF c
    <3> QED
      BY <1>1, <3>1, <3>2
  <2> QED
    BY <2>1, <2>2, <2>4, <2>5, <2>6 DEF S3Step
<1>5. PICK w \in {"served", "put"}, code \in Codes, kept \in Slots \union {None} :
        /\ Ends(w, code, kept)
        /\ w = "served" <=> code # 0
        /\ kept = None => w = "served" /\ (asked[r].op = None \/ asked[r].sign = "bad")
        /\ kept # None => kept.op = asked[r].op
        /\ ~MayRun(asked[r]) => w = "served" /\ code \in Refusals(asked[r])
        /\ w = "put" => Valid(asked[r].rules)
  BY <1>4
<1>6. /\ at'[r] = w /\ status'[r] = code /\ slot'[r] = kept /\ asked'[r] = asked[r] /\ LinesOf(r)' = {}
  BY <1>1, <1>2, <1>5 DEF TasksTyped, LinesOf
<1>7. RequestAt(r)'
  <2>1. StatusAt(r)'
    BY <1>5, <1>6 DEF StatusAt
  <2>2. AskedAt(r)'
    BY <1>1, <1>5, <1>6 DEF AskedAt, MayRun, ForS3, ForUi, ForPreflight, FrontDoor
  <2>3. RecordedAt(r)'
    BY <1>5, <1>6 DEF RecordedAt
  <2>4. LinesAt(r)'
    BY <1>6 DEF LinesAt
  <2> QED
    BY <2>1, <2>2, <2>3, <2>4 DEF RequestAt
<1>8. w \in Places
  BY DEF Places, Open
<1> QED
  BY <1>1, <1>2, <1>5, <1>7, <1>8, OthersKeepLines

\* The capture: one line, with what the access hook recorded.
LEMMA CaptureKept ==
    ASSUME FrontInv, NEW r \in Requests, Capture(r)
    PROVE  TasksTyped' /\ \A s \in Requests : RequestAt(s)'
<1> DEFINE op == IF slot[r] = None THEN None ELSE slot[r].op
           auth == IF slot[r] = None THEN "none" ELSE slot[r].auth
           code == status[r]
           l == Line(r, op, auth, code)
<1>1. /\ TasksTyped /\ \A s \in Requests : RequestAt(s)
      /\ at[r] = "served" /\ asked[r] \in Inputs /\ ForS3(asked[r]) /\ LinesOf(r) = {}
      /\ code \in Codes \ {0} /\ slot[r] \in Slots \union {None}
      /\ asked[r].sign # "bad" => op = asked[r].op
      /\ ~MayRun(asked[r]) => code \in Refusals(asked[r])
  <2>1. at[r] = "served"
    BY DEF Capture
  <2> QED
    BY <2>1 DEF FrontInv, RequestAt, StatusAt, AskedAt, RecordedAt, LinesAt, TasksTyped
<1>2. /\ at' = [at EXCEPT ![r] = "answered"] /\ lines' = Append(lines, l)
      /\ asked' = [asked EXCEPT ![r] = asked[r]] /\ slot' = [slot EXCEPT ![r] = slot[r]]
      /\ status' = [status EXCEPT ![r] = code]
  <2>1. /\ at' = [at EXCEPT ![r] = "answered"] /\ lines' = Append(lines, l)
        /\ UNCHANGED <<asked, status, slot>>
    BY DEF Capture, Goes, Log
  <2> QED
    BY <1>1, <2>1 DEF TasksTyped
<1>3. l \in LogLines /\ l.req = r /\ l.status = code /\ l.op = op
  <2>1. op \in {q.op : q \in Inputs} \union {None, "Preflight"}
    BY <1>1 DEF Slots
  <2>2. auth \in {q.sign : q \in Inputs} \union {"none"}
    BY <1>1 DEF Slots
  <2> HIDE DEF op, auth
  <2> QED
    BY <1>1, <2>1, <2>2 DEF Line, LogLines
<1> HIDE DEF op, auth, code, l
<1>4. PICK n \in DOMAIN lines' : lines'[n] = l /\ LinesOf(r)' = {n}
  BY <1>1, <1>2, <1>3, Logged DEF TasksTyped
<1>5. at'[r] = "answered" /\ status'[r] = code /\ asked'[r] = asked[r]
  BY <1>1, <1>2 DEF TasksTyped
<1>6. RequestAt(r)'
  <2>1. StatusAt(r)' /\ RecordedAt(r)'
    BY <1>1, <1>5 DEF StatusAt, RecordedAt
  <2>2. AskedAt(r)'
    BY <1>1, <1>5 DEF AskedAt
  <2>3. TrueLine(r, n)'
    BY <1>1, <1>3, <1>4, <1>5 DEF TrueLine, MayRun, Refusals, ForS3, ForPreflight, ForUi, FrontDoor
  <2>4. ForS3(asked[r])'
    BY <1>1, <1>5 DEF ForS3, ForPreflight, ForUi, FrontDoor
  <2>5. LinesAt(r)'
    BY <1>4, <1>5, <2>3, <2>4 DEF LinesAt
  <2> QED
    BY <2>1, <2>2, <2>5 DEF RequestAt
<1>7. "answered" \in Places /\ code \in Codes
  BY <1>1 DEF Places, Closed
<1>8. \E m \in LogLines : m.req = r /\ lines' = Append(lines, m)
  BY <1>2, <1>3
<1>9. /\ TasksTyped /\ \A s \in Requests : RequestAt(s)
      /\ asked[r] \in Inputs /\ slot[r] \in Slots \union {None}
      /\ at' = [at EXCEPT ![r] = "answered"]
      /\ asked' = [asked EXCEPT ![r] = asked[r]] /\ slot' = [slot EXCEPT ![r] = slot[r]]
      /\ status' = [status EXCEPT ![r] = code]
  BY <1>1, <1>2
<1> QED
  BY <1>6, <1>7, <1>8, <1>9, OthersKeepLines

\* The call fails: a line, and no answer.
LEMMA ErrorKept ==
    ASSUME FrontInv, NEW r \in Requests, TransportError(r)
    PROVE  TasksTyped' /\ \A s \in Requests : RequestAt(s)'
<1> DEFINE l == Line(r, None, "none", 500)
<1>1. /\ TasksTyped /\ \A s \in Requests : RequestAt(s)
      /\ at[r] = "run" /\ asked[r] \in Inputs /\ ForS3(asked[r]) /\ status[r] = 0
      /\ slot[r] \in Slots \union {None}
  BY DEF TransportError, FrontInv, RequestAt, StatusAt, AskedAt, TasksTyped, Codes
<1>2. /\ at' = [at EXCEPT ![r] = "failed"] /\ lines' = Append(lines, l)
      /\ asked' = [asked EXCEPT ![r] = asked[r]] /\ slot' = [slot EXCEPT ![r] = slot[r]]
      /\ status' = [status EXCEPT ![r] = 0]
  <2>1. /\ at' = [at EXCEPT ![r] = "failed"] /\ lines' = Append(lines, l)
        /\ UNCHANGED <<asked, status, slot>>
    BY DEF TransportError, Goes, Log, reply
  <2> QED
    BY <1>1, <2>1 DEF TasksTyped
<1>3. l \in LogLines /\ l.req = r
  BY DEF Line, LogLines, Codes
<1> HIDE DEF l
<1>4. at'[r] = "failed" /\ status'[r] = 0 /\ asked'[r] = asked[r]
  BY <1>1, <1>2 DEF TasksTyped
<1>5. RequestAt(r)'
  BY <1>1, <1>4 DEF RequestAt, StatusAt, AskedAt, RecordedAt, LinesAt
<1>6. "failed" \in Places /\ 0 \in Codes
  BY DEF Places, Closed, Codes
<1> QED
  BY <1>1, <1>2, <1>3, <1>5, <1>6, OthersKeepLines

\* The connection ends, or the row of a request that is gone is replaced: no line.
LEMMA GoneKept ==
    ASSUME FrontInv, NEW r \in Requests, HangUp(r) \/ PutDetached(r)
    PROVE  TasksTyped' /\ \A s \in Requests : RequestAt(s)'
<1>1. /\ TasksTyped /\ \A s \in Requests : RequestAt(s)
      /\ at[r] \in Open \union {"detached"} /\ asked[r] \in Inputs /\ LinesOf(r) = {}
      /\ slot[r] \in Slots \union {None}
  BY DEF HangUp, PutDetached, FrontInv, RequestAt, AskedAt, LinesAt, TasksTyped, Open
<1>2. PICK w \in {"gone", "detached"} :
        /\ at' = [at EXCEPT ![r] = w]
        /\ w = "detached" => at[r] = "put"
        /\ lines' = lines
        /\ asked' = [asked EXCEPT ![r] = asked[r]] /\ slot' = [slot EXCEPT ![r] = slot[r]]
        /\ status' = [status EXCEPT ![r] = 0]
  <2>1. CASE HangUp(r)
    <3>1. /\ at' = [at EXCEPT ![r] = IF at[r] = "put" THEN "detached" ELSE "gone"]
          /\ status' = [status EXCEPT ![r] = 0] /\ UNCHANGED <<asked, slot, lines>>
      BY <2>1 DEF HangUp, Goes
    <3> QED
      BY <1>1, <3>1 DEF TasksTyped
  <2>2. CASE PutDetached(r)
    <3>1. /\ at' = [at EXCEPT ![r] = "gone"] /\ at[r] = "detached"
          /\ UNCHANGED <<asked, status, slot, lines>>
      BY <2>2 DEF PutDetached, Goes, reply
    <3>2. status[r] = 0
      BY <1>1, <3>1 DEF RequestAt, StatusAt, TasksTyped, Codes
    <3> QED
      BY <1>1, <3>1, <3>2 DEF TasksTyped
  <2> QED
    BY <2>1, <2>2
<1>3. at'[r] = w /\ status'[r] = 0 /\ asked'[r] = asked[r] /\ LinesOf(r)' = {}
  BY <1>1, <1>2 DEF TasksTyped, LinesOf
<1>4. AskedAt(r)'
  <2>1. CASE w = "gone"
    BY <1>1, <1>3, <2>1 DEF AskedAt
  <2>2. CASE w = "detached"
    <3>1. ForS3(asked[r]) /\ Valid(asked[r].rules) /\ MayRun(asked[r])
      BY <1>1, <1>2, <2>2 DEF RequestAt, AskedAt
    <3> QED
      BY <1>1, <1>3, <2>2, <3>1 DEF AskedAt, MayRun, ForS3, ForUi, ForPreflight, FrontDoor
  <2> QED
    BY <2>1, <2>2
<1>5. RequestAt(r)'
  BY <1>3, <1>4 DEF RequestAt, StatusAt, RecordedAt, LinesAt
<1>6. w \in Places /\ 0 \in Codes
  BY DEF Places, Closed, Codes
<1> QED
  BY <1>1, <1>2, <1>5, <1>6, OthersKeepLines

\* The invariant that the theorems below rest on: however requests of S3, of
\* browsers and of the UI interleave and end, each is where its kind goes, what
\* the access hook recorded is of it, and the live log has its line or none.
THEOREM FrontInductive == Spec => []FrontInv
<1>1. Init => FrontInv
  <2> SUFFICES ASSUME Init PROVE FrontInv
    OBVIOUS
  <2>1. RowsTyped
    BY ConfigsAssumption DEF Init, RowsTyped
  <2>2. TasksTyped
    BY DEF Init, TasksTyped, Places, Codes
  <2>3. \A r \in Requests : RequestAt(r)
    BY DEF Init, RequestAt, StatusAt, AskedAt, RecordedAt, LinesAt, LinesOf
  <2> QED
    BY <2>1, <2>2, <2>3 DEF FrontInv
<1>2. FrontInv /\ [Next]_vars => FrontInv'
  <2> SUFFICES ASSUME FrontInv, [Next]_vars PROVE TasksTyped' /\ \A r \in Requests : RequestAt(r)'
    BY RowsKept DEF FrontInv
  <2>1. CASE UNCHANGED vars
    <3>1. UNCHANGED <<at, asked, status, slot, lines>>
      BY <2>1 DEF vars, reply
    <3>2. TasksTyped'
      BY <3>1 DEF FrontInv, TasksTyped
    <3>3. ASSUME NEW r \in Requests PROVE RequestAt(r)'
      <4>1. LinesOf(r)' = LinesOf(r) /\ RequestAt(r)
        BY <3>1 DEF LinesOf, FrontInv
      <4> QED
        BY <3>1, <4>1 DEF RequestAt, StatusAt, AskedAt, RecordedAt, LinesAt, TrueLine
    <3> QED
      BY <3>2, <3>3
  <2>2. CASE Next
    BY <2>2, ArriveKept, UiKept, S3Kept, CaptureKept, ErrorKept, GoneKept DEF Next
  <2> QED
    BY <2>1, <2>2
<1> QED
  BY <1>1, <1>2, PTL DEF Spec

\* The variables have their types; above all, the rules of a bucket name methods
\* of S3 only, also those that a request replaced after its client was gone.
THEOREM FrontTyped == Spec => []TypeOK
<1>1. FrontInv => TypeOK
  <2> SUFFICES ASSUME FrontInv PROVE TypeOK
    OBVIOUS
  <2>1. buckets \subseteq Buckets /\ fresh \in [Buckets -> BOOLEAN]
    BY DEF FrontInv, RowsTyped
  <2>2. \A b \in Buckets : cors[b] # None =>
          cors[b] # <<>> /\ \A i \in DOMAIN cors[b] : cors[b][i].methods \subseteq S3Methods
    BY DEF FrontInv, RowsTyped, Valid
  <2>3. /\ at \in [Requests -> Open \union Closed \union {"none", "detached"}]
        /\ asked \in [Requests -> Inputs \union {None}]
        /\ status \in [Requests -> {0, 200, 201, 204, 302, 400, 403, 404, 405, 409, 500, 501}]
    BY DEF FrontInv, TasksTyped, Places, Codes
  <2>4. \A r \in Requests : at[r] \in {"served", "answered"} <=> status[r] # 0
    BY DEF FrontInv, RequestAt, StatusAt
  <2>5. \A i \in DOMAIN lines : lines[i].req \in Requests /\ lines[i].status # 0
    <3>1. ASSUME NEW i \in DOMAIN lines PROVE lines[i] \in LogLines
      BY DEF FrontInv, TasksTyped
    <3> QED
      BY <3>1 DEF LogLines
  <2> QED
    BY <2>1, <2>2, <2>3, <2>4, <2>5 DEF TypeOK
<1> QED
  BY <1>1, FrontInductive, PTL

\* The live log has one line for each S3 request and preflight that was
\* answered, with its status and operation, none for what is not S3 and none for
\* what was dropped; a request that may not run is turned away for its signature
\* or for want of an operation.  What the page asks for an object comes to the
\* handler of objects for that bucket and key, unless a segment of the key is one
\* of dots or begins with the word of notifications.  For any requests and any
\* rules, whatever else runs between a request's steps.
THEOREM RequestsHandledAndLogged == Spec => []HandledAndLogged
<1>1. FrontInv => HandledAndLogged
  <2> SUFFICES ASSUME FrontInv, NEW r \in Requests
               PROVE  /\ at[r] = "answered" => Cardinality(LinesOf(r)) =
                           IF ForS3(asked[r]) \/ ForPreflight(asked[r]) THEN 1 ELSE 0
                      /\ at[r] \in Open \union {"detached", "gone"} => LinesOf(r) = {}
                      /\ \A i \in LinesOf(r) : at[r] = "answered" =>
                           /\ lines[i].status = status[r]
                           /\ ForS3(asked[r]) /\ asked[r].sign # "bad" => lines[i].op = asked[r].op
                           /\ ForS3(asked[r]) /\ ~MayRun(asked[r]) => status[r] \in Refusals(asked[r])
                      /\ at[r] = "answered" => UiReaches(asked[r])
    BY DEF HandledAndLogged, LoggedTruly
  <2>1. RequestAt(r)
    BY DEF FrontInv
  <2>2. CASE at[r] = "answered"
    <3>1. UiReaches(asked[r])
      BY <2>1, <2>2, PageReaches DEF RequestAt, AskedAt
    <3>2. CASE ForS3(asked[r]) \/ ForPreflight(asked[r])
      <4>1. PICK i \in DOMAIN lines : LinesOf(r) = {i} /\ TrueLine(r, i)
        BY <2>1, <2>2, <3>2 DEF RequestAt, LinesAt
      <4>2. Cardinality(LinesOf(r)) = 1
        BY <4>1, FS_Singleton
      <4> QED
        BY <2>2, <3>1, <3>2, <4>1, <4>2 DEF TrueLine, Open
    <3>3. CASE ~(ForS3(asked[r]) \/ ForPreflight(asked[r]))
      <4>1. LinesOf(r) = {} /\ Cardinality({}) = 0
        BY <2>1, <2>2, <3>3, FS_EmptySet DEF RequestAt, LinesAt
      <4> QED
        BY <2>2, <3>1, <3>3, <4>1 DEF Open
    <3> QED
      BY <3>2, <3>3
  <2>3. CASE at[r] # "answered"
    BY <2>1, <2>3 DEF RequestAt, LinesAt, Open
  <2> QED
    BY <2>2, <2>3
<1> QED
  BY <1>1, FrontInductive, PTL

==============================================================================

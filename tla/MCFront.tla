-------------------------------- MODULE MCFront --------------------------------
(***************************************************************************)
(* Front for TLC.                                                          *)
(***************************************************************************)
EXTENDS Front, TLC

Symmetry == Permutations(Requests)

Here  == <<"http", "here", "org">>
There == <<"http", "there", "org">>

Rule(origins, methods, headers) ==
    [origins |-> origins, methods |-> methods, headers |-> headers, expose |-> {"etag"}]

\* A rule for one origin to read and one for its neighbours to write; rules of
\* which a later one covers more; and one that is not valid.
TwoRules == <<Rule(<<Here>>, {"GET"}, {}), Rule(<<<<"http", Star, "org">>>>, {"GET", "PUT"}, {"x-amz"})>>
Anyone   == <<Rule(<<There, <<Star>>>>, {"PUT"}, {Star})>>
Invalid  == <<Rule(<<<<Star>>>>, {"PUT", "PATCH"}, {})>>

MCConfigs == {TwoRules, Anyone}

Plain == [method |-> "GET", to |-> "root", op |-> None, rules |-> <<>>, sign |-> "none",
          origin |-> None, wants |-> None, headers |-> {}, html |-> FALSE,
          path |-> None, content |-> FALSE, names |-> None, bucket |-> None, key |-> None]

ToBucket == [Plain EXCEPT !.to = CHOOSE b \in Buckets : TRUE]

Preflight(origin, method, headers) ==
    [ToBucket EXCEPT !.method = "OPTIONS", !.origin = origin, !.wants = method, !.headers = headers]

S3Call(op, method, sign, origin) ==
    [ToBucket EXCEPT !.op = op, !.method = method, !.sign = sign, !.origin = origin]

PutRules(rules) == [S3Call("PutBucketCors", "PUT", "header", None) EXCEPT !.rules = rules]

Ui(method, path) == [Plain EXCEPT !.to = "ui", !.method = method, !.path = path]

\* A request of the page for an object, which goes where its URL leads.
UiObject(method, key, content) ==
    LET url == Resolved(ObjectUrl(<<"b">>, key))
        q == IF InApi(url) THEN Ui(method, ApiPath(url))
             ELSE IF url[1] = <<"_">> THEN Ui(method, None)
             ELSE [ToBucket EXCEPT !.method = method, !.op = "PutObject"]
    IN [q EXCEPT !.bucket = <<"b">>, !.key = key, !.content = content]

\* Requests for objects with keys whose segments mean something in a path of
\* the UI's API.
UiObjects ==
    {UiObject("GET", <<<<"a">>, <<"cors">>>>, FALSE), UiObject("PUT", <<<<"objects">>, <<>>>>, FALSE),
     UiObject("GET", <<<<"a">>, <<"content">>>>, FALSE), UiObject("GET", <<<<"a">>, <<"content">>>>, TRUE),
     UiObject("DELETE", <<<<"notifications", "-1">>>>, FALSE),
     UiObject("GET", <<<<"a">>, <<"notifications">>, <<"7">>, <<"x">>>>, FALSE),
     UiObject("DELETE", <<<<"a">>, <<"..">>, <<"b">>>>, FALSE),
     UiObject("PUT", [i \in 1..7 |-> IF i < 6 THEN <<"..">> ELSE <<"b">>], FALSE)}

UiInputs ==
    UiObjects
      \union {[Ui("POST", <<<<"buckets">>>>) EXCEPT !.names = n] : n \in Buckets \union {None}}
      \union {Ui("GET", <<<<"buckets">>, <<"b">>, <<"cors">>>>)}

MCInputs == UiInputs \union
    {[Plain EXCEPT !.to = "ui"], [Plain EXCEPT !.to = "probe"], [Plain EXCEPT !.html = TRUE],
     [Plain EXCEPT !.op = "ListBuckets", !.sign = "header", !.html = TRUE],
     Preflight(Here, "PUT", {"x-amz"}), Preflight(There, "GET", {}),
     [Preflight(Here, "GET", {}) EXCEPT !.to = "probe"],
     [ToBucket EXCEPT !.method = "OPTIONS", !.origin = Here],
     S3Call("GetObject", "GET", "presigned", There), S3Call("PutObject", "PUT", "header", Here),
     S3Call("GetObject", "GET", "none", None), S3Call("PutObject", "PUT", "bad", Here),
     PutRules(TwoRules), PutRules(Invalid),
     S3Call("DeleteBucketCors", "DELETE", "header", Here),
     S3Call("CreateBucket", "PUT", "header", None), S3Call("DeleteBucket", "DELETE", "header", Here)}

==============================================================================

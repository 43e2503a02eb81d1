--------------------------------- MODULE UiApi ---------------------------------
(***************************************************************************)
(* Which handler of the UI's API answers a request (api/mod.rs and the     *)
(* route functions of its parts).  A path, after /_/api/, is a sequence of *)
(* segments, and a segment a sequence of words: "notifications-2024" is    *)
(* <<"notifications", "-2024">>, the empty segment <<>>.                    *)
(***************************************************************************)
EXTENDS Naturals, Sequences

\* A route: who answers, for which bucket and which item of it; a bucket is a
\* sequence of segments since it is what stands before a separator.
To(by, bucket, item) == [by |-> by, bucket |-> bucket, item |-> item, code |-> 0]

\* No handler: an error with a status.
Refuse(code) == [by |-> "nobody", bucket |-> <<>>, item |-> <<>>, code |-> code]

\* split_once at "/word", after "buckets/": where the word is.
Separators(sub, word) ==
    IF sub = <<>> \/ sub[1] # <<"buckets">> THEN {}
    ELSE {i \in 3..Len(sub) : sub[i] # <<>> /\ sub[i][1] = word}

Separator(sub, word) ==
    CHOOSE i \in Separators(sub, word) : \A j \in Separators(sub, word) : i <= j

Before(sub, i) == SubSeq(sub, 2, i - 1)

\* What follows the separator and a slash; nothing if other words follow it.
Item(sub, i) ==
    LET tail == SubSeq(sub, i + 1, Len(sub))
    IN IF Len(sub[i]) > 1 \/ tail = <<<<>>>> THEN <<>> ELSE tail

HasBucket(sub, word) ==
    Separators(sub, word) # {} /\ Before(sub, Separator(sub, word)) # <<<<>>>>

\* parse_notifications_path, parse_cors_path and parse_objects_path: for whom
\* the path is.
IsNotifications(sub) ==
    /\ HasBucket(sub, "notifications")
    /\ Len(Item(sub, Separator(sub, "notifications"))) <= 1

IsCors(sub) ==
    /\ HasBucket(sub, "cors")
    /\ Separator(sub, "cors") = 3 /\ Len(sub) = 3 /\ Len(sub[3]) = 1

IsObjects(sub) == HasBucket(sub, "objects")

\* route in api/notifications.rs.
RouteNotifications(method, bucket, id) ==
    IF method = "DELETE" THEN IF id = <<>> THEN Refuse(400) ELSE To("delete destination", bucket, id)
    ELSE IF id # <<>> \/ method \notin {"GET", "POST"} THEN Refuse(405)
    ELSE To(IF method = "GET" THEN "list destinations" ELSE "create destination", bucket, id)

\* route in api/cors.rs.
RouteCors(method, bucket) == IF method = "GET" THEN To("read rules", bucket, <<>>) ELSE Refuse(405)

\* route in api/objects.rs; content is whether the query asks for the bytes.
RouteObjects(method, bucket, key, content) ==
    IF method \notin {"GET", "PUT", "DELETE"} THEN Refuse(405)
    ELSE IF key = <<>> THEN IF method = "GET" THEN To("list objects", bucket, key) ELSE Refuse(400)
    ELSE To(IF method = "PUT" THEN "upload"
            ELSE IF method = "DELETE" THEN "delete object"
            ELSE IF content \/ key[Len(key)] = <<"content">> THEN "content"
            ELSE "meta",
            bucket, key)

\* dispatch: fixed paths, and then the separators in this order.
FixedPaths ==
    {<<"GET", <<<<p>>>>>> : p \in {"health", "events", "search"}}
      \union {<<"POST", <<<<"events">>, <<"clear">>>>>>, <<"POST", <<<<"presign">>>>>>}

Dispatch(method, sub, content) ==
    LET at(word) == Separator(sub, word)
    IN IF <<method, sub>> \in FixedPaths THEN To("fixed", <<>>, <<>>)
       ELSE IF sub = <<<<"buckets">>>> THEN
            IF method = "GET" THEN To("list buckets", <<>>, <<>>)
            ELSE IF method = "POST" THEN To("create bucket", <<>>, <<>>)
            ELSE Refuse(404)
       ELSE IF IsNotifications(sub) THEN
            RouteNotifications(method, Before(sub, at("notifications")), Item(sub, at("notifications")))
       ELSE IF IsCors(sub) THEN RouteCors(method, Before(sub, 3))
       ELSE IF IsObjects(sub) THEN
            RouteObjects(method, Before(sub, at("objects")), Item(sub, at("objects")), content)
       ELSE Refuse(404)

\* What the page builds for an object: its URL.  Each segment of the key is
\* escaped, which leaves those of dots as they are.
ObjectUrl(bucket, key) ==
    <<<<"_">>, <<"api">>, <<"buckets">>, bucket, <<"objects">>>> \o key

DotSegments == {<<".">>, <<"..">>}

\* What the browser sends for a URL: its parser takes out the segments of dots,
\* ".." with the segment before it; at the end they leave an empty segment.
Resolved(url) ==
    LET kept[i \in 0..Len(url)] ==
            IF i = 0 THEN <<>>
            ELSE IF url[i] \notin DotSegments THEN Append(kept[i - 1], url[i])
            ELSE LET before == kept[i - 1]
                     dir == IF url[i] = <<".">> \/ before = <<>> THEN before
                            ELSE SubSeq(before, 1, Len(before) - 1)
                 IN IF i = Len(url) THEN Append(dir, <<>>) ELSE dir
    IN IF \A i \in DOMAIN url : url[i] \notin DotSegments THEN url ELSE kept[Len(url)]

\* serve_ui: whether a URL is one of the API, and the path that dispatch gets,
\* which has no slashes before it.  (That /_/api is taken off again where it follows
\* itself is left out.)
InApi(url) == Len(url) > 2 /\ url[1] = <<"_">> /\ url[2] = <<"api">>

ApiPath(url) ==
    LET starts == {i \in 3..Len(url) : url[i] # <<>> \/ i = Len(url)}
    IN SubSeq(url, CHOOSE i \in starts : \A j \in starts : i <= j, Len(url))

==============================================================================

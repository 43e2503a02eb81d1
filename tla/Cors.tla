--------------------------------- MODULE Cors ---------------------------------
(***************************************************************************)
(* The rules of a bucket for requests from other origins (cors.rs).  An    *)
(* origin is a sequence of words; in a pattern one of them may be Star.    *)
(***************************************************************************)
EXTENDS Naturals, Sequences, SequencesExt

CONSTANT Star      \* the wildcard

\* No headers are added; a preflight is refused.
NoGrant == <<>>

S3Methods == {"GET", "PUT", "POST", "DELETE", "HEAD"}

\* validate: what PutBucketCors accepts.
\* (variant: the methods are not looked at)
ValidButMethods(rules) ==
    rules # <<>> /\ \A i \in DOMAIN rules : rules[i].origins # <<>> /\ rules[i].methods # {}

Valid(rules) ==
    /\ rules # <<>>
    /\ \A i \in DOMAIN rules :
        /\ rules[i].origins # <<>> /\ rules[i].methods # {}
        /\ rules[i].methods \subseteq S3Methods

\* origin_matches: the first wildcard of a pattern stands for anything.
OriginMatches(pattern, origin) ==
    LET stars == {i \in DOMAIN pattern : pattern[i] = Star}
    IN IF stars = {} THEN pattern = origin
       ELSE LET i == CHOOSE i \in stars : \A j \in stars : i <= j
                prefix == SubSeq(pattern, 1, i - 1)
                suffix == SubSeq(pattern, i + 1, Len(pattern))
            IN /\ Len(origin) >= Len(prefix) + Len(suffix)
               /\ IsPrefix(prefix, origin) /\ IsSuffix(suffix, origin)

\* matching_origin: the patterns of a rule that match, of which the first counts.
Matching(rule, origin) == {i \in DOMAIN rule.origins : OriginMatches(rule.origins[i], origin)}

HeadersAllowed(rule, headers) == Star \in rule.headers \/ headers \subseteq rule.headers

Covers(rule, origin, method) == Matching(rule, origin) # {} /\ method \in rule.methods

Least(S) == CHOOSE i \in S : \A j \in S : i <= j

\* allow_origin_for: "*" is for everyone, any other answer for this origin only.
Grant(rule, origin) ==
    LET everyone == rule.origins[Least(Matching(rule, origin))] = <<Star>>
    IN [allow |-> IF everyone THEN <<Star>> ELSE origin, expose |-> rule.expose, vary |-> ~everyone]

\* The first rule that matches wins.
FirstGrant(rules, matching, origin) ==
    IF matching = {} THEN NoGrant ELSE Grant(rules[Least(matching)], origin)

MatchPreflight(rules, origin, method, headers) ==
    FirstGrant(rules,
               {i \in DOMAIN rules : Covers(rules[i], origin, method) /\ HeadersAllowed(rules[i], headers)},
               origin)

\* (variant: the first rule for the origin decides, whatever its methods)
MatchActualByOrigin(rules, origin, method) ==
    LET first == {i \in DOMAIN rules : Matching(rules[i], origin) # {}
                       /\ \A j \in 1..(i - 1) : Matching(rules[j], origin) = {}}
    IN FirstGrant(rules, {i \in first : Covers(rules[i], origin, method)}, origin)

MatchActual(rules, origin, method) ==
    FirstGrant(rules, {i \in DOMAIN rules : Covers(rules[i], origin, method)}, origin)

==============================================================================

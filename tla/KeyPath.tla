------------------------------- MODULE KeyPath -------------------------------
(***************************************************************************)
(* Keys and paths (keypath.rs).  A key is a sequence of characters, which  *)
(* are numbers in the order of their code points.  A path, relative to the *)
(* directory of its bucket, is a sequence of names.                        *)
(***************************************************************************)
EXTENDS Orders, SequencesExt

CONSTANTS
    Slash, Dot, Percent,   \* characters; at the end of a name Dot is also the space
    Illegal,               \* characters that Windows forbids in names
    Devices                \* the names that Windows reserves (CON, ...)

ASSUME PercentAssumption == Percent \in Illegal

\* The segments between slashes, empty ones included.
Segments(k) ==
    LET cuts == {0} \union {i \in DOMAIN k : k[i] = Slash}
        ends == Append(Sorted(cuts), Len(k) + 1)
    IN [n \in 1..(Len(ends) - 1) |-> SubSeq(k, ends[n] + 1, ends[n + 1] - 1)]

\* %XX, with the digits taken as one character, that which they stand for.
Escape(c) == <<Percent, c>>

\* encode_segment: what is illegal, a run of dots at the end, a device name.
TrailingFrom(s) == CHOOSE n \in 1..(Len(s) + 1) :
    (\A i \in n..Len(s) : s[i] = Dot) /\ (n > 1 => s[n - 1] # Dot)

IsDevice(s) == \E d \in Devices :
    /\ IsPrefix(d, s)
    /\ Len(s) = Len(d) \/ (s[Len(d) + 1] = Dot /\ TrailingFrom(s) > Len(d) + 1)

\* (variant: the illegal characters are left as they are)
EncodeSegmentTail(s) ==
    FlattenSeq([i \in DOMAIN s |-> IF i >= TrailingFrom(s) THEN Escape(s[i]) ELSE <<s[i]>>])

EncodeSegment(s) ==
    FlattenSeq([i \in DOMAIN s |->
        IF s[i] \in Illegal \/ i >= TrailingFrom(s) \/ (i = 1 /\ IsDevice(s))
        THEN Escape(s[i]) ELSE <<s[i]>>])

\* key_to_relpath: PathBuf::push of an empty segment adds no name.
PathOf(k) ==
    LET names == Only(Segments(k), Range(Segments(k)) \ {<<>>})
    IN [n \in DOMAIN names |-> EncodeSegment(names[n])]

\* The path ends with a slash, and so names a directory or nothing.
NamesDirectory(k) == PathOf(k) = <<>> \/ Last(k) = Slash

\* percent_decode_str: what follows a percent sign stands for itself.
Decode(name) ==
    LET escaped[i \in DOMAIN name] ==
            i > 1 /\ name[i - 1] = Percent /\ ~escaped[i - 1]
        literal == {i \in DOMAIN name : name[i] # Percent \/ escaped[i] \/ i = Len(name)}
        kept == Sorted(literal)
    IN [n \in DOMAIN kept |-> name[kept[n]]]

\* relpath_to_key, for reindex.
KeyOf(path) ==
    FlattenSeq([n \in DOMAIN path |-> (IF n > 1 THEN <<Slash>> ELSE <<>>) \o Decode(path[n])])

==============================================================================

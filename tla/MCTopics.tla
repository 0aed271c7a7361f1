------------------------------ MODULE MCTopics ------------------------------
(* Every pattern of up to MaxLen characters, written one by one, against    *)
(* every topic of up to MaxTopic characters that can be published.          *)
EXTENDS Topics

CONSTANTS
    Letter,    \* the characters of topics, "/" among them
    MaxLen,
    MaxTopic

VARIABLE pattern

Init == pattern = <<>>
Write(x) == Len(pattern) < MaxLen /\ pattern' = Append(pattern, x)
Next == \E x \in Letter \cup {"+", "#"} : Write(x)
Spec == Init /\ [][Next]_pattern

Published == {t \in UNION {[1..n -> Letter] : n \in 1..MaxTopic} : IsValid("PUB", t)}

-----------------------------------------------------------------------------
(* The segments of a topic: what is between two "/" or after the last.      *)
Slashes(t) == {i \in DOMAIN t : t[i] = "/"}
SegmentAt(t, i) == SubSeq(t, i + 1, Min({j \in Slashes(t) : j > i} \cup {Len(t) + 1}) - 1)
Split(t) == [n \in 1..Cardinality(Slashes(t)) |->
    SegmentAt(t, CHOOSE i \in Slashes(t) : Cardinality({j \in Slashes(t) : j <= i}) = n)]

(* "+" stands for one segment, "#" for one or more, the others for themselves. *)
MatchesSegments(p, t) ==
    LET n == Len(p)
        levels == IF p[n] = <<"#">> THEN n - 1 ELSE n
    IN  /\ IF p[n] = <<"#">> THEN Len(t) >= n ELSE Len(t) = n
        /\ \A i \in 1..levels : IF p[i] = <<"+">> THEN t[i] # <<>> ELSE p[i] = t[i]

(* Wildcards that stand for themselves alone, as in "/a/+/#". *)
WholeSegments(p) ==
    \A i \in DOMAIN p : p[i] \in Wildcard => p[i - 1] = "/" /\ (i = Len(p) \/ p[i + 1] = "/")

(* A pattern that is accepted matches, segment by segment, the topics that  *)
(* its wildcards stand for, and is found in the database where it matches.  *)
WildcardsAreSegments ==
    (\E type \in Asking : IsValid(type, pattern)) /\ WholeSegments(pattern) =>
        \A t \in Published : Matches(pattern, t) <=> MatchesSegments(Split(pattern), Split(t))

(* The query of the database, which compares with "%", leaves out no topic  *)
(* that the pattern matches.                                                *)
RowsAreFound ==
    (\E type \in Asking : IsValid(type, pattern)) /\ WholeSegments(pattern) =>
        Found(pattern, Published) = {t \in Published : Matches(pattern, t)}
=============================================================================

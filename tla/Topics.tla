------------------------------- MODULE Topics -------------------------------
(***************************************************************************)
(* Topics, patterns and what matches what: NetfindMessage.is_valid         *)
(* (proto/model.py), Pattern (proto/pattern.py) and the query by which     *)
(* Database.get looks for the rows of a pattern (db.py).  A topic is the   *)
(* sequence of its characters.                                             *)
(*                                                                         *)
(* A pattern becomes a regular expression of items, each with the          *)
(* characters it accepts and how often.  Of the other characters that mean *)
(* something in a regular expression, those that the agent's topics have   *)
(* are here: "[", "]" and "."; a "+" or "#" is taken to be a segment of    *)
(* its own.                                                                *)
(***************************************************************************)
EXTENDS Naturals, Sequences, SequencesExt, FiniteSetsExt

CONSTANT Char    \* of patterns: "/", "+", "#", "[", "]", "." and others

Publishing == {"PUB", "LWT"}
Asking == {"GET", "SUB", "UNSUB"}

At(t, i, s) == i + Len(s) - 1 <= Len(t) /\ SubSeq(t, i, i + Len(s) - 1) = s
Has(t, s) == \E i \in DOMAIN t : At(t, i, s)
Count(t, s) == Cardinality({i \in DOMAIN t : At(t, i, s)})

(* There is one multi-level wildcard at most, and it is the last segment. *)
WildcardsAllowed(t) ==
    /\ Count(t, <<"/", "#">>) <= 1
    /\ Has(t, <<"/", "#">>) => At(t, Len(t) - 1, <<"/", "#">>)

(* is_valid, as far as it is about the topic. *)
IsValid(type, t) ==
    /\ t # <<>>
    /\ Head(t) = "/" /\ Last(t) # "/"
    /\ ~Has(t, <<"#", "/">>)
    /\ IF type \in Publishing THEN ~Has(t, <<"/", "#">>) /\ ~Has(t, <<"/", "+">>)
                              ELSE WildcardsAllowed(t)

-----------------------------------------------------------------------------
One(chars) == [chars |-> chars, none |-> FALSE, more |-> FALSE]
Some(chars) == [chars |-> chars, none |-> FALSE, more |-> TRUE]
Anything == [chars |-> Char, none |-> TRUE, more |-> TRUE]

(* Does a sequence of items accept the whole of t? *)
RECURSIVE Accepts(_, _)
Accepts(items, t) ==
    IF items = <<>> THEN t = <<>>
    ELSE \/ Head(items).none /\ Accepts(Tail(items), t)
         \/ /\ t # <<>> /\ Head(t) \in Head(items).chars
            /\ \/ Accepts(Tail(items), Tail(t))
               \/ Head(items).more /\ Accepts(items, Tail(t))

(* Where the class that is opened at the head of p ends; 0 if nowhere. *)
ClassEnd(p) == SelectInSubSeq(p, 3, Len(p), LAMBDA x : x = "]")

(* An unterminated class is no regular expression: re raises. *)
RECURSIVE IsRegex(_)
IsRegex(p) ==
    CASE p = <<>> -> TRUE
      [] p[1] = "[" -> ClassEnd(p) > 0 /\ IsRegex(SubSeq(p, ClassEnd(p) + 1, Len(p)))
      [] OTHER -> IsRegex(Tail(p))

(* Mutant of Segment: a single-level wildcard goes beyond its segment. *)
Segments == Some(Char)

Segment == Some(Char \ {"/"})

(* Pattern.init_regex, and what re makes of the result, if IsRegex(p). *)
RECURSIVE Regex(_)
Regex(p) ==
    CASE p = <<>> -> <<>>
      [] At(p, 1, <<"/", "+">>) -> <<One({"/"}), Segment>> \o Regex(SubSeq(p, 3, Len(p)))
      [] At(p, 1, <<"/", "#">>) -> <<One({"/"}), Some(Char)>> \o Regex(SubSeq(p, 3, Len(p)))
      [] p[1] = "[" ->
            <<One(ToSet(SubSeq(p, 2, ClassEnd(p) - 1)))>> \o Regex(SubSeq(p, ClassEnd(p) + 1, Len(p)))
      [] OTHER -> <<One(IF p[1] = "." THEN Char ELSE {p[1]})>> \o Regex(Tail(p))

(* Pattern.matches of a published topic; where it raises, nothing matches. *)
Matches(p, t) == IsRegex(p) /\ Accepts(Regex(p), t)

(* Mutant of Wildcard: the query looks for the "#" itself. *)
SingleLevel == {"+"}

(* The wildcards that Database.get replaces by "%". *)
Wildcard == {"+", "#"}

RECURSIVE Like(_)
Like(p) ==
    IF p = <<>> THEN <<>>
    ELSE IF Len(p) > 1 /\ p[1] = "/" /\ p[2] \in Wildcard
    THEN <<One({"/"}), Anything>> \o Like(SubSeq(p, 3, Len(p)))
    ELSE <<One({p[1]})>> \o Like(Tail(p))

(* Database.get(pattern): the rows of these topics. *)
Selected(p, topics) == {t \in topics : Accepts(Like(p), t)}

(* What a GET, a SUB or a DEL of a pattern finds in the database. *)
Found(p, topics) == {t \in Selected(p, topics) : Matches(p, t)}
=============================================================================

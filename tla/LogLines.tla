------------------------------- MODULE LogLines -------------------------------
(***************************************************************************)
(* The lines of the access log, the filters of its queries, and what a      *)
(* query's page is by definition.                                           *)
(*                                                                          *)
(* A file is a sequence of bytes.  A byte is the number of the line it      *)
(* belongs to, or the newline; of a line the number and the number of its   *)
(* bytes are all that matters.  Line n is of kind ks[n].                    *)
(***************************************************************************)
EXTENDS Integers, FiniteSets, Sequences, SequencesExt

CONSTANT NoCursor

NL == 0

-----------------------------------------------------------------------------
(* Filters                                                                  *)

Unrecorded == "__unrecorded__"

\* What a request asks for: status tokens are numbers, 0 for "all", 1 to 5 for
\* the classes 1xx to 5xx, and codes.
ParseLoggedInFilter(raw) == IF raw \in {"", "all"} THEN {} ELSE {raw \in {"true", "1", "yes", "logged_in"}}
NormalizeCredentialFilter(raw) ==
    IF raw = "all" THEN ""
    ELSE IF raw \in {"unrecorded", "unknown", "missing"} THEN Unrecorded ELSE raw
Accepted(raw) ==
    /\ raw.status \subseteq 0..5 \union 100..599
    /\ raw.loggedIn \in {"", "all", "true", "1", "yes", "logged_in", "false", "0", "no", "logged_out"}
NewQueryFilter(raw) ==
    [search |-> raw.search, codes |-> raw.status \intersect 100..599, classes |-> raw.status \intersect 1..5,
     loggedIn |-> ParseLoggedInFilter(raw.loggedIn), credential |-> NormalizeCredentialFilter(raw.credential)]

MatchLine(f, e) == f.search = "" \/ f.search \in e.words
MatchStatus(f, e) ==
    f.codes \union f.classes = {} \/ e.status \in f.codes \/ e.status \div 100 \in f.classes
MatchLoggedIn(f, e) == f.loggedIn = {} \/ e.loggedIn \in f.loggedIn
MatchCredential(f, e) ==
    \/ f.credential = ""
    \/ f.credential = Unrecorded /\ e.credentials = {} /\ (e.loggedIn \/ e.denied)
    \/ f.credential \in e.credentials
MatchEntry(f, e) == MatchLine(f, e) /\ MatchStatus(f, e) /\ MatchLoggedIn(f, e) /\ MatchCredential(f, e)

\* A line is an entry when it is whole: the start of a line, or two lines with
\* no newline between them, do not decode.
LineOf(n, ks) == [i \in 1..ks[n].width |-> n]
Decodes(line, ks) == line # <<>> /\ line = LineOf(line[1], ks)
Matches(line, f, ks) == Decodes(line, ks) /\ MatchEntry(f, ks[line[1]])

-----------------------------------------------------------------------------
(* The answer, by what it must be                                           *)

\* The offsets at which a line begins, and the line.
Starts(bytes) == {s \in 0..(Len(bytes) - 1) : s = 0 \/ bytes[s] = NL}
LineAt(bytes, s) ==
    LET ends == {e \in s..Len(bytes) : e = Len(bytes) \/ bytes[e + 1] = NL}
    IN  SubSeq(bytes, s + 1, CHOOSE e \in ends : \A x \in ends : e <= x)

\* The offsets in a set, the last one first: the i-th has i from it on.
NewestFirst ==
    [offsets \in SUBSET Nat |->
        [i \in 1..Cardinality(offsets) |->
            CHOOSE s \in offsets : Cardinality({x \in offsets : s <= x}) = i]]

\* The offsets of the matching lines, newest first.
Matching(bytes, f, ks) == {s \in Starts(bytes) : Matches(LineAt(bytes, s), f, ks)}
MatchingStarts(bytes, f, ks) == NewestFirst[Matching(bytes, f, ks)]
MatchingLines(bytes, f, ks) ==
    LET starts == MatchingStarts(bytes, f, ks)
    IN  [i \in DOMAIN starts |-> bytes[starts[i] + 1]]

Page(bytes, f, limit, ks) ==
    LET starts == MatchingStarts(bytes, f, ks)
        shown == IF Len(starts) < limit THEN Len(starts) ELSE limit
    IN  [items |-> [i \in 1..shown |-> bytes[starts[i] + 1]],
         more |-> Len(starts) > limit,
         next |-> IF Len(starts) > limit THEN starts[limit] ELSE NoCursor]

Nothing == [items |-> <<>>, more |-> FALSE, next |-> NoCursor]

=============================================================================

----------------------------- MODULE LogQueries -----------------------------
(***************************************************************************)
(* What a cursor query of the access log promises: it answers at once, from *)
(* the file as it is when it is opened, with the newest matching lines that *)
(* begin before the cursor.                                                 *)
(***************************************************************************)
EXTENDS LogLines

CONSTANTS Clients, Filters, Limits, Dates

VARIABLES
    data,     \* the bytes of every file there has been
    dir,      \* the file of every date, 0 for none
    kinds,    \* the kinds of the lines, in the order of their numbers
    answer    \* the last answer every client was given

Init ==
    /\ data = <<>> /\ dir = [d \in Dates |-> 0] /\ kinds = <<>>
    /\ answer = [c \in Clients |-> Nothing]

\* Files are added and appended to and never otherwise changed; which file a
\* date has may change.
LogChanges ==
    /\ \A n \in DOMAIN data : n \in DOMAIN data' /\ IsPrefix(data[n], data'[n])
    /\ IsPrefix(kinds, kinds')
    /\ UNCHANGED answer

\* The cursor is an offset that the last answer gave.  A cursor beyond the end
\* of the file is refused.
Answers(c) ==
    {LET bytes == IF dir[d] = 0 THEN <<>> ELSE data[dir[d]]
         end == IF cursor = NoCursor THEN Len(bytes) ELSE cursor
     IN  IF end > Len(bytes) \/ end = 0 THEN Nothing ELSE Page(SubSeq(bytes, 1, end), f, limit, kinds) :
     d \in Dates, f \in Filters, limit \in Limits, cursor \in {NoCursor, answer[c].next}}

Query(c) ==
    /\ UNCHANGED <<data, dir, kinds>>
    /\ answer' \in {[answer EXCEPT ![c] = a] : a \in Answers(c)}

\* Clients lose the last answer: all by a restart, one by asking for a page.
Forget ==
    /\ UNCHANGED <<data, dir, kinds>>
    /\ answer' \in {[c \in Clients |-> IF c \in S THEN Nothing ELSE answer[c]] : S \in SUBSET Clients}

Next == LogChanges \/ Forget \/ \E c \in Clients : Query(c)

Spec == Init /\ [][Next]_<<data, dir, kinds, answer>>

=============================================================================

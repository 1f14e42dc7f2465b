------------------------------ MODULE GatewayLog ------------------------------
(***************************************************************************)
(* The access log of pkg/gatewaylog: DailyFileWriter, which appends to one  *)
(* file per day and removes old ones, and the queries of Manager, which     *)
(* read the files a chunk or a line at a time, with no lock against the     *)
(* writer.                                                                  *)
(*                                                                          *)
(* A step of the writer is one hold of its mutex, except a write, which     *)
(* readers may see half done.  A file that is removed lives on for those    *)
(* who have it open.                                                        *)
(***************************************************************************)
EXTENDS LogLines

CONSTANTS
    Clients,          \* callers of queries
    Loggers,          \* requests that log
    Kinds,            \* kinds of entries
    Filters, Limits, Pages,   \* what queries ask for
    MaxLimit,         \* the longest answer (200)
    ChunkSize,        \* cursorChunkSize
    TailWindowMax,    \* pageQueryTailWindowMaxEntries
    MaxDay,           \* bound of the days, numbered from 1
    Zones,            \* hours east of UTC the clock may be set to
    Configs,          \* logging configurations
    Bounds            \* bounds of the days, of the lines logged, of the cursor
                      \* and the page queries of a client, of the changes
                      \* (configurations set, dates deleted) and of the faults
                      \* (restarts, calls to the system that fail)

Dates == 1..MaxDay

ASSUME GatewayLogAssumption ==
    /\ ChunkSize \in Nat \ {0} /\ TailWindowMax \in Nat /\ MaxDay \in Nat \ {0}
    /\ Bounds \subseteq [days : Dates, lines : Nat, cursors : Nat, pages : Nat, changes : Nat, faults : Nat]
    /\ Zones \subseteq -12..14 /\ Limits \subseteq Int /\ Pages \subseteq Int /\ MaxLimit \in Nat \ {0}
    /\ \A k \in Kinds : k.width \in Nat \ {0}
    /\ \A cfg \in Configs : cfg.enabled \in BOOLEAN /\ cfg.maxDays \in Int
    /\ NoCursor \notin Nat

VARIABLES
    today, zone,
    data,      \* the bytes of every file there has been
    dir,       \* the file of every date, 0 for none
    kinds,     \* the kinds of the lines written, in the order of their numbers
    config,    \* Manager.config, and the configuration that is saved
    writer,    \* DailyFileWriter
    rest,      \* the bytes the write in progress has still to write
    logger,    \* the entries of requests on their way to the writer
    setter,    \* what is left to do of the call that sets the configuration
    query,     \* the query every client is making
    session,   \* what the queries that a client chains with cursors found
    acked,     \* lines written whole on a line of their own, and their date
    bound,     \* the bounds of this behaviour
    changes, faults

logs == <<data, dir, kinds>>
vars == <<today, zone, data, dir, kinds, config, writer, rest, logger, setter, query, session,
          acked, bound, changes, faults>>

\* What the admin API lets through of what it is asked for, and what Query
\* makes of it; no date at all is today.
AcceptedConfigs == {cfg \in Configs : cfg.maxDays >= 0}
AskedFilters == {NewQueryFilter(raw) : raw \in {raw \in Filters : Accepted(raw)}}
AskedPages == {n \in Pages : n > 0}
AskedLimits == {IF n > MaxLimit THEN MaxLimit ELSE n : n \in {n \in Limits : n > 0}}
AskedDates == {IF raw = 0 THEN today ELSE raw : raw \in 0..today}

Fault == faults < bound.faults /\ faults' = faults + 1
Change == changes < bound.changes /\ changes' = changes + 1

-----------------------------------------------------------------------------
(* The writer                                                               *)

NormalizeMaxDays(days) == IF days <= 0 THEN 7 ELSE days
NewWriter(days) == [date |-> 0, file |-> 0, days |-> NormalizeMaxDays(days), cleaned |-> 0]

\* The file's date at midnight UTC is before the cutoff, which is at midnight of
\* the clock's zone: west of Greenwich the day of the cutoff has expired too.
Expired(d) == 24 * d < 24 * (today - (writer.days - 1)) - zone
CleanedUp(files) == [d \in Dates |-> IF Expired(d) THEN 0 ELSE files[d]]

\* A mutant: a file that is open is written to, of whatever day it is.
RotatedOnce ==
    IF writer.file # 0 THEN [date |-> writer.date, file |-> writer.file, dir |-> dir, data |-> data]
    ELSE [date |-> today, file |-> Len(data) + 1,
          dir |-> [dir EXCEPT ![today] = Len(data) + 1], data |-> Append(data, <<>>)]

\* The file of today, made when there is none.
Rotated ==
    IF writer.file # 0 /\ writer.date = today
    THEN [date |-> today, file |-> writer.file, dir |-> dir, data |-> data]
    ELSE IF dir[today] # 0 THEN [date |-> today, file |-> dir[today], dir |-> dir, data |-> data]
    ELSE [date |-> today, file |-> Len(data) + 1,
          dir |-> [dir EXCEPT ![today] = Len(data) + 1], data |-> Append(data, <<>>)]

\* What the configuration and the calls of DeleteDate leave of the lines.
StillKept(lines, day, days) == {a \in lines : a.date > day - days}

Waiting == {l \in Loggers : logger[l] # {}}

\* Log reads whether it is enabled; the entry reaches the writer later.
Log(l) ==
    /\ logger[l] = {} /\ config.running.enabled /\ Len(kinds) + Cardinality(Waiting) < bound.lines
    /\ \E k \in Kinds : logger' = [logger EXCEPT ![l] = {k}]
    /\ UNCHANGED <<today, zone, bound, logs, config, writer, rest, setter, query, session, acked, changes, faults>>

\* The line is on a line of its own: what is before it ends with a newline.
Clean(bytes) == bytes = <<>> \/ Last(bytes) = NL

Write(l) ==
    /\ logger[l] # {} /\ rest = <<>>
    /\ LET r == Rotated
           ks == kinds \o SetToSeq(logger[l])
           line == LineOf(Len(ks), ks) \o <<NL>>
       IN  \E n \in 1..Len(line) :
              /\ kinds' = ks
              /\ data' = [r.data EXCEPT ![r.file] = @ \o SubSeq(line, 1, n)]
              /\ dir' = IF writer.cleaned = today THEN r.dir ELSE CleanedUp(r.dir)
              /\ writer' = [writer EXCEPT !.date = r.date, !.file = r.file, !.cleaned = today]
              /\ rest' = SubSeq(line, n + 1, Len(line))
              /\ acked' = IF n = Len(line) /\ Clean(r.data[r.file])
                          THEN acked \union {[line |-> Len(ks), date |-> r.date]} ELSE acked
    /\ logger' = [logger EXCEPT ![l] = {}]
    /\ UNCHANGED <<today, zone, bound, config, setter, query, session, changes, faults>>

\* The file cannot be opened, or an old one not removed after some others were:
\* the entry is lost.
WriteFails(l) ==
    /\ logger[l] # {} /\ rest = <<>> /\ Fault
    /\ logger' = [logger EXCEPT ![l] = {}]
    /\ \/ /\ ~(writer.file # 0 /\ writer.date = today)
          /\ writer' = [writer EXCEPT !.file = 0]
          /\ UNCHANGED <<data, dir>>
       \/ /\ writer.cleaned # today
          /\ LET r == Rotated IN
             /\ data' = r.data
             /\ writer' = [writer EXCEPT !.date = r.date, !.file = r.file]
             /\ \E gone \in SUBSET {d \in Dates : Expired(d)} :
                   dir' = [d \in Dates |-> IF d \in gone THEN 0 ELSE r.dir[d]]
    /\ UNCHANGED <<today, zone, bound, kinds, config, rest, setter, query, session, acked, changes>>

FinishWrite ==
    /\ rest # <<>>
    /\ data' = [data EXCEPT ![writer.file] = @ \o rest]
    /\ rest' = <<>>
    /\ LET n == Len(kinds)
           before == Len(data[writer.file]) - (kinds[n].width + 1 - Len(rest))
       IN  acked' = IF Clean(SubSeq(data[writer.file], 1, before))
                    THEN StillKept(acked \union {[line |-> n, date |-> writer.date]}, today, writer.days)
                    ELSE acked
    /\ UNCHANGED <<today, zone, bound, dir, kinds, config, writer, logger, setter, query, session, changes, faults>>

\* The disk is full: what has been written of the line stays.
WriteCutShort ==
    /\ rest # <<>> /\ Fault
    /\ rest' = <<>>
    /\ UNCHANGED <<today, zone, bound, logs, config, writer, logger, setter, query, session, acked, changes>>

DeleteDate(d) ==
    /\ rest = <<>> /\ Change
    /\ writer' = IF writer.date = d /\ writer.file # 0 THEN [writer EXCEPT !.file = 0, !.date = 0] ELSE writer
    /\ \/ dir' = [dir EXCEPT ![d] = 0] /\ UNCHANGED faults
       \/ dir[d] # 0 /\ Fault /\ UNCHANGED dir
    /\ acked' = {a \in acked : a.date # d}
    /\ UNCHANGED <<today, zone, bound, data, kinds, config, rest, logger, setter, query, session>>

\* SetLoggingConfig saves, then updates the manager and the writer, then cleans up.
SetLoggingConfig ==
    /\ setter.todo = "nothing" /\ Change
    /\ \E cfg \in AcceptedConfigs :
          /\ config' = [config EXCEPT !.saved = cfg]
          /\ setter' = [todo |-> "update", cfg |-> cfg]
    /\ UNCHANGED <<today, zone, bound, logs, writer, rest, logger, query, session, acked, faults>>

UpdateConfig ==
    /\ setter.todo = "update" /\ rest = <<>>
    /\ config' = [config EXCEPT !.running = setter.cfg]
    /\ writer' = [writer EXCEPT !.days = NormalizeMaxDays(setter.cfg.maxDays)]
    /\ acked' = StillKept(acked, today, writer'.days)
    /\ setter' = [setter EXCEPT !.todo = "cleanup"]
    /\ UNCHANGED <<today, zone, bound, logs, rest, logger, query, session, changes, faults>>

\* A mutant: the day's cleaning is taken to be done.
CleanupOnceADay ==
    /\ setter.todo = "cleanup" /\ rest = <<>>
    /\ setter' = [setter EXCEPT !.todo = "nothing"]
    /\ dir' = IF writer.cleaned = today THEN dir ELSE CleanedUp(dir)
    /\ UNCHANGED <<today, zone, bound, data, kinds, config, writer, rest, logger, query, session, acked, changes, faults>>

Cleanup ==
    /\ setter.todo = "cleanup" /\ rest = <<>>
    /\ setter' = [setter EXCEPT !.todo = "nothing"]
    /\ \/ dir' = CleanedUp(dir) /\ UNCHANGED faults
       \/ Fault /\ \E gone \in SUBSET {d \in Dates : Expired(d)} :
                       dir' = [d \in Dates |-> IF d \in gone THEN 0 ELSE dir[d]]
    /\ UNCHANGED <<today, zone, bound, data, kinds, config, writer, rest, logger, query, session, acked, changes>>

NextDay ==
    /\ today < bound.days /\ today' = today + 1
    /\ acked' = StillKept(acked, today', writer.days)
    /\ UNCHANGED <<zone, bound, logs, config, writer, rest, logger, setter, query, session, changes, faults>>

-----------------------------------------------------------------------------
(* Queries that page with a cursor                                          *)

NoQuery == [is |-> "none"]
NoSession == [answer |-> Nothing, date |-> 1, file |-> 0, filter |-> CHOOSE f \in AskedFilters : TRUE, want |-> <<>>, got |-> <<>>,
              count |-> 0]

\* The lines that begin behind a newline in a part of a file, by the offsets at
\* which they begin; the part begins at offset "at", and what is before its
\* first newline is left over.
LinesIn(part, at) ==
    [s \in {at + i : i \in {i \in DOMAIN part : part[i] = NL}} |-> LineAt(part, s - at)]
LeftOver(part) == LineAt(part, 0)

\* Newlines at the very end, of the first chunk alone.
TrimEnd(part) ==
    LET others == {i \in DOMAIN part : part[i] # NL}
    IN  SubSeq(part, 1, IF others = {} THEN 0 ELSE CHOOSE i \in others : \A j \in others : j <= i)

\* A mutant: there is more as soon as the limit is reached.
ShownToTheLimit(q, lines) ==
    LET found == NewestFirst[{s \in DOMAIN lines : Matches(lines[s], q.filter, kinds)}]
        n == IF Len(found) < q.limit - Len(q.items) THEN Len(found) ELSE q.limit - Len(q.items)
    IN  [q EXCEPT !.items = @ \o [i \in 1..n |-> lines[found[i]][1]],
                  !.oldest = IF n = 0 THEN @ ELSE found[n],
                  !.more = Len(q.items) + n = q.limit]

\* The query shown some lines: those that match are added until the limit is
\* reached, and one more ends the scan.
Shown(q, lines) ==
    LET found == NewestFirst[{s \in DOMAIN lines : Matches(lines[s], q.filter, kinds)}]
        n == IF Len(found) < q.limit - Len(q.items) THEN Len(found) ELSE q.limit - Len(q.items)
    IN  [q EXCEPT !.items = @ \o [i \in 1..n |-> lines[found[i]][1]],
                  !.oldest = IF n = 0 THEN @ ELSE found[n],
                  !.more = Len(found) > n]

Answer(q) == [items |-> q.items, more |-> q.more,
              next |-> IF q.more /\ q.oldest > 0 THEN q.oldest ELSE NoCursor]

\* A mutant: what is left over of a chunk is dropped.
ChunkReadAlone(q) ==
    LET start == IF q.pos > ChunkSize THEN q.pos - ChunkSize ELSE 0
        part == SubSeq(data[q.file], start + 1, q.pos)
    IN  [Shown(q, LinesIn(part, start)) EXCEPT !.pos = start, !.first = FALSE]

\* A chunk read, with what was left over of the one behind it; the rest of the
\* first line is shown when there is no chunk before it.
ChunkRead(q) ==
    LET start == IF q.pos > ChunkSize THEN q.pos - ChunkSize ELSE 0
        chunk == SubSeq(data[q.file], start + 1, q.pos) \o q.rem
        part == IF q.first THEN TrimEnd(chunk) ELSE chunk
        shown == Shown(q, LinesIn(part, start))
        final == IF start > 0 \/ shown.more \/ LeftOver(part) = <<>> THEN shown
                 ELSE Shown(shown, [s \in {0} |-> LeftOver(part)])
    IN  [final EXCEPT !.pos = start, !.rem = LeftOver(part), !.first = FALSE]

Answered(s, answer) == [s EXCEPT !.answer = answer, !.got = @ \o answer.items]

\* A query begins a session, or follows the cursor of the last answer.
OpenCursor(c) ==
    /\ query[c].is \in {"none", "page"} /\ session[c].count < bound.cursors
    /\ \E d \in AskedDates, f \in AskedFilters, limit \in AskedLimits, again \in BOOLEAN :
          LET s == session[c]
              file == dir[d]
              bytes == IF file = 0 THEN <<>> ELSE data[file]
              end == IF again THEN s.answer.next ELSE Len(bytes)
              began == IF again THEN [s EXCEPT !.count = @ + 1, !.file = IF file = @ THEN @ ELSE 0]
                       ELSE [NoSession EXCEPT !.date = d, !.filter = f, !.file = file, !.count = s.count + 1,
                                              !.want = MatchingLines(bytes, f, kinds)]
          IN  /\ again => s.answer.next # NoCursor /\ d = s.date /\ f = s.filter
              /\ IF file = 0 \/ end > Len(bytes) \/ end = 0
                 THEN /\ session' = [session EXCEPT ![c] = Answered(began, Nothing)]
                      /\ query' = [query EXCEPT ![c] = NoQuery]
                 ELSE /\ session' = [session EXCEPT ![c] = began]
                      /\ query' = [query EXCEPT ![c] =
                            [is |-> "cursor", filter |-> f, limit |-> limit, file |-> file, end |-> end,
                             pos |-> end, rem |-> <<>>, first |-> TRUE, items |-> <<>>, oldest |-> 0,
                             more |-> FALSE]]
    /\ UNCHANGED <<today, zone, bound, logs, config, writer, rest, logger, setter, acked, changes, faults>>

ReadChunk(c) ==
    /\ query[c].is = "cursor"
    /\ LET q == ChunkRead(query[c]) IN
       IF q.more \/ q.pos = 0
       THEN /\ session' = [session EXCEPT ![c] = Answered(@, Answer(q))]
            /\ query' = [query EXCEPT ![c] = NoQuery]
       ELSE query' = [query EXCEPT ![c] = q] /\ UNCHANGED session
    /\ UNCHANGED <<today, zone, bound, logs, config, writer, rest, logger, setter, acked, changes, faults>>

-----------------------------------------------------------------------------
(* Queries by page                                                          *)

\* rawLineTailWindow: a ring of the last matching lines.
NewTail(size) == [lines |-> [i \in 0..(size - 1) |-> 0], start |-> 0, count |-> 0]
TailAdd(w, n) ==
    LET size == Cardinality(DOMAIN w.lines)
        full == w.count = size
        at == IF full THEN w.start ELSE (w.start + w.count) % size
    IN  [lines |-> [w.lines EXCEPT ![at] = n],
         start |-> IF full THEN (w.start + 1) % size ELSE w.start,
         count |-> IF full THEN w.count ELSE w.count + 1]
DecodeDescending(w, from, to) ==
    [i \in 1..(to - from) |-> w.lines[(w.start + to - i) % Cardinality(DOMAIN w.lines)]]

\* A mutant: the last page begins a full page before its end.
ResolveForwardWindowFull(total, page, limit) ==
    IF (page - 1) * limit >= total THEN [from |-> total, to |-> total]
    ELSE [from |-> IF page * limit > total THEN 0 ELSE total - page * limit,
          to |-> IF page * limit > total THEN (IF limit > total THEN total ELSE limit)
                 ELSE total - (page - 1) * limit]

ResolveForwardWindow(total, page, limit) ==
    LET startDesc == (page - 1) * limit
        endDesc == IF startDesc + limit > total THEN total ELSE startDesc + limit
    IN  IF startDesc >= total THEN [from |-> total, to |-> total]
        ELSE [from |-> total - endDesc, to |-> total - startDesc]

PageAnswer(q, items, total, from) ==
    [is |-> "page", items |-> items, total |-> total, more |-> from > 0, filter |-> q.filter,
     limit |-> q.limit, page |-> q.page, file |-> q.file, upto |-> q.upto, same |-> q.same, faults |-> q.faults]

\* The first scan ends at the end of the file.  The page is in the ring, or is
\* collected by another scan of the file, which is opened anew.
AfterCount(q) ==
    LET w == ResolveForwardWindow(q.total, q.page, q.limit)
        tailStart == q.total - q.tail.count
        again == [q EXCEPT !.is = "collect", !.pos = 0, !.index = 0, !.window = w,
                           !.same = dir[q.date] = q.file, !.reopened = dir[q.date]]
    IN  IF w.from = w.to THEN PageAnswer(q, <<>>, q.total, 0)
        ELSE IF q.is = "tail" /\ w.from >= tailStart
        THEN PageAnswer(q, DecodeDescending(q.tail, w.from - tailStart, w.to - tailStart), q.total, w.from)
        ELSE IF q.is = "tail" THEN [again EXCEPT !.is = "count", !.total = 0, !.file = dir[q.date], !.upto = 0]
        ELSE IF dir[q.date] = 0 THEN PageAnswer(again, <<>>, q.total, w.from)
        ELSE again

OpenPage(c) ==
    /\ query[c].is \in {"none", "page"} /\ session[c].count < bound.pages
    /\ \E d \in AskedDates, f \in AskedFilters, limit \in AskedLimits, page \in AskedPages :
          LET size == page * limit
              q == [is |-> IF size > TailWindowMax THEN "count" ELSE "tail", date |-> d, filter |-> f,
                    limit |-> limit, page |-> page, file |-> dir[d], pos |-> 0, total |-> 0, index |-> 0,
                    tail |-> NewTail(IF size > TailWindowMax THEN 1 ELSE size), items |-> <<>>,
                    window |-> [from |-> 0, to |-> 0], same |-> TRUE, reopened |-> 0, upto |-> 0,
                    faults |-> faults]
          IN  query' = [query EXCEPT ![c] = IF dir[d] = 0 THEN NoQuery ELSE q]
    /\ session' = [session EXCEPT ![c] = [NoSession EXCEPT !.count = session[c].count + 1]]
    /\ UNCHANGED <<today, zone, bound, logs, config, writer, rest, logger, setter, acked, changes, faults>>

\* The next line of a scan: up to the next newline, or all there is.
Scanned(bytes, pos) ==
    LET ends == {e \in (pos + 1)..Len(bytes) : bytes[e] = NL}
        end == IF ends = {} THEN Len(bytes) + 1 ELSE CHOOSE e \in ends : \A x \in ends : e <= x
    IN  [line |-> SubSeq(bytes, pos + 1, end - 1),
         pos |-> IF end > Len(bytes) THEN Len(bytes) ELSE end, last |-> ends = {}]

ScanLine(c) ==
    /\ query[c].is \in {"tail", "count"}
    /\ LET q == query[c]
           x == Scanned(data[q.file], q.pos)
           hit == Matches(x.line, q.filter, kinds)
           n == [q EXCEPT !.pos = x.pos, !.upto = x.pos,
                          !.total = IF hit THEN @ + 1 ELSE @,
                          !.tail = IF hit /\ q.is = "tail" THEN TailAdd(@, x.line[1]) ELSE @]
       IN  query' = [query EXCEPT ![c] = IF x.last THEN AfterCount(n) ELSE n]
    /\ UNCHANGED <<today, zone, bound, logs, config, writer, rest, logger, setter, session, acked, changes, faults>>

CollectLine(c) ==
    /\ query[c].is = "collect"
    /\ LET q == query[c]
           x == Scanned(data[q.reopened], q.pos)
           hit == Matches(x.line, q.filter, kinds)
           stop == hit /\ q.index >= q.window.to
           n == [q EXCEPT !.pos = x.pos, !.index = IF hit THEN @ + 1 ELSE @,
                          !.items = IF hit /\ ~stop /\ q.index >= q.window.from
                                    THEN Append(@, x.line[1]) ELSE @]
       IN  query' = [query EXCEPT ![c] =
                       IF x.last \/ stop THEN PageAnswer(n, Reverse(n.items), n.total, n.window.from) ELSE n]
    /\ UNCHANGED <<today, zone, bound, logs, config, writer, rest, logger, setter, session, acked, changes, faults>>

-----------------------------------------------------------------------------

\* The program stops, in the middle of a write perhaps, and starts again with
\* the configuration that was saved.
Restart ==
    /\ Fault
    /\ config' = [config EXCEPT !.running = config.saved]
    /\ writer' = NewWriter(config.saved.maxDays)
    /\ acked' = StillKept(acked, today, writer'.days)
    /\ rest' = <<>> /\ logger' = [l \in Loggers |-> {}] /\ setter' = [todo |-> "nothing", cfg |-> config.saved]
    /\ query' = [c \in Clients |-> NoQuery]
    /\ session' = [c \in Clients |-> [NoSession EXCEPT !.count = session[c].count]]
    /\ UNCHANGED <<today, zone, bound, logs, changes>>

Init ==
    /\ today = 1 /\ zone \in Zones
    /\ data = <<>> /\ dir = [d \in Dates |-> 0] /\ kinds = <<>>
    /\ \E cfg \in AcceptedConfigs : /\ config = [running |-> cfg, saved |-> cfg]
                            /\ writer = NewWriter(cfg.maxDays)
                            /\ setter = [todo |-> "nothing", cfg |-> cfg]
    /\ rest = <<>> /\ logger = [l \in Loggers |-> {}]
    /\ query = [c \in Clients |-> NoQuery] /\ session = [c \in Clients |-> NoSession]
    /\ acked = {} /\ bound \in Bounds /\ changes = 0 /\ faults = 0

WriterStep ==
    \/ FinishWrite \/ WriteCutShort \/ \E l \in Loggers : Log(l) \/ Write(l) \/ WriteFails(l)
    \/ SetLoggingConfig \/ UpdateConfig \/ Cleanup \/ \E d \in AskedDates : DeleteDate(d)
ReaderStep(c) == ReadChunk(c) \/ ScanLine(c) \/ CollectLine(c)

Next == WriterStep \/ NextDay \/ Restart
        \/ \E c \in Clients : OpenCursor(c) \/ OpenPage(c) \/ ReaderStep(c)

Spec == Init /\ [][Next]_vars

-----------------------------------------------------------------------------
(* Properties                                                               *)

\* The state is of its types: files hold lines that were logged, and offsets
\* of queries are offsets of their files.
TypeOK ==
    /\ today \in Dates /\ zone \in Zones /\ data \in Seq(Seq(0..bound.lines)) /\ kinds \in Seq(Kinds)
    /\ dir \in [Dates -> 0..Len(data)] /\ rest \in Seq(0..bound.lines)
    /\ writer.file \in 0..Len(data) /\ writer.days \in Nat \ {0} /\ writer.cleaned \in 0..today
    /\ config.running \in Configs /\ config.saved \in Configs
    /\ \A l \in Loggers : logger[l] \in SUBSET Kinds
    /\ \A c \in Clients : query[c].is = "cursor" => query[c].pos \in 1..Len(data[query[c].file])
    /\ changes \in 0..bound.changes /\ faults \in 0..bound.faults

\* A client that follows the cursors is shown the matching lines of the file as
\* it was at its first query, newest first, each once and none left out,
\* whatever is logged, torn, rotated or removed in the meantime and whatever
\* limits it asks for; unless the file of the date is replaced by another.
PagingExactlyOnce ==
    \A c \in Clients :
        LET s == session[c] IN
        s.file # 0 =>
            /\ IsPrefix(s.got, s.want)
            /\ query[c].is = "none" /\ ~s.answer.more => s.got = s.want

\* A page that is answered is the window it should be of the lines that match
\* up to where the first scan ended, newest first, and says how many they are
\* and whether there are older ones; unless the file was replaced between two
\* scans, or a write was cut short during them.
PageIsWindow ==
    \A c \in Clients :
        LET q == query[c]
            all == MatchingLines(SubSeq(data[q.file], 1, q.upto), q.filter, kinds)
        IN  q.is = "page" /\ q.file # 0 /\ q.same /\ q.faults = faults =>
            /\ q.total = Len(all) /\ q.more = (q.page * q.limit < Len(all) /\ q.items # <<>>)
            /\ q.items = SubSeq(all, (q.page - 1) * q.limit + 1,
                                IF q.page * q.limit < Len(all) THEN q.page * q.limit ELSE Len(all))

\* A line that was written whole, on a line of its own, can be read in the file
\* of its date for as long as the configuration keeps the date and nobody
\* deletes it, through rotations, clean-ups that fail and restarts.  West of
\* Greenwich clean-ups remove a day too many.
LinesKept ==
    zone >= 0 => \A a \in acked :
        /\ dir[a.date] # 0
        /\ LET bytes == data[dir[a.date]] IN
           \E s \in Starts(bytes) : LineAt(bytes, s) = LineOf(a.line, kinds)

\* Once a line was written today, no file is older than the days that are kept,
\* however the configuration was changed in between.
OldFilesGo ==
    faults = 0 /\ setter.todo = "nothing" /\ writer.cleaned = today =>
        \A d \in Dates : dir[d] # 0 => d > today - writer.days

\* A chunked read answers as if it had read the file at once when it opened it:
\* the specification of LogQueries, with the answer of a query in progress
\* being the page of what the file held then.
Atomic == INSTANCE LogQueries WITH
    Filters <- AskedFilters, Limits <- AskedLimits,
    answer <- [c \in Clients |->
        LET q == query[c] IN
        IF q.is = "cursor" THEN Page(SubSeq(data[q.file], 1, q.end), q.filter, q.limit, kinds)
        ELSE session[c].answer]
QueriesAreAtomic == Atomic!Spec

=============================================================================

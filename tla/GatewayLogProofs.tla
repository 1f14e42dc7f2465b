--------------------------- MODULE GatewayLogProofs ---------------------------
(***************************************************************************)
(* Theorems about the access log, for any number of days, configurations,  *)
(* requests that log and queries, with writes cut short, clean-ups that    *)
(* fail and restarts: about the files first, then about the queries that   *)
(* page through them with cursors, for chunks and answers of any length.   *)
(***************************************************************************)
EXTENDS GatewayLog, FiniteSetTheorems, WellFoundedInduction, TLAPS

\* A writer on a day, when there have been n files.
Writes(w, day, n) ==
    /\ w \in [date : {0} \union Dates, file : 0..n, days : Nat \ {0}, cleaned : Nat]
    /\ w.date <= day /\ w.cleaned <= day
    /\ w.file # 0 => w.date # 0

\* What a logger has to write: one entry at most.
Entries == {{}} \union {{k} : k \in Kinds}

\* What the writer, the files and the configuration are made of.
Types ==
    /\ today \in Dates /\ zone \in Zones /\ bound \in Bounds
    /\ data \in Seq(Seq(Nat)) /\ kinds \in Seq(Kinds)
    /\ dir \in [Dates -> 0..Len(data)]
    /\ Writes(writer, today, Len(data))
    /\ rest \in Seq(Nat)
    /\ logger \in [Loggers -> Entries]
    /\ config \in [running : AcceptedConfigs, saved : AcceptedConfigs]
    /\ setter \in [todo : {"nothing", "update", "cleanup"}, cfg : AcceptedConfigs]
    /\ acked \subseteq [line : 1..Len(kinds), date : Dates]
    /\ faults \in Nat

\* Bytes that have been appended to.
Continues(bytes, more) == Len(bytes) <= Len(more) /\ \A i \in 1..Len(bytes) : more[i] = bytes[i]

\* A byte of the n-th line and the newline behind it.
ByteOf(n, i, ks) == IF i <= ks[n].width THEN n ELSE NL

\* A file has a line, whole and on a line of its own, from an offset on.
Whole(bytes, s, n, ks) ==
    /\ s + ks[n].width + 1 <= Len(bytes)
    /\ s = 0 \/ bytes[s] = NL
    /\ \A j \in (s + 1)..(s + ks[n].width + 1) : bytes[j] = ByteOf(n, j - s, ks)

\* The write in progress: the file ends with what it has written, and the rest
\* of the line is what it has not.
PendingInv ==
    rest # <<>> =>
        LET n == Len(kinds)
            bytes == data[writer.file]
            part == kinds[n].width + 1 - Len(rest)
            start == Len(bytes) - part
        IN  /\ writer.file # 0 /\ n # 0
            /\ part \in 1..Len(bytes)
            /\ \A j \in (start + 1)..Len(bytes) : bytes[j] = ByteOf(n, j - start, kinds)
            /\ \A i \in 1..Len(rest) : rest[i] = ByteOf(n, part + i, kinds)

\* East of Greenwich the file that is written to is the file of its date.
OpenInv ==
    zone >= 0 =>
        /\ writer.file # 0 /\ writer.date = today => dir[today] = writer.file
        /\ rest # <<>> => dir[writer.date] = writer.file

\* Of a line that is kept: the file of its date is there, and has it.
Has(a) == dir[a.date] # 0 /\ \E s \in Nat : Whole(data[dir[a.date]], s, a.line, kinds)

\* The lines that are to be kept are, whole.
KeptInv == \A a \in acked : a.date > today - writer.days /\ (zone >= 0 => Has(a))

LogInv == Types /\ PendingInv /\ OpenInv /\ KeptInv

-----------------------------------------------------------------------------
(* Bytes and lines *)

\* What the assumptions say of dates, zones, kinds and configurations.
LEMMA LogConstants ==
    /\ Dates \subseteq Nat \ {0} /\ Zones \subseteq Int /\ \A z \in Zones : z < 24
    /\ \A k \in Kinds : k.width \in Nat \ {0}
    /\ \A cfg \in AcceptedConfigs : cfg.maxDays \in Int
BY GatewayLogAssumption DEF Dates, AcceptedConfigs

\* A whole line can be read where it begins (LineAt).
LEMMA WholeIsRead ==
    ASSUME NEW bytes \in Seq(Nat), NEW ks \in Seq(Kinds), NEW n \in 1..Len(ks), NEW s \in Nat,
           Whole(bytes, s, n, ks)
    PROVE  s \in Starts(bytes) /\ LineAt(bytes, s) = LineOf(n, ks)
<1> DEFINE w == ks[n].width
           ends == {e \in s..Len(bytes) : e = Len(bytes) \/ bytes[e + 1] = NL}
<1>1. w \in Nat \ {0} /\ n \in Nat /\ n # NL
  BY LogConstants DEF NL
<1>2. /\ s + w + 1 <= Len(bytes) /\ (s = 0 \/ bytes[s] = NL)
      /\ \A j \in (s + 1)..(s + w) : bytes[j] = n
      /\ bytes[s + w + 1] = NL
  <2>1. \A j \in (s + 1)..(s + w + 1) : bytes[j] = IF j - s <= w THEN n ELSE NL
    BY DEF Whole, ByteOf
  <2>2. s + w + 1 <= Len(bytes) /\ (s = 0 \/ bytes[s] = NL)
    BY DEF Whole
  <2> HIDE DEF w, ends
  <2> QED BY <1>1, <2>1, <2>2
<1>3. LineAt(bytes, s) = SubSeq(bytes, s + 1, CHOOSE e \in ends : \A x \in ends : e <= x)
  BY DEF LineAt
<1>4. LineOf(n, ks) = [i \in 1..w |-> n]
  BY DEF LineOf
<1> HIDE DEF w
<1>5. s + w \in ends
  BY <1>1, <1>2
<1>6. \A e \in ends : e \in Nat /\ s + w <= e
  BY <1>1, <1>2
<1> HIDE DEF ends
<1>7. \A e \in ends : (\A x \in ends : e <= x) => e = s + w
  BY <1>1, <1>5, <1>6
<1>8. (CHOOSE e \in ends : \A x \in ends : e <= x) = s + w
  BY <1>5, <1>6, <1>7
<1>9. SubSeq(bytes, s + 1, s + w) = [i \in 1..w |-> n]
  <2>1. SubSeq(bytes, s + 1, s + w) = [i \in 1..w |-> bytes[s + 1 + i - 1]]
    BY <1>1, <1>2
  <2>2. \A i \in 1..w : bytes[s + 1 + i - 1] = n
    BY <1>1, <1>2
  <2> QED BY <2>1, <2>2
<1>10. s \in Starts(bytes)
  BY <1>1, <1>2 DEF Starts
<1> QED BY <1>3, <1>4, <1>8, <1>9, <1>10

\* What is appended behind a whole line, and logged after it, leaves it whole.
LEMMA WholeLasts ==
    ASSUME NEW bytes \in Seq(Nat), NEW more \in Seq(Nat), Continues(bytes, more),
           NEW n, NEW ks, NEW ms, ks[n] = ms[n], ks[n].width \in Nat,
           NEW s \in Nat, Whole(bytes, s, n, ks)
    PROVE  Whole(more, s, n, ms)
<1> DEFINE w == ks[n].width
<1>1. Len(bytes) <= Len(more) /\ \A j \in 1..Len(bytes) : more[j] = bytes[j]
  BY DEF Continues
<1>2. /\ s + w + 1 <= Len(bytes) /\ (s = 0 \/ bytes[s] = NL) /\ w \in Nat
      /\ \A j \in (s + 1)..(s + w + 1) : bytes[j] = ByteOf(n, j - s, ks)
  BY DEF Whole
<1>3. \A j : ByteOf(n, j, ms) = ByteOf(n, j, ks)
  BY DEF ByteOf
<1>4. ms[n].width = w
  OBVIOUS
<1> HIDE DEF w
<1>5. \A j \in (s + 1)..(s + w + 1) : more[j] = ByteOf(n, j - s, ms)
  BY <1>1, <1>2, <1>3
<1>6. s = 0 \/ more[s] = NL
  <2>1. Len(bytes) \in Nat /\ (s # 0 => s \in 1..Len(bytes))
    BY <1>2
  <2> QED BY <1>1, <1>2, <2>1
<1>7. s + w + 1 <= Len(more)
  <2>1. Len(bytes) \in Nat /\ Len(more) \in Nat
    OBVIOUS
  <2> QED BY <1>1, <1>2, <2>1
<1> QED BY <1>4, <1>5, <1>6, <1>7 DEF Whole

\* Appending bytes to a sequence of them.
LEMMA AppendedBytes ==
    ASSUME NEW a \in Seq(Nat), NEW b \in Seq(Nat)
    PROVE  /\ a \o b \in Seq(Nat) /\ Len(a \o b) = Len(a) + Len(b) /\ Continues(a, a \o b)
           /\ \A i \in 1..Len(b) : (a \o b)[Len(a) + i] = b[i]
BY DEF Continues

\* Writing to one of the files.
LEMMA FileReplaced ==
    ASSUME NEW files \in Seq(Seq(Nat)), NEW f \in 1..Len(files), NEW c \in Seq(Nat), NEW more,
           more = [files EXCEPT ![f] = c]
    PROVE  /\ more \in Seq(Seq(Nat)) /\ Len(more) = Len(files) /\ more[f] = c
           /\ \A i \in 1..Len(files) : i # f => more[i] = files[i]
<1>1. more \in Seq(Seq(Nat))
  OBVIOUS
<1>2. Len(more) = Len(files)
  OBVIOUS
<1>3. more[f] = c
  OBVIOUS
<1>4. \A i \in 1..Len(files) : i # f => more[i] = files[i]
  OBVIOUS
<1> QED BY <1>1, <1>2, <1>3, <1>4

\* Appending to one of the files.
LEMMA FileWritten ==
    ASSUME NEW files \in Seq(Seq(Nat)), NEW f \in 1..Len(files), NEW b \in Seq(Nat), NEW more,
           more = [files EXCEPT ![f] = @ \o b]
    PROVE  /\ more \in Seq(Seq(Nat)) /\ Len(more) = Len(files) /\ files[f] \in Seq(Nat)
           /\ more[f] = files[f] \o b /\ \A i \in 1..Len(files) : i # f => more[i] = files[i]
<1>1. files[f] \in Seq(Nat) /\ files[f] \o b \in Seq(Nat)
  OBVIOUS
<1> QED BY <1>1, FileReplaced

\* The bytes behind the first n.
LEMMA PartOfBytes ==
    ASSUME NEW a \in Seq(Nat), NEW n \in Nat, n <= Len(a)
    PROVE  LET rear == SubSeq(a, n + 1, Len(a))
           IN  /\ rear \in Seq(Nat) /\ Len(rear) = Len(a) - n
               /\ \A i \in 1..Len(rear) : rear[i] = a[n + i]
<1>1. SubSeq(a, n + 1, Len(a)) = [i \in 1..(Len(a) - n) |-> a[n + i]]
  <2>1. SubSeq(a, n + 1, Len(a)) = [i \in 1..(Len(a) - (n + 1) + 1) |-> a[(n + 1) + i - 1]]
    OBVIOUS
  <2> QED BY <2>1
<1>2. \A i \in 1..(Len(a) - n) : a[n + i] \in Nat
  OBVIOUS
<1> QED BY <1>1, <1>2

\* A line of the log with its newline, as it is written.
LEMMA LineBytes ==
    ASSUME NEW ks \in Seq(Kinds), NEW n \in 1..Len(ks)
    PROVE  LET line == LineOf(n, ks) \o <<NL>>
           IN  /\ line \in Seq(Nat) /\ Len(line) = ks[n].width + 1
               /\ \A i \in 1..Len(line) : line[i] = ByteOf(n, i, ks)
<1> DEFINE w == ks[n].width
           bare == LineOf(n, ks)
<1>1. w \in Nat \ {0}
  BY LogConstants
<1>2. bare = [i \in 1..w |-> n]
  BY DEF LineOf
<1>3. bare \in Seq(Nat) /\ Len(bare) = w /\ \A i \in 1..w : bare[i] = n
  BY <1>1, <1>2
<1>4. <<NL>> \in Seq(Nat) /\ Len(<<NL>>) = 1 /\ <<NL>>[1] = NL
  BY DEF NL
<1> HIDE DEF w, bare
<1>5. /\ bare \o <<NL>> \in Seq(Nat) /\ Len(bare \o <<NL>>) = w + 1
      /\ \A i \in 1..(w + 1) : (bare \o <<NL>>)[i] = IF i <= w THEN n ELSE NL
  BY <1>1, <1>3, <1>4
<1> QED BY <1>5 DEF ByteOf, w, bare

\* One entry is logged at a time.
LEMMA OneEntry == ASSUME NEW k PROVE SetToSeq({k}) = <<k>>
<1>1. Cardinality({k}) = 1
  BY FS_Singleton
<1> DEFINE f == [i \in 1..1 |-> k]
<1>2. f \in [1..1 -> {k}] /\ IsInjective(f)
  BY DEF IsInjective
<1>3. \A g \in [1..1 -> {k}] : g = f
  OBVIOUS
<1>4. SetToSeq({k}) = CHOOSE g \in [1..1 -> {k}] : IsInjective(g)
  BY <1>1 DEF SetToSeq
<1> HIDE DEF f
<1>5. SetToSeq({k}) = f
  BY <1>2, <1>3, <1>4
<1> QED BY <1>5 DEF f

-----------------------------------------------------------------------------
(* The operations of the writer *)

\* Days are kept or have expired; west of Greenwich one kept day expires too.
LEMMA Expiry ==
    ASSUME Types, NEW d \in Dates
    PROVE  /\ ~Expired(d) => d > today - writer.days
           /\ zone >= 0 /\ d > today - writer.days => ~Expired(d)
<1>1. d \in Int /\ today \in Int /\ writer.days \in Int /\ zone \in Int /\ zone < 24
  BY LogConstants DEF Types, Writes
<1> QED BY <1>1 DEF Expired

\* What the clean-up leaves of the files.
LEMMA CleanUp ==
    ASSUME Types, NEW n \in Nat, NEW files \in [Dates -> 0..n]
    PROVE  /\ CleanedUp(files) \in [Dates -> 0..n]
           /\ \A d \in Dates : CleanedUp(files)[d] # 0 => d > today - writer.days
           /\ zone >= 0 => \A d \in Dates : d > today - writer.days => CleanedUp(files)[d] = files[d]
BY Expiry DEF CleanedUp

\* The file of today, and the other files as they are.
LEMMA RotatedFile ==
    ASSUME Types
    PROVE  /\ Rotated.date = today
           /\ Rotated.data \in Seq(Seq(Nat)) /\ Rotated.file \in 1..Len(Rotated.data)
           /\ Len(data) <= Len(Rotated.data)
           /\ \A n \in 1..Len(data) : Rotated.data[n] = data[n]
           /\ Rotated.dir \in [Dates -> 0..Len(Rotated.data)]
           /\ \A d \in Dates : dir[d] # 0 => Rotated.dir[d] = dir[d]
           /\ \A d \in Dates : d # today => Rotated.dir[d] = dir[d]
           /\ (writer.file # 0 /\ writer.date = today => dir[today] = writer.file) =>
                 Rotated.dir[today] = Rotated.file
<1>1. /\ today \in Dates /\ data \in Seq(Seq(Nat)) /\ Len(data) \in Nat /\ dir \in [Dates -> 0..Len(data)]
      /\ writer.file \in 0..Len(data)
  BY DEF Types, Writes
<1>2. CASE writer.file # 0 /\ writer.date = today
  <2>1. Rotated = [date |-> today, file |-> writer.file, dir |-> dir, data |-> data]
    BY <1>2 DEF Rotated
  <2> QED BY <1>1, <1>2, <2>1
<1>3. CASE ~(writer.file # 0 /\ writer.date = today) /\ dir[today] # 0
  <2>1. Rotated = [date |-> today, file |-> dir[today], dir |-> dir, data |-> data]
    BY <1>3 DEF Rotated
  <2> QED BY <1>1, <1>3, <2>1
<1>4. CASE ~(writer.file # 0 /\ writer.date = today) /\ dir[today] = 0
  <2> DEFINE file == Len(data) + 1
             new == Append(data, <<>>)
             files == [dir EXCEPT ![today] = file]
  <2>1. Rotated = [date |-> today, file |-> file, dir |-> files, data |-> new]
    BY <1>4 DEF Rotated
  <2>2. /\ new \in Seq(Seq(Nat)) /\ Len(new) = file
        /\ \A n \in 1..Len(data) : new[n] = data[n]
    BY <1>1
  <2>3. files \in [Dates -> 0..file] /\ files[today] = file /\ \A d \in Dates : d # today => files[d] = dir[d]
    BY <1>1
  <2> HIDE DEF new, files
  <2> QED BY <1>1, <1>4, <2>1, <2>2, <2>3
<1> QED BY <1>2, <1>3, <1>4

\* What a write does, when the file of today is there.
LEMMA WriteEffect ==
    ASSUME Types, NEW l \in Loggers, Write(l)
    PROVE  /\ kinds' \in Seq(Kinds) /\ Len(kinds') = Len(kinds) + 1
           /\ \A i \in 1..Len(kinds) : kinds'[i] = kinds[i]
           /\ \E new \in Seq(Nat) :
                 /\ Len(new) >= 1 /\ Len(new) + Len(rest') = kinds'[Len(kinds')].width + 1
                 /\ \A i \in 1..Len(new) : new[i] = ByteOf(Len(kinds'), i, kinds')
                 /\ data' = [Rotated.data EXCEPT ![Rotated.file] = @ \o new]
                 /\ rest' \in Seq(Nat)
                 /\ \A i \in 1..Len(rest') : rest'[i] = ByteOf(Len(kinds'), Len(new) + i, kinds')
                 /\ acked' = IF rest' = <<>> /\ Clean(Rotated.data[Rotated.file])
                             THEN acked \union {[line |-> Len(kinds'), date |-> Rotated.date]} ELSE acked
<1>1. PICK k \in Kinds : logger[l] = {k}
  <2>1. logger[l] # {}
    BY DEF Write
  <2>2. logger[l] \in Entries
    BY DEF Types
  <2> QED BY <2>1, <2>2 DEF Entries
<1> DEFINE ks == kinds \o <<k>>
           line == LineOf(Len(ks), ks) \o <<NL>>
<1>2. SetToSeq(logger[l]) = <<k>>
  BY <1>1, OneEntry
<1>3. /\ ks \in Seq(Kinds) /\ Len(ks) = Len(kinds) + 1 /\ Len(ks) \in 1..Len(ks)
      /\ \A i \in 1..Len(kinds) : ks[i] = kinds[i]
  BY DEF Types
<1>4. PICK n \in 1..Len(line) :
         /\ kinds' = ks
         /\ data' = [Rotated.data EXCEPT ![Rotated.file] = @ \o SubSeq(line, 1, n)]
         /\ rest' = SubSeq(line, n + 1, Len(line))
         /\ acked' = IF n = Len(line) /\ Clean(Rotated.data[Rotated.file])
                     THEN acked \union {[line |-> Len(ks), date |-> Rotated.date]} ELSE acked
  BY <1>2 DEF Write
<1> HIDE DEF ks
<1>5. /\ line \in Seq(Nat) /\ Len(line) = ks[Len(ks)].width + 1
      /\ \A i \in 1..Len(line) : line[i] = ByteOf(Len(ks), i, ks)
  BY <1>3, LineBytes
<1> DEFINE new == SubSeq(line, 1, n)
<1> HIDE DEF line
<1>6. /\ new \in Seq(Nat) /\ Len(new) = n /\ \A i \in 1..n : new[i] = line[i]
      /\ n \in Nat /\ n >= 1 /\ n <= Len(line) /\ Len(line) \in Nat
  BY <1>5
<1>7. /\ rest' \in Seq(Nat) /\ Len(rest') = Len(line) - n
      /\ \A i \in 1..Len(rest') : rest'[i] = line[n + i]
  BY <1>4, <1>5, <1>6, PartOfBytes
<1>8. rest' = <<>> <=> n = Len(line)
  BY <1>6, <1>7
<1>9. \A i \in 1..Len(rest') : n + i \in 1..Len(line)
  BY <1>6, <1>7
<1>10. \A i \in 1..Len(new) : i \in 1..Len(line)
  BY <1>6
<1>11. data' = [Rotated.data EXCEPT ![Rotated.file] = @ \o new]
  BY <1>4
<1> HIDE DEF new
<1>12. /\ Len(new) >= 1 /\ Len(new) + Len(rest') = kinds'[Len(kinds')].width + 1
       /\ \A i \in 1..Len(new) : new[i] = ByteOf(Len(kinds'), i, kinds')
  <2>1. Len(new) + Len(rest') = Len(line)
    BY <1>6, <1>7
  <2> QED BY <1>4, <1>5, <1>6, <1>10, <2>1
<1>13. \A i \in 1..Len(rest') : rest'[i] = ByteOf(Len(kinds'), Len(new) + i, kinds')
  BY <1>4, <1>5, <1>6, <1>7, <1>9
<1> QED BY <1>3, <1>4, <1>6, <1>7, <1>8, <1>11, <1>12, <1>13

\* Queries, and what is left alone by them.
Aside == UNCHANGED <<today, zone, bound, data, dir, kinds, config, writer, rest, logger, setter, acked, faults>>

\* Queries, and steps of nobody, stand aside.
LEMMA QueriesStandAside ==
    ASSUME \/ UNCHANGED vars
           \/ \E c \in Clients : OpenCursor(c) \/ OpenPage(c) \/ ReaderStep(c)
    PROVE  Aside
<1>1. CASE UNCHANGED vars
  BY <1>1 DEF Aside, vars, logs
<1>2. ASSUME NEW c \in Clients, OpenCursor(c) \/ OpenPage(c) PROVE Aside
  BY <1>2, Zenon DEF Aside, logs, OpenCursor, OpenPage
<1>3. ASSUME NEW c \in Clients, ReadChunk(c) PROVE Aside
  BY <1>3, Zenon DEF Aside, logs, ReadChunk
<1>4. ASSUME NEW c \in Clients, ScanLine(c) \/ CollectLine(c) PROVE Aside
  BY <1>4, Zenon DEF Aside, logs, ScanLine, CollectLine
<1>5. QED
  BY <1>1, <1>2, <1>3, <1>4, Zenon DEF ReaderStep

\* A writer that goes on, with the file of today.
LEMMA WriterMoves ==
    ASSUME NEW day \in Dates, NEW n \in Nat, NEW m, NEW w, Writes(w, day, m),
           NEW file \in 1..n
    PROVE  /\ Writes([w EXCEPT !.date = day, !.file = file, !.cleaned = day], day, n)
           /\ Writes([w EXCEPT !.date = day, !.file = file], day, n)
<1>1. day \in Nat /\ day # 0 /\ file \in 0..n /\ file # 0 /\ day <= day
  BY LogConstants
<1>2. /\ w \in [date : {0} \union Dates, file : 0..m, days : Nat \ {0}, cleaned : Nat]
      /\ w.cleaned <= day
  BY DEF Writes
<1> DEFINE W1 == [w EXCEPT !.date = day, !.file = file, !.cleaned = day]
           W2 == [w EXCEPT !.date = day, !.file = file]
<1>3. /\ W1 \in [date : {0} \union Dates, file : 0..n, days : Nat \ {0}, cleaned : Nat]
      /\ W1.date = day /\ W1.file = file /\ W1.cleaned = day
  BY <1>1, <1>2
<1>4. /\ W2 \in [date : {0} \union Dates, file : 0..n, days : Nat \ {0}, cleaned : Nat]
      /\ W2.date = day /\ W2.file = file /\ W2.cleaned = w.cleaned
  BY <1>1, <1>2
<1> HIDE DEF W1, W2
<1>5. Writes(W1, day, n) /\ Writes(W2, day, n)
  BY <1>1, <1>2, <1>3, <1>4 DEF Writes
<1> QED BY <1>5 DEF W1, W2

\* A writer without a file, of its date or of none.
LEMMA WriterCloses ==
    ASSUME NEW day, NEW n \in Nat, NEW w, Writes(w, day, n)
    PROVE  Writes([w EXCEPT !.file = 0], day, n) /\ (0 <= day => Writes([w EXCEPT !.file = 0, !.date = 0], day, n))
<1>1. w \in [date : {0} \union Dates, file : 0..n, days : Nat \ {0}, cleaned : Nat]
  BY DEF Writes
<1> DEFINE W1 == [w EXCEPT !.file = 0]
<1>2. /\ W1 \in [date : {0} \union Dates, file : 0..n, days : Nat \ {0}, cleaned : Nat]
      /\ W1.date = w.date /\ W1.file = 0 /\ W1.cleaned = w.cleaned
  BY <1>1
<1> DEFINE W2 == [w EXCEPT !.file = 0, !.date = 0]
<1>3. /\ W2 \in [date : {0} \union Dates, file : 0..n, days : Nat \ {0}, cleaned : Nat]
      /\ W2.date = 0 /\ W2.file = 0 /\ W2.cleaned = w.cleaned
  <2>1. 0 \in 0..n /\ 0 \in {0} \union Dates
    OBVIOUS
  <2> QED BY <1>1, <2>1
<1> HIDE DEF W1, W2
<1>4. Writes(W1, day, n) /\ (0 <= day => Writes(W2, day, n))
  BY <1>2, <1>3 DEF Writes
<1> QED BY <1>4 DEF W1, W2

\* Another number of days, and the configurations that have one.
LEMMA WriterKeepsOtherDays ==
    ASSUME NEW day, NEW n \in Nat, NEW w, Writes(w, day, n), NEW cfg \in AcceptedConfigs
    PROVE  LET days == NormalizeMaxDays(cfg.maxDays)
           IN  days \in Nat \ {0} /\ Writes([w EXCEPT !.days = days], day, n)
<1> DEFINE days == NormalizeMaxDays(cfg.maxDays)
<1>1. days \in Nat \ {0}
  BY LogConstants DEF NormalizeMaxDays
<1> HIDE DEF days
<1>2. Writes([w EXCEPT !.days = days], day, n)
  BY <1>1 DEF Writes
<1> QED BY <1>1, <1>2 DEF days

\* A writer of a program that starts.
LEMMA WriterStarts ==
    ASSUME NEW day \in Dates, NEW n \in Nat, NEW cfg \in AcceptedConfigs
    PROVE  /\ Writes(NewWriter(cfg.maxDays), day, n)
           /\ NewWriter(cfg.maxDays).file = 0 /\ NewWriter(cfg.maxDays).cleaned = 0
BY LogConstants DEF Writes, NewWriter, NormalizeMaxDays

\* A logger has no entry any more.
LEMMA LoggerFreed ==
    ASSUME Types, NEW l \in Loggers
    PROVE  [logger EXCEPT ![l] = {}] \in [Loggers -> Entries]
BY DEF Types, Entries

\* A write keeps the types.
LEMMA WriteTypes ==
    ASSUME Types, NEW l \in Loggers, Write(l)
    PROVE  Types'
<1> DEFINE f == Rotated.file
<1>1. PICK new \in Seq(Nat) :
         /\ data' = [Rotated.data EXCEPT ![f] = @ \o new]
         /\ rest' \in Seq(Nat)
         /\ acked' \subseteq acked \union {[line |-> Len(kinds'), date |-> Rotated.date]}
         /\ kinds' \in Seq(Kinds) /\ Len(kinds') = Len(kinds) + 1
  BY WriteEffect
<1>2. /\ Rotated.date = today /\ Rotated.data \in Seq(Seq(Nat)) /\ f \in 1..Len(Rotated.data)
      /\ Rotated.dir \in [Dates -> 0..Len(Rotated.data)]
  BY RotatedFile
<1>3. /\ UNCHANGED <<today, zone, bound, config, setter, faults>>
      /\ dir' \in {Rotated.dir, CleanedUp(Rotated.dir)}
      /\ writer' = [writer EXCEPT !.date = Rotated.date, !.file = f, !.cleaned = today]
      /\ logger' = [logger EXCEPT ![l] = {}]
  BY DEF Write
<1> DEFINE n == Len(Rotated.data)
<1>4. data' \in Seq(Seq(Nat)) /\ Len(data') = n
  <2>1. Rotated.data[f] \o new \in Seq(Nat)
    BY <1>2
  <2> HIDE DEF f
  <2> QED BY <1>1, <1>2, <2>1
<1>5. n \in Nat /\ today \in Dates /\ Dates \subseteq Nat \ {0}
  BY <1>2, LogConstants DEF Types
<1>6. dir' \in [Dates -> 0..n]
  <2>1. CleanedUp(Rotated.dir) \in [Dates -> 0..n]
    BY <1>2, <1>5, CleanUp
  <2> QED BY <1>2, <1>3, <2>1
<1> HIDE DEF f, n
<1>7. Writes(writer', today, Len(data'))
  BY <1>2, <1>3, <1>4, <1>5, WriterMoves DEF Types, n
<1>8. logger' \in [Loggers -> Entries]
  BY <1>3, LoggerFreed
<1>9. acked' \subseteq [line : 1..Len(kinds'), date : Dates]
  <2>1. Len(kinds) \in Nat /\ acked \subseteq [line : 1..Len(kinds), date : Dates]
    BY DEF Types
  <2>2. acked \subseteq [line : 1..Len(kinds'), date : Dates]
    BY <1>1, <2>1
  <2>3. [line |-> Len(kinds'), date |-> Rotated.date] \in [line : 1..Len(kinds'), date : Dates]
    BY <1>1, <1>2, <1>5, <2>1
  <2> QED BY <1>1, <2>2, <2>3
<1> QED BY <1>1, <1>3, <1>4, <1>5, <1>6, <1>7, <1>8, <1>9 DEF Types

\* A write that fails keeps the types.
LEMMA WriteFailsTypes ==
    ASSUME Types, NEW l \in Loggers, WriteFails(l)
    PROVE  Types'
<1>1. /\ UNCHANGED <<today, zone, bound, kinds, config, rest, setter, acked>>
      /\ logger' = [logger EXCEPT ![l] = {}] /\ faults' = faults + 1
  BY DEF WriteFails, Fault
<1>2. logger' \in [Loggers -> Entries] /\ faults' \in Nat
  <2>1. faults \in Nat
    BY DEF Types
  <2> QED BY <1>1, <2>1, LoggerFreed
<1>3. /\ data' \in Seq(Seq(Nat)) /\ dir' \in [Dates -> 0..Len(data')]
      /\ Writes(writer', today, Len(data'))
  <2>1. CASE writer' = [writer EXCEPT !.file = 0] /\ UNCHANGED <<data, dir>>
    <3>1. /\ Writes(writer, today, Len(data)) /\ data \in Seq(Seq(Nat)) /\ dir \in [Dates -> 0..Len(data)]
          /\ Len(data) \in Nat
      BY DEF Types
    <3>2. Writes([writer EXCEPT !.file = 0], today, Len(data))
      BY <3>1, WriterCloses
    <3> QED BY <2>1, <3>1, <3>2
  <2>2. CASE /\ data' = Rotated.data
             /\ writer' = [writer EXCEPT !.date = Rotated.date, !.file = Rotated.file]
             /\ \E gone \in SUBSET {d \in Dates : Expired(d)} :
                   dir' = [d \in Dates |-> IF d \in gone THEN 0 ELSE Rotated.dir[d]]
    <3>1. /\ Rotated.date = today /\ data' \in Seq(Seq(Nat)) /\ Rotated.file \in 1..Len(data')
          /\ Rotated.dir \in [Dates -> 0..Len(data')] /\ Len(data') \in Nat
      BY <2>2, RotatedFile
    <3>2. dir' \in [Dates -> 0..Len(data')]
      BY <2>2, <3>1
    <3>3. today \in Dates /\ Writes(writer, today, Len(data))
      BY DEF Types
    <3> QED BY <2>2, <3>1, <3>2, <3>3, WriterMoves
  <2> QED BY <2>1, <2>2 DEF WriteFails
<1> QED BY <1>1, <1>2, <1>3 DEF Types

\* Every step keeps the types.
LEMMA TypesStep ==
    ASSUME Types, PendingInv, [Next]_vars
    PROVE  Types'
<1>0. /\ today \in Dates /\ zone \in Zones /\ bound \in Bounds
      /\ data \in Seq(Seq(Nat)) /\ kinds \in Seq(Kinds)
      /\ dir \in [Dates -> 0..Len(data)] /\ Len(data) \in Nat /\ Len(kinds) \in Nat
      /\ Writes(writer, today, Len(data))
      /\ rest \in Seq(Nat)
      /\ logger \in [Loggers -> Entries]
      /\ config \in [running : AcceptedConfigs, saved : AcceptedConfigs]
      /\ setter \in [todo : {"nothing", "update", "cleanup"}, cfg : AcceptedConfigs]
      /\ acked \subseteq [line : 1..Len(kinds), date : Dates]
      /\ faults \in Nat
  BY DEF Types
<1>f. Fault => faults' \in Nat
  BY <1>0 DEF Fault
<1>1. ASSUME NEW l \in Loggers, Log(l) PROVE Types'
  <2>1. logger' \in [Loggers -> Entries]
    BY <1>0, <1>1 DEF Log, Entries
  <2> QED BY <1>0, <1>1, <2>1 DEF Log, logs, Types
<1>2. ASSUME NEW l \in Loggers, Write(l) PROVE Types'
  BY <1>2, WriteTypes
<1>3. ASSUME NEW l \in Loggers, WriteFails(l) PROVE Types'
  BY <1>3, WriteFailsTypes
<1>4. CASE FinishWrite
  <2>1. /\ data' = [data EXCEPT ![writer.file] = @ \o rest] /\ rest' = <<>>
        /\ acked' \subseteq acked \union {[line |-> Len(kinds), date |-> writer.date]}
        /\ UNCHANGED <<today, zone, bound, dir, kinds, config, writer, logger, setter, faults>>
    BY <1>4 DEF FinishWrite, StillKept
  <2>2. writer.file \in 1..Len(data) /\ writer.date \in Dates /\ Len(kinds) \in 1..Len(kinds)
    <3>1. writer.file # 0 /\ Len(kinds) # 0
      BY <1>4 DEF FinishWrite, PendingInv
    <3>2. writer.file \in 0..Len(data) /\ (writer.file # 0 => writer.date # 0) /\ writer.date \in {0} \union Dates
      BY <1>0 DEF Writes
    <3> QED BY <1>0, <3>1, <3>2
  <2>3. data' \in Seq(Seq(Nat)) /\ Len(data') = Len(data)
    <3>1. data[writer.file] \o rest \in Seq(Nat)
      BY <1>0, <2>2
    <3> QED BY <1>0, <2>1, <2>2, <3>1
  <2>4. [line |-> Len(kinds), date |-> writer.date] \in [line : 1..Len(kinds), date : Dates]
    BY <2>2
  <2>5. acked' \subseteq [line : 1..Len(kinds), date : Dates]
    BY <1>0, <2>1, <2>4
  <2>6. rest' \in Seq(Nat)
    BY <2>1
  <2> QED BY <1>0, <2>1, <2>3, <2>5, <2>6 DEF Types
<1>5. CASE WriteCutShort
  <2>1. rest' \in Seq(Nat)
    BY <1>5 DEF WriteCutShort
  <2> QED BY <1>0, <1>5, <1>f, <2>1 DEF WriteCutShort, logs, Types
<1>6. ASSUME NEW d \in AskedDates, DeleteDate(d) PROVE Types'
  <2>1. /\ UNCHANGED <<today, zone, bound, data, kinds, config, rest, logger, setter>>
        /\ dir' \in {dir, [dir EXCEPT ![d] = 0]} /\ acked' \subseteq acked
        /\ writer' \in {writer, [writer EXCEPT !.file = 0, !.date = 0]}
        /\ faults' \in Nat
    BY <1>0, <1>6, <1>f DEF DeleteDate
  <2>2. dir' \in [Dates -> 0..Len(data)]
    <3>1. [dir EXCEPT ![d] = 0] \in [Dates -> 0..Len(data)]
      <4>1. dir \in [Dates -> 0..Len(data)] /\ 0 \in 0..Len(data)
        BY <1>0
      <4> HIDE <1>0
      <4> QED BY <4>1
    <3> QED BY <1>0, <2>1, <3>1
  <2>3. Writes(writer', today, Len(data))
    <3>1. 0 <= today
      BY <1>0, LogConstants
    <3>2. Writes([writer EXCEPT !.file = 0, !.date = 0], today, Len(data))
      BY <1>0, <3>1, WriterCloses
    <3> QED BY <1>0, <2>1, <3>2
  <2> QED BY <1>0, <2>1, <2>2, <2>3 DEF Types
<1>7. CASE SetLoggingConfig
  <2>1. config' \in [running : AcceptedConfigs, saved : AcceptedConfigs]
    BY <1>0, <1>7 DEF SetLoggingConfig
  <2>2. setter' \in [todo : {"nothing", "update", "cleanup"}, cfg : AcceptedConfigs]
    BY <1>7 DEF SetLoggingConfig
  <2> QED BY <1>0, <1>7, <2>1, <2>2 DEF SetLoggingConfig, logs, Types
<1>8. CASE UpdateConfig
  <2>1. /\ config' \in [running : AcceptedConfigs, saved : AcceptedConfigs]
        /\ setter' \in [todo : {"nothing", "update", "cleanup"}, cfg : AcceptedConfigs]
    BY <1>0, <1>8 DEF UpdateConfig
  <2>2. setter.cfg \in AcceptedConfigs
    BY <1>0
  <2>3. Writes(writer', today, Len(data))
    BY <1>0, <1>8, <2>2, WriterKeepsOtherDays DEF UpdateConfig
  <2>4. acked' \subseteq acked
    BY <1>8 DEF UpdateConfig, StillKept
  <2> QED BY <1>0, <1>8, <2>1, <2>3, <2>4 DEF UpdateConfig, logs, Types
<1>9. CASE Cleanup
  <2>1. setter' \in [todo : {"nothing", "update", "cleanup"}, cfg : AcceptedConfigs]
    BY <1>0, <1>9 DEF Cleanup
  <2>2. dir' \in [Dates -> 0..Len(data)]
    <3>1. CleanedUp(dir) \in [Dates -> 0..Len(data)]
      BY <1>0, CleanUp
    <3>2. CASE dir' = CleanedUp(dir)
      BY <3>1, <3>2
    <3>3. CASE \E gone \in SUBSET {d \in Dates : Expired(d)} : dir' = [d \in Dates |-> IF d \in gone THEN 0 ELSE dir[d]]
      BY <1>0, <3>3
    <3> QED BY <1>9, <3>2, <3>3 DEF Cleanup
  <2>3. faults' \in Nat
    BY <1>0, <1>9, <1>f DEF Cleanup
  <2> QED BY <1>0, <1>9, <2>1, <2>2, <2>3 DEF Cleanup, Types
<1>10. CASE NextDay
  <2>1. today' \in Dates /\ today' = today + 1
    BY <1>0, <1>10, GatewayLogAssumption DEF NextDay, Dates
  <2>2. Writes(writer, today', Len(data))
    <3>1. today \in Nat /\ writer.date \in Nat /\ writer.cleaned \in Nat
      <4>1. /\ writer.date \in {0} \union Dates /\ writer.cleaned \in Nat
        BY <1>0 DEF Writes
      <4>2. today \in Dates /\ \A d \in Dates : d \in Nat
        BY <1>0, LogConstants
      <4>3. writer.date \in Nat
        BY <4>1, <4>2
      <4> QED BY <4>1, <4>2, <4>3
    <3> QED BY <1>0, <2>1, <3>1 DEF Writes
  <2>3. acked' \subseteq acked
    BY <1>10 DEF NextDay, StillKept
  <2> QED BY <1>0, <1>10, <2>1, <2>2, <2>3 DEF NextDay, logs, Types
<1>11. CASE Restart
  <2>1. config.saved \in AcceptedConfigs
    BY <1>0
  <2>2. config' \in [running : AcceptedConfigs, saved : AcceptedConfigs]
    BY <1>0, <1>11, <2>1 DEF Restart
  <2>3. setter' \in [todo : {"nothing", "update", "cleanup"}, cfg : AcceptedConfigs]
    BY <1>11, <2>1 DEF Restart
  <2>4. Writes(writer', today, Len(data))
    BY <1>0, <1>11, <2>1, WriterStarts DEF Restart
  <2>5. rest' \in Seq(Nat) /\ logger' \in [Loggers -> Entries] /\ acked' \subseteq acked /\ faults' \in Nat
    BY <1>11, <1>f DEF Restart, Entries, StillKept
  <2> QED BY <1>0, <1>11, <2>2, <2>3, <2>4, <2>5 DEF Restart, logs, Types
<1>12. CASE UNCHANGED vars \/ \E c \in Clients : OpenCursor(c) \/ OpenPage(c) \/ ReaderStep(c)
  BY <1>0, <1>12, QueriesStandAside DEF Aside, Types
<1> QED BY <1>1, <1>2, <1>3, <1>4, <1>5, <1>6, <1>7, <1>8, <1>9, <1>10, <1>11, <1>12 DEF Next, WriterStep

\* The writer is not ahead of the day, and keeps this day at least.
LEMMA WriterToday ==
    ASSUME Types
    PROVE  /\ today \in Dates /\ today \in Nat \ {0} /\ zone \in Int /\ Len(data) \in Nat
           /\ writer.date <= today /\ writer.cleaned <= today /\ writer.days \in Nat \ {0}
           /\ writer.file \in 0..Len(data) /\ writer.date \in Nat /\ writer.cleaned \in Nat
           /\ today > today - writer.days
<1>1. /\ writer.date \in {0} \union Dates /\ writer.cleaned \in Nat /\ writer.days \in Nat \ {0}
      /\ writer.date <= today /\ writer.cleaned <= today /\ writer.file \in 0..Len(data)
  BY DEF Types, Writes
<1>2. today \in Dates /\ zone \in Int /\ Len(data) \in Nat /\ \A d \in Dates : d \in Nat \ {0}
  BY LogConstants DEF Types
<1>3. writer.date \in Nat
  BY <1>1, <1>2
<1> QED BY <1>1, <1>2, <1>3

-----------------------------------------------------------------------------
(* Old files are removed *)

\* Every step keeps OldFilesGo: files grow old when the day or the configuration
\* changes, and then the day is not cleaned or the setter is not done.
LEMMA OldFilesStep ==
    ASSUME Types, OldFilesGo, [Next]_vars
    PROVE  OldFilesGo'
<1>0. Types /\ OldFilesGo
  OBVIOUS
<1>f. Fault => faults' # 0
  BY <1>0 DEF Types, Fault
<1>1. ASSUME NEW l \in Loggers, Log(l) PROVE OldFilesGo'
  BY <1>0, <1>1 DEF Log, logs, OldFilesGo
<1>2. ASSUME NEW l \in Loggers, Write(l) PROVE OldFilesGo'
  <2>1. /\ UNCHANGED <<today, setter, faults>> /\ writer'.days = writer.days
        /\ dir' = IF writer.cleaned = today THEN Rotated.dir ELSE CleanedUp(Rotated.dir)
    <3>1. writer \in [date : {0} \union Dates, file : 0..Len(data), days : Nat \ {0}, cleaned : Nat]
      BY <1>0 DEF Types, Writes
    <3> QED BY <1>2, <3>1 DEF Write
  <2>2. CASE writer.cleaned = today
    <3>1. \A d \in Dates : d # today => dir'[d] = dir[d]
      BY <1>0, <2>1, <2>2, RotatedFile
    <3> QED BY <1>0, <2>1, <2>2, <3>1, WriterToday DEF OldFilesGo
  <2>3. CASE writer.cleaned # today
    <3>1. \A d \in Dates : dir'[d] # 0 => d > today - writer.days
      <4>1. Rotated.dir \in [Dates -> 0..Len(Rotated.data)] /\ Len(Rotated.data) \in Nat
        BY <1>0, RotatedFile
      <4> QED BY <1>0, <2>1, <2>3, <4>1, CleanUp
    <3> QED BY <2>1, <3>1 DEF OldFilesGo
  <2> QED BY <2>2, <2>3
<1>3. ASSUME NEW l \in Loggers, WriteFails(l) PROVE OldFilesGo'
  BY <1>f, <1>3 DEF WriteFails, OldFilesGo
<1>4. CASE FinishWrite
  BY <1>0, <1>4 DEF FinishWrite, OldFilesGo
<1>5. CASE WriteCutShort
  BY <1>f, <1>5 DEF WriteCutShort, OldFilesGo
<1>6. ASSUME NEW d \in AskedDates, DeleteDate(d) PROVE OldFilesGo'
  <2>1. /\ UNCHANGED <<today, setter>>
        /\ writer'.days = writer.days /\ writer'.cleaned = writer.cleaned
    <3>1. writer \in [date : {0} \union Dates, file : 0..Len(data), days : Nat \ {0}, cleaned : Nat]
      BY <1>0 DEF Types, Writes
    <3> QED BY <1>6, <3>1 DEF DeleteDate
  <2>2. CASE faults' = faults /\ dir' = [dir EXCEPT ![d] = 0]
    <3>1. \A x \in Dates : dir'[x] # 0 => dir[x] # 0
      BY <1>0, <2>2 DEF Types
    <3> QED BY <1>0, <2>1, <2>2, <3>1 DEF OldFilesGo
  <2>3. CASE Fault
    BY <1>f, <2>3 DEF OldFilesGo
  <2> QED BY <1>6, <2>2, <2>3 DEF DeleteDate
<1>7. CASE SetLoggingConfig
  BY <1>7 DEF SetLoggingConfig, OldFilesGo
<1>8. CASE UpdateConfig
  <2>1. setter'.todo = "cleanup"
    BY <1>0, <1>8 DEF UpdateConfig, Types
  <2> QED BY <2>1 DEF OldFilesGo
<1>9. CASE Cleanup
  <2>1. UNCHANGED <<today, writer>> /\ (dir' = CleanedUp(dir) \/ Fault)
    BY <1>9 DEF Cleanup
  <2>2. CASE dir' = CleanedUp(dir)
    <3>1. dir \in [Dates -> 0..Len(data)] /\ Len(data) \in Nat
      BY <1>0 DEF Types
    <3>2. \A d \in Dates : dir'[d] # 0 => d > today - writer.days
      BY <1>0, <2>2, <3>1, CleanUp
    <3> QED BY <2>1, <3>2 DEF OldFilesGo
  <2> QED BY <1>f, <2>1, <2>2 DEF OldFilesGo
<1>10. CASE NextDay
  <2>1. writer.cleaned # today + 1
    BY <1>0, WriterToday
  <2> QED BY <1>10, <2>1 DEF NextDay, OldFilesGo
<1>11. CASE Restart
  BY <1>f, <1>11 DEF Restart, OldFilesGo
<1>12. CASE UNCHANGED vars \/ \E c \in Clients : OpenCursor(c) \/ OpenPage(c) \/ ReaderStep(c)
  BY <1>0, <1>12, QueriesStandAside DEF Aside, OldFilesGo
<1> QED BY <1>1, <1>2, <1>3, <1>4, <1>5, <1>6, <1>7, <1>8, <1>9, <1>10, <1>11, <1>12 DEF Next, WriterStep

-----------------------------------------------------------------------------
(* The write in progress *)

\* Every step keeps what is known of the write in progress.
LEMMA PendingStep ==
    ASSUME Types, PendingInv, [Next]_vars
    PROVE  PendingInv'
<1>0. Types /\ PendingInv
  OBVIOUS
<1>1. ASSUME NEW l \in Loggers, Log(l) PROVE PendingInv'
  BY <1>0, <1>1 DEF Log, logs, PendingInv, ByteOf
<1>2. ASSUME NEW l \in Loggers, Write(l) PROVE PendingInv'
  <2> DEFINE f == Rotated.file
             bytes == Rotated.data[f]
             n == Len(kinds')
             w == kinds'[n].width
  <2>1. PICK new \in Seq(Nat) :
           /\ Len(new) >= 1 /\ Len(new) + Len(rest') = w + 1
           /\ \A i \in 1..Len(new) : new[i] = ByteOf(n, i, kinds')
           /\ data' = [Rotated.data EXCEPT ![f] = @ \o new]
           /\ rest' \in Seq(Nat)
           /\ \A i \in 1..Len(rest') : rest'[i] = ByteOf(n, Len(new) + i, kinds')
    BY <1>0, <1>2, WriteEffect
  <2>2. n = Len(kinds) + 1 /\ Len(kinds) \in Nat
    BY <1>0, <1>2, WriteEffect DEF Types
  <2>3. Rotated.data \in Seq(Seq(Nat)) /\ f \in 1..Len(Rotated.data) /\ bytes \in Seq(Nat)
    BY <1>0, RotatedFile
  <2>4. writer'.file = f
    <3>1. writer \in [date : {0} \union Dates, file : 0..Len(data), days : Nat \ {0}, cleaned : Nat]
      BY <1>0 DEF Types, Writes
    <3> QED BY <1>2, <3>1 DEF Write
  <2> HIDE DEF f
  <2>5. data'[f] = bytes \o new
    <3>1. data' = [Rotated.data EXCEPT ![f] = @ \o new]
      BY <2>1
    <3>2. data'[f] = Rotated.data[f] \o new
      BY <2>3, <3>1, FileWritten
    <3> QED BY <3>2
  <2>6. /\ Len(bytes \o new) = Len(bytes) + Len(new) /\ Len(bytes) \in Nat /\ Len(new) \in Nat
        /\ \A i \in 1..Len(new) : (bytes \o new)[Len(bytes) + i] = new[i]
    <3>1. bytes \in Seq(Nat) /\ new \in Seq(Nat)
      BY <2>3
    <3> HIDE DEF bytes
    <3>2. Len(bytes) \in Nat /\ Len(new) \in Nat
      BY <3>1
    <3> QED BY <3>1, <3>2, AppendedBytes
  <2>7. Len(rest') \in Nat /\ w + 1 - Len(rest') = Len(new)
    <3>1. n \in 1..Len(kinds') /\ kinds' \in Seq(Kinds)
      BY <1>0, <1>2, <2>2, WriteEffect
    <3>2. w \in Nat
      BY <3>1, LogConstants
    <3>3. Len(rest') \in Nat /\ Len(new) \in Nat /\ Len(new) + Len(rest') = w + 1
      BY <2>1, <2>6
    <3> HIDE DEF w
    <3> QED BY <3>2, <3>3
  <2> HIDE DEF bytes, n, w
  <2>8. \A j \in (Len(bytes) + 1)..Len(bytes \o new) : (bytes \o new)[j] = ByteOf(n, j - Len(bytes), kinds')
    <3> SUFFICES ASSUME NEW j \in (Len(bytes) + 1)..Len(bytes \o new)
                 PROVE  (bytes \o new)[j] = ByteOf(n, j - Len(bytes), kinds')
      OBVIOUS
    <3> DEFINE i == j - Len(bytes)
    <3>1. i \in 1..Len(new) /\ j = Len(bytes) + i
      BY <2>6
    <3> HIDE DEF i
    <3>2. (bytes \o new)[j] = new[i] /\ new[i] = ByteOf(n, i, kinds')
      BY <2>1, <2>6, <3>1
    <3> QED BY <3>2 DEF i
  <2>9. /\ Len(new) \in 1..Len(bytes \o new) /\ Len(bytes \o new) - Len(new) = Len(bytes)
        /\ f # 0 /\ n # 0
    <3>1. f # 0
      BY <2>3
    <3> QED BY <2>1, <2>2, <2>6, <3>1 DEF n
  <2>10. kinds'[Len(kinds')].width + 1 - Len(rest') = Len(new) /\ n = Len(kinds')
    BY <2>7 DEF n, w
  <2>11. data'[writer'.file] = bytes \o new
    BY <2>4, <2>5
  <2> QED BY <2>1, <2>4, <2>8, <2>9, <2>10, <2>11 DEF PendingInv
<1>3. ASSUME NEW l \in Loggers, WriteFails(l) PROVE PendingInv'
  BY <1>3 DEF WriteFails, PendingInv
<1>4. CASE FinishWrite \/ WriteCutShort \/ Restart
  BY <1>4 DEF FinishWrite, WriteCutShort, Restart, PendingInv
<1>5. ASSUME NEW d \in AskedDates, DeleteDate(d) PROVE PendingInv'
  BY <1>5 DEF DeleteDate, PendingInv
<1>6. CASE SetLoggingConfig \/ NextDay
  BY <1>0, <1>6 DEF SetLoggingConfig, NextDay, logs, PendingInv, ByteOf
<1>7. CASE UpdateConfig \/ Cleanup
  BY <1>7 DEF UpdateConfig, Cleanup, PendingInv
<1>8. CASE UNCHANGED vars \/ \E c \in Clients : OpenCursor(c) \/ OpenPage(c) \/ ReaderStep(c)
  BY <1>0, <1>8, QueriesStandAside DEF Aside, PendingInv, ByteOf
<1> QED BY <1>1, <1>2, <1>3, <1>4, <1>5, <1>6, <1>7, <1>8 DEF Next, WriterStep

-----------------------------------------------------------------------------
(* The file that is written to *)

\* Every step keeps the file that is open the file of its date.
LEMMA OpenStep ==
    ASSUME Types, OpenInv, [Next]_vars
    PROVE  OpenInv'
<1>0. Types /\ OpenInv
  OBVIOUS
<1>1. ASSUME NEW l \in Loggers, Log(l) PROVE OpenInv'
  BY <1>0, <1>1 DEF Log, logs, OpenInv
<1>2. ASSUME NEW l \in Loggers, Write(l) PROVE OpenInv'
  <2>1. /\ UNCHANGED <<today, zone>> /\ dir' \in {Rotated.dir, CleanedUp(Rotated.dir)}
        /\ writer'.date = today /\ writer'.file = Rotated.file
    <3>1. writer \in [date : {0} \union Dates, file : 0..Len(data), days : Nat \ {0}, cleaned : Nat]
      BY <1>0 DEF Types, Writes
    <3>2. Rotated.date = today
      BY <1>0, RotatedFile
    <3> QED BY <1>2, <3>1, <3>2 DEF Write
  <2>2. ASSUME zone >= 0 PROVE dir'[today] = Rotated.file
    <3>1. Rotated.dir[today] = Rotated.file
      BY <1>0, <2>2, RotatedFile DEF OpenInv
    <3>2. Rotated.dir \in [Dates -> 0..Len(Rotated.data)] /\ Len(Rotated.data) \in Nat
      BY <1>0, RotatedFile
    <3>3. CleanedUp(Rotated.dir)[today] = Rotated.dir[today]
      BY <1>0, <2>2, <3>2, CleanUp, WriterToday
    <3> QED BY <2>1, <3>1, <3>3
  <2> QED BY <2>1, <2>2 DEF OpenInv
<1>3. ASSUME NEW l \in Loggers, WriteFails(l) PROVE OpenInv'
  <2>1. UNCHANGED <<today, zone, rest>> /\ rest = <<>>
    BY <1>3 DEF WriteFails
  <2>2. writer \in [date : {0} \union Dates, file : 0..Len(data), days : Nat \ {0}, cleaned : Nat]
    BY <1>0 DEF Types, Writes
  <2>3. CASE writer' = [writer EXCEPT !.file = 0]
    <3>1. writer'.file = 0
      BY <2>2, <2>3
    <3> QED BY <2>1, <3>1 DEF OpenInv
  <2>4. CASE /\ writer' = [writer EXCEPT !.date = Rotated.date, !.file = Rotated.file]
             /\ \E gone \in SUBSET {d \in Dates : Expired(d)} :
                   dir' = [d \in Dates |-> IF d \in gone THEN 0 ELSE Rotated.dir[d]]
    <3>1. writer'.date = today /\ writer'.file = Rotated.file
      <4>1. Rotated.date = today
        BY <1>0, RotatedFile
      <4> QED BY <2>2, <2>4, <4>1
    <3>2. ASSUME zone >= 0 PROVE dir'[today] = Rotated.file
      <4>1. Rotated.dir[today] = Rotated.file
        BY <1>0, <3>2, RotatedFile DEF OpenInv
      <4>2. today \in Dates /\ ~Expired(today)
        BY <1>0, <3>2, Expiry, WriterToday
      <4> QED BY <2>4, <4>1, <4>2
    <3> QED BY <2>1, <3>1, <3>2 DEF OpenInv
  <2> QED BY <1>3, <2>3, <2>4 DEF WriteFails
<1>4. CASE FinishWrite \/ WriteCutShort
  BY <1>0, <1>4 DEF FinishWrite, WriteCutShort, logs, OpenInv
<1>5. ASSUME NEW d \in AskedDates, DeleteDate(d) PROVE OpenInv'
  <2>1. /\ UNCHANGED <<today, zone, rest>> /\ rest = <<>> /\ dir' \in {dir, [dir EXCEPT ![d] = 0]}
        /\ writer' = IF writer.date = d /\ writer.file # 0 THEN [writer EXCEPT !.file = 0, !.date = 0] ELSE writer
    BY <1>5 DEF DeleteDate
  <2>2. CASE writer.date = d /\ writer.file # 0
    <3>1. writer'.file = 0
      <4>1. writer \in [date : {0} \union Dates, file : 0..Len(data), days : Nat \ {0}, cleaned : Nat]
        BY <1>0 DEF Types, Writes
      <4> QED BY <2>1, <2>2, <4>1
    <3> QED BY <2>1, <3>1 DEF OpenInv
  <2>3. CASE ~(writer.date = d /\ writer.file # 0)
    <3>1. \A x \in Dates : x # d => dir'[x] = dir[x]
      BY <1>0, <2>1 DEF Types
    <3> QED BY <1>0, <2>1, <2>3, <3>1, WriterToday DEF OpenInv
  <2> QED BY <2>2, <2>3
<1>6. CASE SetLoggingConfig
  BY <1>0, <1>6 DEF SetLoggingConfig, logs, OpenInv
<1>7. CASE UpdateConfig
  <2>1. /\ UNCHANGED <<today, zone, rest, dir>>
        /\ writer'.file = writer.file /\ writer'.date = writer.date
    <3>1. writer \in [date : {0} \union Dates, file : 0..Len(data), days : Nat \ {0}, cleaned : Nat]
      BY <1>0 DEF Types, Writes
    <3> QED BY <1>7, <3>1 DEF UpdateConfig, logs
  <2> QED BY <1>0, <2>1 DEF OpenInv
<1>8. CASE Cleanup
  <2>1. UNCHANGED <<today, zone, rest, writer>> /\ rest = <<>>
    BY <1>8 DEF Cleanup
  <2>2. ASSUME zone >= 0 PROVE dir'[today] = dir[today]
    <3>1. today \in Dates /\ ~Expired(today)
      BY <1>0, <2>2, Expiry, WriterToday
    <3> QED BY <1>8, <3>1 DEF Cleanup, CleanedUp
  <2> QED BY <1>0, <2>1, <2>2 DEF OpenInv
<1>9. CASE NextDay
  <2>1. writer.date # today + 1
    BY <1>0, WriterToday
  <2> QED BY <1>0, <1>9, <2>1 DEF NextDay, logs, OpenInv
<1>10. CASE Restart
  <2>1. writer'.file = 0 /\ rest' = <<>>
    BY <1>10 DEF Restart, NewWriter
  <2> QED BY <2>1 DEF OpenInv
<1>11. CASE UNCHANGED vars \/ \E c \in Clients : OpenCursor(c) \/ OpenPage(c) \/ ReaderStep(c)
  BY <1>0, <1>11, QueriesStandAside DEF Aside, OpenInv
<1> QED BY <1>1, <1>2, <1>3, <1>4, <1>5, <1>6, <1>7, <1>8, <1>9, <1>10, <1>11 DEF Next, WriterStep

-----------------------------------------------------------------------------
(* Lines are kept *)

\* A step that leaves the files of the dates of the lines alone.
LEMMA KeptAlone ==
    ASSUME KeptInv, UNCHANGED <<zone, data, kinds>>,
           \A a \in acked' : /\ a \in acked /\ a.date > today' - writer'.days
                             /\ zone >= 0 => dir'[a.date] = dir[a.date]
    PROVE  KeptInv'
<1> SUFFICES ASSUME NEW a \in acked'
             PROVE  /\ a.date > today' - writer'.days
                    /\ zone >= 0 => Has(a)'
  BY DEF KeptInv
<1>1. zone >= 0 => Has(a)
  BY DEF KeptInv
<1> QED BY <1>1 DEF Has, Whole, ByteOf

\* A step that appends to the files.
LEMMA KeptAppended ==
    ASSUME Types, NEW a \in acked, Has(a),
           data' \in Seq(Seq(Nat)), Len(data) <= Len(data'),
           \A f \in 1..Len(data) : Continues(data[f], data'[f]),
           kinds'[a.line] = kinds[a.line], dir'[a.date] = dir[a.date]
    PROVE  Has(a)'
<1> DEFINE f == dir[a.date]
<1>1. a \in [line : 1..Len(kinds), date : Dates] /\ kinds \in Seq(Kinds)
  BY DEF Types
<1>2. f \in 1..Len(data) /\ data[f] \in Seq(Nat) /\ data'[f] \in Seq(Nat) /\ dir'[a.date] = f /\ f # 0
  <2>1. f \in 0..Len(data) /\ f # 0 /\ Len(data) \in Nat /\ data \in Seq(Seq(Nat)) /\ Len(data') \in Nat
    BY <1>1 DEF Types, Has
  <2> HIDE DEF f
  <2>2. f \in 1..Len(data) /\ f \in 1..Len(data')
    BY <2>1
  <2>3. dir'[a.date] = f
    BY DEF f
  <2> QED BY <2>1, <2>2, <2>3
<1>3. PICK s \in Nat : Whole(data[f], s, a.line, kinds)
  BY DEF Has
<1>4. kinds[a.line].width \in Nat
  <2>1. kinds[a.line] \in Kinds
    BY <1>1
  <2> QED BY <2>1, LogConstants
<1> HIDE DEF f
<1>5. Whole(data'[f], s, a.line, kinds')
  BY <1>2, <1>3, <1>4, WholeLasts
<1> QED BY <1>2, <1>5 DEF Has

\* A line that begins a file or follows a newline.
LEMMA CleanBefore ==
    ASSUME NEW bytes \in Seq(Nat), NEW s \in 0..Len(bytes), Clean(SubSeq(bytes, 1, s))
    PROVE  s = 0 \/ bytes[s] = NL
<1> DEFINE b == SubSeq(bytes, 1, s)
<1>1. b \in Seq(Nat) /\ Len(b) = s /\ \A i \in 1..s : b[i] = bytes[i]
  <2>1. Len(bytes) \in Nat /\ s \in Nat /\ s <= Len(bytes)
    OBVIOUS
  <2> QED BY <2>1
<1> HIDE DEF b
<1>2. b = <<>> \/ b[Len(b)] = NL
  BY DEF Clean, Last, b
<1>3. CASE b = <<>>
  BY <1>1, <1>3
<1>4. CASE b[Len(b)] = NL /\ s # 0
  <2>1. s \in 1..s
    BY <1>4
  <2> QED BY <1>1, <1>4, <2>1
<1> QED BY <1>2, <1>3, <1>4

\* The line whose writing was in two parts.
LEMMA LineFinished ==
    ASSUME Types, PendingInv, FinishWrite,
           Clean(SubSeq(data[writer.file], 1,
                        Len(data[writer.file]) - (kinds[Len(kinds)].width + 1 - Len(rest))))
    PROVE  \E s \in Nat : Whole(data[writer.file] \o rest, s, Len(kinds), kinds)
<1> DEFINE n == Len(kinds)
           bytes == data[writer.file]
           w == kinds[n].width
           part == w + 1 - Len(rest)
           start == Len(bytes) - part
           more == bytes \o rest
<1>1. /\ writer.file # 0 /\ n # 0 /\ part \in 1..Len(bytes) /\ rest # <<>>
      /\ \A j \in (start + 1)..Len(bytes) : bytes[j] = ByteOf(n, j - start, kinds)
      /\ \A i \in 1..Len(rest) : rest[i] = ByteOf(n, part + i, kinds)
  BY DEF FinishWrite, PendingInv
<1>2. rest \in Seq(Nat) /\ Len(rest) \in Nat /\ kinds \in Seq(Kinds) /\ n \in Nat
  BY DEF Types
<1>3. bytes \in Seq(Nat)
  <2>1. writer.file \in 1..Len(data) /\ data \in Seq(Seq(Nat))
    BY <1>1, WriterToday DEF Types
  <2> QED BY <2>1
<1>4. w \in Nat
  <2>1. kinds[n] \in Kinds
    <3> HIDE DEF n
    <3>1. n \in 1..Len(kinds)
      BY <1>1, <1>2 DEF n
    <3> QED BY <1>2, <3>1
  <2> QED BY <2>1, LogConstants
<1>5. Clean(SubSeq(bytes, 1, start))
  OBVIOUS
<1> HIDE DEF n, bytes, w
<1>6. /\ Len(bytes) \in Nat /\ start \in 0..Len(bytes) /\ Len(bytes) = start + part
      /\ part \in Nat /\ w + 1 = part + Len(rest)
  BY <1>1, <1>2, <1>3, <1>4
<1> HIDE DEF part, start
<1>7. /\ more \in Seq(Nat) /\ Len(more) = Len(bytes) + Len(rest)
      /\ \A j \in 1..Len(bytes) : more[j] = bytes[j]
      /\ \A i \in 1..Len(rest) : more[Len(bytes) + i] = rest[i]
  BY <1>2, <1>3, AppendedBytes DEF Continues
<1>8. start = 0 \/ bytes[start] = NL
  BY <1>3, <1>5, <1>6, CleanBefore
<1> HIDE DEF more
<1>9. start = 0 \/ more[start] = NL
  BY <1>6, <1>7, <1>8
<1>10. ASSUME NEW j \in (start + 1)..(start + w + 1) PROVE more[j] = ByteOf(n, j - start, kinds)
  <2>1. CASE j <= Len(bytes)
    <3>1. j \in (start + 1)..Len(bytes) /\ j \in 1..Len(bytes)
      BY <1>4, <1>6, <2>1
    <3> QED BY <1>1, <1>7, <3>1
  <2>2. CASE j > Len(bytes)
    <3> DEFINE i == j - Len(bytes)
    <3>1. i \in 1..Len(rest) /\ j = Len(bytes) + i /\ j - start = part + i
      BY <1>2, <1>4, <1>6, <2>2
    <3> HIDE DEF i
    <3> QED BY <1>1, <1>7, <3>1
  <2>3. j \in Int
    BY <1>4, <1>6
  <2> QED BY <1>6, <2>1, <2>2, <2>3
<1>11. start + w + 1 <= Len(more)
  BY <1>2, <1>4, <1>6, <1>7
<1>12. Whole(more, start, n, kinds)
  BY <1>9, <1>10, <1>11 DEF Whole, w
<1> QED BY <1>6, <1>12 DEF more, bytes, n

\* The line that is written at once.
LEMMA LineWritten ==
    ASSUME NEW bytes \in Seq(Nat), NEW new \in Seq(Nat), NEW n, NEW ks,
           ks[n].width \in Nat, Len(new) = ks[n].width + 1, Clean(bytes),
           \A i \in 1..Len(new) : new[i] = ByteOf(n, i, ks)
    PROVE  \E s \in Nat : Whole(bytes \o new, s, n, ks)
<1> DEFINE s == Len(bytes)
           more == bytes \o new
           w == ks[n].width
<1>1. /\ more \in Seq(Nat) /\ Len(more) = s + Len(new) /\ s \in Nat
      /\ \A j \in 1..s : more[j] = bytes[j]
      /\ \A i \in 1..Len(new) : more[s + i] = new[i]
  <2>1. s \in Nat
    OBVIOUS
  <2>2. Continues(bytes, more)
    BY AppendedBytes
  <2>3. \A j \in 1..s : more[j] = bytes[j]
    BY <2>2 DEF Continues
  <2> QED BY <2>1, <2>3, AppendedBytes
<1>2. w \in Nat /\ Len(new) = w + 1
  OBVIOUS
<1>3. bytes = <<>> \/ bytes[s] = NL
  BY DEF Clean, Last
<1>4. bytes = <<>> => s = 0
  OBVIOUS
<1> HIDE DEF s, more, w
<1>5. s = 0 \/ more[s] = NL
  BY <1>1, <1>3, <1>4
<1>6. ASSUME NEW j \in (s + 1)..(s + w + 1) PROVE more[j] = ByteOf(n, j - s, ks)
  <2> DEFINE i == j - s
  <2>0. s \in Nat /\ w \in Nat
    BY <1>1, <1>2
  <2>1. i \in 1..Len(new) /\ j = s + i
    BY <1>2, <2>0
  <2> HIDE DEF i
  <2>2. more[j] = ByteOf(n, i, ks)
    BY <1>1, <2>1
  <2> QED BY <2>2 DEF i
<1>7. s + w + 1 <= Len(more)
  <2>1. Len(more) = s + (w + 1) /\ s \in Nat /\ w \in Nat
    BY <1>1, <1>2
  <2> QED BY <2>1
<1>8. Whole(more, s, n, ks)
  BY <1>5, <1>6, <1>7 DEF Whole, w
<1> QED BY <1>1, <1>8 DEF more

\* A write breaks no line that is kept, and a line written at once is whole.
LEMMA WriteKeeps ==
    ASSUME Types, OpenInv, KeptInv, NEW l \in Loggers, Write(l)
    PROVE  KeptInv'
<1> DEFINE f == Rotated.file
           files == Rotated.data
           bytes == files[f]
           n == Len(kinds')
<1>1. PICK new \in Seq(Nat) :
         /\ Len(new) + Len(rest') = kinds'[n].width + 1
         /\ \A i \in 1..Len(new) : new[i] = ByteOf(n, i, kinds')
         /\ data' = [files EXCEPT ![f] = @ \o new]
         /\ acked' = IF rest' = <<>> /\ Clean(bytes)
                     THEN acked \union {[line |-> n, date |-> Rotated.date]} ELSE acked
  BY WriteEffect
<1>2. /\ kinds' \in Seq(Kinds) /\ n = Len(kinds) + 1 /\ Len(kinds) \in Nat
      /\ \A i \in 1..Len(kinds) : kinds'[i] = kinds[i]
  BY WriteEffect DEF Types
<1>3. /\ Rotated.date = today /\ files \in Seq(Seq(Nat)) /\ f \in 1..Len(files)
      /\ Len(data) <= Len(files) /\ \A i \in 1..Len(data) : files[i] = data[i]
      /\ Rotated.dir \in [Dates -> 0..Len(files)] /\ Len(files) \in Nat
      /\ \A d \in Dates : dir[d] # 0 => Rotated.dir[d] = dir[d]
      /\ (zone >= 0 => Rotated.dir[today] = f)
  BY RotatedFile DEF OpenInv
<1>4. /\ UNCHANGED <<today, zone>> /\ writer'.days = writer.days
      /\ dir' \in {Rotated.dir, CleanedUp(Rotated.dir)}
  <2>1. writer \in [date : {0} \union Dates, file : 0..Len(data), days : Nat \ {0}, cleaned : Nat]
    BY DEF Types, Writes
  <2> QED BY <2>1 DEF Write
<1>5. /\ data' \in Seq(Seq(Nat)) /\ Len(data') = Len(files) /\ bytes \in Seq(Nat)
      /\ data'[f] = bytes \o new /\ \A i \in 1..Len(files) : i # f => data'[i] = files[i]
  <2>1. bytes \in Seq(Nat)
    BY <1>3
  <2>2. data' = [files EXCEPT ![f] = @ \o new] /\ files \in Seq(Seq(Nat)) /\ f \in 1..Len(files)
    BY <1>1, <1>3
  <2> HIDE DEF f, files
  <2> QED BY <2>1, <2>2, FileWritten
<1> HIDE DEF f, files, bytes, n
<1>6. ASSUME NEW i \in 1..Len(data) PROVE Continues(data[i], data'[i])
  <2>1. data[i] \in Seq(Nat) /\ i \in 1..Len(files)
    BY <1>3 DEF Types
  <2>2. CASE i = f
    <3>1. data[i] = bytes
      BY <1>3, <2>2 DEF bytes
    <3>2. Continues(bytes, bytes \o new)
      BY <1>5, AppendedBytes
    <3> QED BY <1>5, <2>2, <3>1, <3>2
  <2>3. CASE i # f
    <3>1. data'[i] = data[i]
      BY <1>3, <1>5, <2>1, <2>3
    <3> QED BY <2>1, <3>1 DEF Continues
  <2> QED BY <2>2, <2>3
<1>7. ASSUME zone >= 0, NEW d \in Dates, d > today - writer.days PROVE dir'[d] = Rotated.dir[d]
  <2>1. CleanedUp(Rotated.dir)[d] = Rotated.dir[d]
    BY <1>3, <1>7, CleanUp
  <2> QED BY <1>4, <2>1
<1>8. ASSUME NEW a \in acked PROVE a.date > today - writer.days /\ (zone >= 0 => Has(a)')
  <2>1. a \in [line : 1..Len(kinds), date : Dates]
    BY DEF Types
  <2>2. a.date > today - writer.days /\ (zone >= 0 => Has(a))
    BY DEF KeptInv
  <2>3. ASSUME zone >= 0 PROVE Has(a)'
    <3>1. Has(a) /\ dir[a.date] # 0
      BY <2>2, <2>3 DEF Has
    <3>2. dir'[a.date] = dir[a.date]
      BY <1>3, <1>7, <2>1, <2>2, <2>3, <3>1
    <3>3. kinds'[a.line] = kinds[a.line]
      BY <1>2, <2>1
    <3>4. Len(data) <= Len(data')
      BY <1>3, <1>5
    <3> QED BY <1>5, <1>6, <3>1, <3>2, <3>3, <3>4, KeptAppended
  <2> QED BY <2>2, <2>3
<1>b. PICK b : b = [line |-> n, date |-> Rotated.date]
  OBVIOUS
<1>9. ASSUME rest' = <<>>, Clean(bytes) PROVE b.date > today - writer.days /\ (zone >= 0 => Has(b)')
  <2>1. b.date = today /\ b.line = n /\ today > today - writer.days /\ today \in Dates
    BY <1>3, <1>b, WriterToday
  <2>2. ASSUME zone >= 0 PROVE Has(b)'
    <3>1. dir'[today] = f /\ f # 0
      BY <1>3, <1>7, <2>1, <2>2
    <3>2. Len(new) = kinds'[n].width + 1 /\ kinds'[n].width \in Nat
      <4>1. n \in 1..Len(kinds')
        BY <1>2 DEF n
      <4>2. kinds'[n].width \in Nat
        BY <1>2, <4>1, LogConstants
      <4> QED BY <1>1, <1>9, <4>2
    <3>3. \E s \in Nat : Whole(bytes \o new, s, n, kinds')
      BY <1>1, <1>5, <1>9, <3>2, LineWritten
    <3>4. n = Len(kinds') /\ b.date = today /\ b.line = n
      BY <2>1 DEF n
    <3>5. \E s \in Nat : Whole(data'[f], s, n, kinds')
      BY <1>5, <3>3
    <3> QED BY <3>1, <3>4, <3>5 DEF Has
  <2> QED BY <2>1, <2>2
<1>10. \A a \in acked' : a \in acked \/ (a = b /\ rest' = <<>> /\ Clean(bytes))
  BY <1>1, <1>b
<1>11. ASSUME NEW a \in acked' PROVE a.date > today' - writer'.days /\ (zone' >= 0 => Has(a)')
  <2>1. a.date > today - writer.days /\ (zone >= 0 => Has(a)')
    BY <1>8, <1>9, <1>10
  <2> QED BY <1>4, <2>1
<1> QED BY <1>11 DEF KeptInv

\* The second part of a write breaks no line, and makes its own whole.
LEMMA FinishKeeps ==
    ASSUME Types, PendingInv, OpenInv, KeptInv, FinishWrite
    PROVE  KeptInv'
<1> DEFINE f == writer.file
           n == Len(kinds)
           before == Len(data[f]) - (kinds[n].width + 1 - Len(rest))
<1>b. PICK b : b = [line |-> n, date |-> writer.date]
  OBVIOUS
<1>1. /\ rest # <<>> /\ data' = [data EXCEPT ![f] = @ \o rest]
      /\ UNCHANGED <<today, zone, dir, kinds, writer>>
      /\ acked' = IF Clean(SubSeq(data[f], 1, before))
                  THEN StillKept(acked \union {b}, today, writer.days) ELSE acked
  BY <1>b DEF FinishWrite
<1>2. f \in 1..Len(data) /\ data \in Seq(Seq(Nat)) /\ rest \in Seq(Nat) /\ Len(data) \in Nat
  <2>1. f # 0
    BY <1>1 DEF PendingInv
  <2> QED BY <2>1, WriterToday DEF Types
<1>3. /\ data' \in Seq(Seq(Nat)) /\ Len(data') = Len(data) /\ data[f] \in Seq(Nat)
      /\ data'[f] = data[f] \o rest /\ \A i \in 1..Len(data) : i # f => data'[i] = data[i]
  <2>1. data[f] \in Seq(Nat)
    BY <1>2
  <2>2. data' = [data EXCEPT ![f] = @ \o rest]
    BY <1>1
  <2> HIDE DEF f
  <2> QED BY <1>2, <2>1, <2>2, FileWritten
<1>4. ASSUME NEW i \in 1..Len(data) PROVE Continues(data[i], data'[i])
  <2>1. data[i] \in Seq(Nat)
    BY <1>2
  <2>2. CASE i = f
    BY <1>2, <1>3, <2>2, AppendedBytes
  <2>3. CASE i # f
    BY <1>3, <2>1, <2>3 DEF Continues
  <2> QED BY <2>2, <2>3
<1>5. ASSUME NEW a \in acked PROVE a.date > today - writer.days /\ (zone >= 0 => Has(a)')
  <2>1. a.date > today - writer.days /\ (zone >= 0 => Has(a))
    BY DEF KeptInv
  <2>2. Len(data) <= Len(data') /\ kinds'[a.line] = kinds[a.line] /\ dir'[a.date] = dir[a.date]
    BY <1>1, <1>2, <1>3
  <2> QED BY <1>3, <1>4, <2>1, <2>2, KeptAppended
<1>6. ASSUME zone >= 0, Clean(SubSeq(data[f], 1, before)) PROVE Has(b)'
  <2>1. b.line = n /\ b.date = writer.date /\ dir'[writer.date] = f /\ f # 0
    BY <1>1, <1>2, <1>6, <1>b DEF OpenInv
  <2>2. \E s \in Nat : Whole(data[f] \o rest, s, n, kinds)
    BY <1>6, LineFinished
  <2> HIDE DEF f, n
  <2>3. \E s \in Nat : Whole(data'[f], s, n, kinds)
    BY <1>3, <2>2
  <2>4. \E s \in Nat : Whole(data'[f], s, n, kinds')
    BY <1>1, <2>3 DEF Whole, ByteOf
  <2> QED BY <2>1, <2>4 DEF Has
<1> HIDE DEF before, f, n
<1>7. CASE Clean(SubSeq(data[f], 1, before))
  <2>1. \A a \in acked' : a \in acked \union {b} /\ a.date > today - writer.days
    BY <1>1, <1>7 DEF StillKept
  <2>2. ASSUME NEW a \in acked' PROVE a.date > today' - writer'.days /\ (zone' >= 0 => Has(a)')
    <3>1. a.date > today - writer.days
      BY <2>1
    <3>2. zone >= 0 => Has(a)'
      BY <1>5, <1>6, <1>7, <2>1
    <3> QED BY <1>1, <3>1, <3>2
  <2> QED BY <2>2 DEF KeptInv
<1>8. CASE ~Clean(SubSeq(data[f], 1, before))
  <2>1. ASSUME NEW a \in acked' PROVE a.date > today' - writer'.days /\ (zone' >= 0 => Has(a)')
    BY <1>1, <1>5, <1>8
  <2> QED BY <2>1 DEF KeptInv
<1> QED BY <1>7, <1>8

\* Every step keeps the lines: of a date that is kept no file is removed.
LEMMA KeptStep ==
    ASSUME Types, PendingInv, OpenInv, KeptInv, [Next]_vars
    PROVE  KeptInv'
<1>0. Types /\ PendingInv /\ OpenInv /\ KeptInv
  OBVIOUS
<1>a. ASSUME NEW a \in acked PROVE /\ a.date \in Dates /\ a.date > today - writer.days
                                   /\ zone >= 0 => ~Expired(a.date)
  <2>1. a.date \in Dates
    BY <1>0 DEF Types
  <2>2. a.date > today - writer.days
    BY <1>0 DEF KeptInv
  <2> QED BY <1>0, <2>1, <2>2, Expiry
<1>1. ASSUME NEW l \in Loggers, Log(l) PROVE KeptInv'
  BY <1>0, <1>1, <1>a, KeptAlone DEF Log, logs
<1>2. ASSUME NEW l \in Loggers, Write(l) PROVE KeptInv'
  BY <1>0, <1>2, WriteKeeps
<1>3. ASSUME NEW l \in Loggers, WriteFails(l) PROVE KeptInv'
  <2>1. UNCHANGED <<today, zone, kinds, acked>> /\ writer'.days = writer.days
    <3>1. writer \in [date : {0} \union Dates, file : 0..Len(data), days : Nat \ {0}, cleaned : Nat]
      BY <1>0 DEF Types, Writes
    <3> QED BY <1>3, <3>1 DEF WriteFails
  <2>2. CASE UNCHANGED <<data, dir>>
    BY <1>0, <1>a, <2>1, <2>2, KeptAlone
  <2>3. CASE /\ data' = Rotated.data
             /\ \E gone \in SUBSET {d \in Dates : Expired(d)} :
                   dir' = [d \in Dates |-> IF d \in gone THEN 0 ELSE Rotated.dir[d]]
    <3>1. /\ data' \in Seq(Seq(Nat)) /\ Len(data) <= Len(data')
          /\ \A f \in 1..Len(data) : data'[f] = data[f]
          /\ \A d \in Dates : dir[d] # 0 => Rotated.dir[d] = dir[d]
      BY <1>0, <2>3, RotatedFile
    <3>2. \A f \in 1..Len(data) : Continues(data[f], data'[f])
      <4>1. \A f \in 1..Len(data) : data[f] \in Seq(Nat)
        BY <1>0 DEF Types
      <4> QED BY <3>1, <4>1 DEF Continues
    <3>3. ASSUME NEW a \in acked, zone >= 0 PROVE Has(a)'
      <4>1. Has(a) /\ dir[a.date] # 0
        BY <1>0, <3>3 DEF KeptInv, Has
      <4>2. dir'[a.date] = dir[a.date]
        BY <1>a, <2>3, <3>1, <3>3, <4>1
      <4>3. kinds'[a.line] = kinds[a.line]
        BY <2>1
      <4> QED BY <1>0, <3>1, <3>2, <4>1, <4>2, <4>3, KeptAppended
    <3>4. ASSUME NEW a \in acked' PROVE a.date > today' - writer'.days /\ (zone' >= 0 => Has(a)')
      BY <1>a, <2>1, <3>3
    <3> QED BY <3>4 DEF KeptInv
  <2> QED BY <1>3, <2>2, <2>3 DEF WriteFails
<1>4. CASE FinishWrite
  BY <1>0, <1>4, FinishKeeps
<1>5. CASE WriteCutShort \/ SetLoggingConfig
  BY <1>0, <1>5, <1>a, KeptAlone DEF WriteCutShort, SetLoggingConfig, logs
<1>6. ASSUME NEW d \in AskedDates, DeleteDate(d) PROVE KeptInv'
  <2>1. /\ UNCHANGED <<today, zone, data, kinds>> /\ acked' = {a \in acked : a.date # d}
        /\ dir' \in {dir, [dir EXCEPT ![d] = 0]} /\ writer'.days = writer.days
    <3>1. writer \in [date : {0} \union Dates, file : 0..Len(data), days : Nat \ {0}, cleaned : Nat]
      BY <1>0 DEF Types, Writes
    <3> QED BY <1>6, <3>1 DEF DeleteDate
  <2>2. \A x \in Dates : x # d => dir'[x] = dir[x]
    BY <1>0, <2>1 DEF Types
  <2> QED BY <1>0, <1>a, <2>1, <2>2, KeptAlone
<1>7. CASE UpdateConfig
  <2>1. UNCHANGED <<today, zone, data, dir, kinds>> /\ acked' = StillKept(acked, today, writer'.days)
    BY <1>7 DEF UpdateConfig, logs
  <2> QED BY <1>0, <2>1, KeptAlone DEF StillKept
<1>8. CASE Cleanup
  <2>1. UNCHANGED <<today, zone, data, kinds, writer, acked>>
    BY <1>8 DEF Cleanup
  <2>2. ASSUME zone >= 0, NEW a \in acked PROVE dir'[a.date] = dir[a.date]
    BY <1>8, <1>a, <2>2 DEF Cleanup, CleanedUp
  <2> QED BY <1>0, <1>a, <2>1, <2>2, KeptAlone
<1>9. CASE NextDay
  <2>1. UNCHANGED <<zone, data, dir, kinds, writer>> /\ acked' = StillKept(acked, today', writer.days)
    BY <1>9 DEF NextDay, logs
  <2> QED BY <1>0, <2>1, KeptAlone DEF StillKept
<1>10. CASE Restart
  <2>1. UNCHANGED <<today, zone, data, dir, kinds>> /\ acked' = StillKept(acked, today, writer'.days)
    BY <1>10 DEF Restart, logs
  <2> QED BY <1>0, <2>1, KeptAlone DEF StillKept
<1>11. CASE UNCHANGED vars \/ \E c \in Clients : OpenCursor(c) \/ OpenPage(c) \/ ReaderStep(c)
  BY <1>0, <1>11, <1>a, QueriesStandAside, KeptAlone DEF Aside
<1> QED BY <1>1, <1>2, <1>3, <1>4, <1>5, <1>6, <1>7, <1>8, <1>9, <1>10, <1>11 DEF Next, WriterStep

-----------------------------------------------------------------------------

\* The log starts empty.
LEMMA LogInit == Init => LogInv /\ OldFilesGo
<1> SUFFICES ASSUME Init PROVE LogInv /\ OldFilesGo
  OBVIOUS
<1>1. PICK cfg \in AcceptedConfigs : /\ config = [running |-> cfg, saved |-> cfg]
                                     /\ writer = NewWriter(cfg.maxDays)
                                     /\ setter = [todo |-> "nothing", cfg |-> cfg]
  BY DEF Init
<1>2. today = 1 /\ today \in Dates /\ data = <<>> /\ Len(data) = 0 /\ data \in Seq(Seq(Nat))
  BY GatewayLogAssumption DEF Init, Dates
<1>3. Writes(writer, today, Len(data)) /\ writer.file = 0 /\ writer.cleaned = 0
  BY <1>1, <1>2, WriterStarts
<1>4. /\ kinds \in Seq(Kinds) /\ dir \in [Dates -> 0..Len(data)] /\ rest \in Seq(Nat) /\ rest = <<>>
      /\ logger \in [Loggers -> Entries] /\ acked = {} /\ faults \in Nat /\ zone \in Zones /\ bound \in Bounds
  BY <1>2 DEF Init, Entries
<1>5. Types
  BY <1>1, <1>2, <1>3, <1>4 DEF Types
<1>6. PendingInv /\ OpenInv /\ KeptInv /\ OldFilesGo
  BY <1>2, <1>3, <1>4 DEF PendingInv, OpenInv, KeptInv, OldFilesGo
<1> QED BY <1>5, <1>6 DEF LogInv

\* Every step keeps the invariant.
LEMMA LogStep == LogInv /\ [Next]_vars => LogInv'
BY TypesStep, PendingStep, OpenStep, KeptStep DEF LogInv

\* The inductive invariant of the files.
THEOREM LogInvariant == Spec => []LogInv
<1>1. Init => LogInv
  BY LogInit
<1> QED BY <1>1, LogStep, PTL DEF Spec

\* OldFilesGo: once a line was written today, cleanupOldFilesLocked has left no
\* file older than the days kept, whatever number of days SetLoggingConfig set
\* in between and whatever dates were deleted (file_writer.go).
THEOREM OldFilesAreRemoved == Spec => []OldFilesGo
<1>1. Init => OldFilesGo
  BY LogInit
<1>2. LogInv /\ OldFilesGo /\ [Next]_vars => OldFilesGo'
  BY OldFilesStep DEF LogInv
<1> QED BY <1>1, <1>2, LogInvariant, PTL DEF Spec

\* LinesKept: a line written whole can be read in the file of its date for as
\* long as the date is kept: no rotation, clean-up, restart or torn write of
\* another line takes it or breaks it (file_writer.go).
THEOREM WholeLinesAreKept == Spec => []LinesKept
<1>1. LogInv => LinesKept
  <2> SUFFICES ASSUME LogInv, zone >= 0, NEW a \in acked
               PROVE  /\ dir[a.date] # 0
                      /\ \E s \in Starts(data[dir[a.date]]) :
                            LineAt(data[dir[a.date]], s) = LineOf(a.line, kinds)
    BY DEF LinesKept
  <2>1. Types /\ Has(a)
    BY DEF LogInv, KeptInv
  <2> DEFINE f == dir[a.date]
  <2>2. a.line \in 1..Len(kinds) /\ kinds \in Seq(Kinds) /\ f \in 0..Len(data) /\ data \in Seq(Seq(Nat))
    BY <2>1 DEF Types
  <2>3. f # 0
    BY <2>1 DEF Has
  <2> PICK s \in Nat : Whole(data[f], s, a.line, kinds)
    BY <2>1 DEF Has
  <2>4. data[f] \in Seq(Nat)
    <3> HIDE DEF f
    <3>1. f \in 1..Len(data)
      BY <2>2, <2>3
    <3> QED BY <2>2, <3>1
  <2>5. s \in Starts(data[f]) /\ LineAt(data[f], s) = LineOf(a.line, kinds)
    <3> HIDE DEF f
    <3> QED BY <2>2, <2>4, WholeIsRead
  <2> QED BY <2>3, <2>5
<1> QED BY <1>1, LogInvariant, PTL


-----------------------------------------------------------------------------
(* Offsets, newest first *)

\* Every set of numbers that is not empty has a least one.
LEMMA LeastNumber ==
    ASSUME NEW T, T \subseteq Nat, T # {}
    PROVE  \E x \in T : \A y \in T : x <= y
<1> DEFINE R == OpToRel(<, Nat)
<1>1. \A x, y \in Nat : y < x => <<y, x>> \in R
  BY DEF OpToRel
<1>2. IsWellFoundedOn(R, Nat)
  BY NatLessThanWellFounded
<1> HIDE DEF R
<1>3. \E x \in T : \A y \in T : ~(<<y, x>> \in R)
  BY <1>2, WFMin, Zenon
<1>4. PICK x \in T : \A y \in T : ~(<<y, x>> \in R)
  BY <1>3
<1>5. \A y \in T : ~(y < x)
  BY <1>1, <1>4
<1>6. \A y \in T : x <= y
  BY <1>5
<1>7. QED
  BY <1>6

Descending(W) == \A i, j \in 1..Len(W) : i < j => W[j] < W[i]
Members(W) == {W[i] : i \in 1..Len(W)}

\* How many of a set there are from s on.
From(S, s) == {x \in S : s <= x}

LEMMA FromFacts ==
    ASSUME NEW S \in SUBSET Nat, IsFiniteSet(S)
    PROVE  /\ \A s \in S : Cardinality(From(S, s)) \in 1..Cardinality(S)
           /\ \A s, t \in S : s < t => Cardinality(From(S, t)) < Cardinality(From(S, s))
           /\ S # {} => \E s \in S : Cardinality(From(S, s)) = Cardinality(S)
           /\ \A s \in S : Cardinality(From(S, s)) # 1 =>
                 \E t \in S : Cardinality(From(S, s)) = Cardinality(From(S, t)) + 1
<1>0. \A s \in S : s \in Nat
  OBVIOUS
<1>1. \A s \in S : From(S, s) \subseteq S /\ IsFiniteSet(From(S, s)) /\ s \in From(S, s)
  <2> TAKE s \in S
  <2>1. From(S, s) \subseteq S /\ s \in From(S, s)
    BY <1>0 DEF From
  <2>2. QED
    BY <2>1, FS_Subset
<1>2. Cardinality(S) \in Nat /\ \A s \in S : Cardinality(From(S, s)) \in Nat
  BY <1>1, FS_CardinalityType
<1>3. \A s \in S : Cardinality(From(S, s)) \in 1..Cardinality(S)
  <2> TAKE s \in S
  <2>1. Cardinality(From(S, s)) <= Cardinality(S)
    BY <1>1, FS_Subset
  <2>2. Cardinality(From(S, s)) # 0
    BY <1>1, FS_EmptySet
  <2>3. QED
    BY <1>2, <2>1, <2>2
<1>4. ASSUME NEW s \in S, NEW t \in S, s < t
      PROVE  Cardinality(From(S, t)) < Cardinality(From(S, s))
  <2>1. From(S, t) \subseteq From(S, s)
    <3> SUFFICES ASSUME NEW x \in S, t <= x PROVE s <= x
      BY DEF From
    <3>1. s \in Nat /\ t \in Nat /\ x \in Nat
      BY <1>0
    <3>2. QED
      BY <1>4, <3>1
  <2>2. s \notin From(S, t)
    BY <1>0, <1>4 DEF From
  <2>3. From(S, t) # From(S, s)
    BY <1>1, <2>2
  <2>4. Cardinality(From(S, t)) <= Cardinality(From(S, s))
        /\ (Cardinality(From(S, t)) = Cardinality(From(S, s)) => From(S, t) = From(S, s))
    BY <1>1, <2>1, FS_Subset
  <2>5. QED
    BY <1>2, <2>3, <2>4
<1>5. ASSUME S # {} PROVE \E s \in S : Cardinality(From(S, s)) = Cardinality(S)
  <2>1. PICK s \in S : \A y \in S : s <= y
    BY <1>5, LeastNumber
  <2>2. From(S, s) = S
    BY <2>1 DEF From
  <2>3. QED
    BY <2>2
<1>6. ASSUME NEW s \in S, Cardinality(From(S, s)) # 1
      PROVE  \E t \in S : Cardinality(From(S, s)) = Cardinality(From(S, t)) + 1
  <2> DEFINE Rest == {x \in S : s < x}
  <2>1. Rest # {}
    <3> SUFFICES ASSUME Rest = {} PROVE FALSE
      OBVIOUS
    <3>0. \A x \in S : s <= x <=> x = s
      <4> TAKE x \in S
      <4>1. x \in Nat /\ s \in Nat /\ ~(s < x)
        BY <1>0
      <4>2. QED
        BY <4>1
    <3>1. From(S, s) = {s}
      BY <3>0 DEF From
    <3>2. QED
      BY <1>6, <3>1, FS_Singleton
  <2>2. PICK t \in Rest : \A y \in Rest : t <= y
    BY <2>1, LeastNumber
  <2>3. From(S, s) = From(S, t) \union {s} /\ s \notin From(S, t)
    <3>1. \A x \in S : s <= x <=> t <= x \/ x = s
      <4> TAKE x \in S
      <4>1. x \in Nat /\ s \in Nat /\ t \in Nat /\ s < t /\ (s < x => t <= x)
        BY <1>0, <2>2
      <4>2. QED
        BY <4>1
    <3>2. s \in Nat /\ t \in Nat /\ s < t
      BY <1>0, <2>2
    <3>3. s \in From(S, s) /\ s \notin From(S, t)
      BY <1>1, <3>2 DEF From
    <3>4. QED
      BY <3>1, <3>3 DEF From
  <2>4. Cardinality(From(S, s)) = Cardinality(From(S, t)) + 1
    BY <1>1, <2>2, <2>3, FS_AddElement
  <2>5. QED
    BY <2>2, <2>4
<1>7. QED
  BY <1>3, <1>4, <1>5, <1>6

\* The offsets of a set, newest first, are in descending order, and all.
LEMMA NewestFirstFacts ==
    ASSUME NEW S \in SUBSET Nat, IsFiniteSet(S)
    PROVE  NewestFirst[S] \in Seq(Nat) /\ Descending(NewestFirst[S]) /\ Members(NewestFirst[S]) = S
<1> DEFINE N == Cardinality(S)
           rank == [s \in S |-> Cardinality(From(S, s))]
           W == NewestFirst[S]
<1>0. \A s \in S : s \in Nat
  OBVIOUS
<1>1. N \in Nat /\ \A s \in S : rank[s] \in 1..N
  BY FromFacts, FS_CardinalityType
<1>2. \A s, t \in S : s < t => rank[t] < rank[s]
  BY FromFacts
<1>3. S # {} => \E s \in S : rank[s] = N
  BY FromFacts
<1>4. \A s \in S : rank[s] # 1 => \E t \in S : rank[s] = rank[t] + 1
  BY FromFacts
<1>5. W = [i \in 1..N |-> CHOOSE s \in S : rank[s] = i]
  <2>1. W = [i \in 1..N |-> CHOOSE s \in S : Cardinality(From(S, s)) = i]
    BY DEF NewestFirst, From
  <2>2. ASSUME NEW i
        PROVE (CHOOSE s \in S : Cardinality(From(S, s)) = i) = CHOOSE s \in S : rank[s] = i
    OBVIOUS
  <2>3. QED
    BY <2>1, <2>2
<1> HIDE DEF N, rank, W
<1>6. \A i \in 1..N : \E s \in S : rank[s] = i
  <2> TAKE i \in 1..N
  <2> DEFINE R == {rank[s] : s \in {s \in S : i <= rank[s]}}
  <2>1. S # {}
    <3> SUFFICES ASSUME S = {} PROVE FALSE
      OBVIOUS
    <3>1. N = 0
      BY FS_EmptySet DEF N
    <3>2. QED
      BY <3>1
  <2>2. R # {} /\ R \subseteq Nat
    BY <1>1, <1>3, <2>1
  <2>3. PICK r \in R : \A y \in R : r <= y
    <3> HIDE DEF R
    <3>1. QED
      BY <2>2, LeastNumber
  <2>4. PICK s \in S : i <= rank[s] /\ r = rank[s]
    BY <2>3
  <2>5. CASE rank[s] = i
    BY <2>5
  <2>6. CASE rank[s] # i
    <3>1. rank[s] # 1
      BY <1>1, <2>4, <2>6
    <3>2. PICK t \in S : rank[s] = rank[t] + 1
      BY <1>4, <3>1
    <3>3. i <= rank[t] /\ rank[t] < r
      BY <1>1, <2>4, <2>6, <3>2
    <3>4. rank[t] \in R
      BY <3>3
    <3>5. QED
      BY <1>1, <2>3, <2>4, <3>3, <3>4
  <2>7. QED
    BY <2>5, <2>6
<1>7. \A i \in 1..N : W[i] \in S /\ rank[W[i]] = i
  BY <1>5, <1>6
<1>8. W \in Seq(Nat) /\ Len(W) = N
  <2>1. W \in [1..N -> Nat]
    BY <1>0, <1>5, <1>7, Zenon
  <2>2. QED
    BY <1>1, <2>1
<1>9. Descending(W)
  <2> SUFFICES ASSUME NEW i \in 1..N, NEW j \in 1..N, i < j PROVE W[j] < W[i]
    BY <1>8 DEF Descending
  <2>1. W[i] \in Nat /\ W[j] \in Nat
    BY <1>7
  <2>2. CASE W[i] < W[j]
    <3>1. rank[W[j]] < rank[W[i]]
      BY <1>2, <1>7, <2>2
    <3>2. QED
      BY <1>7, <3>1
  <2>3. CASE W[i] = W[j]
    <3>1. rank[W[i]] = rank[W[j]]
      BY <2>3
    <3>2. QED
      BY <1>7, <3>1
  <2>4. QED
    BY <2>1, <2>2, <2>3
<1>10. Members(W) = S
  <2>1. ASSUME NEW s \in S PROVE s \in Members(W)
    <3>1. PICK k \in 1..N : k = rank[s]
      BY <1>1
    <3>2. PICK w \in S : w = W[k] /\ rank[w] = rank[s]
      BY <1>7, <3>1
    <3>3. rank[s] \in Nat /\ s \in Nat /\ w \in Nat
      BY <1>0, <3>1
    <3>4. s = w
      BY <1>2, <3>2, <3>3
    <3>5. W[k] = s
      BY <3>2, <3>4
    <3>6. QED
      BY <1>8, <3>1, <3>5 DEF Members
  <2>2. QED
    BY <1>7, <1>8, <2>1 DEF Members
<1>11. QED
  BY <1>8, <1>9, <1>10 DEF W

\* The first n of a sequence, and no others, are above a bound.
Above(W, n, at) == \A i \in 1..Len(W) : i <= n <=> at < W[i]

\* The members of a sequence are those of another between two bounds.
Between(F, W, lo, hi) == Members(F) = {s \in Members(W) : lo < s /\ s <= hi}

\* Of a descending sequence, what is at most hi and more than lo, in order, is
\* where it is in the sequence, one behind the other.
LEMMA Slice ==
    ASSUME NEW W \in Seq(Nat), Descending(W), NEW F \in Seq(Nat), Descending(F),
           NEW n \in 0..Len(W), NEW lo \in Int, NEW hi \in Int,
           Above(W, n, hi),
           Between(F, W, lo, hi)
    PROVE  /\ n + Len(F) <= Len(W) /\ \A k \in 1..Len(F) : F[k] = W[n + k]
           /\ lo <= hi => Above(W, n + Len(F), lo)
<1> DEFINE L == Len(W)
           M == Len(F)
<1>1. /\ L \in Nat /\ M \in Nat /\ n \in Nat
      /\ (\A i \in 1..L : W[i] \in Nat) /\ \A k \in 1..M : F[k] \in Nat
  OBVIOUS
<1>2. /\ \A k \in 1..M : \E i \in 1..L : F[k] = W[i] /\ lo < F[k] /\ F[k] <= hi
      /\ \A i \in 1..L : lo < W[i] /\ W[i] <= hi => \E k \in 1..M : F[k] = W[i]
  BY DEF Between, Members
<1>3. \A i, j \in 1..L : i < j => W[j] < W[i]
  BY DEF Descending
<1>4. \A i, j \in 1..M : i < j => F[j] < F[i]
  BY DEF Descending
<1>5. \A i \in 1..L : i <= n <=> hi < W[i]
  BY DEF Above
<1> HIDE DEF L, M
<1>6. ASSUME NEW k \in 1..M, \A j \in 1..M : j < k => n + j \in 1..L /\ F[j] = W[n + j]
      PROVE  n + k \in 1..L /\ F[k] = W[n + k]
  <2>0. k \in Nat /\ k >= 1 /\ F[k] \in Nat /\ ~(n + k <= n)
    BY <1>1
  <2>1. PICK m \in 1..L : F[k] = W[m] /\ lo < F[k] /\ F[k] <= hi
    BY <1>2
  <2>2. n < m
    BY <1>1, <1>5, <2>1
  <2>3. n + k <= m
    <3> SUFFICES ASSUME ~(n + k <= m) PROVE FALSE
      OBVIOUS
    <3>1. m - n \in 1..M /\ m - n < k /\ n + (m - n) = m
      BY <1>1, <2>2
    <3>2. F[m - n] = W[m] /\ F[k] < F[m - n]
      BY <1>4, <1>6, <3>1
    <3>3. QED
      BY <1>1, <2>1, <3>2
  <2>4. n + k \in 1..L
    BY <1>1, <2>3
  <2>5. W[m] <= W[n + k]
    <3>1. CASE n + k = m
      <4>1. W[m] \in Nat /\ W[m] = W[n + k]
        BY <1>1, <3>1
      <4>2. QED
        BY <4>1
    <3>2. CASE n + k # m
      BY <1>1, <1>3, <2>3, <2>4, <3>2
    <3>3. QED
      BY <3>1, <3>2
  <2>6. lo < W[n + k] /\ W[n + k] <= hi
    <3>1. PICK i \in 1..L : i = n + k
      BY <2>4
    <3>w. W[i] \in Nat /\ W[m] \in Nat
      BY <1>1
    <3>2. ~(i <= n)
      BY <2>0, <3>1
    <3>3. ~(hi < W[i])
      BY <1>5, <3>2
    <3>4. lo < W[i]
      BY <2>1, <2>5, <3>1, <3>w
    <3>5. QED
      BY <3>1, <3>w, <3>3, <3>4
  <2>7. PICK j \in 1..M : F[j] = W[n + k]
    BY <1>2, <2>4, <2>6
  <2>8. ~(j < k)
    <3> SUFFICES ASSUME j < k PROVE FALSE
      OBVIOUS
    <3>1. n + j \in 1..L /\ F[j] = W[n + j] /\ n + j < n + k
      BY <1>1, <1>6
    <3>2. W[n + k] < W[n + j]
      BY <1>3, <2>4, <3>1
    <3>3. QED
      BY <1>1, <2>7, <3>1, <3>2
  <2>9. F[j] <= F[k]
    <3>1. CASE j = k
      BY <2>0, <3>1
    <3>2. CASE j # k
      <4>1. k < j
        BY <2>0, <2>8, <3>2
      <4>2. F[j] < F[k] /\ F[j] \in Nat
        BY <1>1, <1>4, <4>1
      <4>3. QED
        BY <2>0, <4>2
    <3>3. QED
      BY <3>1, <3>2
  <2>10. W[m] = W[n + k]
    <3>1. W[m] \in Nat /\ W[n + k] \in Nat
      BY <1>1, <2>4
    <3>2. F[j] = W[n + k] /\ F[k] = W[m]
      BY <2>1, <2>7
    <3>3. QED
      BY <2>5, <2>9, <3>1, <3>2
  <2>11. QED
    BY <2>1, <2>4, <2>10
<1>7. \A k \in 1..M : n + k \in 1..L /\ F[k] = W[n + k]
  <2> DEFINE Bad == {k \in 1..M : ~(n + k \in 1..L /\ F[k] = W[n + k])}
  <2> SUFFICES ASSUME Bad # {} PROVE FALSE
    OBVIOUS
  <2>1. Bad \subseteq Nat
    OBVIOUS
  <2>2. PICK k \in Bad : \A y \in Bad : k <= y
    <3> HIDE DEF Bad
    <3>1. QED
      BY <2>1, LeastNumber
  <2>3. \A j \in 1..M : j < k => n + j \in 1..L /\ F[j] = W[n + j]
    BY <2>2
  <2>4. QED
    BY <1>6, <2>2, <2>3
<1>8. n + M <= L
  <2>1. CASE M = 0
    BY <1>1, <2>1 DEF L
  <2>2. CASE M # 0
    <3>1. M \in 1..M
      BY <1>1, <2>2
    <3>2. n + M \in 1..L
      BY <1>7, <3>1
    <3>3. QED
      BY <3>2
  <2>3. QED
    BY <2>1, <2>2
<1>9. ASSUME lo <= hi, NEW i \in 1..L PROVE i <= n + M <=> lo < W[i]
  <2>1. CASE i <= n
    BY <1>1, <1>5, <1>9, <2>1
  <2>2. CASE n < i /\ i <= n + M
    <3>1. i - n \in 1..M /\ n + (i - n) = i
      BY <1>1, <2>2
    <3>2. F[i - n] = W[i]
      BY <1>7, <3>1
    <3>3. QED
      BY <1>2, <2>2, <3>1, <3>2
  <2>3. CASE n + M < i
    <3> SUFFICES ASSUME lo < W[i] PROVE FALSE
      BY <1>1, <2>3
    <3>1. W[i] <= hi
      BY <1>1, <1>5, <2>3
    <3>2. PICK k \in 1..M : F[k] = W[i]
      BY <1>2, <3>1
    <3>3. n + k \in 1..L /\ n + k < i /\ W[n + k] = W[i]
      BY <1>1, <1>7, <2>3, <3>2
    <3>4. W[i] < W[n + k]
      BY <1>3, <3>3
    <3>5. QED
      BY <1>1, <3>3, <3>4
  <2>4. QED
    BY <1>1, <2>1, <2>2, <2>3
<1>10. QED
  BY <1>7, <1>8, <1>9 DEF Above, L, M

-----------------------------------------------------------------------------
(* Lines *)

\* Where the line that begins at s ends.
LineEnd(b, s, e) ==
    /\ e \in s..Len(b) /\ (e = Len(b) \/ b[e + 1] = NL)
    /\ \A j \in (s + 1)..e : b[j] # NL

LEMMA LineEnds ==
    ASSUME NEW b \in Seq(Nat), NEW s \in 0..Len(b)
    PROVE  \E e \in Nat : LineEnd(b, s, e)
<1> DEFINE L == Len(b)
           ends == {e \in s..L : e = L \/ b[e + 1] = NL}
<1>1. L \in Nat /\ s \in Nat /\ s <= L
  OBVIOUS
<1> HIDE DEF L
<1>2. L \in ends /\ ends \subseteq Nat
  BY <1>1
<1> HIDE DEF ends
<1>3. PICK e \in ends : \A x \in ends : e <= x
  BY <1>2, LeastNumber
<1>4. e \in s..L /\ (e = L \/ b[e + 1] = NL) /\ e \in Nat
  BY <1>2, <1>3 DEF ends
<1>5. \A j \in (s + 1)..e : b[j] # NL
  <2> SUFFICES ASSUME NEW j \in (s + 1)..e, b[j] = NL PROVE FALSE
    OBVIOUS
  <2>1. j - 1 \in s..L /\ (j - 1) + 1 = j /\ ~(e <= j - 1)
    BY <1>1, <1>4
  <2>2. j - 1 \in ends
    BY <2>1 DEF ends
  <2>3. QED
    BY <1>3, <2>1, <2>2
<1>6. QED
  BY <1>4, <1>5 DEF LineEnd, L

\* That is the line.
LEMMA LineIs ==
    ASSUME NEW b \in Seq(Nat), NEW s \in 0..Len(b), NEW e, LineEnd(b, s, e)
    PROVE  /\ e \in s..Len(b) /\ LineAt(b, s) = [i \in 1..(e - s) |-> b[s + i]]
           /\ LineAt(b, s) \in Seq(Nat) /\ Len(LineAt(b, s)) = e - s
<1> DEFINE L == Len(b)
           ends == {x \in s..Len(b) : x = Len(b) \/ b[x + 1] = NL}
<1>1. L \in Nat /\ s \in Nat /\ s <= L /\ e \in s..L /\ e \in Nat
  BY DEF LineEnd
<1>2. e \in ends /\ \A j \in (s + 1)..e : b[j] # NL
  BY DEF LineEnd
<1>3. \A x \in ends : e <= x
  <2> SUFFICES ASSUME NEW x \in s..L, x = L \/ b[x + 1] = NL, x < e PROVE FALSE
    BY <1>1
  <2>1. x + 1 \in (s + 1)..e /\ x # L
    BY <1>1
  <2>2. QED
    BY <1>2, <2>1
<1>4. \A x \in ends : x \in Nat
  BY <1>1
<1>5. LineAt(b, s) = SubSeq(b, s + 1, CHOOSE x \in ends : \A y \in ends : x <= y)
  BY DEF LineAt
<1> HIDE DEF ends
<1>6. \A x \in ends : (\A y \in ends : x <= y) => x = e
  BY <1>1, <1>2, <1>3, <1>4
<1>7. (CHOOSE x \in ends : \A y \in ends : x <= y) = e
  BY <1>2, <1>3, <1>6
<1>8. LineAt(b, s) = SubSeq(b, s + 1, e)
  BY <1>5, <1>7
<1>9. SubSeq(b, s + 1, e) = [i \in 1..(e - (s + 1) + 1) |-> b[(s + 1) + i - 1]]
  <2>1. s + 1 \in Nat /\ e \in Nat
    BY <1>1
  <2>2. QED
    BY <2>1
<1>10. e - (s + 1) + 1 = e - s /\ \A i \in 1..(e - s) : (s + 1) + i - 1 = s + i
  BY <1>1
<1>11. SubSeq(b, s + 1, e) = [i \in 1..(e - s) |-> b[s + i]]
  BY <1>9, <1>10
<1>12. \A i \in 1..(e - s) : s + i \in 1..L
  BY <1>1
<1>13. \A i \in 1..(e - s) : b[s + i] \in Nat
  BY <1>12
<1>14. e - s \in Nat
  BY <1>1
<1> HIDE DEF L
<1>15. LineAt(b, s) \in Seq(Nat) /\ Len(LineAt(b, s)) = e - s
  <2> DEFINE n == e - s
             line == LineAt(b, s)
  <2>1. n \in Nat /\ line = [i \in 1..n |-> b[s + i]] /\ \A i \in 1..n : b[s + i] \in Nat
    BY <1>8, <1>11, <1>13, <1>14
  <2> HIDE DEF n, line
  <2>2. line \in Seq(Nat) /\ Len(line) = n
    BY <2>1
  <2>3. QED
    BY <2>2 DEF n, line
<1>16. QED
  BY <1>1, <1>8, <1>11, <1>15 DEF L

\* A line is the same wherever it is.
LEMMA SameLine ==
    ASSUME NEW a \in Seq(Nat), NEW b \in Seq(Nat), NEW s \in 0..Len(a), NEW t \in 0..Len(b),
           NEW e, LineEnd(a, s, e), LineEnd(b, t, t + (e - s)),
           \A j \in (s + 1)..e : a[j] = b[t + (j - s)]
    PROVE  LineAt(a, s) = LineAt(b, t)
<1>1. e \in s..Len(a) /\ LineAt(a, s) = [i \in 1..(e - s) |-> a[s + i]]
  BY LineIs
<1>2. LineAt(b, t) = [i \in 1..(t + (e - s) - t) |-> b[t + i]]
  BY LineIs
<1>3. s \in Nat /\ t \in Nat /\ e \in Nat /\ s <= e
  BY <1>1
<1>4. t + (e - s) - t = e - s
  BY <1>3
<1>5. \A i \in 1..(e - s) : a[s + i] = b[t + i]
  <2> TAKE i \in 1..(e - s)
  <2>1. s + i \in (s + 1)..e /\ (s + i) - s = i
    BY <1>3
  <2>2. QED
    BY <2>1
<1>6. QED
  BY <1>1, <1>2, <1>4, <1>5

\* The first bytes of a file.
LEMMA FirstBytes ==
    ASSUME NEW b \in Seq(Nat), NEW n \in 0..Len(b)
    PROVE  /\ SubSeq(b, 1, n) \in Seq(Nat) /\ Len(SubSeq(b, 1, n)) = n
           /\ \A i \in 1..n : SubSeq(b, 1, n)[i] = b[i]
<1>1. SubSeq(b, 1, n) = [i \in 1..n |-> b[i]]
  <2>1. SubSeq(b, 1, n) = [i \in 1..(n - 1 + 1) |-> b[1 + i - 1]]
    OBVIOUS
  <2>2. QED
    BY <2>1
<1>2. \A i \in 1..n : b[i] \in Nat
  OBVIOUS
<1>3. n \in Nat
  OBVIOUS
<1>4. QED
  BY <1>1, <1>2, <1>3

\* The matching lines begin at offsets of the file, behind a newline or at the
\* beginning, and are not empty.
LEMMA MatchingFacts ==
    ASSUME NEW b \in Seq(Nat), NEW f, NEW ks
    PROVE  /\ Matching(b, f, ks) \in SUBSET Nat /\ IsFiniteSet(Matching(b, f, ks))
           /\ \A s \in Matching(b, f, ks) :
                 /\ s < Len(b) /\ (s = 0 \/ b[s] = NL) /\ b[s + 1] # NL
                 /\ LineAt(b, s)[1] = b[s + 1] /\ Matches(LineAt(b, s), f, ks)
<1>1. Len(b) \in Nat
  OBVIOUS
<1>2. Matching(b, f, ks) \subseteq 0..(Len(b) - 1)
  BY DEF Matching, Starts
<1>3. Matching(b, f, ks) \in SUBSET Nat
  BY <1>1, <1>2
<1>4. IsFiniteSet(Matching(b, f, ks))
  <2>1. IsFiniteSet(0..(Len(b) - 1))
    BY <1>1, FS_Interval
  <2>2. QED
    BY <1>2, <2>1, FS_Subset
<1>5. ASSUME NEW s \in Matching(b, f, ks)
      PROVE  /\ s < Len(b) /\ (s = 0 \/ b[s] = NL) /\ b[s + 1] # NL
             /\ LineAt(b, s)[1] = b[s + 1] /\ Matches(LineAt(b, s), f, ks)
  <2>1. s \in 0..(Len(b) - 1) /\ (s = 0 \/ b[s] = NL) /\ Matches(LineAt(b, s), f, ks)
    BY DEF Matching, Starts
  <2>2. s \in 0..Len(b) /\ s < Len(b) /\ s \in Nat
    BY <1>1, <2>1
  <2>3. PICK e \in Nat : LineEnd(b, s, e)
    BY <2>2, LineEnds
  <2>4. /\ e \in s..Len(b) /\ LineAt(b, s) = [i \in 1..(e - s) |-> b[s + i]]
        /\ Len(LineAt(b, s)) = e - s
    BY <2>2, <2>3, LineIs
  <2>5. LineAt(b, s) # <<>>
    BY <2>1 DEF Matches, Decodes
  <2>6. s < e
    <3> SUFFICES ASSUME ~(s < e) PROVE FALSE
      OBVIOUS
    <3>1. e - s = 0
      BY <2>2, <2>4
    <3>2. LineAt(b, s) = <<>>
      BY <2>4, <3>1
    <3>3. QED
      BY <2>5, <3>2
  <2>7. 1 \in 1..(e - s) /\ s + 1 \in (s + 1)..e
    BY <2>2, <2>4, <2>6
  <2>8. LineAt(b, s)[1] = b[s + 1]
    BY <2>4, <2>7
  <2>9. b[s + 1] # NL
    BY <2>3, <2>7 DEF LineEnd
  <2>10. QED
    BY <2>1, <2>2, <2>8, <2>9
<1>6. QED
  BY <1>3, <1>4, <1>5

\* The matching lines of what is before a newline, or the end, are those of the
\* file that begin there.
LEMMA MatchingBefore ==
    ASSUME NEW b \in Seq(Nat), NEW end \in 0..Len(b), NEW cut \in 1..end, cut = end \/ b[cut] = NL,
           NEW f, NEW ks
    PROVE  Matching(SubSeq(b, 1, cut), f, ks) = {s \in Matching(SubSeq(b, 1, end), f, ks) : s < cut}
<1> DEFINE E == SubSeq(b, 1, end)
           C == SubSeq(b, 1, cut)
<1>0. /\ Len(b) \in Nat /\ end \in Nat /\ cut \in Nat /\ 1 <= cut /\ cut <= end /\ end <= Len(b)
      /\ cut \in 0..Len(b)
  OBVIOUS
<1>1. E \in Seq(Nat) /\ Len(E) = end /\ \A i \in 1..end : E[i] = b[i]
  BY FirstBytes
<1>2. C \in Seq(Nat) /\ Len(C) = cut /\ \A i \in 1..cut : C[i] = b[i]
  BY <1>0, FirstBytes
<1>3. \A i \in 1..cut : i \in 1..end /\ C[i] = E[i]
  BY <1>0, <1>1, <1>2
<1> HIDE DEF E, C
<1>4. ASSUME NEW s \in 0..(cut - 1)
      PROVE  LineAt(C, s) = LineAt(E, s)
  <2>1. s \in 0..Len(C) /\ s \in 0..Len(E) /\ s \in Nat
    BY <1>0, <1>1, <1>2
  <2>2. PICK e \in Nat : LineEnd(C, s, e)
    BY <1>2, <2>1, LineEnds
  <2>3. e \in s..cut /\ (e = cut \/ C[e + 1] = NL) /\ \A j \in (s + 1)..e : C[j] # NL
    BY <1>2, <2>2 DEF LineEnd
  <2>4. \A j \in (s + 1)..e : j \in 1..cut /\ s + (j - s) = j
    BY <1>0, <2>1, <2>3
  <2>5. e = end \/ E[e + 1] = NL
    <3>1. CASE e = cut
      <4>1. cut \in (s + 1)..e /\ cut \in 1..cut
        BY <1>0, <2>1, <3>1
      <4>2. cut = end
        BY <1>2, <2>3, <4>1
      <4>3. QED
        BY <3>1, <4>2
    <3>2. CASE e # cut
      <4>1. e + 1 \in 1..cut
        BY <1>0, <2>1, <2>3, <3>2
      <4>2. QED
        BY <1>3, <2>3, <3>2, <4>1
    <3>3. QED
      BY <3>1, <3>2
  <2>6. \A j \in (s + 1)..e : E[j] # NL /\ C[j] = E[s + (j - s)]
    BY <1>3, <2>3, <2>4
  <2>7. s + (e - s) = e /\ e \in s..end
    BY <1>0, <2>1, <2>3
  <2>8. LineEnd(E, s, s + (e - s))
    BY <1>1, <2>5, <2>6, <2>7 DEF LineEnd
  <2>9. \A j \in (s + 1)..e : C[j] = E[s + (j - s)]
    BY <2>6
  <2>10. QED
    BY <1>1, <1>2, <2>1, <2>2, <2>8, <2>9, SameLine
<1>5. \A s \in 0..(cut - 1) : (s = 0 \/ C[s] = NL) <=> (s = 0 \/ E[s] = NL)
  <2> TAKE s \in 0..(cut - 1)
  <2>1. s = 0 \/ s \in 1..cut
    BY <1>0
  <2>2. QED
    BY <1>3, <2>1
<1>6. \A s : s \in 0..(cut - 1) <=> s \in 0..(end - 1) /\ s < cut
  BY <1>0
<1>7. Starts(C) = {s \in 0..(cut - 1) : s = 0 \/ C[s] = NL}
  BY <1>2 DEF Starts
<1>8. Starts(E) = {s \in 0..(end - 1) : s = 0 \/ E[s] = NL}
  BY <1>1 DEF Starts
<1>9. Matching(C, f, ks) = {s \in Matching(E, f, ks) : s < cut}
  BY <1>4, <1>5, <1>6, <1>7, <1>8 DEF Matching
<1>10. QED
  BY <1>9 DEF C, E

\* Bytes of lines that have been logged.
Logged(b, n) == \A i \in 1..Len(b) : b[i] <= n
Extends(ks, ms) == Len(ks) <= Len(ms) /\ \A i \in 1..Len(ks) : ms[i] = ks[i]

\* What is logged later does not tell how what was logged matches.
LEMMA MatchingKept ==
    ASSUME NEW b \in Seq(Nat), NEW f, NEW ks \in Seq(Kinds), NEW ms, Logged(b, Len(ks)), Extends(ks, ms)
    PROVE  Matching(b, f, ms) = Matching(b, f, ks)
<1>1. Len(ks) \in Nat /\ Len(b) \in Nat
  OBVIOUS
<1>2. ASSUME NEW s \in Starts(b)
      PROVE  Matches(LineAt(b, s), f, ms) <=> Matches(LineAt(b, s), f, ks)
  <2> DEFINE line == LineAt(b, s)
  <2>1. s \in 0..Len(b) /\ s \in Nat
    BY <1>1 DEF Starts
  <2>2. PICK e \in Nat : LineEnd(b, s, e)
    BY <2>1, LineEnds
  <2>3. /\ e \in s..Len(b) /\ line = [i \in 1..(e - s) |-> b[s + i]] /\ Len(line) = e - s
        /\ \A j \in (s + 1)..e : b[j] # NL
    BY <2>1, <2>2, LineIs DEF LineEnd
  <2>4. CASE e - s = 0
    <3>1. line = <<>>
      BY <2>3, <2>4
    <3>2. QED
      BY <3>1 DEF Matches, Decodes
  <2>5. CASE e - s # 0
    <3>1. 1 \in 1..(e - s) /\ s + 1 \in (s + 1)..e /\ s + 1 \in 1..Len(b)
      BY <1>1, <2>1, <2>3, <2>5
    <3>2. line[1] = b[s + 1] /\ b[s + 1] # NL /\ b[s + 1] <= Len(ks) /\ b[s + 1] \in Nat
      BY <2>3, <3>1 DEF Logged
    <3>3. line[1] \in 1..Len(ks)
      BY <1>1, <3>2 DEF NL
    <3>4. ms[line[1]] = ks[line[1]]
      BY <3>3 DEF Extends
    <3> HIDE DEF line
    <3>5. LineOf(line[1], ms) = LineOf(line[1], ks)
      BY <3>4 DEF LineOf
    <3>6. Matches(line, f, ms) <=> Matches(line, f, ks)
      BY <3>4, <3>5 DEF Matches, Decodes
    <3>7. QED
      BY <3>6 DEF line
  <2>6. QED
    BY <2>4, <2>5
<1>3. QED
  BY <1>2 DEF Matching

-----------------------------------------------------------------------------
(* Scans of a file *)

CursorQuery ==
    [is : {"cursor"}, filter : AskedFilters, limit : Nat \ {0}, file : Nat, end : Nat, pos : Nat,
     rem : Seq(Nat), first : BOOLEAN, items : Seq(Nat), oldest : Nat, more : BOOLEAN]

\* The first n of the matching lines W of a file.
FirstLines(E, W, n) == [i \in 1..n |-> E[W[i] + 1]]

\* The query has found the lines that begin behind an offset, and no others.
FoundBehind(q, E, W, at) ==
    LET n == Len(q.items) IN
    /\ n <= q.limit /\ n <= Len(W) /\ q.items = FirstLines(E, W, n)
    /\ n # 0 => q.oldest = W[n]
    /\ Above(W, n, at)

\* It has found as many as it may, and there are more.
FoundEnough(q, E, W) ==
    /\ Len(q.items) = q.limit /\ q.limit < Len(W) /\ q.items = FirstLines(E, W, q.limit)
    /\ q.oldest = W[q.limit]

\* The lines that are shown are, of those that match, the ones that begin
\* between two offsets.
Shows(lines, f, E, lo, hi) ==
    /\ {s \in DOMAIN lines : Matches(lines[s], f, kinds)} = {s \in Matching(E, f, kinds) : lo < s /\ s <= hi}
    /\ \A s \in Matching(E, f, kinds) : lo < s /\ s <= hi => lines[s] = LineAt(E, s)

\* What has become of a query: it is the same query, and has found the lines
\* behind an offset, or enough.
Finds(r, q, E, W, at) ==
    /\ r \in CursorQuery /\ r.filter = q.filter /\ r.limit = q.limit /\ r.file = q.file /\ r.end = q.end
    /\ IF r.more THEN FoundEnough(r, E, W) ELSE FoundBehind(r, E, W, at)

\* A query that is shown what matches between two offsets.
LEMMA ShownFinds ==
    ASSUME NEW q \in CursorQuery, NEW E \in Seq(Nat), NEW W \in Seq(Nat), Descending(W),
           Members(W) = Matching(E, q.filter, kinds),
           NEW lo \in Int, NEW hi \in Int, lo <= hi, FoundBehind(q, E, W, hi), NEW lines,
           Shows(lines, q.filter, E, lo, hi)
    PROVE  Finds(Shown(q, lines), q, E, W, lo)
<1> DEFINE M == Matching(E, q.filter, kinds)
           hits == {s \in DOMAIN lines : Matches(lines[s], q.filter, kinds)}
           F == NewestFirst[hits]
           n == Len(q.items)
           x == IF Len(F) < q.limit - n THEN Len(F) ELSE q.limit - n
           more == [i \in 1..x |-> lines[F[i]][1]]
           r == Shown(q, lines)
<1>1. r = [q EXCEPT !.items = @ \o more, !.oldest = IF x = 0 THEN @ ELSE F[x], !.more = Len(F) > x]
  BY DEF Shown
<1>2. /\ q.items \in Seq(Nat) /\ n \in Nat /\ q.limit \in Nat /\ 1 <= q.limit /\ q.oldest \in Nat
      /\ n <= q.limit /\ n \in 0..Len(W) /\ q.items = FirstLines(E, W, n) /\ (n # 0 => q.oldest = W[n])
      /\ Above(W, n, hi)
  BY DEF CursorQuery, FoundBehind
<1>3. M \in SUBSET Nat /\ IsFiniteSet(M)
      /\ \A s \in M : s < Len(E) /\ LineAt(E, s)[1] = E[s + 1]
  BY MatchingFacts
<1>4. hits = {s \in M : lo < s /\ s <= hi} /\ \A s \in M : lo < s /\ s <= hi => lines[s] = LineAt(E, s)
  BY DEF Shows
<1>5. \A s \in hits : lines[s][1] = E[s + 1] /\ s \in Nat /\ s + 1 \in 1..Len(E)
  <2> SUFFICES ASSUME NEW s \in M, lo < s, s <= hi
               PROVE  lines[s][1] = E[s + 1] /\ s \in Nat /\ s + 1 \in 1..Len(E)
    BY <1>4
  <2>1. lines[s] = LineAt(E, s)
    BY <1>4
  <2>2. s \in Nat /\ s < Len(E) /\ Len(E) \in Nat
    BY <1>3
  <2>3. QED
    BY <1>3, <2>1, <2>2
<1>6. F \in Seq(Nat) /\ Descending(F) /\ Members(F) = hits
  <2>1. hits \in SUBSET Nat /\ hits \subseteq M
    BY <1>3, <1>4
  <2>2. IsFiniteSet(hits)
    BY <1>3, <2>1, FS_Subset
  <2> HIDE DEF hits
  <2>3. QED
    BY <2>1, <2>2, NewestFirstFacts
<1>7. Members(W) = M
  OBVIOUS
<1> HIDE DEF M, hits, F, n
<1>8. /\ n + Len(F) <= Len(W) /\ \A k \in 1..Len(F) : F[k] = W[n + k]
      /\ Above(W, n + Len(F), lo)
  <2>1. Between(F, W, lo, hi)
    BY <1>4, <1>6, <1>7 DEF Between
  <2>2. QED
    BY <1>2, <1>6, <2>1, Slice
<1>9. Len(F) \in Nat /\ Len(W) \in Nat
  BY <1>6
<1>10. x \in Nat /\ x <= Len(F) /\ n + x <= q.limit /\ n + x <= Len(W)
       /\ (Len(F) > x => n + x = q.limit) /\ (~(Len(F) > x) => x = Len(F))
  <2> DEFINE m == Len(F)
             l == q.limit
             w == Len(W)
  <2>1. n \in Nat /\ m \in Nat /\ l \in Nat /\ w \in Nat /\ n <= l /\ n + m <= w
    BY <1>2, <1>8, <1>9
  <2>2. x = IF m < l - n THEN m ELSE l - n
    OBVIOUS
  <2> HIDE DEF m, l, w, x
  <2>3. CASE m < l - n
    <3>1. x = m
      BY <2>2, <2>3
    <3>2. x \in Nat /\ x <= m /\ n + x <= l /\ n + x <= w /\ ~(m > x)
      BY <2>1, <2>3, <3>1
    <3>3. QED
      BY <3>1, <3>2 DEF m, l, w
  <2>4. CASE ~(m < l - n)
    <3>1. x = l - n
      BY <2>2, <2>4
    <3>2. x \in Nat /\ x <= m /\ n + x <= l /\ n + x <= w /\ n + x = l /\ (~(m > x) => x = m)
      BY <2>1, <2>4, <3>1
    <3>3. QED
      BY <3>1, <3>2 DEF m, l, w
  <2>5. QED
    BY <2>3, <2>4
<1>11. \A i \in 1..x : more[i] = E[W[n + i] + 1] /\ more[i] \in Nat
  <2> TAKE i \in 1..x
  <2>1. i \in 1..Len(F) /\ F[i] = W[n + i]
    BY <1>8, <1>9, <1>10
  <2>2. F[i] \in hits
    BY <1>6, <2>1 DEF Members
  <2>3. lines[F[i]][1] = E[F[i] + 1] /\ F[i] + 1 \in 1..Len(E)
    BY <1>5, <2>2
  <2>4. E[F[i] + 1] \in Nat
    BY <2>3
  <2>5. QED
    BY <2>1, <2>3, <2>4
<1> HIDE DEF x
<1>12. more \in Seq(Nat) /\ Len(more) = x
  BY <1>10, <1>11
<1> HIDE DEF more
<1> DEFINE items == q.items \o more
<1>13. /\ items \in Seq(Nat) /\ Len(items) = n + x
       /\ \A i \in 1..n : items[i] = q.items[i]
       /\ \A i \in 1..x : items[n + i] = more[i]
  <2>1. PICK a \in Seq(Nat) : a = q.items
    BY <1>2
  <2>2. PICK b \in Seq(Nat) : b = more
    BY <1>12
  <2>3. /\ a \o b \in Seq(Nat) /\ Len(a \o b) = Len(a) + Len(b)
        /\ \A i \in 1..Len(a) : (a \o b)[i] = a[i]
        /\ \A i \in 1..Len(b) : (a \o b)[Len(a) + i] = b[i]
    BY AppendedBytes DEF Continues
  <2>4. items = a \o b /\ Len(a) = n /\ Len(b) = x
    BY <1>12, <2>1, <2>2 DEF n
  <2> HIDE DEF items
  <2>5. QED
    BY <2>1, <2>2, <2>3, <2>4
<1>14. items = FirstLines(E, W, n + x)
  <2>1. \A i \in 1..(n + x) : items[i] = E[W[i] + 1]
    <3> TAKE i \in 1..(n + x)
    <3>1. CASE i \in 1..n
      <4>1. q.items[i] = E[W[i] + 1]
        BY <1>2, <3>1 DEF FirstLines
      <4>2. QED
        BY <1>13, <3>1, <4>1
    <3>2. CASE i \notin 1..n
      <4>1. i - n \in 1..x /\ n + (i - n) = i
        BY <1>2, <1>10, <3>2
      <4>2. QED
        <5>1. items[n + (i - n)] = more[i - n] /\ more[i - n] = E[W[n + (i - n)] + 1]
          BY <1>11, <1>13, <4>1
        <5>2. QED
          BY <4>1, <5>1
    <3>3. QED
      BY <3>1, <3>2
  <2> HIDE DEF items
  <2>2. items = [i \in 1..(n + x) |-> items[i]]
    BY <1>13
  <2>3. QED
    BY <2>1, <2>2 DEF FirstLines
<1> DEFINE oldest == IF x = 0 THEN q.oldest ELSE F[x]
<1>15. oldest \in Nat /\ (n + x # 0 => oldest = W[n + x])
  <2>1. CASE x = 0
    BY <1>2, <2>1
  <2>2. CASE x # 0
    <3>1. x \in 1..Len(F)
      BY <1>9, <1>10, <2>2
    <3>2. F[x] \in Nat /\ F[x] = W[n + x]
      BY <1>6, <1>8, <3>1
    <3>3. QED
      BY <2>2, <3>2
  <2>3. QED
    BY <2>1, <2>2
<1>16. r = [q EXCEPT !.items = items, !.oldest = oldest, !.more = Len(F) > x]
  <2>1. r = [q EXCEPT !.items = @ \o more, !.oldest = IF x = 0 THEN @ ELSE F[x], !.more = Len(F) > x]
    BY <1>1
  <2> HIDE DEF r
  <2>2. QED
    BY <2>1
<1> HIDE DEF items, oldest, r
<1>17. /\ r \in CursorQuery /\ r.filter = q.filter /\ r.limit = q.limit /\ r.file = q.file /\ r.end = q.end
       /\ r.items = items /\ r.oldest = oldest /\ r.more = (Len(F) > x)
  <2>1. (Len(F) > x) \in BOOLEAN
    OBVIOUS
  <2>2. QED
    BY <1>13, <1>15, <1>16, <2>1 DEF CursorQuery
<1>18. CASE r.more
  <2>1. n + x = q.limit /\ q.limit < Len(W) /\ n + x # 0
    <3>1. Len(F) > x
      BY <1>17, <1>18
    <3>2. n + x = q.limit
      BY <1>10, <3>1
    <3>3. QED
      BY <1>2, <1>8, <1>9, <1>10, <3>1, <3>2
  <2>2. FoundEnough(r, E, W)
    BY <1>13, <1>14, <1>15, <1>17, <2>1 DEF FoundEnough
  <2>3. QED
    BY <1>17, <1>18, <2>2 DEF Finds, r
<1>19. CASE ~r.more
  <2>1. x = Len(F)
    BY <1>10, <1>17, <1>19
  <2>2. FoundBehind(r, E, W, lo)
    BY <1>8, <1>10, <1>13, <1>14, <1>15, <1>17, <2>1 DEF FoundBehind
  <2>3. QED
    BY <1>17, <1>19, <2>2 DEF Finds, r
<1>20. QED
  BY <1>18, <1>19

\* What it answers is the page of the file.
LEMMA AnswerIsPage ==
    ASSUME NEW q \in CursorQuery, NEW E \in Seq(Nat),
           IF q.more THEN FoundEnough(q, E, MatchingStarts(E, q.filter, kinds))
                     ELSE FoundBehind(q, E, MatchingStarts(E, q.filter, kinds), -1)
    PROVE  Answer(q) = Page(E, q.filter, q.limit, kinds)
<1> DEFINE W == MatchingStarts(E, q.filter, kinds)
           shown == IF Len(W) < q.limit THEN Len(W) ELSE q.limit
<1>1. Page(E, q.filter, q.limit, kinds) =
          [items |-> FirstLines(E, W, shown), more |-> Len(W) > q.limit,
           next |-> IF Len(W) > q.limit THEN W[q.limit] ELSE NoCursor]
  BY DEF Page, FirstLines
<1>2. Answer(q) = [items |-> q.items, more |-> q.more,
                   next |-> IF q.more /\ q.oldest > 0 THEN q.oldest ELSE NoCursor]
  BY DEF Answer
<1>3. W \in Seq(Nat) /\ Descending(W)
  BY MatchingFacts, NewestFirstFacts DEF MatchingStarts
<1>4. q.limit \in Nat /\ 1 <= q.limit /\ Len(W) \in Nat /\ q.more \in BOOLEAN
  BY <1>3 DEF CursorQuery
<1> HIDE DEF W
<1>5. CASE q.more
  <2>1. q.limit < Len(W) /\ q.items = FirstLines(E, W, q.limit) /\ q.oldest = W[q.limit]
    BY <1>5 DEF FoundEnough, W
  <2>2. shown = q.limit /\ Len(W) > q.limit
    BY <1>4, <2>1
  <2>3. W[q.limit] > 0
    <3>1. q.limit \in 1..Len(W) /\ q.limit + 1 \in 1..Len(W) /\ q.limit < q.limit + 1
      BY <1>4, <2>1
    <3>2. W[q.limit + 1] < W[q.limit] /\ W[q.limit + 1] \in Nat /\ W[q.limit] \in Nat
      BY <1>3, <3>1 DEF Descending
    <3>3. QED
      BY <3>2
  <2>4. QED
    BY <1>1, <1>2, <1>5, <2>1, <2>2, <2>3
<1>6. CASE ~q.more
  <2> DEFINE n == Len(q.items)
  <2>1. /\ n <= q.limit /\ n <= Len(W) /\ q.items = FirstLines(E, W, n)
        /\ \A i \in 1..Len(W) : i <= n <=> -1 < W[i]
    BY <1>6 DEF FoundBehind, Above, W
  <2>2. n \in Nat
    BY DEF CursorQuery
  <2> HIDE DEF n
  <2>3. n = Len(W)
    <3>1. CASE Len(W) = 0
      BY <2>1, <2>2, <3>1
    <3>2. CASE Len(W) # 0
      <4>1. Len(W) \in 1..Len(W)
        BY <1>4, <3>2
      <4>2. W[Len(W)] \in Nat
        BY <1>3, <4>1
      <4>3. QED
        BY <1>4, <2>1, <2>2, <4>1, <4>2
    <3>3. QED
      BY <3>1, <3>2
  <2>4. ~(Len(W) > q.limit) /\ shown = n
    BY <1>4, <2>1, <2>3
  <2> HIDE DEF shown
  <2>5. QED
    BY <1>1, <1>2, <1>4, <1>6, <2>1, <2>4
<1>7. QED
  BY <1>5, <1>6

\* What is left over of the chunks behind an offset: the bytes up to the next
\* newline.
Remains(rem, E, at) ==
    /\ rem \in Seq(Nat) /\ at + Len(rem) <= Len(E)
    /\ at + Len(rem) = Len(E) \/ E[at + Len(rem) + 1] = NL
    /\ \A j \in 1..Len(rem) : rem[j] = E[at + j] /\ rem[j] # NL

\* The bytes of a file behind an offset, up to a newline or the end; between it
\* and "upto" there are newlines only.
PartOf(part, E, at, upto) ==
    /\ part \in Seq(Nat) /\ at + Len(part) <= upto
    /\ at + Len(part) = Len(E) \/ E[at + Len(part) + 1] = NL
    /\ \A j \in 1..Len(part) : part[j] = E[at + j]
    /\ \A j \in (at + Len(part) + 1)..upto : E[j] = NL

LEMMA TrimEndFacts ==
    ASSUME NEW E \in Seq(Nat), NEW at \in Nat, NEW upto \in Nat, upto <= Len(E), NEW part,
           PartOf(part, E, at, upto)
    PROVE  PartOf(TrimEnd(part), E, at, upto)
<1> DEFINE L == Len(part)
           others == {i \in DOMAIN part : part[i] # NL}
           last == IF others = {} THEN 0 ELSE CHOOSE i \in others : \A j \in others : j <= i
           short == SubSeq(part, 1, last)
<1>1. /\ part \in Seq(Nat) /\ L \in Nat /\ at + L <= upto
      /\ at + L = Len(E) \/ E[at + L + 1] = NL
      /\ \A j \in 1..L : part[j] = E[at + j]
      /\ \A j \in (at + L + 1)..upto : E[j] = NL
  BY DEF PartOf
<1>2. TrimEnd(part) = short
  BY DEF TrimEnd
<1>2a. others = {i \in 1..L : part[i] # NL}
  BY <1>1
<1> HIDE DEF L, others
<1>3. last \in 0..L /\ \A j \in 1..L : last < j => part[j] = NL
  <2>1. CASE others = {}
    <3>1. last = 0 /\ \A j \in 1..L : part[j] = NL
      BY <1>2a, <2>1
    <3>2. L \in Nat /\ \A j \in 1..L : j \in Nat
      BY <1>1
    <3> HIDE DEF last
    <3>3. QED
      BY <3>1, <3>2
  <2>2. CASE others # {}
    <3> DEFINE T == {L - i : i \in others}
    <3>0. \A i \in others : i \in 1..L /\ i \in Nat /\ L - i \in Nat
      <4>1. \A i \in 1..L : i \in Nat /\ L - i \in Nat
        <5>1. L \in Nat
          BY <1>1
        <5>2. QED
          BY <5>1
      <4>2. QED
        BY <1>2a, <4>1
    <3>1. T \subseteq Nat /\ T # {}
      BY <2>2, <3>0
    <3>2. PICK x \in T : \A y \in T : x <= y
      <4> HIDE DEF T
      <4>1. QED
        BY <3>1, LeastNumber
    <3>3. PICK i \in others : x = L - i
      BY <3>2
    <3>4. \A j \in others : j <= i
      <4> TAKE j \in others
      <4>1. L - j \in T /\ i \in Nat /\ j \in Nat
        BY <3>0
      <4>2. L - i <= L - j
        BY <3>2, <3>3, <4>1
      <4>3. QED
        BY <1>1, <4>1, <4>2
    <3>5. last \in others /\ \A j \in others : j <= last
      BY <2>2, <3>4
    <3> HIDE DEF last
    <3>6. last \in 1..L /\ last \in Nat
      BY <3>0, <3>5
    <3>7. ASSUME NEW j \in 1..L, last < j PROVE part[j] = NL
      <4>1. ~(j <= last)
        BY <1>1, <3>6, <3>7
      <4>2. QED
        BY <1>2a, <3>5, <4>1
    <3>8. QED
      BY <1>1, <3>6, <3>7
  <2>3. QED
    BY <2>1, <2>2
<1> HIDE DEF last
<1>4. short \in Seq(Nat) /\ Len(short) = last /\ \A i \in 1..last : short[i] = part[i]
  BY <1>1, <1>3, FirstBytes DEF L
<1> HIDE DEF short
<1>5. at + last <= upto /\ last \in Nat
  BY <1>1, <1>3
<1>6. \A j \in 1..last : short[j] = E[at + j]
  <2> TAKE j \in 1..last
  <2>1. j \in 1..L
    BY <1>1, <1>3
  <2>2. QED
    BY <1>1, <1>4, <2>1
<1>7. \A j \in (at + last + 1)..upto : E[j] = NL
  <2> TAKE j \in (at + last + 1)..upto
  <2>1. CASE j <= at + L
    <3>1. j - at \in 1..L /\ last < j - at /\ at + (j - at) = j
      BY <1>1, <1>3, <2>1
    <3>2. QED
      BY <1>1, <1>3, <3>1
  <2>2. CASE ~(j <= at + L)
    <3>1. j \in (at + L + 1)..upto
      BY <1>1, <2>2
    <3>2. QED
      BY <1>1, <3>1
  <2>3. QED
    BY <2>1, <2>2
<1>8. at + last = Len(E) \/ E[at + last + 1] = NL
  <2>1. CASE last = L
    BY <1>1, <2>1
  <2>2. CASE last # L
    <3>1. at + last + 1 \in (at + last + 1)..upto
      BY <1>1, <1>3, <2>2
    <3>2. QED
      BY <1>7, <3>1
  <2>3. QED
    BY <2>1, <2>2
<1>9. QED
  BY <1>2, <1>4, <1>5, <1>6, <1>7, <1>8 DEF PartOf

\* The lines of a part are lines of the file.
LEMMA PartLine ==
    ASSUME NEW E \in Seq(Nat), NEW at \in Nat, NEW upto \in Nat, upto <= Len(E), NEW part,
           PartOf(part, E, at, upto), NEW t \in 0..Len(part)
    PROVE  LineAt(part, t) = LineAt(E, at + t)
<1> DEFINE L == Len(part)
<1>0. part \in Seq(Nat) /\ Len(E) \in Nat
  BY DEF PartOf
<1>1. /\ part \in Seq(Nat) /\ L \in Nat /\ at + L <= upto /\ Len(E) \in Nat
      /\ at + L = Len(E) \/ E[at + L + 1] = NL
      /\ \A j \in 1..L : part[j] = E[at + j]
  BY <1>0 DEF PartOf
<1>2. PICK e \in Nat : LineEnd(part, t, e)
  BY <1>1, LineEnds
<1>3. e \in t..L /\ (e = L \/ part[e + 1] = NL) /\ t \in Nat /\ t <= L
      /\ \A j \in (t + 1)..e : part[j] # NL
  BY <1>1, <1>2 DEF LineEnd
<1> HIDE DEF L
<1>4. \A j \in (t + 1)..e : j \in 1..L /\ part[j] = E[(at + t) + (j - t)]
  <2> TAKE j \in (t + 1)..e
  <2>1. j \in 1..L /\ (at + t) + (j - t) = at + j
    BY <1>1, <1>3
  <2>2. QED
    BY <1>1, <2>1
<1>5. LineEnd(E, at + t, (at + t) + (e - t))
  <2>1. (at + t) + (e - t) = at + e /\ at + e \in (at + t)..Len(E)
    <3>1. PICK l \in Nat : l = Len(E)
      BY <1>1
    <3>2. e \in Nat /\ t <= e /\ e <= L /\ at + L <= upto /\ upto <= l
      BY <1>1, <1>3, <3>1
    <3>3. (at + t) + (e - t) = at + e /\ at + e <= l /\ at + t <= at + e
      BY <1>1, <1>3, <3>2
    <3>4. QED
      BY <1>3, <3>1, <3>2, <3>3
  <2>2. at + e = Len(E) \/ E[at + e + 1] = NL
    <3>1. CASE e = L
      BY <1>1, <3>1
    <3>2. CASE e # L
      <4>1. e + 1 \in 1..L /\ at + (e + 1) = at + e + 1
        BY <1>1, <1>3, <3>2
      <4>2. QED
        BY <1>1, <1>3, <3>2, <4>1
    <3>3. QED
      BY <3>1, <3>2
  <2>3. \A j \in (at + t + 1)..(at + e) : E[j] # NL
    <3> TAKE j \in (at + t + 1)..(at + e)
    <3>1. j - at \in (t + 1)..e /\ at + (j - at) = j
      BY <1>1, <1>3
    <3>2. QED
      BY <1>1, <1>3, <1>4, <3>1
  <2>4. QED
    BY <2>1, <2>2, <2>3 DEF LineEnd
<1>6. at + t \in 0..Len(E)
  BY <1>1, <1>3
<1>7. \A j \in (t + 1)..e : part[j] = E[(at + t) + (j - t)]
  BY <1>4
<1>8. QED
  BY <1>1, <1>2, <1>5, <1>6, <1>7, SameLine DEF L

\* What is left over of a part.
LEMMA LeftOverFacts ==
    ASSUME NEW E \in Seq(Nat), NEW at \in Nat, NEW upto \in Nat, upto <= Len(E), NEW part,
           PartOf(part, E, at, upto)
    PROVE  LeftOver(part) = LineAt(E, at) /\ Remains(LeftOver(part), E, at)
<1>1. part \in Seq(Nat) /\ Len(part) \in Nat /\ 0 \in 0..Len(part) /\ at + 0 = at
      /\ at \in 0..Len(E) /\ Len(E) \in Nat
  BY DEF PartOf
<1>2. LeftOver(part) = LineAt(E, at)
  BY <1>1, PartLine DEF LeftOver
<1>3. PICK e \in Nat : LineEnd(E, at, e)
  BY <1>1, LineEnds
<1>4. /\ e \in at..Len(E) /\ LineAt(E, at) = [i \in 1..(e - at) |-> E[at + i]]
      /\ LineAt(E, at) \in Seq(Nat) /\ Len(LineAt(E, at)) = e - at
  BY <1>1, <1>3, LineIs
<1>5. (e = Len(E) \/ E[e + 1] = NL) /\ \A j \in (at + 1)..e : E[j] # NL
  BY <1>3 DEF LineEnd
<1>6. at + (e - at) = e
  BY <1>4
<1>7. \A j \in 1..(e - at) : LineAt(E, at)[j] = E[at + j] /\ at + j \in (at + 1)..e
  BY <1>4
<1>8. Remains(LineAt(E, at), E, at)
  BY <1>4, <1>5, <1>6, <1>7 DEF Remains
<1>9. QED
  BY <1>2, <1>8

\* The lines that are found in a part are those of the file that begin in it.
LEMMA LinesInFacts ==
    ASSUME NEW E \in Seq(Nat), NEW at \in Nat, NEW pos \in Nat, NEW rem, at < pos, Remains(rem, E, pos),
           NEW part, PartOf(part, E, at, pos + Len(rem)), NEW f
    PROVE  Shows(LinesIn(part, at), f, E, at, pos)
<1> DEFINE L == Len(part)
           upto == pos + Len(rem)
           lines == LinesIn(part, at)
           M == Matching(E, f, kinds)
<1>1. /\ part \in Seq(Nat) /\ L \in Nat /\ at + L <= upto
      /\ \A j \in 1..L : part[j] = E[at + j]
      /\ \A j \in (at + L + 1)..upto : E[j] = NL
  BY DEF PartOf
<1>2a. rem \in Seq(Nat) /\ Len(rem) \in Nat /\ Len(E) \in Nat
  BY DEF Remains
<1>2. /\ rem \in Seq(Nat) /\ Len(rem) \in Nat /\ upto \in Nat /\ upto <= Len(E) /\ Len(E) \in Nat /\ pos <= upto
      /\ upto = Len(E) \/ E[upto + 1] = NL
      /\ \A j \in 1..Len(rem) : E[pos + j] # NL
  <2>1. \A j \in 1..Len(rem) : E[pos + j] # NL
    <3> TAKE j \in 1..Len(rem)
    <3>1. rem[j] = E[pos + j] /\ rem[j] # NL
      BY DEF Remains
    <3>2. QED
      BY <3>1
  <2>2. upto <= Len(E) /\ (upto = Len(E) \/ E[upto + 1] = NL)
    BY DEF Remains
  <2>3. upto \in Nat /\ pos <= upto
    BY <1>2a
  <2>4. QED
    BY <1>2a, <2>1, <2>2, <2>3
<1>3. M \in SUBSET Nat /\ \A s \in M : /\ s < Len(E) /\ (s = 0 \/ E[s] = NL) /\ E[s + 1] # NL
                                       /\ Matches(LineAt(E, s), f, kinds)
  BY MatchingFacts
<1>4. lines = [s \in {at + i : i \in {i \in 1..L : part[i] = NL}} |-> LineAt(part, s - at)]
  BY <1>1 DEF LinesIn
<1>5. \A t \in 0..L : LineAt(part, t) = LineAt(E, at + t)
  BY <1>2, PartLine
<1>6. \A s : s \in M <=> s \in 0..(Len(E) - 1) /\ (s = 0 \/ E[s] = NL) /\ Matches(LineAt(E, s), f, kinds)
  BY DEF Matching, Starts
<1> HIDE DEF L, lines, M
<1>7. DOMAIN lines = {at + i : i \in {i \in 1..L : part[i] = NL}}
  BY <1>4
<1>8. ASSUME NEW s \in DOMAIN lines
      PROVE  s \in Nat /\ at < s /\ s <= at + L /\ E[s] = NL /\ lines[s] = LineAt(E, s)
  <2>1. PICK i \in 1..L : s = at + i /\ part[i] = NL
    BY <1>7
  <2>2. s - at = i /\ i \in 0..L /\ s \in Nat /\ at < s /\ s <= at + L
    BY <1>1, <2>1
  <2>3. lines[s] = LineAt(part, i)
    BY <1>4, <1>7, <2>2
  <2>4. QED
    BY <1>1, <1>5, <2>1, <2>2, <2>3
<1>9. ASSUME NEW s \in Nat, at < s, s <= at + L, E[s] = NL PROVE s \in DOMAIN lines
  <2>1. s - at \in 1..L /\ at + (s - at) = s
    BY <1>1, <1>9
  <2>2. part[s - at] = NL
    BY <1>1, <1>9, <2>1
  <2>3. QED
    BY <1>7, <2>1, <2>2
<1>10. ASSUME NEW s \in DOMAIN lines, Matches(lines[s], f, kinds) PROVE s \in M /\ at < s /\ s <= pos
  <2>1. s \in Nat /\ at < s /\ s <= at + L /\ E[s] = NL /\ lines[s] = LineAt(E, s)
    BY <1>8
  <2>2. s <= pos
    <3> SUFFICES ASSUME ~(s <= pos) PROVE FALSE
      OBVIOUS
    <3>1. s - pos \in 1..Len(rem) /\ pos + (s - pos) = s
      <4>1. PICK m \in Nat : m = Len(rem)
        BY <1>2
      <4>2. s \in Nat /\ s <= pos + m /\ pos < s
        BY <1>1, <2>1, <4>1
      <4>3. s - pos \in 1..m /\ pos + (s - pos) = s
        BY <4>2
      <4>4. QED
        BY <4>1, <4>3
    <3>2. QED
      BY <1>2, <2>1, <3>1
  <2>3. s \in 0..Len(E)
    BY <1>1, <1>2, <2>1
  <2>4. s # Len(E)
    <3> SUFFICES ASSUME s = Len(E) PROVE FALSE
      OBVIOUS
    <3>1. LineEnd(E, s, s)
      BY <1>2, <2>1 DEF LineEnd
    <3>2. Len(LineAt(E, s)) = s - s /\ LineAt(E, s) = [i \in 1..(s - s) |-> E[s + i]]
      BY <2>3, <3>1, LineIs
    <3>3. s - s = 0
      BY <2>1
    <3>4. LineAt(E, s) = <<>>
      BY <3>2, <3>3
    <3>5. QED
      BY <1>10, <2>1, <3>4 DEF Matches, Decodes
  <2>5. s \in 0..(Len(E) - 1)
    BY <1>2, <2>3, <2>4
  <2>6. QED
    BY <1>6, <1>10, <2>1, <2>2, <2>5
<1>11. ASSUME NEW s \in M, at < s, s <= pos PROVE s \in DOMAIN lines /\ lines[s] = LineAt(E, s)
  <2>1. s \in Nat /\ s < Len(E) /\ E[s] = NL /\ E[s + 1] # NL
    BY <1>3, <1>11
  <2>2. s <= at + L
    <3> SUFFICES ASSUME ~(s <= at + L) PROVE FALSE
      OBVIOUS
    <3>1. CASE s = upto
      BY <1>2, <2>1, <3>1
    <3>2. CASE s # upto
      <4>1. s + 1 \in (at + L + 1)..upto
        BY <1>1, <1>2, <1>11, <2>1, <3>2
      <4>2. QED
        BY <1>1, <2>1, <4>1
    <3>3. QED
      BY <3>1, <3>2
  <2>3. s \in DOMAIN lines
    BY <1>9, <1>11, <2>1, <2>2
  <2>4. QED
    BY <1>8, <2>3
<1>12. {s \in DOMAIN lines : Matches(lines[s], f, kinds)} = {s \in M : at < s /\ s <= pos}
  <2>1. \A s \in M : at < s /\ s <= pos => Matches(lines[s], f, kinds)
    BY <1>3, <1>11
  <2>2. QED
    BY <1>10, <1>11, <2>1
<1>13. QED
  BY <1>11, <1>12 DEF Shows, lines, M

\* The bytes between two offsets.
LEMMA BytesBetween ==
    ASSUME NEW b \in Seq(Nat), NEW m \in 0..Len(b), NEW n \in 0..m
    PROVE  /\ SubSeq(b, n + 1, m) \in Seq(Nat) /\ Len(SubSeq(b, n + 1, m)) = m - n
           /\ \A i \in 1..(m - n) : SubSeq(b, n + 1, m)[i] = b[n + i]
<1> DEFINE a == SubSeq(b, 1, m)
<1>1. a \in Seq(Nat) /\ Len(a) = m /\ \A i \in 1..m : a[i] = b[i]
  BY FirstBytes
<1>2. m \in Nat /\ n \in Nat /\ n <= m /\ m <= Len(b) /\ Len(b) \in Nat
  OBVIOUS
<1>3. SubSeq(b, n + 1, m) = [i \in 1..(m - n) |-> b[n + i]]
  <2>1. SubSeq(b, n + 1, m) = [i \in 1..(m - (n + 1) + 1) |-> b[(n + 1) + i - 1]]
    BY <1>2
  <2>2. m - (n + 1) + 1 = m - n /\ \A i \in 1..(m - n) : (n + 1) + i - 1 = n + i
    BY <1>2
  <2>3. QED
    BY <2>1, <2>2
<1>4. \A i \in 1..(m - n) : n + i \in 1..Len(b)
  BY <1>2
<1>5. \A i \in 1..(m - n) : b[n + i] \in Nat
  BY <1>4
<1>6. m - n \in Nat
  BY <1>2
<1>7. QED
  <2> DEFINE k == m - n
             c == SubSeq(b, n + 1, m)
  <2>1. k \in Nat /\ c = [i \in 1..k |-> b[n + i]] /\ \A i \in 1..k : b[n + i] \in Nat
    BY <1>3, <1>5, <1>6
  <2> HIDE DEF k, c
  <2>2. c \in Seq(Nat) /\ Len(c) = k /\ \A i \in 1..k : c[i] = b[n + i]
    BY <2>1
  <2>3. QED
    BY <2>2 DEF k, c

\* A chunk and what is left over of the one behind it are a part of the file.
LEMMA ChunkIsPart ==
    ASSUME NEW B \in Seq(Nat), NEW end \in 0..Len(B), NEW pos \in 0..end, NEW start \in 0..pos,
           NEW E, E = SubSeq(B, 1, end), NEW rem, Remains(rem, E, pos)
    PROVE  /\ PartOf(SubSeq(B, start + 1, pos) \o rem, E, start, pos + Len(rem))
           /\ pos + Len(rem) \in Nat /\ pos + Len(rem) <= Len(E)
<1> DEFINE a == SubSeq(B, start + 1, pos)
           c == a \o rem
           m == Len(rem)
           l == Len(E)
<1>1. E \in Seq(Nat) /\ l = end /\ l \in Nat /\ \A i \in 1..end : E[i] = B[i]
  BY FirstBytes
<1>2. rem \in Seq(Nat) /\ m \in Nat /\ pos + m <= l /\ (pos + m = l \/ E[pos + m + 1] = NL)
      /\ \A j \in 1..m : rem[j] = E[pos + j]
  BY DEF Remains
<1>3. a \in Seq(Nat) /\ Len(a) = pos - start /\ \A i \in 1..(pos - start) : a[i] = B[start + i]
  <2>1. pos \in 0..Len(B)
    OBVIOUS
  <2>2. QED
    BY <2>1, BytesBetween
<1>4. c \in Seq(Nat) /\ Len(c) = (pos - start) + m /\ (\A i \in 1..(pos - start) : c[i] = a[i])
      /\ \A i \in 1..m : c[(pos - start) + i] = rem[i]
  <2> DEFINE k == pos - start
  <2>1. a \in Seq(Nat) /\ Len(a) = k
    BY <1>3
  <2> HIDE DEF a, k
  <2>2. /\ a \o rem \in Seq(Nat) /\ Len(a \o rem) = Len(a) + Len(rem)
        /\ \A i \in 1..Len(a) : (a \o rem)[i] = a[i]
        /\ \A i \in 1..Len(rem) : (a \o rem)[Len(a) + i] = rem[i]
    BY <1>2, <2>1, AppendedBytes DEF Continues
  <2>3. /\ c \in Seq(Nat) /\ Len(c) = k + m /\ (\A i \in 1..k : c[i] = a[i])
        /\ \A i \in 1..m : c[k + i] = rem[i]
    BY <2>1, <2>2
  <2> HIDE DEF c, m
  <2>4. QED
    BY <2>3 DEF k
<1>5. pos \in Nat /\ start \in Nat /\ start <= pos /\ pos <= end /\ end \in Nat
  OBVIOUS
<1> HIDE DEF a, c, m, l
<1>6. \A j \in 1..((pos - start) + m) : c[j] = E[start + j]
  <2> TAKE j \in 1..((pos - start) + m)
  <2>1. CASE j <= pos - start
    <3>1. j \in 1..(pos - start) /\ start + j \in 1..end
      BY <1>2, <1>5, <2>1
    <3>2. QED
      BY <1>1, <1>3, <1>4, <3>1
  <2>2. CASE ~(j <= pos - start)
    <3>1. PICK i \in 1..m : j = (pos - start) + i
      <4>1. j - (pos - start) \in 1..m /\ j = (pos - start) + (j - (pos - start))
        BY <1>2, <1>5, <2>2
      <4>2. QED
        BY <4>1
    <3>2. start + j = pos + i
      BY <1>5, <3>1
    <3>3. c[j] = rem[i] /\ rem[i] = E[pos + i]
      BY <1>2, <1>4, <3>1
    <3>4. QED
      BY <3>2, <3>3
  <2>3. QED
    BY <2>1, <2>2
<1>7. start + Len(c) = pos + m /\ pos + m \in Nat
  BY <1>2, <1>4, <1>5
<1>8. PartOf(c, E, start, pos + m)
  <2>1. \A j \in 1..Len(c) : c[j] = E[start + j]
    BY <1>4, <1>6
  <2>2. start + Len(c) = Len(E) \/ E[start + Len(c) + 1] = NL
    BY <1>2, <1>7 DEF l
  <2>3. \A j \in (start + Len(c) + 1)..(pos + m) : E[j] = NL
    <3>1. \A j \in (start + Len(c) + 1)..(pos + m) : FALSE
      BY <1>7
    <3>2. QED
      BY <3>1
  <2>4. start + Len(c) <= pos + m
    BY <1>7
  <2>5. QED
    BY <1>4, <2>1, <2>2, <2>3, <2>4 DEF PartOf
<1>9. QED
  BY <1>2, <1>7, <1>8 DEF c, a, m, l

\* A chunk read finds the lines that begin in the chunk, and the first line of
\* the file when there is no chunk before it.
LEMMA ChunkFinds ==
    ASSUME NEW q \in CursorQuery, ~q.more, NEW B \in Seq(Nat), B = data[q.file], q.end \in 1..Len(B),
           NEW E, E = SubSeq(B, 1, q.end), q.pos \in 1..q.end, Remains(q.rem, E, q.pos),
           NEW W, W = MatchingStarts(E, q.filter, kinds), FoundBehind(q, E, W, q.pos)
    PROVE  LET r == ChunkRead(q) IN
           /\ Finds(r, q, E, W, IF r.pos = 0 THEN -1 ELSE r.pos)
           /\ r.pos < q.pos /\ Remains(r.rem, E, r.pos)
<1> DEFINE start == IF q.pos > ChunkSize THEN q.pos - ChunkSize ELSE 0
           chunk == SubSeq(B, start + 1, q.pos) \o q.rem
           part == IF q.first THEN TrimEnd(chunk) ELSE chunk
           lines == LinesIn(part, start)
           shown == Shown(q, lines)
           first == [s \in {0} |-> LeftOver(part)]
           final == IF start > 0 \/ shown.more \/ LeftOver(part) = <<>> THEN shown ELSE Shown(shown, first)
           r == ChunkRead(q)
           upto == q.pos + Len(q.rem)
           M == Matching(E, q.filter, kinds)
<1>1. r = [final EXCEPT !.pos = start, !.rem = LeftOver(part), !.first = FALSE]
  BY DEF ChunkRead
<1>2. q.pos \in Nat /\ q.end \in Nat /\ q.end \in 0..Len(B) /\ q.pos \in 0..q.end
  OBVIOUS
<1>3. start \in Nat /\ start < q.pos /\ start \in 0..q.pos
  BY <1>2, GatewayLogAssumption
<1> HIDE DEF start
<1>4. E \in Seq(Nat)
  BY <1>2, FirstBytes
<1>5. PartOf(chunk, E, start, upto) /\ upto \in Nat /\ upto <= Len(E)
  BY <1>2, <1>3, ChunkIsPart
<1>6. PartOf(part, E, start, upto)
  <2> HIDE DEF chunk, upto
  <2>1. PartOf(TrimEnd(chunk), E, start, upto)
    BY <1>3, <1>4, <1>5, TrimEndFacts
  <2>2. QED
    BY <1>5, <2>1
<1> HIDE DEF chunk, part
<1>7. Shows(lines, q.filter, E, start, q.pos)
  BY <1>2, <1>3, <1>4, <1>6, LinesInFacts
<1>8. LeftOver(part) = LineAt(E, start) /\ Remains(LeftOver(part), E, start)
  BY <1>3, <1>4, <1>5, <1>6, LeftOverFacts
<1> HIDE DEF upto, lines
<1>9. M \in SUBSET Nat /\ \A s \in M : Matches(LineAt(E, s), q.filter, kinds)
  BY <1>4, MatchingFacts
<1>10. W \in Seq(Nat) /\ Descending(W) /\ Members(W) = M
  BY <1>4, MatchingFacts, NewestFirstFacts DEF MatchingStarts
<1>11. Finds(shown, q, E, W, start)
  <2>1. start \in Int /\ q.pos \in Int /\ start <= q.pos
    BY <1>2, <1>3
  <2>2. QED
    BY <1>4, <1>7, <1>10, <2>1, ShownFinds
<1> HIDE DEF shown
<1> DEFINE lo == IF start = 0 THEN -1 ELSE start
<1>12. Finds(final, q, E, W, lo)
  <2>1. CASE start > 0 \/ shown.more
    <3>1. final = shown /\ (~shown.more => lo = start)
      BY <1>3, <2>1
    <3>2. QED
      BY <1>11, <3>1 DEF Finds
  <2>2. CASE ~(start > 0 \/ shown.more)
    <3>1. start = 0 /\ lo = -1 /\ ~shown.more
      BY <1>3, <2>2
    <3>2. /\ FoundBehind(shown, E, W, 0) /\ shown \in CursorQuery /\ shown.filter = q.filter
          /\ shown.limit = q.limit /\ shown.file = q.file /\ shown.end = q.end
      BY <1>11, <3>1 DEF Finds
    <3>3. CASE LeftOver(part) = <<>>
      <4>1. final = shown
        BY <3>3
      <4>2. 0 \notin M
        BY <1>8, <1>9, <3>1, <3>3 DEF Matches, Decodes
      <4>3. \A i \in 1..Len(W) : W[i] \in Nat /\ W[i] # 0
        BY <1>10, <4>2 DEF Members
      <4>4. \A i \in 1..Len(W) : 0 < W[i] <=> -1 < W[i]
        BY <4>3
      <4>5. FoundBehind(shown, E, W, -1)
        BY <3>2, <4>4 DEF FoundBehind, Above
      <4>6. QED
        BY <3>1, <3>2, <4>1, <4>5 DEF Finds
    <3>4. CASE LeftOver(part) # <<>>
      <4>1. final = Shown(shown, first)
        BY <2>2, <3>4
      <4>2. \A s \in M : -1 < s /\ s <= 0 <=> s = 0
        BY <1>9
      <4>3. Shows(first, q.filter, E, -1, 0)
        <5>1. first[0] = LineAt(E, 0) /\ DOMAIN first = {0}
          BY <1>8, <3>1
        <5>2. Matches(LineAt(E, 0), q.filter, kinds) <=> 0 \in M
          <6>1. 0 \in Starts(E)
            <7>1. Len(E) = q.end /\ q.end - 1 \in Nat
              BY <1>2, FirstBytes
            <7>2. QED
              BY <7>1 DEF Starts
          <6>2. QED
            BY <6>1 DEF Matching
        <5> HIDE DEF first, M
        <5>3. QED
          BY <4>2, <5>1, <5>2 DEF Shows, M
      <4> HIDE DEF first
      <4>4. -1 \in Int /\ 0 \in Int /\ -1 <= 0
        OBVIOUS
      <4>5. Finds(Shown(shown, first), shown, E, W, -1)
        <5>1. Members(W) = Matching(E, shown.filter, kinds) /\ Shows(first, shown.filter, E, -1, 0)
          BY <1>10, <3>2, <4>3
        <5>2. QED
          BY <1>4, <1>10, <3>2, <4>4, <5>1, ShownFinds
      <4>6. QED
        BY <3>1, <3>2, <4>1, <4>5 DEF Finds
    <3>5. QED
      BY <3>3, <3>4
  <2>3. QED
    BY <2>1, <2>2
<1> HIDE DEF final, r
<1>13. LeftOver(part) \in Seq(Nat)
  BY <1>8 DEF Remains
<1>14. /\ r \in CursorQuery /\ r.filter = final.filter /\ r.limit = final.limit /\ r.file = final.file
       /\ r.end = final.end /\ r.pos = start /\ r.rem = LeftOver(part) /\ r.items = final.items
       /\ r.oldest = final.oldest /\ r.more = final.more
  BY <1>1, <1>3, <1>12, <1>13 DEF Finds, CursorQuery
<1>15. CASE r.more
  <2>1. FoundEnough(r, E, W)
    BY <1>12, <1>14, <1>15 DEF Finds, FoundEnough
  <2>2. QED
    BY <1>3, <1>8, <1>12, <1>14, <1>15, <2>1 DEF Finds, r
<1>16. CASE ~r.more
  <2>1. FoundBehind(r, E, W, lo)
    BY <1>12, <1>14, <1>16 DEF Finds, FoundBehind
  <2>2. QED
    BY <1>3, <1>8, <1>12, <1>14, <1>16, <2>1 DEF Finds, r
<1>17. QED
  BY <1>15, <1>16

-----------------------------------------------------------------------------
(* The log only grows *)

\* Files are added and appended to.
FilesGrow(files, more) ==
    Len(files) <= Len(more) /\ \A i \in 1..Len(files) : Continues(files[i], more[i])

\* The bytes of the files are those of lines that were logged.
AllLogged(files, n) == \A i \in 1..Len(files) : Logged(files[i], n)
BytesInv == AllLogged(data, Len(kinds))

LogGrows == FilesGrow(data, data') /\ Extends(kinds, kinds')

LEMMA ByteLogged ==
    ASSUME NEW n \in Nat, NEW i, NEW ks
    PROVE  ByteOf(n, i, ks) <= n
BY DEF ByteOf, NL

LEMMA AppendGrows ==
    ASSUME NEW files \in Seq(Seq(Nat)), NEW f \in 1..Len(files), NEW b \in Seq(Nat), NEW more,
           Len(more) = Len(files), more[f] = files[f] \o b,
           \A i \in 1..Len(files) : i # f => more[i] = files[i],
           NEW m \in Nat, AllLogged(files, m), Logged(b, m)
    PROVE  FilesGrow(files, more) /\ AllLogged(more, m)
<1>1. /\ Len(more) = Len(files) /\ files[f] \in Seq(Nat)
      /\ more[f] = files[f] \o b /\ \A i \in 1..Len(files) : i # f => more[i] = files[i]
  <2>1. files[f] \in Seq(Nat)
    OBVIOUS
  <2>2. QED
    BY <2>1, Zenon
<1>2. Len(files) \in Nat /\ \A i \in 1..Len(files) : files[i] \in Seq(Nat)
  OBVIOUS
<1>3. PICK a \in Seq(Nat) : a = files[f]
  BY <1>1
<1>4. /\ Len(a \o b) = Len(a) + Len(b) /\ Continues(a, a \o b) /\ Len(a) \in Nat /\ Len(b) \in Nat
      /\ \A i \in 1..Len(b) : (a \o b)[Len(a) + i] = b[i]
  BY AppendedBytes
<1>5. Logged(a, m)
  BY <1>3 DEF AllLogged
<1>6. Logged(a \o b, m)
  <2> SUFFICES ASSUME NEW j \in 1..(Len(a) + Len(b)) PROVE (a \o b)[j] <= m
    BY <1>4 DEF Logged
  <2>1. CASE j <= Len(a)
    <3>1. j \in 1..Len(a)
      BY <1>4, <2>1
    <3>2. (a \o b)[j] = a[j] /\ a[j] <= m /\ a[j] \in Nat
      BY <1>4, <1>5, <3>1 DEF Continues, Logged
    <3>3. QED
      BY <3>2
  <2>2. CASE ~(j <= Len(a))
    <3>1. PICK i \in 1..Len(b) : j = Len(a) + i
      <4>1. j - Len(a) \in 1..Len(b) /\ j = Len(a) + (j - Len(a))
        BY <1>4, <2>2
      <4>2. QED
        BY <4>1
    <3>2. (a \o b)[j] = b[i] /\ b[i] <= m
      BY <1>4, <3>1 DEF Logged
    <3>3. QED
      BY <3>2
  <2>3. QED
    BY <2>1, <2>2
<1>7. \A i \in 1..Len(files) : Continues(files[i], more[i]) /\ Logged(more[i], m)
  <2> TAKE i \in 1..Len(files)
  <2>1. CASE i = f
    BY <1>1, <1>3, <1>4, <1>6, <2>1
  <2>2. CASE i # f
    <3>1. more[i] = files[i] /\ files[i] \in Seq(Nat) /\ Logged(files[i], m)
      BY <1>1, <1>2, <2>2 DEF AllLogged
    <3>2. PICK c \in Seq(Nat) : c = files[i]
      BY <3>1
    <3>3. Continues(c, c)
      BY DEF Continues
    <3>4. QED
      BY <3>1, <3>2, <3>3
  <2>3. QED
    BY <2>1, <2>2
<1>8. QED
  BY <1>1, <1>2, <1>7 DEF FilesGrow, AllLogged

\* More lines are logged.
LEMMA MoreLogged ==
    ASSUME NEW files \in Seq(Seq(Nat)), NEW n \in Nat, NEW m \in Nat, n <= m, AllLogged(files, n)
    PROVE  AllLogged(files, m)
<1>1. SUFFICES ASSUME NEW i \in 1..Len(files), NEW j \in 1..Len(files[i]) PROVE files[i][j] <= m
  BY DEF AllLogged, Logged
<1>2. files[i] \in Seq(Nat)
  OBVIOUS
<1>3. files[i][j] \in Nat /\ files[i][j] <= n
  BY <1>2 DEF AllLogged, Logged
<1>4. QED
  BY <1>3

\* Files that stay the same, or one more that is empty.
LEMMA NewFileGrows ==
    ASSUME NEW files \in Seq(Seq(Nat)), NEW n \in Nat, AllLogged(files, n), NEW more,
           more = files \/ more = Append(files, <<>>)
    PROVE  FilesGrow(files, more) /\ AllLogged(more, n) /\ more \in Seq(Seq(Nat))
           /\ \A i \in 1..Len(files) : i \in 1..Len(more) /\ more[i] = files[i]
<1>1. Len(files) \in Nat /\ \A i \in 1..Len(files) : files[i] \in Seq(Nat)
  OBVIOUS
<1>2. \A i \in 1..Len(files) : Continues(files[i], files[i])
  BY <1>1 DEF Continues
<1>3. CASE more = files
  BY <1>1, <1>2, <1>3 DEF FilesGrow, AllLogged
<1>4. CASE more = Append(files, <<>>)
  <2>1. /\ more \in Seq(Seq(Nat)) /\ Len(more) = Len(files) + 1 /\ more[Len(files) + 1] = <<>>
        /\ \A i \in 1..Len(files) : more[i] = files[i]
    BY <1>4
  <2>2. Logged(<<>>, n)
    BY DEF Logged
  <2>3. \A i \in 1..(Len(files) + 1) : i = Len(files) + 1 \/ i \in 1..Len(files)
    BY <1>1
  <2>4. AllLogged(more, n)
    <3> SUFFICES ASSUME NEW i \in 1..(Len(files) + 1) PROVE Logged(more[i], n)
      BY <2>1 DEF AllLogged
    <3>1. QED
      BY <2>1, <2>2, <2>3 DEF AllLogged
  <2>5. QED
    BY <1>1, <1>2, <2>1, <2>4 DEF FilesGrow
<1>5. QED
  BY <1>3, <1>4

LEMMA KindsKept ==
    ASSUME NEW ks \in Seq(Kinds)
    PROVE  Extends(ks, ks) /\ Len(ks) \in Nat
BY DEF Extends

\* Every step adds to the log, bytes of lines that are logged.
LEMMA LogStepGrows ==
    ASSUME Types, PendingInv, BytesInv, [Next]_vars
    PROVE  LogGrows /\ BytesInv'
<1>0. data \in Seq(Seq(Nat)) /\ kinds \in Seq(Kinds) /\ Len(kinds) \in Nat /\ Len(data) \in Nat
      /\ AllLogged(data, Len(kinds)) /\ rest \in Seq(Nat)
  BY DEF Types, BytesInv
<1>1. /\ FilesGrow(data, Rotated.data) /\ AllLogged(Rotated.data, Len(kinds))
      /\ Rotated.data = data \/ Rotated.data = Append(data, <<>>)
  <2>1. Rotated.data = data \/ Rotated.data = Append(data, <<>>)
    BY DEF Rotated
  <2> DEFINE d == Rotated.data
  <2>2. d = data \/ d = Append(data, <<>>)
    BY <2>1
  <2> HIDE DEF d
  <2>3. FilesGrow(data, d) /\ AllLogged(d, Len(kinds))
    BY <1>0, <2>2, NewFileGrows
  <2>4. QED
    BY <2>1, <2>3 DEF d
<1>2. ASSUME UNCHANGED <<data, kinds>> PROVE LogGrows /\ BytesInv'
  <2>1. FilesGrow(data, data) /\ Extends(kinds, kinds)
    BY <1>0, NewFileGrows, KindsKept
  <2>2. QED
    BY <1>0, <1>2, <2>1 DEF LogGrows, BytesInv
<1>3. ASSUME NEW l \in Loggers, Write(l) PROVE LogGrows /\ BytesInv'
  <2> DEFINE n == Len(kinds')
             d == Rotated.data
  <2>1. PICK new \in Seq(Nat) : /\ \A i \in 1..Len(new) : new[i] = ByteOf(n, i, kinds')
                                /\ data' = [Rotated.data EXCEPT ![Rotated.file] = @ \o new]
    BY <1>3, WriteEffect
  <2>2. n = Len(kinds) + 1 /\ kinds' \in Seq(Kinds) /\ \A i \in 1..Len(kinds) : kinds'[i] = kinds[i]
    BY <1>3, WriteEffect
  <2>3. Extends(kinds, kinds') /\ n \in Nat /\ Len(kinds) <= n
    BY <1>0, <2>2 DEF Extends
  <2>4. Logged(new, n)
    BY <2>1, <2>3, ByteLogged DEF Logged
  <2>5. d \in Seq(Seq(Nat)) /\ Rotated.file \in 1..Len(d) /\ Len(data) <= Len(d)
        /\ (\A i \in 1..Len(data) : d[i] = data[i])
    BY RotatedFile
  <2>6. data' = [d EXCEPT ![Rotated.file] = @ \o new] /\ AllLogged(d, Len(kinds))
    BY <1>1, <2>1
  <2> HIDE DEF n, d
  <2>7. FilesGrow(d, data') /\ AllLogged(data', n)
    <3>1. /\ d \in Seq(Seq(Nat)) /\ Rotated.file \in 1..Len(d) /\ new \in Seq(Nat)
          /\ Len(kinds) \in Nat /\ n \in Nat /\ Len(kinds) <= n
          /\ AllLogged(d, Len(kinds)) /\ Logged(new, n)
      BY <1>0, <2>3, <2>4, <2>5, <2>6
    <3>2. AllLogged(d, n)
      BY <3>1, MoreLogged
    <3>3. PICK f \in 1..Len(d) : f = Rotated.file
      BY <3>1
    <3>4. data' = [d EXCEPT ![f] = @ \o new]
      BY <2>6, <3>3
    <3>5. /\ Len(data') = Len(d) /\ data'[f] = d[f] \o new
          /\ \A i \in 1..Len(d) : i # f => data'[i] = d[i]
      <4>1. PICK e \in Seq(Seq(Nat)) : e = d
        BY <3>1
      <4>2. f \in 1..Len(e) /\ data' = [e EXCEPT ![f] = @ \o new]
        BY <3>4, <4>1
      <4>3. /\ Len(data') = Len(e) /\ data'[f] = e[f] \o new
            /\ \A i \in 1..Len(e) : i # f => data'[i] = e[i]
        BY <4>2, FileWritten
      <4>4. QED
        BY <4>1, <4>3
    <3>6. QED
      BY <3>1, <3>2, <3>5, AppendGrows
  <2>8. FilesGrow(data, data')
    <3>1. Len(d) \in Nat /\ Len(d) <= Len(data') /\ Len(data') \in Nat
      <4>1. data' \in Seq(Seq(Nat))
        BY <2>5, <2>6, FileWritten
      <4>2. QED
        BY <2>5, <2>7, <4>1 DEF FilesGrow
    <3>2. Len(data) <= Len(data')
      BY <1>0, <2>5, <3>1
    <3>3. \A i \in 1..Len(data) : i \in 1..Len(d)
      BY <1>0, <2>5, <3>1
    <3>4. \A i \in 1..Len(data) : Continues(data[i], data'[i])
      BY <2>5, <2>7, <3>3 DEF FilesGrow
    <3>5. QED
      BY <3>2, <3>4 DEF FilesGrow
  <2>9. QED
    BY <2>3, <2>7, <2>8 DEF LogGrows, BytesInv, n
<1>4. ASSUME NEW l \in Loggers, WriteFails(l) PROVE LogGrows /\ BytesInv'
  <2>1. UNCHANGED kinds /\ (data' = data \/ data' = Rotated.data)
    BY <1>4 DEF WriteFails
  <2>2. FilesGrow(data, data') /\ AllLogged(data', Len(kinds))
    BY <1>0, <1>1, <2>1, NewFileGrows
  <2>3. QED
    BY <1>0, <2>1, <2>2, KindsKept DEF LogGrows, BytesInv
<1>5. ASSUME FinishWrite PROVE LogGrows /\ BytesInv'
  <2> DEFINE n == Len(kinds)
             f == writer.file
  <2>1. data' = [data EXCEPT ![f] = @ \o rest] /\ UNCHANGED kinds /\ rest # <<>>
    BY <1>5 DEF FinishWrite
  <2>2. f # 0 /\ \A i \in 1..Len(rest) :
            rest[i] = ByteOf(n, kinds[n].width + 1 - Len(rest) + i, kinds)
    BY <2>1 DEF PendingInv
  <2>3. f \in 1..Len(data)
    BY <2>2, WriterToday
  <2> HIDE DEF f, n
  <2>4. n \in Nat /\ n <= n /\ AllLogged(data, n)
    BY <1>0 DEF n
  <2>5. Logged(rest, n)
    BY <2>2, <2>4, ByteLogged DEF Logged
  <2>6. FilesGrow(data, data') /\ AllLogged(data', n)
    <3>1. data \in Seq(Seq(Nat)) /\ rest \in Seq(Nat) /\ data' = [data EXCEPT ![f] = @ \o rest]
      BY <1>0, <2>1
    <3>2. /\ Len(data') = Len(data) /\ data'[f] = data[f] \o rest
          /\ \A i \in 1..Len(data) : i # f => data'[i] = data[i]
      BY <2>3, <3>1, FileWritten
    <3>3. PICK x \in 1..Len(data) : x = f
      BY <2>3
    <3>4. PICK b \in Seq(Nat) : b = rest
      BY <3>1
    <3>5. PICK d \in Seq(Seq(Nat)) : d = data
      BY <3>1
    <3>6. /\ Len(data') = Len(d) /\ data'[x] = d[x] \o b /\ x \in 1..Len(d)
          /\ \A i \in 1..Len(d) : i # x => data'[i] = d[i]
      BY <3>2, <3>3, <3>4, <3>5
    <3>7. n \in Nat /\ AllLogged(d, n) /\ Logged(b, n)
      BY <2>4, <2>5, <3>4, <3>5
    <3>8. FilesGrow(d, data') /\ AllLogged(data', n)
      BY <3>6, <3>7, AppendGrows
    <3>9. QED
      BY <3>5, <3>8
  <2>7. QED
    BY <1>0, <2>1, <2>6, KindsKept DEF LogGrows, BytesInv, n
<1>6. ASSUME \/ WriteCutShort \/ SetLoggingConfig \/ UpdateConfig \/ Cleanup \/ NextDay \/ Restart
             \/ \E l \in Loggers : Log(l)
             \/ \E d \in AskedDates : DeleteDate(d)
      PROVE  LogGrows /\ BytesInv'
  <2>1. UNCHANGED <<data, kinds>>
    BY <1>6 DEF WriteCutShort, SetLoggingConfig, UpdateConfig, Cleanup, NextDay, Restart, Log, DeleteDate, logs
  <2>2. QED
    BY <1>2, <2>1
<1>7. CASE UNCHANGED vars \/ \E c \in Clients : OpenCursor(c) \/ OpenPage(c) \/ ReaderStep(c)
  <2>1. UNCHANGED <<data, kinds>>
    BY <1>7, QueriesStandAside DEF Aside
  <2>2. QED
    BY <1>2, <2>1
<1>8. QED
  BY <1>3, <1>4, <1>5, <1>6, <1>7 DEF Next, WriterStep

-----------------------------------------------------------------------------
(* Clients that page *)

\* A cursor query that is being made, of files and kinds.
CursorGoesOn(q, files, ks) ==
    /\ q \in CursorQuery /\ ~q.more
    /\ q.file \in 1..Len(files) /\ q.end \in 1..Len(files[q.file]) /\ q.pos \in 1..q.end
    /\ LET E == SubSeq(files[q.file], 1, q.end) IN
       Remains(q.rem, E, q.pos) /\ FoundBehind(q, E, MatchingStarts(E, q.filter, ks), q.pos)

\* What a client that follows the cursors has been shown of the matching lines
\* W of the bytes E that its first query found.
Following(s, q, E, W) ==
    LET m == Len(s.got) IN
    /\ s.want = FirstLines(E, W, Len(W))
    /\ m <= Len(W) /\ s.got = FirstLines(E, W, m)
    /\ q.is = "none" =>
          IF s.answer.more THEN 1 <= m /\ m < Len(W) /\ s.answer.next = W[m]
                           ELSE m = Len(W) /\ s.answer.next = NoCursor
    /\ q.is = "cursor" =>
          q.file = s.file /\ q.filter = s.filter /\ q.end = IF m = 0 THEN Len(E) ELSE W[m]

Paged(s, q, files, ks) ==
    /\ s.file \in 1..Len(files) /\ q.is \in {"none", "cursor"}
    /\ \E end \in 0..Len(files[s.file]) :
          LET E == SubSeq(files[s.file], 1, end) IN Following(s, q, E, MatchingStarts(E, s.filter, ks))

Given == [items : Seq(Nat), more : BOOLEAN, next : Nat \union {NoCursor}]
Sessions ==
    [answer : Given, date : Dates, file : Nat, filter : {NoSession.filter} \union AskedFilters,
     want : Seq(Nat), got : Seq(Nat), count : Nat]

\* Of the queries by page it is enough that they are not made with a cursor.
ClientInv(s, q, files, ks) ==
    /\ s \in Sessions
    /\ "is" \in DOMAIN q /\ q.is \in {"none", "cursor", "tail", "count", "collect", "page"}
    /\ q.is = "cursor" => CursorGoesOn(q, files, ks)
    /\ s.file # 0 => Paged(s, q, files, ks)

ClientsInv ==
    /\ query = [c \in Clients |-> query[c]] /\ session = [c \in Clients |-> session[c]]
    /\ \A c \in Clients : ClientInv(session[c], query[c], data, kinds)

PagingInv == Types /\ PendingInv /\ BytesInv /\ ClientsInv

-----------------------------------------------------------------------------

\* The matching lines, newest first.
LEMMA StartsFacts ==
    ASSUME NEW E \in Seq(Nat), NEW f, NEW ks, NEW W, W = MatchingStarts(E, f, ks)
    PROVE  /\ W \in Seq(Nat) /\ Descending(W) /\ Members(W) = Matching(E, f, ks)
           /\ \A i \in 1..Len(W) : W[i] < Len(E) /\ (W[i] = 0 \/ E[W[i]] = NL)
<1> DEFINE M == Matching(E, f, ks)
<1>1. M \in SUBSET Nat /\ IsFiniteSet(M) /\ \A s \in M : s < Len(E) /\ (s = 0 \/ E[s] = NL)
  BY MatchingFacts
<1>2. W = NewestFirst[M]
  BY DEF MatchingStarts
<1> HIDE DEF M
<1>3. W \in Seq(Nat) /\ Descending(W) /\ Members(W) = M
  BY <1>1, <1>2, NewestFirstFacts
<1>4. \A i \in 1..Len(W) : W[i] \in M
  BY <1>3 DEF Members
<1>5. QED
  BY <1>1, <1>3, <1>4 DEF M

PrefixStays(n, end, f, files, ks, more, ms) ==
    /\ n \in 1..Len(more) /\ end \in 0..Len(more[n])
    /\ SubSeq(more[n], 1, end) = SubSeq(files[n], 1, end)
    /\ MatchingStarts(SubSeq(files[n], 1, end), f, ms) = MatchingStarts(SubSeq(files[n], 1, end), f, ks)

\* The first bytes of a file stay, and so do the lines that match in them.
LEMMA PrefixKept ==
    ASSUME NEW files \in Seq(Seq(Nat)), NEW more \in Seq(Seq(Nat)), FilesGrow(files, more),
           NEW ks \in Seq(Kinds), NEW ms, Extends(ks, ms), AllLogged(files, Len(ks)),
           NEW n, n \in 1..Len(files), NEW end, end \in 0..Len(files[n]), NEW f
    PROVE  PrefixStays(n, end, f, files, ks, more, ms)
<1>1. n \in 1..Len(more) /\ files[n] \in Seq(Nat) /\ more[n] \in Seq(Nat)
  <2>1. Len(files) <= Len(more) /\ Len(files) \in Nat /\ Len(more) \in Nat
    BY DEF FilesGrow
  <2>2. n \in 1..Len(more)
    BY <2>1
  <2>3. QED
    BY <2>2
<1>2. PICK a \in Seq(Nat) : a = files[n]
  BY <1>1
<1>3. PICK b \in Seq(Nat) : b = more[n]
  BY <1>1
<1>4. Continues(a, b) /\ Logged(a, Len(ks)) /\ end \in 0..Len(a)
  BY <1>2, <1>3 DEF FilesGrow, AllLogged
<1>5. end \in 0..Len(b)
  <2>1. Len(a) <= Len(b) /\ Len(a) \in Nat /\ Len(b) \in Nat
    BY <1>4 DEF Continues
  <2>2. QED
    BY <1>4, <2>1
<1> DEFINE E == SubSeq(a, 1, end)
<1>6. E \in Seq(Nat) /\ Len(E) = end /\ \A i \in 1..end : E[i] = a[i]
  BY <1>4, FirstBytes
<1>7. SubSeq(b, 1, end) \in Seq(Nat) /\ Len(SubSeq(b, 1, end)) = end /\ \A i \in 1..end : SubSeq(b, 1, end)[i] = b[i]
  BY <1>5, FirstBytes
<1>8. \A i \in 1..end : i \in 1..Len(a) /\ a[i] = b[i] /\ a[i] <= Len(ks)
  <2> TAKE i \in 1..end
  <2>1. i \in 1..Len(a)
    BY <1>4
  <2>2. QED
    BY <1>4, <2>1 DEF Continues, Logged
<1>9. SubSeq(b, 1, end) = E
  <2> DEFINE F == SubSeq(b, 1, end)
  <2>1. F \in Seq(Nat) /\ Len(F) = Len(E) /\ \A i \in 1..Len(E) : F[i] = E[i]
    BY <1>6, <1>7, <1>8
  <2> HIDE DEF E, F
  <2>2. E = [i \in 1..Len(E) |-> E[i]] /\ F = [i \in 1..Len(F) |-> F[i]]
    BY <1>6, <2>1
  <2>3. F = E
    BY <2>1, <2>2
  <2>4. QED
    BY <2>3 DEF F
<1>10. Logged(E, Len(ks))
  BY <1>6, <1>8 DEF Logged
<1> HIDE DEF E
<1>11. Matching(E, f, ms) = Matching(E, f, ks)
  BY <1>6, <1>10, MatchingKept
<1>12. MatchingStarts(E, f, ms) = MatchingStarts(E, f, ks)
  BY <1>11 DEF MatchingStarts
<1>13. QED
  BY <1>1, <1>2, <1>3, <1>5, <1>9, <1>12 DEF PrefixStays, E

\* What is known of a client stays when the log grows.
LEMMA ClientStays ==
    ASSUME NEW files \in Seq(Seq(Nat)), NEW more \in Seq(Seq(Nat)), FilesGrow(files, more),
           NEW ks \in Seq(Kinds), NEW ms, Extends(ks, ms), AllLogged(files, Len(ks)),
           NEW s, NEW q, ClientInv(s, q, files, ks)
    PROVE  ClientInv(s, q, more, ms)
<1>1. /\ s \in Sessions
      /\ "is" \in DOMAIN q /\ q.is \in {"none", "cursor", "tail", "count", "collect", "page"}
  BY DEF ClientInv
<1>2. ASSUME q.is = "cursor" PROVE CursorGoesOn(q, more, ms)
  <2> DEFINE n == q.file
             end == q.end
             E == SubSeq(files[n], 1, end)
  <2>1. CursorGoesOn(q, files, ks)
    BY <1>2 DEF ClientInv
  <2>2. /\ q \in CursorQuery /\ ~q.more /\ n \in 1..Len(files) /\ end \in 1..Len(files[n])
        /\ q.pos \in 1..end /\ Remains(q.rem, E, q.pos)
        /\ FoundBehind(q, E, MatchingStarts(E, q.filter, ks), q.pos)
    BY <2>1 DEF CursorGoesOn
  <2>3. PICK k \in 1..Len(files) : k = n
    BY <2>2
  <2>4. files[k] \in Seq(Nat)
    OBVIOUS
  <2>5. PICK e \in 0..Len(files[k]) : e = end /\ e \in 1..e
    BY <2>2, <2>3, <2>4
  <2>6. /\ k \in 1..Len(more) /\ e \in 0..Len(more[k])
        /\ SubSeq(more[k], 1, e) = SubSeq(files[k], 1, e)
        /\ MatchingStarts(SubSeq(files[k], 1, e), q.filter, ms) = MatchingStarts(SubSeq(files[k], 1, e), q.filter, ks)
    <3>1. PrefixStays(k, e, q.filter, files, ks, more, ms)
      BY PrefixKept
    <3>2. QED
      BY <3>1 DEF PrefixStays
  <2>7. end \in 1..Len(more[n])
    <3>1. more[k] \in Seq(Nat)
      BY <2>6
    <3>2. QED
      BY <2>3, <2>5, <2>6, <3>1
  <2>8. SubSeq(more[n], 1, end) = E /\ MatchingStarts(E, q.filter, ms) = MatchingStarts(E, q.filter, ks)
        /\ n \in 1..Len(more)
    BY <2>3, <2>5, <2>6
  <2> HIDE DEF n, end, E
  <2>9. QED
    BY <2>2, <2>7, <2>8 DEF CursorGoesOn, n, end
<1>3. ASSUME s.file # 0 PROVE Paged(s, q, more, ms)
  <2>1. Paged(s, q, files, ks)
    BY <1>3 DEF ClientInv
  <2>2. PICK n \in 1..Len(files) : n = s.file /\ q.is \in {"none", "cursor"}
    BY <2>1 DEF Paged
  <2>3. PICK end \in 0..Len(files[n]) :
           Following(s, q, SubSeq(files[n], 1, end), MatchingStarts(SubSeq(files[n], 1, end), s.filter, ks))
    BY <2>1, <2>2 DEF Paged
  <2>4. /\ n \in 1..Len(more) /\ end \in 0..Len(more[n])
        /\ SubSeq(more[n], 1, end) = SubSeq(files[n], 1, end)
        /\ MatchingStarts(SubSeq(files[n], 1, end), s.filter, ms) = MatchingStarts(SubSeq(files[n], 1, end), s.filter, ks)
    <3>1. PrefixStays(n, end, s.filter, files, ks, more, ms)
      BY PrefixKept
    <3>2. QED
      BY <3>1 DEF PrefixStays
  <2>5. Following(s, q, SubSeq(more[n], 1, end), MatchingStarts(SubSeq(more[n], 1, end), s.filter, ms))
    BY <2>3, <2>4
  <2>6. QED
    BY <2>2, <2>4, <2>5 DEF Paged
<1>4. QED
  BY <1>1, <1>2, <1>3 DEF ClientInv

\* The matching lines before a line of W are those behind it in W.
Continued(V, W, m) == m + Len(V) = Len(W) /\ \A k \in 1..Len(V) : V[k] = W[m + k]

LEMMA OffsetsBefore ==
    ASSUME NEW W \in Seq(Nat), Descending(W), NEW V \in Seq(Nat), Descending(V),
           NEW m \in 1..Len(W), NEW cut \in Nat \ {0}, cut = W[m],
           \A s : s \in Members(V) <=> s \in Members(W) /\ s < cut
    PROVE  Continued(V, W, m)
<1> DEFINE hi == cut - 1
           lo == -1
<1>1. Len(W) \in Nat /\ Len(V) \in Nat /\ m \in Nat /\ \A i \in 1..Len(W) : W[i] \in Nat
  OBVIOUS
<1>2. Between(V, W, lo, hi)
  <2>1. \A s \in Members(W) : s \in Nat
    BY DEF Members
  <2>2. \A s \in Members(W) : s < cut <=> lo < s /\ s <= hi
    BY <2>1
  <2>3. QED
    BY <2>2 DEF Between
<1>3. Above(W, m, hi)
  <2> SUFFICES ASSUME NEW i \in 1..Len(W) PROVE i <= m <=> hi < W[i]
    BY DEF Above
  <2>1. W[i] \in Nat /\ i \in Nat
    BY <1>1
  <2>2. CASE i = m
    BY <1>1, <2>1, <2>2
  <2>3. CASE i < m
    <3>1. cut < W[i]
      BY <2>3 DEF Descending
    <3>2. QED
      BY <1>1, <2>1, <2>3, <3>1
  <2>4. CASE m < i
    <3>1. W[i] < cut
      BY <2>4 DEF Descending
    <3>2. QED
      BY <1>1, <2>1, <2>4, <3>1
  <2>5. QED
    BY <1>1, <2>1, <2>2, <2>3, <2>4
<1>4. hi \in Int /\ lo \in Int /\ lo <= hi /\ m \in 0..Len(W)
  OBVIOUS
<1> HIDE DEF hi, lo
<1>5. /\ m + Len(V) <= Len(W) /\ \A k \in 1..Len(V) : V[k] = W[m + k]
      /\ lo <= hi => Above(W, m + Len(V), lo)
  BY <1>2, <1>3, <1>4, Slice
<1>6. Len(W) <= m + Len(V)
  <2>1. Len(W) \in 1..Len(W) /\ W[Len(W)] \in Nat
    BY <1>1
  <2>2. lo < W[Len(W)]
    BY <2>1 DEF lo
  <2>3. QED
    BY <1>4, <1>5, <2>1, <2>2 DEF Above
<1>7. QED
  BY <1>1, <1>5, <1>6 DEF Continued

LEMMA LinesBefore ==
    ASSUME NEW B \in Seq(Nat), NEW end \in 0..Len(B), NEW f, NEW ks,
           NEW W, W = MatchingStarts(SubSeq(B, 1, end), f, ks), NEW m \in 1..Len(W), W[m] # 0,
           NEW V, V = MatchingStarts(SubSeq(B, 1, W[m]), f, ks)
    PROVE  W[m] \in 1..end /\ V \in Seq(Nat) /\ Continued(V, W, m)
<1> DEFINE E == SubSeq(B, 1, end)
           cut == W[m]
<1>1. E \in Seq(Nat) /\ Len(E) = end /\ \A i \in 1..end : E[i] = B[i]
  BY FirstBytes
<1>2. /\ W \in Seq(Nat) /\ Descending(W) /\ Members(W) = Matching(E, f, ks)
      /\ \A i \in 1..Len(W) : W[i] < Len(E) /\ (W[i] = 0 \/ E[W[i]] = NL)
  <2>1. PICK X \in Seq(Nat) : X = E
    BY <1>1
  <2>2. W = MatchingStarts(X, f, ks)
    BY <2>1
  <2> HIDE DEF E
  <2>3. /\ W \in Seq(Nat) /\ Descending(W) /\ Members(W) = Matching(X, f, ks)
        /\ \A i \in 1..Len(W) : W[i] < Len(X) /\ (W[i] = 0 \/ X[W[i]] = NL)
    BY <2>2, StartsFacts
  <2>4. QED
    BY <2>1, <2>3
<1>3. cut \in Nat \ {0} /\ cut < end /\ E[cut] = NL /\ end \in Nat /\ Len(W) \in Nat
  BY <1>1, <1>2
<1>4. cut \in 1..end /\ B[cut] = NL /\ cut \in 0..Len(B)
  <2>1. cut \in 1..end
    BY <1>3
  <2>2. QED
    BY <1>1, <1>3, <2>1
<1>5. Matching(SubSeq(B, 1, cut), f, ks) = {s \in Matching(E, f, ks) : s < cut}
  BY <1>4, MatchingBefore
<1>6. SubSeq(B, 1, cut) \in Seq(Nat)
  BY <1>4, FirstBytes
<1> HIDE DEF E, cut
<1>7. V \in Seq(Nat) /\ Descending(V) /\ Members(V) = Matching(SubSeq(B, 1, cut), f, ks)
  BY <1>6, StartsFacts DEF cut
<1>8. \A s : s \in Members(V) <=> s \in Members(W) /\ s < cut
  BY <1>2, <1>5, <1>7
<1>9. Continued(V, W, m)
  BY <1>2, <1>3, <1>7, <1>8, OffsetsBefore DEF cut
<1>10. QED
  BY <1>4, <1>7, <1>9 DEF cut

\* What has been shown, and the page that is given next.
Turn(B, end, f, ks, limit, E, W, m, got, cut, P) ==
    /\ B \in Seq(Nat) /\ end \in 0..Len(B) /\ limit \in Nat \ {0}
    /\ E = SubSeq(B, 1, end) /\ W = MatchingStarts(E, f, ks)
    /\ m \in 0..Len(W) /\ got \in Seq(Nat) /\ got = FirstLines(E, W, m)
    /\ cut = (IF m = 0 THEN end ELSE W[m]) /\ cut # 0
    /\ P = Page(SubSeq(B, 1, cut), f, limit, ks)

GoesOn(P, got, E, W) ==
    LET g == got \o P.items IN
    /\ P \in Given /\ g \in Seq(Nat) /\ Len(g) <= Len(W) /\ g = FirstLines(E, W, Len(g))
    /\ IF P.more THEN 1 <= Len(g) /\ Len(g) < Len(W) /\ P.next = W[Len(g)]
                 ELSE Len(g) = Len(W) /\ P.next = NoCursor

LEMMA PageGoesOn ==
    ASSUME NEW B, NEW end, NEW f, NEW ks, NEW limit, NEW E, NEW W, NEW m, NEW got, NEW cut, NEW P,
           Turn(B, end, f, ks, limit, E, W, m, got, cut, P)
    PROVE  GoesOn(P, got, E, W)
<1> SUFFICES ASSUME B \in Seq(Nat), end \in 0..Len(B), limit \in Nat \ {0},
                    E = SubSeq(B, 1, end), W = MatchingStarts(E, f, ks),
                    m \in 0..Len(W), got \in Seq(Nat), got = FirstLines(E, W, m),
                    cut = (IF m = 0 THEN end ELSE W[m]), cut # 0,
                    P = Page(SubSeq(B, 1, cut), f, limit, ks)
             PROVE  GoesOn(P, got, E, W)
  BY DEF Turn
<1> DEFINE F == SubSeq(B, 1, cut)
           V == MatchingStarts(F, f, ks)
           n == IF Len(V) < limit THEN Len(V) ELSE limit
           items == FirstLines(F, V, n)
           g == got \o items
<1>1. E \in Seq(Nat) /\ Len(E) = end /\ \A i \in 1..end : E[i] = B[i]
  BY FirstBytes
<1>2. W \in Seq(Nat) /\ Len(W) \in Nat /\ m \in Nat /\ m <= Len(W) /\ limit \in Nat /\ 1 <= limit
      /\ \A i \in 1..Len(W) : W[i] \in Nat /\ W[i] < Len(E)
  <2>1. W \in Seq(Nat) /\ \A i \in 1..Len(W) : W[i] < Len(E)
    BY <1>1, StartsFacts
  <2>2. QED
    BY <2>1
<1>3. cut \in 1..end /\ V \in Seq(Nat) /\ Continued(V, W, m)
  <2>1. CASE m = 0
    <3>1. cut = end /\ F = E /\ V = W
      BY <2>1
    <3>2. cut \in 1..end
      BY <3>1
    <3>3. Continued(W, W, 0)
      BY <1>2 DEF Continued
    <3>4. QED
      BY <1>2, <2>1, <3>1, <3>2, <3>3
  <2>2. CASE m # 0
    <3>1. m \in 1..Len(W) /\ cut = W[m]
      BY <1>2, <2>2
    <3>2. QED
      BY <3>1, LinesBefore
  <2>3. QED
    BY <2>1, <2>2
<1>4. cut \in 0..Len(B) /\ F \in Seq(Nat) /\ Len(F) = cut /\ \A i \in 1..cut : F[i] = B[i]
  <2>1. cut \in 0..Len(B)
    BY <1>3
  <2>2. QED
    BY <2>1, FirstBytes
<1>5. P = [items |-> items, more |-> Len(V) > limit, next |-> IF Len(V) > limit THEN V[limit] ELSE NoCursor]
  BY DEF Page, FirstLines
<1>6. m + Len(V) = Len(W) /\ (\A k \in 1..Len(V) : V[k] = W[m + k]) /\ Len(V) \in Nat
  BY <1>3 DEF Continued
<1>7. \A k \in 1..Len(V) : F[V[k] + 1] = E[W[m + k] + 1] /\ F[V[k] + 1] \in Nat
  <2> TAKE k \in 1..Len(V)
  <2> DEFINE v == V[k]
  <2>1. v \in Nat /\ v < cut /\ v = W[m + k]
    <3>1. v < Len(F)
      <4>1. V = MatchingStarts(F, f, ks)
        OBVIOUS
      <4> HIDE DEF F, V
      <4>2. QED
        BY <1>4, <4>1, StartsFacts
    <3>2. v \in Nat
      BY <1>3
    <3>3. QED
      BY <1>4, <1>6, <3>1, <3>2
  <2> HIDE DEF v, F
  <2>2. v + 1 \in 1..cut /\ v + 1 \in 1..end
    <3>1. end \in Nat /\ cut \in Nat /\ cut <= end
      BY <1>3
    <3>2. PICK i \in Nat : i = v /\ i < cut
      BY <2>1
    <3>3. i + 1 \in 1..cut /\ i + 1 \in 1..end
      BY <3>1, <3>2
    <3>4. QED
      BY <3>2, <3>3
  <2>3. F[v + 1] = E[v + 1] /\ F[v + 1] \in Nat
    <3>1. PICK i \in 1..cut : i = v + 1 /\ i \in 1..end
      BY <2>2
    <3>2. F[i] = B[i] /\ E[i] = B[i]
      BY <1>1, <1>4, <3>1
    <3>3. F[i] \in Nat
      <4>1. B[i] \in Nat
        <5>1. i \in 1..Len(B)
          BY <1>3, <1>4, <3>1
        <5>2. QED
          BY <5>1
      <4>2. QED
        BY <3>2, <4>1, Zenon
    <3>4. QED
      BY <3>1, <3>2, <3>3
  <2>4. QED
    BY <2>1, <2>3 DEF v
<1> HIDE DEF F, V
<1>8. n \in Nat /\ n <= Len(V) /\ (Len(V) > limit => n = limit) /\ (~(Len(V) > limit) => n = Len(V))
  <2>1. PICK l \in Nat : l = Len(V)
    BY <1>6
  <2>2. n = IF l < limit THEN l ELSE limit
    BY <2>1
  <2> HIDE DEF n
  <2>3. QED
    BY <1>2, <2>1, <2>2
<1> HIDE DEF n
<1>9. items \in Seq(Nat) /\ Len(items) = n /\ \A k \in 1..n : items[k] = E[W[m + k] + 1]
  <2>1. \A k \in 1..n : k \in 1..Len(V)
    BY <1>6, <1>8
  <2>2. \A k \in 1..n : F[V[k] + 1] \in Nat /\ F[V[k] + 1] = E[W[m + k] + 1]
    BY <1>7, <2>1
  <2>3. items = [k \in 1..n |-> F[V[k] + 1]]
    BY DEF FirstLines
  <2> HIDE DEF items
  <2>4. items \in [1..n -> Nat] /\ \A k \in 1..n : items[k] = E[W[m + k] + 1]
    BY <2>2, <2>3, Zenon
  <2>5. PICK c : c = items
    OBVIOUS
  <2>6. n \in Nat /\ c \in [1..n -> Nat]
    BY <1>8, <2>4, <2>5
  <2>7. c \in Seq(Nat) /\ Len(c) = n
    BY <2>6
  <2>8. QED
    BY <2>4, <2>5, <2>7
<1> HIDE DEF items
<1>10. Len(got) = m /\ \A i \in 1..m : got[i] = E[W[i] + 1]
  <2>1. got = [i \in 1..m |-> E[W[i] + 1]]
    BY DEF FirstLines
  <2>2. DOMAIN got = 1..m /\ \A i \in 1..m : got[i] = E[W[i] + 1]
    BY <2>1, Zenon
  <2>3. Len(got) \in Nat /\ DOMAIN got = 1..Len(got)
    OBVIOUS
  <2>4. Len(got) = m
    BY <1>2, <2>2, <2>3
  <2>5. QED
    BY <2>2, <2>4
<1>11. g \in Seq(Nat) /\ Len(g) = m + n /\ (\A i \in 1..m : g[i] = got[i]) /\ \A i \in 1..n : g[m + i] = items[i]
  <2>1. /\ got \o items \in Seq(Nat) /\ Len(got \o items) = Len(got) + Len(items)
        /\ \A i \in 1..Len(got) : (got \o items)[i] = got[i]
        /\ \A i \in 1..Len(items) : (got \o items)[Len(got) + i] = items[i]
    <3>1. PICK b \in Seq(Nat) : b = items
      BY <1>9
    <3>2. /\ got \o b \in Seq(Nat) /\ Len(got \o b) = Len(got) + Len(b)
          /\ \A i \in 1..Len(got) : (got \o b)[i] = got[i]
          /\ \A i \in 1..Len(b) : (got \o b)[Len(got) + i] = b[i]
      BY AppendedBytes DEF Continues
    <3>3. QED
      BY <3>1, <3>2
  <2>2. PICK c : c = got \o items
    OBVIOUS
  <2>3. /\ c \in Seq(Nat) /\ Len(c) = m + n
        /\ (\A i \in 1..m : c[i] = got[i]) /\ \A i \in 1..n : c[m + i] = items[i]
    <3>1. PICK x, y : x = Len(got) /\ y = Len(items)
      OBVIOUS
    <3>2. /\ c \in Seq(Nat) /\ Len(c) = x + y
          /\ (\A i \in 1..x : c[i] = got[i]) /\ \A i \in 1..y : c[x + i] = items[i]
      BY <2>1, <2>2, <3>1, Zenon
    <3>3. x = m /\ y = n
      BY <1>9, <1>10, <3>1
    <3>4. QED
      BY <3>2, <3>3, Zenon
  <2>4. g = c
    BY <2>2
  <2> HIDE DEF g
  <2>5. QED
    BY <2>3, <2>4
<1> HIDE DEF g
<1>12. \A i \in 1..(m + n) : g[i] = E[W[i] + 1]
  <2> TAKE i \in 1..(m + n)
  <2>1. CASE i <= m
    <3>1. i \in 1..m
      BY <1>2, <2>1
    <3>2. QED
      BY <1>10, <1>11, <3>1
  <2>2. CASE ~(i <= m)
    <3>1. PICK k \in 1..n : i = m + k
      <4>1. i - m \in 1..n /\ i = m + (i - m)
        BY <1>2, <1>8, <2>2
      <4>2. QED
        BY <4>1
    <3>2. g[m + k] = items[k]
      BY <1>11
    <3>3. items[k] = E[W[m + k] + 1]
      BY <1>9
    <3>4. QED
      BY <3>1, <3>2, <3>3, Zenon
  <2>3. QED
    BY <2>1, <2>2
<1>13. g = FirstLines(E, W, m + n)
  <2>1. g = [i \in 1..(m + n) |-> g[i]]
    BY <1>11
  <2>2. QED
    BY <1>12, <2>1 DEF FirstLines
<1>14. m + n <= Len(W)
  BY <1>2, <1>6, <1>8
<1>15. (Len(V) > limit) \in BOOLEAN /\ P.items = items /\ P.more = (Len(V) > limit)
       /\ P.next = IF Len(V) > limit THEN V[limit] ELSE NoCursor
  BY <1>5
<1>16. CASE Len(V) > limit
  <2>1. n = limit /\ limit \in 1..Len(V)
    BY <1>2, <1>6, <1>8, <1>16
  <2>2. V[limit] \in Nat /\ V[limit] = W[m + limit]
    <3>1. \A k \in 1..Len(V) : V[k] = W[m + k]
      BY <1>6
    <3>2. V[limit] = W[m + limit]
      BY <2>1, <3>1
    <3>3. V[limit] \in Nat
      <4>1. V \in Seq(Nat)
        BY <1>3
      <4>2. QED
        BY <2>1, <4>1
    <3>4. QED
      BY <3>2, <3>3
  <2>3. P \in Given
    <3>1. P = [items |-> items, more |-> TRUE, next |-> V[limit]]
      BY <1>5, <1>16
    <3>2. V[limit] \in Nat /\ items \in Seq(Nat)
      BY <1>9, <2>2
    <3>3. [items |-> items, more |-> TRUE, next |-> V[limit]] \in Given
      BY <3>2 DEF Given
    <3>4. QED
      BY <3>1, <3>3, Zenon
  <2>4. 1 <= m + n /\ m + n < Len(W)
    BY <1>2, <1>6, <1>16, <2>1
  <2>5. P.items = items /\ P.more = TRUE /\ P.next = W[m + n]
    BY <1>15, <1>16, <2>1, <2>2
  <2>6. g \in Seq(Nat) /\ Len(g) = m + n /\ g = got \o items
    BY <1>11 DEF g
  <2>7. QED
    BY <1>13, <1>14, <2>3, <2>4, <2>5, <2>6 DEF GoesOn
<1>17. CASE ~(Len(V) > limit)
  <2>1. n = Len(V)
    BY <1>8, <1>17
  <2>2. P \in Given
    <3>1. P = [items |-> items, more |-> FALSE, next |-> NoCursor]
      <4> DEFINE x == Len(V) > limit
      <4>1. x = FALSE
        BY <1>17
      <4>2. P = [items |-> items, more |-> x, next |-> IF x THEN V[limit] ELSE NoCursor]
        BY <1>5
      <4> HIDE DEF x
      <4>3. QED
        BY <4>1, <4>2
    <3>2. items \in Seq(Nat)
      BY <1>9
    <3>3. [items |-> items, more |-> FALSE, next |-> NoCursor] \in Given
      BY <3>2 DEF Given
    <3>4. QED
      BY <3>1, <3>3, Zenon
  <2>3. m + n = Len(W)
    BY <1>6, <2>1
  <2>4. QED
    BY <1>11, <1>13, <1>14, <1>15, <1>17, <2>2, <2>3 DEF GoesOn, g
<1>18. QED
  BY <1>16, <1>17

\* What the assumptions say of what is asked and of what is answered.
LEMMA PagingConstants ==
    /\ NoCursor \notin Nat /\ 1 \in Dates /\ \A limit \in AskedLimits : limit \in Nat \ {0}
    /\ Nothing \in Given /\ Nothing.items = <<>> /\ Nothing.more = FALSE /\ Nothing.next = NoCursor
<1>1. NoCursor \notin Nat /\ 1 \in Dates
  BY GatewayLogAssumption DEF Dates
<1>2. \A limit \in AskedLimits : limit \in Nat \ {0}
  BY GatewayLogAssumption DEF AskedLimits
<1>3. Nothing \in Given /\ Nothing.items = <<>> /\ Nothing.more = FALSE /\ Nothing.next = NoCursor
  BY DEF Nothing, Given
<1>4. QED
  BY <1>1, <1>2, <1>3

\* A client that has asked nothing but for pages.
LEMMA FreshSession ==
    ASSUME NEW n \in Nat
    PROVE  LET s == [NoSession EXCEPT !.count = n]
           IN  s \in Sessions /\ s.file = 0 /\ s.answer = Nothing
<1> DEFINE f == CHOOSE f \in AskedFilters : TRUE
<1>1. NoSession = [answer |-> Nothing, date |-> 1, file |-> 0, filter |-> f, want |-> <<>>, got |-> <<>>, count |-> 0]
  BY DEF NoSession
<1> HIDE DEF f
<1>2. NoSession.filter = f
  BY <1>1
<1>3. [NoSession EXCEPT !.count = n] =
          [answer |-> Nothing, date |-> 1, file |-> 0, filter |-> f, want |-> <<>>, got |-> <<>>, count |-> n]
  BY <1>1
<1>4. /\ Nothing \in Given /\ 1 \in Dates /\ 0 \in Nat /\ f \in {NoSession.filter} \union AskedFilters
      /\ <<>> \in Seq(Nat)
  BY <1>2, PagingConstants
<1>5. QED
  BY <1>3, <1>4 DEF Sessions

\* No other client is concerned.
LEMMA OneClient ==
    ASSUME ClientsInv, NEW c \in Clients, NEW s, NEW q, ClientInv(s, q, data, kinds),
           session' = [session EXCEPT ![c] = s], query' = [query EXCEPT ![c] = q], UNCHANGED <<data, kinds>>
    PROVE  ClientsInv'
<1>1. /\ query = [x \in Clients |-> query[x]] /\ session = [x \in Clients |-> session[x]]
      /\ \A x \in Clients : ClientInv(session[x], query[x], data, kinds)
  BY DEF ClientsInv
<1>2. query' = [x \in Clients |-> IF x = c THEN q ELSE query[x]]
      /\ session' = [x \in Clients |-> IF x = c THEN s ELSE session[x]]
  BY <1>1
<1>3. query' = [x \in Clients |-> query'[x]] /\ session' = [x \in Clients |-> session'[x]]
  BY <1>2
<1>4. \A x \in Clients : ClientInv(session'[x], query'[x], data', kinds')
  <2> TAKE x \in Clients
  <2>1. CASE x = c
    <3>1. session'[x] = s /\ query'[x] = q
      BY <1>2, <2>1
    <3>2. QED
      BY <3>1
  <2>2. CASE x # c
    <3>1. session'[x] = session[x] /\ query'[x] = query[x]
      BY <1>2, <2>2
    <3>2. QED
      BY <1>1, <3>1
  <2>3. QED
    BY <2>1, <2>2
<1>5. QED
  BY <1>3, <1>4 DEF ClientsInv

\* A query that begins with a cursor.
CursorBegun(f, limit, file, end) ==
    [is |-> "cursor", filter |-> f, limit |-> limit, file |-> file, end |-> end,
     pos |-> end, rem |-> <<>>, first |-> TRUE, items |-> <<>>, oldest |-> 0, more |-> FALSE]

LEMMA CursorBegins ==
    ASSUME NEW files \in Seq(Seq(Nat)), NEW ks, NEW file \in 1..Len(files), NEW end \in 1..Len(files[file]),
           NEW f \in AskedFilters, NEW limit \in Nat \ {0}
    PROVE  CursorGoesOn(CursorBegun(f, limit, file, end), files, ks)
<1> DEFINE q == CursorBegun(f, limit, file, end)
           E == SubSeq(files[file], 1, end)
           W == MatchingStarts(E, f, ks)
<1>1. files[file] \in Seq(Nat) /\ Len(files) \in Nat
  OBVIOUS
<1>2. Len(files[file]) \in Nat /\ end \in Nat /\ end \in 0..Len(files[file]) /\ file \in Nat /\ end \in 1..end
  BY <1>1
<1>3. E \in Seq(Nat) /\ Len(E) = end
  BY <1>1, <1>2, FirstBytes
<1>4. /\ q.is = "cursor" /\ q.filter = f /\ q.limit = limit /\ q.file = file /\ q.end = end /\ q.pos = end
      /\ q.rem = <<>> /\ q.items = <<>> /\ ~q.more
  BY DEF CursorBegun
<1>5. q \in CursorQuery
  BY <1>2 DEF CursorBegun, CursorQuery
<1> HIDE DEF q, E
<1>6. W \in Seq(Nat) /\ \A i \in 1..Len(W) : W[i] < end
  <2>1. PICK V : V = W
    OBVIOUS
  <2>2. V \in Seq(Nat) /\ \A i \in 1..Len(V) : V[i] < Len(E)
    BY <1>3, <2>1, StartsFacts
  <2>3. QED
    BY <1>3, <2>1, <2>2
<1> HIDE DEF W
<1>7. Above(W, 0, end)
  <2> SUFFICES ASSUME NEW i \in 1..Len(W) PROVE i <= 0 <=> end < W[i]
    BY DEF Above
  <2>1. W[i] \in Nat /\ W[i] < end
    BY <1>6
  <2>2. QED
    BY <1>2, <2>1
<1>8. FoundBehind(q, E, W, end)
  <2>1. Len(q.items) = 0 /\ Len(W) \in Nat
    BY <1>4, <1>6
  <2>2. FirstLines(E, W, 0) = <<>>
    BY DEF FirstLines
  <2>3. 0 <= q.limit /\ 0 <= Len(W)
    BY <1>4, <2>1
  <2>4. QED
    BY <1>4, <1>7, <2>1, <2>2, <2>3 DEF FoundBehind
<1>9. Remains(<<>>, E, end)
  BY <1>2, <1>3 DEF Remains
<1>10. QED
  BY <1>2, <1>4, <1>5, <1>8, <1>9 DEF CursorGoesOn, q, E, W

\* The cursor of the last answer, when the file of the session is there still.
LEMMA CursorFollows ==
    ASSUME NEW files \in Seq(Seq(Nat)), NEW ks, NEW s, NEW q, ClientInv(s, q, files, ks), s.file # 0,
           q.is # "cursor", s.answer.next # NoCursor
    PROVE  /\ q.is = "none" /\ s.file \in 1..Len(files) /\ s.answer.next \in 1..Len(files[s.file])
           /\ \E end \in 0..Len(files[s.file]) :
                 LET E == SubSeq(files[s.file], 1, end)
                     W == MatchingStarts(E, s.filter, ks)
                 IN  /\ Following(s, q, E, W)
                     /\ Len(s.got) # 0 /\ s.answer.next = W[Len(s.got)]
<1>1. Paged(s, q, files, ks) /\ s \in Sessions
  BY DEF ClientInv
<1>2. PICK n \in 1..Len(files) : n = s.file /\ q.is = "none"
  BY <1>1 DEF Paged
<1>3. files[n] \in Seq(Nat)
  OBVIOUS
<1>4. PICK end \in 0..Len(files[n]) :
         Following(s, q, SubSeq(files[n], 1, end), MatchingStarts(SubSeq(files[n], 1, end), s.filter, ks))
  BY <1>1, <1>2 DEF Paged
<1> DEFINE E == SubSeq(files[n], 1, end)
           m == Len(s.got)
<1>5. PICK W : W = MatchingStarts(E, s.filter, ks)
  OBVIOUS
<1>6. E \in Seq(Nat) /\ Len(E) = end
  BY <1>3, FirstBytes
<1>7. Following(s, q, E, W)
  BY <1>4, <1>5
<1> HIDE DEF E
<1>8. W \in Seq(Nat) /\ Descending(W) /\ \A i \in 1..Len(W) : W[i] < end
  BY <1>5, <1>6, StartsFacts
<1>9. 1 <= m /\ m < Len(W) /\ s.answer.next = W[m] /\ m \in Nat
  <2>1. m \in Nat
    BY <1>1 DEF Sessions
  <2>2. s.answer.more
    BY <1>2, <1>7 DEF Following
  <2>3. QED
    BY <1>2, <1>7, <2>1, <2>2 DEF Following
<1> HIDE DEF m
<1>10. s.answer.next \in 1..Len(files[n])
  <2>1. m \in 1..Len(W) /\ m + 1 \in 1..Len(W) /\ m < m + 1
    BY <1>8, <1>9
  <2>2. W[m] \in Nat /\ W[m + 1] \in Nat /\ W[m + 1] < W[m] /\ W[m] < end
    <3>1. PICK i \in 1..Len(W) : i = m
      BY <2>1
    <3>2. PICK j \in 1..Len(W) : j = m + 1
      BY <2>1
    <3>3. i < j
      BY <2>1, <3>1, <3>2
    <3>4. W[i] \in Nat /\ W[j] \in Nat /\ W[i] < end
      <4>1. W \in Seq(Nat)
        BY <1>8
      <4>2. W[i] \in Nat
        BY <4>1
      <4>3. W[j] \in Nat
        BY <4>1
      <4>4. QED
        BY <1>8, <4>2, <4>3
    <3>5. W[j] < W[i]
      BY <1>8, <3>3 DEF Descending
    <3>6. QED
      BY <3>1, <3>2, <3>4, <3>5
  <2>3. PICK l \in Nat : l = Len(files[n])
    BY <1>3
  <2>4. end <= l /\ end \in Nat
    BY <2>3
  <2>5. W[m] \in 1..l
    BY <2>2, <2>4
  <2>6. QED
    BY <1>9, <2>3, <2>5
<1>11. m # 0
  BY <1>9
<1>12. QED
  BY <1>2, <1>5, <1>7, <1>9, <1>10, <1>11 DEF E, m

\* A client that is given an answer.
LEMMA SessionAnswered ==
    ASSUME NEW s \in Sessions, NEW a \in Given
    PROVE  LET t == Answered(s, a) IN
           /\ t \in Sessions /\ t.answer = a /\ t.got = s.got \o a.items /\ t.want = s.want
           /\ t.file = s.file /\ t.filter = s.filter /\ t.count = s.count
<1> DEFINE t == Answered(s, a)
           got == s.got \o a.items
<1>1. s.got \in Seq(Nat) /\ a.items \in Seq(Nat)
  BY DEF Sessions, Given
<1>2. got \in Seq(Nat)
  BY <1>1, AppendedBytes
<1>3. t = [s EXCEPT !.answer = a, !.got = got]
  BY DEF Answered, Sessions
<1> HIDE DEF t, got
<1>4. t \in Sessions
  BY <1>2, <1>3 DEF Sessions
<1>5. /\ t.answer = a /\ t.got = got /\ t.want = s.want
      /\ t.file = s.file /\ t.filter = s.filter /\ t.count = s.count
  BY <1>3 DEF Sessions
<1>6. QED
  BY <1>4, <1>5 DEF t, got

\* A query that begins with a cursor, or is answered at once.
Begun(began, f, end, bytes, files, ks, file, limit) ==
    /\ file = 0 \/ end > Len(bytes) \/ end = 0 => ClientInv(Answered(began, Nothing), NoQuery, files, ks)
    /\ file # 0 /\ end <= Len(bytes) /\ end # 0 => ClientInv(began, CursorBegun(f, limit, file, end), files, ks)
    /\ end \in Nat /\ began \in Sessions

\* A client that asks for more where its last answer ended.
MayGoOn(s, q, files, ks, next, file, limit, began) ==
    /\ files \in Seq(Seq(Nat)) /\ ClientInv(s, q, files, ks) /\ q.is # "cursor"
    /\ next = s.answer.next /\ next # NoCursor /\ file \in 0..Len(files) /\ limit \in Nat \ {0}
    /\ s.filter \in AskedFilters
    /\ began = [s EXCEPT !.count = @ + 1, !.file = IF file = @ THEN @ ELSE 0]

LEMMA ClientGoesOn ==
    ASSUME NEW s, NEW q, NEW files, NEW ks, NEW next, NEW file, NEW limit, NEW began,
           MayGoOn(s, q, files, ks, next, file, limit, began)
    PROVE  Begun(began, s.filter, next, files[file], files, ks, file, limit)
<1> SUFFICES ASSUME files \in Seq(Seq(Nat)), ClientInv(s, q, files, ks), q.is # "cursor",
                    next = s.answer.next, next # NoCursor, file \in 0..Len(files), limit \in Nat \ {0},
                    s.filter \in AskedFilters,
                    began = [s EXCEPT !.count = @ + 1, !.file = IF file = @ THEN @ ELSE 0]
             PROVE  /\ file = 0 \/ next > Len(files[file]) \/ next = 0 =>
                          ClientInv(Answered(began, Nothing), NoQuery, files, ks)
                    /\ file # 0 /\ next <= Len(files[file]) /\ next # 0 =>
                          ClientInv(began, CursorBegun(s.filter, limit, file, next), files, ks)
                    /\ next \in Nat /\ began \in Sessions
  BY Zenon DEF MayGoOn, Begun
<1> DEFINE f == s.filter
           new == CursorBegun(f, limit, file, next)
           ended == Answered(began, Nothing)
<1>1. s \in Sessions
  BY DEF ClientInv
<1>2. next \in Nat
  <2>1. s.answer \in Given
    BY <1>1 DEF Sessions
  <2>2. QED
    BY <2>1 DEF Given
<1>3. /\ began \in Sessions /\ began.answer = s.answer /\ began.filter = f /\ began.want = s.want
      /\ began.got = s.got /\ began.file = (IF file = s.file THEN s.file ELSE 0)
  <2> DEFINE at == IF file = s.file THEN s.file ELSE 0
             n == s.count + 1
  <2>1. began = [s EXCEPT !.count = n, !.file = at]
    BY <1>1 DEF Sessions
  <2>2. at \in Nat /\ n \in Nat
    BY <1>1 DEF Sessions
  <2> HIDE DEF at, n
  <2>3. began \in Sessions
    BY <1>1, <2>1, <2>2 DEF Sessions
  <2>4. /\ began.answer = s.answer /\ began.filter = f /\ began.want = s.want
        /\ began.got = s.got /\ began.file = at
    BY <1>1, <2>1 DEF Sessions
  <2>5. QED
    BY <2>3, <2>4 DEF at
<1>4. began.file # 0 => file = s.file /\ s.file # 0
  BY <1>3
<1>5. s.file # 0 =>
         /\ q.is = "none" /\ s.file \in 1..Len(files) /\ next \in 1..Len(files[s.file])
         /\ \E end \in 0..Len(files[s.file]) :
               LET E == SubSeq(files[s.file], 1, end)
                   W == MatchingStarts(E, f, ks)
               IN  Following(s, q, E, W) /\ Len(s.got) # 0 /\ next = W[Len(s.got)]
  BY CursorFollows
<1>6. ASSUME file = 0 \/ next > Len(files[file]) \/ next = 0 PROVE ClientInv(ended, NoQuery, files, ks)
  <2>1. began.file = 0
    <3> SUFFICES ASSUME file = s.file, s.file # 0 PROVE FALSE
      BY <1>4
    <3>1. next \in 1..Len(files[file]) /\ file \in 1..Len(files)
      BY <1>5
    <3>2. files[file] \in Seq(Nat)
      BY <3>1
    <3>3. PICK l \in Nat : l = Len(files[file])
      <4>1. Len(files[file]) \in Nat
        BY <3>2
      <4>2. QED
        BY <4>1
    <3>4. next <= l /\ next # 0 /\ ~(next > l)
      BY <1>2, <3>1, <3>3
    <3>5. QED
      BY <1>6, <3>3, <3>4
  <2>2. ended \in Sessions /\ ended.file = began.file
    BY <1>3, PagingConstants, SessionAnswered
  <2>3. NoQuery.is = "none" /\ "is" \in DOMAIN NoQuery
    BY DEF NoQuery
  <2>4. QED
    BY <2>1, <2>2, <2>3 DEF ClientInv
<1>7. ASSUME file # 0, next <= Len(files[file]), next # 0 PROVE ClientInv(began, new, files, ks)
  <2>1. file \in 1..Len(files) /\ next \in 1..Len(files[file])
    <3>1. file \in 1..Len(files)
      BY <1>7
    <3>2. files[file] \in Seq(Nat)
      BY <3>1
    <3>3. PICK l \in Nat : l = Len(files[file])
      <4>1. Len(files[file]) \in Nat
        BY <3>2
      <4>2. QED
        BY <4>1
    <3>4. next \in 1..l
      BY <1>2, <1>7, <3>3
    <3>5. QED
      BY <3>1, <3>3, <3>4
  <2>2. CursorGoesOn(new, files, ks)
    BY <2>1, CursorBegins
  <2>3. new.is = "cursor" /\ "is" \in DOMAIN new /\ new.file = file /\ new.filter = f /\ new.end = next
    BY DEF CursorBegun
  <2>4. ASSUME began.file # 0 PROVE Paged(began, new, files, ks)
    <3>1. file = s.file /\ s.file # 0 /\ began.file = s.file
      BY <1>3, <1>4, <2>4
    <3>2. PICK end \in 0..Len(files[s.file]) :
             LET E == SubSeq(files[s.file], 1, end)
                 W == MatchingStarts(E, f, ks)
             IN  Following(s, q, E, W) /\ Len(s.got) # 0 /\ next = W[Len(s.got)]
      BY <1>5, <3>1
    <3> DEFINE E == SubSeq(files[s.file], 1, end)
               W == MatchingStarts(E, f, ks)
    <3>3. Following(s, q, E, W) /\ Len(s.got) # 0 /\ next = W[Len(s.got)]
      BY <3>2
    <3> HIDE DEF E, W, new
    <3>4. Following(began, new, E, W)
      BY <1>3, <2>3, <3>1, <3>3 DEF Following
    <3>5. QED
      BY <1>3, <2>1, <2>3, <3>1, <3>4 DEF Paged, E, W
  <2> HIDE DEF new
  <2>5. QED
    BY <1>3, <2>2, <2>3, <2>4 DEF ClientInv
<1>8. QED
  BY <1>2, <1>3, <1>6, <1>7

\* A client that asks anew.
MayBegin(f, d, n, files, ks, bytes, file, limit, began) ==
    /\ files \in Seq(Seq(Nat)) /\ file \in 0..Len(files) /\ limit \in Nat \ {0}
    /\ f \in AskedFilters /\ d \in Dates /\ n \in Nat
    /\ bytes = IF file = 0 THEN <<>> ELSE files[file]
    /\ began = [NoSession EXCEPT !.date = d, !.filter = f, !.file = file, !.count = n + 1,
                                 !.want = MatchingLines(bytes, f, ks)]

LEMMA ClientBegins ==
    ASSUME NEW f, NEW d, NEW n, NEW files, NEW ks, NEW bytes, NEW file, NEW limit, NEW began,
           MayBegin(f, d, n, files, ks, bytes, file, limit, began)
    PROVE  Begun(began, f, Len(bytes), bytes, files, ks, file, limit)
<1> SUFFICES ASSUME files \in Seq(Seq(Nat)), file \in 0..Len(files), limit \in Nat \ {0},
                    f \in AskedFilters, d \in Dates, n \in Nat,
                    bytes = (IF file = 0 THEN <<>> ELSE files[file]),
                    began = [NoSession EXCEPT !.date = d, !.filter = f, !.file = file, !.count = n + 1,
                                              !.want = MatchingLines(bytes, f, ks)]
             PROVE  Begun(began, f, Len(bytes), bytes, files, ks, file, limit)
  BY Zenon DEF MayBegin
<1> DEFINE want == MatchingLines(bytes, f, ks)
           end == Len(bytes)
           new == CursorBegun(f, limit, file, end)
           ended == Answered(began, Nothing)
<1>1. bytes \in Seq(Nat) /\ end \in Nat
  <2>1. CASE file = 0
    <3>1. bytes = <<>>
      BY <2>1
    <3>2. QED
      BY <3>1
  <2>2. CASE file # 0
    <3>1. file \in 1..Len(files)
      BY <2>2
    <3>2. files[file] \in Seq(Nat)
      BY <3>1
    <3>3. QED
      BY <2>2, <3>2
  <2>3. QED
    BY <2>1, <2>2
<1> HIDE DEF end
<1>2. PICK W : W = MatchingStarts(bytes, f, ks)
  OBVIOUS
<1>3. W \in Seq(Nat) /\ \A i \in 1..Len(W) : W[i] < end
  BY <1>1, <1>2, StartsFacts DEF end
<1>4. want = FirstLines(bytes, W, Len(W))
  <2>1. DOMAIN W = 1..Len(W)
    BY <1>3
  <2>2. QED
    BY <1>2, <2>1 DEF MatchingLines, FirstLines
<1> HIDE DEF want
<1>5. want \in Seq(Nat)
  <2>1. \A i \in 1..Len(W) : bytes[W[i] + 1] \in Nat
    <3> TAKE i \in 1..Len(W)
    <3>1. PICK w \in Nat : w = W[i] /\ w < end
      <4>1. W[i] \in Nat
        BY <1>3
      <4>2. QED
        BY <1>3, <4>1
    <3>2. w + 1 \in 1..end
      BY <1>1, <3>1
    <3>3. bytes[w + 1] \in Nat
      BY <1>1, <3>2 DEF end
    <3>4. QED
      BY <3>1, <3>3
  <2>2. Len(W) \in Nat
    BY <1>3
  <2>3. want = [i \in 1..Len(W) |-> bytes[W[i] + 1]]
    BY <1>4 DEF FirstLines
  <2>4. want \in [1..Len(W) -> Nat]
    BY <2>1, <2>3, Zenon
  <2>5. QED
    BY <2>2, <2>4
<1>6. began = [answer |-> Nothing, date |-> d, file |-> file, filter |-> f, want |-> want, got |-> <<>>,
               count |-> n + 1]
  BY DEF NoSession, want
<1>7. /\ began \in Sessions /\ began.answer = Nothing /\ began.filter = f /\ began.want = want
      /\ began.got = <<>> /\ began.file = file
  <2>1. Nothing \in Given /\ file \in Nat /\ <<>> \in Seq(Nat) /\ n + 1 \in Nat
    BY PagingConstants
  <2>2. PICK k \in Nat : k = n + 1
    BY <2>1
  <2>3. PICK fs : fs = {NoSession.filter} \union AskedFilters
    OBVIOUS
  <2>4. f \in fs /\ d \in Dates
    BY <2>3
  <2>5. began = [answer |-> Nothing, date |-> d, file |-> file, filter |-> f, want |-> want, got |-> <<>>,
                 count |-> k]
    BY <1>6, <2>2
  <2> DEFINE rec == [answer |-> Nothing, date |-> d, file |-> file, filter |-> f, want |-> want, got |-> <<>>,
                     count |-> k]
  <2>6. rec \in [answer : Given, date : Dates, file : Nat, filter : fs, want : Seq(Nat), got : Seq(Nat), count : Nat]
    BY <1>5, <2>1, <2>4
  <2>7. rec \in Sessions
    BY <2>3, <2>6, Zenon DEF Sessions
  <2>8. /\ rec.answer = Nothing /\ rec.filter = f /\ rec.want = want /\ rec.got = <<>> /\ rec.file = file
    OBVIOUS
  <2>9. began = rec
    BY <2>5, Zenon
  <2> HIDE DEF rec
  <2>10. QED
    BY <2>7, <2>8, <2>9, Zenon
<1>8. began.got \o Nothing.items = <<>>
  BY <1>7, PagingConstants
<1>10. /\ ended \in Sessions /\ ended.answer = Nothing /\ ended.filter = f /\ ended.want = want
       /\ ended.got = <<>> /\ ended.file = file
  <2>1. /\ ended \in Sessions /\ ended.answer = Nothing /\ ended.filter = began.filter /\ ended.want = began.want
        /\ ended.got = began.got \o Nothing.items /\ ended.file = began.file
    <3>1. PICK s \in Sessions : s = began
      BY <1>7, Zenon
    <3>2. PICK t : t = Answered(s, Nothing)
      OBVIOUS
    <3>3. /\ t \in Sessions /\ t.answer = Nothing /\ t.filter = s.filter /\ t.want = s.want
          /\ t.got = s.got \o Nothing.items /\ t.file = s.file
      BY <3>2, PagingConstants, SessionAnswered
    <3>4. QED
      BY <3>1, <3>2, <3>3, Zenon
  <2> HIDE DEF ended
  <2>2. QED
    BY <1>7, <1>8, <2>1, Zenon
<1> HIDE DEF ended
<1>11. FirstLines(bytes, W, 0) = <<>> /\ Len(W) \in Nat
  BY <1>3 DEF FirstLines
<1>12. ASSUME file # 0 PROVE bytes = files[file] /\ SubSeq(files[file], 1, end) = bytes /\ file \in 1..Len(files)
                             /\ end \in 0..Len(files[file])
  <2>1. bytes = files[file] /\ file \in 1..Len(files)
    BY <1>12
  <2>2. SubSeq(bytes, 1, Len(bytes)) = bytes
    BY <1>1
  <2>3. QED
    BY <1>1, <2>1, <2>2 DEF end
<1>13. ASSUME file = 0 \/ end = 0 PROVE ClientInv(ended, NoQuery, files, ks)
  <2>1. NoQuery.is = "none" /\ "is" \in DOMAIN NoQuery
    BY DEF NoQuery
  <2>2. ASSUME file # 0 PROVE Paged(ended, NoQuery, files, ks)
    <3>1. Len(W) = 0
      <4> SUFFICES ASSUME Len(W) # 0 PROVE FALSE
        OBVIOUS
      <4>1. 1 \in 1..Len(W)
        BY <1>11
      <4>2. W[1] < end /\ end = 0
        BY <1>3, <1>13, <2>2, <4>1
      <4>3. W[1] \in Nat
        BY <1>3, <4>1
      <4>4. QED
        BY <4>2, <4>3
    <3>2. Following(ended, NoQuery, bytes, W)
      BY <1>4, <1>10, <1>11, <2>1, <3>1, PagingConstants DEF Following
    <3>3. Following(ended, NoQuery, SubSeq(files[file], 1, end), MatchingStarts(SubSeq(files[file], 1, end), f, ks))
      BY <1>2, <1>12, <2>2, <3>2
    <3>4. QED
      BY <1>10, <1>12, <2>1, <2>2, <3>3 DEF Paged
  <2>3. QED
    BY <1>10, <2>1, <2>2 DEF ClientInv
<1>14. ASSUME file # 0, end # 0 PROVE ClientInv(began, new, files, ks)
  <2>1. file \in 1..Len(files) /\ end \in 1..Len(files[file]) /\ Len(bytes) = end
    BY <1>1, <1>12, <1>14 DEF end
  <2>2. CursorGoesOn(new, files, ks)
    BY <2>1, CursorBegins
  <2>3. new.is = "cursor" /\ "is" \in DOMAIN new /\ new.file = file /\ new.filter = f /\ new.end = end
    BY DEF CursorBegun
  <2> HIDE DEF new
  <2>4. Following(began, new, bytes, W)
    <3>1. Len(began.got) = 0 /\ 0 <= Len(W)
      BY <1>7, <1>11
    <3>2. QED
      BY <1>4, <1>7, <1>11, <2>1, <2>3, <3>1 DEF Following
  <2>5. Following(began, new, SubSeq(files[file], 1, end), MatchingStarts(SubSeq(files[file], 1, end), f, ks))
    BY <1>2, <1>12, <1>14, <2>4
  <2>6. Paged(began, new, files, ks)
    BY <1>7, <1>12, <1>14, <2>3, <2>5 DEF Paged
  <2>7. QED
    BY <1>7, <2>2, <2>3, <2>6 DEF ClientInv
<1>15. /\ file = 0 \/ end = 0 => ClientInv(ended, NoQuery, files, ks)
       /\ file # 0 /\ end # 0 => ClientInv(began, new, files, ks)
       /\ end \in Nat
  BY <1>1, <1>13, <1>14
<1>16. ~(end > end)
  BY <1>1
<1>17. QED
  BY <1>7, <1>15, <1>16, Zenon DEF end, ended, Begun

\* A client whose query has read a chunk.
AfterChunk(s, q, r) ==
    IF r.more \/ r.pos = 0
    THEN /\ ClientInv(Answered(s, Answer(r)), NoQuery, data, kinds)
         /\ Answer(r) = Page(SubSeq(data[q.file], 1, q.end), q.filter, q.limit, kinds)
    ELSE /\ ClientInv(s, r, data, kinds)
         /\ r.is = "cursor" /\ r.file = q.file /\ r.end = q.end /\ r.filter = q.filter /\ r.limit = q.limit

LEMMA ChunkGoesOn ==
    ASSUME data \in Seq(Seq(Nat)), NEW s, NEW q, ClientInv(s, q, data, kinds), q.is = "cursor",
           NEW r, r = ChunkRead(q)
    PROVE  AfterChunk(s, q, r)
<1> SUFFICES IF r.more \/ r.pos = 0
             THEN /\ ClientInv(Answered(s, Answer(r)), NoQuery, data, kinds)
                  /\ Answer(r) = Page(SubSeq(data[q.file], 1, q.end), q.filter, q.limit, kinds)
             ELSE /\ ClientInv(s, r, data, kinds)
                  /\ r.is = "cursor" /\ r.file = q.file /\ r.end = q.end /\ r.filter = q.filter /\ r.limit = q.limit
  BY DEF AfterChunk
<1> DEFINE n == q.file
           end == q.end
           f == q.filter
<1>1. CursorGoesOn(q, data, kinds) /\ s \in Sessions /\ (s.file # 0 => Paged(s, q, data, kinds))
  BY DEF ClientInv
<1>2. q \in CursorQuery /\ ~q.more /\ n \in 1..Len(data) /\ end \in 1..Len(data[n]) /\ q.pos \in 1..end
  BY <1>1 DEF CursorGoesOn
<1>3. PICK B \in Seq(Nat) : B = data[n]
  BY <1>2
<1>4. PICK E \in Seq(Nat) : E = SubSeq(B, 1, end)
  <2>1. end \in 0..Len(B)
    BY <1>2, <1>3
  <2>2. QED
    BY <2>1, FirstBytes
<1>5. PICK W : W = MatchingStarts(E, f, kinds)
  OBVIOUS
<1>6. Remains(q.rem, E, q.pos) /\ FoundBehind(q, E, W, q.pos)
  BY <1>1, <1>3, <1>4, <1>5 DEF CursorGoesOn
<1> DEFINE lo == IF r.pos = 0 THEN -1 ELSE r.pos
<1>7. Finds(r, q, E, W, lo) /\ r.pos < q.pos /\ Remains(r.rem, E, r.pos)
  <2>1. end \in 1..Len(B)
    BY <1>2, <1>3
  <2>2. QED
    BY <1>2, <1>3, <1>4, <1>5, <1>6, <2>1, ChunkFinds
<1>8. r \in CursorQuery /\ r.filter = f /\ r.limit = q.limit /\ r.file = n /\ r.end = end
      /\ IF r.more THEN FoundEnough(r, E, W) ELSE FoundBehind(r, E, W, lo)
  BY <1>7 DEF Finds
<1>9. r.is = "cursor" /\ q.is = "cursor" /\ r.pos \in Nat /\ "is" \in DOMAIN r /\ r.limit \in Nat \ {0}
      /\ q.pos \in Nat
  BY <1>2, <1>8 DEF CursorQuery
<1>10. ASSUME r.more \/ r.pos = 0
       PROVE  /\ ClientInv(Answered(s, Answer(r)), NoQuery, data, kinds)
              /\ Answer(r) = Page(SubSeq(data[q.file], 1, q.end), q.filter, q.limit, kinds)
  <2> DEFINE P == Answer(r)
             t == Answered(s, P)
  <2>1. P = Page(E, f, q.limit, kinds)
    <3>1. IF r.more THEN FoundEnough(r, E, W) ELSE FoundBehind(r, E, W, -1)
      BY <1>8, <1>10
    <3>2. QED
      BY <1>5, <1>8, <3>1, AnswerIsPage
  <2>2. P \in Given
    <3>1. r.items \in Seq(Nat) /\ r.more \in BOOLEAN /\ r.oldest \in Nat
      BY <1>8 DEF CursorQuery
    <3>2. QED
      BY <3>1 DEF Answer, Given
  <2> HIDE DEF P
  <2>3. /\ t \in Sessions /\ t.answer = P /\ t.got = s.got \o P.items /\ t.want = s.want
        /\ t.file = s.file /\ t.filter = s.filter
    BY <1>1, <2>2, SessionAnswered
  <2> HIDE DEF t
  <2>4. NoQuery.is = "none" /\ "is" \in DOMAIN NoQuery
    BY DEF NoQuery
  <2>5. ASSUME s.file # 0 PROVE Paged(t, NoQuery, data, kinds)
    <3>1. PICK k \in 1..Len(data) : k = s.file
      BY <1>1, <2>5 DEF Paged
    <3>2. PICK e \in 0..Len(data[k]) :
             Following(s, q, SubSeq(data[k], 1, e), MatchingStarts(SubSeq(data[k], 1, e), s.filter, kinds))
      BY <1>1, <2>5, <3>1 DEF Paged
    <3>3. PICK D \in Seq(Nat) : D = SubSeq(data[k], 1, e) /\ Len(D) = e
      <4>1. data[k] \in Seq(Nat)
        OBVIOUS
      <4>2. QED
        BY <4>1, FirstBytes
    <3>4. PICK V : V = MatchingStarts(D, s.filter, kinds)
      OBVIOUS
    <3>5. Following(s, q, D, V)
      BY <3>2, <3>3, <3>4
    <3>6. PICK m : m = Len(s.got)
      OBVIOUS
    <3>7. /\ s.want = FirstLines(D, V, Len(V)) /\ m <= Len(V) /\ s.got = FirstLines(D, V, m)
          /\ n = s.file /\ f = s.filter /\ end = IF m = 0 THEN e ELSE V[m]
      BY <1>9, <3>3, <3>5, <3>6 DEF Following
    <3>8. V \in Seq(Nat) /\ s.got \in Seq(Nat) /\ m \in 0..Len(V)
      <4>1. V \in Seq(Nat)
        BY <3>4, StartsFacts
      <4>2. s.got \in Seq(Nat)
        BY <1>1 DEF Sessions
      <4>3. m \in Nat /\ Len(V) \in Nat
        BY <3>6, <4>1, <4>2
      <4>4. QED
        BY <3>7, <4>1, <4>2, <4>3
    <3>9. e \in 0..Len(B) /\ D = SubSeq(B, 1, e) /\ V = MatchingStarts(D, f, kinds) /\ q.limit \in Nat \ {0}
          /\ P = Page(SubSeq(B, 1, end), f, q.limit, kinds) /\ end # 0
      <4>1. k = n
        BY <3>1, <3>7
      <4>2. end # 0 /\ q.limit \in Nat \ {0}
        BY <1>2 DEF CursorQuery
      <4>3. QED
        BY <1>3, <1>4, <2>1, <3>3, <3>4, <3>7, <4>1, <4>2
    <3>10. PICK got \in Seq(Nat) : got = s.got
      BY <3>8
    <3> HIDE DEF n, f, end
    <3>11. PICK p : p = P
      OBVIOUS
    <3>12. Turn(B, e, f, kinds, q.limit, D, V, m, got, end, p)
      BY <3>7, <3>8, <3>9, <3>10, <3>11 DEF Turn
    <3>13. GoesOn(p, got, D, V)
      BY <3>12, PageGoesOn
    <3>14. Following(t, NoQuery, D, V)
      BY <2>3, <2>4, <3>7, <3>10, <3>11, <3>13 DEF GoesOn, Following
    <3>15. QED
      BY <2>3, <2>4, <3>1, <3>3, <3>4, <3>14 DEF Paged
  <2>6. ClientInv(t, NoQuery, data, kinds)
    BY <2>3, <2>4, <2>5 DEF ClientInv
  <2>7. QED
    BY <1>3, <1>4, <2>1, <2>6 DEF P, t
<1>11. ASSUME ~(r.more \/ r.pos = 0) PROVE ClientInv(s, r, data, kinds)
  <2>1. r.pos \in 1..end /\ lo = r.pos
    <3>1. r.pos # 0 /\ ~r.more
      BY <1>11
    <3>2. QED
      BY <1>2, <1>7, <1>9, <3>1
  <2>2. FoundBehind(r, E, W, r.pos)
    BY <1>8, <1>11, <2>1
  <2>3. CursorGoesOn(r, data, kinds)
    BY <1>2, <1>3, <1>4, <1>5, <1>7, <1>8, <1>11, <2>1, <2>2 DEF CursorGoesOn
  <2>4. ASSUME s.file # 0 PROVE Paged(s, r, data, kinds)
    <3>1. \A D, V : Following(s, q, D, V) => Following(s, r, D, V)
      BY <1>8, <1>9 DEF Following
    <3>2. QED
      BY <1>1, <1>9, <2>4, <3>1 DEF Paged
  <2>5. QED
    BY <1>1, <1>9, <2>3, <2>4 DEF ClientInv
<1>12. QED
  BY <1>8, <1>9, <1>10, <1>11

\* The answer of a client, as if the query in progress had been answered.
AnswerOf(s, q, files, ks) ==
    IF q.is = "cursor" THEN Page(SubSeq(files[q.file], 1, q.end), q.filter, q.limit, ks) ELSE s.answer

\* The answer that a query has at once.
AtOnce(bytes, cursor, f, limit, ks) ==
    LET end == IF cursor = NoCursor THEN Len(bytes) ELSE cursor
    IN  IF end > Len(bytes) \/ end = 0 THEN Nothing ELSE Page(SubSeq(bytes, 1, end), f, limit, ks)

BytesOf(d) == IF dir[d] = 0 THEN <<>> ELSE data[dir[d]]

\* What becomes of a client that asks.
Asks(c, d, f, limit, cursor, s, q) ==
    /\ session' = [session EXCEPT ![c] = s] /\ query' = [query EXCEPT ![c] = q]
    /\ ClientInv(s, q, data, kinds)
    /\ AnswerOf(s, q, data, kinds) = AtOnce(BytesOf(d), cursor, f, limit, kinds)

LEMMA OpenCursorAsks ==
    ASSUME Types, ClientsInv, NEW c \in Clients, OpenCursor(c)
    PROVE  /\ query[c].is # "cursor"
           /\ \E d \in Dates, f \in AskedFilters, limit \in AskedLimits,
                 cursor \in {NoCursor, session[c].answer.next} :
                    \E s, q : Asks(c, d, f, limit, cursor, s, q)
<1> DEFINE s0 == session[c]
           q0 == query[c]
<1>1. q0.is # "cursor"
  BY DEF OpenCursor
<1>2. PICK d \in AskedDates, f \in AskedFilters, limit \in AskedLimits, again \in BOOLEAN :
         LET file == dir[d]
             bytes == IF file = 0 THEN <<>> ELSE data[file]
             end == IF again THEN s0.answer.next ELSE Len(bytes)
             began == IF again THEN [s0 EXCEPT !.count = @ + 1, !.file = IF file = @ THEN @ ELSE 0]
                      ELSE [NoSession EXCEPT !.date = d, !.filter = f, !.file = file, !.count = s0.count + 1,
                                             !.want = MatchingLines(bytes, f, kinds)]
         IN  /\ again => s0.answer.next # NoCursor /\ d = s0.date /\ f = s0.filter
             /\ IF file = 0 \/ end > Len(bytes) \/ end = 0
                THEN /\ session' = [session EXCEPT ![c] = Answered(began, Nothing)]
                     /\ query' = [query EXCEPT ![c] = NoQuery]
                ELSE /\ session' = [session EXCEPT ![c] = began]
                     /\ query' = [query EXCEPT ![c] = CursorBegun(f, limit, file, end)]
  BY DEF OpenCursor, CursorBegun
<1> DEFINE file == dir[d]
           bytes == BytesOf(d)
<1>3. d \in Dates /\ file \in 0..Len(data) /\ limit \in Nat \ {0} /\ data \in Seq(Seq(Nat))
  <2>1. today \in Dates /\ dir \in [Dates -> 0..Len(data)] /\ data \in Seq(Seq(Nat))
    BY DEF Types
  <2>2. today \in Nat /\ Dates = 1..MaxDay /\ today <= MaxDay /\ MaxDay \in Nat
    BY <2>1, GatewayLogAssumption DEF Dates
  <2>3. \A raw \in 0..today : (IF raw = 0 THEN today ELSE raw) \in 1..MaxDay
    BY <2>1, <2>2
  <2>4. d \in Dates
    BY <2>2, <2>3 DEF AskedDates
  <2>5. QED
    BY <2>1, <2>4, PagingConstants
<1>4. ClientInv(s0, q0, data, kinds) /\ s0 \in Sessions
  BY DEF ClientsInv, ClientInv
<1>5. bytes = IF file = 0 THEN <<>> ELSE data[file]
  BY DEF BytesOf
<1>6. NoQuery.is = "none" /\ NoCursor \notin Nat
  BY PagingConstants DEF NoQuery
<1>7. \A e : LET q == CursorBegun(f, limit, file, e)
             IN  q.is = "cursor" /\ q.file = file /\ q.end = e /\ q.filter = f /\ q.limit = limit
  BY DEF CursorBegun
<1>8. CASE again
  <2> DEFINE next == s0.answer.next
             began == [s0 EXCEPT !.count = @ + 1, !.file = IF file = @ THEN @ ELSE 0]
  <2>1. next # NoCursor /\ f = s0.filter
    BY <1>2, <1>8
  <2>2. IF file = 0 \/ next > Len(bytes) \/ next = 0
        THEN session' = [session EXCEPT ![c] = Answered(began, Nothing)] /\ query' = [query EXCEPT ![c] = NoQuery]
        ELSE session' = [session EXCEPT ![c] = began] /\ query' = [query EXCEPT ![c] = CursorBegun(f, limit, file, next)]
    BY <1>2, <1>5, <1>8
  <2>3. PICK s : s = began
    OBVIOUS
  <2>4. /\ file = 0 \/ next > Len(data[file]) \/ next = 0 => ClientInv(Answered(s, Nothing), NoQuery, data, kinds)
        /\ file # 0 /\ next <= Len(data[file]) /\ next # 0 =>
              ClientInv(s, CursorBegun(f, limit, file, next), data, kinds)
        /\ next \in Nat /\ s \in Sessions
    <3>1. MayGoOn(s0, q0, data, kinds, next, file, limit, s)
      BY <1>1, <1>3, <1>4, <2>1, <2>3, Zenon DEF MayGoOn
    <3> HIDE DEF file, s0, q0, next
    <3>2. Begun(s, s0.filter, next, data[file], data, kinds, file, limit)
      BY <3>1, ClientGoesOn
    <3>3. QED
      BY <2>1, <3>2, Zenon DEF Begun
  <2> HIDE DEF began, bytes, file, s0, q0, next
  <2>5. CASE file = 0 \/ next > Len(bytes) \/ next = 0
    <3>1. ClientInv(Answered(s, Nothing), NoQuery, data, kinds)
      BY <1>5, <2>4, <2>5
    <3>2. Answered(s, Nothing).answer = Nothing
      BY <2>4, SessionAnswered, PagingConstants
    <3>3. AtOnce(bytes, next, f, limit, kinds) = Nothing
      <4>1. next > Len(bytes) \/ next = 0
        <5>1. CASE file = 0
          <6>1. Len(bytes) = 0
            BY <1>5, <5>1
          <6>2. QED
            BY <2>4, <6>1
        <5>2. QED
          BY <2>5, <5>1
      <4>2. QED
        BY <2>1, <4>1 DEF AtOnce
    <3>4. AnswerOf(Answered(s, Nothing), NoQuery, data, kinds) = Nothing
      BY <1>6, <3>2 DEF AnswerOf
    <3>5. Asks(c, d, f, limit, next, Answered(s, Nothing), NoQuery)
      BY <2>2, <2>3, <2>5, <3>1, <3>3, <3>4 DEF Asks, bytes
    <3>6. QED
      BY <1>1, <1>3, <3>5 DEF next, s0, q0
  <2>6. CASE ~(file = 0 \/ next > Len(bytes) \/ next = 0)
    <3> DEFINE q == CursorBegun(f, limit, file, next)
    <3>1. bytes = data[file] /\ next <= Len(bytes)
      <4>1. bytes = data[file] /\ file \in 1..Len(data)
        BY <1>3, <1>5, <2>6
      <4>2. data[file] \in Seq(Nat)
        BY <1>3, <4>1
      <4>3. PICK l \in Nat : l = Len(bytes)
        <5>1. Len(data[file]) \in Nat
          BY <4>2
        <5>2. QED
          BY <4>1, <5>1
      <4>4. next <= l
        BY <2>4, <2>6, <4>3
      <4>5. QED
        BY <4>1, <4>3, <4>4
    <3>2. ClientInv(s, q, data, kinds)
      BY <2>4, <2>6, <3>1
    <3>3. AtOnce(bytes, next, f, limit, kinds) = Page(SubSeq(bytes, 1, next), f, limit, kinds)
      BY <2>1, <2>6 DEF AtOnce
    <3>4. q.is = "cursor" /\ q.file = file /\ q.end = next /\ q.filter = f /\ q.limit = limit
      BY <1>7
    <3> HIDE DEF q
    <3>5. AnswerOf(s, q, data, kinds) = Page(SubSeq(bytes, 1, next), f, limit, kinds)
      BY <3>1, <3>4 DEF AnswerOf
    <3>6. Asks(c, d, f, limit, next, s, q)
      BY <2>2, <2>3, <2>6, <3>2, <3>3, <3>5 DEF Asks, bytes, q
    <3>7. QED
      BY <1>1, <1>3, <3>6 DEF next, s0, q0
  <2>7. QED
    BY <2>5, <2>6
<1>9. CASE ~again
  <2> DEFINE end == Len(bytes)
             began == [NoSession EXCEPT !.date = d, !.filter = f, !.file = file, !.count = s0.count + 1,
                                        !.want = MatchingLines(bytes, f, kinds)]
  <2>1. IF file = 0 \/ end > Len(bytes) \/ end = 0
        THEN session' = [session EXCEPT ![c] = Answered(began, Nothing)] /\ query' = [query EXCEPT ![c] = NoQuery]
        ELSE session' = [session EXCEPT ![c] = began] /\ query' = [query EXCEPT ![c] = CursorBegun(f, limit, file, end)]
    BY <1>2, <1>5, <1>9
  <2>2. PICK s : s = began
    OBVIOUS
  <2>3. PICK n \in Nat : n = s0.count
    BY <1>4 DEF Sessions
  <2>4. s = [NoSession EXCEPT !.date = d, !.filter = f, !.file = file, !.count = n + 1,
                              !.want = MatchingLines(bytes, f, kinds)]
    BY <2>2, <2>3
  <2>5. PICK b : b = bytes
    OBVIOUS
  <2>6. /\ file = 0 \/ Len(b) = 0 => ClientInv(Answered(s, Nothing), NoQuery, data, kinds)
        /\ file # 0 /\ Len(b) # 0 => ClientInv(s, CursorBegun(f, limit, file, Len(b)), data, kinds)
        /\ Len(b) \in Nat /\ s \in Sessions
    <3>1. MayBegin(f, d, n, data, kinds, b, file, limit, s)
      <4>1. s = [NoSession EXCEPT !.date = d, !.filter = f, !.file = file, !.count = n + 1,
                              !.want = MatchingLines(b, f, kinds)]
        BY <2>4, <2>5, Zenon
      <4>2. b = IF file = 0 THEN <<>> ELSE data[file]
        BY <1>5, <2>5, Zenon
      <4> HIDE DEF file
      <4>3. QED
        BY <1>3, <4>1, <4>2 DEF MayBegin
    <3> HIDE DEF file
    <3>2. Begun(s, f, Len(b), b, data, kinds, file, limit)
      BY <3>1, ClientBegins
    <3>3. Len(b) \in Nat /\ s \in Sessions
      BY <3>2 DEF Begun
    <3>4. PICK l \in Nat : l = Len(b)
      BY <3>3
    <3>5. ~(l > l) /\ l <= l
      OBVIOUS
    <3>6. QED
      BY <3>2, <3>4, <3>5 DEF Begun
  <2>7. /\ file = 0 \/ end = 0 => ClientInv(Answered(s, Nothing), NoQuery, data, kinds)
        /\ file # 0 /\ end # 0 => ClientInv(s, CursorBegun(f, limit, file, end), data, kinds)
        /\ end \in Nat /\ s \in Sessions /\ (file = 0 => end = 0)
    BY <1>5, <2>5, <2>6
  <2>8. end = Len(bytes)
    OBVIOUS
  <2> HIDE DEF end, began, bytes, file, s0, q0
  <2>9. CASE file = 0 \/ end = 0
    <3>1. ClientInv(Answered(s, Nothing), NoQuery, data, kinds)
      BY <2>7, <2>9
    <3>2. Answered(s, Nothing).answer = Nothing
      BY <2>7, SessionAnswered, PagingConstants
    <3>3. AtOnce(bytes, NoCursor, f, limit, kinds) = Nothing
      BY <2>7, <2>8, <2>9 DEF AtOnce
    <3>4. AnswerOf(Answered(s, Nothing), NoQuery, data, kinds) = Nothing
      BY <1>6, <3>2 DEF AnswerOf
    <3>5. Asks(c, d, f, limit, NoCursor, Answered(s, Nothing), NoQuery)
      BY <2>1, <2>2, <2>9, <3>1, <3>3, <3>4 DEF Asks, bytes
    <3>6. QED
      BY <1>1, <1>3, <3>5 DEF s0, q0
  <2>10. CASE ~(file = 0 \/ end = 0)
    <3> DEFINE q == CursorBegun(f, limit, file, end)
    <3>1. ~(file = 0 \/ end > Len(bytes) \/ end = 0) /\ bytes = data[file]
      BY <1>5, <2>7, <2>8, <2>10
    <3>2. ClientInv(s, q, data, kinds)
      BY <2>7, <2>10
    <3>3. AtOnce(bytes, NoCursor, f, limit, kinds) = Page(SubSeq(bytes, 1, end), f, limit, kinds)
      BY <2>8, <3>1 DEF AtOnce
    <3>4. q.is = "cursor" /\ q.file = file /\ q.end = end /\ q.filter = f /\ q.limit = limit
      BY <1>7
    <3> HIDE DEF q
    <3>5. AnswerOf(s, q, data, kinds) = Page(SubSeq(bytes, 1, end), f, limit, kinds)
      BY <3>1, <3>4 DEF AnswerOf
    <3>6. Asks(c, d, f, limit, NoCursor, s, q)
      BY <2>1, <2>2, <3>1, <3>2, <3>3, <3>5 DEF Asks, bytes, q
    <3>7. QED
      BY <1>1, <1>3, <3>6 DEF s0, q0
  <2>11. QED
    BY <2>9, <2>10
<1>10. QED
  BY <1>8, <1>9

-----------------------------------------------------------------------------
(* What a step does to the clients                                          *)

\* The answers, as if the queries in progress had been answered.
Answers == [c \in Clients |-> AnswerOf(session[c], query[c], data, kinds)]

\* A step that concerns one client changes no other answer.
LEMMA OneAnswer ==
    ASSUME ClientsInv, NEW c \in Clients, NEW s, NEW q,
           session' = [session EXCEPT ![c] = s], query' = [query EXCEPT ![c] = q], UNCHANGED <<data, kinds>>
    PROVE  Answers' = [Answers EXCEPT ![c] = AnswerOf(s, q, data, kinds)]
<1>1. query = [x \in Clients |-> query[x]] /\ session = [x \in Clients |-> session[x]]
  BY DEF ClientsInv
<1>2. /\ query' = [x \in Clients |-> IF x = c THEN q ELSE query[x]]
      /\ session' = [x \in Clients |-> IF x = c THEN s ELSE session[x]]
  BY <1>1
<1>3. \A x \in Clients : AnswerOf(session'[x], query'[x], data', kinds') =
                         IF x = c THEN AnswerOf(s, q, data, kinds) ELSE AnswerOf(session[x], query[x], data, kinds)
  <2> TAKE x \in Clients
  <2>1. CASE x = c
    <3>1. session'[x] = s /\ query'[x] = q
      BY <1>2, <2>1
    <3>2. QED
      BY <2>1, <3>1
  <2>2. CASE x # c
    <3>1. session'[x] = session[x] /\ query'[x] = query[x]
      BY <1>2, <2>2
    <3>2. QED
      BY <2>2, <3>1
  <2>3. QED
    BY <2>1, <2>2
<1>4. Answers' = [x \in Clients |-> IF x = c THEN AnswerOf(s, q, data, kinds) ELSE AnswerOf(session[x], query[x], data, kinds)]
  BY <1>3, Zenon DEF Answers
<1>5. QED
  BY <1>4 DEF Answers

\* What a client knows when its session is one of no file.
LEMMA ClientElsewhere ==
    ASSUME NEW s \in Sessions, s.file = 0, NEW q, NEW files, NEW ks,
           "is" \in DOMAIN q, q.is \in {"none", "tail", "count", "collect", "page"}
    PROVE  ClientInv(s, q, files, ks) /\ AnswerOf(s, q, files, ks) = s.answer
BY DEF ClientInv, AnswerOf

LEMMA ReadChunkStep ==
    ASSUME data \in Seq(Seq(Nat)), ClientsInv, NEW c \in Clients, ReadChunk(c)
    PROVE  ClientsInv' /\ Answers' = Answers
<1>1. PICK q : q = query[c]
  OBVIOUS
<1>2. PICK s : s = session[c]
  OBVIOUS
<1>3. ClientInv(s, q, data, kinds) /\ q.is = "cursor" /\ UNCHANGED <<data, kinds>>
      /\ session = [x \in Clients |-> session[x]] /\ query = [x \in Clients |-> query[x]]
  BY <1>1, <1>2 DEF ClientsInv, ReadChunk, logs
<1>4. PICK r : r = ChunkRead(q)
  OBVIOUS
<1>5. IF r.more \/ r.pos = 0
      THEN /\ session' = [session EXCEPT ![c] = Answered(s, Answer(r))]
           /\ query' = [query EXCEPT ![c] = NoQuery]
      ELSE query' = [query EXCEPT ![c] = r] /\ session' = [session EXCEPT ![c] = s]
  <2>1. IF r.more \/ r.pos = 0
        THEN /\ session' = [session EXCEPT ![c] = Answered(@, Answer(r))]
             /\ query' = [query EXCEPT ![c] = NoQuery]
        ELSE query' = [query EXCEPT ![c] = r] /\ session' = session
    BY <1>1, <1>4 DEF ReadChunk
  <2>2. session = [session EXCEPT ![c] = s]
    BY <1>2, <1>3
  <2>3. QED
    BY <1>2, <2>1, <2>2
<1>6. IF r.more \/ r.pos = 0
      THEN /\ ClientInv(Answered(s, Answer(r)), NoQuery, data, kinds)
           /\ Answer(r) = Page(SubSeq(data[q.file], 1, q.end), q.filter, q.limit, kinds)
      ELSE /\ ClientInv(s, r, data, kinds)
           /\ r.is = "cursor" /\ r.file = q.file /\ r.end = q.end /\ r.filter = q.filter /\ r.limit = q.limit
  <2>1. AfterChunk(s, q, r)
    BY <1>3, <1>4, ChunkGoesOn
  <2>2. QED
    BY <2>1, Zenon DEF AfterChunk
<1>7. AnswerOf(s, q, data, kinds) = Page(SubSeq(data[q.file], 1, q.end), q.filter, q.limit, kinds)
  BY <1>3 DEF AnswerOf
<1>8. s \in Sessions
  BY <1>3 DEF ClientInv
<1>9. ASSUME NEW t, NEW n, ClientInv(t, n, data, kinds), AnswerOf(t, n, data, kinds) = AnswerOf(s, q, data, kinds),
             session' = [session EXCEPT ![c] = t], query' = [query EXCEPT ![c] = n]
      PROVE  ClientsInv' /\ Answers' = Answers
  <2>1. ClientsInv'
    BY <1>3, <1>9, OneClient
  <2>2. Answers' = [Answers EXCEPT ![c] = AnswerOf(t, n, data, kinds)]
    BY <1>3, <1>9, OneAnswer
  <2>3. Answers[c] = AnswerOf(t, n, data, kinds)
    BY <1>1, <1>2, <1>9 DEF Answers
  <2>4. Answers = [Answers EXCEPT ![c] = Answers[c]]
    BY DEF Answers
  <2>5. QED
    BY <2>1, <2>2, <2>3, <2>4
<1>10. CASE r.more \/ r.pos = 0
  <2>1. PICK a : a = Answer(r)
    OBVIOUS
  <2>2. PICK t : t = Answered(s, a)
    OBVIOUS
  <2>3. t.answer = a
    BY <1>8, <2>2 DEF Answered, Sessions
  <2>4. AnswerOf(t, NoQuery, data, kinds) = a
    BY <2>3 DEF AnswerOf, NoQuery
  <2>5. QED
    BY <1>5, <1>6, <1>7, <1>9, <1>10, <2>1, <2>2, <2>4
<1>11. CASE ~(r.more \/ r.pos = 0)
  <2>1. ClientInv(s, r, data, kinds) /\ r.is = "cursor" /\ r.file = q.file /\ r.end = q.end
        /\ r.filter = q.filter /\ r.limit = q.limit
    BY <1>6, <1>11
  <2>2. AnswerOf(s, r, data, kinds) = AnswerOf(s, q, data, kinds)
    BY <1>7, <2>1 DEF AnswerOf
  <2>3. QED
    BY <1>5, <1>9, <1>11, <2>1, <2>2
<1>12. QED
  BY <1>10, <1>11

LEMMA ScanStep ==
    ASSUME ClientsInv, NEW c \in Clients, ScanLine(c) \/ CollectLine(c)
    PROVE  ClientsInv' /\ Answers' = Answers
<1>1. PICK q : q = query[c]
  OBVIOUS
<1>2. PICK s : s = session[c]
  OBVIOUS
<1>3. ClientInv(s, q, data, kinds) /\ UNCHANGED <<data, kinds>> /\ q.is \in {"tail", "count", "collect"}
      /\ session = [x \in Clients |-> session[x]] /\ query = [x \in Clients |-> query[x]]
  BY <1>1, <1>2 DEF ClientsInv, ScanLine, CollectLine, logs
<1>4. s \in Sessions /\ s.file = 0 /\ "is" \in DOMAIN q
  BY <1>3 DEF ClientInv, Paged
<1>5. \A n : "is" \in DOMAIN n /\ n.is \in {"tail", "count"} =>
                "is" \in DOMAIN AfterCount(n) /\ AfterCount(n).is \in {"count", "collect", "page"}
  <2> TAKE n
  <2> DEFINE w == ResolveForwardWindow(n.total, n.page, n.limit)
             again == [n EXCEPT !.is = "collect", !.pos = 0, !.index = 0, !.window = w,
                                !.same = dir[n.date] = n.file, !.reopened = dir[n.date]]
             count == [again EXCEPT !.is = "count", !.total = 0, !.file = dir[n.date], !.upto = 0]
  <2>1. "is" \in DOMAIN n => /\ "is" \in DOMAIN again /\ again.is = "collect"
                             /\ "is" \in DOMAIN count /\ count.is = "count"
    OBVIOUS
  <2>2. \A x, items, total, from : /\ "is" \in DOMAIN PageAnswer(x, items, total, from)
                                   /\ PageAnswer(x, items, total, from).is = "page"
    BY DEF PageAnswer
  <2>3. \/ AfterCount(n) = again \/ AfterCount(n) = count
        \/ \E x, items, total, from : AfterCount(n) = PageAnswer(x, items, total, from)
    BY Zenon DEF AfterCount
  <2> HIDE DEF again, count
  <2>4. QED
    BY <2>1, <2>2, <2>3
<1>6. PICK n : /\ query' = [query EXCEPT ![c] = n]
               /\ "is" \in DOMAIN n /\ n.is \in {"tail", "count", "collect", "page"}
  <2>1. CASE ScanLine(c)
    <3> DEFINE x == Scanned(data[q.file], q.pos)
               hit == Matches(x.line, q.filter, kinds)
               pos == x.pos
               total == IF hit THEN q.total + 1 ELSE q.total
               tail == IF hit /\ q.is = "tail" THEN TailAdd(q.tail, x.line[1]) ELSE q.tail
               n == [q EXCEPT !.pos = x.pos, !.upto = x.pos, !.total = IF hit THEN @ + 1 ELSE @,
                              !.tail = IF hit /\ q.is = "tail" THEN TailAdd(@, x.line[1]) ELSE @]
    <3>1. query' = [query EXCEPT ![c] = IF x.last THEN AfterCount(n) ELSE n] /\ q.is \in {"tail", "count"}
      BY <1>1, <2>1, Zenon DEF ScanLine
    <3>2. DOMAIN n = DOMAIN q /\ n.is = q.is
      BY <1>4
    <3> HIDE DEF n, x
    <3>3. QED
      BY <1>4, <1>5, <3>1, <3>2
  <2>2. CASE CollectLine(c)
    <3> DEFINE x == Scanned(data[q.reopened], q.pos)
               hit == Matches(x.line, q.filter, kinds)
               stop == hit /\ q.index >= q.window.to
               n == [q EXCEPT !.pos = x.pos, !.index = IF hit THEN @ + 1 ELSE @,
                          !.items = IF hit /\ ~stop /\ q.index >= q.window.from
                                    THEN Append(@, x.line[1]) ELSE @]
               page == PageAnswer(n, Reverse(n.items), n.total, n.window.from)
    <3>1. query' = [query EXCEPT ![c] = IF x.last \/ stop THEN page ELSE n]
      BY <1>1, <2>2 DEF CollectLine
    <3>c. q.is = "collect"
      BY <1>1, <2>2 DEF CollectLine
    <3>2. DOMAIN n = DOMAIN q /\ n.is = q.is
      BY <1>4
    <3>3. "is" \in DOMAIN page /\ page.is = "page"
      BY DEF PageAnswer
    <3> HIDE DEF n, x, stop, page
    <3>4. QED
      BY <1>4, <3>1, <3>c, <3>2, <3>3
  <2>3. QED
    BY <2>1, <2>2
<1>7. session' = [session EXCEPT ![c] = s]
  <2>1. session' = session
    BY DEF ScanLine, CollectLine
  <2>2. QED
    BY <1>2, <1>3, <2>1
<1>8. ClientInv(s, n, data, kinds) /\ AnswerOf(s, n, data, kinds) = s.answer
  BY <1>4, <1>6, ClientElsewhere
<1>9. ClientsInv'
  BY <1>3, <1>6, <1>7, <1>8, OneClient
<1>10. Answers' = [Answers EXCEPT ![c] = s.answer]
  BY <1>3, <1>6, <1>7, <1>8, OneAnswer
<1>11. Answers[c] = s.answer
  BY <1>1, <1>2, <1>3 DEF Answers, AnswerOf
<1>12. Answers = [Answers EXCEPT ![c] = Answers[c]]
  BY DEF Answers
<1>13. QED
  BY <1>9, <1>10, <1>11, <1>12

\* A page may be asked for when no cursor query is being made.
LEMMA OpenPageStep ==
    ASSUME ClientsInv, NEW c \in Clients, OpenPage(c)
    PROVE  ClientsInv' /\ Answers' = [Answers EXCEPT ![c] = Nothing]
<1>1. session[c].count \in Nat /\ UNCHANGED <<data, kinds>>
  BY DEF ClientsInv, ClientInv, Sessions, OpenPage, logs
<1>2. PICK n \in Nat : n = session[c].count + 1
  BY <1>1
<1>3. PICK s : s = [NoSession EXCEPT !.count = n]
  OBVIOUS
<1>4. s \in Sessions /\ s.file = 0 /\ s.answer = Nothing /\ session' = [session EXCEPT ![c] = s]
  BY <1>2, <1>3, FreshSession DEF OpenPage
<1>5. PICK q : /\ query' = [query EXCEPT ![c] = q]
               /\ "is" \in DOMAIN q /\ q.is \in {"none", "tail", "count", "collect", "page"}
  <2>1. PICK d \in AskedDates, f \in AskedFilters, limit \in AskedLimits, page \in AskedPages :
          LET size == page * limit
              q == [is |-> IF size > TailWindowMax THEN "count" ELSE "tail", date |-> d, filter |-> f,
                    limit |-> limit, page |-> page, file |-> dir[d], pos |-> 0, total |-> 0, index |-> 0,
                    tail |-> NewTail(IF size > TailWindowMax THEN 1 ELSE size), items |-> <<>>,
                    window |-> [from |-> 0, to |-> 0], same |-> TRUE, reopened |-> 0, upto |-> 0,
                    faults |-> faults]
          IN  query' = [query EXCEPT ![c] = IF dir[d] = 0 THEN NoQuery ELSE q]
    BY DEF OpenPage
  <2> DEFINE size == page * limit
             q == [is |-> IF size > TailWindowMax THEN "count" ELSE "tail", date |-> d, filter |-> f,
                    limit |-> limit, page |-> page, file |-> dir[d], pos |-> 0, total |-> 0, index |-> 0,
                    tail |-> NewTail(IF size > TailWindowMax THEN 1 ELSE size), items |-> <<>>,
                    window |-> [from |-> 0, to |-> 0], same |-> TRUE, reopened |-> 0, upto |-> 0,
                    faults |-> faults]
  <2>2. "is" \in DOMAIN q /\ q.is \in {"tail", "count"}
    OBVIOUS
  <2>3. query' = [query EXCEPT ![c] = IF dir[d] = 0 THEN NoQuery ELSE q]
    BY <2>1
  <2>4. "is" \in DOMAIN NoQuery /\ NoQuery.is = "none"
    BY DEF NoQuery
  <2> HIDE DEF q, size
  <2>5. QED
    BY <2>2, <2>3, <2>4
<1>6. ClientInv(s, q, data, kinds) /\ AnswerOf(s, q, data, kinds) = Nothing
  BY <1>4, <1>5, ClientElsewhere
<1>7. ClientsInv'
  BY <1>1, <1>4, <1>5, <1>6, OneClient
<1>8. Answers' = [Answers EXCEPT ![c] = Nothing]
  <2>1. Answers' = [Answers EXCEPT ![c] = AnswerOf(s, q, data, kinds)]
    BY <1>1, <1>4, <1>5, OneAnswer
  <2>2. QED
    BY <1>6, <2>1
<1>9. QED
  BY <1>7, <1>8

LEMMA RestartStep ==
    ASSUME ClientsInv, Restart
    PROVE  ClientsInv' /\ Answers' = [c \in Clients |-> Nothing]
<1>1. /\ query' = [c \in Clients |-> NoQuery]
      /\ session' = [c \in Clients |-> [NoSession EXCEPT !.count = session[c].count]]
  BY DEF Restart
<1>2. ASSUME NEW c \in Clients
      PROVE  /\ ClientInv(session'[c], query'[c], data', kinds')
             /\ AnswerOf(session'[c], query'[c], data', kinds') = Nothing
  <2>1. PICK n \in Nat : n = session[c].count
    BY <1>2 DEF ClientsInv, ClientInv, Sessions
  <2>2. PICK s : s = [NoSession EXCEPT !.count = n]
    OBVIOUS
  <2>3. s \in Sessions /\ s.file = 0 /\ s.answer = Nothing
    BY <2>2, FreshSession
  <2>4. session'[c] = s /\ query'[c] = NoQuery
    BY <1>1, <1>2, <2>1, <2>2
  <2>5. "is" \in DOMAIN NoQuery /\ NoQuery.is = "none"
    BY DEF NoQuery
  <2>6. \A files, ks : ClientInv(s, NoQuery, files, ks) /\ AnswerOf(s, NoQuery, files, ks) = Nothing
    BY <2>3, <2>5, ClientElsewhere
  <2>7. QED
    BY <2>4, <2>6
<1>3. query' = [c \in Clients |-> query'[c]] /\ session' = [c \in Clients |-> session'[c]]
  BY <1>1
<1>4. ClientsInv'
  BY <1>2, <1>3 DEF ClientsInv
<1>5. Answers' = [c \in Clients |-> Nothing]
  BY <1>2, Zenon DEF Answers
<1>6. QED
  BY <1>4, <1>5

\* The log may grow under the clients.
LEMMA ClientsStay ==
    ASSUME Types, Types', BytesInv, ClientsInv, LogGrows, UNCHANGED <<session, query>>
    PROVE  ClientsInv' /\ Answers' = Answers
<1>1. /\ data \in Seq(Seq(Nat)) /\ data' \in Seq(Seq(Nat)) /\ kinds \in Seq(Kinds)
      /\ AllLogged(data, Len(kinds)) /\ FilesGrow(data, data') /\ Extends(kinds, kinds')
  BY DEF Types, BytesInv, LogGrows
<1>2. PICK files \in Seq(Seq(Nat)), more \in Seq(Seq(Nat)) : files = data /\ more = data'
  BY <1>1
<1>3. PICK ks \in Seq(Kinds) : ks = kinds
  BY <1>1
<1>11. PICK ms : ms = kinds'
  OBVIOUS
<1>4. AllLogged(files, Len(ks)) /\ FilesGrow(files, more) /\ Extends(ks, ms)
  BY <1>1, <1>2, <1>3, <1>11
<1>5. ASSUME NEW s, NEW q, ClientInv(s, q, files, ks)
      PROVE  ClientInv(s, q, more, ms) /\ AnswerOf(s, q, more, ms) = AnswerOf(s, q, files, ks)
  <2>1. ClientInv(s, q, more, ms)
    BY <1>4, <1>5, ClientStays
  <2>2. CASE q.is # "cursor"
    BY <2>1, <2>2 DEF AnswerOf
  <2>3. CASE q.is = "cursor"
    <3>1. CursorGoesOn(q, files, ks)
      BY <1>5, <2>3 DEF ClientInv
    <3>2. PICK n \in 1..Len(files) : n = q.file
      BY <3>1 DEF CursorGoesOn
    <3>3. PICK end \in 0..Len(files[n]) : end = q.end
      <4>1. q.end \in 1..Len(files[n]) /\ files[n] \in Seq(Nat)
        BY <3>1, <3>2 DEF CursorGoesOn
      <4>2. Len(files[n]) \in Nat
        BY <4>1
      <4>3. q.end \in 0..Len(files[n])
        BY <4>1, <4>2
      <4>4. QED
        BY <4>3
    <3>4. PICK f : f = q.filter
      OBVIOUS
    <3>5. PrefixStays(n, end, f, files, ks, more, ms)
      BY <1>4, PrefixKept
    <3>6. /\ SubSeq(more[n], 1, end) = SubSeq(files[n], 1, end)
          /\ MatchingStarts(SubSeq(files[n], 1, end), f, ms) = MatchingStarts(SubSeq(files[n], 1, end), f, ks)
      BY <3>5 DEF PrefixStays
    <3>7. Page(SubSeq(more[n], 1, end), f, q.limit, ms) = Page(SubSeq(files[n], 1, end), f, q.limit, ks)
      BY <3>6 DEF Page
    <3>8. QED
      BY <2>1, <2>3, <3>2, <3>3, <3>4, <3>7 DEF AnswerOf
  <2>4. QED
    BY <2>2, <2>3
<1>6. \A c \in Clients : ClientInv(session[c], query[c], files, ks)
  BY <1>2, <1>3, <1>11 DEF ClientsInv
<1>7. \A c \in Clients : /\ ClientInv(session[c], query[c], more, ms)
                         /\ AnswerOf(session[c], query[c], more, ms) = AnswerOf(session[c], query[c], files, ks)
  BY <1>5, <1>6
<1>8. ClientsInv'
  <2>1. query = [c \in Clients |-> query[c]] /\ session = [c \in Clients |-> session[c]]
    BY DEF ClientsInv
  <2>2. query' = [c \in Clients |-> query'[c]] /\ session' = [c \in Clients |-> session'[c]]
    BY <2>1
  <2>3. QED
    BY <1>2, <1>3, <1>11, <1>7, <2>2 DEF ClientsInv
<1>9. Answers' = Answers
  <2>1. \A c \in Clients : AnswerOf(session'[c], query'[c], data', kinds') = AnswerOf(session[c], query[c], data, kinds)
    BY <1>2, <1>3, <1>11, <1>7
  <2>2. QED
    BY <2>1, Zenon DEF Answers
<1>10. QED
  BY <1>8, <1>9

LEMMA OpenCursorStep ==
    ASSUME Types, ClientsInv, NEW c \in Clients, OpenCursor(c)
    PROVE  /\ ClientsInv'
           /\ \E d \in Dates, f \in AskedFilters, limit \in AskedLimits, cursor \in {NoCursor, Answers[c].next} :
                 Answers' = [Answers EXCEPT ![c] = AtOnce(BytesOf(d), cursor, f, limit, kinds)]
<1>1. PICK d \in Dates, f \in AskedFilters, limit \in AskedLimits,
           cursor \in {NoCursor, session[c].answer.next} : \E s, q : Asks(c, d, f, limit, cursor, s, q)
  BY OpenCursorAsks
<1>7. PICK s, q : Asks(c, d, f, limit, cursor, s, q)
  BY <1>1
<1>2. UNCHANGED <<data, kinds>>
  BY DEF OpenCursor, logs
<1>3. ClientsInv'
  BY <1>2, <1>7, OneClient DEF Asks
<1>4. Answers' = [Answers EXCEPT ![c] = AtOnce(BytesOf(d), cursor, f, limit, kinds)]
  BY <1>2, <1>7, OneAnswer DEF Asks
<1>5. Answers[c] = session[c].answer
  BY OpenCursorAsks DEF Answers, AnswerOf
<1>6. QED
  BY <1>1, <1>3, <1>4, <1>5

-----------------------------------------------------------------------------
(* What holds of every client, in every state                               *)

LEMMA PagingInit == Init => PagingInv
<1> SUFFICES ASSUME Init PROVE PagingInv
  OBVIOUS
<1>1. Types /\ PendingInv
  BY LogInit DEF LogInv
<1>2. BytesInv
  BY DEF Init, BytesInv, AllLogged
<1>3. query = [c \in Clients |-> NoQuery] /\ session = [c \in Clients |-> NoSession]
  BY DEF Init
<1>4. NoSession \in Sessions /\ NoSession.file = 0
  <2>1. PICK n : n = [NoSession EXCEPT !.count = 0]
    OBVIOUS
  <2>2. n \in Sessions /\ n.file = 0
    BY <2>1, FreshSession
  <2>3. n = NoSession
    BY <2>1 DEF NoSession
  <2>4. QED
    BY <2>2, <2>3
<1>5. "is" \in DOMAIN NoQuery /\ NoQuery.is = "none"
  BY DEF NoQuery
<1>6. \A files, ks : ClientInv(NoSession, NoQuery, files, ks)
  BY <1>4, <1>5, ClientElsewhere
<1>7. ClientsInv
  BY <1>3, <1>6 DEF ClientsInv
<1>8. QED
  BY <1>1, <1>2, <1>7 DEF PagingInv

\* A step of the writer or of the clock is none of a client's.
LEMMA OthersStandAside ==
    ASSUME WriterStep \/ NextDay \/ UNCHANGED vars
    PROVE  UNCHANGED <<session, query>>
BY DEF WriterStep, NextDay, vars, FinishWrite, WriteCutShort, Log, Write, WriteFails,
       SetLoggingConfig, UpdateConfig, Cleanup, DeleteDate

LEMMA PagingStep ==
    ASSUME PagingInv, [Next]_vars
    PROVE  PagingInv'
<1>1. Types /\ PendingInv /\ BytesInv /\ ClientsInv
  BY DEF PagingInv
<1>2. Types' /\ PendingInv' /\ LogGrows /\ BytesInv'
  BY <1>1, TypesStep, PendingStep, LogStepGrows
<1>3. data \in Seq(Seq(Nat))
  BY <1>1 DEF Types
<1>4. CASE WriterStep \/ NextDay \/ UNCHANGED vars
  BY <1>1, <1>2, <1>4, OthersStandAside, ClientsStay DEF PagingInv
<1>5. CASE Restart
  BY <1>1, <1>2, <1>5, RestartStep DEF PagingInv
<1>6. ASSUME NEW c \in Clients, OpenCursor(c) PROVE ClientsInv'
  BY <1>1, <1>6, OpenCursorStep
<1>7. ASSUME NEW c \in Clients, OpenPage(c) PROVE ClientsInv'
  BY <1>1, <1>7, OpenPageStep
<1>8. ASSUME NEW c \in Clients, ReaderStep(c) PROVE ClientsInv'
  BY <1>1, <1>3, <1>8, ReadChunkStep, ScanStep DEF ReaderStep
<1>9. QED
  BY <1>2, <1>4, <1>5, <1>6, <1>7, <1>8 DEF Next, PagingInv

\* The inductive invariant of the queries with cursors.
THEOREM PagingInvariant == Spec => []PagingInv
<1> QED BY PagingInit, PagingStep, PTL DEF Spec

LEMMA FirstLinesPrefix ==
    ASSUME NEW E, NEW W, NEW m \in Nat, NEW l \in Nat, m <= l
    PROVE  IsPrefix(FirstLines(E, W, m), FirstLines(E, W, l))
<1> DEFINE a == FirstLines(E, W, m)
           b == FirstLines(E, W, l)
<1>1. DOMAIN a = 1..m /\ Len(a) = m /\ DOMAIN b = 1..l /\ Len(b) = l
  BY DEF FirstLines
<1>2. \A i \in 1..m : i \in 1..l /\ a[i] = b[i]
  BY DEF FirstLines
<1> HIDE DEF a, b
<1>3. SubSeq(a, 1, m) = [i \in 1..m |-> a[i]] /\ SubSeq(b, 1, m) = [i \in 1..m |-> b[i]]
  <2>1. m - 1 + 1 = m
    OBVIOUS
  <2>2. \A i \in 1..m : i - 1 + 1 = i /\ 1 + i - 1 = i
    OBVIOUS
  <2>3. QED
    BY <1>1, <2>1, <2>2
<1>4. [i \in 1..m |-> a[i]] = [i \in 1..m |-> b[i]]
  BY <1>2
<1>5. SubSeq(a, 1, Len(a)) = SubSeq(b, 1, Len(a)) /\ Len(a) <= Len(b)
  BY <1>1, <1>3, <1>4
<1>6. QED
  BY <1>5 DEF IsPrefix, a, b

\* PagingExactlyOnce: a client that follows the cursors of QueryCursor is shown
\* the lines that matched when it first asked, each once and none left out,
\* whatever the limits, the size of the chunks and the lines that are logged in
\* the meantime (manager.go).
THEOREM PagesAreExact == Spec => []PagingExactlyOnce
<1>1. PagingInv => PagingExactlyOnce
  <2> SUFFICES ASSUME PagingInv, NEW c \in Clients, session[c].file # 0
               PROVE  /\ IsPrefix(session[c].got, session[c].want)
                      /\ query[c].is = "none" /\ ~session[c].answer.more => session[c].got = session[c].want
    BY DEF PagingExactlyOnce
  <2>1. PICK s, q : s = session[c] /\ q = query[c]
    OBVIOUS
  <2>2. data \in Seq(Seq(Nat)) /\ s \in Sessions /\ Paged(s, q, data, kinds)
    BY <2>1 DEF PagingInv, Types, ClientsInv, ClientInv
  <2>3. PICK file \in 1..Len(data) : file = s.file
    BY <2>2 DEF Paged
  <2>4. PICK end \in 0..Len(data[file]) :
            LET E == SubSeq(data[file], 1, end) IN Following(s, q, E, MatchingStarts(E, s.filter, kinds))
    BY <2>2, <2>3 DEF Paged
  <2>5. PICK E : E = SubSeq(data[file], 1, end)
    OBVIOUS
  <2>6. PICK W : W = MatchingStarts(E, s.filter, kinds)
    OBVIOUS
  <2>7. Following(s, q, E, W)
    BY <2>4, <2>5, <2>6
  <2>8. E \in Seq(Nat)
    <3>1. data[file] \in Seq(Nat)
      BY <2>2
    <3>2. QED
      BY <2>5, <3>1, FirstBytes
  <2>9. Len(W) \in Nat /\ Len(s.got) \in Nat
    BY <2>2, <2>6, <2>8, StartsFacts DEF Sessions
  <2>10. PICK m \in Nat, l \in Nat : m = Len(s.got) /\ l = Len(W)
    BY <2>9
  <2>11. s.want = FirstLines(E, W, l) /\ m <= l /\ s.got = FirstLines(E, W, m)
    BY <2>7, <2>10 DEF Following
  <2>12. IsPrefix(s.got, s.want)
    BY <2>11, FirstLinesPrefix
  <2>13. q.is = "none" /\ ~s.answer.more => m = l
    BY <2>7, <2>10 DEF Following
  <2>14. QED
    BY <2>1, <2>11, <2>12, <2>13
<1> QED BY <1>1, PagingInvariant, PTL

-----------------------------------------------------------------------------
(* The queries answer at once                                               *)

LEMMA GrowsByPrefix ==
    ASSUME NEW a \in Seq(Nat), NEW b \in Seq(Nat), Continues(a, b)
    PROVE  IsPrefix(a, b)
<1>1. Len(a) <= Len(b) /\ Len(a) \in Nat /\ Len(b) \in Nat /\ Len(a) \in 0..Len(b)
  BY DEF Continues
<1>2. \A i \in 1..Len(a) : a[i] = b[i]
  BY DEF Continues
<1>3. SubSeq(a, 1, Len(a)) = a
  OBVIOUS
<1>4. SubSeq(b, 1, Len(a)) \in Seq(Nat) /\ Len(SubSeq(b, 1, Len(a))) = Len(a)
      /\ \A i \in 1..Len(a) : SubSeq(b, 1, Len(a))[i] = b[i]
  BY <1>1, FirstBytes
<1>5. SubSeq(b, 1, Len(a)) = a
  <2> DEFINE p == SubSeq(b, 1, Len(a))
  <2>1. p \in Seq(Nat) /\ Len(p) = Len(a) /\ \A i \in 1..Len(a) : p[i] = a[i]
    BY <1>2, <1>4
  <2> HIDE DEF p
  <2>2. a = [i \in 1..Len(a) |-> a[i]] /\ p = [i \in 1..Len(p) |-> p[i]]
    BY <2>1
  <2>3. p = a
    BY <2>1, <2>2
  <2>4. QED
    BY <2>3 DEF p
<1>6. QED
  BY <1>1, <1>3, <1>5 DEF IsPrefix

\* The specification of queries speaks of the same pages.
LEMMA SamePage ==
    ASSUME NEW bytes, NEW f, NEW limit, NEW ks
    PROVE  Atomic!Page(bytes, f, limit, ks) = Page(bytes, f, limit, ks)
<1>1. Atomic!NewestFirst = NewestFirst
  BY Zenon DEF Atomic!NewestFirst, NewestFirst, Atomic!Cardinality, Cardinality
<1>2. \A s : Atomic!LineAt(bytes, s) = LineAt(bytes, s)
  BY DEF Atomic!LineAt, LineAt, Atomic!NL, NL
<1>3. Atomic!Starts(bytes) = Starts(bytes)
  BY DEF Atomic!Starts, Starts, Atomic!NL, NL
<1>4. \A line : Atomic!Matches(line, f, ks) <=> Matches(line, f, ks)
  BY DEF Atomic!Matches, Matches, Atomic!Decodes, Decodes, Atomic!LineOf, LineOf, Atomic!MatchEntry, MatchEntry,
         Atomic!MatchLine, MatchLine, Atomic!MatchStatus, MatchStatus, Atomic!MatchLoggedIn, MatchLoggedIn,
         Atomic!MatchCredential, MatchCredential, Atomic!Unrecorded, Unrecorded
<1>5. Atomic!Matching(bytes, f, ks) = Matching(bytes, f, ks)
  BY <1>2, <1>3, <1>4 DEF Atomic!Matching, Matching
<1>6. Atomic!MatchingStarts(bytes, f, ks) = MatchingStarts(bytes, f, ks)
  BY <1>1, <1>5 DEF Atomic!MatchingStarts, MatchingStarts
<1>7. QED
  BY <1>6 DEF Atomic!Page, Page

\* The answers, written as the refinement has them.
AnswersGiven ==
    [c \in Clients |->
        LET q == query[c] IN
        IF q.is = "cursor" THEN Page(SubSeq(data[q.file], 1, q.end), q.filter, q.limit, kinds)
        ELSE session[c].answer]

LEMMA AnswersAre == Answers = AnswersGiven /\ Answers' = AnswersGiven'
<1>1. Answers = AnswersGiven
  BY Zenon DEF Answers, AnswerOf, AnswersGiven
<1>2. Answers' = AnswersGiven'
  BY Zenon DEF Answers, AnswerOf, AnswersGiven
<1>3. QED
  BY <1>1, <1>2

LEMMA LogChangesAreGrowth ==
    ASSUME Types, Types', LogGrows, Answers' = Answers
    PROVE  Atomic!LogChanges
<1>1. /\ data \in Seq(Seq(Nat)) /\ data' \in Seq(Seq(Nat)) /\ kinds \in Seq(Kinds) /\ kinds' \in Seq(Kinds)
      /\ FilesGrow(data, data') /\ Extends(kinds, kinds')
  BY DEF Types, LogGrows
<1>2. ASSUME NEW n \in DOMAIN data PROVE n \in DOMAIN data' /\ IsPrefix(data[n], data'[n])
  <2>1. DOMAIN data = 1..Len(data) /\ DOMAIN data' = 1..Len(data') /\ Len(data) <= Len(data')
        /\ Len(data) \in Nat /\ Len(data') \in Nat
    BY <1>1 DEF FilesGrow
  <2>2. n \in 1..Len(data) /\ n \in 1..Len(data')
    BY <1>2, <2>1
  <2>3. data[n] \in Seq(Nat) /\ data'[n] \in Seq(Nat)
    BY <1>1, <2>2
  <2>4. Continues(data[n], data'[n])
    BY <1>1, <2>2 DEF FilesGrow
  <2>5. QED
    BY <2>1, <2>2, <2>3, <2>4, GrowsByPrefix
<1>3. IsPrefix(kinds, kinds')
  <2>1. PICK ks \in Seq(Kinds) : ks = kinds
    BY <1>1
  <2>2. PICK ms \in Seq(Kinds) : ms = kinds'
    BY <1>1
  <2>3. Len(ks) <= Len(ms) /\ (\A i \in 1..Len(ks) : ms[i] = ks[i]) /\ Len(ks) \in Nat /\ Len(ms) \in Nat
    BY <1>1, <2>1, <2>2 DEF Extends
  <2>4. SubSeq(ks, 1, Len(ks)) = SubSeq(ms, 1, Len(ks))
    <3>1. SubSeq(ks, 1, Len(ks)) = ks /\ ks = [i \in 1..Len(ks) |-> ks[i]]
      OBVIOUS
    <3>2. SubSeq(ms, 1, Len(ks)) = [i \in 1..Len(ks) |-> ms[i]]
      BY <2>3
    <3>3. QED
      BY <2>3, <3>1, <3>2
  <2>5. QED
    BY <2>1, <2>2, <2>3, <2>4 DEF IsPrefix
<1>4. \A a, b : Atomic!IsPrefix(a, b) <=> IsPrefix(a, b)
  BY DEF Atomic!IsPrefix, IsPrefix
<1>5. AnswersGiven' = AnswersGiven
  BY AnswersAre
<1>6. QED
  BY <1>2, <1>3, <1>4, <1>5 DEF Atomic!LogChanges, AnswersGiven

LEMMA AnswersForgotten ==
    ASSUME UNCHANGED <<data, dir, kinds>>, NEW S \in SUBSET Clients,
           Answers' = [c \in Clients |-> IF c \in S THEN Nothing ELSE Answers[c]]
    PROVE  Atomic!Forget
<1>1. AnswersGiven' = [c \in Clients |-> IF c \in S THEN Atomic!Nothing ELSE AnswersGiven[c]]
  BY AnswersAre DEF Nothing, Atomic!Nothing
<1>2. AnswersGiven' \in {[c \in Clients |-> IF c \in T THEN Atomic!Nothing ELSE AnswersGiven[c]] : T \in SUBSET Clients}
  BY <1>1
<1>3. QED
  BY <1>2, Zenon DEF Atomic!Forget, AnswersGiven

\* What the abstract service says to one question.
Said(d, f, limit, cursor) ==
    LET bytes == IF dir[d] = 0 THEN <<>> ELSE data[dir[d]]
        end == IF cursor = NoCursor THEN Len(bytes) ELSE cursor
    IN  IF end > Len(bytes) \/ end = 0 THEN Atomic!Nothing
        ELSE Atomic!Page(SubSeq(bytes, 1, end), f, limit, kinds)

LEMMA AnsweredAtOnce ==
    ASSUME UNCHANGED <<data, dir, kinds>>, NEW c \in Clients, NEW d \in Dates, NEW f \in AskedFilters,
           NEW limit \in AskedLimits, NEW cursor \in {NoCursor, Answers[c].next},
           Answers' = [Answers EXCEPT ![c] = AtOnce(BytesOf(d), cursor, f, limit, kinds)]
    PROVE  Atomic!Query(c)
<1>1. AtOnce(BytesOf(d), cursor, f, limit, kinds) = Said(d, f, limit, cursor)
  BY SamePage, Zenon DEF AtOnce, BytesOf, Nothing, Atomic!Nothing, Said
<1>2. AtOnce(BytesOf(d), cursor, f, limit, kinds) \in Atomic!Answers(c)
  <2>1. cursor \in {NoCursor, AnswersGiven[c].next}
    BY AnswersAre
  <2>2. Atomic!Answers(c) = {Said(dd, ff, ll, cu) : dd \in Dates, ff \in AskedFilters, ll \in AskedLimits,
                                                    cu \in {NoCursor, AnswersGiven[c].next}}
    BY DEF Atomic!Answers, AnswersGiven, Said
  <2>3. Said(d, f, limit, cursor) \in {Said(dd, ff, ll, cu) : dd \in Dates, ff \in AskedFilters, ll \in AskedLimits,
                                                    cu \in {NoCursor, AnswersGiven[c].next}}
    BY <2>1
  <2>4. QED
    BY <1>1, <2>2, <2>3
<1>3. AnswersGiven' \in {[AnswersGiven EXCEPT ![c] = a] : a \in Atomic!Answers(c)}
  BY <1>2, AnswersAre
<1>4. QED
  BY <1>3 DEF Atomic!Query, AnswersGiven

\* QueriesAreAtomic: however many chunks QueryCursor reads, and whatever is
\* appended, torn, rotated or removed between two of them, it answers with the
\* page of what the file held when it was opened (manager.go).
THEOREM QueriesAnswerAtOnce == Spec => QueriesAreAtomic
<1>1. Init => Atomic!Init
  <2> SUFFICES ASSUME Init PROVE Atomic!Init
    OBVIOUS
  <2>1. data = <<>> /\ dir = [d \in Dates |-> 0] /\ kinds = <<>>
        /\ query = [c \in Clients |-> NoQuery] /\ session = [c \in Clients |-> NoSession]
    BY DEF Init
  <2>2. NoQuery.is = "none" /\ NoSession.answer = Nothing
    BY DEF NoQuery, NoSession
  <2>3. Answers = [c \in Clients |-> Nothing]
    <3>1. \A c \in Clients : AnswerOf(session[c], query[c], data, kinds) = Nothing
      BY <2>1, <2>2 DEF AnswerOf
    <3>2. QED
      BY <3>1, Zenon DEF Answers
  <2>4. QED
    BY <2>1, <2>3, AnswersAre DEF Atomic!Init, Atomic!Nothing, Nothing, AnswersGiven
<1>2. PagingInv /\ [Next]_vars =>
         [Atomic!Next]_<<data, dir, kinds, AnswersGiven>>
  <2> SUFFICES ASSUME PagingInv, [Next]_vars
               PROVE  Atomic!Next \/ UNCHANGED <<data, dir, kinds, Answers>>
    BY AnswersAre
  <2>1. Types /\ PendingInv /\ BytesInv /\ ClientsInv /\ data \in Seq(Seq(Nat)) /\ kinds \in Seq(Kinds)
    BY DEF PagingInv, Types
  <2>2. Types' /\ LogGrows
    BY <2>1, TypesStep, LogStepGrows
  <2>3. CASE WriterStep \/ NextDay \/ UNCHANGED vars
    <3>1. Answers' = Answers
      BY <2>1, <2>2, <2>3, OthersStandAside, ClientsStay
    <3>2. QED
      BY <2>1, <2>2, <3>1, LogChangesAreGrowth DEF Atomic!Next
  <2>4. CASE Restart
    <3>1. UNCHANGED <<data, dir, kinds>>
      BY <2>4 DEF Restart, logs
    <3>2. Answers' = [c \in Clients |-> Nothing]
      BY <2>1, <2>4, RestartStep
    <3>3. Answers' = [c \in Clients |-> IF c \in Clients THEN Nothing ELSE Answers[c]] /\ Clients \in SUBSET Clients
      BY <3>2
    <3>4. QED
      BY <3>1, <3>3, AnswersForgotten DEF Atomic!Next
  <2>5. ASSUME NEW c \in Clients, OpenPage(c) PROVE Atomic!Next
    <3>1. UNCHANGED <<data, dir, kinds>>
      BY <2>5 DEF OpenPage, logs
    <3>2. Answers' = [Answers EXCEPT ![c] = Nothing]
      BY <2>1, <2>5, OpenPageStep
    <3>3. Answers' = [x \in Clients |-> IF x \in {c} THEN Nothing ELSE Answers[x]] /\ {c} \in SUBSET Clients
      BY <3>2 DEF Answers
    <3>4. QED
      BY <3>1, <3>3, AnswersForgotten DEF Atomic!Next
  <2>6. ASSUME NEW c \in Clients, OpenCursor(c) PROVE Atomic!Next
    <3>1. UNCHANGED <<data, dir, kinds>>
      BY <2>6 DEF OpenCursor, logs
    <3>2. Atomic!Query(c)
      BY <2>1, <2>6, <3>1, OpenCursorStep, AnsweredAtOnce
    <3>3. QED
      BY <3>2 DEF Atomic!Next
  <2>7. ASSUME NEW c \in Clients, ReaderStep(c) PROVE UNCHANGED <<data, dir, kinds, Answers>>
    <3>1. UNCHANGED <<data, dir, kinds>>
      BY <2>7, QueriesStandAside DEF Aside
    <3>2. Answers' = Answers
      BY <2>1, <2>7, ReadChunkStep, ScanStep DEF ReaderStep
    <3>3. QED
      BY <3>1, <3>2
  <2>8. QED
    BY <2>3, <2>4, <2>5, <2>6, <2>7 DEF Next
<1> QED
  BY <1>1, <1>2, PagingInvariant, PTL DEF Spec, QueriesAreAtomic, Atomic!Spec, AnswersGiven

=============================================================================

--------------------------- MODULE ConfigStoreProofs ---------------------------
(***************************************************************************)
(* Proofs about ConfigStore: what the file has, whichever saves fail and   *)
(* wherever the program is killed.                                         *)
(***************************************************************************)
EXTENDS ConfigStore, TLAPS

-----------------------------------------------------------------------------
(* Types *)

\* Sections are made of the two kinds of section, which are disjoint.
LEMMA SectionKinds ==
    /\ HandlerSections \subseteq Sections /\ FileSections \subseteq Sections
    /\ "rules" \in Sections /\ "locale" \in Sections
    /\ HandlerSections \intersect FileSections = {}
    /\ Main \in Procs /\ Calls \subseteq Procs /\ Main \notin Calls /\ Nobody \notin Procs
BY ConfigAssumption DEF Sections, HandlerSections, Snapshot, FileSections, Procs

\* Patched yields a value of a section (AddRule, mergeAuthConfig, addMany).
LEMMA PatchedTyped ==
    /\ Nothing \in Values
    /\ \A v \in Values, P \in SUBSET Parts, by \in Calls \union {Nobody} :
            Patched(v, P, by) \in Values
BY DEF Nothing, Values, Patched

\* What Update writes is a whole configuration.
LEMMA ContentTyped ==
    ASSUME TypeOK, NEW c \in Procs, file # Broken
    PROVE  Content(c) \in [Sections -> Values]
BY SectionKinds DEF TypeOK, Content

\* The end of a save keeps the types (EndSave).
LEMMA EndSaveTyped ==
    ASSUME TypeOK, NEW c \in Procs, NEW saved \in BOOLEAN, EndSave(c, saved)
    PROVE  /\ hmu' \in Procs \union {Nobody}
           /\ unsaved' \in BOOLEAN
           /\ pc' \in [Procs -> PCs]
           /\ alone' \subseteq Calls
           /\ contended' \subseteq Sections
<1>1. hmu' \in Procs \union {Nobody}
  BY DEF EndSave, TypeOK
<1>2. unsaved' \in BOOLEAN
  BY DEF EndSave, TypeOK, SavesHandler
<1>3. pc' \in [Procs -> PCs] /\ alone' \subseteq Calls /\ contended' \subseteq Sections
  <2>1. AfterSave(c, saved) \in PCs
    BY DEF AfterSave, PCs
  <2>2. CASE AfterSave(c, saved) = "done"
    BY <2>2 DEF EndSave, TypeOK, Finish, PCs
  <2>3. CASE AfterSave(c, saved) # "done"
    BY <2>1, <2>3 DEF EndSave, TypeOK
  <2>4. QED
    BY <2>2, <2>3
<1>4. QED
  BY <1>1, <1>2, <1>3

\* A program that starts is of its types.
LEMMA TypesInit == Init => TypeOK
<1> SUFFICES ASSUME Init PROVE TypeOK
  OBVIOUS
<1> USE SectionKinds, PatchedTyped DEF Init
<1>1. crashes \in 0..MaxCrashes
  BY ConfigAssumption
<1>2. /\ file \in [Sections -> Values] /\ copy \in [HandlerSections -> Values]
      /\ runtime \in [Sections -> Values] /\ content \in [Sections -> Values]
      /\ accepted \in [FileSections -> Values]
  OBVIOUS
<1>3. /\ pc \in [Procs -> PCs] /\ section \in [Procs -> Sections]
      /\ parts \in [Procs -> SUBSET Parts] /\ todo \in [Procs -> SUBSET Parts]
      /\ local \in [Procs -> Values]
  BY DEF PCs
<1>4. QED
  BY <1>1, <1>2, <1>3 DEF TypeOK

\* Every step keeps the types.
LEMMA TypesStep == TypeOK /\ [Next]_vars => TypeOK'
<1> SUFFICES ASSUME TypeOK, [Next]_vars PROVE TypeOK'
  OBVIOUS
<1> USE SectionKinds, PatchedTyped, ConfigAssumption
<1>1. CASE Start
  <2>1. copy' \in [HandlerSections -> Values]
    BY <1>1 DEF TypeOK, Start
  <2>2. pc' \in [Procs -> PCs]
    BY <1>1 DEF TypeOK, Start, PCs, Active
  <2>3. runtime' \in [Sections -> Values] /\ file' = file
    BY <1>1 DEF TypeOK, Start
  <2>4. QED
    BY <1>1, <2>1, <2>2, <2>3 DEF TypeOK, Start, request
<1>2. CASE Crash
  <2>1. crashes' \in 0..MaxCrashes
    BY <1>2 DEF TypeOK, Crash
  <2>2. QED
    BY <1>2, <2>1 DEF TypeOK, Crash, disk, request
<1>3. ASSUME NEW c \in Calls, Begin(c) PROVE TypeOK'
  <2>1. PICK s \in Sections, P \in SUBSET Parts :
            /\ Go(c, "idle", FirstStep(s))
            /\ section' = [section EXCEPT ![c] = s]
            /\ parts' = [parts EXCEPT ![c] = P]
            /\ todo' = [todo EXCEPT ![c] = IF s = "rules" THEN P ELSE {}]
            /\ local' = [local EXCEPT ![c] = IF s = "rules" THEN Nothing ELSE Patched(Nothing, P, c)]
            /\ LET others == {d \in Calls : Active(d) /\ section[d] = s}
               IN  /\ alone' = IF others = {} THEN alone \union {c} ELSE alone \ others
                   /\ contended' = IF others = {} THEN contended ELSE contended \union {s}
            /\ UNCHANGED <<up, disk, copy, runtime, hmu, crashes, unsaved>>
    BY <1>3 DEF Begin
  <2>2. FirstStep(s) \in PCs
    BY DEF FirstStep, PCs
  <2>3. pc' \in [Procs -> PCs]
    BY <2>1, <2>2 DEF TypeOK, Go
  <2>4. local' \in [Procs -> Values]
    BY <2>1 DEF TypeOK
  <2>5. alone' \subseteq Calls /\ contended' \subseteq Sections
    BY <2>1 DEF TypeOK
  <2>6. QED
    BY <2>1, <2>3, <2>4, <2>5 DEF TypeOK, disk
<1>4. ASSUME NEW c \in Calls, CallStep(c) PROVE TypeOK'
  <2>1. CASE ReadAuthConfig(c)
    <3>1. copy["auth_config"] \in Values
      BY DEF TypeOK, HandlerSections, Snapshot
    <3>2. local' \in [Procs -> Values]
      BY <2>1, <3>1 DEF TypeOK, ReadAuthConfig
    <3>3. QED
      BY <2>1, <3>2 DEF TypeOK, ReadAuthConfig, Go, PCs, disk, request
  <2>2. CASE ChangeBlacklist(c)
    <3>1. PICK by \in {c, Nobody} :
              LET v == Patched(runtime["general_blacklist"], parts[c], by)
              IN  /\ runtime' = [runtime EXCEPT !["general_blacklist"] = v]
                  /\ local' = [local EXCEPT ![c] = v]
      BY <2>2 DEF ChangeBlacklist
    <3>2. Patched(runtime["general_blacklist"], parts[c], by) \in Values
      <4>1. runtime["general_blacklist"] \in Values /\ parts[c] \in SUBSET Parts
        BY DEF TypeOK, Sections, HandlerSections
      <4>2. QED
        BY <4>1
    <3>3. runtime' \in [Sections -> Values] /\ local' \in [Procs -> Values]
      BY <3>1, <3>2 DEF TypeOK
    <3>4. QED
      BY <2>2, <3>3 DEF TypeOK, ChangeBlacklist, Go, PCs, disk, request
  <2>3. CASE ChangeWAF(c)
    <3>1. runtime' \in [Sections -> Values]
      BY <2>3 DEF TypeOK, ChangeWAF
    <3>2. QED
      BY <2>3, <3>1 DEF TypeOK, ChangeWAF, Go, PCs, disk, request
  <2>4. CASE RereadWAF(c)
    <3>1. runtime["waf"] \in Values
      BY DEF TypeOK, Sections, HandlerSections
    <3>2. QED
      BY <2>4, <3>1 DEF TypeOK, RereadWAF, Go, PCs, disk, request
  <2>5. CASE ChangeChain(c)
    <3>1. runtime' \in [Sections -> Values]
      BY <2>5 DEF TypeOK, ChangeChain
    <3>2. QED
      BY <2>5, <3>1 DEF TypeOK, ChangeChain, Go, PCs, disk, request
  <2>6. CASE Refuse(c)
    BY <2>6 DEF TypeOK, Refuse, Go, PCs, disk, request
  <2>7. CASE Assign(c)
    <3>1. copy' \in [HandlerSections -> Values] /\ runtime' \in [Sections -> Values]
      BY <2>7 DEF TypeOK, Assign, SetCopy
    <3>2. QED
      BY <2>7, <3>1 DEF TypeOK, Assign, SetCopy, Go, PCs, disk, request
  <2>8. CASE AddRule(c)
    <3>1. PICK p \in todo[c] :
              /\ SetCopy(c, Patched(copy["rules"], {p}, c))
              /\ todo' = [todo EXCEPT ![c] = @ \ {p}]
      BY <2>8 DEF AddRule
    <3>2. Patched(copy["rules"], {p}, c) \in Values
      <4>1. copy["rules"] \in Values /\ {p} \in SUBSET Parts
        BY DEF TypeOK, HandlerSections, Snapshot
      <4>2. QED
        BY <4>1
    <3>3. copy' \in [HandlerSections -> Values] /\ runtime' \in [Sections -> Values]
      BY <3>1, <3>2 DEF TypeOK, SetCopy
    <3>4. QED
      BY <2>8, <3>1, <3>3 DEF TypeOK, AddRule, SetCopy, Go, PCs, disk, request
  <2>9. CASE RulesAdded(c)
    BY <2>9 DEF TypeOK, RulesAdded, Finish, PCs, disk, request
  <2>10. CASE Apply(c)
    <3>1. runtime' \in [Sections -> Values]
      BY <2>10 DEF TypeOK, Apply
    <3>2. QED
      BY <2>10, <3>1 DEF TypeOK, Apply, Finish, PCs, disk, request
  <2>11. QED
    BY <1>4, <2>1, <2>2, <2>3, <2>4, <2>5, <2>6, <2>7, <2>8, <2>9, <2>10 DEF CallStep
<1>5. ASSUME NEW c \in Procs, Update(c) PROVE TypeOK'
  <2>0. ASSUME SetDefaultLocale(c), file # Broken PROVE runtime' \in [Sections -> Values]
    <3>1. Content(c)["locale"] \in Values
      BY <2>0, ContentTyped
    <3>2. QED
      BY <2>0, <3>1 DEF SetDefaultLocale, TypeOK
  <2>1. CASE LoadFails(c)
    BY <2>1, EndSaveTyped DEF TypeOK, LoadFails, disk, request
  <2>2. CASE OpenFails(c)
    BY <2>0, <2>2, EndSaveTyped DEF TypeOK, OpenFails, disk, request
  <2>3. CASE OpenFile(c)
    BY <2>0, <2>3, ContentTyped DEF TypeOK, OpenFile, Go, PCs, request
  <2>4. CASE WriteFile(c)
    <3>1. accepted' \in [FileSections -> Values]
      BY <2>4 DEF TypeOK, WriteFile
    <3>2. QED
      BY <2>4, <3>1, EndSaveTyped DEF TypeOK, WriteFile, request
  <2>5. CASE WriteFails(c)
    BY <2>5, EndSaveTyped DEF TypeOK, WriteFails, request
  <2>6. QED
    BY <1>5, <2>1, <2>2, <2>3, <2>4, <2>5 DEF Update
<1>6. CASE UNCHANGED vars
  BY <1>6 DEF TypeOK, vars
<1>7. QED
  BY <1>1, <1>2, <1>3, <1>4, <1>5, <1>6 DEF Next

-----------------------------------------------------------------------------
(* Locks and the file *)

\* h.mu is held from the change of the copy to the end of its save, by one
\* setter; m.mu from the opening of the file to the end of its write.
LockInv ==
    /\ \A c \in Procs : hmu = c <=> pc[c] \in {"load", "write"} /\ SavesHandler(c)
    /\ \A c \in Procs : writer = c <=> pc[c] = "write"
    /\ writer # Nobody => file = Broken

\* A section of a configuration is as the handler has it, but for the one
\* whose setter has yet to save it.
UpToDate(conf, s) == conf[s] = copy[s] \/ (SetterHolds(s) /\ pc[hmu] = "load")

\* What is about to be written is what the file is to have.
WriteInv ==
    \A c \in Procs : pc[c] = "write" =>
        /\ SavesHandler(c) => \A s \in HandlerSections : content[s] = copy[s]
        /\ ~SavesHandler(c) /\ ~unsaved => \A s \in HandlerSections : UpToDate(content, s)
        /\ \A s \in FileSections :
              content[s] = IF ~SavesHandler(c) /\ section[c] = s THEN local[c] ELSE accepted[s]

\* The sections of the calls at the places of the setters.
StageInv ==
    \A c \in Calls : pc[c] \in {"read", "reread", "assign", "next"} => section[c] \in HandlerSections

FileInv == LockInv /\ WriteInv /\ FileLagsByOneCall /\ FileSectionsKept

\* Update's end moves its own call on, to a place outside of Update.
LEMMA EndSaveMoves ==
    ASSUME TypeOK, NEW c \in Procs, NEW saved \in BOOLEAN, EndSave(c, saved)
    PROVE  /\ pc'[c] \notin {"load", "write"}
           /\ \A d \in Procs : d # c => pc'[d] = pc[d]
           /\ hmu' = IF hmu = c THEN Nobody ELSE hmu
<1>1. CASE AfterSave(c, saved) = "done"
  BY <1>1 DEF EndSave, Finish, TypeOK
<1>2. CASE AfterSave(c, saved) # "done"
  <2>1. AfterSave(c, saved) \notin {"load", "write"}
    BY DEF AfterSave
  <2>2. QED
    BY <1>2, <2>1 DEF EndSave, TypeOK
<1>3. QED
  BY <1>1, <1>2

\* It starts with the file it has read.
LEMMA FileInit == Init => FileInv /\ StageInv
BY SectionKinds DEF Init, FileInv, LockInv, WriteInv, FileLagsByOneCall, FileSectionsKept, StageInv

\* Every step keeps the stages of the calls.
LEMMA StagesStep == TypeOK /\ StageInv /\ [Next]_vars => StageInv'
<1> SUFFICES ASSUME TypeOK, StageInv, [Next]_vars, NEW d \in Calls,
                    pc'[d] \in {"read", "reread", "assign", "next"}
             PROVE  section'[d] \in HandlerSections
  BY DEF StageInv
<1> USE SectionKinds
<1>1. CASE Start
  BY <1>1 DEF Start, request, StageInv, TypeOK, Active
<1>2. CASE Crash
  BY <1>2 DEF Crash, request, StageInv
<1>3. ASSUME NEW c \in Calls, Begin(c) PROVE section'[d] \in HandlerSections
  <2>1. PICK s \in Sections :
            /\ pc' = [pc EXCEPT ![c] = FirstStep(s)]
            /\ section' = [section EXCEPT ![c] = s]
    BY <1>3 DEF Begin, Go
  <2>2. CASE d = c
    <3>1. FirstStep(s) \in {"read", "assign"} => s \notin FileSections
      BY DEF FirstStep, FileSections
    <3>2. FirstStep(s) \notin {"reread", "next"}
      BY DEF FirstStep
    <3>3. QED
      BY <2>1, <2>2, <3>1, <3>2 DEF TypeOK, Sections
  <2>3. QED
    BY <2>1, <2>2 DEF TypeOK, StageInv
<1>4. ASSUME NEW c \in Calls, CallStep(c) PROVE section'[d] \in HandlerSections
  <2>1. section' = section
    BY <1>4 DEF CallStep, ReadAuthConfig, ChangeBlacklist, ChangeWAF, RereadWAF, ChangeChain, Refuse,
                Assign, AddRule, RulesAdded, Apply, request
  <2>2. CASE pc'[d] = pc[d]
    BY <2>1, <2>2 DEF StageInv
  <2>3. CASE pc'[d] # pc[d]
    BY <1>4, <2>1, <2>3 DEF StageInv, TypeOK, CallStep, ReadAuthConfig, ChangeBlacklist, ChangeWAF,
            RereadWAF, ChangeChain, Refuse, Assign, AddRule, RulesAdded, Apply, Finish, Go,
            HandlerSections
  <2>4. QED
    BY <2>2, <2>3
<1>5. ASSUME NEW c \in Procs, Update(c) PROVE section'[d] \in HandlerSections
  <2>1. section' = section
    BY <1>5 DEF Update, LoadFails, OpenFails, OpenFile, WriteFile, WriteFails, request
  <2>2. CASE OpenFile(c)
    BY <2>1, <2>2 DEF OpenFile, Go, StageInv, TypeOK
  <2>3. CASE \E saved \in BOOLEAN : EndSave(c, saved)
    <3>1. PICK saved \in BOOLEAN : EndSave(c, saved)
      BY <2>3
    <3>2. CASE d = c
      <4>1. pc'[c] \in {"done", AfterSave(c, saved)}
        BY <3>1 DEF EndSave, Finish, TypeOK
      <4>2. AfterSave(c, saved) = "next" => section[c] = "rules"
        BY DEF AfterSave
      <4>3. AfterSave(c, saved) \notin {"read", "reread", "assign"}
        BY DEF AfterSave
      <4>4. QED
        BY <2>1, <3>2, <4>1, <4>2, <4>3 DEF HandlerSections, Snapshot
    <3>3. QED
      BY <2>1, <3>1, <3>2, EndSaveMoves DEF StageInv
  <2>4. QED
    BY <1>5, <2>2, <2>3 DEF Update, LoadFails, OpenFails, WriteFile, WriteFails
<1>6. CASE UNCHANGED vars
  BY <1>6 DEF vars, StageInv
<1>7. QED
  BY <1>1, <1>2, <1>3, <1>4, <1>5, <1>6 DEF Next

\* Steps of a call before it changes the copy, and after its save.
LEMMA QuietStep ==
    ASSUME TypeOK, FileInv, NEW c \in Calls,
           UNCHANGED <<disk, copy, hmu, unsaved>>,
           pc[c] \notin {"load", "write"},
           \A d \in Procs : d # c => /\ pc'[d] = pc[d] /\ section'[d] = section[d]
                                    /\ local'[d] = local[d],
           pc'[c] \in {"load", "write"} => pc'[c] = "load" /\ section'[c] \notin HandlerSections
    PROVE  FileInv'
<1> USE SectionKinds
<1>1. hmu # c /\ writer # c
  BY DEF FileInv, LockInv
<1>2. \A d \in Procs : d # c => (SavesHandler(d)' <=> SavesHandler(d))
  BY DEF SavesHandler
<1>3. c # Main
  OBVIOUS
<1>4. LockInv'
  BY <1>1, <1>2, <1>3 DEF FileInv, LockInv, disk, SavesHandler
<1>5. \A s \in HandlerSections : (SetterHolds(s) /\ pc[hmu] = "load") => (SetterHolds(s) /\ pc[hmu] = "load")'
  BY <1>1 DEF SetterHolds
<1>6. WriteInv'
  BY <1>2, <1>5 DEF FileInv, WriteInv, disk, UpToDate
<1>7. FileLagsByOneCall'
  BY <1>5 DEF FileInv, FileLagsByOneCall, disk
<1>8. QED
  BY <1>4, <1>6, <1>7 DEF FileInv, FileSectionsKept, disk

\* A setter changes its section of the copy and holds h.mu (SetCopy).
LEMMA SetCopyStep ==
    ASSUME TypeOK, FileInv, NEW c \in Calls, NEW v \in Values, SetCopy(c, v),
           section[c] \in HandlerSections,
           pc[c] \notin {"load", "write"}, pc' = [pc EXCEPT ![c] = "load"],
           UNCHANGED <<disk, unsaved, section, local>>
    PROVE  FileInv'
<1> USE SectionKinds
<1>1. hmu = Nobody /\ hmu' = c /\ pc'[c] = "load" /\ \A d \in Procs : d # c => pc'[d] = pc[d]
  BY DEF SetCopy, TypeOK
<1>2. \A d \in Procs : SavesHandler(d)' <=> SavesHandler(d)
  BY DEF SavesHandler
<1>3. \A s \in HandlerSections : s # section[c] => copy'[s] = copy[s]
  BY DEF SetCopy, TypeOK
<1>4. ~\E s \in HandlerSections : SetterHolds(s)
  BY <1>1 DEF SetterHolds
<1>5. SetterHolds(section[c])' /\ pc'[hmu'] = "load"
  BY <1>1 DEF SetterHolds
<1>6. LockInv'
  BY <1>1, <1>2 DEF FileInv, LockInv, disk, SavesHandler
<1>7. WriteInv'
  <2> SUFFICES ASSUME NEW d \in Procs, pc'[d] = "write"
               PROVE  /\ ~SavesHandler(d)
                      /\ ~unsaved => \A s \in HandlerSections : UpToDate(content, s)'
                      /\ \A s \in FileSections : content[s] =
                            IF ~SavesHandler(d) /\ section[d] = s THEN local[d] ELSE accepted[s]
    BY <1>2 DEF WriteInv, disk
  <2>1. pc[d] = "write" /\ ~SavesHandler(d)
    BY <1>1 DEF FileInv, LockInv
  <2>2. QED
    BY <1>3, <1>4, <1>5, <2>1 DEF FileInv, WriteInv, UpToDate, disk
<1>8. FileLagsByOneCall'
  BY <1>3, <1>4, <1>5 DEF FileInv, FileLagsByOneCall, disk
<1>9. QED
  BY <1>6, <1>7, <1>8 DEF FileInv, FileSectionsKept, disk

\* A save ends without a write: of the handler, and it counts as failed; or of
\* a call that changes the file alone (LoadFails, OpenFails, WriteFails).
LEMMA FailedSaveStep ==
    ASSUME TypeOK, FileInv, NEW c \in Procs, EndSave(c, FALSE),
           pc[c] = "write" \/ (pc[c] = "load" /\ writer = Nobody),
           writer' = Nobody,
           UNCHANGED <<file, content, accepted, copy, section, local>>
    PROVE  FileInv'
<1> USE SectionKinds
<1>1. pc'[c] \notin {"load", "write"} /\ \A d \in Procs : d # c => pc'[d] = pc[d]
  BY EndSaveMoves
<1>2. \A d \in Procs : SavesHandler(d)' <=> SavesHandler(d)
  BY DEF SavesHandler
<1>3. \A d \in Procs : pc'[d] # "write"
  BY <1>1 DEF FileInv, LockInv
<1>4. hmu' = IF hmu = c THEN Nobody ELSE hmu
  BY EndSaveMoves
<1>5. LockInv'
  BY <1>1, <1>2, <1>3, <1>4 DEF FileInv, LockInv
<1>6. FileLagsByOneCall'
  <2>1. CASE SavesHandler(c)
    BY <2>1 DEF EndSave, FileLagsByOneCall
  <2>2. CASE ~SavesHandler(c)
    <3>1. hmu # c /\ hmu' = hmu /\ unsaved' = unsaved
      BY <1>4, <2>2 DEF FileInv, LockInv, EndSave
    <3>2. QED
      BY <1>1, <3>1 DEF FileInv, FileLagsByOneCall, SetterHolds
  <2>3. QED
    BY <2>1, <2>2
<1>7. QED
  BY <1>3, <1>5, <1>6 DEF FileInv, WriteInv, FileSectionsKept

\* A save that opens the file keeps FileInv.
LEMMA OpenFileStep ==
    ASSUME TypeOK, FileInv, NEW c \in Procs, OpenFile(c)
    PROVE  FileInv'
<1> USE SectionKinds
<1>1. /\ pc[c] = "load" /\ pc'[c] = "write" /\ \A d \in Procs : d # c => pc'[d] = pc[d]
      /\ writer = Nobody /\ writer' = c /\ file # Broken /\ file' = Broken
      /\ hmu' = hmu /\ section' = section /\ local' = local /\ copy' = copy
      /\ accepted' = accepted /\ unsaved' = unsaved /\ content' = Content(c)
  BY DEF OpenFile, Go, TypeOK, request
<1>2. \A d \in Procs : SavesHandler(d)' <=> SavesHandler(d)
  BY <1>1 DEF SavesHandler
<1>3. LockInv'
  BY <1>1, <1>2 DEF FileInv, LockInv
<1>4. \A d \in Procs : pc'[d] = "write" => d = c
  BY <1>1, <1>3 DEF LockInv
<1>5. CASE SavesHandler(c)
  <2>1. content' = [s \in Sections |-> IF s \in HandlerSections THEN copy[s] ELSE file[s]]
    BY <1>1, <1>5 DEF Content
  <2>2. \A s \in FileSections : content'[s] = accepted[s]
    BY <1>1, <2>1 DEF FileInv, FileSectionsKept
  <2>3. \A s \in HandlerSections : content'[s] = copy[s]
    BY <2>1
  <2>4. WriteInv'
    BY <1>1, <1>2, <1>4, <1>5, <2>2, <2>3 DEF WriteInv
  <2>5. QED
    BY <1>1, <1>3, <2>4 DEF FileInv, FileLagsByOneCall, FileSectionsKept
<1>6. CASE ~SavesHandler(c)
  <2>1. content' = [file EXCEPT ![section[c]] = local[c]] /\ section[c] \in FileSections
    BY <1>1, <1>6 DEF Content, SavesHandler, TypeOK, Sections
  <2>2. \A s \in FileSections : content'[s] = IF section[c] = s THEN local[c] ELSE accepted[s]
    BY <1>1, <2>1 DEF FileInv, FileSectionsKept, TypeOK
  <2>3. \A s \in HandlerSections : content'[s] = file[s]
    BY <1>1, <2>1 DEF TypeOK
  <2>4. hmu # c
    BY <1>6 DEF FileInv, LockInv
  <2>5. ~unsaved => \A s \in HandlerSections : UpToDate(content, s)'
    BY <1>1, <2>3, <2>4 DEF FileInv, FileLagsByOneCall, UpToDate, SetterHolds
  <2>6. WriteInv'
    BY <1>1, <1>2, <1>4, <1>6, <2>2, <2>5 DEF WriteInv
  <2>7. QED
    BY <1>1, <1>3, <2>6 DEF FileInv, FileLagsByOneCall, FileSectionsKept
<1>7. QED
  BY <1>5, <1>6

\* A save that writes the file keeps FileInv.
LEMMA WriteFileStep ==
    ASSUME TypeOK, FileInv, NEW c \in Procs, WriteFile(c)
    PROVE  FileInv'
<1> USE SectionKinds
<1>1. /\ pc[c] = "write" /\ writer' = Nobody /\ file' = content
      /\ section' = section /\ local' = local /\ copy' = copy /\ content' = content
  BY DEF WriteFile, request
<1>2. /\ pc'[c] \notin {"load", "write"} /\ \A d \in Procs : d # c => pc'[d] = pc[d]
      /\ hmu' = IF hmu = c THEN Nobody ELSE hmu
  BY EndSaveMoves DEF WriteFile
<1>3. \A d \in Procs : SavesHandler(d)' <=> SavesHandler(d)
  BY <1>1 DEF SavesHandler
<1>4. \A d \in Procs : pc'[d] # "write"
  BY <1>1, <1>2 DEF FileInv, LockInv
<1>5. LockInv'
  BY <1>1, <1>2, <1>3, <1>4 DEF FileInv, LockInv
<1>6. CASE SavesHandler(c)
  <2>1. accepted' = accepted /\ \A s \in HandlerSections : content[s] = copy[s]
    BY <1>1, <1>6 DEF WriteFile, FileInv, WriteInv
  <2>2. \A s \in FileSections : content[s] = accepted[s]
    BY <1>1, <1>6 DEF FileInv, WriteInv
  <2>3. QED
    BY <1>1, <1>4, <1>5, <2>1, <2>2 DEF FileInv, WriteInv, FileLagsByOneCall, FileSectionsKept
<1>7. CASE ~SavesHandler(c)
  <2>1. accepted' = [accepted EXCEPT ![section[c]] = local[c]]
    BY <1>7 DEF WriteFile
  <2>2. \A s \in FileSections : content[s] = IF section[c] = s THEN local[c] ELSE accepted[s]
    BY <1>1, <1>7 DEF FileInv, WriteInv
  <2>3. FileSectionsKept'
    BY <1>1, <2>1, <2>2 DEF FileSectionsKept, TypeOK
  <2>4. hmu' = hmu /\ hmu # c /\ unsaved' = unsaved
    BY <1>2, <1>7 DEF FileInv, LockInv, WriteFile, EndSave
  <2>5. FileLagsByOneCall'
    BY <1>1, <1>2, <1>7, <2>4 DEF FileInv, WriteInv, FileLagsByOneCall, UpToDate, SetterHolds
  <2>6. QED
    BY <1>4, <1>5, <2>3, <2>5 DEF FileInv, WriteInv
<1>8. QED
  BY <1>6, <1>7

\* Every step keeps FileInv.
LEMMA FileStep == TypeOK /\ StageInv /\ FileInv /\ [Next]_vars => FileInv'
<1> SUFFICES ASSUME TypeOK, StageInv, FileInv, [Next]_vars PROVE FileInv'
  OBVIOUS
<1> USE SectionKinds
<1>1. CASE Start
  <2>1. \A d \in Procs : pc'[d] \in {"load", "write"} <=> d = Main
    BY <1>1 DEF Start, Active
  <2>2. pc'[Main] = "load" /\ hmu' = Main /\ writer' = Nobody /\ file' = file /\ file # Broken
        /\ accepted' = accepted
    BY <1>1 DEF Start
  <2>3. LockInv'
    BY <2>1, <2>2 DEF LockInv, SavesHandler
  <2>4. \A s \in HandlerSections : copy'[s] = file[s]
    BY <1>1 DEF Start
  <2>5. WriteInv'
    BY <2>1, <2>2 DEF WriteInv
  <2>6. QED
    BY <2>2, <2>3, <2>4, <2>5 DEF FileInv, FileLagsByOneCall, FileSectionsKept
<1>2. CASE Crash
  BY <1>2 DEF Crash, FileInv, LockInv, WriteInv, UpToDate, FileLagsByOneCall, SetterHolds,
              FileSectionsKept, SavesHandler, disk, request
<1>3. ASSUME NEW c \in Calls, Begin(c) PROVE FileInv'
  <2>1. PICK s \in Sections :
            /\ pc[c] = "idle" /\ pc' = [pc EXCEPT ![c] = FirstStep(s)]
            /\ section' = [section EXCEPT ![c] = s]
    BY <1>3 DEF Begin, Go
  <2>2. UNCHANGED <<disk, copy, hmu, unsaved>> /\ \A d \in Procs : d # c => local'[d] = local[d]
    BY <1>3 DEF Begin, TypeOK
  <2>3. FirstStep(s) # "write" /\ (FirstStep(s) = "load" => s \in FileSections)
    BY DEF FirstStep, FileSections
  <2>4. QED
    BY <2>1, <2>2, <2>3, QuietStep DEF TypeOK
<1>4. ASSUME NEW c \in Calls, CallStep(c) PROVE FileInv'
  <2>1. CASE Assign(c)
    <3>1. section[c] \in HandlerSections /\ local[c] \in Values
      BY <2>1 DEF Assign, Go, StageInv, TypeOK
    <3>2. QED
      BY <2>1, <3>1, SetCopyStep DEF Assign, Go, request
  <2>2. CASE AddRule(c)
    <3>1. PICK p \in todo[c] : SetCopy(c, Patched(copy["rules"], {p}, c))
      BY <2>2 DEF AddRule
    <3>2. copy["rules"] \in Values /\ {p} \in SUBSET Parts
      BY DEF TypeOK, HandlerSections, Snapshot
    <3>3. Patched(copy["rules"], {p}, c) \in Values
      BY <3>2, PatchedTyped
    <3>4. section[c] \in HandlerSections
      BY <2>2 DEF AddRule, Go, StageInv
    <3>5. QED
      BY <2>2, <3>1, <3>3, <3>4, SetCopyStep DEF AddRule, Go, request
  <2>3. CASE ReadAuthConfig(c)
    BY <2>3, QuietStep DEF ReadAuthConfig, Go, request, TypeOK
  <2>4. CASE ChangeBlacklist(c)
    <3>1. \A d \in Procs : d # c => local'[d] = local[d]
      BY <2>4 DEF ChangeBlacklist, TypeOK
    <3>2. QED
      BY <2>4, <3>1, QuietStep DEF ChangeBlacklist, Go, request, TypeOK
  <2>5. CASE ChangeWAF(c)
    BY <2>5, QuietStep DEF ChangeWAF, Go, request, TypeOK
  <2>6. CASE RereadWAF(c)
    BY <2>6, QuietStep DEF RereadWAF, Go, request, TypeOK
  <2>7. CASE ChangeChain(c)
    <3>1. section[c] \notin HandlerSections
      BY <2>7 DEF ChangeChain, FileSections
    <3>2. QED
      BY <2>7, <3>1, QuietStep DEF ChangeChain, Go, request, TypeOK
  <2>8. CASE Refuse(c)
    BY <2>8, QuietStep DEF Refuse, Go, request, TypeOK
  <2>9. CASE RulesAdded(c)
    BY <2>9, QuietStep DEF RulesAdded, Finish, request, TypeOK
  <2>10. CASE Apply(c)
    BY <2>10, QuietStep DEF Apply, Finish, request, TypeOK
  <2>11. QED
    BY <1>4, <2>1, <2>2, <2>3, <2>4, <2>5, <2>6, <2>7, <2>8, <2>9, <2>10 DEF CallStep
<1>5. ASSUME NEW c \in Procs, Update(c) PROVE FileInv'
  <2>1. CASE LoadFails(c)
    BY <2>1, FailedSaveStep DEF LoadFails, disk, request
  <2>2. CASE OpenFails(c)
    BY <2>2, FailedSaveStep DEF OpenFails, disk, request
  <2>3. CASE WriteFails(c)
    BY <2>3, FailedSaveStep DEF WriteFails, request
  <2>4. QED
    BY <1>5, <2>1, <2>2, <2>3, OpenFileStep, WriteFileStep DEF Update
<1>6. CASE UNCHANGED vars
  BY <1>6 DEF vars, FileInv, LockInv, WriteInv, UpToDate, FileLagsByOneCall, SetterHolds,
              FileSectionsKept, SavesHandler
<1>7. QED
  BY <1>1, <1>2, <1>3, <1>4, <1>5, <1>6 DEF Next

-----------------------------------------------------------------------------
(* The running gateway *)

\* The sections whose runtime does not change with the copy.
Apart == HandlerSections \ Snapshot

\* A call that is alone overlaps with no other call of its section, and a
\* section with overlapping calls is contended.
AloneInv ==
    \A c \in Calls :
        /\ pc[c] = "idle" => c \notin alone
        /\ Active(c) /\ c \in alone => \A d \in Calls \ {c} : Active(d) => section[d] # section[c]
        /\ Active(c) /\ c \notin alone => section[c] \in contended

\* The section of a call at the places of one kind of section.
InPlace(c) ==
    /\ pc[c] = "apply" => section[c] \in Late \union {"locale"}
    /\ pc[c] = "change" => section[c] \in {"general_blacklist", "waf", "iptables_chain_name"}
    /\ pc[c] = "reread" => section[c] = "waf"
    /\ pc[c] = "next" => section[c] = "rules"
    /\ pc[c] = "read" => section[c] = "auth_config"

PlaceInv == \A c \in Calls : InPlace(c)

\* What a call that is alone has changed so far.
Progress(c) ==
    c \in alone /\ section[c] \in Apart =>
        /\ pc[c] = "change" /\ section[c] \notin contended => runtime[section[c]] = copy[section[c]]
        /\ pc[c] \in {"assign", "load", "write"} /\ section[c] \notin Late =>
              runtime[section[c]] = local[c]
        /\ pc[c] \in {"load", "write", "apply"} => copy[section[c]] = local[c]

ProgressInv == \A c \in Calls : Progress(c)

FollowInv == AloneInv /\ PlaceInv /\ ProgressInv /\ RuntimeFollows

\* The kinds of sections: by how the runtime follows.
LEMMA RuntimeKinds ==
    /\ Snapshot \subseteq HandlerSections /\ Apart \subseteq HandlerSections
    /\ Apart = Late \union {"general_blacklist", "waf"}
    /\ Late \intersect {"general_blacklist", "waf"} = {}
    /\ {"rules", "auth_config"} \subseteq Snapshot
    /\ Sections = Snapshot \union Apart \union FileSections
    /\ FileSections \intersect HandlerSections = {}
BY ConfigAssumption DEF Apart, HandlerSections, Snapshot, FileSections, Sections

\* The sections of the handler are not those that only the file has.
LEMMA SnapshotNotApart == \A s \in Snapshot : s \notin Apart
BY DEF Apart

\* It starts with a gateway that has what the handler has.
LEMMA FollowInit == Init => FollowInv
<1> SUFFICES ASSUME Init PROVE FollowInv
  OBVIOUS
<1>1. \A c \in Calls : pc[c] = "idle" /\ c \notin alone
  BY SectionKinds DEF Init
<1>2. \A s \in HandlerSections : runtime[s] = copy[s]
  BY SectionKinds DEF Init
<1>3. QED
  BY <1>1, <1>2 DEF FollowInv, AloneInv, PlaceInv, InPlace, ProgressInv, Progress, RuntimeFollows,
                    Active

\* The program starts: the runtime is what the handler has, and the calls of
\* the run before are over.
LEMMA FollowStart == ASSUME Start PROVE FollowInv'
<1>1. \A c \in Calls : ~Active(c)' /\ pc'[c] \in {"idle", "done", "failed"} /\ c \notin alone'
  BY SectionKinds DEF Start, Active
<1>2. \A s \in HandlerSections : runtime'[s] = copy'[s]
  BY DEF Start
<1>3. QED
  BY <1>1, <1>2 DEF FollowInv, AloneInv, PlaceInv, InPlace, ProgressInv, Progress, RuntimeFollows

\* A call begins, on its own or while others of its section are on their way.
LEMMA FollowBegin ==
    ASSUME TypeOK, FollowInv, NEW c \in Calls, Begin(c)
    PROVE  FollowInv'
<1>1. PICK s \in Sections :
          /\ pc[c] = "idle" /\ pc' = [pc EXCEPT ![c] = FirstStep(s)]
          /\ section' = [section EXCEPT ![c] = s]
          /\ LET others == {d \in Calls : Active(d) /\ section[d] = s}
             IN  /\ alone' = IF others = {} THEN alone \union {c} ELSE alone \ others
                 /\ contended' = IF others = {} THEN contended ELSE contended \union {s}
  BY DEF Begin, Go
<1> DEFINE others == {d \in Calls : Active(d) /\ section[d] = s}
<1>2. /\ pc'[c] = FirstStep(s) /\ section'[c] = s
      /\ \A d \in Calls \ {c} : pc'[d] = pc[d] /\ section'[d] = section[d] /\ local'[d] = local[d]
  BY <1>1, SectionKinds DEF TypeOK, Begin
<1>3. runtime' = runtime /\ copy' = copy
  BY DEF Begin
<1>4. /\ ~Active(c) /\ c \notin others /\ Active(c)' /\ pc'[c] # "idle"
      /\ \A d \in Calls \ {c} : Active(d)' <=> Active(d)
      /\ \A d \in Calls : Active(d) => d # c
  BY <1>1, <1>2 DEF Active, FirstStep
<1>5. /\ c \notin alone
      /\ others = {} => alone' = alone \union {c} /\ contended' = contended
      /\ others # {} => alone' = alone \ others /\ contended' = contended \union {s}
  BY <1>1 DEF FollowInv, AloneInv
<1>6. \A d \in Calls : d \in others <=> Active(d) /\ section[d] = s
  OBVIOUS
<1> HIDE DEF others
<1>7. AloneInv'
  <2> SUFFICES ASSUME NEW d \in Calls
               PROVE  /\ pc'[d] = "idle" => d \notin alone'
                      /\ Active(d)' /\ d \in alone' =>
                             \A e \in Calls \ {d} : Active(e)' => section'[e] # section'[d]
                      /\ Active(d)' /\ d \notin alone' => section'[d] \in contended'
    BY DEF AloneInv
  <2>1. CASE d = c
    BY <1>2, <1>4, <1>5, <1>6, <2>1
  <2>2. CASE d # c
    <3>1. pc'[d] = "idle" => d \notin alone'
      BY <1>2, <1>5, <2>2 DEF FollowInv, AloneInv
    <3>2. ASSUME Active(d)', d \in alone', NEW e \in Calls \ {d}, Active(e)'
          PROVE  section'[e] # section'[d]
      <4>1. Active(d) /\ d \in alone /\ d \notin others /\ section[d] # s
        BY <1>4, <1>5, <1>6, <2>2, <3>2
      <4>2. QED
        BY <1>2, <1>4, <2>2, <3>2, <4>1 DEF FollowInv, AloneInv
    <3>3. Active(d)' /\ d \notin alone' => section'[d] \in contended'
      BY <1>2, <1>4, <1>5, <1>6, <2>2 DEF FollowInv, AloneInv
    <3>4. QED
      BY <3>1, <3>2, <3>3
  <2>3. QED
    BY <2>1, <2>2
<1>8. PlaceInv'
  <2>1. InPlace(c)'
    BY <1>2, SectionKinds DEF InPlace, FirstStep
  <2>2. QED
    BY <1>2, <2>1 DEF FollowInv, PlaceInv, InPlace
<1>9. ProgressInv'
  <2>1. Progress(c)'
    <3> SUFFICES ASSUME c \in alone', s \in Apart
                 PROVE  /\ pc'[c] = "change" /\ s \notin contended' => runtime[s] = copy[s]
                        /\ pc'[c] \in {"assign", "load", "write"} => s \in Late
                        /\ pc'[c] \notin {"load", "write", "apply"}
      BY <1>2, <1>3 DEF Progress
    <3>1. others = {} /\ contended' = contended
      BY <1>4, <1>5
    <3>2. s \notin contended => runtime[s] = copy[s]
      BY <1>6, <3>1, RuntimeKinds DEF FollowInv, RuntimeFollows
    <3>3. pc'[c] = IF s \in Late THEN "assign" ELSE "change"
      BY <1>2, RuntimeKinds, ConfigAssumption DEF FirstStep
    <3>4. QED
      BY <3>1, <3>2, <3>3
  <2>2. ASSUME NEW d \in Calls, d # c PROVE Progress(d)'
    <3>1. /\ d \in alone' => d \in alone
          /\ contended \subseteq contended'
      BY <1>5, <2>2
    <3>2. QED
      BY <1>2, <1>3, <2>2, <3>1 DEF FollowInv, ProgressInv, Progress
  <2>3. QED
    BY <2>1, <2>2 DEF ProgressInv
<1>10. RuntimeFollows'
  <2>1. contended \subseteq contended'
    BY <1>5
  <2>2. \A d \in Calls : Active(d) => Active(d)' /\ section'[d] = section[d]
    BY <1>2, <1>4
  <2>3. QED
    BY <1>3, <2>1, <2>2 DEF FollowInv, RuntimeFollows
<1>11. QED
  BY <1>7, <1>8, <1>9, <1>10 DEF FollowInv

\* A call changes the runtime and the copy of its section only: what is left to
\* show is about the call itself.
LEMMA OwnSectionStep ==
    ASSUME TypeOK, FollowInv, NEW c \in Calls, Active(c), section' = section,
           \A d \in Calls \ {c} : pc'[d] = pc[d] /\ local'[d] = local[d],
           \A s \in HandlerSections \ {section[c]} : runtime'[s] = runtime[s] /\ copy'[s] = copy[s],
           pc'[c] # "idle", InPlace(c)', Progress(c)',
           section[c] \in Snapshot => runtime'[section[c]] = copy'[section[c]],
           \/ UNCHANGED <<alone, contended>>
           \/ ~Active(c)' /\ Finish(c),
           ~Active(c)' /\ section[c] \in Apart =>
               runtime'[section[c]] = copy'[section[c]] \/ section[c] \in contended'
    PROVE  FollowInv'
<1>1. \A d \in Calls \ {c} : Active(d)' <=> Active(d)
  BY DEF Active
<1>2. /\ \A d \in Calls : d # c => (d \in alone' <=> d \in alone)
      /\ c \in alone' => c \in alone
      /\ contended' \subseteq contended
      /\ \A s \in contended : s \notin contended' => s = section[c] /\ c \in alone /\ ~Active(c)'
  BY DEF Finish
<1>3. Active(c)' => UNCHANGED <<alone, contended>>
  OBVIOUS
<1>4. AloneInv'
  <2> SUFFICES ASSUME NEW d \in Calls
               PROVE  /\ pc'[d] = "idle" => d \notin alone'
                      /\ Active(d)' /\ d \in alone' =>
                             \A e \in Calls \ {d} : Active(e)' => section[e] # section[d]
                      /\ Active(d)' /\ d \notin alone' => section[d] \in contended'
    BY DEF AloneInv
  <2>1. \A e \in Calls : Active(e)' => Active(e)
    BY <1>1
  <2>2. CASE d = c
    BY <1>3, <2>1, <2>2 DEF FollowInv, AloneInv
  <2>3. CASE d # c
    <3>1. pc'[d] = "idle" => d \notin alone'
      BY <1>2, <2>3 DEF FollowInv, AloneInv
    <3>2. Active(d)' /\ d \in alone' => \A e \in Calls \ {d} : Active(e)' => section[e] # section[d]
      BY <1>2, <2>1, <2>3 DEF FollowInv, AloneInv
    <3>3. Active(d)' /\ d \notin alone' => section[d] \in contended'
      <4>1. Active(d) /\ c \in alone => section[d] # section[c]
        BY <2>3 DEF FollowInv, AloneInv
      <4>2. QED
        BY <1>2, <2>1, <2>3, <4>1 DEF FollowInv, AloneInv
    <3>4. QED
      BY <3>1, <3>2, <3>3
  <2>4. QED
    BY <2>2, <2>3
<1>5. PlaceInv'
  BY DEF FollowInv, PlaceInv, InPlace
<1>6. ProgressInv'
  <2> SUFFICES ASSUME NEW d \in Calls, d # c PROVE Progress(d)'
    BY DEF ProgressInv
  <2> SUFFICES ASSUME d \in alone', section[d] \in Apart,
                      pc[d] \in {"change", "assign", "load", "write", "apply"}
               PROVE  Progress(d)'
    BY DEF Progress
  <2>1. d \in alone /\ Active(d) /\ section[d] # section[c]
    BY <1>2 DEF FollowInv, AloneInv, Active
  <2>2. runtime'[section[d]] = runtime[section[d]] /\ copy'[section[d]] = copy[section[d]]
    BY <2>1, RuntimeKinds
  <2>3. section[d] \notin contended' => section[d] \notin contended
    BY <1>2, <2>1
  <2>4. QED
    BY <2>1, <2>2, <2>3 DEF FollowInv, ProgressInv, Progress
<1>7. RuntimeFollows'
  <2> SUFFICES ASSUME NEW s \in HandlerSections, runtime'[s] # copy'[s]
               PROVE  /\ s \notin Snapshot
                      /\ s \in contended' \/ \E d \in Calls : Active(d)' /\ section[d] = s
    BY DEF RuntimeFollows
  <2>1. CASE s = section[c]
    BY <2>1, RuntimeKinds DEF Apart
  <2>2. CASE s # section[c]
    BY <1>1, <1>2, <2>2 DEF FollowInv, RuntimeFollows
  <2>3. QED
    BY <2>1, <2>2
<1>8. QED
  BY <1>4, <1>5, <1>6, <1>7 DEF FollowInv

\* A step that leaves alone what the calls have done (Crash, and the save of
\* the start).
LEMMA FollowAside ==
    ASSUME FollowInv, UNCHANGED <<copy, section, local, alone, contended>>,
           \A d \in Calls : pc'[d] = pc[d],
           \A s \in HandlerSections : runtime'[s] = runtime[s]
    PROVE  FollowInv'
<1>1. \A d \in Calls : Active(d)' <=> Active(d)
  BY DEF Active
<1>2. AloneInv' /\ PlaceInv'
  BY <1>1 DEF FollowInv, AloneInv, PlaceInv, InPlace
<1>3. ProgressInv'
  BY RuntimeKinds DEF FollowInv, ProgressInv, Progress
<1>4. RuntimeFollows'
  BY <1>1 DEF FollowInv, RuntimeFollows
<1>5. QED
  BY <1>2, <1>3, <1>4 DEF FollowInv

\* A step of a call keeps FollowInv.
LEMMA FollowCallStep ==
    ASSUME TypeOK, StageInv, FollowInv, NEW c \in Calls, CallStep(c)
    PROVE  FollowInv'
<1> USE SectionKinds
<1>1. section' = section /\ Active(c) /\ InPlace(c) /\ Progress(c)
  BY DEF CallStep, ReadAuthConfig, ChangeBlacklist, ChangeWAF, RereadWAF, ChangeChain, Refuse,
         Assign, AddRule, RulesAdded, Apply, request, Active, Go, FollowInv, PlaceInv, ProgressInv
<1>2. section[c] \in Apart /\ c \notin alone => section[c] \in contended
  BY <1>1 DEF FollowInv, AloneInv
<1>3. section[c] \in Snapshot => runtime[section[c]] = copy[section[c]]
  BY RuntimeKinds DEF FollowInv, RuntimeFollows
<1>4. CASE ReadAuthConfig(c)
  <2>1. /\ pc[c] = "read" /\ pc'[c] = "assign" /\ UNCHANGED <<copy, runtime, alone, contended>>
        /\ \A d \in Calls \ {c} : pc'[d] = pc[d] /\ local'[d] = local[d]
    BY <1>4 DEF ReadAuthConfig, Go, TypeOK
  <2>2. section[c] \notin Apart
    BY <1>1, <2>1, RuntimeKinds, SnapshotNotApart DEF InPlace
  <2>3. InPlace(c)' /\ Progress(c)' /\ Active(c)'
    BY <1>1, <2>1, <2>2 DEF InPlace, Progress, Active
  <2>4. QED
    BY <1>1, <1>3, <2>1, <2>2, <2>3, OwnSectionStep
<1>5. CASE ChangeBlacklist(c)
  <2>1. PICK v :
            /\ runtime' = [runtime EXCEPT !["general_blacklist"] = v]
            /\ local' = [local EXCEPT ![c] = v]
    BY <1>5 DEF ChangeBlacklist
  <2>2. /\ pc[c] = "change" /\ pc'[c] = "assign" /\ UNCHANGED <<copy, alone, contended>>
        /\ section[c] = "general_blacklist"
        /\ \A d \in Calls \ {c} : pc'[d] = pc[d]
    BY <1>5 DEF ChangeBlacklist, Go, TypeOK
  <2>3. /\ local'[c] = v /\ runtime'["general_blacklist"] = v
        /\ \A d \in Calls \ {c} : local'[d] = local[d]
        /\ \A s \in HandlerSections \ {section[c]} : runtime'[s] = runtime[s]
    BY <2>1, <2>2, RuntimeKinds DEF TypeOK
  <2>4. InPlace(c)' /\ Progress(c)' /\ Active(c)'
    BY <1>1, <2>2, <2>3 DEF InPlace, Progress, Active
  <2>5. section[c] \notin Snapshot
    BY <2>2, RuntimeKinds, SnapshotNotApart
  <2>6. QED
    BY <1>1, <2>2, <2>3, <2>4, <2>5, OwnSectionStep
<1>6. CASE ChangeWAF(c)
  <2>1. /\ pc[c] = "change" /\ pc'[c] \in {"assign", "reread"}
        /\ UNCHANGED <<copy, local, alone, contended>>
        /\ section[c] = "waf"
        /\ \A d \in Calls \ {c} : pc'[d] = pc[d]
    BY <1>6 DEF ChangeWAF, Go, TypeOK
  <2>2. /\ runtime'["waf"] = local[c]
        /\ \A s \in HandlerSections \ {section[c]} : runtime'[s] = runtime[s]
    BY <1>6, <2>1, RuntimeKinds DEF ChangeWAF, TypeOK
  <2>3. InPlace(c)' /\ Progress(c)' /\ Active(c)'
    BY <1>1, <2>1, <2>2 DEF InPlace, Progress, Active
  <2>4. section[c] \notin Snapshot
    BY <2>1, RuntimeKinds, SnapshotNotApart
  <2>5. QED
    BY <1>1, <2>1, <2>2, <2>3, <2>4, OwnSectionStep
<1>7. CASE RereadWAF(c)
  <2>1. /\ pc[c] = "reread" /\ pc'[c] = "assign" /\ UNCHANGED <<copy, runtime, alone, contended>>
        /\ local'[c] = runtime["waf"]
        /\ \A d \in Calls \ {c} : pc'[d] = pc[d] /\ local'[d] = local[d]
    BY <1>7 DEF RereadWAF, Go, TypeOK
  <2>2. section[c] = "waf" /\ section[c] \notin Snapshot
    BY <1>1, <2>1, RuntimeKinds, SnapshotNotApart DEF InPlace
  <2>3. InPlace(c)' /\ Progress(c)' /\ Active(c)'
    BY <1>1, <2>1, <2>2 DEF InPlace, Progress, Active
  <2>4. QED
    BY <1>1, <2>1, <2>2, <2>3, OwnSectionStep
<1>8. CASE ChangeChain(c)
  <2>1. /\ pc[c] = "change" /\ pc'[c] \in {"load", "failed"}
        /\ UNCHANGED <<copy, local, alone, contended>>
        /\ section[c] = "iptables_chain_name"
        /\ \A d \in Calls \ {c} : pc'[d] = pc[d]
    BY <1>8 DEF ChangeChain, Go, TypeOK
  <2>2. section[c] \notin HandlerSections
    BY <2>1 DEF FileSections
  <2>3. \A s \in HandlerSections : runtime'[s] = runtime[s]
    BY <1>8, <2>1, <2>2 DEF ChangeChain, TypeOK
  <2>4. InPlace(c)' /\ Progress(c)' /\ pc'[c] # "idle"
    BY <1>1, <2>1, <2>2, RuntimeKinds DEF InPlace, Progress
  <2>5. QED
    BY <1>1, <2>1, <2>2, <2>3, <2>4, OwnSectionStep, RuntimeKinds
<1>9. CASE Refuse(c)
  <2>1. /\ pc[c] \in {"read", "change", "next"} /\ pc'[c] = "failed"
        /\ UNCHANGED <<copy, runtime, local, alone, contended>>
        /\ \A d \in Calls \ {c} : pc'[d] = pc[d]
    BY <1>9 DEF Refuse, Go, TypeOK
  <2>2. InPlace(c)' /\ Progress(c)' /\ pc'[c] # "idle"
    BY <1>1, <2>1 DEF InPlace, Progress
  <2>3. ASSUME section[c] \in Apart PROVE runtime[section[c]] = copy[section[c]] \/ section[c] \in contended
    <3>1. pc[c] = "change"
      BY <1>1, <2>1, <2>3, RuntimeKinds, SnapshotNotApart DEF InPlace
    <3>2. QED
      BY <1>1, <1>2, <2>3, <3>1 DEF Progress
  <2>4. QED
    BY <1>1, <1>3, <2>1, <2>2, <2>3, OwnSectionStep
<1>10. ASSUME NEW v, SetCopy(c, v), pc[c] \in {"assign", "next"}, pc' = [pc EXCEPT ![c] = "load"],
              pc[c] = "assign" => v = local[c],
              UNCHANGED <<local, alone, contended>>
       PROVE  FollowInv'
  <2>1. section[c] \in HandlerSections
    BY <1>10 DEF StageInv
  <2>2. /\ copy'[section[c]] = v
        /\ section[c] \in Snapshot => runtime'[section[c]] = v
        /\ section[c] \notin Snapshot => runtime' = runtime
        /\ \A s \in HandlerSections \ {section[c]} : runtime'[s] = runtime[s] /\ copy'[s] = copy[s]
    BY <1>10, <2>1 DEF SetCopy, TypeOK
  <2>3. pc'[c] = "load" /\ \A d \in Calls \ {c} : pc'[d] = pc[d] /\ local'[d] = local[d]
    BY <1>10 DEF TypeOK
  <2>4. InPlace(c)' /\ Active(c)'
    BY <2>3 DEF InPlace, Active
  <2>5. Progress(c)'
    <3> SUFFICES ASSUME c \in alone, section[c] \in Apart
                 PROVE  /\ section[c] \notin Late => runtime'[section[c]] = local[c]
                        /\ copy'[section[c]] = local[c]
      BY <1>1, <1>10, <2>3 DEF Progress
    <3>1. pc[c] = "assign"
      BY <1>1, <1>10, RuntimeKinds, SnapshotNotApart DEF InPlace
    <3>2. QED
      BY <1>1, <1>10, <2>2, <3>1, SnapshotNotApart DEF Progress
  <2>6. QED
    BY <1>1, <1>10, <2>2, <2>3, <2>4, <2>5, OwnSectionStep
<1>11. CASE Assign(c)
  BY <1>10, <1>11 DEF Assign, Go
<1>12. CASE AddRule(c)
  BY <1>10, <1>12 DEF AddRule, Go
<1>13. CASE RulesAdded(c)
  <2>1. /\ pc[c] = "next" /\ Finish(c) /\ pc'[c] = "done" /\ UNCHANGED <<copy, runtime, local>>
        /\ \A d \in Calls \ {c} : pc'[d] = pc[d]
    BY <1>13 DEF RulesAdded, Finish, TypeOK
  <2>2. section[c] \notin Apart
    BY <1>1, <2>1, RuntimeKinds, SnapshotNotApart DEF InPlace
  <2>3. InPlace(c)' /\ Progress(c)' /\ ~Active(c)'
    BY <2>1 DEF InPlace, Progress, Active
  <2>4. QED
    BY <1>1, <1>3, <2>1, <2>2, <2>3, OwnSectionStep
<1>14. CASE Apply(c)
  <2>1. /\ pc[c] = "apply" /\ Finish(c) /\ pc'[c] = "done" /\ UNCHANGED <<copy, local>>
        /\ \A d \in Calls \ {c} : pc'[d] = pc[d]
    BY <1>14 DEF Apply, Finish, TypeOK
  <2>2. /\ runtime'[section[c]] = local[c]
        /\ \A s \in HandlerSections \ {section[c]} : runtime'[s] = runtime[s]
    BY <1>14 DEF Apply, TypeOK
  <2>3. InPlace(c)' /\ Progress(c)' /\ ~Active(c)'
    BY <2>1 DEF InPlace, Progress, Active
  <2>4. section[c] \notin Snapshot
    BY <1>1, <2>1, RuntimeKinds, SnapshotNotApart DEF InPlace, FileSections
  <2>5. section[c] \in Apart => runtime'[section[c]] = copy'[section[c]] \/ section[c] \in contended'
    BY <1>1, <1>2, <2>1, <2>2 DEF Progress, Finish
  <2>6. QED
    BY <1>1, <2>1, <2>2, <2>3, <2>4, <2>5, OwnSectionStep
<1>15. QED
  BY <1>4, <1>5, <1>6, <1>7, <1>8, <1>9, <1>11, <1>12, <1>13, <1>14 DEF CallStep

\* Update of a call ends, or opens the file: what it has done is settled by
\* then, but for what follows after the lock is released.
LEMMA FollowUpdate ==
    ASSUME TypeOK, FollowInv, NEW c \in Procs, Update(c)
    PROVE  FollowInv'
<1> USE SectionKinds
<1>1. /\ section' = section /\ copy' = copy /\ local' = local
      /\ \A s \in HandlerSections : runtime'[s] = runtime[s]
      /\ pc[c] \in {"load", "write"}
  <2>1. \A s \in HandlerSections : s # "locale"
    BY DEF FileSections
  <2>2. QED
    BY <2>1 DEF Update, LoadFails, OpenFails, OpenFile, WriteFile, WriteFails, SetDefaultLocale, Go,
                TypeOK, disk, request
<1>2. CASE OpenFile(c)
  <2>1. /\ pc[c] = "load" /\ pc'[c] = "write" /\ \A d \in Procs : d # c => pc'[d] = pc[d]
        /\ UNCHANGED <<alone, contended>>
    BY <1>2 DEF OpenFile, Go, TypeOK
  <2>2. CASE c = Main
    BY <1>1, <2>1, <2>2, FollowAside
  <2>3. CASE c \in Calls
    <3>1. InPlace(c)' /\ Progress(c)' /\ Active(c)' /\ Active(c)
      BY <1>1, <2>1, <2>3, RuntimeKinds DEF FollowInv, ProgressInv, InPlace, Progress, Active
    <3>2. section[c] \in Snapshot => runtime'[section[c]] = copy'[section[c]]
      BY <1>1, RuntimeKinds DEF FollowInv, RuntimeFollows
    <3>3. QED
      BY <1>1, <2>1, <2>3, <3>1, <3>2, OwnSectionStep
  <2>4. QED
    BY <2>2, <2>3 DEF Procs
<1>3. ASSUME NEW saved \in BOOLEAN, EndSave(c, saved) PROVE FollowInv'
  <2>1. \A d \in Procs : d # c => pc'[d] = pc[d]
    BY <1>3, EndSaveMoves
  <2>2. CASE c = Main
    <3>1. AfterSave(c, saved) = "done"
      BY <2>2 DEF AfterSave
    <3>2. Finish(c)
      BY <1>3, <3>1 DEF EndSave
    <3>3. c \notin alone
      BY <2>2, ConfigAssumption DEF TypeOK
    <3>4. alone' = alone /\ contended' = contended
      BY <3>2, <3>3 DEF Finish
    <3>5. QED
      BY <1>1, <2>1, <2>2, <3>4, FollowAside
  <2>3. CASE c \in Calls
    <3>1. \/ AfterSave(c, saved) = "done" /\ pc'[c] = "done" /\ Finish(c)
          \/ /\ AfterSave(c, saved) # "done" /\ pc'[c] = AfterSave(c, saved)
             /\ UNCHANGED <<alone, contended>>
      BY <1>3 DEF EndSave, Finish, TypeOK
    <3>2. /\ pc'[c] \in {"done", "failed", "apply", "next"}
          /\ pc'[c] = "failed" => section[c] \notin HandlerSections
          /\ pc'[c] = "apply" => section[c] \in Late \union {"locale"}
          /\ pc'[c] = "next" => section[c] = "rules"
          /\ pc'[c] = "done" => section[c] \notin Late
      BY <2>3, <3>1 DEF AfterSave, SavesHandler
    <3>3. Active(c) /\ Progress(c) /\ (section[c] \in Apart /\ c \notin alone => section[c] \in contended)
      BY <1>1, <2>3 DEF FollowInv, AloneInv, ProgressInv, Active
    <3>4. InPlace(c)' /\ pc'[c] # "idle"
      BY <1>1, <3>2 DEF InPlace
    <3>5. Progress(c)'
      BY <1>1, <3>1, <3>2, <3>3, RuntimeKinds DEF Progress, Finish
    <3>6. section[c] \in Snapshot => runtime'[section[c]] = copy'[section[c]]
      BY <1>1, RuntimeKinds DEF FollowInv, RuntimeFollows
    <3>7. ASSUME ~Active(c)', section[c] \in Apart
          PROVE  runtime'[section[c]] = copy'[section[c]] \/ section[c] \in contended'
      <4>1. pc'[c] = "done" /\ section[c] \notin Late
        BY <3>2, <3>7, RuntimeKinds DEF Active
      <4>2. CASE c \in alone
        BY <1>1, <3>3, <3>7, <4>1, <4>2, RuntimeKinds DEF Progress
      <4>3. CASE c \notin alone
        BY <3>1, <3>3, <3>7, <4>1, <4>3 DEF Finish
      <4>4. QED
        BY <4>2, <4>3
    <3>8. UNCHANGED <<alone, contended>> \/ (~Active(c)' /\ Finish(c))
      BY <3>1 DEF Active
    <3>9. QED
      BY <1>1, <2>1, <2>3, <3>3, <3>4, <3>5, <3>6, <3>7, <3>8, OwnSectionStep
  <2>4. QED
    BY <2>2, <2>3 DEF Procs
<1>4. QED
  BY <1>2, <1>3 DEF Update, LoadFails, OpenFails, WriteFile, WriteFails

\* Every step keeps FollowInv.
LEMMA FollowStep == TypeOK /\ StageInv /\ FollowInv /\ [Next]_vars => FollowInv'
<1> SUFFICES ASSUME TypeOK, StageInv, FollowInv, [Next]_vars PROVE FollowInv'
  OBVIOUS
<1>1. CASE Start
  BY <1>1, FollowStart
<1>2. CASE Crash
  BY <1>2, FollowAside DEF Crash, request
<1>3. CASE UNCHANGED vars
  BY <1>3, FollowAside DEF vars
<1>4. QED
  BY <1>1, <1>2, <1>3, FollowBegin, FollowCallStep, FollowUpdate DEF Next

-----------------------------------------------------------------------------
(* Theorems *)

\* The inductive invariant of the file.
LEMMA FileInvariant == Spec => [](TypeOK /\ StageInv /\ FileInv)
<1>1. Init => TypeOK /\ StageInv /\ FileInv
  BY TypesInit, FileInit
<1>2. (TypeOK /\ StageInv /\ FileInv) /\ [Next]_vars => (TypeOK /\ StageInv /\ FileInv)'
  BY TypesStep, StagesStep, FileStep
<1>3. QED
  BY <1>1, <1>2, PTL DEF Spec

\* The file has what the handler has, up to the one call that is about to save
\* it and unless the last save failed, for any number of calls, sections,
\* failures and crashes (saveConfigLocked, Update).
THEOREM FileFollowsHandler == Spec => [](TypeOK /\ FileLagsByOneCall)
<1>1. TypeOK /\ StageInv /\ FileInv => TypeOK /\ FileLagsByOneCall
  BY DEF FileInv
<1>2. QED
  BY <1>1, FileInvariant, PTL

\* Saves of the handler keep the sections that only the file has (Update).
THEOREM FileKeepsItsOwn == Spec => []FileSectionsKept
<1>1. TypeOK /\ StageInv /\ FileInv => FileSectionsKept
  BY DEF FileInv
<1>2. QED
  BY <1>1, FileInvariant, PTL

\* A program that starts again has what the handler had when it was killed, but
\* for the section that was being saved, unless the last save had failed.
THEOREM RestartRestoresHandler == Spec => RestartRestores
<1>1. TypeOK /\ StageInv /\ FileInv /\ [Next]_vars =>
        [~up /\ up' /\ ~unsaved =>
            \A s \in HandlerSections : copy'[s] = copy[s] \/ SetterHolds(s)]_vars
  <2> SUFFICES ASSUME TypeOK, FileInv, Next, ~up, up', ~unsaved, NEW s \in HandlerSections
               PROVE  copy'[s] = copy[s] \/ SetterHolds(s)
    BY DEF vars
  <2>1. Start
    <3>1. ~Crash
      BY DEF Crash
    <3>2. \A c \in Calls : ~Begin(c)
      BY DEF Begin, Go
    <3>3. \A c \in Calls : ~CallStep(c)
      <4>1. \A c \in Calls : ~ReadAuthConfig(c) /\ ~ChangeBlacklist(c) /\ ~ChangeWAF(c) /\ ~RereadWAF(c)
        BY DEF ReadAuthConfig, ChangeBlacklist, ChangeWAF, RereadWAF, Go
      <4>2. \A c \in Calls : ~ChangeChain(c) /\ ~Refuse(c) /\ ~Assign(c)
        BY DEF ChangeChain, Refuse, Assign, Go
      <4>3. \A c \in Calls : ~AddRule(c) /\ ~RulesAdded(c) /\ ~Apply(c)
        BY DEF AddRule, RulesAdded, Apply, Go
      <4>4. QED
        BY <4>1, <4>2, <4>3 DEF CallStep
    <3>4. \A c \in Procs : ~Update(c)
      BY DEF Update, LoadFails, OpenFails, OpenFile, WriteFile, WriteFails, Go
    <3>5. QED
      BY <3>1, <3>2, <3>3, <3>4 DEF Next
  <2>2. file # Broken /\ copy'[s] = file[s]
    BY <2>1 DEF Start
  <2>3. QED
    BY <2>2 DEF FileInv, FileLagsByOneCall
<1>2. QED
  BY <1>1, FileInvariant, PTL DEF Spec, RestartRestores

\* With no call of a section on its way the gateway runs with what the handler
\* has, unless calls of the section overlapped and none was alone since; what
\* is in the published snapshot agrees at every moment, whatever overlaps.
THEOREM RuntimeFollowsHandler == Spec => []RuntimeFollows
<1>1. Init => TypeOK /\ StageInv /\ FollowInv
  BY TypesInit, FileInit, FollowInit
<1>2. (TypeOK /\ StageInv /\ FollowInv) /\ [Next]_vars => (TypeOK /\ StageInv /\ FollowInv)'
  BY TypesStep, StagesStep, FollowStep
<1>3. TypeOK /\ StageInv /\ FollowInv => RuntimeFollows
  BY DEF FollowInv
<1>4. QED
  BY <1>1, <1>2, <1>3, PTL DEF Spec

=============================================================================

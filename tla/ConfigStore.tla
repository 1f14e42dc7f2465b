------------------------------ MODULE ConfigStore ------------------------------
(***************************************************************************)
(* The configuration: config.json (pkg/config/manager.go), the handler's   *)
(* copy of it, what the gateway runs with, and the admin calls that change *)
(* them.                                                                   *)
(*                                                                         *)
(* Most setters change the handler's copy and save every section of it     *)
(* under h.mu, but differ in when the running gateway follows: with the    *)
(* copy, after the lock is released, or before it is taken.  Two calls     *)
(* change the file alone.  A save reads the file and writes it anew, in    *)
(* place: the file is truncated before it is written, and saves may fail   *)
(* and the program may be killed in between.                               *)
(***************************************************************************)
EXTENDS Naturals

CONSTANTS
    Calls,       \* calls of the admin API, each made once
    Main,        \* the start of the program, which saves too
    Parts,       \* what a section consists of: paths, fields, addresses
    Published,   \* sections that are changed with the published snapshot
    Late,        \* sections whose runtime follows after h.mu is released
    IOMayFail,   \* whether reading or writing the file may fail
    MaxCrashes,  \* bound of the crashes
    Nobody, Broken

ASSUME ConfigAssumption ==
    /\ Main \notin Calls /\ Nobody \notin Calls \union {Main}
    /\ IOMayFail \in BOOLEAN
    /\ MaxCrashes \in Nat
    /\ Published \intersect Late = {}
    /\ (Published \union Late) \intersect {"rules", "auth_config", "general_blacklist", "waf",
                                           "locale", "iptables_chain_name"} = {}

Procs == Calls \union {Main}

\* Who wrote each part of a section last.
Values == [Parts -> Calls \union {Nobody}]
Nothing == [p \in Parts |-> Nobody]

\* The sections that saveConfigLocked writes, and those it does not know.
Snapshot == Published \union {"rules", "auth_config"}
HandlerSections == Snapshot \union Late \union {"general_blacklist", "waf"}
FileSections == {"locale", "iptables_chain_name"}
Sections == HandlerSections \union FileSections

ASSUME BrokenAssumption == Broken \notin [Sections -> Values]

VARIABLES
    up,          \* whether the program runs
    file,        \* config.json; Broken when it cannot be parsed
    copy,        \* the handler's fields
    runtime,     \* what the gateway runs with
    hmu, writer, \* who holds h.mu, and m.mu of the manager
    content,     \* what the writer is about to write
    pc, section, parts, todo, local,  \* of each call
    crashes,
    accepted,    \* history: the file's own sections, as last written
    unsaved,     \* history: the last save of the handler failed
    alone,       \* history: calls that no other call of the section overlapped
    contended    \* history: sections with overlapping calls, and no lone one since

vars == <<up, file, copy, runtime, hmu, writer, content, pc, section, parts, todo,
          local, crashes, accepted, unsaved, alone, contended>>
disk == <<file, content, accepted, writer>>
request == <<section, parts>>

PCs == {"idle", "read", "change", "reread", "assign", "load", "write", "next", "apply",
        "done", "failed"}

TypeOK ==
    /\ up \in BOOLEAN
    /\ file \in [Sections -> Values] \union {Broken}
    /\ copy \in [HandlerSections -> Values]
    /\ runtime \in [Sections -> Values]
    /\ hmu \in Procs \union {Nobody} /\ writer \in Procs \union {Nobody}
    /\ content \in [Sections -> Values]
    /\ pc \in [Procs -> PCs]
    /\ section \in [Procs -> Sections]
    /\ parts \in [Procs -> SUBSET Parts] /\ todo \in [Procs -> SUBSET Parts]
    /\ local \in [Procs -> Values]
    /\ crashes \in 0..MaxCrashes
    /\ accepted \in [FileSections -> Values]
    /\ unsaved \in BOOLEAN
    /\ alone \subseteq Calls
    /\ contended \subseteq Sections

\* The program is about to start with the file of an earlier run.
Init ==
    /\ up = FALSE
    /\ file = [s \in Sections |-> Nothing]
    /\ copy = [s \in HandlerSections |-> Nothing]
    /\ runtime = [s \in Sections |-> Nothing]
    /\ hmu = Nobody /\ writer = Nobody
    /\ content = [s \in Sections |-> Nothing]
    /\ pc = [c \in Procs |-> "idle"]
    /\ section = [c \in Procs |-> "rules"]
    /\ parts = [c \in Procs |-> {}] /\ todo = [c \in Procs |-> {}]
    /\ local = [c \in Procs |-> Nothing]
    /\ crashes = 0
    /\ accepted = [s \in FileSections |-> Nothing]
    /\ unsaved = FALSE
    /\ alone = {} /\ contended = {}

Active(c) == pc[c] \notin {"idle", "done", "failed"}

-----------------------------------------------------------------------------
(* The program starts, and is killed *)

\* Mutant: the handler starts with an empty blacklist.
StartWithoutBlacklist ==
    /\ ~up /\ file # Broken
    /\ up' = TRUE
    /\ copy' = [s \in HandlerSections |->
                   IF s = "general_blacklist" THEN Nothing ELSE file[s]]
    /\ runtime' = file
    /\ hmu' = Main /\ writer' = Nobody
    /\ pc' = [c \in Procs |-> IF c = Main THEN "load" ELSE IF Active(c) THEN "failed" ELSE pc[c]]
    /\ unsaved' = FALSE /\ alone' = {} /\ contended' = {}
    /\ UNCHANGED <<file, content, accepted, request, todo, local, crashes>>

\* Load, which is fatal when the file cannot be parsed; then main sets the
\* configuration it has read, which saves it, before the admin API serves.
Start ==
    /\ ~up /\ file # Broken
    /\ up' = TRUE
    /\ copy' = [s \in HandlerSections |-> file[s]]
    /\ runtime' = file
    /\ hmu' = Main /\ writer' = Nobody
    /\ pc' = [c \in Procs |-> IF c = Main THEN "load" ELSE IF Active(c) THEN "failed" ELSE pc[c]]
    /\ unsaved' = FALSE /\ alone' = {} /\ contended' = {}
    /\ UNCHANGED <<file, content, accepted, request, todo, local, crashes>>

Crash ==
    /\ up /\ crashes < MaxCrashes
    /\ up' = FALSE
    /\ crashes' = crashes + 1
    /\ UNCHANGED <<disk, copy, runtime, hmu, pc, request, todo, local, unsaved, alone,
                   contended>>

-----------------------------------------------------------------------------
(* The calls, up to the point where the handler's copy is changed *)

Go(c, here, there) ==
    /\ up /\ pc[c] = here
    /\ pc' = [pc EXCEPT ![c] = there]

\* A value with some of its parts written, or removed, by a call.
Patched(v, P, by) == [p \in Parts |-> IF p \in P THEN by ELSE v[p]]

FirstStep(s) ==
    IF s = "auth_config" THEN "read"
    ELSE IF s = "locale" THEN "load"
    ELSE IF s \in {"general_blacklist", "waf", "iptables_chain_name"} THEN "change"
    ELSE "assign"

\* A request of the admin API: the section, and what it sets in it.  The rules
\* of the path router are flushed first (handleAddRule).
Begin(c) ==
    \E s \in Sections, P \in SUBSET Parts :
        /\ pc[Main] = "done"
        /\ Go(c, "idle", FirstStep(s))
        /\ section' = [section EXCEPT ![c] = s]
        /\ parts' = [parts EXCEPT ![c] = P]
        /\ todo' = [todo EXCEPT ![c] = IF s = "rules" THEN P ELSE {}]
        /\ local' = [local EXCEPT ![c] = IF s = "rules" THEN Nothing ELSE Patched(Nothing, P, c)]
        /\ LET others == {d \in Calls : Active(d) /\ section[d] = s}
           IN  /\ alone' = IF others = {} THEN alone \union {c} ELSE alone \ others
               /\ contended' = IF others = {} THEN contended ELSE contended \union {s}
        /\ UNCHANGED <<up, disk, copy, runtime, hmu, crashes, unsaved>>

\* handleSetAuth reads the configuration it merges its patch into.
ReadAuthConfig(c) ==
    /\ Go(c, "read", "assign") /\ hmu = Nobody
    /\ local' = [local EXCEPT ![c] = Patched(copy["auth_config"], parts[c], c)]
    /\ UNCHANGED <<up, disk, copy, runtime, hmu, request, todo, crashes, unsaved, alone, contended>>

\* addMany and removeMany of the blacklist, under a lock of their own.
ChangeBlacklist(c) ==
    /\ Go(c, "change", "assign")
    /\ section[c] = "general_blacklist"
    /\ \E by \in {c, Nobody} :
        LET v == Patched(runtime["general_blacklist"], parts[c], by)
        IN  /\ runtime' = [runtime EXCEPT !["general_blacklist"] = v]
            /\ local' = [local EXCEPT ![c] = v]
    /\ UNCHANGED <<up, disk, copy, hmu, request, todo, crashes, unsaved, alone, contended>>

\* SetConfig of the WAF returns what it set; after Reload, which may come with
\* a configuration too, the setting is read from the runtime again.
ChangeWAF(c) ==
    /\ \/ Go(c, "change", "assign") \/ Go(c, "change", "reread")
    /\ section[c] = "waf"
    /\ runtime' = [runtime EXCEPT !["waf"] = local[c]]
    /\ UNCHANGED <<up, disk, copy, hmu, request, todo, local, crashes, unsaved, alone, contended>>

RereadWAF(c) ==
    /\ Go(c, "reread", "assign")
    /\ local' = [local EXCEPT ![c] = runtime["waf"]]
    /\ UNCHANGED <<up, disk, copy, runtime, hmu, request, todo, crashes, unsaved, alone, contended>>

\* HandleInit changes the chain of the iptables manager and sets it up, which
\* may fail, before it saves its name.
ChangeChain(c) ==
    /\ \/ Go(c, "change", "load") \/ Go(c, "change", "failed")
    /\ section[c] = "iptables_chain_name"
    /\ runtime' = [runtime EXCEPT !["iptables_chain_name"] = local[c]]
    /\ UNCHANGED <<up, disk, copy, hmu, request, todo, local, crashes, unsaved, alone, contended>>

\* What the call sets is not valid, or the bundle of the WAF cannot be loaded.
Refuse(c) ==
    /\ pc[c] \in {"read", "change", "next"} /\ (pc[c] = "next" => todo[c] # {})
    /\ Go(c, pc[c], "failed")
    /\ UNCHANGED <<up, disk, copy, runtime, hmu, request, todo, local, crashes, unsaved, alone,
                   contended>>

-----------------------------------------------------------------------------
(* The setters: the copy under h.mu, then saveConfigLocked *)

SetCopy(c, v) ==
    /\ hmu = Nobody /\ hmu' = c
    /\ copy' = [copy EXCEPT ![section[c]] = v]
    /\ runtime' = IF section[c] \in Snapshot THEN [runtime EXCEPT ![section[c]] = v] ELSE runtime

Assign(c) ==
    /\ Go(c, "assign", "load")
    /\ SetCopy(c, local[c])
    /\ UNCHANGED <<up, disk, request, todo, local, crashes, unsaved, alone, contended>>

\* AddRule of the next rule of the list.
AddRule(c) ==
    /\ Go(c, "next", "load")
    /\ \E p \in todo[c] :
        /\ SetCopy(c, Patched(copy["rules"], {p}, c))
        /\ todo' = [todo EXCEPT ![c] = @ \ {p}]
    /\ UNCHANGED <<up, disk, request, local, crashes, unsaved, alone, contended>>

\* The call ends well; on its own, it leaves its section in order.
Finish(c) ==
    /\ pc' = [pc EXCEPT ![c] = "done"]
    /\ contended' = IF c \in alone THEN contended \ {section[c]} ELSE contended
    /\ alone' = alone \ {c}

RulesAdded(c) ==
    /\ up /\ pc[c] = "next" /\ todo[c] = {}
    /\ Finish(c)
    /\ UNCHANGED <<up, disk, copy, runtime, hmu, request, todo, local, crashes, unsaved>>

\* Mutant: the running gateway is left as it was.
ApplySkipped(c) ==
    /\ up /\ pc[c] = "apply"
    /\ Finish(c)
    /\ UNCHANGED <<up, disk, copy, runtime, hmu, request, todo, local, crashes, unsaved>>

\* The running gateway follows, with no lock but its own.
Apply(c) ==
    /\ up /\ pc[c] = "apply"
    /\ runtime' = [runtime EXCEPT ![section[c]] = local[c]]
    /\ Finish(c)
    /\ UNCHANGED <<up, disk, copy, hmu, request, todo, local, crashes, unsaved>>

-----------------------------------------------------------------------------
(* Update of the manager, under m.mu *)

SavesHandler(c) == c = Main \/ section[c] \in HandlerSections

\* Mutant: a save writes the section of its call only.
ContentOfSection(c) ==
    IF c # Main /\ section[c] \in HandlerSections
    THEN [file EXCEPT ![section[c]] = copy[section[c]]]
    ELSE IF c = Main THEN file ELSE [file EXCEPT ![section[c]] = local[c]]

\* Mutant: the configuration is put together from the handler's fields.
ContentFromScratch(c) ==
    IF SavesHandler(c)
    THEN [s \in Sections |-> IF s \in HandlerSections THEN copy[s] ELSE Nothing]
    ELSE [file EXCEPT ![section[c]] = local[c]]

\* The file as it was read, with all that the handler knows, or with the one
\* section that is the call's.
Content(c) ==
    IF SavesHandler(c)
    THEN [s \in Sections |-> IF s \in HandlerSections THEN copy[s] ELSE file[s]]
    ELSE [file EXCEPT ![section[c]] = local[c]]

\* saveConfigLocked only logs an error, and its setter goes on; the two calls
\* that change the file alone give up.
AfterSave(c, saved) ==
    IF c = Main THEN "done"
    ELSE IF ~SavesHandler(c) /\ ~saved THEN "failed"
    ELSE IF section[c] \in Late \union {"locale"} THEN "apply"
    ELSE IF section[c] = "rules" THEN "next"
    ELSE "done"

\* Mutant: h.mu stays locked when the save fails.
EndSaveLocked(c, saved) ==
    /\ hmu' = IF saved /\ hmu = c THEN Nobody ELSE hmu
    /\ unsaved' = IF SavesHandler(c) THEN ~saved ELSE unsaved
    /\ IF AfterSave(c, saved) = "done" THEN Finish(c)
       ELSE pc' = [pc EXCEPT ![c] = AfterSave(c, saved)] /\ UNCHANGED <<alone, contended>>

\* Update returns, and a setter releases h.mu.
EndSave(c, saved) ==
    /\ hmu' = IF hmu = c THEN Nobody ELSE hmu
    /\ unsaved' = IF SavesHandler(c) THEN ~saved ELSE unsaved
    /\ IF AfterSave(c, saved) = "done" THEN Finish(c)
       ELSE pc' = [pc EXCEPT ![c] = AfterSave(c, saved)] /\ UNCHANGED <<alone, contended>>

\* The file cannot be read, or not be parsed.
LoadFails(c) ==
    /\ up /\ pc[c] = "load" /\ writer = Nobody
    /\ IOMayFail \/ file = Broken
    /\ EndSave(c, FALSE)
    /\ UNCHANGED <<up, disk, copy, runtime, request, todo, local, crashes>>

\* applyDefaults makes the locale of what it is given the default one.
SetDefaultLocale(c) == runtime' = [runtime EXCEPT !["locale"] = Content(c)["locale"]]

OpenFails(c) ==
    /\ up /\ pc[c] = "load" /\ writer = Nobody
    /\ IOMayFail /\ file # Broken
    /\ SetDefaultLocale(c)
    /\ EndSave(c, FALSE)
    /\ UNCHANGED <<up, disk, copy, request, todo, local, crashes>>

\* The file is read and parsed, and opened with O_TRUNC.
OpenFile(c) ==
    /\ Go(c, "load", "write") /\ writer = Nobody
    /\ file # Broken
    /\ writer' = c
    /\ content' = Content(c)
    /\ file' = Broken
    /\ SetDefaultLocale(c)
    /\ UNCHANGED <<up, accepted, copy, hmu, request, todo, local, crashes, unsaved, alone, contended>>

WriteFile(c) ==
    /\ up /\ pc[c] = "write"
    /\ file' = content /\ writer' = Nobody
    /\ accepted' = IF SavesHandler(c) THEN accepted
                   ELSE [accepted EXCEPT ![section[c]] = local[c]]
    /\ EndSave(c, TRUE)
    /\ UNCHANGED <<up, content, copy, runtime, request, todo, local, crashes>>

\* The disk is full: the file stays as it is, truncated.
WriteFails(c) ==
    /\ up /\ pc[c] = "write" /\ IOMayFail
    /\ writer' = Nobody
    /\ EndSave(c, FALSE)
    /\ UNCHANGED <<up, file, content, accepted, copy, runtime, request, todo, local, crashes>>

-----------------------------------------------------------------------------
CallStep(c) ==
    \/ ReadAuthConfig(c) \/ ChangeBlacklist(c) \/ ChangeWAF(c) \/ RereadWAF(c)
    \/ ChangeChain(c) \/ Refuse(c) \/ Assign(c) \/ AddRule(c) \/ RulesAdded(c) \/ Apply(c)

Update(c) == LoadFails(c) \/ OpenFails(c) \/ OpenFile(c) \/ WriteFile(c) \/ WriteFails(c)

Next ==
    \/ Start \/ Crash
    \/ \E c \in Calls : Begin(c) \/ CallStep(c)
    \/ \E c \in Procs : Update(c)

Spec == Init /\ [][Next]_vars

\* Goroutines run; nobody has to call, and a crash is nobody's duty.
FairSpec == Spec /\ WF_vars(Update(Main)) /\ \A c \in Calls : WF_vars(CallStep(c) \/ Update(c))

-----------------------------------------------------------------------------
(* Properties *)

SetterHolds(s) == hmu \in Calls /\ section[hmu] = s

\* Unless the last save failed, the file has what the handler has, in every
\* section but the one whose setter holds h.mu and has not saved yet: a save
\* that succeeds also makes up for those that failed, and the calls that
\* change the file without h.mu disturb none of it (saveConfigLocked, Update).
FileLagsByOneCall ==
    file # Broken /\ ~unsaved =>
        \A s \in HandlerSections :
            file[s] = copy[s] \/ (SetterHolds(s) /\ pc[hmu] = "load")

\* No save of the handler undoes what handleSetLocaleConfig or HandleInit has
\* written to a section the handler does not know (Update re-reads the file).
FileSectionsKept == file # Broken => \A s \in FileSections : file[s] = accepted[s]

\* A program that starts after a crash has what the one before it had, but for
\* the call that was saving; or its last save had failed.
RestartRestores ==
    [][~up /\ up' /\ ~unsaved =>
        \A s \in HandlerSections :
            copy'[s] = copy[s] \/ SetterHolds(s)]_vars

\* With no call of a section on its way, the gateway runs with what the handler
\* has, unless calls of the section have overlapped since; the sections of the
\* published snapshot agree whatever overlaps, also when saves fail.
RuntimeFollows ==
    \A s \in HandlerSections :
        \/ runtime[s] = copy[s]
        \/ s \notin Snapshot
           /\ (s \in contended \/ \E c \in Calls : Active(c) /\ section[c] = s)

\* Every call ends, whatever saves fail: h.mu and m.mu are given back.
EveryCallEnds == \A c \in Calls : up /\ Active(c) ~> ~up \/ ~Active(c)

\* README.md: POST /api/rules replaces all rules.  With no call on its way,
\* and none that failed, the rules are the list of one of the calls.
RulesReplacedWhole ==
    (\A c \in Calls : pc[c] = "done" /\ section[c] = "rules") =>
        \E c \in Calls : runtime["rules"] = Patched(Nothing, parts[c], c)

=============================================================================

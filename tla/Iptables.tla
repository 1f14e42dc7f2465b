------------------------------- MODULE Iptables -------------------------------
(***************************************************************************)
(* The firewall of pkg/iptables: the calls of the admin API and the        *)
(* iptables commands they run.                                             *)
(*                                                                         *)
(* Manager has no lock over its calls.  Every call is a program of         *)
(* commands, each atomic in the kernel, and the programs of two calls      *)
(* interleave command by command.  A program goes on after a command       *)
(* according to its exit code alone: a deletion that failed because the    *)
(* kernel was busy looks like one that found nothing left to delete.  What *)
(* a program reads of the manager's fields (chain, parents, exempt ports,  *)
(* the position for an insertion) it reads when it gets there.             *)
(***************************************************************************)
EXTENDS Naturals, FiniteSets, Sequences, SequencesExt

CONSTANTS
    Callers,          \* calls of the admin API in progress at a time
    Tables,           \* m.tables, a sequence
    Chains,           \* names of the manager's chain
    InitRequests,     \* requests of HandleInit: the name of the chain and the
                      \* exempt ports, each a set of one value, empty when the
                      \* request leaves it out, and the list of parent chains
    ExistingParents,  \* parent chains the kernel has, per table
    LocalCIDRs,       \* local networks, a sequence per table
    ChunkSize,        \* ports of one multiport rule (15)
    Addresses,        \* addresses that calls name
    TableOf,          \* the table an address belongs to
    RulePort,         \* the port of TCP port rules
    PolicyParents,    \* parent chains of the SSH policy
    Policies,         \* requests of HandleSyncSSHFirewall
    Redirects,        \* pairs of ports HandleEnsureTCPRedirect may be asked for
    Clients           \* bounds of the calls that clients make: their names, how
                      \* many in all, how many of the whole chain at a time,
                      \* and how many restarts and commands that fail for an
                      \* outside reason there are

TableSet == Range(Tables)
Own == "own chain"
SSHChain == "FN-KNOCK-SSH"
PREROUTING == "PREROUTING"
OtherPort == "other"
Blank == ""

\* tableForAddress: an address that does not parse, or belongs to a table that
\* is not managed, is refused before any command is run.
IPs == {ip \in Addresses : TableOf[ip] \in TableSet}

ASSUME IptablesAssumption ==
    /\ ChunkSize \in Nat \ {0} /\ \A bounds \in Clients : bounds.faults \in Nat
    /\ \A t \in TableSet : LocalCIDRs[t] \in Seq(STRING)
    /\ Chains \intersect {Own, SSHChain, PREROUTING, "ACCEPT", "DROP", "RETURN"} = {}

-----------------------------------------------------------------------------
(* The lists of a request                                                  *)

\* Blank entries are left out, of ports and of names separated by commas.
PortList(list) == SelectSeq(list, LAMBDA entry : entry # Blank)
ParentChains(list) == SelectSeq(list, LAMBDA entry : entry # Blank)

\* "0" stands for all that is no positive number.
IntPortList(list) == SelectSeq(list, LAMBDA entry : entry \notin {Blank, "0"})

Once(list) ==
    FoldLeft(LAMBDA seen, entry : IF Contains(seen, entry) THEN seen ELSE Append(seen, entry),
             <<>>, list)
NormalizePorts(list) == Once(list)
NormalizeSources(list) == Once(SelectSeq(list, LAMBDA entry : entry # Blank))

VARIABLES
    kernel,   \* per table: the rules of every chain that exists
    match,    \* whether the kernel has the state or the conntrack match
    mgr,      \* the manager's fields
    call,     \* what every caller is doing
    client,   \* the calls that are made in this behaviour
    calls,    \* number of calls made
    faults,   \* number of faults
    sure      \* what the calls that have returned are entitled to

vars == <<kernel, match, mgr, call, client, calls, faults, sure>>

-----------------------------------------------------------------------------
(* Rules and commands                                                      *)

\* A rule matches on one thing, "of" being its argument, and jumps to a target.
Rule(on, of, to) == [on |-> on, of |-> of, to |-> to]
DropAll == Rule("all", <<>>, "DROP")
OfIP(ip, to) == Rule("src", <<ip>>, to)
OfPort(ip, to) == Rule("src port", <<ip, RulePort>>, to)
JumpTo(chain) == Rule("all", <<>>, chain)
PortJump(port, chain) == Rule("port", <<port>>, chain)
Redirect(pair) == Rule("port", <<pair[1]>>, pair[2])

\* A command, and how many commands the program moves on after it: with ok = 0
\* it is tried again, with bad = 0 the call returns the error.
Cmd(verb, t, chain, rules, ok, bad) ==
    [verb |-> verb, table |-> t, chain |-> chain, rules |-> rules, pos |-> 1,
     ok |-> ok, bad |-> bad]
Must(verb, t, chain, rules) == Cmd(verb, t, chain, rules, 1, 0)
May(verb, t, chain, rules) == Cmd(verb, t, chain, rules, 1, 1)
DeleteAll(t, chain, rule) == Cmd("D", t, chain, <<rule>>, 0, 1)
ReadThen(what, t, chain, rules) == Cmd(what, t, chain, rules, 1, 1)
ManagerReads == {"parents", "unlink", "exempt", "position"}

\* The programs of all tables, of all elements of a sequence, one after another.
Each(seq, Prog(_)) == FlattenSeq([i \in DOMAIN seq |-> Prog(seq[i])])
ForTables(Prog(_)) == Each(Tables, Prog)

-----------------------------------------------------------------------------
(* The manager's chain                                                     *)

EnsureChain(t, chain) == <<Cmd("L", t, chain, <<>>, 2, 1), Must("N", t, chain, <<>>)>>

\* The links of one table: parents the kernel does not have are left out.
LinkParents(t) ==
    Each(mgr.parents, LAMBDA p :
        <<Cmd("L", t, p, <<>>, 1, 3), Cmd("C", t, p, <<JumpTo(Own)>>, 2, 1),
          Must("I", t, p, <<JumpTo(Own)>>)>>)

Chunks(ports) ==
    [k \in 1..((Len(ports) + ChunkSize - 1) \div ChunkSize) |->
        SubSeq(ports, (k - 1) * ChunkSize + 1,
               IF k * ChunkSize > Len(ports) THEN Len(ports) ELSE k * ChunkSize)]

ExemptRules(t) ==
    Each(Chunks(mgr.exempt), LAMBDA chunk :
        <<Must("A", t, Own, <<Rule("tcp ports", chunk, "ACCEPT")>>),
          Must("A", t, Own, <<Rule("udp ports", chunk, "ACCEPT")>>)>>)

\* A mutant: the DROP comes before the local networks.
ApplyBaseRulesDropFirst(t) ==
    <<Must("A", t, Own, <<Rule("lo", <<>>, "ACCEPT")>>),
      Must("E", t, Own, <<Rule("established", <<>>, "ACCEPT")>>),
      Must("A", t, Own, <<DropAll>>)>>
    \o [i \in DOMAIN LocalCIDRs[t] |->
            Must("A", t, Own, <<Rule("local", <<LocalCIDRs[t][i]>>, "ACCEPT")>>)]
    \o <<Must("A", t, Own, <<Rule("icmp", <<>>, "ACCEPT")>>), ReadThen("exempt", t, Own, <<>>)>>

\* The rules before the DROP, in this order; "E" is the rule for established
\* connections, left out when the kernel has neither match for it.
ApplyBaseRules(t) ==
    <<Must("A", t, Own, <<Rule("lo", <<>>, "ACCEPT")>>),
      Must("E", t, Own, <<Rule("established", <<>>, "ACCEPT")>>)>>
    \o [i \in DOMAIN LocalCIDRs[t] |->
            Must("A", t, Own, <<Rule("local", <<LocalCIDRs[t][i]>>, "ACCEPT")>>)]
    \o <<Must("A", t, Own, <<Rule("icmp", <<>>, "ACCEPT")>>),
         ReadThen("exempt", t, Own, <<>>),
         Must("A", t, Own, <<DropAll>>)>>

\* A mutant: the rule of established connections is counted always.
BaseRuleCountAssumed(t) ==
    2 + Len(LocalCIDRs[t]) + 1 + 2 * ((Len(mgr.exempt) + ChunkSize - 1) \div ChunkSize)

BaseRuleCount(t) ==
    1 + (IF mgr.skipped[t] THEN 0 ELSE 1) + Len(LocalCIDRs[t]) + 1
    + 2 * ((Len(mgr.exempt) + ChunkSize - 1) \div ChunkSize)

Init_(t) ==
    EnsureChain(t, Own) \o <<ReadThen("parents", t, Own, <<>>), Must("F", t, Own, <<>>)>>
    \o ApplyBaseRules(t)

Flush(t) == <<Must("F", t, Own, <<>>)>> \o ApplyBaseRules(t)

\* Errors of every command are ignored: what cannot be deleted stays.
UnlinkParents(t) == Each(mgr.parents, LAMBDA p : <<DeleteAll(t, p, JumpTo(Own))>>)
Destroy(t) ==
    <<ReadThen("unlink", t, Own, <<>>)>>
    \o <<May("F", t, Own, <<>>), May("X", t, Own, <<>>)>>

RemoveBlockAll(t) == <<DeleteAll(t, Own, DropAll)>>
BlockAll == ForTables(RemoveBlockAll) \o ForTables(LAMBDA t : <<Must("A", t, Own, <<DropAll>>)>>)
\* A mutant: the DROP is only looked for.
AllowAllOnce == ForTables(LAMBDA t : <<May("C", t, Own, <<DropAll>>)>>)

AllowAll == ForTables(RemoveBlockAll)

\* One rule of each kind is deleted, if there is one.
RemoveIPRule(ip) ==
    <<May("D", TableOf[ip], Own, <<OfIP(ip, "ACCEPT")>>),
      May("D", TableOf[ip], Own, <<OfIP(ip, "DROP")>>)>>

SetIPRule(ip, action) ==
    RemoveIPRule(ip) \o <<ReadThen("position", TableOf[ip], Own, <<OfIP(ip, action)>>)>>

RemoveTCPPortRule(ip) ==
    <<DeleteAll(TableOf[ip], Own, OfPort(ip, "ACCEPT")),
      DeleteAll(TableOf[ip], Own, OfPort(ip, "DROP"))>>

BlockTCPPortForIP(ip) ==
    RemoveTCPPortRule(ip) \o <<ReadThen("position", TableOf[ip], Own, <<OfPort(ip, "DROP")>>)>>

-----------------------------------------------------------------------------
(* The SSH policy and the redirects                                        *)

\* The tables a policy has something to say in.
TablesForAccessPolicy(p) ==
    IF p.local \/ p.default = "DROP" THEN TableSet
    ELSE {TableOf[ip] : ip \in Range(p.allow) \union Range(p.block)}

\* What iptables-restore puts in the chain, at once: the local networks, what
\* is blocked, what is allowed, and the default.
PolicyRules(t, p) ==
    LET Of(ips, to) == [i \in DOMAIN ips |-> OfIP(ips[i], to)]
        In(ips) == SelectSeq(ips, LAMBDA ip : TableOf[ip] = t)
    IN  (IF p.local THEN [i \in DOMAIN LocalCIDRs[t] |->
                             Rule("local", <<LocalCIDRs[t][i]>>, "ACCEPT")] ELSE <<>>)
        \o Of(In(p.block), "DROP") \o Of(In(p.allow), "ACCEPT")
        \o <<Rule("all", <<>>, p.default)>>

\* "S" lists a parent and goes on with the deletion of every jump it found.
DeleteParentJumps(t, parent) ==
    <<Cmd("L", t, parent, <<>>, 1, 3), May("S", t, parent, <<>>),
      DeleteAll(t, parent, JumpTo(SSHChain))>>
JumpsFound(t, parent) ==
    LET found == SelectSeq(kernel[t][parent], LAMBDA rule : rule.to = SSHChain)
    IN  [i \in DOMAIN found |-> May("D", t, parent, <<found[i]>>)]

ClearPolicy(t) ==
    Each(PolicyParents, LAMBDA p : DeleteParentJumps(t, p))
    \o <<May("F", t, SSHChain, <<>>), May("X", t, SSHChain, <<>>)>>

AddPortJump(t, parent, port) ==
    <<Cmd("C", t, parent, <<PortJump(port, SSHChain)>>, 2, 1),
      Must("I", t, parent, <<PortJump(port, SSHChain)>>)>>

\* A mutant: the jumps of the policy before stay.
ApplyPolicyKeepJumps(t, p) ==
    EnsureChain(t, SSHChain)
    \o Each(PolicyParents, LAMBDA parent :
           LET jumps == Each(p.ports, LAMBDA port : AddPortJump(t, parent, port))
           IN  <<Cmd("L", t, parent, <<>>, 1, 1 + Len(jumps))>> \o jumps)
    \o <<Must("R", t, SSHChain, PolicyRules(t, p))>>

ApplyPolicy(t, p) ==
    EnsureChain(t, SSHChain)
    \o Each(PolicyParents, LAMBDA parent :
           LET jumps == Each(p.ports, LAMBDA port : AddPortJump(t, parent, port))
           IN  <<Cmd("L", t, parent, <<>>, 1, 4 + Len(jumps))>>
               \o DeleteParentJumps(t, parent) \o jumps)
    \o <<Must("R", t, SSHChain, PolicyRules(t, p))>>

SyncPolicy(p) ==
    ForTables(LAMBDA t : IF p.ports # <<>> /\ t \in TablesForAccessPolicy(p)
                         THEN ApplyPolicy(t, p) ELSE ClearPolicy(t))

\* ClearTCPPortAccessPolicy.
ClearPolicies == ForTables(ClearPolicy)

ClearRedirect(t, pair) == <<DeleteAll(t, PREROUTING, Redirect(pair))>>
\* A mutant: the redirect is checked for instead of inserted anew.
EnsureRedirectIfMissing(t, pair) ==
    <<Cmd("C", t, PREROUTING, <<Redirect(pair)>>, 2, 1), Must("I", t, PREROUTING, <<Redirect(pair)>>)>>

EnsureRedirect(t, pair) ==
    ClearRedirect(t, pair) \o <<Must("I", t, PREROUTING, <<Redirect(pair)>>)>>

-----------------------------------------------------------------------------
(* The commands in the kernel                                              *)

Resolve(name) == IF name = Own THEN mgr.chain ELSE name
Resolved(rules) == [i \in DOMAIN rules |-> [rules[i] EXCEPT !.to = Resolve(rules[i].to)]]
Jumped(tab, chain) == \E parent \in DOMAIN tab : \E i \in DOMAIN tab[parent] : tab[parent][i].to = chain

Succeeds(cmd) ==
    LET tab == kernel[cmd.table]
        chain == Resolve(cmd.chain)
        rules == Resolved(cmd.rules)
    IN  CASE cmd.verb = "N" -> chain \notin DOMAIN tab
          [] cmd.verb \in {"D", "C"} -> chain \in DOMAIN tab /\ Contains(tab[chain], rules[1])
          [] cmd.verb = "I" -> /\ chain \in DOMAIN tab /\ cmd.pos <= Len(tab[chain]) + 1
                               /\ rules[1].to \in Chains \union {SSHChain} => rules[1].to \in DOMAIN tab
          [] cmd.verb = "X" -> chain \in DOMAIN tab /\ tab[chain] = <<>> /\ ~Jumped(tab, chain)
          [] cmd.verb \in {"L", "S", "F", "A", "E", "R"} -> chain \in DOMAIN tab

Executed(cmd) ==
    LET tab == kernel[cmd.table]
        chain == Resolve(cmd.chain)
        rules == Resolved(cmd.rules)
    IN  CASE cmd.verb = "N" -> [c \in DOMAIN tab \union {chain} |-> IF c = chain THEN <<>> ELSE tab[c]]
          [] cmd.verb = "X" -> [c \in DOMAIN tab \ {chain} |-> tab[c]]
          [] cmd.verb = "F" -> [tab EXCEPT ![chain] = <<>>]
          [] cmd.verb = "A" -> [tab EXCEPT ![chain] = Append(@, rules[1])]
          [] cmd.verb = "E" -> [tab EXCEPT ![chain] = IF match THEN Append(@, rules[1]) ELSE @]
          [] cmd.verb = "I" -> [tab EXCEPT ![chain] = InsertAt(@, cmd.pos, rules[1])]
          [] cmd.verb = "D" -> [tab EXCEPT ![chain] = RemoveFirst(@, rules[1])]
          [] cmd.verb = "R" -> [tab EXCEPT ![chain] = rules]
          [] cmd.verb \in {"L", "S", "C"} -> tab

\* What a program goes on with once it has read the manager's fields.
Read(cmd) ==
    CASE cmd.verb = "parents" -> LinkParents(cmd.table)
      [] cmd.verb = "unlink" -> UnlinkParents(cmd.table)
      [] cmd.verb = "exempt" -> ExemptRules(cmd.table)
      [] cmd.verb = "position" ->
            <<[Must("I", cmd.table, Own, cmd.rules) EXCEPT !.pos = BaseRuleCount(cmd.table) + 1]>>

-----------------------------------------------------------------------------
(* What a call is entitled to                                              *)
(*                                                                         *)
(* Two calls that overlap and touch the same area may leave it in any      *)
(* state, and the calls that deal with the whole chain touch every area of *)
(* it.  A call that returned without an error, and shared its area with no *)
(* other call while it ran, is entitled to its effect.                     *)

BaseOps == {"init", "flush", "destroy"}
DefaultOps == {"block all", "allow all"}
IPOps == {"allow", "block", "remove", "block port", "remove port"}

Areas(op) ==
    CASE op.name \in BaseOps -> {"default"} \union IPs
      [] op.name \in DefaultOps -> {"default"}
      [] op.name \in IPOps -> {op.arg}
      [] op.name \in {"sync", "clear"} -> {"ssh"}
      [] op.name \in {"redirect", "no redirect"} -> {"redirect"}

Active == {c \in Callers : call[c].op.name # "none"}

\* A call on the base rules, or a DROP appended while they are being appended,
\* may tear them apart.
TearsBase(op, other) ==
    op.name \in BaseOps /\ other.name \in BaseOps \union DefaultOps

Unsure(op, c) ==
    LET others == Active \ {c} IN
    [linked   |-> sure.linked /\ op.name \notin {"init", "destroy"},
     base     |-> /\ sure.base
                  /\ op.name # "destroy"
                  /\ \A d \in others : ~TearsBase(op, call[d].op) /\ ~TearsBase(call[d].op, op),
     default  |-> IF "default" \in Areas(op) THEN "unsure" ELSE sure.default,
     ip       |-> [ip \in IPs |-> IF ip \in Areas(op) THEN [any |-> "unsure", port |-> "unsure"]
                                  ELSE sure.ip[ip]],
     rules    |-> [ip \in IPs |->
                     IF ip \notin Areas(op) \/ \A d \in others : ip \notin Areas(call[d].op) THEN sure.rules[ip]
                     ELSE IF op.name \in BaseOps \/ \E d \in others : call[d].op.name \in BaseOps THEN "astray"
                     ELSE IF sure.rules[ip] = "astray" THEN "astray" ELSE "several"],
     ssh      |-> IF "ssh" \in Areas(op) THEN [is |-> "unsure"] ELSE sure.ssh,
     redirect |-> IF "redirect" \in Areas(op) THEN [is |-> "unsure"] ELSE sure.redirect]

\* After a return without an error.  "slipped": the commands that failed for an
\* outside reason and were taken for a "no": nothing to delete, no such parent
\* chain; "none": no rule of the address, so that the default decides.
Claimed(k) ==
    LET op == k.op
        whole == op.name \in BaseOps
        fine(area) == area \notin k.mixed
        clean == /\ fine("default") /\ "L" \notin k.slipped
                 /\ op.name = "destroy" => k.slipped = {}
        Word(ip) ==
            CASE whole /\ clean -> [any |-> "none", port |-> "none"]
              [] op.name = "allow" -> [any |-> "ACCEPT", port |-> "ACCEPT"]
              [] op.name = "block" -> [any |-> "DROP", port |-> "DROP"]
              [] op.name = "block port" -> [any |-> k.word.any, port |-> "DROP"]
              [] op.name = "remove port" /\ k.slipped = {} -> [any |-> k.word.any, port |-> k.word.any]
              [] op.name = "remove" /\ k.slipped = {} /\ sure.rules[ip] = "one" -> [any |-> "none", port |-> "unsure"]
    IN  [sure EXCEPT
          !.linked = @ \/ (op.name = "init" /\ clean),
          !.base = IF op.name \in {"init", "flush"} THEN clean /\ (op.name = "flush" => sure.linked) ELSE @,
          !.default = IF ~clean \/ "default" \notin Areas(op) THEN @
                      ELSE IF op.name \in {"init", "flush", "block all"} THEN "closed"
                      ELSE IF k.slipped = {} THEN "open" ELSE @,
          !.ip = [ip \in IPs |->
                    IF ip \in Areas(op) /\ fine(ip) /\ (whole => clean)
                       /\ (op.name \in {"remove", "remove port"} => k.slipped = {})
                       /\ (~whole => sure.rules[ip] # "astray")
                       /\ (op.name = "remove" => sure.rules[ip] = "one")
                    THEN Word(ip) ELSE sure.ip[ip]],
          !.rules = [ip \in IPs |->
                      IF whole THEN IF clean /\ fine(ip) THEN "one" ELSE "astray"
                      ELSE IF ip \in Areas(op) /\ k.slipped # {} /\ @[ip] = "one" THEN "several" ELSE @[ip]],
          !.ssh = IF "ssh" \in Areas(op) /\ fine("ssh")
                  THEN IF op.name = "sync" /\ "L" \notin k.slipped
                       THEN [is |-> "synced", policy |-> op.arg, clean |-> k.slipped \subseteq {"C"}]
                       ELSE IF op.name = "clear" /\ k.slipped = {} THEN [is |-> "cleared"] ELSE @
                  ELSE @,
          !.redirect = IF "redirect" \in Areas(op) /\ fine("redirect")
                       THEN IF op.name = "redirect" THEN [is |-> "first", pair |-> op.arg]
                            ELSE IF k.slipped = {} THEN [is |-> "gone", pair |-> op.arg] ELSE @
                       ELSE @]

-----------------------------------------------------------------------------
(* The calls                                                               *)

Idle == [op |-> [name |-> "none", arg |-> <<>>], todo |-> <<>>, mixed |-> {}, slipped |-> {},
         word |-> [any |-> "unsure", port |-> "unsure"]]

Begin(c, name, arg, prog) ==
    LET op == [name |-> name, arg |-> arg] IN
    /\ c \notin Active /\ name \in client.names /\ calls < client.calls
    /\ name \in BaseOps => Cardinality({d \in Active : call[d].op.name \in BaseOps}) < client.whole
    /\ calls' = calls + 1
    /\ call' = [d \in Callers |->
          IF d = c THEN [op |-> op, todo |-> prog, slipped |-> {},
                         mixed |-> UNION {Areas(call[e].op) \intersect Areas(op) : e \in Active},
                         word |-> IF name \in IPOps THEN sure.ip[arg] ELSE Idle.word]
          ELSE IF d \in Active THEN [call[d] EXCEPT !.mixed = @ \union (Areas(call[d].op) \intersect Areas(op))]
          ELSE call[d]]
    /\ sure' = Unsure(op, c)
    /\ UNCHANGED <<kernel, match, client, faults>>

\* HandleInit changes the manager's fields first; what the request leaves out
\* stays, and so do the parents when it names none.
Given(value, old) == IF value = {} THEN old ELSE CHOOSE v \in value : TRUE
InitFields(r) ==
    [mgr EXCEPT !.chain = Given(r.chain, @),
                !.parents = IF ParentChains(r.parents) = <<>> THEN @ ELSE ParentChains(r.parents),
                !.exempt = Given({PortList(ports) : ports \in r.exempt}, @)]

\* What HandleSyncSSHFirewall makes of its request: the default drops if it
\* names any allowed address, even a blank one.
Policy(r) ==
    [ports |-> NormalizePorts(IntPortList(r.ports)), local |-> r.local,
     allow |-> NormalizeSources(r.allow), block |-> NormalizeSources(r.block),
     default |-> IF r.allow = <<>> THEN "RETURN" ELSE "DROP"]

HandleInit(c) ==
    \E r \in InitRequests :
       /\ mgr' = InitFields(r)
       /\ Begin(c, "init", r.chain, ForTables(Init_))

HandleFlush(c) == Begin(c, "flush", <<>>, ForTables(Flush)) /\ UNCHANGED mgr
HandleClean(c) == Begin(c, "destroy", <<>>, ForTables(Destroy)) /\ UNCHANGED mgr
HandleBlockAll(c) == Begin(c, "block all", <<>>, BlockAll) /\ UNCHANGED mgr
HandleAllowAll(c) == Begin(c, "allow all", <<>>, AllowAll) /\ UNCHANGED mgr
HandleAllowIP(c) == \E ip \in IPs : Begin(c, "allow", ip, SetIPRule(ip, "ACCEPT")) /\ UNCHANGED mgr
HandleBlockIP(c) == \E ip \in IPs : Begin(c, "block", ip, SetIPRule(ip, "DROP")) /\ UNCHANGED mgr
HandleRemoveIP(c) == \E ip \in IPs : Begin(c, "remove", ip, RemoveIPRule(ip)) /\ UNCHANGED mgr
HandleBlockTCPPortForIP(c) ==
    \E ip \in IPs : Begin(c, "block port", ip, BlockTCPPortForIP(ip)) /\ UNCHANGED mgr
HandleRemoveTCPPortRule(c) ==
    \E ip \in IPs : Begin(c, "remove port", ip, RemoveTCPPortRule(ip)) /\ UNCHANGED mgr
HandleSyncSSHFirewall(c) ==
    \E r \in Policies :
       /\ Range(Policy(r).allow) \union Range(Policy(r).block) \subseteq IPs
       /\ Begin(c, "sync", Policy(r), SyncPolicy(Policy(r)))
       /\ UNCHANGED mgr
HandleClearSSHFirewall(c) == Begin(c, "clear", <<>>, ClearPolicies) /\ UNCHANGED mgr
HandleEnsureTCPRedirect(c) ==
    \E pair \in Redirects :
       Begin(c, "redirect", pair, ForTables(LAMBDA t : EnsureRedirect(t, pair))) /\ UNCHANGED mgr
HandleClearTCPRedirect(c) ==
    \E pair \in Redirects :
       Begin(c, "no redirect", pair, ForTables(LAMBDA t : ClearRedirect(t, pair))) /\ UNCHANGED mgr

Drop(seq, n) == SubSeq(seq, n + 1, Len(seq))

RunCommand(c) ==
    /\ c \in Active /\ call[c].todo # <<>>
    /\ LET cmd == Head(call[c].todo) IN
       /\ cmd.verb \notin ManagerReads /\ Succeeds(cmd)
       /\ kernel' = [kernel EXCEPT ![cmd.table] = Executed(cmd)]
       /\ mgr' = IF cmd.verb = "E" THEN [mgr EXCEPT !.skipped[cmd.table] = ~match] ELSE mgr
       /\ call' = [call EXCEPT ![c].todo =
                     (IF cmd.verb = "S" THEN JumpsFound(cmd.table, cmd.chain) ELSE <<>>)
                     \o Drop(@, cmd.ok)]
    /\ UNCHANGED <<match, client, calls, faults, sure>>

\* The command cannot succeed, or fails for an outside reason.
CommandFails(c) ==
    /\ c \in Active /\ call[c].todo # <<>>
    /\ LET cmd == Head(call[c].todo) IN
       /\ cmd.verb \notin ManagerReads
       /\ Succeeds(cmd) => faults < client.faults
       /\ faults' = IF Succeeds(cmd) THEN faults + 1 ELSE faults
       /\ IF cmd.bad = 0
          THEN /\ call' = [call EXCEPT ![c] = Idle]
               /\ sure' = [sure EXCEPT !.base = @ /\ call[c].op.name \notin BaseOps,
                                       !.rules = [ip \in IPs |-> IF ip \in Areas(call[c].op) THEN "astray" ELSE @[ip]]]
          ELSE /\ call' = [call EXCEPT ![c].todo = Drop(@, cmd.bad),
                                       ![c].slipped = IF Succeeds(cmd) THEN @ \union {cmd.verb} ELSE @]
               /\ UNCHANGED sure
    /\ UNCHANGED <<kernel, match, mgr, client, calls>>

ReadManager(c) ==
    /\ c \in Active /\ call[c].todo # <<>>
    /\ Head(call[c].todo).verb \in ManagerReads
    /\ call' = [call EXCEPT ![c].todo = Read(Head(@)) \o Tail(@)]
    /\ UNCHANGED <<kernel, match, mgr, client, calls, faults, sure>>

\* HandleInit saves the name it was given, the only field that is kept.
Return(c) ==
    /\ c \in Active /\ call[c].todo = <<>>
    /\ call' = [call EXCEPT ![c] = Idle]
    /\ sure' = Claimed(call[c])
    /\ mgr' = IF call[c].op.name = "init" THEN [mgr EXCEPT !.saved = Given(call[c].op.arg, @)] ELSE mgr
    /\ UNCHANGED <<kernel, match, client, calls, faults>>

NewManager(chain) ==
    [chain |-> chain, parents |-> <<"INPUT", "DOCKER-USER">>, exempt |-> <<>>,
     skipped |-> [t \in TableSet |-> FALSE], saved |-> chain]

NothingSure ==
    [linked |-> FALSE, base |-> FALSE, default |-> "unsure",
     ip |-> [ip \in IPs |-> Idle.word], rules |-> [ip \in IPs |-> "astray"],
     ssh |-> [is |-> "unsure"], redirect |-> [is |-> "unsure"]]

\* The program is stopped, between two commands, and started again.  The
\* kernel keeps its rules.
Restart ==
    /\ faults < client.faults
    /\ faults' = faults + 1
    /\ call' = [c \in Callers |-> Idle]
    /\ mgr' = NewManager(mgr.saved)
    /\ sure' = NothingSure
    /\ UNCHANGED <<kernel, match, client, calls>>

Init ==
    /\ kernel = [t \in TableSet |-> [chain \in ExistingParents[t] \union {PREROUTING} |-> <<>>]]
    /\ match \in BOOLEAN
    /\ mgr \in {NewManager(chain) : chain \in Chains}
    /\ call = [c \in Callers |-> Idle]
    /\ client \in Clients /\ calls = 0 /\ faults = 0
    /\ sure = NothingSure

CallStep(c) ==
    \/ HandleInit(c) \/ HandleFlush(c) \/ HandleClean(c) \/ HandleBlockAll(c) \/ HandleAllowAll(c)
    \/ HandleAllowIP(c) \/ HandleBlockIP(c) \/ HandleRemoveIP(c)
    \/ HandleBlockTCPPortForIP(c) \/ HandleRemoveTCPPortRule(c)
    \/ HandleSyncSSHFirewall(c) \/ HandleClearSSHFirewall(c)
    \/ HandleEnsureTCPRedirect(c) \/ HandleClearTCPRedirect(c)

Next == Restart \/ \E c \in Callers :
            CallStep(c) \/ RunCommand(c) \/ CommandFails(c) \/ ReadManager(c) \/ Return(c)

Spec == Init /\ [][Next]_vars

-----------------------------------------------------------------------------
(* What becomes of a new connection                                        *)

Matches(rule, src, port) ==
    \/ rule.on = "all"
    \/ rule.on = "local" /\ src = "lan"
    \/ rule.on = "src" /\ rule.of = <<src>>
    \/ rule.on = "src port" /\ rule.of = <<src, port>>
    \/ rule.on = "port" /\ rule.of = <<port>>
    \/ rule.on = "tcp ports" /\ Contains(rule.of, port)

\* The target of the first rule that matches.
FirstTarget(rules, src, port) ==
    LET hits == {i \in DOMAIN rules : Matches(rules[i], src, port)}
    IN  IF hits = {} THEN "RETURN" ELSE rules[CHOOSE i \in hits : \A j \in hits : i <= j].to

\* A parent goes on behind a jump whose chain decides nothing, and accepts at
\* its end.
Verdict(t, parent, src, port) ==
    LET rules == kernel[t][parent]
        says(i) == FirstTarget(kernel[t][rules[i].to], src, port)
        hits == {i \in DOMAIN rules : Matches(rules[i], src, port) /\ says(i) # "RETURN"}
    IN  IF hits = {} THEN "ACCEPT" ELSE says(CHOOSE i \in hits : \A j \in hits : i <= j)

\* The ways in that the manager's chain alone decides about.
Guarded(t) == {parent \in Range(mgr.parents) \intersect ExistingParents[t] :
                  DOMAIN kernel[t] \intersect Chains \subseteq {mgr.chain}}
\* Ports that no SSH policy has a say in.
Ports(t, parent) == {port \in {RulePort, OtherPort} :
                        ~Contains(kernel[t][parent], PortJump(port, SSHChain))}

-----------------------------------------------------------------------------
(* Properties                                                              *)

RuleType == [on : {"all", "lo", "established", "local", "icmp", "tcp ports", "udp ports",
                   "src", "src port", "port"},
             of : Seq(STRING), to : STRING]

\* The state is of its types: the chains of the kernel hold rules, programs
\* hold commands, and no rule jumps to a chain that is gone.
TypeOK ==
    /\ \A t \in TableSet : \A chain \in DOMAIN kernel[t] : kernel[t][chain] \in Seq(RuleType)
    /\ \A t \in TableSet : \A parent \in ExistingParents[t] : \A i \in DOMAIN kernel[t][parent] :
          kernel[t][parent][i].to \in DOMAIN kernel[t]
    /\ mgr.chain \in Chains /\ mgr.parents # <<>> /\ mgr.saved \in Chains /\ mgr.skipped \in [TableSet -> BOOLEAN]
    /\ \A c \in Callers : \A i \in DOMAIN call[c].todo : call[c].todo[i].pos \in Nat \ {0}
    /\ match \in BOOLEAN /\ calls \in 0..client.calls /\ faults \in 0..client.faults

\* AllowIP, BlockIP and BlockTCPPortForIP: once a call has returned without an
\* error, and no other call on the address ran meanwhile, connections of the
\* address are accepted or dropped as it said, until the next call on the
\* address; whatever other addresses' calls, BlockAll, AllowAll and failed
\* commands do, and whatever overlapped before.  Once its rules are removed,
\* the default decides about it again.
LastWordHolds ==
    sure.base =>
        \A ip \in IPs : \A parent \in Guarded(TableOf[ip]) : \A port \in Ports(TableOf[ip], parent) :
            LET word == IF port = RulePort THEN sure.ip[ip].port ELSE sure.ip[ip].any
                verdict == Verdict(TableOf[ip], parent, ip, port)
            IN  /\ word \in {"ACCEPT", "DROP"} => verdict = word
                /\ word = "none" /\ sure.default = "closed" => verdict = "DROP"
                /\ word = "none" /\ sure.default = "open" => verdict = "ACCEPT"

\* Init, Flush and BlockAll leave a default of DROP, AllowAll and Destroy one of
\* ACCEPT, in every table and for every parent chain, while calls on single
\* addresses come and go.
DefaultHolds ==
    \A t \in TableSet : \A parent \in Guarded(t) :
        /\ sure.base /\ sure.default = "closed" => Verdict(t, parent, "stranger", OtherPort) = "DROP"
        /\ sure.default = "open" => Verdict(t, parent, "stranger", OtherPort) = "ACCEPT"

\* The local network is never locked out: not while the base rules are being
\* replaced, and not by any position an address's rule is inserted at.
LocalStaysOpen ==
    sure.base => \A t \in TableSet : \A parent \in Guarded(t) : \A port \in Ports(t, parent) :
        Verdict(t, parent, "lan", port) = "ACCEPT"

SubjectTables(p) == IF p.ports = <<>> THEN {} ELSE TablesForAccessPolicy(p)
PolicyJumps(p) == {PortJump(p.ports[i], SSHChain) : i \in DOMAIN p.ports}
SSHJumps(t, parent) == {rule \in Range(kernel[t][parent]) : rule.to = SSHChain}

\* SyncTCPPortAccessPolicy: after a call that ran alone the ports of the policy
\* lead to its rules from every parent chain, in the tables it is about, and no
\* other port does: no jump of an earlier policy is left.  The other tables, and
\* all of them after ClearTCPPortAccessPolicy, have no jump and no chain left.
\* What is gone is claimed only if no deletion failed for an outside reason.
PolicyInForce ==
    \A t \in TableSet : \A parent \in Range(PolicyParents) \intersect ExistingParents[t] :
        LET ssh == sure.ssh IN
        /\ ssh.is = "synced" /\ t \in SubjectTables(ssh.policy) =>
              /\ SSHChain \in DOMAIN kernel[t] /\ kernel[t][SSHChain] = PolicyRules(t, ssh.policy)
              /\ PolicyJumps(ssh.policy) \subseteq SSHJumps(t, parent)
              /\ ssh.clean => SSHJumps(t, parent) \subseteq PolicyJumps(ssh.policy)
        /\ \/ ssh.is = "cleared"
           \/ ssh.is = "synced" /\ ssh.clean /\ t \notin SubjectTables(ssh.policy)
           => SSHJumps(t, parent) = {} /\ SSHChain \notin DOMAIN kernel[t]

\* EnsureTCPRedirect: its target is the one connections to the port are sent to,
\* whatever redirects of the port there were; ClearTCPRedirect leaves none of
\* that pair of ports.
NewestRedirectFirst ==
    \A t \in TableSet :
        /\ sure.redirect.is = "first" =>
              FirstTarget(kernel[t][PREROUTING], "stranger", sure.redirect.pair[1]) = sure.redirect.pair[2]
        /\ sure.redirect.is = "gone" => ~Contains(kernel[t][PREROUTING], Redirect(sure.redirect.pair))

=============================================================================

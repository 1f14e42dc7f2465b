------------------------------ MODULE ProxyStack ------------------------------
(***************************************************************************)
(* The listeners of the proxy port (proxyStack in cmd/server/main.go).     *)
(*                                                                         *)
(* The flag proxy_protocol_force decides both where the proxy listens and  *)
(* whether it reads PROXY headers.  SetProxyProtocolForce changes the flag *)
(* under the handler's lock and runs a hook after it, which leaves a       *)
(* request in a channel of capacity one; a worker takes requests and       *)
(* rebinds: it closes the listeners and opens others, reading the flag     *)
(* twice on the way.  The admin server runs before the hook is there.      *)
(***************************************************************************)
EXTENDS Naturals

CONSTANTS
    Admins,         \* concurrent calls of SetProxyProtocolForce
    MaxChanges,     \* bound of the changes of the flag
    ListenMayFail   \* whether a listen on a free IPv4 address may fail

ASSUME ProxyStackAssumption == MaxChanges \in Nat /\ ListenMayFail \in BOOLEAN

Hosts == {"loopback", "any"}
Sockets == [family : {"tcp4", "tcp6"}, host : Hosts, mode : {"bound", "plain", "proxied"}]

VARIABLES
    force,      \* h.ProxyProtocolForce
    hook,       \* whether the change hook is installed
    caller,     \* SetProxyProtocolForce: "notify" when its hook is to run
    changes,
    requested,  \* rebindCh holds a request
    main,       \* the main goroutine
    worker,     \* the goroutine that takes requests from rebindCh
    holder,     \* who holds s.mu
    step,       \* where in rebind the holder is
    target,     \* desiredHost of rebind
    host,       \* s.host
    stop,       \* s.stop # nil
    sockets     \* the sockets that are open

vars == <<force, hook, caller, changes, requested, main, worker, holder, step,
          target, host, stop, sockets>>
flag == <<force, hook, caller, changes>>

TypeOK ==
    /\ force \in BOOLEAN /\ hook \in BOOLEAN
    /\ caller \in [Admins -> {"idle", "notify"}]
    /\ changes \in 0..MaxChanges
    /\ requested \in BOOLEAN
    /\ main \in {"starting", "started", "running", "closing", "exited"}
    /\ worker \in {"off", "waiting", "called"}
    /\ holder \in {"nobody", "main", "worker"}
    /\ step \in {"none", "close", "bind4", "bind6", "serve"}
    /\ target \in Hosts
    /\ host \in Hosts \union {"unset"}
    /\ stop \in BOOLEAN
    /\ sockets \subseteq Sockets

\* The flag starts as the configuration file has it.
Init ==
    /\ force \in BOOLEAN /\ hook = FALSE
    /\ caller = [a \in Admins |-> "idle"]
    /\ changes = 0
    /\ requested = FALSE
    /\ main = "starting" /\ worker = "off"
    /\ holder = "nobody" /\ step = "none"
    /\ target = "any" /\ host = "unset"
    /\ stop = FALSE /\ sockets = {}

Running == main # "exited"

-----------------------------------------------------------------------------
(* SetProxyProtocolForce *)

\* The flag changes under h.mu; the hook is read there and runs later.
SetForce(a) ==
    /\ Running /\ caller[a] = "idle"
    /\ changes < MaxChanges
    /\ force' = ~force
    /\ changes' = changes + 1
    /\ caller' = [caller EXCEPT ![a] = IF hook THEN "notify" ELSE "idle"]
    /\ UNCHANGED <<hook, requested, main, worker, holder, step, target, host, stop, sockets>>

\* Mutant: the channel has no buffer; only a waiting worker gets the request.
RequestRebindUnbuffered(a) ==
    /\ Running /\ caller[a] = "notify"
    /\ caller' = [caller EXCEPT ![a] = "idle"]
    /\ requested' = (worker = "waiting")
    /\ UNCHANGED <<force, hook, changes, main, worker, holder, step, target, host, stop, sockets>>

\* RequestRebind never blocks: one request in the channel stands for all.
RequestRebind(a) ==
    /\ Running /\ caller[a] = "notify"
    /\ caller' = [caller EXCEPT ![a] = "idle"]
    /\ requested' = TRUE
    /\ UNCHANGED <<force, hook, changes, main, worker, holder, step, target, host, stop, sockets>>

-----------------------------------------------------------------------------
(* rebind and startProxyServers, all of it under s.mu *)

DesiredHost == IF force THEN "loopback" ELSE "any"

\* rebind returns to its caller.  An error at the start is fatal, and one in
\* the worker is only logged.
Return(failed) ==
    /\ holder' = "nobody" /\ step' = "none"
    /\ IF holder = "main"
       THEN /\ main' = IF failed THEN "exited" ELSE "started"
            /\ worker' = IF failed THEN "off" ELSE "waiting"
       ELSE /\ worker' = "waiting"
            /\ UNCHANGED main

TakeRequest ==
    /\ Running /\ worker = "waiting" /\ requested
    /\ requested' = FALSE
    /\ worker' = "called"
    /\ UNCHANGED <<flag, main, holder, step, target, host, stop, sockets>>

\* Nothing to do when the host is the same and something listens.
RebindNotNeeded ==
    /\ Running /\ holder = "nobody" /\ worker = "called"
    /\ host = DesiredHost /\ stop
    /\ worker' = "waiting"
    /\ UNCHANGED <<flag, requested, main, holder, step, target, host, stop, sockets>>

BeginRebind ==
    /\ holder = "nobody"
    /\ \/ main = "starting" /\ holder' = "main"
       \/ Running /\ worker = "called" /\ holder' = "worker"
    /\ ~(host = DesiredHost /\ stop)
    /\ target' = DesiredHost
    /\ step' = IF stop THEN "close" ELSE "bind4"
    /\ UNCHANGED <<flag, requested, main, worker, host, stop, sockets>>

\* Mutant: s.stop is not reset.
CloseListenersKeepStop ==
    /\ Running /\ step = "close"
    /\ sockets' = {}
    /\ step' = "bind4"
    /\ UNCHANGED <<flag, requested, main, worker, holder, target, host, stop>>

CloseListeners ==
    /\ Running /\ step = "close"
    /\ sockets' = {} /\ stop' = FALSE
    /\ step' = "bind4"
    /\ UNCHANGED <<flag, requested, main, worker, holder, target, host>>

\* A port can be bound once: to one address or to all of them.
Free(family) == \A s \in sockets : s.family # family

Bind(family, next) ==
    /\ Running /\ Free(family)
    /\ sockets' = sockets \union {[family |-> family, host |-> target, mode |-> "bound"]}
    /\ step' = next
    /\ UNCHANGED <<flag, requested, main, worker, holder, target, host, stop>>

BindIPv4 == step = "bind4" /\ Bind("tcp4", "bind6")
BindIPv6 == step = "bind6" /\ Bind("tcp6", "serve")

\* Without the IPv4 listener rebind gives up.
BindIPv4Fails ==
    /\ Running /\ step = "bind4"
    /\ ListenMayFail \/ ~Free("tcp4")
    /\ Return(TRUE)
    /\ UNCHANGED <<flag, requested, target, host, stop, sockets>>

\* IPv6 is optional.
BindIPv6Fails ==
    /\ Running /\ step = "bind6"
    /\ step' = "serve"
    /\ UNCHANGED <<flag, requested, main, worker, holder, target, host, stop, sockets>>

\* The flag is read again for the PROXY headers; the servers start on what was
\* bound, and rebind records what it did.
Serve ==
    /\ Running /\ step = "serve"
    /\ sockets' = {IF s.mode = "bound"
                   THEN [s EXCEPT !.mode = IF force THEN "proxied" ELSE "plain"]
                   ELSE s : s \in sockets}
    /\ host' = target /\ stop' = TRUE
    /\ Return(FALSE)
    /\ UNCHANGED <<flag, requested, target>>

-----------------------------------------------------------------------------
(* The main goroutine *)

InstallHook ==
    /\ main = "started"
    /\ main' = "running" /\ hook' = TRUE
    /\ UNCHANGED <<force, caller, changes, requested, worker, holder, step, target, host,
                   stop, sockets>>

\* Stop takes s.stop under the lock, and closes the listeners without it.
Shutdown ==
    /\ main = "running" /\ holder = "nobody"
    /\ main' = "closing" /\ stop' = FALSE
    /\ UNCHANGED <<flag, requested, worker, holder, step, target, host, sockets>>

\* The listeners are closed, main returns, and the process is gone.
Exit ==
    /\ main = "closing"
    /\ main' = "exited" /\ sockets' = {}
    /\ UNCHANGED <<flag, requested, worker, holder, step, target, host, stop>>

Rebind ==
    \/ BeginRebind \/ CloseListeners \/ BindIPv4 \/ BindIPv4Fails \/ BindIPv6
    \/ BindIPv6Fails \/ Serve

Next ==
    \/ \E a \in Admins : SetForce(a) \/ RequestRebind(a)
    \/ TakeRequest \/ RebindNotNeeded \/ Rebind
    \/ InstallHook \/ Shutdown \/ Exit

Spec == Init /\ [][Next]_vars

\* Goroutines run; nobody has to change the flag or to stop the program.
FairSpec ==
    /\ Spec
    /\ WF_vars(TakeRequest) /\ WF_vars(RebindNotNeeded \/ Rebind) /\ WF_vars(InstallHook)
    /\ \A a \in Admins : WF_vars(RequestRebind(a))

-----------------------------------------------------------------------------
(* Properties *)

Loopback == stop /\ \A s \in sockets : s.host = "loopback"

\* Nobody is about to do anything about the listeners.
Settled ==
    /\ main = "running" /\ worker = "waiting" /\ ~requested
    /\ \A a \in Admins : caller[a] = "idle"

\* What rebind records is what is open: with s.stop set the IPv4 socket serves
\* and all sockets are of s.host; without it nothing is open that s.stop could
\* not close any more, also after a listen that failed.
RecordedListenersAreOpen ==
    holder = "nobody" /\ main \notin {"closing", "exited"} =>
        /\ stop <=> sockets # {}
        /\ stop => \E s \in sockets : s.family = "tcp4"
        /\ \A s \in sockets : s.host = host /\ s.mode # "bound"

\* A change of the flag whose hook runs is followed: the listeners end up where
\* the flag wants them, or a listen failed and nothing is open, although the
\* channel drops requests and a change may come in the middle of a rebind.
RequestedRebindHappens ==
    \A a \in Admins : caller[a] = "notify" ~>
        \/ host = DesiredHost /\ stop
        \/ Settled /\ ~stop
        \/ main # "running"

\* README.md: with proxy_protocol_force=true the proxy listens on the loopback
\* addresses.  The code does not keep this: a change before main has installed
\* the hook moves no listener.
ListenAddressFollowsFlag ==
    force /\ main = "running" ~> ~force \/ Loopback \/ main # "running"

=============================================================================

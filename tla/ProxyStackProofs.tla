--------------------------- MODULE ProxyStackProofs ---------------------------
(***************************************************************************)
(* Theorems about the listeners of the proxy port, for any number of       *)
(* administrators and changes of the flag, and with failing listens.       *)
(***************************************************************************)
EXTENDS ProxyStack, TLAPS

\* Who rebinds, and what is open at each step of it, until the program stops.
RebindInv ==
    /\ holder = "nobody" <=> step = "none"
    /\ holder = "main" => main = "starting"
    /\ holder = "worker" => worker = "called"
    /\ main = "starting" => worker = "off" /\ ~stop
    /\ step = "close" => stop
    /\ step \in {"bind4", "bind6", "serve"} => ~stop
    /\ main \notin {"closing", "exited"} =>
        /\ step \in {"none", "close"} =>
            /\ stop <=> sockets # {}
            /\ stop => \E s \in sockets : s.family = "tcp4"
            /\ \A s \in sockets : s.host = host /\ s.mode # "bound"
        /\ step = "bind4" => sockets = {}
        /\ step \in {"bind6", "serve"} =>
            /\ \E s \in sockets : s.family = "tcp4"
            /\ \A s \in sockets : s.host = target /\ s.mode = "bound"

StackInv == TypeOK /\ RebindInv

\* The steps of rebind keep what they have opened, and everything else waits
\* for s.mu or leaves the listeners alone.
LEMMA StackStep == StackInv /\ [Next]_vars => StackInv'
<1> SUFFICES ASSUME TypeOK, RebindInv, [Next]_vars
             PROVE  StackInv'
  BY DEF StackInv
<1> USE DEF StackInv, flag
<1>1. ASSUME NEW a \in Admins, SetForce(a) PROVE StackInv'
  BY <1>1, ProxyStackAssumption DEF SetForce, TypeOK, RebindInv
<1>2. ASSUME NEW a \in Admins, RequestRebind(a) PROVE StackInv'
  BY <1>2 DEF RequestRebind, TypeOK, RebindInv
<1>3. CASE TakeRequest
  BY <1>3 DEF TakeRequest, TypeOK, RebindInv
<1>4. CASE RebindNotNeeded
  BY <1>4 DEF RebindNotNeeded, TypeOK, RebindInv
<1>5. CASE BeginRebind
  BY <1>5 DEF BeginRebind, DesiredHost, Hosts, TypeOK, RebindInv
<1>6. CASE CloseListeners
  BY <1>6 DEF CloseListeners, TypeOK, RebindInv
<1>7. CASE BindIPv4 \/ BindIPv6
  <2>1. PICK family \in {"tcp4", "tcp6"} :
          /\ sockets' = sockets \union {[family |-> family, host |-> target, mode |-> "bound"]}
          /\ \/ step = "bind4" /\ step' = "bind6" /\ family = "tcp4"
             \/ step = "bind6" /\ step' = "serve"
    BY <1>7 DEF BindIPv4, BindIPv6, Bind
  <2>2. UNCHANGED <<flag, requested, main, worker, holder, target, host, stop>>
    BY <1>7 DEF BindIPv4, BindIPv6, Bind
  <2>3. TypeOK'
    BY <2>1, <2>2 DEF TypeOK, Sockets
  <2>4. RebindInv'
    <3> DEFINE new == [family |-> family, host |-> target, mode |-> "bound"]
    <3>1. new.family = family /\ new.host = target /\ new.mode = "bound"
      OBVIOUS
    <3> HIDE DEF new
    <3>2. sockets' = sockets \union {new}
      BY <2>1 DEF new
    <3>3. CASE step = "bind4"
      BY <2>1, <2>2, <3>1, <3>2, <3>3 DEF RebindInv
    <3>4. CASE step = "bind6"
      BY <2>1, <2>2, <3>1, <3>2, <3>4 DEF RebindInv
    <3>5. QED
      BY <2>1, <3>3, <3>4
  <2>5. QED
    BY <2>3, <2>4
<1>8. CASE BindIPv4Fails
  BY <1>8 DEF BindIPv4Fails, Return, TypeOK, RebindInv
<1>9. CASE BindIPv6Fails
  BY <1>9 DEF BindIPv6Fails, TypeOK, RebindInv
<1>10. CASE Serve
  <2> DEFINE mode == IF force THEN "proxied" ELSE "plain"
             On(s) == IF s.mode = "bound" THEN [s EXCEPT !.mode = mode] ELSE s
  <2>1. sockets' = {On(s) : s \in sockets}
    BY <1>10 DEF Serve
  <2>2. \A s \in Sockets :
          /\ On(s) \in Sockets
          /\ On(s).host = s.host /\ On(s).family = s.family
          /\ On(s).mode # "bound"
    BY DEF Sockets
  <2>3. sockets \subseteq Sockets
    BY DEF TypeOK
  <2>4. /\ step = "serve" /\ step' = "none" /\ holder' = "nobody"
        /\ host' = target /\ stop' = TRUE /\ UNCHANGED <<flag, requested, target>>
        /\ \/ holder = "main" /\ main' = "started" /\ worker' = "waiting"
           \/ holder = "worker" /\ main' = main /\ worker' = "waiting"
    BY <1>10 DEF Serve, Return, TypeOK, RebindInv
  <2> HIDE DEF On
  <2>5. TypeOK'
    BY <2>1, <2>2, <2>3, <2>4 DEF TypeOK
  <2>6. RebindInv'
    BY <2>1, <2>2, <2>3, <2>4 DEF RebindInv
  <2>7. QED
    BY <2>5, <2>6
<1>11. CASE InstallHook
  BY <1>11 DEF InstallHook, TypeOK, RebindInv
<1>12. CASE Shutdown
  BY <1>12 DEF Shutdown, TypeOK, RebindInv
<1>13. CASE Exit
  BY <1>13 DEF Exit, TypeOK, RebindInv
<1>14. CASE UNCHANGED vars
  BY <1>14 DEF vars, TypeOK, RebindInv, Sockets, Hosts
<1>15. QED
  BY <1>1, <1>2, <1>3, <1>4, <1>5, <1>6, <1>7, <1>8, <1>9, <1>10, <1>11, <1>12, <1>13, <1>14
  DEF Next, Rebind

\* Until the program stops, s.stop closes exactly the sockets that are open,
\* and s.host is where they are (rebind, startProxyServers).
THEOREM ListenersRecorded == Spec => [](TypeOK /\ RecordedListenersAreOpen)
<1>1. Init => StackInv
  <2>1. Init => TypeOK
    <3>1. 0 \in 0..MaxChanges
      BY ProxyStackAssumption
    <3>2. QED
      BY <3>1, Zenon DEF Init, TypeOK, Hosts
  <2>2. Init => RebindInv
    BY DEF Init, RebindInv
  <2>3. QED
    BY <2>1, <2>2 DEF StackInv
<1>2. StackInv => TypeOK /\ RecordedListenersAreOpen
  BY DEF StackInv, RebindInv, RecordedListenersAreOpen
<1>3. QED
  BY <1>1, <1>2, StackStep, PTL DEF Spec

=============================================================================

--------------------------- MODULE DockerAppsProofs ---------------------------
(***************************************************************************)
(* Proofs about DockerApps, for any sets of applications and operators.    *)
(* The strengthening follows each script: as long as nothing has gone      *)
(* wrong for it, it is alone on its application, and what it has done so   *)
(* far is still so, whatever the other scripts do to the proxy.            *)
(***************************************************************************)
EXTENDS DockerApps, TLAPS

\* The files, the stacks and the routes agree about application a.
Quiet(a) ==
  /\ a \in stacks <=> a \in confs
  /\ proxy = "up" => (a \in loaded <=> a \in confs)

\* What a clean script of task t for application a has achieved.
Achieved(t, a) ==
  /\ pc[t] \in {"volumes", "conf"} /\ a \in ProxyApps \ trouble => Quiet(a)
  /\ pc[t] = "volumes" => script[t] = "start"
  /\ pc[t] = "stack" /\ script[t] = "start" /\ a \in ProxyApps => t \in changed /\ a \in confs
  /\ pc[t] = "stack" /\ script[t] = "stop" => a \notin confs
  /\ pc[t] = "stack" /\ script[t] = "stop" /\ t \notin changed /\ a \in ProxyApps \ trouble => Quiet(a)
  /\ pc[t] = "stack" /\ t \in changed => a \in ProxyApps
  /\ pc[t] \in {"proxyRm", "proxyDeploy"} =>
       /\ t \in changed /\ a \in ProxyApps
       /\ script[t] = "start" => a \in confs /\ a \in stacks
       /\ script[t] = "stop" => a \notin confs /\ a \notin stacks
  /\ pc[t] = "proxyDeploy" => (proxy = "up" => (a \in loaded <=> a \in confs))

Alone ==
  \A t, u \in Tasks :
    Active(t) /\ t \in clean /\ Active(u) /\ app[u] = app[t] => u = t

SpoiledIsTrouble == \A t \in Tasks : Active(t) /\ t \notin clean => app[t] \in trouble

TasksOnTrack == \A t \in Tasks : Active(t) /\ t \in clean => Achieved(t, app[t])

QuietApps ==
  \A a \in ProxyApps \ trouble :
    (\A t \in Tasks : ~(Active(t) /\ app[t] = a)) => Quiet(a)

IInv == TypeOK /\ Alone /\ SpoiledIsTrouble /\ TasksOnTrack /\ QuietApps

-------------------------------------------------------------------------------
LEMMA InitHolds == Init => IInv
<1> SUFFICES ASSUME Init PROVE IInv
  OBVIOUS
<1> USE AppsAssumption, MaxBegunAssumption DEF Init, Active
<1>1. TypeOK
  BY DEF TypeOK, Scripts, Phases
<1>2. Alone /\ SpoiledIsTrouble /\ TasksOnTrack
  BY DEF Alone, SpoiledIsTrouble, TasksOnTrack
<1>3. QuietApps
  BY DEF QuietApps, Quiet
<1> QED
  BY <1>1, <1>2, <1>3 DEF IInv

LEMMA TypeStep == TypeOK /\ [Next]_vars => TypeOK'
<1> SUFFICES ASSUME TypeOK, [Next]_vars PROVE TypeOK'
  OBVIOUS
<1> USE AppsAssumption, MaxBegunAssumption
    DEF TypeOK, Scripts, Phases, Go, Spoil, task, routes, Active, Wanted
<1>1. ASSUME NEW t \in Tasks, Volumes(t) PROVE TypeOK'
  BY <1>1 DEF Volumes
<1>2. ASSUME NEW t \in Tasks, Conf(t) PROVE TypeOK'
  BY <1>2 DEF Conf, Touched
<1>3. ASSUME NEW t \in Tasks, Stack(t) PROVE TypeOK'
  BY <1>3 DEF Stack, End
<1>4. ASSUME NEW t \in Tasks, ProxyRm(t) PROVE TypeOK'
  BY <1>4 DEF ProxyRm
<1>5. ASSUME NEW t \in Tasks, ProxyDeploy(t) PROVE TypeOK'
  BY <1>5 DEF ProxyDeploy, End
<1>6. ASSUME NEW t \in Tasks, Kill(t) PROVE TypeOK'
  BY <1>6 DEF Kill
<1>7. ASSUME NEW t \in Tasks, NEW s \in Scripts, NEW a \in Apps, Begin(t, s, a) PROVE TypeOK'
  BY <1>7 DEF Begin
<1>8. CASE ProxyStarts \/ ProxyCrashes \/ Rebalance
  BY <1>8 DEF ProxyStarts, ProxyCrashes, Rebalance
<1>9. CASE UNCHANGED vars
  BY <1>9 DEF vars
<1> QED
  BY <1>1, <1>2, <1>3, <1>4, <1>5, <1>6, <1>7, <1>8, <1>9 DEF Next, Step

-------------------------------------------------------------------------------
\* One step of the script of task t, or its end: the other tasks on the same
\* application are not clean, those on others do not see it.
LEMMA ScriptStep ==
  ASSUME IInv, TypeOK', NEW t \in Tasks, Step(t) \/ Kill(t)
  PROVE  IInv'
<1> USE DEF IInv, TypeOK, Scripts, Phases, Go, Spoil, End, task, routes, Active, Step,
            Volumes, Conf, Touched, Wanted, Stack, ProxyRm, ProxyDeploy, Kill
<1>1. Alone'
  BY DEF Alone
<1>2. SpoiledIsTrouble'
  BY DEF Alone, SpoiledIsTrouble
<1>3. TasksOnTrack'
  <2> SUFFICES ASSUME NEW u \in Tasks, (Active(u) /\ u \in clean)' PROVE Achieved(u, app[u])'
    BY DEF TasksOnTrack
  <2>1. CASE u = t
    BY <2>1 DEF TasksOnTrack, Achieved, Quiet
  <2>2. CASE u # t
    BY <2>2 DEF Alone, TasksOnTrack, Achieved, Quiet
  <2> QED BY <2>1, <2>2
<1>4. QuietApps'
  <2> SUFFICES ASSUME NEW a \in ProxyApps \ trouble',
                      \A u \in Tasks : ~(Active(u) /\ app[u] = a)'
               PROVE  Quiet(a)'
    BY DEF QuietApps
  <2>1. CASE a = app[t]
    BY <2>1 DEF SpoiledIsTrouble, TasksOnTrack, Achieved, Quiet
  <2>2. CASE a # app[t]
    BY <2>2 DEF QuietApps, Quiet
  <2> QED BY <2>1, <2>2
<1> QED
  BY <1>1, <1>2, <1>3, <1>4

\* A script that begins is clean if it is alone on its application; if not, the
\* other scripts are no longer clean either, and the application is in trouble.
LEMMA BeginStep ==
  ASSUME IInv, TypeOK', NEW t \in Tasks, NEW s \in Scripts, NEW a \in Apps, Begin(t, s, a)
  PROVE  IInv'
<1> USE DEF IInv, TypeOK, Scripts, Phases, Go, routes, Active, Begin, WorkingOn
<1>1. Alone'
  BY DEF Alone
<1>2. SpoiledIsTrouble'
  BY DEF SpoiledIsTrouble
<1>3. TasksOnTrack'
  <2> SUFFICES ASSUME NEW u \in Tasks, (Active(u) /\ u \in clean)' PROVE Achieved(u, app[u])'
    BY DEF TasksOnTrack
  <2>1. CASE u = t
    BY <2>1 DEF QuietApps, Achieved, Quiet
  <2>2. CASE u # t
    BY <2>2 DEF TasksOnTrack, Achieved, Quiet
  <2> QED BY <2>1, <2>2
<1>4. QuietApps'
  BY DEF QuietApps, Quiet
<1> QED
  BY <1>1, <1>2, <1>3, <1>4

\* The container reads the routes that are there, or none.
LEMMA ProxyStep ==
  ASSUME IInv, TypeOK', ProxyStarts \/ ProxyCrashes \/ Rebalance
  PROVE  IInv'
<1> USE DEF IInv, TypeOK, ProxyStarts, ProxyCrashes, Rebalance, task, Active
<1>1. Alone' /\ SpoiledIsTrouble'
  BY DEF Alone, SpoiledIsTrouble
<1>2. TasksOnTrack'
  BY DEF TasksOnTrack, Achieved, Quiet
<1>3. QuietApps'
  BY DEF QuietApps, Quiet
<1> QED
  BY <1>1, <1>2, <1>3

LEMMA StutterStep == IInv /\ UNCHANGED vars => IInv'
  BY DEF vars, IInv, TypeOK, Alone, SpoiledIsTrouble, TasksOnTrack, QuietApps, Achieved, Quiet, Active

LEMMA IInvHolds == Spec => []IInv
<1>1. IInv /\ [Next]_vars => IInv'
  <2> SUFFICES ASSUME IInv, [Next]_vars PROVE IInv'
    OBVIOUS
  <2>1. TypeOK'
    BY TypeStep DEF IInv
  <2> QED
    BY <2>1, ScriptStep, BeginStep, ProxyStep, StutterStep DEF Next
<1> QED
  BY InitHolds, <1>1, PTL DEF Spec

-------------------------------------------------------------------------------
\* The type invariant of the scripts and the proxy.
THEOREM TypeCorrect == Spec => []TypeOK
<1>1. IInv => TypeOK
  BY DEF IInv
<1> QED
  BY IInvHolds, <1>1, PTL

\* While the proxy is up it routes exactly the deployed applications, for any
\* number of operators who start and stop applications at the same time.
THEOREM Routed == Spec => []DeployedAppsAreRouted
<1>1. IInv => DeployedAppsAreRouted
  BY DEF IInv, QuietApps, Quiet, DeployedAppsAreRouted, WorkingOn
<1> QED
  BY IInvHolds, <1>1, PTL

\* No route without a service keeps the proxy from starting, but that of an
\* application about to be deployed or in trouble.
THEOREM RoutesHaveServices == Spec => []NoDanglingRoute
<1>1. ASSUME IInv, NEW a \in confs \ stacks, a \notin trouble
      PROVE  \E t \in WorkingOn(a) : script[t] = "start" /\ pc[t] = "stack"
  <2>1. a \in ProxyApps /\ ~Quiet(a)
    BY <1>1 DEF IInv, TypeOK, Quiet
  <2>2. PICK t \in Tasks : Active(t) /\ app[t] = a
    BY <1>1, <2>1 DEF IInv, QuietApps
  <2>3. t \in clean /\ Achieved(t, a)
    BY <1>1, <2>2 DEF IInv, SpoiledIsTrouble, TasksOnTrack
  <2>4. script[t] = "start" /\ pc[t] = "stack"
    BY <1>1, <2>1, <2>2, <2>3 DEF IInv, TypeOK, Achieved, Scripts, Phases, Active
  <2> QED
    BY <2>2, <2>4 DEF WorkingOn
<1>2. IInv => NoDanglingRoute
  BY <1>1 DEF NoDanglingRoute
<1> QED
  BY IInvHolds, <1>2, PTL
-------------------------------------------------------------------------------
(* Who brings a proxy back that is down.  That a failed script is not      *)
(* forgotten needs more than IInv: only a script for the same application  *)
(* that has deployed the proxy clears its trouble.                         *)

\* Only a script for an application with a route restarts the proxy.
RestartsForRoutes ==
  \A t \in Tasks :
    pc[t] \in {"proxyRm", "proxyDeploy"} \/ (pc[t] = "stack" /\ t \in changed) => app[t] \in ProxyApps

\* A proxy that was removed is about to be deployed, or a restart failed.
RemovedIsOwed ==
  proxy = "absent" => trouble \cap ProxyApps # {} \/ \E t \in Tasks : pc[t] = "proxyDeploy"

OwedInv == IInv /\ RestartsForRoutes /\ RemovedIsOwed

LEMMA OwedStep ==
  ASSUME OwedInv, IInv', [Next]_vars
  PROVE  RestartsForRoutes' /\ RemovedIsOwed'
<1> USE DEF OwedInv, IInv, TypeOK, Go, Spoil, End, task, routes, Active
<1>1. ASSUME NEW t \in Tasks, Volumes(t) \/ Conf(t)
      PROVE  RestartsForRoutes' /\ RemovedIsOwed'
  BY <1>1 DEF Volumes, Conf, Touched, RestartsForRoutes, RemovedIsOwed
<1>2. ASSUME NEW t \in Tasks, Stack(t)
      PROVE  RestartsForRoutes' /\ RemovedIsOwed'
  <2>1. RestartsForRoutes'
    BY <1>2 DEF Stack, RestartsForRoutes
  <2>2. trouble \cap ProxyApps \subseteq trouble'
    BY <1>2 DEF Stack
  <2>3. \A u \in Tasks : pc[u] = "proxyDeploy" => pc'[u] = "proxyDeploy"
    BY <1>2 DEF Stack
  <2>4. proxy' = proxy
    BY <1>2 DEF Stack
  <2> QED BY <2>1, <2>2, <2>3, <2>4 DEF RemovedIsOwed
<1>3. ASSUME NEW t \in Tasks, ProxyRm(t)
      PROVE  RestartsForRoutes' /\ RemovedIsOwed'
  BY <1>3 DEF ProxyRm, RestartsForRoutes, RemovedIsOwed
<1>4. ASSUME NEW t \in Tasks, ProxyDeploy(t)
      PROVE  RestartsForRoutes' /\ RemovedIsOwed'
  <2>1. app[t] \in ProxyApps
    BY <1>4 DEF ProxyDeploy, RestartsForRoutes
  <2>2. proxy' # "absent" \/ app[t] \in trouble'
    BY <1>4 DEF ProxyDeploy
  <2>3. RestartsForRoutes'
    BY <1>4 DEF ProxyDeploy, RestartsForRoutes
  <2> QED BY <2>1, <2>2, <2>3 DEF RemovedIsOwed
<1>5. ASSUME NEW t \in Tasks, Kill(t)
      PROVE  RestartsForRoutes' /\ RemovedIsOwed'
  <2>1. RestartsForRoutes'
    BY <1>5 DEF Kill, RestartsForRoutes
  <2>2. \A u \in Tasks : pc[u] = "proxyDeploy" => pc'[u] = "proxyDeploy" \/ app[u] \in trouble'
    BY <1>5 DEF Kill
  <2>3. proxy' = proxy /\ trouble \subseteq trouble'
    BY <1>5 DEF Kill
  <2> QED BY <2>1, <2>2, <2>3 DEF RemovedIsOwed, RestartsForRoutes
<1>6. ASSUME NEW t \in Tasks, NEW s \in Scripts, NEW a \in Apps, Begin(t, s, a)
      PROVE  RestartsForRoutes' /\ RemovedIsOwed'
  <2>1. /\ pc[t] = "idle" /\ pc'[t] \in {"volumes", "conf"}
        /\ \A u \in Tasks \ {t} : pc'[u] = pc[u] /\ app'[u] = app[u]
        /\ proxy' = proxy /\ trouble \subseteq trouble' /\ changed' = changed
    BY <1>6 DEF Begin
  <2> QED BY <2>1 DEF RestartsForRoutes, RemovedIsOwed
<1>7. CASE ProxyStarts \/ ProxyCrashes \/ Rebalance
  BY <1>7 DEF ProxyStarts, ProxyCrashes, Rebalance, RestartsForRoutes, RemovedIsOwed
<1>8. CASE UNCHANGED vars
  BY <1>8 DEF vars, RestartsForRoutes, RemovedIsOwed
<1> QED
  BY <1>1, <1>2, <1>3, <1>4, <1>5, <1>6, <1>7, <1>8 DEF Next, Step

\* A proxy that is down comes up by itself, or a script under way will bring it
\* up, for any number of scripts that remove and deploy it side by side; trouble
\* with an application that has no route never keeps it down.
THEOREM ProxyOwed == Spec => []ProxyIsOwed
<1>1. Init => OwedInv
  <2> SUFFICES ASSUME Init PROVE RestartsForRoutes /\ RemovedIsOwed
    BY InitHolds DEF OwedInv
  <2> QED BY DEF Init, RestartsForRoutes, RemovedIsOwed
<1>2. OwedInv /\ IInv' /\ [Next]_vars => OwedInv'
  BY OwedStep DEF OwedInv
<1>3. OwedInv /\ NoDanglingRoute => ProxyIsOwed
  <2> SUFFICES ASSUME OwedInv, NoDanglingRoute
               PROVE  ProxyIsOwed
    OBVIOUS
  <2>1. CASE proxy = "absent"
    BY <2>1 DEF OwedInv, RemovedIsOwed, ProxyIsOwed
  <2>2. CASE proxy = "starting"
    BY <2>2 DEF NoDanglingRoute, ProxyIsOwed
  <2> QED BY <2>1, <2>2 DEF OwedInv, IInv, TypeOK, ProxyIsOwed
<1> QED
  BY IInvHolds, RoutesHaveServices, <1>1, <1>2, <1>3, PTL DEF Spec
===============================================================================

------------------------------ MODULE DockerApps ------------------------------
(***************************************************************************)
(* start_docker_app, stop_docker_app and the restart of the HTTP proxy     *)
(* they end with, run by several operators at once on the swarm managers.  *)
(* The route of an application is its file in conf.d of the proxy; nginx   *)
(* reads the routes when its container starts, and cannot start while one  *)
(* of them names a service that does not exist.                            *)
(***************************************************************************)
EXTENDS Naturals

CONSTANTS
  Apps, ProxyApps,  \* the applications, those with a proxy.conf
  Tasks,            \* the operators' sessions: each runs one script at a time
  MaxBegun          \* bound on the number of scripts started

ASSUME AppsAssumption == ProxyApps \subseteq Apps
ASSUME MaxBegunAssumption == MaxBegun \in Nat

VARIABLES
  stacks,   \* the applications whose stack is deployed
  confs,    \* the applications with a file in conf.d
  proxy,    \* the stack httpproxy: absent, its container starting, or up
  loaded,   \* the routes nginx has read
  script, app, pc,  \* what a task runs, for which application, its next step
  changed,  \* the tasks with restart_httpproxy=true
  clean,    \* history: the tasks of which no step has failed, alone on their application
  trouble,  \* history: applications for which a script went wrong since the last clean one
  begun     \* the number of scripts started

vars == <<stacks, confs, proxy, loaded, script, app, pc, changed, clean, trouble, begun>>
task == <<script, app, begun>>
routes == <<proxy, loaded>>

Scripts == {"start", "stop"}
Phases == {"idle", "volumes", "conf", "stack", "proxyRm", "proxyDeploy"}
Active(t) == pc[t] # "idle"
WorkingOn(a) == {t \in Tasks : Active(t) /\ app[t] = a}

Init ==
  /\ stacks \in SUBSET Apps
  /\ confs = stacks \cap ProxyApps
  /\ proxy = "up" /\ loaded = confs
  /\ script = [t \in Tasks |-> "start"]
  /\ app \in [Tasks -> Apps]
  /\ pc = [t \in Tasks |-> "idle"]
  /\ changed = {} /\ clean = {} /\ trouble = {}
  /\ begun = 0

-------------------------------------------------------------------------------
Go(t, phase) == pc' = [pc EXCEPT ![t] = phase]

\* Something went wrong for the application of task t.
Spoil(t) ==
  /\ clean' = clean \ {t}
  /\ trouble' = trouble \cup {app[t]}

\* The script has run all its steps.
End(t) ==
  /\ Go(t, "idle")
  /\ trouble' = IF t \in clean /\ (t \in changed \/ app[t] \notin ProxyApps)
                  THEN trouble \ {app[t]} ELSE trouble
  /\ UNCHANGED clean

Begin(t, s, a) ==
  LET others == WorkingOn(a)
  IN /\ ~Active(t) /\ begun < MaxBegun
     /\ begun' = begun + 1
     /\ script' = [script EXCEPT ![t] = s]
     /\ app' = [app EXCEPT ![t] = a]
     /\ Go(t, IF s = "start" THEN "volumes" ELSE "conf")
     /\ clean' = IF others = {} THEN clean \cup {t} ELSE clean \ (others \cup {t})
     /\ trouble' = IF others = {} THEN trouble ELSE trouble \cup {a}
     /\ UNCHANGED <<stacks, confs, routes, changed>>

\* Labels and volumes: missing volumes are created, a failure is fatal.
Volumes(t) ==
  /\ pc[t] = "volumes"
  /\ \E ok \in BOOLEAN : Go(t, IF ok THEN "conf" ELSE "idle")
  /\ UNCHANGED <<stacks, confs, routes, task, changed, clean, trouble>>

Touched(t) ==
  \/ script[t] = "start" /\ app[t] \in ProxyApps
  \/ script[t] = "stop" /\ app[t] \in ProxyApps \cap confs

Wanted(t, set) == IF script[t] = "start" THEN set \cup {app[t]} ELSE set \ {app[t]}

\* Fault model: the file is left where it is.
ConfForgotten(t) ==
  /\ pc[t] = "conf"
  /\ Go(t, "stack")
  /\ changed' = IF Touched(t) THEN changed \cup {t} ELSE changed \ {t}
  /\ confs' = IF Touched(t) THEN confs \cup {app[t]} ELSE confs
  /\ UNCHANGED <<stacks, routes, task, clean, trouble>>

\* A failed copy or removal of the file is a warning.
Conf(t) ==
  /\ pc[t] = "conf"
  /\ Go(t, "stack")
  /\ \/ /\ Touched(t)
        /\ confs' = Wanted(t, confs)
        /\ changed' = changed \cup {t}
        /\ UNCHANGED <<clean, trouble>>
     \/ /\ Touched(t)
        /\ confs' \in {confs, Wanted(t, confs)}
        /\ changed' = changed \ {t}
        /\ Spoil(t)
     \/ /\ ~Touched(t)
        /\ changed' = changed \ {t}
        /\ UNCHANGED <<confs, clean, trouble>>
  /\ UNCHANGED <<stacks, routes, task>>

\* docker stack deploy or docker stack rm; a failure ends the script.
Stack(t) ==
  /\ pc[t] = "stack"
  /\ \/ /\ stacks' = Wanted(t, stacks)
        /\ IF t \in changed THEN Go(t, "proxyRm") /\ UNCHANGED <<clean, trouble>> ELSE End(t)
     \/ /\ stacks' \in {stacks, Wanted(t, stacks)}
        /\ Go(t, "idle")
        /\ Spoil(t)
  /\ UNCHANGED <<confs, routes, task, changed>>

\* Fault model: nginx is told to go on as it is.
ProxyRmSkipped(t) ==
  /\ pc[t] = "proxyRm"
  /\ Go(t, "proxyDeploy")
  /\ UNCHANGED <<stacks, confs, routes, task, changed, clean, trouble>>

\* Fault model: stop_docker_app only stops the proxy.
ProxyRmOnly(t) ==
  /\ pc[t] = "proxyRm"
  /\ IF script[t] = "start" THEN Go(t, "proxyDeploy") /\ UNCHANGED <<clean, trouble>> ELSE End(t)
  /\ proxy' = "absent" /\ loaded' = {}
  /\ UNCHANGED <<stacks, confs, task, changed>>

\* restart.sh runs start.sh whatever the status of stop.sh.
ProxyRm(t) ==
  /\ pc[t] = "proxyRm"
  /\ Go(t, "proxyDeploy")
  /\ \/ proxy' = "absent" /\ loaded' = {} /\ UNCHANGED <<clean, trouble>>
     \/ UNCHANGED routes /\ Spoil(t)
  /\ UNCHANGED <<stacks, confs, task, changed>>

\* Deploying a stack that is there already leaves its container alone.
ProxyDeploy(t) ==
  /\ pc[t] = "proxyDeploy"
  /\ \/ proxy' = (IF proxy = "absent" THEN "starting" ELSE proxy) /\ End(t)
     \/ UNCHANGED proxy /\ Go(t, "idle") /\ Spoil(t)
  /\ UNCHANGED <<stacks, confs, loaded, task, changed>>

\* The operator interrupts the script.
Kill(t) ==
  /\ Active(t)
  /\ Go(t, "idle")
  /\ Spoil(t)
  /\ UNCHANGED <<stacks, confs, routes, task, changed>>

-------------------------------------------------------------------------------
(* The container of the proxy: the swarm starts it again until it stays up. *)

ProxyStarts ==
  /\ proxy = "starting" /\ confs \subseteq stacks
  /\ proxy' = "up" /\ loaded' = confs
  /\ UNCHANGED <<stacks, confs, task, pc, changed, clean, trouble>>

ProxyCrashes ==
  /\ proxy = "up"
  /\ proxy' = "starting" /\ loaded' = {}
  /\ UNCHANGED <<stacks, confs, task, pc, changed, clean, trouble>>

\* Fault model: the container keeps what it has read.
RebalanceKeepingRoutes ==
  /\ proxy = "up"
  /\ proxy' = "starting"
  /\ UNCHANGED <<stacks, confs, loaded, task, pc, changed, clean, trouble>>

\* rebalance_docker_apps forces an update of the services: a new container.
Rebalance ==
  /\ proxy = "up"
  /\ proxy' = "starting" /\ loaded' = {}
  /\ UNCHANGED <<stacks, confs, task, pc, changed, clean, trouble>>

-------------------------------------------------------------------------------
Step(t) == Volumes(t) \/ Conf(t) \/ Stack(t) \/ ProxyRm(t) \/ ProxyDeploy(t)

Next ==
  \/ \E t \in Tasks : Step(t) \/ Kill(t)
  \/ \E t \in Tasks, s \in Scripts, a \in Apps : Begin(t, s, a)
  \/ ProxyStarts \/ ProxyCrashes \/ Rebalance

\* Every command ends, and the swarm does not give up starting the container.
Fairness == WF_vars(ProxyStarts) /\ \A t \in Tasks : WF_vars(Step(t))

Spec == Init /\ [][Next]_vars /\ Fairness
-------------------------------------------------------------------------------
(* Properties.                                                             *)

TypeOK ==
  /\ stacks \subseteq Apps
  /\ confs \subseteq ProxyApps
  /\ proxy \in {"absent", "starting", "up"}
  /\ loaded \subseteq ProxyApps /\ (proxy # "up" => loaded = {})
  /\ script \in [Tasks -> Scripts]
  /\ app \in [Tasks -> Apps]
  /\ pc \in [Tasks -> Phases]
  /\ changed \subseteq Tasks /\ clean \subseteq Tasks /\ trouble \subseteq Apps
  /\ begun \in 0..MaxBegun

\* While the proxy is up it routes exactly the deployed applications, whichever
\* of the scripts running side by side restarted it and in whatever order they
\* removed and deployed it; only an application a script works on, or for which
\* one failed or overlapped with another, may be missing or left over.
DeployedAppsAreRouted ==
  proxy = "up" =>
    \A a \in ProxyApps \ trouble : WorkingOn(a) = {} => (a \in loaded <=> a \in stacks)

\* A route whose service does not exist keeps nginx from starting, which takes
\* every application down: there is none but that of an application about to be
\* deployed, or of one for which a script went wrong.
NoDanglingRoute ==
  \A a \in confs \ stacks :
    a \in trouble \/ \E t \in WorkingOn(a) : script[t] = "start" /\ pc[t] = "stack"

\* A proxy that is down is about to come up, or a script that will bring it up or
\* the service it waits for is under way, whichever scripts removed and deployed it
\* side by side.  A proxy that is gone is excused by trouble with an application that
\* has a route, one that cannot start only by the route of an application in trouble.
ProxyIsOwed ==
  \/ proxy = "up"
  \/ /\ proxy = "absent"
     /\ trouble \cap ProxyApps # {} \/ \E t \in Tasks : pc[t] = "proxyDeploy"
  \/ /\ proxy = "starting"
     /\ \A a \in confs \ stacks :
          a \in trouble \/ \E t \in WorkingOn(a) : script[t] = "start" /\ pc[t] = "stack"

\* The proxy comes back after every restart, crash and rebalancing, whatever the
\* scripts are doing meanwhile, unless one for an application with a route went wrong
\* and no script has set that right since.
ProxyReturns == proxy # "up" ~> (proxy = "up" \/ trouble \cap ProxyApps # {})
===============================================================================

------------------------------ MODULE Startup ------------------------------
(***************************************************************************)
(* The tasks that main creates and what they do until the update agent     *)
(* runs: the button task, the MQTT starter, the FreeRTOS daemon task with  *)
(* the startup hook, lwIP's own task and the agent, which the hook makes.  *)
(* FreeRTOS runs a ready task of the highest priority, tasks of one        *)
(* priority in turn.                                                       *)
(*                                                                         *)
(* initTime is one wait here: SntpTime shows that it ends.  The cable and  *)
(* the DHCP server are the environment.  The task that writes the log is a *)
(* library's, and left out but for the waits of those that log.            *)
(***************************************************************************)
EXTENDS Integers

CONSTANTS
    Settings,   \* polling intervals the agent sets, in ms
    Failing     \* steps of the startup that may report an error

Steps == {"SYSTEM_Init", "netif_add", "set_default", "set_up", "dhcp_start", "CreateThread"}

ASSUME SettingsAssumption == Settings \subseteq Nat \ {0} /\ Settings # {}
ASSUME StepsAssumption == Failing \subseteq Steps

VARIABLES
    state,          \* task -> none, ready or blocked
    pc,             \* task -> where it is
    link,           \* the cable is connected
    offer,          \* the DHCP server has offered an address
    lease,          \* the interface has it
    sleepTimeMs,    \* of the button task
    newSleepTimeMs, \* set by the agent, taken by the button task
    setting         \* the argument of the agent's UpdateSettingValue call

net == <<link, offer, lease>>
interval == <<sleepTimeMs, newSleepTimeMs>>
vars == <<state, pc, link, offer, lease, sleepTimeMs, newSleepTimeMs, setting>>

Tasks == {"btn", "mqtt", "daemon", "tcpip", "agent"}

configMAX_PRIORITIES == 10
configTIMER_TASK_PRIORITY == configMAX_PRIORITIES - 2
TCPIP_THREAD_PRIO == 8
btn_press_task_PRIO == configMAX_PRIORITIES - 1

PrioLow ==  \* mutant of Prio
    [btn |-> 1, mqtt |-> 1, daemon |-> configTIMER_TASK_PRIORITY,
     tcpip |-> TCPIP_THREAD_PRIO, agent |-> 1]

Prio ==
    [btn |-> btn_press_task_PRIO, mqtt |-> configMAX_PRIORITIES - 1,
     daemon |-> configTIMER_TASK_PRIORITY, tcpip |-> TCPIP_THREAD_PRIO, agent |-> 1]

Runs(t) ==
    /\ state[t] = "ready"
    /\ \A u \in Tasks : state[u] = "ready" => Prio[u] <= Prio[t]

Init ==
    /\ state = [t \in Tasks |-> IF t \in {"agent", "tcpip"} THEN "none" ELSE "ready"]
    /\ pc = [btn |-> "check", mqtt |-> "wait", daemon |-> "SYSTEM_Init", tcpip |-> "serve",
             agent |-> "start"]
    /\ link \in BOOLEAN /\ offer = FALSE /\ lease = FALSE
    /\ sleepTimeMs = 2000 /\ newSleepTimeMs = 2000
    /\ setting = 2000

Goto(t, at) == pc' = [pc EXCEPT ![t] = at]
Block(t) == state' = [state EXCEPT ![t] = "blocked"]

-----------------------------------------------------------------------------
(* The button task                                                         *)

(* The intervals are compared, and a new one is logged: meanwhile the task *)
(* may wait for room in the log, and others run.                           *)
BtnCompare ==
    /\ Runs("btn") /\ pc["btn"] = "check"
    /\ \/ /\ newSleepTimeMs # sleepTimeMs
          /\ Goto("btn", "update")
          /\ UNCHANGED state \/ Block("btn")
       \/ /\ newSleepTimeMs = sleepTimeMs
          /\ Goto("btn", "read") /\ Block("btn")
    /\ UNCHANGED <<net, interval, setting>>

BtnTakeLost ==  \* mutant of BtnTake: the new interval is only logged
    /\ Runs("btn") /\ pc["btn"] = "update"
    /\ Goto("btn", "read") /\ Block("btn")
    /\ UNCHANGED <<net, interval, setting>>

(* The interval is read again and taken, then the task sleeps.             *)
BtnTake ==
    /\ Runs("btn") /\ pc["btn"] = "update"
    /\ sleepTimeMs' = newSleepTimeMs
    /\ Goto("btn", "read") /\ Block("btn")
    /\ UNCHANGED <<net, newSleepTimeMs, setting>>

BtnRead ==
    /\ Runs("btn") /\ pc["btn"] = "read"
    /\ Goto("btn", "check")
    /\ UNCHANGED <<state, net, interval, setting>>

-----------------------------------------------------------------------------
(* The MQTT starter: it asks once a second whether the agent is up.        *)

MqttWaitBusy ==  \* mutant of MqttWait: it asks without a delay in between
    /\ Runs("mqtt")
    /\ IF pc["agent"] = "start" THEN UNCHANGED pc ELSE Goto("mqtt", "run")
    /\ UNCHANGED <<state, net, interval, setting>>

MqttWait ==
    /\ Runs("mqtt")
    /\ IF pc["agent"] = "start" THEN UNCHANGED pc ELSE Goto("mqtt", "run")
    /\ Block("mqtt")
    /\ UNCHANGED <<net, interval, setting>>

-----------------------------------------------------------------------------
(* vApplicationDaemonTaskStartupHook                                       *)

(* A step that goes on to the next one, or reports an error.               *)
Step(at, next, onError) ==
    /\ Runs("daemon") /\ pc["daemon"] = at
    /\ \/ Goto("daemon", next)
       \/ at \in Failing /\ Goto("daemon", onError)
    /\ UNCHANGED <<state, net, interval, setting>>

(* An error of initNetwork is a loop that never ends; one of SYSTEM_Init   *)
(* ends the hook, and the task goes on to serve the timers.                *)
SystemInit == Step("SYSTEM_Init", "tcpip_init", "timers")
TcpipInit ==
    /\ Runs("daemon") /\ pc["daemon"] = "tcpip_init"
    /\ Goto("daemon", "netif_add") /\ state' = [state EXCEPT !["tcpip"] = "ready"]
    /\ UNCHANGED <<net, interval, setting>>

NetifAdd == Step("netif_add", "set_default", "spin")
NetifSetDefault == Step("set_default", "set_up", "spin")
NetifSetUp == Step("set_up", "linkup", "spin")
DhcpStart == Step("dhcp_start", "lease", "spin")

(* ethernetif_wait_linkup, for five seconds at a time.                     *)
WaitLinkup ==
    /\ Runs("daemon") /\ pc["daemon"] = "linkup"
    /\ IF link
       THEN Goto("daemon", "dhcp_start") /\ UNCHANGED state
       ELSE Block("daemon") /\ UNCHANGED pc
    /\ UNCHANGED <<net, interval, setting>>

(* ethernetif_wait_ipv4_valid, for ever.                                   *)
WaitLease ==
    /\ Runs("daemon") /\ pc["daemon"] = "lease"
    /\ IF lease
       THEN Goto("daemon", "initTime") /\ UNCHANGED state
       ELSE Block("daemon") /\ UNCHANGED pc
    /\ UNCHANGED <<net, interval, setting>>

InitTime ==
    /\ Runs("daemon") /\ pc["daemon"] = "initTime"
    /\ Goto("daemon", "initStorage") /\ Block("daemon")
    /\ UNCHANGED <<net, interval, setting>>

(* The results of initStorage and Iot_CreateDetachedThread are not looked  *)
(* at.  The task then waits for timers.                                    *)
InitStorage ==
    /\ Runs("daemon") /\ pc["daemon"] = "initStorage"
    /\ Goto("daemon", "CreateThread")
    /\ UNCHANGED <<state, net, interval, setting>>

CreateThread ==
    /\ Runs("daemon") /\ pc["daemon"] = "CreateThread"
    /\ Goto("daemon", "timers")
    /\ \/ state' = [state EXCEPT !["daemon"] = "blocked", !["agent"] = "ready"]
       \/ "CreateThread" \in Failing /\ Block("daemon")
    /\ UNCHANGED <<net, interval, setting>>

ServeTimers ==
    /\ Runs("daemon") /\ pc["daemon"] = "timers"
    /\ Block("daemon")
    /\ UNCHANGED <<pc, net, interval, setting>>

(* while (true) in an error path of initNetwork.                           *)
Spin ==
    /\ Runs("daemon") /\ pc["daemon"] = "spin"
    /\ UNCHANGED vars

-----------------------------------------------------------------------------
(* lwIP: what arrived is handled, then the task waits for more.            *)

TcpipServe ==
    /\ Runs("tcpip")
    /\ lease' = (lease \/ offer)
    /\ Block("tcpip")
    /\ UNCHANGED <<pc, link, offer, interval, setting>>

-----------------------------------------------------------------------------
(* The agent                                                               *)

AgentInit ==
    /\ Runs("agent") /\ pc["agent"] = "start"
    /\ Goto("agent", "loop")
    /\ UNCHANGED <<state, net, interval, setting>>

UpdateSettingSeconds(v) ==  \* mutant of UpdateSettingCompare: the unit
    /\ Runs("agent") /\ pc["agent"] = "loop"
    /\ setting' = v * 1000 /\ Goto("agent", "store")
    /\ UNCHANGED <<state, net, interval>>

(* UpdateSettingValue: compare, then store, with other tasks in between.   *)
UpdateSettingCompare(v) ==
    /\ Runs("agent") /\ pc["agent"] = "loop"
    /\ setting' = v
    /\ IF newSleepTimeMs = v THEN UNCHANGED pc ELSE Goto("agent", "store")
    /\ UNCHANGED <<state, net, interval>>

UpdateSettingStore ==
    /\ Runs("agent") /\ pc["agent"] = "store"
    /\ newSleepTimeMs' = setting
    /\ Goto("agent", "loop")
    /\ UNCHANGED <<state, net, sleepTimeMs, setting>>

AgentSleep ==
    /\ Runs("agent") /\ pc["agent"] = "loop"
    /\ Block("agent")
    /\ UNCHANGED <<pc, net, interval, setting>>

-----------------------------------------------------------------------------
(* The environment                                                         *)

(* A delay or a wait ends; the daemon's wait for an address, with it only, *)
(* and its wait for timers never, as nothing here starts one.  The button  *)
(* task and the MQTT starter, which share nothing, sleep far longer than   *)
(* they run: while one of them runs, the other is not woken.               *)
Wake(t) ==
    /\ state[t] = "blocked"
    /\ t \in {"btn", "mqtt"} => state["btn"] = "blocked" /\ state["mqtt"] = "blocked"
    /\ t = "daemon" => pc[t] # "timers" /\ (pc[t] = "lease" => lease)
    /\ state' = [state EXCEPT ![t] = "ready"]
    /\ UNCHANGED <<pc, net, interval, setting>>

Cable ==
    /\ link' = ~link
    /\ UNCHANGED <<state, pc, offer, lease, interval, setting>>

Offer ==
    /\ link /\ ~offer
    /\ pc["daemon"] = "lease"
    /\ offer' = TRUE
    /\ UNCHANGED <<state, pc, link, lease, interval, setting>>

-----------------------------------------------------------------------------
Btn == BtnCompare \/ BtnTake \/ BtnRead
Daemon ==
    \/ SystemInit \/ TcpipInit \/ NetifAdd \/ NetifSetDefault \/ NetifSetUp
    \/ WaitLinkup \/ DhcpStart \/ WaitLease \/ InitTime \/ InitStorage \/ CreateThread \/ ServeTimers \/ Spin
Agent ==
    \/ AgentInit \/ AgentSleep \/ UpdateSettingStore
    \/ \E v \in Settings : UpdateSettingCompare(v)

Next ==
    \/ Btn \/ MqttWait \/ Daemon \/ TcpipServe \/ Agent
    \/ (\E t \in Tasks : Wake(t))
    \/ Cable \/ Offer

Spec == Init /\ [][Next]_vars

(* The highest ready tasks take turns.  Those below them run in the time   *)
(* that the delays of the higher ones leave again and again: strong        *)
(* fairness.  Delays end.  The cable and the DHCP server are not fair.     *)
Fairness ==
    /\ SF_vars(Btn) /\ SF_vars(MqttWait) /\ SF_vars(Daemon) /\ SF_vars(TcpipServe)
    /\ SF_vars(AgentInit) /\ SF_vars(UpdateSettingStore) /\ SF_vars(AgentSleep)
    /\ \A t \in Tasks : SF_vars(Wake(t))
FairSpec == Spec /\ Fairness

-----------------------------------------------------------------------------
(* Properties                                                              *)

TypeOK ==
    /\ state \in [Tasks -> {"none", "ready", "blocked"}]
    /\ pc["btn"] \in {"check", "update", "read"} /\ pc["mqtt"] \in {"wait", "run"}
    /\ pc["tcpip"] = "serve"
    /\ pc["daemon"] \in Steps
        \cup {"tcpip_init", "linkup", "lease", "initTime", "initStorage", "timers", "spin"}
    /\ pc["agent"] \in {"start", "loop", "store"}
    /\ link \in BOOLEAN /\ offer \in BOOLEAN /\ lease \in BOOLEAN
    /\ sleepTimeMs \in Settings \cup {2000} /\ newSleepTimeMs \in Settings \cup {2000}
    /\ setting \in Settings \cup {2000}

(* The button is read again and again, whatever happens to the startup:    *)
(* an error path of initNetwork, which loops at the daemon's priority,     *)
(* does not stop it.                                                       *)
ButtonPolled == []<>(pc["btn"] = "read" /\ state["btn"] = "ready")

(* An interval that was set is taken, though agent and button task compare *)
(* and store it without a lock.                                            *)
SettingTaken == []<>(sleepTimeMs = newSleepTimeMs)

(* Without errors, with a cable that is connected in the end, however      *)
(* late, and a server that answers when asked, the agent runs and MQTT is  *)
(* started: the hook does not give up, and no task that waits keeps the    *)
(* one it waits for from running.                                          *)
NoError == pc["daemon"] # "spin" /\ (pc["daemon"] = "timers" => state["agent"] # "none")
ServerAnswers == []<>(offer \/ pc["daemon"] # "lease")
AgentComesUp ==
    <>[]link /\ ServerAnswers /\ []NoError => <>(pc["agent"] # "start" /\ pc["mqtt"] = "run")
=============================================================================

--------------------------- MODULE StartupProofs ---------------------------
(***************************************************************************)
(* Type correctness of Startup, and the order in which its tasks come up,  *)
(* for every set of intervals that the agent may set and every set of      *)
(* steps that may report an error.                                         *)
(***************************************************************************)
EXTENDS Startup, TLAPS

Places ==
    Steps \cup {"check", "update", "read", "wait", "run", "serve", "start", "loop", "store",
                "tcpip_init", "linkup", "lease", "initTime", "initStorage", "timers", "spin"}

(* TypeOK speaks of the place of each task, not of pc as a function.       *)
StartupInv == TypeOK /\ pc \in [Tasks -> Places]

LEMMA InitStartupInv == Init => StartupInv
  <1> SUFFICES ASSUME Init PROVE StartupInv
    OBVIOUS
  <1>1. pc \in [Tasks -> Places]
    BY DEF Init, Tasks, Places, Steps
  <1>2. state \in [Tasks -> {"none", "ready", "blocked"}]
    BY DEF Init
  <1>3. link \in BOOLEAN /\ offer \in BOOLEAN /\ lease \in BOOLEAN
    BY DEF Init
  <1> QED
    BY <1>1, <1>2, <1>3 DEF Init, StartupInv, TypeOK, Steps

(* A task that goes to a place of its own.                                 *)
LEMMA GotoInv ==
    ASSUME StartupInv,
           UNCHANGED <<net, setting>>,
           sleepTimeMs' \in {sleepTimeMs, newSleepTimeMs},
           newSleepTimeMs' \in {newSleepTimeMs, setting},
           state' \in [Tasks -> {"none", "ready", "blocked"}],
           NEW t \in Tasks, NEW at \in Places,
           pc' = [pc EXCEPT ![t] = at],
           /\ t = "btn" => at \in {"check", "update", "read"}
           /\ t = "mqtt" => at = "run"
           /\ t = "tcpip" => at = "serve"
           /\ t = "daemon" => at \in Steps
                \cup {"tcpip_init", "linkup", "lease", "initTime", "initStorage", "timers", "spin"}
           /\ t = "agent" => at \in {"loop", "store"}
    PROVE  StartupInv'
  BY DEF StartupInv, TypeOK, Tasks, net

(* A task that stays where it is.                                          *)
LEMMA StayInv ==
    ASSUME StartupInv, UNCHANGED <<pc, interval, setting>>,
           link' \in BOOLEAN, offer' \in BOOLEAN, lease' \in BOOLEAN,
           state' \in [Tasks -> {"none", "ready", "blocked"}]
    PROVE  StartupInv'
  BY DEF StartupInv, TypeOK, interval

(* Blocked or ready, a task is in one of the states of the scheduler.      *)
LEMMA Scheduled ==
    ASSUME StartupInv, NEW t \in Tasks, NEW s \in {"none", "ready", "blocked"}
    PROVE  /\ [state EXCEPT ![t] = s] \in [Tasks -> {"none", "ready", "blocked"}]
           /\ state \in [Tasks -> {"none", "ready", "blocked"}]
  BY DEF StartupInv, TypeOK

LEMMA BtnInv == StartupInv /\ Btn => StartupInv'
  BY GotoInv, Scheduled DEF Btn, BtnCompare, BtnTake, BtnRead, Goto, Block, Tasks, Places, interval

LEMMA MqttInv == StartupInv /\ MqttWait => StartupInv'
  BY GotoInv, StayInv, Scheduled
  DEF MqttWait, Goto, Block, Tasks, Places, interval, net, StartupInv, TypeOK

LEMMA DaemonInv == StartupInv /\ Daemon => StartupInv'
  <1> SUFFICES ASSUME StartupInv, Daemon PROVE StartupInv'
    OBVIOUS
  <1>1. link \in BOOLEAN /\ offer \in BOOLEAN /\ lease \in BOOLEAN
    BY DEF StartupInv, TypeOK
  <1>2. ASSUME SystemInit \/ NetifAdd \/ NetifSetDefault \/ NetifSetUp \/ DhcpStart
        PROVE  StartupInv'
    BY <1>2, GotoInv, Scheduled
    DEF SystemInit, NetifAdd, NetifSetDefault, NetifSetUp, DhcpStart, Step, Goto, Tasks, Places,
        Steps, interval
  <1>3. ASSUME TcpipInit \/ InitTime \/ InitStorage PROVE StartupInv'
    BY <1>3, GotoInv, Scheduled
    DEF TcpipInit, InitTime, InitStorage, Goto, Block, Tasks, Places, Steps, interval
  <1>4. ASSUME WaitLinkup \/ WaitLease PROVE StartupInv'
    BY <1>1, <1>4, GotoInv, StayInv, Scheduled
    DEF WaitLinkup, WaitLease, Goto, Block, Tasks, Places, Steps, interval, net
  <1>5. ASSUME CreateThread PROVE StartupInv'
    <2>1. state' \in [Tasks -> {"none", "ready", "blocked"}]
      BY <1>5 DEF CreateThread, Block, StartupInv, TypeOK
    <2> QED
      BY <1>5, <2>1, GotoInv DEF CreateThread, Goto, Tasks, Places, Steps, interval
  <1>6. ASSUME ServeTimers \/ Spin PROVE StartupInv'
    BY <1>1, <1>6, StayInv, Scheduled DEF ServeTimers, Spin, Block, Tasks, vars, interval, net
  <1> QED
    BY <1>2, <1>3, <1>4, <1>5, <1>6 DEF Daemon

LEMMA AgentInv == StartupInv /\ Agent => StartupInv'
  <1> SUFFICES ASSUME StartupInv, Agent PROVE StartupInv'
    OBVIOUS
  <1>1. ASSUME AgentInit \/ UpdateSettingStore PROVE StartupInv'
    BY <1>1, GotoInv, Scheduled
    DEF AgentInit, UpdateSettingStore, Goto, Tasks, Places, interval
  <1>2. ASSUME AgentSleep PROVE StartupInv'
    BY <1>2, StayInv, Scheduled DEF AgentSleep, Block, Tasks, net, StartupInv, TypeOK
  <1>3. ASSUME NEW v \in Settings, UpdateSettingCompare(v) PROVE StartupInv'
    BY <1>3 DEF UpdateSettingCompare, Goto, StartupInv, TypeOK, Tasks, Places, net, interval
  <1> QED
    BY <1>1, <1>2, <1>3 DEF Agent

LEMMA EnvironmentInv ==
    StartupInv /\ (TcpipServe \/ (\E t \in Tasks : Wake(t)) \/ Cable \/ Offer) => StartupInv'
  <1> SUFFICES ASSUME StartupInv, TcpipServe \/ (\E t \in Tasks : Wake(t)) \/ Cable \/ Offer
               PROVE  StartupInv'
    OBVIOUS
  <1>1. link' \in BOOLEAN /\ offer' \in BOOLEAN /\ lease' \in BOOLEAN
    <2>1. link \in BOOLEAN /\ offer \in BOOLEAN /\ lease \in BOOLEAN
      BY DEF StartupInv, TypeOK
    <2>2. (~link) \in BOOLEAN /\ (lease \/ offer) \in BOOLEAN /\ TRUE \in BOOLEAN
      OBVIOUS
    <2>3. CASE TcpipServe
      BY <2>1, <2>2, <2>3, Zenon DEF TcpipServe
    <2>4. CASE Cable \/ Offer
      BY <2>1, <2>2, <2>4, Zenon DEF Cable, Offer
    <2>5. CASE \E t \in Tasks : Wake(t)
      BY <2>1, <2>5 DEF Wake, net
    <2> QED
      BY <2>3, <2>4, <2>5
  <1>2. state' \in [Tasks -> {"none", "ready", "blocked"}]
    BY Scheduled DEF TcpipServe, Wake, Cable, Offer, Block, Tasks
  <1>3. UNCHANGED <<pc, interval, setting>>
    BY DEF TcpipServe, Wake, Cable, Offer
  <1> QED
    BY <1>1, <1>2, <1>3, StayInv

(* The types are kept by every step.                                       *)
LEMMA StartupNext == StartupInv /\ [Next]_vars => StartupInv'
  <1>1. StartupInv /\ UNCHANGED vars => StartupInv'
    BY DEF StartupInv, TypeOK, vars
  <1> QED
    BY <1>1, BtnInv, MqttInv, DaemonInv, AgentInv, EnvironmentInv DEF Next

(* The tasks, their intervals and the network's state keep their types: no *)
(* task is anywhere but at a place of its own.                             *)
THEOREM TypeCorrect == Spec => []TypeOK
  <1>1. StartupInv /\ [Next]_vars => StartupInv'
    BY StartupNext
  <1>2. StartupInv => TypeOK
    BY DEF StartupInv
  <1> QED
    BY <1>1, <1>2, InitStartupInv, PTL DEF Spec

-----------------------------------------------------------------------------
(* The order of the startup                                                *)

Past(places) == pc["daemon"] \in places
AddressKnown == lease /\ state["tcpip"] # "none"

(* The hook goes on to the time, the storage and the agent only with an    *)
(* address.  An agent that exists was made by a hook that came to its end, *)
(* only such an agent leaves its first place, and MQTT runs after that.    *)
OrderInv ==
    /\ state \in [Tasks -> {"none", "ready", "blocked"}] /\ pc \in [Tasks -> Places]
    /\ lease => state["tcpip"] # "none"
    /\ Past({"initTime", "initStorage", "CreateThread"}) => lease
    /\ state["agent"] # "none" => lease /\ Past({"timers"})
    /\ pc["agent"] # "start" => state["agent"] # "none"
    /\ pc["mqtt"] = "run" => pc["agent"] # "start"

LEMMA OrderAtFirst == Init => OrderInv
  <1> SUFFICES ASSUME Init PROVE OrderInv
    OBVIOUS
  <1>1. StartupInv
    BY InitStartupInv
  <1>2. lease = FALSE /\ state["agent"] = "none" /\ pc["daemon"] = "SYSTEM_Init"
    BY DEF Init, Tasks
  <1>3. pc["agent"] = "start" /\ pc["mqtt"] = "wait"
    BY DEF Init
  <1> QED
    BY <1>1, <1>2, <1>3 DEF OrderInv, StartupInv, TypeOK, Past

LEMMA OrderNext ==
    ASSUME OrderInv, StartupInv, StartupInv', [Next]_vars
    PROVE  OrderInv'
  <1>1. state' \in [Tasks -> {"none", "ready", "blocked"}] /\ pc' \in [Tasks -> Places]
    BY DEF StartupInv, TypeOK
  <1>2. CASE Btn
    BY <1>1, <1>2 DEF Btn, BtnCompare, BtnTake, BtnRead, Goto, Block, net, OrderInv, Past, Tasks
  <1>3. CASE MqttWait
    BY <1>1, <1>3 DEF MqttWait, Goto, Block, net, OrderInv, Past, Tasks
  <1>4. CASE SystemInit \/ NetifAdd \/ NetifSetDefault \/ NetifSetUp \/ DhcpStart
    <2>1. Runs("daemon") /\ pc["daemon"] # "timers" /\ UNCHANGED <<state, net>>
      BY <1>4 DEF SystemInit, NetifAdd, NetifSetDefault, NetifSetUp, DhcpStart, Step
    <2>2. \E at \in {"tcpip_init", "timers", "set_default", "set_up", "linkup", "lease", "spin"} :
            pc' = [pc EXCEPT !["daemon"] = at]
      BY <1>4 DEF SystemInit, NetifAdd, NetifSetDefault, NetifSetUp, DhcpStart, Step, Goto
    <2> QED
      BY <1>1, <2>1, <2>2 DEF net, OrderInv, Past, Tasks
  <1>5. CASE TcpipInit
    BY <1>1, <1>5 DEF TcpipInit, Goto, net, OrderInv, Past, Tasks
  <1>6. CASE WaitLinkup
    BY <1>1, <1>6 DEF WaitLinkup, Goto, Block, net, OrderInv, Past, Tasks
  <1>7. CASE WaitLease
    BY <1>1, <1>7 DEF WaitLease, Goto, Block, net, OrderInv, Past, Tasks
  <1>8. CASE InitTime \/ InitStorage
    BY <1>1, <1>8 DEF InitTime, InitStorage, Goto, Block, net, OrderInv, Past, Tasks
  <1>9. CASE CreateThread
    BY <1>1, <1>9 DEF CreateThread, Goto, Block, net, OrderInv, Past, Tasks
  <1>10. CASE ServeTimers
    BY <1>1, <1>10 DEF ServeTimers, Block, net, OrderInv, Past, Tasks
  <1>11. CASE TcpipServe
    BY <1>1, <1>11 DEF TcpipServe, Runs, Block, OrderInv, Past, Tasks
  <1>12. CASE Agent
    <2>1. state["agent"] = "ready"
      BY <1>12 DEF Agent, AgentInit, AgentSleep, UpdateSettingStore, UpdateSettingCompare, Runs
    <2>2. UNCHANGED net /\ (state' = state \/ state' = [state EXCEPT !["agent"] = "blocked"])
      BY <1>12 DEF Agent, AgentInit, AgentSleep, UpdateSettingStore, UpdateSettingCompare, Block
    <2>3. pc' = pc \/ \E at \in {"loop", "store"} : pc' = [pc EXCEPT !["agent"] = at]
      BY <1>12 DEF Agent, AgentInit, AgentSleep, UpdateSettingStore, UpdateSettingCompare, Goto
    <2> QED
      BY <1>1, <2>1, <2>2, <2>3 DEF net, OrderInv, Past, Tasks
  <1>13. CASE \E t \in Tasks : Wake(t)
    BY <1>1, <1>13 DEF Wake, net, OrderInv, Past, Tasks
  <1>14. CASE Cable \/ Offer \/ Spin \/ UNCHANGED vars
    BY <1>1, <1>14 DEF Cable, Offer, Spin, vars, OrderInv, Past
  <1> QED
    BY <1>2, <1>3, <1>4, <1>5, <1>6, <1>7, <1>8, <1>9, <1>10, <1>11, <1>12, <1>13, <1>14
    DEF Next, Daemon

(* The update agent is made, and MQTT started, only when lwIP runs and the *)
(* interface has an address, and never when a step of the startup hook     *)
(* before that reported an error, whatever the priorities do in between    *)
(* (vApplicationDaemonTaskStartupHook, aws_mqtt_starter.c).                *)
THEOREM NetworkFirst ==
    Spec => [](state["agent"] # "none" \/ pc["mqtt"] = "run" => AddressKnown /\ Past({"timers"}))
  <1>1. StartupInv /\ [Next]_vars => StartupInv'
    BY StartupNext
  <1>2. OrderInv => (state["agent"] # "none" \/ pc["mqtt"] = "run"
                        => AddressKnown /\ Past({"timers"}))
    BY DEF OrderInv, AddressKnown
  <1> QED
    BY <1>1, <1>2, InitStartupInv, OrderAtFirst, OrderNext, PTL DEF Spec
=============================================================================

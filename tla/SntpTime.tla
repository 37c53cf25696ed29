------------------------------ MODULE SntpTime ------------------------------
(***************************************************************************)
(* The clock of aknano_client.c.  At startup the daemon task starts the    *)
(* SNTP client and waits for an answer (initTime); the lwIP thread stores  *)
(* the answer (aknano_client_sntp_set_system_time); the update agent asks  *)
(* for the time (aknano_cli_get_current_epoch).  They share boot_up_epoch  *)
(* without a lock.                                                         *)
(*                                                                         *)
(* Time passes in half seconds.  The upper word of the 64-bit              *)
(* boot_up_epoch is zero in every value it takes, so that a reading that   *)
(* is interrupted between its words is the same as one that is not.        *)
(***************************************************************************)
EXTENDS Integers

CONSTANTS
    DefaultEpoch, \* the time assumed without an answer
    Epoch,      \* the true time, in seconds, when the scheduler started
    MaxStart,   \* bound: half seconds until the network is up
    MaxTime,    \* bound: half seconds in a behaviour
    TickWrap    \* half seconds until the 32-bit tick count starts again

Polls == 20
SecondTicks == 2
LongestWait == SecondTicks * Polls + 1

ASSUME EpochAssumption == DefaultEpoch \in Nat \ {0} /\ Epoch \in Nat /\ Epoch > DefaultEpoch
ASSUME TimeAssumption == MaxStart \in Nat /\ MaxTime \in Nat /\ MaxTime > MaxStart + LongestWait
ASSUME TickAssumption == TickWrap \in Nat \ {0}

VARIABLES
    now,            \* half seconds since the scheduler started
    ticks,          \* the tick count of FreeRTOS, in half seconds
    boot_up_epoch,
    sntp,           \* the SNTP client: off, polling, or in the callback
    daemon,         \* where the daemon task is in SNTPRequest
    i,              \* the loop's counter
    wake,           \* when the daemon's vTaskDelay ends
    agent,          \* where the agent is in aknano_cli_get_current_epoch
    result,         \* what the last call returned, 0 before the first
    last,           \* history: the tick count that result was made from
    started,        \* history: when SNTPRequest was called
    waited          \* history: what it took, when it has returned

time == <<now, ticks>>
task == <<daemon, i, wake, started, waited>>
call == <<agent, result, last>>
vars == <<time, boot_up_epoch, sntp, task, call>>

-----------------------------------------------------------------------------
Init ==
    /\ now = 0 /\ ticks = 0 /\ boot_up_epoch = 0 /\ sntp = "off"
    /\ daemon = "init" /\ i = 0 /\ wake = 0 /\ started = 0 /\ waited = 0
    /\ agent = "off" /\ result = 0 /\ last = 0

(* The daemon task has a high priority: it runs as soon as its delay ends. *)
(* The tick count has 32 bits and starts again after 2^32 ms, 49.7 days.   *)
Tick ==
    /\ IF daemon = "init" THEN now < MaxStart ELSE now < MaxTime
    /\ daemon \in {"poll", "settle", "tail"} => now < wake
    /\ now' = now + 1
    /\ ticks' = IF ticks + 1 = TickWrap THEN 0 ELSE ticks + 1
    /\ UNCHANGED <<boot_up_epoch, sntp, task, call>>

-----------------------------------------------------------------------------
(* initTime                                                                *)

Sleep(d, at) == daemon' = at /\ wake' = now + d /\ UNCHANGED waited
Return == daemon' = "done" /\ waited' = now - started /\ UNCHANGED wake

sntp_example_init ==
    /\ daemon = "init"
    /\ sntp' = "polling"
    /\ started' = now
    /\ Sleep(SecondTicks, "poll")
    /\ UNCHANGED <<time, boot_up_epoch, i, call>>

PollEndless ==  \* mutant of Poll: the counter is not incremented
    /\ daemon = "poll" /\ now = wake
    /\ IF boot_up_epoch # 0 THEN Sleep(1, "settle") ELSE Sleep(SecondTicks, "poll")
    /\ UNCHANGED <<time, boot_up_epoch, sntp, i, started, call>>

PollOnceMore ==  \* mutant of Poll: the loop ends after its bound
    /\ daemon = "poll" /\ now = wake
    /\ IF boot_up_epoch # 0
       THEN Sleep(1, "settle") /\ UNCHANGED i
       ELSE /\ i' = i + 1
            /\ IF i' <= Polls THEN Sleep(SecondTicks, "poll") ELSE Return
    /\ UNCHANGED <<time, boot_up_epoch, sntp, started, call>>

(* One second of the loop is over.  The statement after the loop adds a    *)
(* half second only when the loop was left at i = 10.                      *)
Poll ==
    /\ daemon = "poll" /\ now = wake
    /\ IF boot_up_epoch # 0
       THEN Sleep(1, "settle") /\ UNCHANGED i
       ELSE /\ i' = i + 1
            /\ IF i' < Polls THEN Sleep(SecondTicks, "poll") ELSE Return
    /\ UNCHANGED <<time, boot_up_epoch, sntp, started, call>>

Settle ==
    /\ daemon = "settle" /\ now = wake
    /\ IF i = 10 THEN Sleep(1, "tail") ELSE Return
    /\ UNCHANGED <<time, boot_up_epoch, sntp, i, started, call>>

Tail ==
    /\ daemon = "tail" /\ now = wake
    /\ Return
    /\ UNCHANGED <<time, boot_up_epoch, sntp, i, started, call>>

-----------------------------------------------------------------------------
(* The lwIP thread.  An answer comes at any time, or never.                *)

aknano_client_sntp_set_system_time ==
    /\ sntp = "polling"
    /\ boot_up_epoch' = Epoch + now \div SecondTicks
    /\ sntp' = "callback"
    /\ UNCHANGED <<time, task, call>>

(* Mutant of sntp_stop: the client goes on polling.                        *)
sntp_goes_on ==
    /\ sntp = "callback"
    /\ sntp' = "polling"
    /\ UNCHANGED <<time, boot_up_epoch, task, call>>

(* After the callback's delay of 50 ms.                                    *)
sntp_stop ==
    /\ sntp = "callback"
    /\ sntp' = "off"
    /\ UNCHANGED <<time, boot_up_epoch, task, call>>

-----------------------------------------------------------------------------
(* The agent, which is created when initTime has returned.                 *)

AgentStart ==
    /\ agent = "off" /\ daemon = "done"
    /\ agent' = "idle"
    /\ UNCHANGED <<time, boot_up_epoch, sntp, task, result, last>>

EpochAlwaysDefault ==  \* mutant of EpochCheck: no test of boot_up_epoch
    /\ agent = "idle"
    /\ agent' = "default"
    /\ UNCHANGED <<time, boot_up_epoch, sntp, task, result, last>>

(* aknano_cli_get_current_epoch: the test, the default, the sum.  Another  *)
(* task may run in between.                                                *)
EpochCheck ==
    /\ agent = "idle"
    /\ agent' = IF boot_up_epoch = 0 THEN "default" ELSE "sum"
    /\ UNCHANGED <<time, boot_up_epoch, sntp, task, result, last>>

EpochDefault ==
    /\ agent = "default"
    /\ boot_up_epoch' = DefaultEpoch
    /\ agent' = "sum"
    /\ UNCHANGED <<time, sntp, task, result, last>>

EpochReturn ==
    /\ agent = "sum"
    /\ result' = boot_up_epoch + ticks \div SecondTicks
    /\ agent' = "idle" /\ last' = ticks
    /\ UNCHANGED <<time, boot_up_epoch, sntp, task>>

-----------------------------------------------------------------------------
Daemon == sntp_example_init \/ Poll \/ Settle \/ Tail
Next ==
    \/ Tick \/ Daemon
    \/ aknano_client_sntp_set_system_time \/ sntp_stop
    \/ AgentStart \/ EpochCheck \/ EpochDefault \/ EpochReturn

Spec == Init /\ [][Next]_vars

(* Time passes and the daemon runs; an answer need not come.               *)
FairSpec == Spec /\ WF_vars(Tick) /\ WF_vars(Daemon)

-----------------------------------------------------------------------------
(* Properties                                                              *)

Synced == Epoch .. Epoch + MaxTime
TypeOK ==
    /\ now \in 0..MaxTime /\ ticks \in 0..(TickWrap - 1)
    /\ boot_up_epoch \in {0, DefaultEpoch} \cup Synced
    /\ sntp \in {"off", "polling", "callback"}
    /\ daemon \in {"init", "poll", "settle", "tail", "done"}
    /\ i \in 0..Polls
    /\ wake \in Nat
    /\ agent \in {"off", "idle", "default", "sum"}
    /\ result \in Nat /\ last \in 0..(TickWrap - 1)
    /\ started \in 0..MaxTime /\ waited \in 0..MaxTime

(* SNTPRequest holds the startup up for 20.5 seconds at most, whenever the *)
(* answer comes and if none comes.                                         *)
WaitBounded ==
    /\ daemon \notin {"init", "done"} => now - started <= LongestWait
    /\ waited <= LongestWait

(* The startup goes on whether or not a server answers.                    *)
InitTimeReturns == <>(daemon = "done")

(* A time that a server sent is replaced by nothing: not by a later        *)
(* answer, to which the ticks since boot would be added once more, and not *)
(* by the default, at any instant of any call.  The one exception is an    *)
(* answer after the whole wait, while the agent's first call is between    *)
(* its test of boot_up_epoch and the default: the default wins.            *)
SyncKept ==
    [][(boot_up_epoch \in Synced) =>
        \/ UNCHANGED boot_up_epoch
        \/ i = Polls /\ agent = "default" /\ result = 0]_vars

(* The time the agent is given goes back in one case only, with an answer  *)
(* at any instant of its calls: in the first call after the 32-bit tick    *)
(* count, from which it is made, has started again.                        *)
TimeForward == [][result' < result => ticks < last]_vars

(* boot_up_epoch, to which the ticks since boot are added, is the time of  *)
(* boot, within a second.                                                  *)
EpochIsOfBoot ==
    boot_up_epoch \in Synced => boot_up_epoch - Epoch <= 1
=============================================================================

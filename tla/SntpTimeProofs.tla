--------------------------- MODULE SntpTimeProofs ---------------------------
(***************************************************************************)
(* Proofs about SntpTime, for every Epoch, every bound on time and every   *)
(* length of the tick count: which values boot_up_epoch has, when one that *)
(* a server sent is lost, when the agent's time goes back, how long the    *)
(* startup waits, and how far the time is ahead.                           *)
(***************************************************************************)
EXTENDS SntpTime, TLAPS

(* Typing without the bounds that follow from the timing, which the two    *)
(* action properties do not need.                                          *)
Types ==
    /\ now \in Nat /\ now <= MaxTime
    /\ boot_up_epoch \in Nat
    /\ sntp \in {"off", "polling", "callback"}
    /\ daemon \in {"init", "poll", "settle", "tail", "done"}
    /\ ticks \in Nat /\ ticks < TickWrap
    /\ last \in Nat /\ last < TickWrap
    /\ i \in Nat /\ i <= Polls
    /\ agent \in {"off", "idle", "default", "sum"}
    /\ result \in Nat

(* How far the answer got, and what the agent has seen of it.  The default *)
(* is only written when no call returned before, and never once the daemon *)
(* saw an answer.                                                          *)
EpochInv ==
    /\ Types
    /\ boot_up_epoch \in {0, DefaultEpoch} \/ (Epoch <= boot_up_epoch /\ boot_up_epoch <= Epoch + MaxTime)
    /\ sntp = "polling" => boot_up_epoch \in {0, DefaultEpoch}
    /\ daemon = "init" => sntp = "off" /\ boot_up_epoch = 0
    /\ agent # "off" => daemon = "done"
    /\ daemon \in {"init", "poll"} => i < Polls
    /\ daemon \in {"settle", "tail"} => boot_up_epoch # 0 /\ sntp # "polling"
    /\ daemon = "done" /\ i < Polls =>
        boot_up_epoch \notin {0, DefaultEpoch} /\ sntp # "polling" /\ agent # "default"
    /\ daemon \notin {"init", "done"} \/ agent = "off" => boot_up_epoch # DefaultEpoch
    /\ agent \in {"off", "default"} => result = 0
    /\ agent = "sum" => boot_up_epoch # 0
    /\ boot_up_epoch = 0 => result = 0
    /\ result <= boot_up_epoch + last \div SecondTicks

USE EpochAssumption, TimeAssumption, TickAssumption DEF Polls, SecondTicks, LongestWait, time

(* At startup nothing is set and nothing was returned.                     *)
LEMMA InitEpochInv == Init => EpochInv
  BY DEF Init, EpochInv, Types

(* Time alone changes nothing of the clock.                                *)
LEMMA TickInv == EpochInv /\ Tick => EpochInv'
  BY DEF EpochInv, Types, Tick, task, call

(* The daemon's steps: after the loop is left for an answer, the answer is *)
(* there.                                                                  *)
LEMMA DaemonInv == EpochInv /\ Daemon => EpochInv'
<1> SUFFICES ASSUME EpochInv, Daemon PROVE EpochInv'
  OBVIOUS
<1>1. CASE sntp_example_init
  BY <1>1 DEF EpochInv, Types, sntp_example_init, Sleep, call
<1>2. CASE Poll
  BY <1>2 DEF EpochInv, Types, Poll, Sleep, Return, call
<1>3. CASE Settle
  BY <1>3 DEF EpochInv, Types, Settle, Sleep, Return, call
<1>4. CASE Tail
  BY <1>4 DEF EpochInv, Types, Tail, Return, call
<1> QED
  BY <1>1, <1>2, <1>3, <1>4 DEF Daemon

(* An answer: the client leaves "polling", so that it is the only one.     *)
LEMMA AnswerInv ==
    EpochInv /\ (aknano_client_sntp_set_system_time \/ sntp_stop) => EpochInv'
<1> SUFFICES ASSUME EpochInv, aknano_client_sntp_set_system_time \/ sntp_stop PROVE EpochInv'
  OBVIOUS
<1>1. CASE aknano_client_sntp_set_system_time
  BY <1>1 DEF EpochInv, Types, aknano_client_sntp_set_system_time, task, call
<1>2. CASE sntp_stop
  BY <1>2 DEF EpochInv, Types, sntp_stop, task, call
<1> QED
  BY <1>1, <1>2

(* The agent's steps, with an answer at any point between them.            *)
LEMMA AgentInv ==
    EpochInv /\ (AgentStart \/ EpochCheck \/ EpochDefault \/ EpochReturn) => EpochInv'
<1> SUFFICES ASSUME EpochInv, AgentStart \/ EpochCheck \/ EpochDefault \/ EpochReturn
             PROVE EpochInv'
  OBVIOUS
<1>1. CASE AgentStart
  BY <1>1 DEF EpochInv, Types, AgentStart, task
<1>2. CASE EpochCheck
  BY <1>2 DEF EpochInv, Types, EpochCheck, task
<1>3. CASE EpochDefault
  BY <1>3 DEF EpochInv, Types, EpochDefault, task
<1>4. CASE EpochReturn
  BY <1>4 DEF EpochInv, Types, EpochReturn, task
<1> QED
  BY <1>1, <1>2, <1>3, <1>4

(* EpochInv is an invariant of the clock.                                  *)
THEOREM EpochInvariant == Spec => []EpochInv
<1>1. EpochInv /\ [Next]_vars => EpochInv'
  <2> SUFFICES ASSUME EpochInv, [Next]_vars PROVE EpochInv'
    OBVIOUS
  <2>1. CASE UNCHANGED vars
    BY <2>1 DEF EpochInv, Types, vars, task, call
  <2> QED
    BY <2>1, TickInv, DaemonInv, AnswerInv, AgentInv DEF Next
<1> QED
  BY <1>1, InitEpochInv, PTL DEF Spec

(* A time that a server sent is replaced by nothing, except by the default *)
(* in the agent's first call after the whole wait without an answer.       *)
THEOREM SyncedTimeKept == Spec => SyncKept
<1>1. EpochInv /\ [Next]_vars =>
        [(boot_up_epoch \in Synced) =>
            \/ UNCHANGED boot_up_epoch
            \/ i = Polls /\ agent = "default" /\ result = 0]_vars
  <2> SUFFICES ASSUME EpochInv, Next, boot_up_epoch \in Synced
               PROVE  \/ UNCHANGED boot_up_epoch
                      \/ i = Polls /\ agent = "default" /\ result = 0
    OBVIOUS
  <2>1. boot_up_epoch \notin {0, DefaultEpoch}
    BY DEF Synced
  <2>2. ~aknano_client_sntp_set_system_time
    BY <2>1 DEF EpochInv, aknano_client_sntp_set_system_time
  <2>3. CASE EpochDefault
    BY <2>3 DEF EpochInv, Types, EpochDefault
  <2>4. CASE Daemon
    BY <2>4 DEF Daemon, sntp_example_init, Poll, Settle, Tail
  <2> QED
    BY <2>2, <2>3, <2>4 DEF Next, Tick, sntp_stop, AgentStart, EpochCheck, EpochReturn
<1> QED
  BY <1>1, EpochInvariant, PTL DEF Spec, SyncKept

(* The time the agent is given goes back only in the first call after the  *)
(* tick count has started again, however often that happens.               *)
THEOREM TimeGoesForward == Spec => TimeForward
<1>1. EpochInv /\ [Next]_vars => [result' < result => ticks < last]_vars
  <2> SUFFICES ASSUME EpochInv, Next, result' < result PROVE ticks < last
    OBVIOUS
  <2>1. CASE EpochReturn
    BY <2>1 DEF EpochInv, Types, EpochReturn
  <2>2. CASE Daemon
    BY <2>2 DEF EpochInv, Types, Daemon, sntp_example_init, Poll, Settle, Tail, call
  <2> QED
    BY <2>1, <2>2 DEF EpochInv, Types, Next, Tick, aknano_client_sntp_set_system_time, sntp_stop,
       AgentStart, EpochCheck, EpochDefault, call
<1> QED
  BY <1>1, EpochInvariant, PTL DEF Spec, TimeForward

(* When the daemon wakes next, by the turns of the loop it has made.       *)
WaitInv ==
    /\ now \in Nat /\ started \in Nat /\ wake \in Nat /\ waited \in Nat
    /\ started <= now
    /\ i \in 0..Polls
    /\ daemon \in {"init", "poll", "settle", "tail", "done"}
    /\ daemon \in {"init", "poll"} => i < Polls
    /\ daemon # "init" => daemon = "done" \/ now <= wake
    /\ daemon = "poll" => wake = started + SecondTicks * (i + 1)
    /\ daemon = "settle" => wake = started + SecondTicks * (i + 1) + 1 /\ i < Polls
    /\ daemon = "tail" => wake = started + SecondTicks * (i + 1) + 2 /\ i = 10
    /\ daemon = "init" => i = 0
    /\ waited <= LongestWait

(* Every task's step keeps the schedule of the daemon.                     *)
LEMMA StepWaitInv == WaitInv /\ [Next]_vars => WaitInv'
<1> SUFFICES ASSUME WaitInv, [Next]_vars PROVE WaitInv'
  OBVIOUS
<1>1. CASE Tick
  BY <1>1 DEF WaitInv, Tick, task
<1>2. CASE sntp_example_init
  BY <1>2 DEF WaitInv, sntp_example_init, Sleep
<1>3. CASE Poll
  BY <1>3 DEF WaitInv, Poll, Sleep, Return
<1>4. CASE Settle
  BY <1>4 DEF WaitInv, Settle, Sleep, Return
<1>5. CASE Tail
  BY <1>5 DEF WaitInv, Tail, Return
<1>6. CASE UNCHANGED <<time, task>>
  BY <1>6 DEF WaitInv, task
<1>7. ~Tick /\ ~Daemon => UNCHANGED <<time, task>>
  BY DEF Next, vars, task, aknano_client_sntp_set_system_time, sntp_stop, AgentStart,
     EpochCheck, EpochDefault, EpochReturn
<1> QED
  BY <1>1, <1>2, <1>3, <1>4, <1>5, <1>6, <1>7 DEF Daemon

(* SNTPRequest returns within 20.5 seconds of its call, for any time the   *)
(* network took to come up and any time of the answer.                     *)
THEOREM StartupWaitBounded == Spec => []WaitBounded
<1>1. Init => WaitInv
  BY DEF Init, WaitInv
<1>2. WaitInv => WaitBounded
  BY DEF WaitInv, WaitBounded
<1> QED
  BY <1>1, <1>2, StepWaitInv, PTL DEF Spec

(* The variables of SNTPRequest, its callback and the agent's call keep    *)
(* their types: boot_up_epoch only ever holds the default or a time that a *)
(* server could have sent.                                                 *)
THEOREM TypeCorrect == Spec => []TypeOK
<1>1. Init => WaitInv
  BY DEF Init, WaitInv
<1>2. EpochInv /\ WaitInv => TypeOK
  <2> SUFFICES ASSUME EpochInv, WaitInv PROVE TypeOK
    OBVIOUS
  <2>1. boot_up_epoch \in {0, DefaultEpoch} \cup Synced
    BY DEF EpochInv, Types, Synced
  <2>2. now \in 0..MaxTime /\ started \in 0..MaxTime /\ waited \in 0..MaxTime
    BY DEF EpochInv, Types, WaitInv
  <2> QED
    BY <2>1, <2>2 DEF TypeOK, EpochInv, Types, WaitInv
<1> QED
  BY <1>1, <1>2, EpochInvariant, StepWaitInv, PTL DEF Spec

(* An answer that the daemon waited for came before its wait was over.     *)
AnswerInTime ==
    (daemon \in {"poll", "settle", "tail"} \/ (daemon = "done" /\ i < Polls))
        /\ boot_up_epoch # DefaultEpoch
    => boot_up_epoch <= Epoch + (started + SecondTicks * Polls) \div SecondTicks

LEMMA StepAnswerInTime ==
    ASSUME EpochInv, WaitInv, AnswerInTime, [Next]_vars
    PROVE  AnswerInTime'
<1>1. /\ now \in Nat /\ started \in Nat /\ boot_up_epoch \in Nat /\ wake \in Nat /\ i \in 0..Polls
  BY DEF EpochInv, Types, WaitInv
<1>2. CASE sntp_example_init
  BY <1>1, <1>2 DEF EpochInv, AnswerInTime, sntp_example_init, Sleep, call
<1>3. CASE Poll
  BY <1>1, <1>3 DEF AnswerInTime, Poll, Sleep, Return, call
<1>4. CASE Settle \/ Tail
  BY <1>1, <1>4 DEF WaitInv, AnswerInTime, Settle, Tail, Sleep, Return, call
<1>5. CASE aknano_client_sntp_set_system_time
  <2>1. daemon = "poll" => now <= started + SecondTicks * Polls
    BY <1>1 DEF WaitInv
  <2>2. daemon \notin {"settle", "tail"} /\ ~(daemon = "done" /\ i < Polls)
    BY <1>5 DEF EpochInv, aknano_client_sntp_set_system_time
  <2>3. daemon = "poll" =>
            now \div SecondTicks <= (started + SecondTicks * Polls) \div SecondTicks
    BY <1>1, <2>1
  <2>4. boot_up_epoch' = Epoch + now \div SecondTicks /\ UNCHANGED task
    BY <1>5 DEF aknano_client_sntp_set_system_time
  <2> QED
    BY <1>1, <2>2, <2>3, <2>4 DEF AnswerInTime, task
<1>6. CASE EpochDefault
  BY <1>6 DEF AnswerInTime, EpochDefault
<1>7. CASE UNCHANGED <<boot_up_epoch, task>>
  BY <1>7 DEF AnswerInTime, task
<1> QED
  BY <1>2, <1>3, <1>4, <1>5, <1>6, <1>7
  DEF Next, Daemon, Tick, sntp_stop, AgentStart, EpochCheck, EpochReturn, vars, call, task

(* How far boot_up_epoch is from the time of boot: with an answer that     *)
(* SNTPRequest waited for it is ahead by no more than the network took to  *)
(* come up, and the 20 seconds of the wait.                                *)
THEOREM AheadByTheWait ==
    Spec => [](daemon = "done" /\ i < Polls =>
                boot_up_epoch - Epoch \in 0..((started + SecondTicks * Polls) \div SecondTicks))
<1>1. Init => WaitInv /\ AnswerInTime
  BY DEF Init, WaitInv, AnswerInTime
<1>2. EpochInv /\ WaitInv /\ AnswerInTime =>
        (daemon = "done" /\ i < Polls =>
            boot_up_epoch - Epoch \in 0..((started + SecondTicks * Polls) \div SecondTicks))
  <2> SUFFICES ASSUME EpochInv, WaitInv, AnswerInTime, daemon = "done", i < Polls
               PROVE  boot_up_epoch - Epoch
                        \in 0..((started + SecondTicks * Polls) \div SecondTicks)
    OBVIOUS
  <2>1. boot_up_epoch \in Nat /\ boot_up_epoch # 0 /\ started \in Nat
    BY DEF EpochInv, Types, WaitInv
  <2>2. boot_up_epoch # DefaultEpoch
    BY DEF EpochInv
  <2>3. Epoch <= boot_up_epoch
    BY <2>1, <2>2 DEF EpochInv
  <2> QED
    BY <2>1, <2>2, <2>3 DEF AnswerInTime
<1> QED
  BY <1>1, <1>2, EpochInvariant, StepWaitInv, StepAnswerInTime, PTL DEF Spec
=============================================================================

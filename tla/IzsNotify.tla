------------------------------ MODULE IzsNotify ------------------------------
(***************************************************************************)
(* Notifications of the IAS zone sensor, samples/ias_zone_sensor:          *)
(* izs_device.c and izs_device_utils.c.  A change of the zone status is    *)
(* queued; the oldest is sent to the CIE and stays in the queue until it   *)
(* is acknowledged; one that is not acknowledged is repeated, at growing   *)
(* intervals, for ever.  The sensor sends once it is enrolled, and a reset *)
(* to factory defaults forgets queue and enrollment.                       *)
(*                                                                         *)
(* A change of status is an event, numbered as it occurs: contents and     *)
(* time stamps decide nothing.  Handlers run one at a time on the ZBOSS    *)
(* scheduler.  The program is modelled as the sample builds it: neither    *)
(* IZS_WWAH nor ZB_SAMPLES_USE_REJOIN_BACKOFF is defined, and a sensor     *)
(* whose CIE address is written asks to be enrolled                        *)
(* (IZS_DEFAULT_ENROLLMENT_METHOD is AUTO_ENROLL_REQUEST).                 *)
(***************************************************************************)
EXTENDS Integers, SequencesExt

CONSTANTS
    QueueSize,   \* IZS_IAS_ZONE_QUEUE_SIZE
    MaxCount,    \* IZS_RETRY_BACKOFF_MAX_COUNT
    MaxEvents,   \* bound on the changes of status
    MaxResets,   \* bound on the resets to factory defaults
    MaxCalls,    \* bound on the callbacks scheduled at a time
    Refusals     \* TRUE: zb_zcl_ias_zone_set_status may decline to send an event

ASSUME IzsNotifyAssumption ==
    /\ QueueSize \in Nat /\ QueueSize >= 2
    /\ MaxCount \in Nat \ {0}
    /\ MaxEvents \in Nat /\ MaxResets \in Nat /\ MaxCalls \in Nat
    /\ Refusals \in BOOLEAN

VARIABLES
    ntf,        \* the sender: queue, busy (notification_in_progress), retries
                \* (retry_backoff_cnt), buf (what notification_buf holds), asked
                \* (enroll_req_generated), air (packets the stack is sending), calls
                \* (scheduled callbacks) and, for the properties, dropped (events given up)
    retryAlarms, \* alarms of izs_resend_notification
    enrolled,   \* zone_state
    cie,        \* cie_short_addr and cie_ep are known
    guarding,   \* check_in_started
    events,     \* events so far
    resets,     \* resets so far
    heard,      \* outside: the event the CIE received last
    acked,      \* the events it acknowledged
    hit         \* a reset struck while the notification was on its way

zoneVars == <<ntf, retryAlarms, enrolled, cie, guarding, events, resets, heard, acked, hit>>

Queue == ntf.queue
ZoneCalls == {"resend", "guard", "enroll"}

-----------------------------------------------------------------------------
(* The queue.                                                              *)

\* izs_ias_zone_queue_put: a full queue loses its newest event to the new one.
QueuePutMut1(q, e) == Append(q, e)
QueuePutMut2(q, e) == IF Len(q) < QueueSize THEN Append(q, e) ELSE q
QueuePutMut3(q, e) == IF Len(q) < QueueSize THEN Append(q, e) ELSE [q EXCEPT ![1] = e]
QueuePut(q, e) == IF Len(q) < QueueSize THEN Append(q, e) ELSE [q EXCEPT ![Len(q)] = e]
Overwritten(q) == IF Len(q) < QueueSize THEN {} ELSE {q[Len(q)]}

\* izs_ias_zone_release_element_from_queue
Release(q) == IF q = <<>> THEN q ELSE Tail(q)

-----------------------------------------------------------------------------
(* izs_send_notification: the states it may leave when it is called in s.  *)

Refused(q) == IF Refusals THEN 0 .. Len(q) ELSE {0}

\* The oldest event that is not refused is sent; those before it are released.
Transmit(s, k) ==
    LET q == SubSeq(s.queue, k + 1, Len(s.queue))
        t == [s EXCEPT !.queue = q, !.dropped = @ \cup {s.queue[j] : j \in 1 .. k}]
    IN  IF q = <<>> THEN t
        ELSE [t EXCEPT !.busy = TRUE, !.retries = 0, !.buf = Head(q), !.air = Append(@, Head(q))]

Send(s) ==
    IF ~ enrolled
    THEN IF cie /\ ~ s.asked
         THEN {[s EXCEPT !.asked = TRUE, !.calls = Append(@, "enroll")]} ELSE {s}
    ELSE IF s.busy \/ ~ cie THEN {s}
    ELSE {Transmit(s, k) : k \in Refused(s.queue)}

-----------------------------------------------------------------------------
(* The sensor, the retry alarm and the scheduled callbacks.                *)

\* izs_update_ias_zone_status, izs_check_battery_defect
StatusChange ==
    /\ events < MaxEvents /\ Len(ntf.calls) < MaxCalls
    /\ events' = events + 1
    /\ ntf' \in Send([ntf EXCEPT !.queue = QueuePut(@, events + 1),
                                 !.dropped = @ \cup Overwritten(Queue)])
    /\ UNCHANGED <<retryAlarms, enrolled, cie, guarding, resets, heard, acked, hit>>

\* izs_resend_notification: the packet of the buffer, if the queue holds an event.
Resend(s) == IF s.queue = <<>> THEN s ELSE [s EXCEPT !.air = Append(@, s.buf)]

ResendAlarm ==
    /\ retryAlarms > 0
    /\ retryAlarms' = retryAlarms - 1
    /\ ntf' = Resend(ntf)
    /\ UNCHANGED <<enrolled, cie, guarding, events, resets, heard, acked, hit>>

IsNext(f) == ntf.calls # <<>> /\ Head(ntf.calls) = f
Called == [ntf EXCEPT !.calls = Tail(@)]

ResendCall ==
    /\ IsNext("resend")
    /\ ntf' = Resend(Called)
    /\ UNCHANGED <<retryAlarms, enrolled, cie, guarding, events, resets, heard, acked, hit>>

\* izs_go_on_guard
GoOnGuardMut(s) == IF guarding THEN {s} ELSE Send(s)
GoOnGuard(s) == Send(s)

GuardCall ==
    /\ IsNext("guard")
    /\ guarding' = TRUE
    /\ ntf' \in GoOnGuard(Called)
    /\ UNCHANGED <<retryAlarms, enrolled, cie, events, resets, heard, acked, hit>>

\* izs_send_enroll_req: the CIE answers or does not.
EnrollCall ==
    /\ IsNext("enroll")
    /\ ntf' = Called
    /\ UNCHANGED <<retryAlarms, enrolled, cie, guarding, events, resets, heard, acked, hit>>

-----------------------------------------------------------------------------
(* izs_ias_zone_notification_cb: the end of a transmission.                *)

\* The packet was acknowledged: the oldest event is released, the next is sent.
Released(s) == [s EXCEPT !.busy = FALSE, !.retries = 0, !.queue = Release(@)]

Sent(i) ==
    /\ i \in 1 .. Len(ntf.air)
    /\ heard' = ntf.air[i]
    /\ acked' = acked \cup {ntf.air[i]}
    /\ ntf' \in Send(Released([ntf EXCEPT !.air = RemoveAt(@, i)]))
    /\ UNCHANGED <<retryAlarms, enrolled, cie, guarding, events, resets, hit>>

\* It was not, and the CIE may have received it all the same: izs_retry_backoff
\* sets the alarm.
RetryTimerMut(s) == IF s.busy /\ s.retries < MaxCount THEN 1 ELSE 0
RetryTimer(s) == IF s.busy THEN 1 ELSE 0
Retries(s) == IF ~ s.busy THEN s.retries ELSE IF s.retries < MaxCount THEN s.retries + 1 ELSE MaxCount

NotSent(i) ==
    /\ i \in 1 .. Len(ntf.air)
    /\ heard' \in {heard, ntf.air[i]}
    /\ retryAlarms' = retryAlarms + RetryTimer(ntf)
    /\ ntf' = [ntf EXCEPT !.air = RemoveAt(@, i), !.retries = Retries(ntf)]
    /\ UNCHANGED <<enrolled, cie, guarding, events, resets, acked, hit>>

-----------------------------------------------------------------------------
(* Signals and commands from the network.                                  *)

\* zboss_signal_handler: the device (re)joined and is enrolled.  A retry that
\* waits is made at once; else the queue is looked at, and again by
\* izs_go_on_guard when check-in has not started.
Cancel(n) == IF n > 0 THEN n - 1 ELSE n     \* ZB_SCHEDULE_APP_ALARM_CANCEL, one alarm
CancelledMut == ntf.retries > 0
Cancelled == ntf.retries > 0 /\ retryAlarms > 0

Rejoined ==
    LET s == IF Cancelled THEN [ntf EXCEPT !.calls = Append(@, "resend")] ELSE ntf
    IN  /\ enrolled /\ Len(ntf.calls) < MaxCalls
        /\ retryAlarms' = IF ntf.retries > 0 THEN Cancel(retryAlarms) ELSE retryAlarms
        /\ guarding' = TRUE
        /\ ntf' \in IF ntf.retries > 0 /\ guarding THEN {s} ELSE Send(s)
        /\ UNCHANGED <<enrolled, cie, events, resets, heard, acked, hit>>

\* izs_zcl_cmd_handler: the CIE address is written, and a sensor of mode
\* AUTO_ENROLL_REQUEST, the default of the sample, asks to be enrolled ...
WriteCieAddress ==
    /\ Len(ntf.calls) < MaxCalls
    /\ cie' = TRUE
    /\ ntf' = [ntf EXCEPT !.asked = TRUE, !.calls = Append(@, "enroll")]
    /\ UNCHANGED <<retryAlarms, enrolled, guarding, events, resets, heard, acked, hit>>

\* ... the zone is enrolled ...
EnrollResponse ==
    /\ Len(ntf.calls) < MaxCalls
    /\ enrolled' = TRUE /\ cie' = TRUE
    /\ ntf' = [ntf EXCEPT !.calls = Append(@, "guard")]
    /\ UNCHANGED <<retryAlarms, guarding, events, resets, heard, acked, hit>>

\* ... the check-in interval is written, zero or not.
CheckInOff ==
    /\ guarding' = FALSE
    /\ UNCHANGED <<ntf, retryAlarms, enrolled, cie, events, resets, heard, acked, hit>>

CheckInOn ==
    /\ ~ guarding /\ Len(ntf.calls) < MaxCalls
    /\ ntf' = [ntf EXCEPT !.calls = Append(@, "guard")]
    /\ UNCHANGED <<retryAlarms, enrolled, cie, guarding, events, resets, heard, acked, hit>>

\* izs_basic_reset_to_defaults, on a command or when the device leaves.  One
\* alarm is cancelled; packets and callbacks on their way are not.
Resends(c) == Cardinality({j \in 1 .. Len(c) : c[j] = "resend"})
Pending(s, t) == Len(s.air) + t + Resends(s.calls)
OnItsWay == Pending(ntf, retryAlarms)

BasicReset ==
    /\ resets < MaxResets
    /\ resets' = resets + 1
    /\ ntf' = [ntf EXCEPT !.queue = <<>>, !.busy = FALSE, !.retries = 0, !.asked = FALSE,
                          !.dropped = @ \cup Range(Queue)]
    /\ retryAlarms' = Cancel(retryAlarms)
    /\ enrolled' = FALSE /\ cie' = FALSE
    /\ hit' = (hit \/ OnItsWay > (retryAlarms - retryAlarms'))
    /\ UNCHANGED <<guarding, events, heard, acked>>

-----------------------------------------------------------------------------
ZoneInit ==
    /\ ntf = [queue |-> <<>>, busy |-> FALSE, retries |-> 0, buf |-> 0, asked |-> FALSE,
              air |-> <<>>, calls |-> <<>>, dropped |-> {}]
    /\ retryAlarms = 0
    /\ enrolled = FALSE /\ cie = FALSE /\ guarding = FALSE
    /\ events = 0 /\ resets = 0
    /\ heard = 0 /\ acked = {} /\ hit = FALSE

RunCall == ResendCall \/ GuardCall \/ EnrollCall

ZoneNext ==
    \/ StatusChange \/ ResendAlarm \/ RunCall
    \/ \E i \in 1 .. Len(ntf.air) : Sent(i) \/ NotSent(i)
    \/ Rejoined \/ WriteCieAddress \/ EnrollResponse \/ CheckInOff \/ CheckInOn
    \/ BasicReset

ZoneSpec == ZoneInit /\ [][ZoneNext]_zoneVars

\* The scheduler runs every callback and every alarm, the stack ends every
\* transmission, and one that is repeated for ever is acknowledged some time.
Acknowledged == \E i \in 1 .. Len(ntf.air) : Sent(i)
Ended == \E i \in 1 .. Len(ntf.air) : Sent(i) \/ NotSent(i)

ZoneFairness ==
    /\ WF_zoneVars(RunCall) /\ WF_zoneVars(ResendAlarm) /\ WF_zoneVars(Ended)
    /\ SF_zoneVars(Acknowledged)

ZoneFairSpec == ZoneSpec /\ ZoneFairness

-----------------------------------------------------------------------------
(* Properties.                                                             *)

Events == 1 .. MaxEvents

\* Every variable keeps its type: the queue never holds more than its size,
\* whatever arrives while the CIE is silent.
ZoneTypeOK ==
    /\ ntf \in [queue : Seq(Events), busy : BOOLEAN, retries : 0 .. MaxCount,
                buf : Events \cup {0}, asked : BOOLEAN, air : Seq(Events \cup {0}),
                calls : Seq(ZoneCalls), dropped : SUBSET Events]
    /\ Len(Queue) <= QueueSize /\ Len(ntf.calls) <= MaxCalls
    /\ retryAlarms \in Nat
    /\ enrolled \in BOOLEAN /\ cie \in BOOLEAN /\ guarding \in BOOLEAN
    /\ events \in 0 .. MaxEvents /\ resets \in 0 .. MaxResets
    /\ heard \in 0 .. MaxEvents /\ acked \subseteq 0 .. MaxEvents /\ hit \in BOOLEAN

\* The sender never falls asleep: while a notification is in progress a packet,
\* a retry alarm or a retry callback is on its way and its event still queued;
\* and an enrolled sensor whose queue holds something is sending, or about to.
SenderAwake ==
    /\ ntf.busy => Queue # <<>> /\ OnItsWay > 0
    /\ enrolled /\ Queue # <<>> => ntf.busy \/ "guard" \in Range(ntf.calls)

\* The notification buffer is in one place at a time: being sent, waiting for a
\* retry alarm, or in a scheduled retry; and it holds the oldest event.
OneOwner ==
    ~ hit => /\ OnItsWay = IF ntf.busy THEN 1 ELSE 0
             /\ ntf.busy => ntf.buf = Head(Queue) /\ Range(ntf.air) \subseteq {Head(Queue)}

\* An event leaves the queue when the CIE acknowledged it, when a newer one took
\* its place in a full queue, when the stack declined it or by a reset
\* (izs_device_utils.c:82: "Queue item will be released when command is
\* successfully sent").
NothingLost == \A e \in 1 .. events : e \in acked \cup ntf.dropped \cup Range(Queue)

\* The same, unless a reset struck while the notification was on its way.
LostOnlyByReset == ~ hit => NothingLost

\* When nothing is left to send, the event the CIE received last is the newest.
NewestArrives == ~ hit /\ Queue = <<>> => heard = events \/ events \in ntf.dropped

\* A sensor that stays enrolled empties its queue again and again, whatever
\* its packets, rejoins and retries do.
Drains == <>[]enrolled => []<>(Queue = <<>>)
=============================================================================

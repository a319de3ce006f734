------------------------------- MODULE Light -------------------------------
(***************************************************************************)
(* The light control, samples/light_control/src/light_control.c, as its    *)
(* header builds it: without buttons, searching a bulb when it has started *)
(* (LIGHT_CONTROL_START_SEARCH_LIGHT), then sending On and Off in turn.    *)
(*                                                                         *)
(* A search broadcasts a match descriptor request, asks the bulb that      *)
(* answers for its IEEE address, binds On/Off and Level Control to it,     *)
(* saves it in NVRAM and starts the alarm that sends the commands.         *)
(* Alarms, requests for a buffer, callbacks and answers that wait in the   *)
(* stack are counted; the endpoint and the On/Off state are left out.      *)
(***************************************************************************)
EXTENDS Integers

CONSTANTS
    Bulbs,       \* the devices with an On/Off or a Level Control server
    NoBulb,      \* the zero address
    FailureCnt,  \* BULB_ON_OFF_FAILURE_CNT
    Depth,       \* bound of every counter of waiting things
    Worlds       \* the worlds to look at: the bulbs that hear a broadcast, and
                 \* what may go wrong, see Mishaps

Mishaps == {"joinfail",  \* the start or the steering fails
            "lost",      \* a request of the search is not answered or fails
            "late",      \* an answer comes after the alarm that waits for it
            "cmdfail",   \* a command fails
            "leave",     \* the device is told to leave the network
            "power"}     \* the device restarts

ASSUME LightAssumption ==
    /\ NoBulb \notin Bulbs
    /\ FailureCnt \in Nat \ {0} /\ Depth \in Nat \ {0}
    /\ Worlds \subseteq [near : SUBSET Bulbs, happens : SUBSET Mishaps]

VARIABLES
    net,       \* "out", or "in" the network
    joining,   \* the commissioning under way: "start", "steering" or "none"
    bulb,      \* g_device_ctx.bulb_params
    saved,     \* the copy of it in NVRAM
    timers,    \* alarms
    waits,     \* zb_buf_get_out_delayed: handlers that wait for a buffer
    todo,      \* callbacks
    asked,     \* ZDO requests that wait for an answer
    sent,      \* commands that wait for their status
    failures,  \* bulb_on_off_failure_cnt
    world      \* the world the device is in

lightVars == <<net, joining, bulb, saved, timers, waits, todo, asked, sent, failures, world>>

Nobody == [short |-> NoBulb, ieee |-> NoBulb]
Handlers == {"find", "giveUp", "onOff", "leave"}
Callbacks == {"ieee", "bind"}
None(S) == [h \in S |-> 0]

Asks(k, b) == [kind |-> k, of |-> b]

More(f, h) == f[h] < Depth /\ f' = [f EXCEPT ![h] = @ + 1]
Less(f, h) == [f EXCEPT ![h] = @ - 1]

(* ZB_SCHEDULE_APP_ALARM_CANCEL with ZB_ALARM_ANY_PARAM: one alarm.        *)
CancelOne(f, h) == [f EXCEPT ![h] = IF @ > 0 THEN @ - 1 ELSE @]

-----------------------------------------------------------------------------
(* zboss_signal_handler.                                                   *)

(* ZB_ZDO_SIGNAL_DEFAULT_START, ZB_BDB_SIGNAL_DEVICE_FIRST_START and       *)
(* ZB_BDB_SIGNAL_DEVICE_REBOOT: drive the bulb or search one.              *)
Started ==
    /\ joining = "start"
    /\ net' = "in" /\ joining' = "none"
    /\ LET t == CancelOne(timers, "onOff")
       IN  timers' = IF bulb.ieee = NoBulb
                     THEN [t EXCEPT !.find = @ + 1, !.giveUp = @ + 1]
                     ELSE [t EXCEPT !.onOff = @ + 1]
    /\ UNCHANGED <<bulb, saved, waits, todo, asked, sent, failures, world>>

(* ZB_BDB_SIGNAL_STEERING is an unknown signal.                            *)
Steered ==
    /\ joining = "steering"
    /\ net' = "in" /\ joining' = "none"
    /\ UNCHANGED <<bulb, saved, timers, waits, todo, asked, sent, failures, world>>

(* Either of them with an error; ZB_JOINED() may hold all the same.        *)
JoinFails ==
    /\ "joinfail" \in world.happens /\ joining # "none"
    /\ joining' = "none" /\ net' \in {"in", "out"}
    /\ More(timers, "leave")
    /\ UNCHANGED <<bulb, saved, waits, todo, asked, sent, failures, world>>

(* ZB_ZDO_SIGNAL_LEAVE: of a leave the device asked for, or of its parent. *)
Left ==
    /\ net = "in"
    /\ Asks("leave", NoBulb) \in asked \/ "leave" \in world.happens
    /\ net' = "out" /\ joining' = "steering"
    /\ asked' = asked \ {Asks("leave", NoBulb)}
    /\ UNCHANGED <<bulb, saved, timers, waits, todo, sent, failures, world>>

-----------------------------------------------------------------------------
(* The search.                                                             *)

(* find_light_bulb; outside the network the request fails.                 *)
FindLightBulb ==
    /\ timers.find > 0
    /\ timers' = Less(timers, "find")
    /\ asked' = IF net = "out" THEN asked ELSE asked \cup {Asks("match", b) : b \in world.near}
    /\ UNCHANGED <<net, joining, bulb, saved, waits, todo, sent, failures, world>>

(* find_light_bulb_cb, once for every bulb that answers.                   *)
AnsweredTimersMut == timers
AnsweredTimers == CancelOne(timers, "giveUp")

FindLightBulbCb(b) ==
    /\ Asks("match", b) \in asked
    /\ asked' = asked \ {Asks("match", b)}
    /\ bulb' = [bulb EXCEPT !.short = b]
    /\ timers' = AnsweredTimers
    /\ More(todo, "ieee")
    /\ UNCHANGED <<net, joining, saved, waits, sent, failures, world>>

(* find_light_bulb_alarm: first for a buffer, then the search once more.   *)
InTime(k) == "late" \in world.happens \/ \A b \in Bulbs : Asks(k, b) \notin asked

FindLightBulbAlarm ==
    /\ timers.giveUp > 0 /\ timers.find = 0 /\ InTime("match")
    /\ timers' = Less(timers, "giveUp")
    /\ More(waits, "giveUp")
    /\ UNCHANGED <<net, joining, bulb, saved, todo, asked, sent, failures, world>>

FindAgain ==
    /\ waits.giveUp > 0
    /\ waits' = Less(waits, "giveUp")
    /\ More(timers, "find")
    /\ UNCHANGED <<net, joining, bulb, saved, todo, asked, sent, failures, world>>

(* bulb_ieee_addr_req                                                      *)
BulbIeeeAddrReq ==
    /\ todo.ieee > 0
    /\ todo' = Less(todo, "ieee")
    /\ asked' = asked \cup {Asks("ieee", bulb.short)}
    /\ UNCHANGED <<net, joining, bulb, saved, timers, waits, sent, failures, world>>

(* bulb_ieee_addr_req_cb                                                   *)
BulbIeeeAddrReqCb(b) ==
    /\ Asks("ieee", b) \in asked
    /\ asked' = asked \ {Asks("ieee", b)}
    /\ bulb' = [bulb EXCEPT !.ieee = b]
    /\ More(todo, "bind")
    /\ UNCHANGED <<net, joining, saved, timers, waits, sent, failures, world>>

(* light_control_bind_bulb, bind_on_off_cluster: the status of the first   *)
(* binding is not looked at by bind_level_control_cluster, its callback.   *)
BindBulb ==
    /\ todo.bind > 0
    /\ todo' = Less(todo, "bind")
    /\ asked' = asked \cup {Asks("bind", bulb.ieee)}
    /\ UNCHANGED <<net, joining, bulb, saved, timers, waits, sent, failures, world>>

BindLevelControl(b) ==
    /\ Asks("bind", b) \in asked
    /\ asked' = (asked \ {Asks("bind", b)}) \cup {Asks("level", bulb.ieee)}
    /\ UNCHANGED <<net, joining, bulb, saved, timers, waits, todo, sent, failures, world>>

(* bulb_binding_completed                                                  *)
ChainStartsMut == UNCHANGED timers
ChainStarts == More(timers, "onOff")

BindingCompleted(b) ==
    /\ Asks("level", b) \in asked
    /\ asked' = asked \ {Asks("level", b)}
    /\ saved' = bulb
    /\ ChainStarts
    /\ UNCHANGED <<net, joining, bulb, waits, todo, sent, failures, world>>

(* light_control_leave_and_join, with and without a buffer.                *)
LeaveAndJoin ==
    /\ timers.leave > 0
    /\ timers' = Less(timers, "leave")
    /\ IF net = "in"
       THEN More(waits, "leave") /\ UNCHANGED joining
       ELSE joining' = "steering" /\ UNCHANGED waits
    /\ UNCHANGED <<net, bulb, saved, todo, asked, sent, failures, world>>

(* light_control_leave_nwk                                                 *)
LeaveNwk ==
    /\ waits.leave > 0
    /\ waits' = Less(waits, "leave")
    /\ asked' = asked \cup {Asks("leave", NoBulb)}
    /\ UNCHANGED <<net, joining, bulb, saved, timers, todo, sent, failures, world>>

(* A request that fails: only a missing IEEE address has a consequence.    *)
Lost(r) ==
    /\ "lost" \in world.happens /\ r \in asked /\ r.kind \in {"match", "ieee", "level"}
    /\ IF r.kind # "ieee"
       THEN asked' = asked \ {r} /\ UNCHANGED joining
       ELSE IF net = "in"
       THEN asked' = (asked \ {r}) \cup {Asks("leave", NoBulb)} /\ UNCHANGED joining
       ELSE asked' = asked \ {r} /\ joining' = "steering"
    /\ UNCHANGED <<net, bulb, saved, timers, waits, todo, sent, failures, world>>

-----------------------------------------------------------------------------
(* The commands.                                                           *)

(* light_control_send_on_off_alarm_delayed: the status of the last command *)
(* comes before the 15 s of the alarm are over.                            *)
OnOffAlarmDelayed ==
    /\ timers.onOff > 0 /\ ("late" \in world.happens \/ sent = 0)
    /\ timers' = Less(timers, "onOff")
    /\ More(waits, "onOff")
    /\ UNCHANGED <<net, joining, bulb, saved, todo, asked, sent, failures, world>>

(* light_control_send_on_off_alarm                                         *)
OnOffAlarm ==
    /\ waits.onOff > 0 /\ sent < Depth
    /\ waits' = Less(waits, "onOff")
    /\ More(timers, "onOff")
    /\ sent' = sent + 1
    /\ UNCHANGED <<net, joining, bulb, saved, todo, asked, failures, world>>

(* light_control_send_on_off_cb; the count is kept up to FailureCnt + 1,   *)
(* as only FailureCnt itself has a consequence.                            *)
OnOffCb ==
    /\ sent > 0
    /\ sent' = sent - 1
    /\ failures' = 0
    /\ UNCHANGED <<net, joining, bulb, saved, timers, waits, todo, asked, world>>

TooManyMut(n) == n = FailureCnt + 1
TooMany(n) == n = FailureCnt

OnOffFails ==
    /\ "cmdfail" \in world.happens /\ sent > 0
    /\ sent' = sent - 1
    /\ failures' = IF failures > FailureCnt THEN failures ELSE failures + 1
    /\ timers' = IF TooMany(failures + 1) THEN CancelOne(timers, "onOff") ELSE timers
    /\ UNCHANGED <<net, joining, bulb, saved, waits, todo, asked, world>>

-----------------------------------------------------------------------------
(* The device is switched off and on: light_control_app_ctx_init,          *)
(* light_control_nvram_read_app_data.                                      *)
Boot(b) ==
    /\ net' = "out" /\ joining' = "start"
    /\ bulb' = b
    /\ timers' = None(Handlers) /\ waits' = None(Handlers) /\ todo' = None(Callbacks)
    /\ asked' = {} /\ sent' = 0 /\ failures' = 0

PowerCycle ==
    /\ "power" \in world.happens
    /\ Boot(saved)
    /\ UNCHANGED <<saved, world>>

LightInit ==
    /\ net = "out" /\ joining = "start"
    /\ bulb = Nobody /\ saved = Nobody
    /\ timers = None(Handlers) /\ waits = None(Handlers) /\ todo = None(Callbacks)
    /\ asked = {} /\ sent = 0 /\ failures = 0
    /\ world \in Worlds

LightNext ==
    \/ Started \/ Steered \/ JoinFails \/ Left
    \/ FindLightBulb \/ FindLightBulbAlarm \/ FindAgain
    \/ \E b \in Bulbs : FindLightBulbCb(b) \/ BulbIeeeAddrReqCb(b)
    \/ BulbIeeeAddrReq \/ BindBulb
    \/ \E b \in Bulbs : BindLevelControl(b) \/ BindingCompleted(b)
    \/ LeaveAndJoin \/ LeaveNwk
    \/ \E r \in asked : Lost(r)
    \/ OnOffAlarmDelayed \/ OnOffAlarm \/ OnOffCb \/ OnOffFails
    \/ PowerCycle

LightSpec == LightInit /\ [][LightNext]_lightVars

-----------------------------------------------------------------------------
(* Properties.                                                             *)

(* Every variable keeps its type.                                          *)
LightTypeOK ==
    /\ net \in {"in", "out"} /\ joining \in {"start", "steering", "none"}
    /\ bulb \in [short : Bulbs \cup {NoBulb}, ieee : Bulbs \cup {NoBulb}]
    /\ saved \in [short : Bulbs \cup {NoBulb}, ieee : Bulbs \cup {NoBulb}]
    /\ timers \in [Handlers -> 0 .. Depth] /\ waits \in [Handlers -> 0 .. Depth]
    /\ todo \in [Callbacks -> 0 .. Depth]
    /\ asked \subseteq [kind : {"match", "ieee", "bind", "level", "leave"}, of : Bulbs \cup {NoBulb}]
    /\ world \in Worlds
    /\ sent \in 0 .. Depth /\ failures \in 0 .. (FailureCnt + 1)

Driving == timers.onOff + waits.onOff
Searching ==
    \/ timers.find > 0 \/ timers.giveUp > 0 \/ waits.giveUp > 0
    \/ \E h \in Callbacks : todo[h] > 0
    \/ asked # {}

(* A light control that is in the network is searching a bulb, driving the *)
(* one it has, on its way out, or has given up after too many failures.    *)
HasNextStep ==
    net = "in" /\ joining = "none" =>
        \/ Searching \/ Driving > 0
        \/ timers.leave > 0 \/ waits.leave > 0
        \/ failures >= FailureCnt

(* What the code counts on: one bulb answers                               *)
(* ("we are searching for exact cluster, so only 1 EP maybe found"), and   *)
(* no answer is lost or comes after the alarm that waits for it.           *)
OneAnswer == (\E b \in Bulbs : world.near = {b}) /\ "late" \notin world.happens
Answered == OneAnswer /\ "lost" \notin world.happens

(* Every handler of the search passes it on: a device that joins at its    *)
(* first attempt is never left without a next step, whatever its commands  *)
(* come to and whenever it restarts.                                       *)
SearchGoesOn == Answered /\ world.happens \cap {"joinfail", "leave"} = {} => HasNextStep

(* ... and so is one that joins at a later attempt (readme.txt, "Light     *)
(* Control joins the ZC/ZR and searches any device with On/Off or Level    *)
(* Control cluster.").                                                     *)
JoinedSearches == Answered => HasNextStep

(* The alarm that sends the commands reschedules itself: whatever starts   *)
(* and restarts it, there is one of it, so that On and Off keep their      *)
(* distance of BULB_ON_OFF_TIMEOUT.                                        *)
OneChain == OneAnswer => Driving <= 1

(* After BULB_ON_OFF_FAILURE_CNT failures in a row no command is sent any  *)
(* more ("Stop on too many cmd failures.", line 548).                      *)
StopsOnFailures == OneAnswer /\ failures >= FailureCnt => Driving = 0 /\ sent = 0
=============================================================================

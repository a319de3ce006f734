------------------------------ MODULE SimpleGw ------------------------------
(***************************************************************************)
(* The gateway sample, samples/simple_gw/src/simple_gw.c with its IAS Zone *)
(* addition ias_cie_addon.c: a coordinator that keeps a table of the       *)
(* devices that joined, commissions each of them by a chain of requests    *)
(* (match descriptor, IEEE address, bind, configure reporting), sends the  *)
(* commissioned ones On/Off Toggle commands for ever, and stores the table *)
(* in NVRAM.                                                               *)
(*                                                                         *)
(* Everything runs on the ZBOSS scheduler, one callback at a time: signals *)
(* of the stack, answers to requests, alarms, and callbacks a handler      *)
(* scheduled (calls, first in first out).  An alarm is known by its        *)
(* handler and its parameter, as ZB_SCHEDULE_APP_ALARM_CANCEL knows it;    *)
(* two alarms or requests that do not differ are one.  Time is kept as far *)
(* as it decides: a discovery alarm (5 s) precedes the timeout scheduled   *)
(* with it (30 s).  A buffer asked of the stack is there at once, so       *)
(* find_onoff_device_delayed and find_onoff_device are one step, and so    *)
(* are the other pairs.  g_active_cmds and endpoint decide nothing and are *)
(* left out.                                                               *)
(*                                                                         *)
(* The devices and the network are outside: a device is named by its short *)
(* address, which it keeps, and its IEEE address is the same name.         *)
(***************************************************************************)
EXTENDS Integers, Sequences, FiniteSets

CONSTANTS
    DevNumber,   \* SIMPLE_GW_DEV_NUMBER
    Devices,     \* the devices that may join
    OnOffDevs,   \* those with an On/Off server
    IasDevs,     \* those with an IAS Zone server
    Zero,        \* 0x0000: the coordinator's own address, and that of a zeroed slot
    Problems,    \* SIMPLE_GW_COMMUNICATION_PROBLEMS_TIMEOUT
    MaxCalls,    \* bound on the callbacks scheduled at a time
    Env          \* what may happen beyond devices joining one after the other, see Habits

Habits == {"overlap",  \* a device joins while another is being commissioned
           "fail",     \* a request is refused or not answered
           "late",     \* a match descriptor request outlives the timeout of its discovery
           "leave",    \* devices leave the network on their own
           "again",    \* a joined device announces itself again
           "reboot",   \* the gateway restarts
           "toggle"}   \* toggle_bulbs runs

ASSUME SimpleGwAssumption ==
    /\ DevNumber \in Nat \ {0}
    /\ OnOffDevs \subseteq Devices /\ IasDevs \subseteq Devices
    /\ Zero \notin Devices
    /\ Problems \in Nat
    /\ MaxCalls \in Nat
    /\ Env \subseteq Habits

VARIABLES
    dev,      \* g_device_ctx.devices
    nv,       \* the table ZB_NVRAM_APP_DATA1 holds
    alarms,   \* scheduled alarms: a handler and its device index
    calls,    \* scheduled callbacks, in their order
    reqs,     \* requests sent and not yet answered: a kind and a destination
    net,      \* outside: the devices in the network
    bound,    \* outside: those that accepted the binding since they joined
    conf,     \* outside: those that accepted the reporting configuration
    since     \* runs of toggle_bulbs since it scheduled a toggle for a slot, whoever
              \* has the slot, 0 before the first: for the properties, counted up to
              \* DevNumber + 1

vars == <<dev, nv, alarms, calls, reqs, net, bound, conf, since>>

Slots == 0 .. (DevNumber - 1)
Invalid == DevNumber     \* SIMPLE_GW_INVALID_DEV_INDEX

Discovery == {"MATCH_DESC_DISCOVERY", "IEEE_ADDR_DISCOVERY", "CONFIGURE_BINDING",
              "CONFIGURE_REPORTING", "WRITE_CIE_ADDR"}
States == Discovery \cup {"NO_DEVICE", "COMPLETED", "COMPLETED_NO_TOGGLE"}
Timers == {"onoff", "onoffTmo", "ias", "iasTmo", "toggle", "tick"}
Steps == {"ieee", "bind", "report", "cie", "remove"}
Kinds == {"match", "iasMatch", "ieee", "bind", "report", "toggle", "leave"}

Empty == [state |-> "NO_DEVICE", short |-> Zero, ieee |-> Zero, pending |-> 0]

\* simple_gw_get_dev_index_by_*: the first slot of a set, or no slot.
First(S) == IF S = {} THEN Invalid ELSE CHOOSE i \in S : \A j \in S : i <= j
ByState(s) == First({i \in Slots : dev[i].state = s})
ByShort(a) == First({i \in Slots : dev[i].short = a})
ByIeee(a) == First({i \in Slots : dev[i].ieee = a})

Request(k, a) == [kind |-> k, dst |-> a]
Alarm(f, i) == [fn |-> f, idx |-> i]
Alarms(F, i) == {Alarm(f, i) : f \in F}
Tick == Alarm("tick", 0)     \* toggle_bulbs
Call(f, i) == Append(calls, Alarm(f, i))

\* The table as it is written.  A counter is set again when the table is
\* read, or before it is next looked at, so it is not kept.
Saved(t) == [i \in Slots |-> [t[i] EXCEPT !.pending = 0]]

-----------------------------------------------------------------------------
(* A device joins or comes back.                                           *)

\* Nothing of a commissioning is under way.
Quiet ==
    /\ calls = <<>>
    /\ \A r \in reqs : r.kind = "toggle"
    /\ \A t \in alarms : t.fn \in {"toggle", "tick"}

\* simple_gw_dev_annce_cb and simple_gw_associate_cb: an address no slot has
\* takes the first free slot.  Addresses of departed devices count as known.
KnownMut(a) == \E i \in Slots : dev[i].short = a /\ dev[i].state \notin {"NO_DEVICE", "COMPLETED"}
Known(a) == ByShort(a) # Invalid

Adopt(a) ==
    LET i == ByState("NO_DEVICE")
    IN  IF ~ Known(a) /\ i # Invalid
        THEN /\ dev' = [dev EXCEPT ![i].short = a, ![i].state = "MATCH_DESC_DISCOVERY"]
             /\ alarms' = alarms \cup Alarms({"onoff", "onoffTmo"}, i)
        ELSE UNCHANGED <<dev, alarms>>

Announce(a) ==
    /\ a \notin net \/ "again" \in Env
    /\ "overlap" \in Env \/ Quiet
    /\ net' = net \cup {a}
    /\ Adopt(a)
    /\ UNCHANGED <<nv, calls, reqs, bound, conf, since>>

-----------------------------------------------------------------------------
(* Alarms.                                                                 *)

Expire(f, i) == Alarm(f, i) \in alarms

\* find_onoff_device_delayed, find_onoff_device
FindOnoffDevice(i) ==
    /\ Expire("onoff", i)
    /\ alarms' = alarms \ {Alarm("onoff", i)}
    /\ reqs' = reqs \cup {Request("match", dev[i].short)}
    /\ UNCHANGED <<dev, nv, calls, net, bound, conf, since>>

\* find_ias_zone_device_delayed, find_ias_zone_device
FindIasZoneDevice(i) ==
    /\ Expire("ias", i)
    /\ alarms' = alarms \ {Alarm("ias", i)}
    /\ reqs' = reqs \cup {Request("iasMatch", dev[i].short)}
    /\ UNCHANGED <<dev, nv, calls, net, bound, conf, since>>

\* The stack gives a request up well before the 30 s of a timeout.
Over(k, i) == "late" \in Env \/ Request(k, dev[i].short) \notin reqs

Schedule(f, i) == Len(calls) < MaxCalls /\ calls' = Call(f, i)

\* find_onoff_device_tmo
FindOnoffDeviceTmo(i) ==
    /\ Expire("onoffTmo", i) /\ ~ Expire("onoff", i) /\ Over("match", i)
    /\ alarms' = alarms \ {Alarm("onoffTmo", i)}
    /\ IF dev[i].state \in {"NO_DEVICE", "COMPLETED"}
       THEN UNCHANGED calls ELSE Schedule("remove", i)
    /\ UNCHANGED <<dev, nv, reqs, net, bound, conf, since>>

\* find_ias_zone_device_tmo
FindIasZoneDeviceTmo(i) ==
    /\ Expire("iasTmo", i) /\ ~ Expire("ias", i) /\ Over("iasMatch", i)
    /\ alarms' = alarms \ {Alarm("iasTmo", i)}
    /\ IF dev[i].state \in {"NO_DEVICE", "COMPLETED_NO_TOGGLE"}
       THEN UNCHANGED calls ELSE Schedule("remove", i)
    /\ UNCHANGED <<dev, nv, reqs, net, bound, conf, since>>

\* send_toggle_req_delayed, send_toggle_req
SendToggleReq(i) ==
    /\ Expire("toggle", i)
    /\ alarms' = alarms \ {Alarm("toggle", i)}
    /\ reqs' = IF dev[i].state = "COMPLETED"
               THEN reqs \cup {Request("toggle", dev[i].short)} ELSE reqs
    /\ UNCHANGED <<dev, nv, calls, net, bound, conf, since>>

\* toggle_bulbs, which counts a slot down, schedules its toggle at 0, and
\* schedules itself again.
ToggleWaitMut(i) == i
ToggleWait(i) == i + 1
TickAgainMut(S) == S
TickAgain(S) == S \cup {Tick}
Toggled == {i \in Slots : dev[i].state = "COMPLETED"}
Due == {i \in Toggled : dev[i].pending = 0}

ToggleBulbs ==
    /\ "toggle" \in Env /\ Tick \in alarms
    /\ dev' = [i \in Slots |->
                 IF i \in Due THEN [dev[i] EXCEPT !.pending = ToggleWait(i)]
                 ELSE IF i \in Toggled THEN [dev[i] EXCEPT !.pending = @ - 1] ELSE dev[i]]
    /\ alarms' = TickAgain(alarms \ {Tick}) \cup {Alarm("toggle", i) : i \in Due}
    /\ since' = [i \in Slots |-> IF i \in Due THEN 1
                                 ELSE IF since[i] \in 1 .. DevNumber THEN since[i] + 1
                                 ELSE since[i]]
    /\ UNCHANGED <<nv, calls, reqs, net, bound, conf>>

-----------------------------------------------------------------------------
(* Callbacks a handler scheduled.                                          *)

IsNext(f, i) == calls # <<>> /\ Head(calls) = Alarm(f, i)

\* device_ieee_addr_req, bind_device, configure_reporting: a request to the
\* address the slot has when the callback runs.
SendStep(f, i) ==
    /\ f \in {"ieee", "bind", "report"} /\ IsNext(f, i)
    /\ calls' = Tail(calls)
    /\ reqs' = reqs \cup {Request(f, dev[i].short)}
    /\ UNCHANGED <<dev, nv, alarms, net, bound, conf, since>>

\* write_cie_addr sends a request whose answer nobody waits for.
WriteCieAddr(i) ==
    /\ IsNext("cie", i)
    /\ calls' = Tail(calls)
    /\ dev' = [dev EXCEPT ![i].state = "COMPLETED_NO_TOGGLE"]
    /\ UNCHANGED <<nv, alarms, reqs, net, bound, conf, since>>

\* simple_gw_remove_device_delayed, simple_gw_leave_device, simple_gw_send_leave_req,
\* simple_gw_remove_device: nobody is told to leave when the stack does not
\* know the address.
RemovedMut(i) == [dev[i] EXCEPT !.state = "NO_DEVICE"]
Removed(i) == Empty

RemoveDevice(i) ==
    /\ IsNext("remove", i)
    /\ calls' = Tail(calls)
    /\ reqs' = IF dev[i].short \in net \cup {Zero}
               THEN reqs \cup {Request("leave", dev[i].short)} ELSE reqs
    /\ alarms' = alarms \ {Alarm("toggle", i)}
    /\ dev' = [dev EXCEPT ![i] = Removed(i)]
    /\ nv' = Saved(dev')
    /\ UNCHANGED <<net, bound, conf, since>>

-----------------------------------------------------------------------------
(* Answers.                                                                *)

\* The stack hands an answer of a to its callback; the coordinator answers
\* a request to itself.
Answer(k, a) ==
    /\ Request(k, a) \in reqs
    /\ a \in net \/ a = Zero
    /\ reqs' = reqs \ {Request(k, a)}

Matches(a) == a \in OnOffDevs     \* resp->match_len # 0

\* find_onoff_device_cb, when the device has an On/Off server ...
MatchFound(a) ==
    LET i == ByShort(a)
    IN  /\ Matches(a) /\ Answer("match", a)
        /\ IF i = Invalid THEN UNCHANGED <<dev, alarms, calls>>
           ELSE /\ alarms' = alarms \ {Alarm("onoffTmo", i)}
                /\ dev' = [dev EXCEPT ![i].state = "IEEE_ADDR_DISCOVERY"]
                /\ Schedule("ieee", i)
        /\ UNCHANGED <<nv, net, bound, conf, since>>

\* ... and when it has none.
IasTimersMut(i) == Alarms({"ias"}, i)
IasTimers(i) == Alarms({"ias", "iasTmo"}, i)

NoMatch(a) ==
    LET i == ByShort(a)
    IN  /\ ~ Matches(a) /\ Answer("match", a)
        /\ alarms' = IF i = Invalid THEN alarms
                     ELSE (alarms \ {Alarm("onoffTmo", i)}) \cup IasTimers(i)
        /\ UNCHANGED <<dev, nv, calls, net, bound, conf, since>>

\* find_ias_zone_device_cb
IasFound(a) ==
    LET i == ByShort(a)
    IN  /\ a \in IasDevs /\ Answer("iasMatch", a)
        /\ IF i = Invalid THEN UNCHANGED <<dev, alarms, calls>>
           ELSE /\ alarms' = alarms \ {Alarm("iasTmo", i)}
                /\ dev' = [dev EXCEPT ![i].state = "WRITE_CIE_ADDR"]
                /\ Schedule("cie", i)
        /\ UNCHANGED <<nv, net, bound, conf, since>>

NoIas(a) ==
    LET i == ByShort(a)
    IN  /\ a \notin IasDevs /\ Answer("iasMatch", a)
        /\ IF i = Invalid THEN UNCHANGED <<dev, alarms>>
           ELSE /\ alarms' = alarms \ {Alarm("iasTmo", i)}
                /\ dev' = [dev EXCEPT ![i].state = "COMPLETED_NO_TOGGLE"]
        /\ UNCHANGED <<nv, calls, net, bound, conf, since>>

\* device_ieee_addr_req_cb
IeeeAnswered(a) ==
    LET i == ByShort(a)
    IN  /\ Answer("ieee", a)
        /\ IF i = Invalid THEN UNCHANGED <<dev, calls>>
           ELSE /\ dev' = [dev EXCEPT ![i].ieee = a, ![i].state = "CONFIGURE_BINDING"]
                /\ Schedule("bind", i)
        /\ UNCHANGED <<nv, alarms, net, bound, conf, since>>

\* bind_device_cb: the answer says nothing of its device, the first slot
\* that waits for one takes it.
BindSlotMut == ByState("CONFIGURE_REPORTING")
BindSlot == ByState("CONFIGURE_BINDING")

BindAnswered(a) ==
    LET i == BindSlot
    IN  /\ Answer("bind", a)
        /\ bound' = bound \cup ({a} \ {Zero})
        /\ IF i = Invalid THEN UNCHANGED <<dev, calls>>
           ELSE /\ dev' = [dev EXCEPT ![i].state = "CONFIGURE_REPORTING"]
                /\ Schedule("report", i)
        /\ UNCHANGED <<nv, alarms, net, conf, since>>

\* configure_reporting_cb, likewise
ReportAnswered(a) ==
    LET i == ByState("CONFIGURE_REPORTING")
    IN  /\ Answer("report", a)
        /\ conf' = conf \cup ({a} \ {Zero})
        /\ IF i = Invalid THEN UNCHANGED <<dev, nv>>
           ELSE LET t == [dev EXCEPT ![i].state = "COMPLETED"]
                IN  /\ nv' = Saved(t)
                    /\ dev' = [t EXCEPT ![i].pending = ToggleWait(i)]
        /\ UNCHANGED <<alarms, calls, net, bound, since>>

\* send_toggle_req_cb
ToggleAnswered(a) ==
    /\ Answer("toggle", a)
    /\ UNCHANGED <<dev, nv, alarms, calls, net, bound, conf, since>>

Fails(k, a) ==
    /\ Request(k, a) \in reqs
    /\ "fail" \in Env \/ a \notin net \cup {Zero}
    /\ reqs' = reqs \ {Request(k, a)}

ToggleFailed(a) ==
    LET i == ByShort(a)
    IN  /\ Fails("toggle", a)
        /\ dev' = IF i = Invalid THEN dev
                  ELSE [dev EXCEPT ![i].pending = Problems + i + 1]
        /\ UNCHANGED <<nv, alarms, calls, net, bound, conf, since>>

\* Any other request that fails: its callback does nothing.
Unanswered(k, a) ==
    /\ k # "toggle" /\ Fails(k, a)
    /\ UNCHANGED <<dev, nv, alarms, calls, net, bound, conf, since>>

-----------------------------------------------------------------------------
(* A device leaves.                                                        *)

\* simple_gw_leave_indication
LeaveIndicationMut(a) ==
    LET i == ByIeee(a)
    IN  /\ UNCHANGED nv
        /\ IF i = Invalid THEN UNCHANGED <<dev, alarms>>
           ELSE /\ alarms' = alarms \ Alarms({"toggle", "onoffTmo"}, i)
                /\ dev' = [dev EXCEPT ![i].state = "NO_DEVICE"]
LeaveIndication(a) ==
    LET i == ByIeee(a)
    IN  IF i = Invalid THEN UNCHANGED <<dev, nv, alarms>>
        ELSE /\ alarms' = alarms \ Alarms({"toggle", "onoffTmo"}, i)
             /\ dev' = [dev EXCEPT ![i].state = "NO_DEVICE"]
             /\ nv' = Saved(dev')

Leaves(a) ==
    /\ net' = net \ {a} /\ bound' = bound \ {a} /\ conf' = conf \ {a}
    /\ LeaveIndication(a)
    /\ UNCHANGED <<calls, since>>

\* On its own ...
Leave(a) ==
    /\ "leave" \in Env /\ a \in net
    /\ Leaves(a)
    /\ UNCHANGED reqs

\* ... or asked to.
LeaveAnswered(a) ==
    /\ a # Zero /\ Answer("leave", a)
    /\ Leaves(a)

-----------------------------------------------------------------------------
(* The gateway restarts: RAM and alarms are lost, the table is read from   *)
(* NVRAM by simple_gw_nvram_read_app_data, and toggle_bulbs is scheduled    *)
(* when the stack signals that it has started.                             *)

Restored(t) ==
    [i \in Slots |-> IF t[i].state = "COMPLETED" THEN [t[i] EXCEPT !.pending = ToggleWait(i)]
                     ELSE t[i]]

Reboot ==
    /\ "reboot" \in Env
    /\ dev' = Restored(nv)
    /\ alarms' = {Tick} /\ calls' = <<>> /\ reqs' = {}
    /\ UNCHANGED <<nv, net, bound, conf, since>>

-----------------------------------------------------------------------------
Init ==
    /\ dev = [i \in Slots |-> Empty] /\ nv = dev
    /\ alarms = {Tick} /\ calls = <<>> /\ reqs = {}
    /\ net = {} /\ bound = {} /\ conf = {}
    /\ since = [i \in Slots |-> 0]

Timer(i) ==
    \/ FindOnoffDevice(i) \/ FindIasZoneDevice(i)
    \/ FindOnoffDeviceTmo(i) \/ FindIasZoneDeviceTmo(i)
    \/ SendToggleReq(i)

RunCall(i) ==
    \/ \E f \in Steps : SendStep(f, i)
    \/ WriteCieAddr(i) \/ RemoveDevice(i)

Answered(a) ==
    \/ MatchFound(a) \/ NoMatch(a) \/ IasFound(a) \/ NoIas(a)
    \/ IeeeAnswered(a) \/ BindAnswered(a) \/ ReportAnswered(a)
    \/ ToggleAnswered(a) \/ LeaveAnswered(a)

Failed(a) == ToggleFailed(a) \/ \E k \in Kinds : Unanswered(k, a)

Next ==
    \/ \E a \in Devices : Announce(a) \/ Leave(a)
    \/ \E i \in Slots : Timer(i) \/ RunCall(i)
    \/ \E a \in Devices \cup {Zero} : Answered(a) \/ Failed(a)
    \/ ToggleBulbs \/ Reboot

Spec == Init /\ [][Next]_vars

\* The scheduler runs every callback, every alarm expires, every request is
\* answered or fails (the stack's timeouts), and toggle_bulbs goes on.
Responds(k, a) ==
    /\ Request(k, a) \in reqs
    /\ Answered(a) \/ Failed(a)
    /\ Request(k, a) \notin reqs'

Fairness ==
    /\ \A i \in Slots :
          /\ WF_vars(RunCall(i))
          /\ WF_vars(FindOnoffDevice(i)) /\ WF_vars(FindOnoffDeviceTmo(i))
          /\ WF_vars(FindIasZoneDevice(i)) /\ WF_vars(FindIasZoneDeviceTmo(i))
          /\ WF_vars(SendToggleReq(i))
    /\ \A k \in Kinds, a \in Devices \cup {Zero} : WF_vars(Responds(k, a))
    /\ WF_vars(ToggleBulbs)

FairSpec == Spec /\ Fairness

-----------------------------------------------------------------------------
(* Properties.                                                             *)

Used(i) == dev[i].state # "NO_DEVICE"
Removing(i) == \E k \in 1 .. Len(calls) : calls[k] = Alarm("remove", i)
Serves(i, a) == Used(i) /\ dev[i].short = a

SlotType == [state : States, short : Devices \cup {Zero}, ieee : Devices \cup {Zero},
             pending : 0 .. (Problems + DevNumber)]

\* Every variable keeps its type: callbacks and alarms name existing slots,
\* the toggle counters stay in range.
TypeOK ==
    /\ dev \in [Slots -> SlotType] /\ nv \in [Slots -> SlotType]
    /\ alarms \subseteq [fn : Timers, idx : Slots]
    /\ calls \in Seq([fn : Steps, idx : Slots]) /\ Len(calls) <= MaxCalls
    /\ reqs \subseteq [kind : Kinds, dst : Devices \cup {Zero}]
    /\ net \subseteq Devices /\ bound \subseteq net /\ conf \subseteq net
    /\ since \in [Slots -> 0 .. (DevNumber + 1)]

\* A device never has two slots, not even a slot it left and a new one:
\* a lookup by short address (simple_gw_get_dev_index_by_short_addr) finds
\* the only slot there is.  A zeroed slot has no device.
Distinct(t) ==
    \A i, j \in Slots : t[i].short = t[j].short /\ t[i].short # Zero => i = j

OneSlotPerDevice == Distinct(dev) /\ Distinct(nv)

\* A device that waits for a match descriptor answer is watched: a timeout
\* or its removal is pending, so it cannot occupy its slot for ever.
DiscoveryIsWatched ==
    \A i \in Slots : dev[i].state = "MATCH_DESC_DISCOVERY" =>
        Expire("onoffTmo", i) \/ Expire("iasTmo", i) \/ Removing(i)

\* A COMPLETED device, the only kind that is sent Toggle commands, has an
\* On/Off server, and accepted the binding and the reporting configuration
\* (readme.txt:63).
CompletedIsCommissioned ==
    \A i \in Slots : dev[i].state = "COMPLETED" =>
        /\ dev[i].short \in OnOffDevs
        /\ dev[i].short \in net => dev[i].short \in bound \cap conf

\* Answers are applied to the first slot that waits for one, and still every
\* answer counts once: as many slots passed binding, and reporting, as
\* devices accepted them.
EveryAnswerCounts ==
    LET In(S) == Cardinality({i \in Slots : dev[i].state \in S})
    IN  /\ In({"CONFIGURE_REPORTING", "COMPLETED"}) = Cardinality(bound)
        /\ In({"COMPLETED"}) = Cardinality(conf)

\* NVRAM and RAM agree on the devices that are toggled: a restart neither
\* forgets one nor brings back one that left.
PersistedAgrees ==
    \A i \in Slots :
        /\ nv[i].state = "COMPLETED" <=> dev[i].state = "COMPLETED"
        /\ dev[i].state = "COMPLETED" => nv[i].short = dev[i].short /\ nv[i].ieee = dev[i].ieee

\* A COMPLETED device loses its slot only by leaving: no timeout or late
\* answer of an earlier discovery takes it away.
CompletedStays ==
    [][\A i \in Slots : dev[i].state = "COMPLETED" /\ dev'[i].state # "COMPLETED" =>
          dev[i].short \notin net']_vars

\* A device that joins while there is a free slot is given one
\* (simple_gw.c:210: "Ok, device is unknown, add to dev list.").
JoinerIsAdopted ==
    [][\A a \in net' \ net : ByState("NO_DEVICE") # Invalid =>
          \E i \in Slots : dev'[i].state # "NO_DEVICE" /\ dev'[i].short = a]_vars

\* From one toggle of slot i to the next toggle_bulbs runs i + 2 times or
\* more, whatever happens in between: a toggle fails and sets the counter of
\* the slot, the device leaves and another is commissioned in its slot, the
\* gateway restarts.  This is one run of 5 s more than readme.txt:67 gives
\* (T = device_index * 5 s, counted from 1, so i + 1 runs): a counter set to
\* i + 1 is looked at i + 2 times before the toggle (lines 958-967).
TogglePaced ==
    \A i \in Toggled : since[i] > 0 => since[i] + dev[i].pending >= i + 2

\* Every device with an On/Off server that is given a slot is commissioned.
OnOffCompletes ==
    \A i \in Slots, a \in OnOffDevs : Serves(i, a) ~> dev[i].state = "COMPLETED" \/ a \notin net

\* No commissioning goes on for ever: the device completes it or loses its slot.
DiscoveryEnds ==
    \A i \in Slots : dev[i].state \in Discovery ~> dev[i].state \notin Discovery

\* A device that stays COMPLETED is sent Toggle commands again and again.
KeepsToggling ==
    \A i \in Slots : <>[](dev[i].state = "COMPLETED") => []<>(\E a \in Devices :
        dev[i].short = a /\ Request("toggle", a) \in reqs)
=============================================================================

---------------------------- MODULE SimpleGwProofs ----------------------------
(***************************************************************************)
(* Theorems about SimpleGw, for any number of slots and devices and for    *)
(* every environment Env, the ones TLC cannot explore included.            *)
(***************************************************************************)
EXTENDS SimpleGw, WellFoundedInduction, FiniteSetTheorems, TLAPS

Table == [Slots -> SlotType]
CallType == [fn : Steps, idx : Slots]
AlarmType == [fn : Timers, idx : Slots]
RequestType == [kind : Kinds, dst : Devices \cup {Zero}]

-----------------------------------------------------------------------------
(* Tables are searched from their first entry on.                          *)

Less == {p \in Nat \X Nat : p[1] < p[2]}

(* The order of the naturals is well founded.                              *)
LEMMA LessWellFounded == IsWellFoundedOn(Less, Nat)
  BY NatLessThanWellFounded DEF Less, OpToRel

(* A nonempty set of naturals has a least element: what a CHOOSE of the    *)
(* first entry of a table finds.                                           *)
LEMMA Least ==
  ASSUME NEW S, S \subseteq Nat, S # {}
  PROVE  \E i \in S : \A j \in S : i <= j
<1>1. PICK i \in S : \A j \in S : ~ (<<j, i>> \in Less)
  BY LessWellFounded, WFMin
<1>2. \A j \in S : j < i => <<j, i>> \in Less
  BY DEF Less
<1>3. ASSUME NEW j \in S PROVE i <= j
  <2>1. ~ (j < i)
    BY <1>1, <1>2
  <2>2. i \in Nat /\ j \in Nat
    OBVIOUS
  <2> QED BY <2>1, <2>2
<1> QED BY <1>3

-----------------------------------------------------------------------------
(* The lookups find a slot of the set they are given, if it has one.       *)

LEMMA FirstFinds ==
  ASSUME NEW S, S \subseteq Slots
  PROVE  /\ S = {} => First(S) = Invalid
         /\ S # {} => First(S) \in S /\ First(S) # Invalid
         /\ First(S) # Invalid => First(S) \in Slots
<1>1. S \subseteq Nat
  BY SimpleGwAssumption DEF Slots
<1>2. CASE S = {}
  BY <1>2 DEF First
<1>3. CASE S # {}
  <2>1. \E i \in S : \A j \in S : i <= j
    BY <1>1, <1>3, Least
  <2>2. First(S) \in S
    BY <1>3, <2>1 DEF First
  <2>3. Invalid \notin S
    BY SimpleGwAssumption DEF Slots, Invalid
  <2> QED BY <1>3, <2>2, <2>3
<1> QED BY <1>2, <1>3

LEMMA Lookups ==
  ASSUME NEW a
  PROVE  /\ ByShort(a) # Invalid => ByShort(a) \in Slots /\ dev[ByShort(a)].short = a
         /\ ByShort(a) = Invalid => \A i \in Slots : dev[i].short # a
         /\ ByIeee(a) # Invalid => ByIeee(a) \in Slots
         /\ ByState(a) # Invalid => ByState(a) \in Slots
<1>1. {i \in Slots : dev[i].short = a} \subseteq Slots /\ {i \in Slots : dev[i].ieee = a} \subseteq Slots
      /\ {i \in Slots : dev[i].state = a} \subseteq Slots
  OBVIOUS
<1>2. ByShort(a) # Invalid => ByShort(a) \in {i \in Slots : dev[i].short = a}
  BY <1>1, FirstFinds DEF ByShort
<1>3. ByShort(a) = Invalid => {i \in Slots : dev[i].short = a} = {}
  BY <1>1, FirstFinds DEF ByShort
<1>4. ByIeee(a) # Invalid => ByIeee(a) \in Slots
  BY <1>1, FirstFinds DEF ByIeee
<1>5. ByState(a) # Invalid => ByState(a) \in Slots
  BY <1>1, FirstFinds DEF ByState
<1> QED BY <1>2, <1>3, <1>4, <1>5

-----------------------------------------------------------------------------
(* Type correctness.                                                       *)

\* Every way a handler writes a slot leaves a table.
LEMMA Updates ==
  ASSUME NEW t \in Table, NEW i \in Slots, NEW s \in States,
         NEW a \in Devices \cup {Zero}, NEW n \in 0 .. (Problems + DevNumber)
  PROVE  /\ [t EXCEPT ![i].short = a, ![i].state = s] \in Table
         /\ [t EXCEPT ![i].ieee = a, ![i].state = s] \in Table
         /\ [t EXCEPT ![i].state = s] \in Table
         /\ [t EXCEPT ![i].pending = n] \in Table
         /\ [t EXCEPT ![i] = Empty] \in Table
<1>1. 0 \in 0 .. (Problems + DevNumber)
  BY SimpleGwAssumption
<1>2. Empty \in SlotType
  BY <1>1 DEF Empty, SlotType, States
<1> QED BY <1>2 DEF Table, SlotType

LEMMA Counters ==
  ASSUME NEW i \in Slots
  PROVE  /\ ToggleWait(i) \in 0 .. (Problems + DevNumber)
         /\ Problems + i + 1 \in 0 .. (Problems + DevNumber)
  BY SimpleGwAssumption DEF Slots, ToggleWait

LEMMA Copies ==
  ASSUME NEW t \in Table
  PROVE  Saved(t) \in Table /\ Restored(t) \in Table
<1>1. 0 \in 0 .. (Problems + DevNumber)
  BY SimpleGwAssumption
<1>2. Saved(t) \in Table
  BY <1>1 DEF Saved, Table, SlotType
<1>3. Restored(t) \in Table
  BY Counters DEF Restored, Table, SlotType
<1> QED BY <1>2, <1>3

\* The alarms, callbacks and requests a handler adds are of their types.
LEMMA Additions ==
  /\ \A f \in Timers, i \in Slots : Alarm(f, i) \in AlarmType
  /\ \A F \in SUBSET Timers, i \in Slots : Alarms(F, i) \subseteq AlarmType
  /\ \A k \in Kinds, a \in Devices \cup {Zero} : Request(k, a) \in RequestType
  BY DEF Alarm, Alarms, Request, AlarmType, RequestType

LEMMA Scheduled ==
  ASSUME NEW f \in Steps, NEW i \in Slots, Schedule(f, i),
         calls \in Seq(CallType), Len(calls) <= MaxCalls
  PROVE  calls' \in Seq(CallType) /\ Len(calls') <= MaxCalls
<1>1. Alarm(f, i) \in CallType
  BY DEF Alarm, CallType
<1> QED BY <1>1, SimpleGwAssumption DEF Schedule, Call

LEMMA Started ==
  ASSUME NEW f, NEW i, IsNext(f, i), calls' = Tail(calls),
         calls \in Seq(CallType), Len(calls) <= MaxCalls
  PROVE  calls' \in Seq(CallType) /\ Len(calls') <= MaxCalls
  BY SimpleGwAssumption DEF IsNext

LEMMA TypeInit == Init => TypeOK
<1> SUFFICES ASSUME Init PROVE TypeOK
  OBVIOUS
<1>1. Empty \in SlotType /\ 0 \in 0 .. (DevNumber + 1)
  BY SimpleGwAssumption DEF Empty, SlotType, States
<1>2. Tick \in [fn : Timers, idx : Slots]
  BY SimpleGwAssumption DEF Tick, Alarm, Timers, Slots
<1>3. <<>> \in Seq([fn : Steps, idx : Slots]) /\ Len(<<>>) <= MaxCalls
  BY SimpleGwAssumption
<1> QED BY <1>1, <1>2, <1>3 DEF Init, TypeOK

\* TypeOK with the types above.
LEMMA TypeParts ==
  TypeOK <=>
    /\ dev \in Table /\ nv \in Table
    /\ alarms \subseteq AlarmType
    /\ calls \in Seq(CallType) /\ Len(calls) <= MaxCalls
    /\ reqs \subseteq RequestType
    /\ net \subseteq Devices /\ bound \subseteq net /\ conf \subseteq net
    /\ since \in [Slots -> 0 .. (DevNumber + 1)]
  BY DEF TypeOK, Table, AlarmType, CallType, RequestType

LEMMA ShortTyped ==
  ASSUME dev \in Table, NEW i \in Slots
  PROVE  dev[i].short \in Devices \cup {Zero}
  BY DEF Table, SlotType

LEMMA TypeJoin ==
  ASSUME TypeOK, NEW a \in Devices, Announce(a)
  PROVE  TypeOK'
<1>1. dev' \in Table /\ alarms' \subseteq AlarmType
  <2> DEFINE i == ByState("NO_DEVICE")
  <2>1. CASE ~ Known(a) /\ i # Invalid
    <3>1. i \in Slots
      BY <2>1, Lookups
    <3>2. dev' = [dev EXCEPT ![i].short = a, ![i].state = "MATCH_DESC_DISCOVERY"]
          /\ alarms' = alarms \cup Alarms({"onoff", "onoffTmo"}, i)
      BY <2>1 DEF Announce, Adopt
    <3>3. dev' \in Table
      <4>1. 0 \in 0 .. (Problems + DevNumber) /\ "MATCH_DESC_DISCOVERY" \in States
        BY SimpleGwAssumption DEF States, Discovery
      <4> HIDE DEF i
      <4> QED BY <3>1, <3>2, <4>1, Updates, TypeParts
    <3>4. alarms' \subseteq AlarmType
      <4>1. {"onoff", "onoffTmo"} \in SUBSET Timers
        BY DEF Timers
      <4> HIDE DEF i
      <4> QED BY <3>1, <3>2, <4>1, Additions, TypeParts
    <3> QED BY <3>3, <3>4
  <2>2. CASE ~ (~ Known(a) /\ i # Invalid)
    BY <2>2, TypeParts DEF Announce, Adopt
  <2> QED BY <2>1, <2>2
<1> QED BY <1>1, TypeParts DEF Announce, TypeOK, Table, AlarmType

\* The alarms of a slot.
LEMMA TypeTimer ==
  ASSUME TypeOK, NEW i \in Slots, Timer(i)
  PROVE  TypeOK'
<1>1. "match" \in Kinds /\ "iasMatch" \in Kinds /\ "toggle" \in Kinds /\ "remove" \in Steps
  BY DEF Kinds, Steps
<1>2. CASE FindOnoffDevice(i)
  BY <1>1, <1>2, TypeParts, ShortTyped, Additions DEF FindOnoffDevice, TypeOK, RequestType
<1>3. CASE FindIasZoneDevice(i)
  BY <1>1, <1>3, TypeParts, ShortTyped, Additions DEF FindIasZoneDevice, TypeOK, RequestType
<1>4. CASE SendToggleReq(i)
  BY <1>1, <1>4, TypeParts, ShortTyped, Additions DEF SendToggleReq, TypeOK, RequestType
<1>5. CASE FindOnoffDeviceTmo(i)
  <2>1. calls' \in Seq(CallType) /\ Len(calls') <= MaxCalls
    BY <1>1, <1>5, TypeParts, Scheduled DEF FindOnoffDeviceTmo
  <2> QED BY <1>5, <2>1, TypeParts DEF FindOnoffDeviceTmo, TypeOK, CallType
<1>6. CASE FindIasZoneDeviceTmo(i)
  <2>1. calls' \in Seq(CallType) /\ Len(calls') <= MaxCalls
    BY <1>1, <1>6, TypeParts, Scheduled DEF FindIasZoneDeviceTmo
  <2> QED BY <1>6, <2>1, TypeParts DEF FindIasZoneDeviceTmo, TypeOK, CallType
<1> QED BY <1>2, <1>3, <1>4, <1>5, <1>6 DEF Timer

\* The callbacks of a slot.
LEMMA TypeCall ==
  ASSUME TypeOK, NEW i \in Slots, RunCall(i)
  PROVE  TypeOK'
<1>1. CASE \E f \in Steps : SendStep(f, i)
  <2>1. PICK f \in Steps : SendStep(f, i)
    BY <1>1
  <2>2. calls' \in Seq(CallType) /\ Len(calls') <= MaxCalls
    BY <2>1, TypeParts, Started DEF SendStep
  <2>3. Request(f, dev[i].short) \in RequestType
    BY <2>1, TypeParts, ShortTyped, Additions DEF SendStep, Kinds
  <2> QED BY <2>1, <2>2, <2>3, TypeParts DEF SendStep, TypeOK, CallType, RequestType
<1>2. CASE WriteCieAddr(i)
  <2>1. calls' \in Seq(CallType) /\ Len(calls') <= MaxCalls
    BY <1>2, TypeParts, Started DEF WriteCieAddr
  <2>2. dev' \in Table
    <3>1. "COMPLETED_NO_TOGGLE" \in States /\ Zero \in Devices \cup {Zero}
          /\ 0 \in 0 .. (Problems + DevNumber)
      BY SimpleGwAssumption DEF States
    <3> QED BY <1>2, <3>1, TypeParts, Updates DEF WriteCieAddr
  <2> QED BY <1>2, <2>1, <2>2, TypeParts DEF WriteCieAddr, TypeOK, CallType, Table
<1>3. CASE RemoveDevice(i)
  <2>1. calls' \in Seq(CallType) /\ Len(calls') <= MaxCalls
    BY <1>3, TypeParts, Started DEF RemoveDevice
  <2>2. dev' \in Table
    <3>1. "NO_DEVICE" \in States /\ Zero \in Devices \cup {Zero}
          /\ 0 \in 0 .. (Problems + DevNumber)
      BY SimpleGwAssumption DEF States
    <3> QED BY <1>3, <3>1, TypeParts, Updates DEF RemoveDevice, Removed
  <2>3. nv' \in Table
    BY <1>3, <2>2, Copies DEF RemoveDevice
  <2>4. reqs' \subseteq RequestType
    BY <1>3, TypeParts, ShortTyped, Additions DEF RemoveDevice, Kinds
  <2>5. alarms' \subseteq AlarmType
    BY <1>3, TypeParts DEF RemoveDevice
  <2> QED BY <1>3, <2>1, <2>2, <2>3, <2>4, <2>5, TypeParts
          DEF RemoveDevice, TypeOK, CallType, Table, RequestType, AlarmType
<1> QED BY <1>1, <1>2, <1>3 DEF RunCall

\* A slot whose state an answer changes.
LEMMA StateChanged ==
  ASSUME dev \in Table, NEW i \in Slots, NEW s \in States,
         dev' = [dev EXCEPT ![i].state = s]
  PROVE  dev' \in Table
<1>1. Zero \in Devices \cup {Zero} /\ 0 \in 0 .. (Problems + DevNumber)
  BY SimpleGwAssumption
<1> QED BY <1>1, Updates

\* Answers and failures that leave net, nv and since alone.
LEMMA TypeAnswered ==
  ASSUME TypeOK, NEW a \in Devices \cup {Zero},
         \/ MatchFound(a) \/ NoMatch(a) \/ IasFound(a) \/ NoIas(a)
         \/ IeeeAnswered(a) \/ BindAnswered(a) \/ ToggleAnswered(a)
  PROVE  TypeOK'
<1> USE DEF Table, AlarmType, CallType, RequestType
<1>1. /\ {"IEEE_ADDR_DISCOVERY", "WRITE_CIE_ADDR", "COMPLETED_NO_TOGGLE",
          "CONFIGURE_BINDING", "CONFIGURE_REPORTING"} \subseteq States
      /\ {"ieee", "cie", "bind", "report"} \subseteq Steps
  BY DEF States, Discovery, Steps
<1>2. CASE MatchFound(a)
  <2> DEFINE i == ByShort(a)
  <2>1. reqs' \subseteq RequestType
    BY <1>2, TypeParts DEF MatchFound, Answer
  <2>2. CASE i = Invalid
    BY <1>2, <2>1, <2>2, TypeParts DEF MatchFound, TypeOK
  <2>3. CASE i # Invalid
    <3>1. i \in Slots
      BY <2>3, Lookups
    <3>2. dev' = [dev EXCEPT ![i].state = "IEEE_ADDR_DISCOVERY"] /\ Schedule("ieee", i)
          /\ alarms' \subseteq alarms
      BY <1>2, <2>3 DEF MatchFound
    <3> HIDE DEF i
    <3>3. dev' \in Table
      BY <1>1, <3>1, <3>2, StateChanged, TypeParts
    <3>4. calls' \in Seq(CallType) /\ Len(calls') <= MaxCalls
      BY <1>1, <3>1, <3>2, Scheduled, TypeParts
    <3> QED BY <1>2, <2>1, <3>2, <3>3, <3>4, TypeParts DEF MatchFound, TypeOK
  <2> QED BY <2>2, <2>3
<1>3. CASE NoMatch(a)
  <2> DEFINE i == ByShort(a)
  <2>1. reqs' \subseteq RequestType
    BY <1>3, TypeParts DEF NoMatch, Answer
  <2>2. CASE i = Invalid
    BY <1>3, <2>1, <2>2, TypeParts DEF NoMatch, TypeOK
  <2>3. CASE i # Invalid
    <3>1. i \in Slots
      BY <2>3, Lookups
    <3>2. alarms' = (alarms \ {Alarm("onoffTmo", i)}) \cup IasTimers(i)
      BY <1>3, <2>3 DEF NoMatch
    <3>3. {"ias", "iasTmo"} \in SUBSET Timers
      BY DEF Timers
    <3> HIDE DEF i
    <3>4. alarms' \subseteq AlarmType
      BY <3>1, <3>2, <3>3, Additions, TypeParts DEF IasTimers
    <3> QED BY <1>3, <2>1, <3>4, TypeParts DEF NoMatch, TypeOK
  <2> QED BY <2>2, <2>3
<1>4. CASE IasFound(a)
  <2> DEFINE i == ByShort(a)
  <2>1. reqs' \subseteq RequestType
    BY <1>4, TypeParts DEF IasFound, Answer
  <2>2. CASE i = Invalid
    BY <1>4, <2>1, <2>2, TypeParts DEF IasFound, TypeOK
  <2>3. CASE i # Invalid
    <3>1. i \in Slots
      BY <2>3, Lookups
    <3>2. dev' = [dev EXCEPT ![i].state = "WRITE_CIE_ADDR"] /\ Schedule("cie", i)
          /\ alarms' \subseteq alarms
      BY <1>4, <2>3 DEF IasFound
    <3> HIDE DEF i
    <3>3. dev' \in Table
      BY <1>1, <3>1, <3>2, StateChanged, TypeParts
    <3>4. calls' \in Seq(CallType) /\ Len(calls') <= MaxCalls
      BY <1>1, <3>1, <3>2, Scheduled, TypeParts
    <3> QED BY <1>4, <2>1, <3>2, <3>3, <3>4, TypeParts DEF IasFound, TypeOK
  <2> QED BY <2>2, <2>3
<1>5. CASE NoIas(a)
  <2> DEFINE i == ByShort(a)
  <2>1. reqs' \subseteq RequestType
    BY <1>5, TypeParts DEF NoIas, Answer
  <2>2. CASE i = Invalid
    BY <1>5, <2>1, <2>2, TypeParts DEF NoIas, TypeOK
  <2>3. CASE i # Invalid
    <3>1. i \in Slots
      BY <2>3, Lookups
    <3>2. dev' = [dev EXCEPT ![i].state = "COMPLETED_NO_TOGGLE"] /\ alarms' \subseteq alarms
      BY <1>5, <2>3 DEF NoIas
    <3> HIDE DEF i
    <3>3. dev' \in Table
      BY <1>1, <3>1, <3>2, StateChanged, TypeParts
    <3> QED BY <1>5, <2>1, <3>2, <3>3, TypeParts DEF NoIas, TypeOK
  <2> QED BY <2>2, <2>3
<1>6. CASE IeeeAnswered(a)
  <2> DEFINE i == ByShort(a)
  <2>1. reqs' \subseteq RequestType
    BY <1>6, TypeParts DEF IeeeAnswered, Answer
  <2>2. CASE i = Invalid
    BY <1>6, <2>1, <2>2, TypeParts DEF IeeeAnswered, TypeOK
  <2>3. CASE i # Invalid
    <3>1. i \in Slots
      BY <2>3, Lookups
    <3>2. dev' = [dev EXCEPT ![i].ieee = a, ![i].state = "CONFIGURE_BINDING"]
          /\ Schedule("bind", i)
      BY <1>6, <2>3 DEF IeeeAnswered
    <3> HIDE DEF i
    <3>3. dev' \in Table
      <4>1. 0 \in 0 .. (Problems + DevNumber)
        BY SimpleGwAssumption
      <4> QED BY <1>1, <3>1, <3>2, <4>1, Updates, TypeParts
    <3>4. calls' \in Seq(CallType) /\ Len(calls') <= MaxCalls
      BY <1>1, <3>1, <3>2, Scheduled, TypeParts
    <3> QED BY <1>6, <2>1, <3>3, <3>4, TypeParts DEF IeeeAnswered, TypeOK
  <2> QED BY <2>2, <2>3
<1>7. CASE BindAnswered(a)
  <2> DEFINE i == BindSlot
  <2>1. reqs' \subseteq RequestType
    BY <1>7, TypeParts DEF BindAnswered, Answer
  <2>2. bound' \subseteq net
    BY <1>7, TypeParts DEF BindAnswered, Answer
  <2>3. CASE i = Invalid
    BY <1>7, <2>1, <2>2, <2>3, TypeParts DEF BindAnswered, TypeOK
  <2>4. CASE i # Invalid
    <3>1. i \in Slots
      BY <2>4, Lookups DEF BindSlot
    <3>2. dev' = [dev EXCEPT ![i].state = "CONFIGURE_REPORTING"] /\ Schedule("report", i)
      BY <1>7, <2>4 DEF BindAnswered
    <3> HIDE DEF i
    <3>3. dev' \in Table
      BY <1>1, <3>1, <3>2, StateChanged, TypeParts
    <3>4. calls' \in Seq(CallType) /\ Len(calls') <= MaxCalls
      BY <1>1, <3>1, <3>2, Scheduled, TypeParts
    <3> QED BY <1>7, <2>1, <2>2, <3>3, <3>4, TypeParts DEF BindAnswered, TypeOK
  <2> QED BY <2>3, <2>4
<1>8. CASE ToggleAnswered(a)
  BY <1>8, TypeParts DEF ToggleAnswered, Answer, TypeOK
<1> QED BY <1>2, <1>3, <1>4, <1>5, <1>6, <1>7, <1>8

LEMMA TypeReported ==
  ASSUME TypeOK, NEW a \in Devices \cup {Zero}, ReportAnswered(a)
  PROVE  TypeOK'
<1> USE DEF Table, AlarmType, CallType, RequestType
<1> DEFINE i == ByState("CONFIGURE_REPORTING")
<1>1. reqs' \subseteq RequestType /\ conf' \subseteq net
  BY TypeParts DEF ReportAnswered, Answer
<1>2. CASE i = Invalid
  BY <1>1, <1>2, TypeParts DEF ReportAnswered, TypeOK
<1>3. CASE i # Invalid
  <2> DEFINE t == [dev EXCEPT ![i].state = "COMPLETED"]
  <2>1. i \in Slots
    BY <1>3, Lookups
  <2>2. nv' = Saved(t) /\ dev' = [t EXCEPT ![i].pending = ToggleWait(i)]
    BY <1>3 DEF ReportAnswered
  <2> HIDE DEF i
  <2>3. "COMPLETED" \in States /\ Zero \in Devices \cup {Zero}
        /\ ToggleWait(i) \in 0 .. (Problems + DevNumber)
    BY <2>1, Counters DEF States
  <2>4. t \in Table
    BY <2>1, <2>3, Updates, TypeParts
  <2>5. nv' \in Table /\ dev' \in Table
    <3> HIDE DEF t
    <3> QED BY <2>1, <2>2, <2>3, <2>4, Copies, Updates
  <2> QED BY <1>1, <2>5, TypeParts DEF ReportAnswered, TypeOK
<1> QED BY <1>2, <1>3

LEMMA TypeFailed ==
  ASSUME TypeOK, NEW a \in Devices \cup {Zero}, Failed(a)
  PROVE  TypeOK'
<1> USE DEF Table, AlarmType, CallType, RequestType
<1>1. CASE ToggleFailed(a)
  <2> DEFINE i == ByShort(a)
  <2>1. dev' \in Table
    <3>1. CASE i = Invalid
      BY <1>1, <3>1, TypeParts DEF ToggleFailed
    <3>2. CASE i # Invalid
      <4>1. i \in Slots
        BY <3>2, Lookups
      <4>2. dev' = [dev EXCEPT ![i].pending = Problems + i + 1]
        BY <1>1, <3>2 DEF ToggleFailed
      <4>3. "COMPLETED" \in States /\ Zero \in Devices \cup {Zero}
        BY DEF States
      <4> HIDE DEF i
      <4> QED BY <4>1, <4>2, <4>3, Counters, Updates, TypeParts
    <3> QED BY <3>1, <3>2
  <2> QED BY <1>1, <2>1, TypeParts DEF ToggleFailed, Fails, TypeOK
<1>2. CASE \E k \in Kinds : Unanswered(k, a)
  BY <1>2, TypeParts DEF Unanswered, Fails, TypeOK
<1> QED BY <1>1, <1>2 DEF Failed

LEMMA TypeLeaves ==
  ASSUME TypeOK, NEW a \in Devices \cup {Zero}, Leave(a) \/ LeaveAnswered(a)
  PROVE  TypeOK'
<1> USE DEF Table, AlarmType, CallType, RequestType
<1>1. reqs' \subseteq RequestType /\ Leaves(a)
  BY TypeParts DEF Leave, LeaveAnswered, Answer
<1>2. dev' \in Table /\ nv' \in Table /\ alarms' \subseteq AlarmType
  <2> DEFINE i == ByIeee(a)
  <2>1. CASE i = Invalid
    BY <1>1, <2>1, TypeParts DEF Leaves, LeaveIndication
  <2>2. CASE i # Invalid
    <3>1. i \in Slots
      BY <2>2, Lookups
    <3>2. dev' = [dev EXCEPT ![i].state = "NO_DEVICE"] /\ nv' = Saved(dev')
          /\ alarms' \subseteq alarms
      BY <1>1, <2>2 DEF Leaves, LeaveIndication
    <3> HIDE DEF i
    <3>3. dev' \in Table
      BY <3>1, <3>2, StateChanged, TypeParts DEF States
    <3> QED BY <3>2, <3>3, Copies, TypeParts
  <2> QED BY <2>1, <2>2
<1> QED BY <1>1, <1>2, TypeParts DEF Leaves, TypeOK

LEMMA TypeToggle ==
  ASSUME TypeOK, ToggleBulbs
  PROVE  TypeOK'
<1> USE DEF Table, AlarmType, CallType, RequestType
<1>1. dev' \in Table
  <2>1. ASSUME NEW i \in Slots PROVE dev'[i] \in SlotType
    <3>1. dev[i] \in SlotType /\ dev[i].pending \in 0 .. (Problems + DevNumber)
      BY TypeParts DEF SlotType
    <3>2. CASE i \in Due
      BY <3>1, <3>2, Counters DEF ToggleBulbs, SlotType
    <3>3. CASE i \notin Due /\ i \in Toggled
      <4>1. dev[i].pending - 1 \in 0 .. (Problems + DevNumber)
        BY <3>1, <3>3, SimpleGwAssumption DEF Due
      <4> QED BY <3>1, <3>3, <4>1 DEF ToggleBulbs, SlotType
    <3>4. CASE i \notin Due /\ i \notin Toggled
      BY <3>1, <3>4 DEF ToggleBulbs
    <3> QED BY <3>2, <3>3, <3>4
  <2> QED BY <2>1 DEF ToggleBulbs
<1>2. alarms' \subseteq AlarmType
  <2>1. Tick \in AlarmType /\ Due \subseteq Slots /\ "toggle" \in Timers
    BY SimpleGwAssumption DEF Tick, Alarm, Timers, Slots, Due, Toggled
  <2> QED BY <2>1, Additions, TypeParts DEF ToggleBulbs, TickAgain
<1>3. since' \in [Slots -> 0 .. (DevNumber + 1)]
  BY TypeParts, SimpleGwAssumption DEF ToggleBulbs
<1> QED BY <1>1, <1>2, <1>3, TypeParts DEF ToggleBulbs, TypeOK

LEMMA TypeReboot ==
  ASSUME TypeOK, Reboot
  PROVE  TypeOK'
<1> USE DEF Table, AlarmType, CallType, RequestType
<1>1. dev' \in Table
  BY Copies, TypeParts DEF Reboot
<1>2. Tick \in AlarmType /\ <<>> \in Seq(CallType) /\ Len(<<>>) <= MaxCalls
      /\ 0 \in 0 .. (DevNumber + 1)
  BY SimpleGwAssumption DEF Tick, Alarm, Timers, Slots
<1> QED BY <1>1, <1>2, TypeParts DEF Reboot, TypeOK

LEMMA TypeStep == TypeOK /\ [Next]_vars => TypeOK'
<1> SUFFICES ASSUME TypeOK, [Next]_vars PROVE TypeOK'
  OBVIOUS
<1>1. CASE \E a \in Devices : Announce(a) \/ Leave(a)
  BY <1>1, TypeJoin, TypeLeaves
<1>2. CASE \E i \in Slots : Timer(i) \/ RunCall(i)
  BY <1>2, TypeTimer, TypeCall
<1>3. CASE \E a \in Devices \cup {Zero} : Answered(a) \/ Failed(a)
  BY <1>3, TypeAnswered, TypeReported, TypeFailed, TypeLeaves DEF Answered
<1>4. CASE ToggleBulbs
  BY <1>4, TypeToggle
<1>5. CASE Reboot
  BY <1>5, TypeReboot
<1>6. CASE UNCHANGED vars
  BY <1>6 DEF vars, TypeOK, Slots, SlotType
<1> QED BY <1>1, <1>2, <1>3, <1>4, <1>5, <1>6 DEF Next

\* Every variable keeps its type in every environment: callbacks and alarms
\* name existing slots and the counters of toggle_bulbs stay in range.
THEOREM TypeCorrect == Spec => []TypeOK
<1>1. Init => TypeOK
  BY TypeInit
<1>2. TypeOK /\ [Next]_vars => TypeOK'
  BY TypeStep
<1> QED BY <1>1, <1>2, PTL DEF Spec

-----------------------------------------------------------------------------
(* One slot per device.                                                    *)

\* No address moves into a slot: every slot has the address it had, or none.
Kept(t, u) == \A i \in Slots : u[i].short \in {t[i].short, Zero}

LEMMA KeptDistinct ==
  ASSUME NEW t, NEW u, Distinct(t), Kept(t, u)
  PROVE  Distinct(u)
<1> SUFFICES ASSUME NEW i \in Slots, NEW j \in Slots,
                    u[i].short = u[j].short, u[i].short # Zero
             PROVE  i = j
  BY DEF Distinct
<1>1. u[i].short = t[i].short /\ u[j].short = t[j].short
  BY DEF Kept
<1> QED BY <1>1 DEF Distinct

LEMMA KeptUpdates ==
  ASSUME NEW t \in Table, NEW i \in Slots, NEW s, NEW a, NEW n
  PROVE  /\ Kept(t, t)
         /\ Kept(t, [t EXCEPT ![i].ieee = a, ![i].state = s])
         /\ Kept(t, [t EXCEPT ![i].state = s])
         /\ Kept(t, [t EXCEPT ![i].pending = n])
         /\ Kept(t, [[t EXCEPT ![i].state = s] EXCEPT ![i].pending = n])
         /\ Kept(t, [t EXCEPT ![i] = Empty])
         /\ Kept(t, Saved(t))
         /\ Kept(t, Restored(t))
<1>1. t \in [Slots -> SlotType]
  BY DEF Table
<1> QED BY <1>1 DEF Kept, SlotType, Empty, Saved, Restored

\* What a step other than an announcement does to the addresses.
LEMMA StepKeeps ==
  ASSUME TypeOK,
         \/ \E i \in Slots : Timer(i) \/ RunCall(i)
         \/ \E a \in Devices \cup {Zero} : Answered(a) \/ Failed(a) \/ Leave(a)
         \/ ToggleBulbs
  PROVE  Kept(dev, dev') /\ (nv' = nv \/ \E t \in Table : Kept(dev, t) /\ nv' = Saved(t))
<1>1. dev \in Table
  BY TypeParts
<1>0. Kept(dev, dev)
  BY DEF Kept
<1>2. ASSUME NEW i \in Slots, Timer(i) PROVE dev' = dev /\ nv' = nv
  BY <1>2 DEF Timer, FindOnoffDevice, FindIasZoneDevice, FindOnoffDeviceTmo,
              FindIasZoneDeviceTmo, SendToggleReq
<1>3. ASSUME NEW i \in Slots, RunCall(i)
      PROVE  Kept(dev, dev') /\ (nv' = nv \/ \E t \in Table : Kept(dev, t) /\ nv' = Saved(t))
  <2>1. CASE \E f \in Steps : SendStep(f, i)
    BY <1>1, <2>1, KeptUpdates DEF SendStep
  <2>2. CASE WriteCieAddr(i)
    BY <1>1, <2>2, KeptUpdates DEF WriteCieAddr
  <2>3. CASE RemoveDevice(i)
    <3>1. dev' = [dev EXCEPT ![i] = Empty] /\ nv' = Saved(dev')
      BY <2>3 DEF RemoveDevice, Removed
    <3>2. dev' \in Table
      BY <1>3, TypeCall DEF TypeOK, Table
    <3> QED BY <1>1, <3>1, <3>2, KeptUpdates
  <2> QED BY <1>3, <2>1, <2>2, <2>3 DEF RunCall
<1>4. ASSUME NEW a \in Devices \cup {Zero}, Answered(a), ~ ReportAnswered(a), ~ LeaveAnswered(a)
      PROVE  Kept(dev, dev') /\ nv' = nv
  <2>1. CASE MatchFound(a)
    <3> DEFINE i == ByShort(a)
    <3>1. CASE i = Invalid
      BY <1>0, <2>1, <3>1 DEF MatchFound
    <3>2. CASE i # Invalid
      <4>1. i \in Slots
        BY <3>2, Lookups
      <4>2. dev' = [dev EXCEPT ![i].state = "IEEE_ADDR_DISCOVERY"] /\ nv' = nv
        BY <2>1, <3>2 DEF MatchFound
      <4> HIDE DEF i
      <4> QED BY <1>1, <4>1, <4>2, KeptUpdates
    <3> QED BY <3>1, <3>2
  <2>2. CASE NoMatch(a) \/ ToggleAnswered(a)
    BY <1>1, <2>2, KeptUpdates, Lookups DEF NoMatch, ToggleAnswered, Kept
  <2>3. CASE IasFound(a)
    <3> DEFINE i == ByShort(a)
    <3>1. CASE i = Invalid
      BY <1>0, <2>3, <3>1 DEF IasFound
    <3>2. CASE i # Invalid
      <4>1. i \in Slots
        BY <3>2, Lookups
      <4>2. dev' = [dev EXCEPT ![i].state = "WRITE_CIE_ADDR"] /\ nv' = nv
        BY <2>3, <3>2 DEF IasFound
      <4> HIDE DEF i
      <4> QED BY <1>1, <4>1, <4>2, KeptUpdates
    <3> QED BY <3>1, <3>2
  <2>4. CASE NoIas(a)
    <3> DEFINE i == ByShort(a)
    <3>1. CASE i = Invalid
      BY <1>0, <2>4, <3>1 DEF NoIas
    <3>2. CASE i # Invalid
      <4>1. i \in Slots
        BY <3>2, Lookups
      <4>2. dev' = [dev EXCEPT ![i].state = "COMPLETED_NO_TOGGLE"] /\ nv' = nv
        BY <2>4, <3>2 DEF NoIas
      <4> HIDE DEF i
      <4> QED BY <1>1, <4>1, <4>2, KeptUpdates
    <3> QED BY <3>1, <3>2
  <2>5. CASE IeeeAnswered(a)
    <3> DEFINE i == ByShort(a)
    <3>1. CASE i = Invalid
      BY <1>0, <2>5, <3>1 DEF IeeeAnswered
    <3>2. CASE i # Invalid
      <4>1. i \in Slots
        BY <3>2, Lookups
      <4>2. dev' = [dev EXCEPT ![i].ieee = a, ![i].state = "CONFIGURE_BINDING"] /\ nv' = nv
        BY <2>5, <3>2 DEF IeeeAnswered
      <4> HIDE DEF i
      <4> QED BY <1>1, <4>1, <4>2, KeptUpdates
    <3> QED BY <3>1, <3>2
  <2>6. CASE BindAnswered(a)
    <3> DEFINE i == BindSlot
    <3>1. CASE i = Invalid
      BY <1>0, <2>6, <3>1 DEF BindAnswered
    <3>2. CASE i # Invalid
      <4>1. i \in Slots
        BY <3>2, Lookups DEF BindSlot
      <4>2. dev' = [dev EXCEPT ![i].state = "CONFIGURE_REPORTING"] /\ nv' = nv
        BY <2>6, <3>2 DEF BindAnswered
      <4> HIDE DEF i
      <4> QED BY <1>1, <4>1, <4>2, KeptUpdates
    <3> QED BY <3>1, <3>2
  <2> QED BY <1>4, <2>1, <2>2, <2>3, <2>4, <2>5, <2>6 DEF Answered
<1>5. ASSUME NEW a \in Devices \cup {Zero}, ReportAnswered(a)
      PROVE  Kept(dev, dev') /\ (nv' = nv \/ \E t \in Table : Kept(dev, t) /\ nv' = Saved(t))
  <2> DEFINE i == ByState("CONFIGURE_REPORTING")
             t == [dev EXCEPT ![i].state = "COMPLETED"]
  <2>1. CASE i = Invalid
    BY <1>5, <1>0, <2>1 DEF ReportAnswered
  <2>2. CASE i # Invalid
    <3>1. i \in Slots /\ nv' = Saved(t) /\ dev' = [t EXCEPT ![i].pending = ToggleWait(i)]
      BY <1>5, <2>2, Lookups DEF ReportAnswered
    <3> HIDE DEF i
    <3>2. "COMPLETED" \in States /\ Zero \in Devices \cup {Zero}
          /\ ToggleWait(i) \in 0 .. (Problems + DevNumber)
      BY <3>1, Counters DEF States
    <3>3. t \in Table
      BY <1>1, <3>1, <3>2, Updates
    <3>4. Kept(dev, t) /\ Kept(dev, dev')
      BY <1>1, <3>1, KeptUpdates
    <3> QED BY <3>1, <3>3, <3>4
  <2> QED BY <2>1, <2>2
<1>6. ASSUME NEW a \in Devices \cup {Zero}, Failed(a)
      PROVE  Kept(dev, dev') /\ nv' = nv
  <2>1. CASE ToggleFailed(a)
    <3> DEFINE i == ByShort(a)
    <3>1. CASE i = Invalid
      BY <1>0, <2>1, <3>1 DEF ToggleFailed
    <3>2. CASE i # Invalid
      <4>1. i \in Slots
        BY <3>2, Lookups
      <4>2. dev' = [dev EXCEPT ![i].pending = Problems + i + 1] /\ nv' = nv
        BY <2>1, <3>2 DEF ToggleFailed
      <4> HIDE DEF i
      <4> QED BY <1>1, <4>1, <4>2, KeptUpdates
    <3> QED BY <3>1, <3>2
  <2>2. CASE \E k \in Kinds : Unanswered(k, a)
    BY <1>1, <2>2, KeptUpdates DEF Unanswered, Kept
  <2> QED BY <1>6, <2>1, <2>2 DEF Failed
<1>7. ASSUME NEW a \in Devices \cup {Zero}, Leave(a) \/ LeaveAnswered(a)
      PROVE  Kept(dev, dev') /\ (nv' = nv \/ \E t \in Table : Kept(dev, t) /\ nv' = Saved(t))
  <2>1. LeaveIndication(a) /\ dev' \in Table
    BY <1>7, TypeLeaves DEF Leave, LeaveAnswered, Leaves, TypeOK, Table
  <2>2. CASE ByIeee(a) = Invalid
    BY <1>1, <2>1, <2>2, KeptUpdates DEF LeaveIndication, Kept
  <2>3. CASE ByIeee(a) # Invalid
    <3>1. ByIeee(a) \in Slots /\ dev' = [dev EXCEPT ![ByIeee(a)].state = "NO_DEVICE"]
          /\ nv' = Saved(dev')
      BY <2>1, <2>3, Lookups DEF LeaveIndication
    <3> QED BY <1>1, <2>1, <3>1, KeptUpdates
  <2> QED BY <2>2, <2>3
<1>8. ASSUME ToggleBulbs PROVE Kept(dev, dev') /\ nv' = nv
  <2>1. dev \in [Slots -> SlotType]
    BY <1>1 DEF Table
  <2> QED BY <1>8, <2>1 DEF ToggleBulbs, Kept, SlotType
<1> QED BY <1>2, <1>3, <1>4, <1>5, <1>6, <1>7, <1>8, <1>0

LEMMA DistinctStep == TypeOK /\ OneSlotPerDevice /\ [Next]_vars => OneSlotPerDevice'
<1> SUFFICES ASSUME TypeOK, OneSlotPerDevice, [Next]_vars
             PROVE  Distinct(dev') /\ Distinct(nv')
  BY DEF OneSlotPerDevice, Distinct
<1>1. Distinct(dev) /\ Distinct(nv) /\ dev \in [Slots -> SlotType] /\ nv \in Table
  BY TypeParts DEF OneSlotPerDevice, Table
<1>2. ASSUME NEW a \in Devices, Announce(a) PROVE Distinct(dev') /\ nv' = nv
  <2> DEFINE i == ByState("NO_DEVICE")
  <2>1. CASE Known(a) \/ i = Invalid
    BY <1>1, <1>2, <2>1 DEF Announce, Adopt, Distinct
  <2>2. CASE ~ Known(a) /\ i # Invalid
    <3>1. i \in Slots /\ \A j \in Slots : dev[j].short # a
      BY <2>2, Lookups DEF Known
    <3>2. dev' = [dev EXCEPT ![i].short = a, ![i].state = "MATCH_DESC_DISCOVERY"]
      BY <1>2, <2>2 DEF Announce, Adopt
    <3> HIDE DEF i
    <3>3. dev'[i].short = a /\ \A j \in Slots \ {i} : dev'[j].short = dev[j].short
      BY <1>1, <3>1, <3>2 DEF SlotType
    <3>4. Distinct(dev')
      BY <1>1, <3>1, <3>3 DEF Distinct
    <3> QED BY <1>2, <3>4 DEF Announce
  <2> QED BY <2>1, <2>2
<1>3. ASSUME Kept(dev, dev'), nv' = nv \/ \E t \in Table : Kept(dev, t) /\ nv' = Saved(t)
      PROVE  Distinct(dev') /\ Distinct(nv')
  <2>1. Distinct(dev')
    BY <1>1, <1>3, KeptDistinct
  <2>2. ASSUME NEW t \in Table, Kept(dev, t), nv' = Saved(t) PROVE Distinct(nv')
    <3>1. Distinct(t)
      BY <1>1, <2>2, KeptDistinct
    <3>2. Kept(t, Saved(t))
      <4>1. 0 \in Slots
        BY SimpleGwAssumption DEF Slots
      <4> QED BY <4>1, KeptUpdates
    <3> QED BY <2>2, <3>1, <3>2, KeptDistinct
  <2> QED BY <1>1, <1>3, <2>1, <2>2
<1>4. CASE Reboot
  <2>1. Kept(nv, dev')
    <3>1. 0 \in Slots
      BY SimpleGwAssumption DEF Slots
    <3> QED BY <1>1, <1>4, <3>1, KeptUpdates DEF Reboot
  <2> QED BY <1>1, <1>4, <2>1, KeptDistinct DEF Reboot
<1>5. CASE UNCHANGED vars
  BY <1>1, <1>5 DEF vars
<1> QED BY <1>1, <1>2, <1>3, <1>4, <1>5, StepKeeps DEF Next

\* A device never has two slots, in RAM or in NVRAM, whatever the order of
\* announcements, answers, departures, failures, removals and restarts.
THEOREM DevicesAreDistinct == Spec => []OneSlotPerDevice
<1>1. Init => OneSlotPerDevice
  BY DEF Init, OneSlotPerDevice, Distinct, Empty
<1>2. TypeOK /\ OneSlotPerDevice /\ [Next]_vars => OneSlotPerDevice'
  BY DistinctStep
<1> QED BY <1>1, <1>2, TypeCorrect, PTL DEF Spec

-----------------------------------------------------------------------------
(* The pace of the toggles.                                                *)

\* A slot of which a step writes the state only.
Takes(i, s) ==
    /\ i \in Slots
    /\ dev'[i].state = s /\ dev'[i].short = dev[i].short /\ dev'[i].ieee = dev[i].ieee
    /\ dev'[i].pending = dev[i].pending
    /\ \A j \in Slots \ {i} : dev'[j] = dev[j]

LEMMA StateTaken ==
  ASSUME dev \in Table, NEW i \in Slots, NEW s, dev' = [dev EXCEPT ![i].state = s]
  PROVE  Takes(i, s)
  BY DEF Table, SlotType, Takes

\* No slot becomes COMPLETED, and the counter of one that is stays or starts
\* at more than its index.
Calm ==
    \A i \in Slots : dev'[i].state = "COMPLETED" =>
        /\ dev[i].state = "COMPLETED"
        /\ dev'[i].pending = dev[i].pending \/ dev'[i].pending > i

LEMMA TakesIsCalm ==
  ASSUME NEW i, NEW s, Takes(i, s), s # "COMPLETED"
  PROVE  Calm
  BY DEF Takes, Calm

\* Only the answer to the reporting request, toggle_bulbs and a restart set
\* the counters of toggle_bulbs.
LEMMA OthersAreCalm ==
  ASSUME TypeOK, [Next]_vars, \A a : ~ ReportAnswered(a), ~ ToggleBulbs, ~ Reboot
  PROVE  Calm /\ since' = since
<1>1. dev \in Table /\ dev \in [Slots -> SlotType]
  BY TypeParts DEF Table
<1>2. dev' = dev => Calm
  BY DEF Calm
<1>3. ASSUME NEW a \in Devices, Announce(a) PROVE Calm /\ since' = since
  <2> DEFINE i == ByState("NO_DEVICE")
  <2>1. CASE Known(a) \/ i = Invalid
    BY <1>2, <1>3, <2>1 DEF Announce, Adopt
  <2>2. CASE ~ Known(a) /\ i # Invalid
    <3>1. i \in Slots
      BY <2>2, Lookups
    <3>2. dev' = [dev EXCEPT ![i].short = a, ![i].state = "MATCH_DESC_DISCOVERY"] /\ since' = since
      BY <1>3, <2>2 DEF Announce, Adopt
    <3> HIDE DEF i
    <3> QED BY <1>1, <3>1, <3>2 DEF SlotType, Calm
  <2> QED BY <2>1, <2>2
<1>4. ASSUME NEW i \in Slots, Timer(i) PROVE Calm /\ since' = since
  BY <1>2, <1>4 DEF Timer, FindOnoffDevice, FindIasZoneDevice, FindOnoffDeviceTmo,
              FindIasZoneDeviceTmo, SendToggleReq
<1>5. ASSUME NEW i \in Slots, RunCall(i) PROVE Calm /\ since' = since
  <2>1. CASE \E f \in Steps : SendStep(f, i)
    BY <1>2, <2>1 DEF SendStep
  <2>2. CASE WriteCieAddr(i)
    BY <1>1, <2>2, StateTaken, TakesIsCalm DEF WriteCieAddr
  <2>3. CASE RemoveDevice(i)
    BY <1>1, <2>3 DEF RemoveDevice, Removed, Empty, SlotType, Calm
  <2> QED BY <1>5, <2>1, <2>2, <2>3 DEF RunCall
<1>6. ASSUME NEW a \in Devices \cup {Zero}, Answered(a), ~ LeaveAnswered(a)
      PROVE  Calm /\ since' = since
  <2>1. CASE MatchFound(a) \/ IasFound(a) \/ NoIas(a)
    <3> DEFINE i == ByShort(a)
    <3>1. CASE i = Invalid
      BY <1>2, <2>1, <3>1 DEF MatchFound, IasFound, NoIas
    <3>2. CASE i # Invalid
      <4>1. i \in Slots
        BY <3>2, Lookups
      <4>2. \E s \in {"IEEE_ADDR_DISCOVERY", "WRITE_CIE_ADDR", "COMPLETED_NO_TOGGLE"} :
               dev' = [dev EXCEPT ![i].state = s]
        BY <2>1, <3>2 DEF MatchFound, IasFound, NoIas
      <4>3. since' = since
        BY <2>1 DEF MatchFound, IasFound, NoIas
      <4> HIDE DEF i
      <4> QED BY <1>1, <4>1, <4>2, <4>3, StateTaken, TakesIsCalm
    <3> QED BY <3>1, <3>2
  <2>2. CASE NoMatch(a) \/ ToggleAnswered(a)
    BY <1>2, <2>2 DEF NoMatch, ToggleAnswered
  <2>3. CASE IeeeAnswered(a)
    <3> DEFINE i == ByShort(a)
    <3>1. CASE i = Invalid
      BY <1>2, <2>3, <3>1 DEF IeeeAnswered
    <3>2. CASE i # Invalid
      <4>1. i \in Slots
        BY <3>2, Lookups
      <4>2. dev' = [dev EXCEPT ![i].ieee = a, ![i].state = "CONFIGURE_BINDING"] /\ since' = since
        BY <2>3, <3>2 DEF IeeeAnswered
      <4> HIDE DEF i
      <4> QED BY <1>1, <4>1, <4>2 DEF SlotType, Calm
    <3> QED BY <3>1, <3>2
  <2>4. CASE BindAnswered(a)
    <3> DEFINE i == BindSlot
    <3>1. CASE i = Invalid
      BY <1>2, <2>4, <3>1 DEF BindAnswered
    <3>2. CASE i # Invalid
      <4>1. i \in Slots
        BY <3>2, Lookups DEF BindSlot
      <4>2. dev' = [dev EXCEPT ![i].state = "CONFIGURE_REPORTING"] /\ since' = since
        BY <2>4, <3>2 DEF BindAnswered
      <4> HIDE DEF i
      <4> QED BY <1>1, <4>1, <4>2, StateTaken, TakesIsCalm
    <3> QED BY <3>1, <3>2
  <2> QED BY <1>6, <2>1, <2>2, <2>3, <2>4 DEF Answered
<1>7. ASSUME NEW a \in Devices \cup {Zero}, Failed(a) PROVE Calm /\ since' = since
  <2>1. CASE ToggleFailed(a)
    <3> DEFINE i == ByShort(a)
    <3>1. CASE i = Invalid
      BY <1>2, <2>1, <3>1 DEF ToggleFailed
    <3>2. CASE i # Invalid
      <4>1. i \in Slots
        BY <3>2, Lookups
      <4>2. dev' = [dev EXCEPT ![i].pending = Problems + i + 1] /\ since' = since
        BY <2>1, <3>2 DEF ToggleFailed
      <4>3. Problems + i + 1 > i
        BY <4>1, SimpleGwAssumption DEF Slots
      <4> HIDE DEF i
      <4> QED BY <1>1, <4>1, <4>2, <4>3 DEF SlotType, Calm
    <3> QED BY <3>1, <3>2
  <2>2. CASE \E k \in Kinds : Unanswered(k, a)
    BY <1>2, <2>2 DEF Unanswered
  <2> QED BY <1>7, <2>1, <2>2 DEF Failed
<1>8. ASSUME NEW a \in Devices \cup {Zero}, Leave(a) \/ LeaveAnswered(a)
      PROVE  Calm /\ since' = since
  <2>1. LeaveIndication(a) /\ since' = since
    BY <1>8 DEF Leave, LeaveAnswered, Leaves
  <2>2. CASE ByIeee(a) = Invalid
    BY <1>2, <2>1, <2>2 DEF LeaveIndication
  <2>3. CASE ByIeee(a) # Invalid
    <3>1. ByIeee(a) \in Slots /\ dev' = [dev EXCEPT ![ByIeee(a)].state = "NO_DEVICE"]
      BY <2>1, <2>3, Lookups DEF LeaveIndication
    <3> QED BY <1>1, <2>1, <3>1, StateTaken, TakesIsCalm
  <2> QED BY <2>2, <2>3
<1>9. CASE UNCHANGED vars
  BY <1>2, <1>9 DEF vars
<1> QED BY <1>3, <1>4, <1>5, <1>6, <1>7, <1>8, <1>9 DEF Next

LEMMA PacedStep == TypeOK /\ TogglePaced /\ [Next]_vars => TogglePaced'
<1> SUFFICES ASSUME TypeOK, TogglePaced, [Next]_vars PROVE TogglePaced'
  OBVIOUS
<1>1. dev \in Table /\ dev \in [Slots -> SlotType] /\ since \in [Slots -> 0 .. (DevNumber + 1)]
  BY TypeParts DEF Table
<1>2. Slots \subseteq Int /\ DevNumber \in Nat /\ \A i \in Slots : i >= 0 /\ i + 1 <= DevNumber
  BY SimpleGwAssumption DEF Slots
<1> SUFFICES ASSUME NEW i \in Slots, dev'[i].state = "COMPLETED", since'[i] > 0
             PROVE  since'[i] + dev'[i].pending >= i + 2
  BY DEF TogglePaced, Toggled
<1>3. dev[i].state = "COMPLETED" /\ since[i] > 0 => since[i] + dev[i].pending >= i + 2
  BY DEF TogglePaced, Toggled
<1>4. dev[i].pending \in Int /\ dev[i].pending >= 0 /\ since[i] \in Int
      /\ dev'[i].pending \in Int /\ dev'[i].pending >= 0
  <2>1. TypeOK'
    BY TypeStep
  <2>2. dev'[i] \in SlotType
    BY <2>1 DEF TypeOK
  <2> QED BY <1>1, <1>2, <2>2, SimpleGwAssumption DEF SlotType
<1>5. ToggleWait(i) = i + 1 /\ (since' = since => since'[i] >= 1)
  BY <1>1, <1>2, <1>4 DEF ToggleWait
<1>6. CASE \E a : ReportAnswered(a)
  <2>1. PICK a : ReportAnswered(a)
    BY <1>6
  <2> DEFINE k == ByState("CONFIGURE_REPORTING")
  <2>2. CASE k = Invalid
    BY <1>3, <2>1, <2>2 DEF ReportAnswered
  <2>3. CASE k # Invalid
    <3>1. k \in Slots
      BY <2>3, Lookups
    <3>2. dev' = [[dev EXCEPT ![k].state = "COMPLETED"] EXCEPT ![k].pending = ToggleWait(k)]
          /\ since' = since
      BY <2>1, <2>3 DEF ReportAnswered
    <3> HIDE DEF k
    <3>3. CASE i # k
      BY <1>1, <1>3, <3>1, <3>2, <3>3
    <3>4. CASE i = k
      <4>1. dev'[i].pending = i + 1
        BY <1>1, <1>5, <3>1, <3>2, <3>4 DEF SlotType
      <4> QED BY <1>2, <1>4, <1>5, <3>2, <4>1
    <3> QED BY <3>3, <3>4
  <2> QED BY <2>2, <2>3
<1>7. CASE ToggleBulbs
  <2>1. CASE i \in Due
    <3>1. since'[i] = 1 /\ dev'[i].pending = i + 1
      BY <1>1, <1>7, <2>1 DEF ToggleBulbs, ToggleWait, SlotType
    <3> QED BY <1>2, <3>1
  <2>2. CASE i \notin Due /\ i \in Toggled
    <3>1. dev'[i].pending = dev[i].pending - 1 /\ dev[i].state = "COMPLETED"
      BY <1>1, <1>7, <2>2 DEF ToggleBulbs, SlotType, Toggled
    <3>2. CASE since[i] \in 1 .. DevNumber
      <4>1. since'[i] = since[i] + 1
        BY <1>7, <2>2, <3>2 DEF ToggleBulbs
      <4> QED BY <1>2, <1>3, <1>4, <3>1, <3>2, <4>1
    <3>3. CASE since[i] \notin 1 .. DevNumber
      <4>1. since'[i] = since[i] /\ since[i] = DevNumber + 1
        BY <1>1, <1>2, <1>7, <2>2, <3>3 DEF ToggleBulbs
      <4> QED BY <1>2, <1>4, <3>1, <4>1
    <3> QED BY <3>2, <3>3
  <2>3. CASE i \notin Due /\ i \notin Toggled
    BY <1>7, <2>3 DEF ToggleBulbs, Toggled
  <2> QED BY <2>1, <2>2, <2>3
<1>8. CASE Reboot
  <2>1. dev' = Restored(nv) /\ since' = since /\ nv \in [Slots -> SlotType]
    BY <1>8, TypeParts DEF Reboot, Table
  <2>2. dev'[i] = IF nv[i].state = "COMPLETED" THEN [nv[i] EXCEPT !.pending = ToggleWait(i)]
                  ELSE nv[i]
    BY <2>1 DEF Restored
  <2>3. dev'[i].pending = i + 1
    BY <1>5, <2>1, <2>2 DEF SlotType
  <2> QED BY <1>2, <1>4, <1>5, <2>1, <2>3
<1>9. CASE ~ (\E a : ReportAnswered(a)) /\ ~ ToggleBulbs /\ ~ Reboot
  <2>1. Calm /\ since' = since
    BY <1>9, OthersAreCalm
  <2> QED BY <1>2, <1>3, <1>4, <2>1 DEF Calm
<1> QED BY <1>6, <1>7, <1>8, <1>9

\* Between two toggles of slot i lie i + 2 runs of toggle_bulbs or more, in
\* every environment: neither a failed toggle, which sets the counter of the
\* slot in the middle of a wait, nor a restart, nor a device that leaves and
\* another that is commissioned in its slot makes the next one come early.
\* (readme.txt:67 gives one run less.)
THEOREM TogglesArePaced == Spec => []TogglePaced
<1>1. Init => TogglePaced
  BY DEF Init, TogglePaced, Toggled, Empty
<1>2. TypeOK /\ TogglePaced /\ [Next]_vars => TogglePaced'
  BY PacedStep
<1> QED BY <1>1, <1>2, TypeCorrect, PTL DEF Spec

-----------------------------------------------------------------------------
(* Discoveries are watched.                                                *)

Watched(i) == Expire("onoffTmo", i) \/ Expire("iasTmo", i) \/ Removing(i)

\* Scheduling a callback keeps the removals scheduled before ...
LEMMA ScheduleKeeps ==
  ASSUME calls \in Seq(CallType), NEW f \in Steps, NEW i \in Slots, Schedule(f, i)
  PROVE  /\ \A j \in Slots : Removing(j) => Removing(j)'
         /\ f = "remove" => Removing(i)'
<1>1. Alarm(f, i) \in CallType
  BY DEF Alarm, CallType
<1>2. calls' = Append(calls, Alarm(f, i)) /\ Len(calls') = Len(calls) + 1
      /\ calls'[Len(calls) + 1] = Alarm(f, i) /\ \A k \in 1 .. Len(calls) : calls'[k] = calls[k]
  BY <1>1 DEF Schedule, Call
<1> QED BY <1>2 DEF Removing

\* ... and running one keeps all but itself.
LEMMA StartKeeps ==
  ASSUME calls \in Seq(CallType), NEW f, NEW i, IsNext(f, i), calls' = Tail(calls),
         NEW j \in Slots, Removing(j), f = "remove" => j # i
  PROVE  Removing(j)'
<1>1. PICK k \in 1 .. Len(calls) : calls[k] = Alarm("remove", j)
  BY DEF Removing
<1>2. k # 1
  BY <1>1 DEF IsNext, Alarm
<1>3. k - 1 \in 1 .. Len(calls') /\ calls'[k - 1] = calls[k]
  BY <1>1, <1>2
<1> QED BY <1>1, <1>3 DEF Removing

LEMMA AlarmsDiffer ==
  ASSUME NEW f, NEW i, NEW g, NEW j, Alarm(f, i) = Alarm(g, j)
  PROVE  f = g /\ i = j
<1>1. Alarm(f, i).fn = f /\ Alarm(f, i).idx = i /\ Alarm(g, j).fn = g /\ Alarm(g, j).idx = j
  BY DEF Alarm
<1> QED BY <1>1

LEMMA WatchedStep ==
  ASSUME "reboot" \notin Env, TypeOK, DiscoveryIsWatched, [Next]_vars
  PROVE  DiscoveryIsWatched'
<1> SUFFICES ASSUME NEW j \in Slots, dev'[j].state = "MATCH_DESC_DISCOVERY"
             PROVE  Watched(j)'
  BY DEF DiscoveryIsWatched, Watched
<1>1. dev \in [Slots -> SlotType] /\ dev \in Table /\ calls \in Seq(CallType)
  BY TypeParts DEF Table
<1>2. dev[j].state = "MATCH_DESC_DISCOVERY" => Watched(j)
  BY DEF DiscoveryIsWatched, Watched
<1>3. dev[j].state = "MATCH_DESC_DISCOVERY" /\ alarms \subseteq alarms' /\ calls' = calls => Watched(j)'
  BY <1>2 DEF Watched, Expire, Removing
<1>4. {"ieee", "bind", "report", "cie", "remove"} \subseteq Steps
  BY DEF Steps
<1>5. ASSUME NEW a \in Devices, Announce(a) PROVE Watched(j)'
  <2> DEFINE i == ByState("NO_DEVICE")
  <2>1. CASE Known(a) \/ i = Invalid
    BY <1>3, <1>5, <2>1 DEF Announce, Adopt
  <2>2. CASE ~ Known(a) /\ i # Invalid
    <3>1. i \in Slots
      BY <2>2, Lookups
    <3>2. dev' = [dev EXCEPT ![i].short = a, ![i].state = "MATCH_DESC_DISCOVERY"]
          /\ alarms' = alarms \cup Alarms({"onoff", "onoffTmo"}, i) /\ calls' = calls
      BY <1>5, <2>2 DEF Announce, Adopt
    <3> HIDE DEF i
    <3>3. CASE j = i
      BY <3>2, <3>3 DEF Watched, Expire, Alarms
    <3>4. CASE j # i
      BY <1>1, <1>3, <3>1, <3>2, <3>4
    <3> QED BY <3>3, <3>4
  <2> QED BY <2>1, <2>2
<1>6. ASSUME NEW i \in Slots, Timer(i) PROVE Watched(j)'
  <2>1. dev' = dev
    BY <1>6 DEF Timer, FindOnoffDevice, FindIasZoneDevice, FindOnoffDeviceTmo,
                FindIasZoneDeviceTmo, SendToggleReq
  <2>2. CASE FindOnoffDevice(i) \/ FindIasZoneDevice(i) \/ SendToggleReq(i)
    <3>1. calls' = calls /\ \E f \in {"onoff", "ias", "toggle"} : alarms' = alarms \ {Alarm(f, i)}
      BY <2>2 DEF FindOnoffDevice, FindIasZoneDevice, SendToggleReq
    <3>2. Expire("onoffTmo", j) => Expire("onoffTmo", j)'
      BY <3>1, AlarmsDiffer DEF Expire
    <3>3. Expire("iasTmo", j) => Expire("iasTmo", j)'
      BY <3>1, AlarmsDiffer DEF Expire
    <3> QED BY <1>2, <2>1, <3>1, <3>2, <3>3 DEF Watched, Removing
  <2>3. CASE FindOnoffDeviceTmo(i) \/ FindIasZoneDeviceTmo(i)
    <3>1. \E f \in {"onoffTmo", "iasTmo"} : alarms' = alarms \ {Alarm(f, i)}
      BY <2>3 DEF FindOnoffDeviceTmo, FindIasZoneDeviceTmo
    <3>2. CASE j = i
      <4>1. Schedule("remove", i)
        BY <2>1, <2>3, <3>2 DEF FindOnoffDeviceTmo, FindIasZoneDeviceTmo
      <4> QED BY <1>1, <1>4, <3>2, <4>1, ScheduleKeeps DEF Watched
    <3>3. CASE j # i
      <4>1. Expire("onoffTmo", j) => Expire("onoffTmo", j)'
        BY <3>1, <3>3, AlarmsDiffer DEF Expire
      <4>2. Expire("iasTmo", j) => Expire("iasTmo", j)'
        BY <3>1, <3>3, AlarmsDiffer DEF Expire
      <4>3. Removing(j) => Removing(j)'
        <5>1. calls' = calls \/ Schedule("remove", i)
          BY <2>3 DEF FindOnoffDeviceTmo, FindIasZoneDeviceTmo
        <5>2. CASE calls' = calls
          BY <5>2 DEF Removing
        <5>3. CASE Schedule("remove", i)
          BY <1>1, <1>4, <5>3, ScheduleKeeps
        <5> QED BY <5>1, <5>2, <5>3
      <4> QED BY <1>2, <2>1, <4>1, <4>2, <4>3 DEF Watched
    <3> QED BY <3>2, <3>3
  <2> QED BY <1>6, <2>2, <2>3 DEF Timer
<1>7. ASSUME NEW i \in Slots, RunCall(i) PROVE Watched(j)'
  <2>1. PICK f : /\ IsNext(f, i) /\ calls' = Tail(calls)
                 /\ f = "remove" => dev' = [dev EXCEPT ![i] = Empty]
    BY <1>7 DEF RunCall, SendStep, WriteCieAddr, RemoveDevice, Removed
  <2>2. dev[j].state = "MATCH_DESC_DISCOVERY"
    <3>1. CASE \E g \in Steps : SendStep(g, i)
      BY <3>1 DEF SendStep
    <3>2. CASE WriteCieAddr(i)
      BY <1>1, <3>2 DEF WriteCieAddr
    <3>3. CASE RemoveDevice(i)
      BY <1>1, <3>3 DEF RemoveDevice, Removed, Empty
    <3> QED BY <1>7, <3>1, <3>2, <3>3 DEF RunCall
  <2>3. alarms' = alarms \/ alarms' = alarms \ {Alarm("toggle", i)}
    BY <1>7 DEF RunCall, SendStep, WriteCieAddr, RemoveDevice
  <2>4. Expire("onoffTmo", j) => Expire("onoffTmo", j)'
    BY <2>3, AlarmsDiffer DEF Expire
  <2>5. Expire("iasTmo", j) => Expire("iasTmo", j)'
    BY <2>3, AlarmsDiffer DEF Expire
  <2>6. f = "remove" => j # i
    BY <1>1, <2>1 DEF Empty
  <2>7. Removing(j) => Removing(j)'
    BY <1>1, <2>1, <2>6, StartKeeps
  <2> QED BY <1>2, <2>2, <2>4, <2>5, <2>7 DEF Watched
<1>8. ASSUME NEW a \in Devices \cup {Zero},
             \/ MatchFound(a) \/ IasFound(a) \/ NoIas(a)
             \/ IeeeAnswered(a) \/ BindAnswered(a) \/ ReportAnswered(a)
      PROVE  Watched(j)'
  <2>1. \/ dev' = dev /\ alarms' = alarms /\ calls' = calls
        \/ \E i \in Slots : /\ dev'[i].state # "MATCH_DESC_DISCOVERY"
                            /\ \A k \in Slots \ {i} : dev'[k] = dev[k]
                            /\ \A f \in {"onoffTmo", "iasTmo"} : Expire(f, j) /\ j # i => Expire(f, j)'
                            /\ calls' = calls \/ \E f \in Steps : Schedule(f, i)
    <3>1. CASE MatchFound(a) \/ IasFound(a) \/ NoIas(a)
      <4> DEFINE i == ByShort(a)
      <4>1. CASE i = Invalid
        BY <3>1, <4>1 DEF MatchFound, IasFound, NoIas
      <4>2. CASE i # Invalid
        <5>1. i \in Slots
          BY <4>2, Lookups
        <5>2. /\ \E s \in {"IEEE_ADDR_DISCOVERY", "WRITE_CIE_ADDR", "COMPLETED_NO_TOGGLE"} :
                    dev' = [dev EXCEPT ![i].state = s]
              /\ \E f \in {"onoffTmo", "iasTmo"} : alarms' = alarms \ {Alarm(f, i)}
              /\ calls' = calls \/ \E f \in Steps : Schedule(f, i)
          BY <1>4, <3>1, <4>2 DEF MatchFound, IasFound, NoIas
        <5> HIDE DEF i
        <5>3. /\ dev'[i].state # "MATCH_DESC_DISCOVERY"
              /\ \A k \in Slots \ {i} : dev'[k] = dev[k]
          BY <1>1, <5>1, <5>2, StateTaken DEF Takes
        <5>4. \A f \in {"onoffTmo", "iasTmo"} : Expire(f, j) /\ j # i => Expire(f, j)'
          BY <5>2, AlarmsDiffer DEF Expire
        <5> QED BY <5>1, <5>2, <5>3, <5>4
      <4> QED BY <4>1, <4>2
    <3>2. CASE IeeeAnswered(a)
      <4> DEFINE i == ByShort(a)
      <4>1. CASE i = Invalid
        BY <3>2, <4>1 DEF IeeeAnswered
      <4>2. CASE i # Invalid
        <5>1. i \in Slots /\ Schedule("bind", i) /\ alarms' = alarms
              /\ dev' = [dev EXCEPT ![i].ieee = a, ![i].state = "CONFIGURE_BINDING"]
          BY <3>2, <4>2, Lookups DEF IeeeAnswered
        <5> HIDE DEF i
        <5>2. /\ dev'[i].state # "MATCH_DESC_DISCOVERY"
              /\ \A k \in Slots \ {i} : dev'[k] = dev[k]
          BY <1>1, <5>1 DEF SlotType
        <5>3. \A f \in {"onoffTmo", "iasTmo"} : Expire(f, j) => Expire(f, j)'
          BY <5>1 DEF Expire
        <5> QED BY <1>4, <5>1, <5>2, <5>3
      <4> QED BY <4>1, <4>2
    <3>3. CASE BindAnswered(a)
      <4> DEFINE i == BindSlot
      <4>1. CASE i = Invalid
        BY <3>3, <4>1 DEF BindAnswered
      <4>2. CASE i # Invalid
        <5>1. i \in Slots /\ Schedule("report", i) /\ alarms' = alarms
              /\ dev' = [dev EXCEPT ![i].state = "CONFIGURE_REPORTING"]
          BY <3>3, <4>2, Lookups DEF BindAnswered, BindSlot
        <5> HIDE DEF i
        <5>2. /\ dev'[i].state # "MATCH_DESC_DISCOVERY"
              /\ \A k \in Slots \ {i} : dev'[k] = dev[k]
          BY <1>1, <5>1, StateTaken DEF Takes
        <5>3. \A f \in {"onoffTmo", "iasTmo"} : Expire(f, j) => Expire(f, j)'
          BY <5>1 DEF Expire
        <5> QED BY <1>4, <5>1, <5>2, <5>3
      <4> QED BY <4>1, <4>2
    <3>4. CASE ReportAnswered(a)
      <4> DEFINE i == ByState("CONFIGURE_REPORTING")
      <4>1. CASE i = Invalid
        BY <3>4, <4>1 DEF ReportAnswered
      <4>2. CASE i # Invalid
        <5>1. i \in Slots /\ calls' = calls /\ alarms' = alarms
              /\ dev' = [[dev EXCEPT ![i].state = "COMPLETED"] EXCEPT ![i].pending = ToggleWait(i)]
          BY <3>4, <4>2, Lookups DEF ReportAnswered
        <5> HIDE DEF i
        <5>2. /\ dev'[i].state # "MATCH_DESC_DISCOVERY"
              /\ \A k \in Slots \ {i} : dev'[k] = dev[k]
          BY <1>1, <5>1 DEF SlotType
        <5>3. \A f \in {"onoffTmo", "iasTmo"} : Expire(f, j) => Expire(f, j)'
          BY <5>1 DEF Expire
        <5> QED BY <5>1, <5>2, <5>3
      <4> QED BY <4>1, <4>2
    <3> QED BY <1>8, <3>1, <3>2, <3>3, <3>4
  <2>2. CASE dev' = dev /\ alarms' = alarms /\ calls' = calls
    BY <1>3, <2>2
  <2>3. ASSUME NEW i \in Slots,
               dev'[i].state # "MATCH_DESC_DISCOVERY",
               \A k \in Slots \ {i} : dev'[k] = dev[k],
               \A f \in {"onoffTmo", "iasTmo"} : Expire(f, j) /\ j # i => Expire(f, j)',
               calls' = calls \/ \E f \in Steps : Schedule(f, i)
        PROVE  Watched(j)'
    <3>1. j # i /\ dev[j].state = "MATCH_DESC_DISCOVERY"
      BY <2>3
    <3>2. Removing(j) => Removing(j)'
      BY <1>1, <2>3, ScheduleKeeps DEF Removing
    <3> QED BY <1>2, <2>3, <3>1, <3>2 DEF Watched
  <2> QED BY <2>1, <2>2, <2>3
<1>9. ASSUME NEW a \in Devices \cup {Zero}, NoMatch(a) PROVE Watched(j)'
  <2>1. dev' = dev /\ calls' = calls /\ dev[j].state = "MATCH_DESC_DISCOVERY"
    BY <1>9 DEF NoMatch
  <2>2. CASE ByShort(a) = j
    <3>1. j # Invalid
      BY SimpleGwAssumption DEF Slots, Invalid
    <3> QED BY <1>9, <2>2, <3>1 DEF NoMatch, IasTimers, Alarms, Watched, Expire
  <2>3. CASE ByShort(a) # j
    <3>1. \A f \in {"onoffTmo", "iasTmo"} : Expire(f, j) => Expire(f, j)'
      BY <1>9, <2>3, AlarmsDiffer DEF NoMatch, Expire
    <3> QED BY <1>2, <2>1, <3>1 DEF Watched, Removing
  <2> QED BY <2>2, <2>3
<1>10. ASSUME NEW a \in Devices \cup {Zero}, ToggleAnswered(a) \/ Failed(a) PROVE Watched(j)'
  <2>1. alarms' = alarms /\ calls' = calls
    BY <1>10 DEF ToggleAnswered, Failed, ToggleFailed, Unanswered
  <2>2. dev[j].state = "MATCH_DESC_DISCOVERY"
    BY <1>1, <1>10, Lookups DEF ToggleAnswered, Failed, ToggleFailed, Unanswered, SlotType
  <2> QED BY <1>3, <2>1, <2>2
<1>11. ASSUME NEW a \in Devices \cup {Zero}, Leave(a) \/ LeaveAnswered(a) PROVE Watched(j)'
  <2>1. LeaveIndication(a) /\ calls' = calls
    BY <1>11 DEF Leave, LeaveAnswered, Leaves
  <2>2. CASE ByIeee(a) = Invalid
    BY <1>3, <2>1, <2>2 DEF LeaveIndication
  <2>3. CASE ByIeee(a) # Invalid
    <3> DEFINE i == ByIeee(a)
    <3>1. i \in Slots /\ dev' = [dev EXCEPT ![i].state = "NO_DEVICE"]
          /\ alarms' = alarms \ Alarms({"toggle", "onoffTmo"}, i)
      BY <2>1, <2>3, Lookups DEF LeaveIndication
    <3> HIDE DEF i
    <3>2. j # i /\ dev[j].state = "MATCH_DESC_DISCOVERY"
      BY <1>1, <3>1, StateTaken DEF Takes
    <3>3. \A f \in {"onoffTmo", "iasTmo"} : Expire(f, j) => Expire(f, j)'
      BY <3>1, <3>2, AlarmsDiffer DEF Expire, Alarms
    <3> QED BY <1>2, <2>1, <3>2, <3>3 DEF Watched, Removing
  <2> QED BY <2>2, <2>3
<1>12. CASE ToggleBulbs
  <2>1. dev[j].state = "MATCH_DESC_DISCOVERY"
    BY <1>1, <1>12 DEF ToggleBulbs, Toggled, Due, SlotType
  <2>2. \A f \in {"onoffTmo", "iasTmo"} : Expire(f, j) => Expire(f, j)'
    BY <1>12, AlarmsDiffer DEF ToggleBulbs, TickAgain, Expire, Tick
  <2> QED BY <1>2, <1>12, <2>1, <2>2 DEF Watched, Removing, ToggleBulbs
<1>13. CASE UNCHANGED vars
  BY <1>3, <1>13 DEF vars
<1>14. ~ Reboot
  BY DEF Reboot
<1> QED BY <1>5, <1>6, <1>7, <1>8, <1>9, <1>10, <1>11, <1>12, <1>13, <1>14 DEF Next, Answered

\* While the gateway does not restart, every device that waits for a match
\* descriptor answer has a timeout or its removal before it, with late answers
\* too: a late answer of a device that was removed finds no slot, and one that
\* finds a slot cancels the timeout of that slot only, with its state.
THEOREM DiscoveriesAreWatched ==
  "reboot" \notin Env => (Spec => []DiscoveryIsWatched)
<1> SUFFICES ASSUME "reboot" \notin Env PROVE Spec => []DiscoveryIsWatched
  OBVIOUS
<1>1. Init => DiscoveryIsWatched
  BY DEF Init, DiscoveryIsWatched, Empty
<1>2. TypeOK /\ DiscoveryIsWatched /\ [Next]_vars => DiscoveryIsWatched'
  BY WatchedStep
<1> QED BY <1>1, <1>2, TypeCorrect, PTL DEF Spec

-----------------------------------------------------------------------------
(* A joining device is given a slot.                                       *)

LEMMA RequestsDiffer ==
  ASSUME NEW k, NEW a, NEW l, NEW b, Request(k, a) = Request(l, b)
  PROVE  k = l /\ a = b
<1>1. Request(k, a).kind = k /\ Request(k, a).dst = a /\ Request(l, b).kind = l /\ Request(l, b).dst = b
  BY DEF Request
<1> QED BY <1>1

\* The addresses of a slot are those of a device in the network, or zero.
Owned(s) ==
    /\ s.short \in net \cup {Zero} /\ s.ieee \in {Zero, s.short}
    /\ s.state = "NO_DEVICE" => s.short = Zero

\* A device outside the network has left nothing behind: no slot, in RAM or in
\* NVRAM, has its address.  A device asked to leave has lost its slot already.
NoneLeft ==
    /\ \A i \in Slots : Owned(dev[i]) /\ Owned(nv[i]) /\ nv[i].short \in {Zero, dev[i].short}
    /\ \A a \in Devices : Request("leave", a) \in reqs =>
          a \in net /\ \A i \in Slots : dev[i].short # a

\* What almost every step does.
SlotKept(i) ==
    /\ dev'[i].short = dev[i].short /\ dev'[i].ieee \in {dev[i].ieee, dev[i].short}
    /\ dev'[i].state = "NO_DEVICE" => dev[i].state = "NO_DEVICE"
CopyKept(i) ==
    \/ nv'[i] = nv[i]
    \/ /\ nv'[i].short = dev'[i].short /\ nv'[i].ieee = dev'[i].ieee
       /\ nv'[i].state = dev'[i].state
Harmless ==
    /\ net' = net
    /\ \A i \in Slots : SlotKept(i) /\ CopyKept(i)
    /\ \A a : Request("leave", a) \in reqs' => Request("leave", a) \in reqs

LEMMA HarmlessKeeps ==
  ASSUME NoneLeft, Harmless
  PROVE  NoneLeft'
<1>1. ASSUME NEW i \in Slots PROVE Owned(dev[i])' /\ Owned(nv[i])' /\ nv'[i].short \in {Zero, dev'[i].short}
  <2>1. Owned(dev[i]) /\ Owned(nv[i]) /\ nv[i].short \in {Zero, dev[i].short}
        /\ SlotKept(i) /\ CopyKept(i) /\ net' = net
    BY DEF NoneLeft, Harmless
  <2>2. Owned(dev[i])'
    BY <2>1 DEF Owned, SlotKept
  <2>3. CASE nv'[i] = nv[i]
    BY <2>1, <2>2, <2>3 DEF Owned, SlotKept
  <2>4. CASE nv'[i] # nv[i]
    BY <2>1, <2>2, <2>4 DEF Owned, CopyKept
  <2> QED BY <2>2, <2>3, <2>4
<1>2. ASSUME NEW a \in Devices, Request("leave", a) \in reqs'
      PROVE  a \in net' /\ \A i \in Slots : dev'[i].short # a
  BY <1>2 DEF NoneLeft, Harmless, SlotKept
<1> QED BY <1>1, <1>2 DEF NoneLeft

LEMMA TakesIsHarmless ==
  ASSUME NEW i, NEW s, Takes(i, s), s # "NO_DEVICE"
  PROVE  \A j \in Slots : SlotKept(j)
  BY DEF Takes, SlotKept

\* Every step but the announcement of a device, a removal, the answer of a
\* device asked to leave, and a restart.
LEMMA OthersAreHarmless ==
  ASSUME TypeOK, [Next]_vars, "leave" \notin Env,
         \A a \in Devices : ~ Announce(a),
         \A i \in Slots : ~ RemoveDevice(i), \A a : ~ LeaveAnswered(a), ~ Reboot
  PROVE  Harmless
<1>1. dev \in Table /\ dev \in [Slots -> SlotType]
  BY TypeParts DEF Table
<1>2. dev' = dev => \A i \in Slots : SlotKept(i)
  BY DEF SlotKept
<1>3. nv' = nv => \A i \in Slots : CopyKept(i)
  BY DEF CopyKept
<1>4. ASSUME NEW k, k # "leave", NEW a, reqs' = reqs \cup {Request(k, a)} \/ reqs' \subseteq reqs
      PROVE  \A b : Request("leave", b) \in reqs' => Request("leave", b) \in reqs
  BY <1>4, RequestsDiffer
<1>5. ASSUME NEW i \in Slots, Timer(i) PROVE Harmless
  <2>1. dev' = dev /\ nv' = nv /\ net' = net
    BY <1>5 DEF Timer, FindOnoffDevice, FindIasZoneDevice, FindOnoffDeviceTmo,
                FindIasZoneDeviceTmo, SendToggleReq
  <2>2. \E k \in {"match", "iasMatch", "toggle"} :
           reqs' = reqs \cup {Request(k, dev[i].short)} \/ reqs' \subseteq reqs
    BY <1>5 DEF Timer, FindOnoffDevice, FindIasZoneDevice, FindOnoffDeviceTmo,
                FindIasZoneDeviceTmo, SendToggleReq
  <2> QED BY <1>2, <1>3, <1>4, <2>1, <2>2 DEF Harmless
<1>6. ASSUME NEW i \in Slots, RunCall(i) PROVE Harmless
  <2>1. CASE \E f \in Steps : SendStep(f, i)
    BY <1>2, <1>3, <1>4, <2>1 DEF SendStep, Harmless
  <2>2. CASE WriteCieAddr(i)
    BY <1>1, <1>3, <2>2, StateTaken, TakesIsHarmless DEF WriteCieAddr, Harmless
  <2> QED BY <1>6, <2>1, <2>2 DEF RunCall
<1>7. ASSUME NEW a \in Devices \cup {Zero}, Answered(a) PROVE Harmless
  <2>0. net' = net /\ reqs' \subseteq reqs
    BY <1>7 DEF Answered, MatchFound, NoMatch, IasFound, NoIas, IeeeAnswered, BindAnswered,
                ReportAnswered, ToggleAnswered, Answer
  <2>1. CASE MatchFound(a) \/ IasFound(a) \/ NoIas(a)
    <3> DEFINE i == ByShort(a)
    <3>0. nv' = nv
      BY <2>1 DEF MatchFound, IasFound, NoIas
    <3>1. CASE i = Invalid
      BY <1>2, <1>3, <2>0, <2>1, <3>0, <3>1 DEF MatchFound, IasFound, NoIas, Harmless
    <3>2. CASE i # Invalid
      <4>1. i \in Slots
        BY <3>2, Lookups
      <4>2. \E s \in {"IEEE_ADDR_DISCOVERY", "WRITE_CIE_ADDR", "COMPLETED_NO_TOGGLE"} :
               dev' = [dev EXCEPT ![i].state = s]
        BY <2>1, <3>2 DEF MatchFound, IasFound, NoIas
      <4> HIDE DEF i
      <4> QED BY <1>1, <1>3, <2>0, <3>0, <4>1, <4>2, StateTaken, TakesIsHarmless DEF Harmless
    <3> QED BY <3>1, <3>2
  <2>2. CASE NoMatch(a) \/ ToggleAnswered(a)
    BY <1>2, <1>3, <2>0, <2>2 DEF NoMatch, ToggleAnswered, Harmless
  <2>3. CASE IeeeAnswered(a)
    <3> DEFINE i == ByShort(a)
    <3>0. nv' = nv
      BY <2>3 DEF IeeeAnswered
    <3>1. CASE i = Invalid
      BY <1>2, <1>3, <2>0, <2>3, <3>0, <3>1 DEF IeeeAnswered, Harmless
    <3>2. CASE i # Invalid
      <4>1. i \in Slots /\ dev[i].short = a
        BY <3>2, Lookups
      <4>2. dev' = [dev EXCEPT ![i].ieee = a, ![i].state = "CONFIGURE_BINDING"]
        BY <2>3, <3>2 DEF IeeeAnswered
      <4> HIDE DEF i
      <4>3. \A j \in Slots : SlotKept(j)
        BY <1>1, <4>1, <4>2 DEF SlotType, SlotKept
      <4> QED BY <1>3, <2>0, <3>0, <4>3 DEF Harmless
    <3> QED BY <3>1, <3>2
  <2>4. CASE BindAnswered(a)
    <3> DEFINE i == BindSlot
    <3>0. nv' = nv
      BY <2>4 DEF BindAnswered
    <3>1. CASE i = Invalid
      BY <1>2, <1>3, <2>0, <2>4, <3>0, <3>1 DEF BindAnswered, Harmless
    <3>2. CASE i # Invalid
      <4>1. i \in Slots
        BY <3>2, Lookups DEF BindSlot
      <4>2. dev' = [dev EXCEPT ![i].state = "CONFIGURE_REPORTING"]
        BY <2>4, <3>2 DEF BindAnswered
      <4> HIDE DEF i
      <4> QED BY <1>1, <1>3, <2>0, <3>0, <4>1, <4>2, StateTaken, TakesIsHarmless DEF Harmless
    <3> QED BY <3>1, <3>2
  <2>5. CASE ReportAnswered(a)
    <3> DEFINE i == ByState("CONFIGURE_REPORTING")
               t == [dev EXCEPT ![i].state = "COMPLETED"]
    <3>1. CASE i = Invalid
      BY <1>2, <1>3, <2>0, <2>5, <3>1 DEF ReportAnswered, Harmless
    <3>2. CASE i # Invalid
      <4>1. i \in Slots /\ nv' = Saved(t) /\ dev' = [t EXCEPT ![i].pending = ToggleWait(i)]
        BY <2>5, <3>2, Lookups DEF ReportAnswered
      <4> HIDE DEF i
      <4>2. \A j \in Slots : SlotKept(j) /\ CopyKept(j)
        BY <1>1, <4>1 DEF SlotType, SlotKept, CopyKept, Saved
      <4> QED BY <2>0, <4>2 DEF Harmless
    <3> QED BY <3>1, <3>2
  <2> QED BY <1>7, <2>1, <2>2, <2>3, <2>4, <2>5 DEF Answered
<1>8. ASSUME NEW a \in Devices \cup {Zero}, Failed(a) PROVE Harmless
  <2>0. net' = net /\ reqs' \subseteq reqs /\ nv' = nv
    BY <1>8 DEF Failed, ToggleFailed, Unanswered, Fails
  <2>1. CASE ToggleFailed(a)
    <3>1. \A j \in Slots : SlotKept(j)
      BY <1>1, <2>1, Lookups DEF ToggleFailed, SlotType, SlotKept
    <3> QED BY <1>3, <2>0, <3>1 DEF Harmless
  <2>2. CASE \E k \in Kinds : Unanswered(k, a)
    BY <1>2, <1>3, <2>0, <2>2 DEF Unanswered, Harmless
  <2> QED BY <1>8, <2>1, <2>2 DEF Failed
<1>9. CASE ToggleBulbs
  <2>1. \A j \in Slots : SlotKept(j)
    BY <1>1, <1>9 DEF ToggleBulbs, SlotType, SlotKept
  <2> QED BY <1>3, <1>9, <2>1 DEF ToggleBulbs, Harmless
<1>10. CASE UNCHANGED vars
  BY <1>2, <1>3, <1>10 DEF vars, Harmless
<1>11. \A a : ~ Leave(a)
  BY DEF Leave
<1> QED BY <1>5, <1>6, <1>7, <1>8, <1>9, <1>10, <1>11 DEF Next

\* A device that is not in the network finds a free slot, if there is one.
LEMMA JoinerAdopted ==
  ASSUME TypeOK, NoneLeft, NEW a \in Devices, Announce(a), a \notin net,
         ByState("NO_DEVICE") # Invalid
  PROVE  LET i == ByState("NO_DEVICE")
         IN  /\ i \in Slots /\ dev[i].state = "NO_DEVICE"
             /\ dev' = [dev EXCEPT ![i].short = a, ![i].state = "MATCH_DESC_DISCOVERY"]
<1> DEFINE i == ByState("NO_DEVICE")
<1>1. a # Zero
  BY SimpleGwAssumption
<1>2. \A j \in Slots : dev[j].short # a
  BY <1>1 DEF NoneLeft, Owned
<1>3. ~ Known(a)
  BY <1>2, Lookups DEF Known
<1>4. i \in {k \in Slots : dev[k].state = "NO_DEVICE"}
  BY FirstFinds DEF ByState
<1> QED BY <1>3, <1>4 DEF Announce, Adopt

LEMMA NoneLeftStep ==
  ASSUME "leave" \notin Env, "again" \notin Env, TypeOK, OneSlotPerDevice, NoneLeft, [Next]_vars
  PROVE  NoneLeft'
<1>1. dev \in Table /\ dev \in [Slots -> SlotType] /\ nv \in [Slots -> SlotType]
  BY TypeParts DEF Table
<1>2. Zero \notin Devices
  BY SimpleGwAssumption
<1>3. ASSUME NEW a \in Devices, Announce(a) PROVE NoneLeft'
  <2> DEFINE i == ByState("NO_DEVICE")
  <2>1. a \notin net /\ net' = net \cup {a} /\ nv' = nv /\ reqs' = reqs
    BY <1>3 DEF Announce
  <2>2. CASE i = Invalid
    <3>1. dev' = dev
      BY <1>3, <2>2 DEF Announce, Adopt
    <3> QED BY <2>1, <3>1 DEF NoneLeft, Owned
  <2>3. CASE i # Invalid
    <3>1. i \in Slots /\ dev[i].state = "NO_DEVICE"
          /\ dev' = [dev EXCEPT ![i].short = a, ![i].state = "MATCH_DESC_DISCOVERY"]
      BY <1>3, <2>1, <2>3, JoinerAdopted
    <3> HIDE DEF i
    <3>2. dev[i].short = Zero /\ dev[i].ieee = Zero /\ nv[i].short = Zero
      BY <3>1 DEF NoneLeft, Owned
    <3>3. dev'[i].short = a /\ dev'[i].ieee = Zero /\ dev'[i].state # "NO_DEVICE"
          /\ \A j \in Slots \ {i} : dev'[j] = dev[j]
      BY <1>1, <3>1, <3>2 DEF SlotType
    <3>4. \A j \in Slots : Owned(dev[j])' /\ Owned(nv[j])' /\ nv'[j].short \in {Zero, dev'[j].short}
      BY <2>1, <3>2, <3>3 DEF NoneLeft, Owned
    <3>5. \A b \in Devices : Request("leave", b) \in reqs' =>
             b \in net' /\ \A j \in Slots : dev'[j].short # b
      BY <2>1, <3>3 DEF NoneLeft
    <3> QED BY <3>4, <3>5 DEF NoneLeft
  <2> QED BY <2>2, <2>3
<1>4. ASSUME NEW i \in Slots, RemoveDevice(i) PROVE NoneLeft'
  <2>1. dev' = [dev EXCEPT ![i] = Empty] /\ nv' = Saved(dev') /\ net' = net
    BY <1>4 DEF RemoveDevice, Removed
  <2>2. dev'[i] = Empty /\ \A j \in Slots \ {i} : dev'[j] = dev[j]
    BY <1>1, <2>1
  <2>3. \A j \in Slots : dev'[j] \in SlotType
    <3>1. TypeOK'
      BY <1>4, TypeCall DEF RunCall
    <3> QED BY <3>1 DEF TypeOK, Slots, SlotType
  <2>4. \A j \in Slots : nv'[j].short = dev'[j].short /\ nv'[j].ieee = dev'[j].ieee
                         /\ nv'[j].state = dev'[j].state
    BY <2>1, <2>3 DEF Saved, SlotType
  <2>5. \A j \in Slots : Owned(dev[j])' /\ Owned(nv[j])' /\ nv'[j].short \in {Zero, dev'[j].short}
    <3>1. Owned(Empty)'
      BY <2>1 DEF Owned, Empty
    <3>2. \A j \in Slots : Owned(dev[j])'
      BY <2>1, <2>2, <3>1 DEF NoneLeft, Owned
    <3> QED BY <2>4, <3>2 DEF Owned
  <2>6. ASSUME NEW b \in Devices, Request("leave", b) \in reqs'
        PROVE  b \in net' /\ \A j \in Slots : dev'[j].short # b
    <3>1. CASE Request("leave", b) \in reqs
      BY <1>2, <2>1, <2>2, <3>1 DEF NoneLeft, Empty
    <3>2. CASE Request("leave", b) \notin reqs
      <4>1. dev[i].short \in net \cup {Zero} /\ b = dev[i].short
        BY <1>4, <2>6, <3>2, RequestsDiffer DEF RemoveDevice
      <4>2. \A j \in Slots \ {i} : dev[j].short # b
        BY <1>2, <4>1 DEF OneSlotPerDevice, Distinct
      <4> QED BY <1>2, <2>1, <2>2, <4>1, <4>2 DEF Empty
    <3> QED BY <3>1, <3>2
  <2> QED BY <2>5, <2>6 DEF NoneLeft
<1>5. ASSUME NEW a \in Devices \cup {Zero}, LeaveAnswered(a) PROVE NoneLeft'
  <2>1. a \in Devices /\ Request("leave", a) \in reqs /\ reqs' \subseteq reqs /\ net' = net \ {a}
        /\ Request("leave", a) \notin reqs'
    BY <1>5 DEF LeaveAnswered, Answer, Leaves
  <2>2. \A j \in Slots : dev[j].short # a
    BY <2>1 DEF NoneLeft
  <2>3. \A j \in Slots : dev[j].ieee # a
    BY <1>2, <2>1, <2>2 DEF NoneLeft, Owned
  <2>4. ByIeee(a) = Invalid
    <3>1. {k \in Slots : dev[k].ieee = a} = {}
      BY <2>3
    <3> QED BY <3>1, FirstFinds DEF ByIeee
  <2>5. dev' = dev /\ nv' = nv
    BY <1>5, <2>4 DEF LeaveAnswered, Leaves, LeaveIndication
  <2>6. \A j \in Slots : Owned(dev[j])' /\ Owned(nv[j])' /\ nv'[j].short \in {Zero, dev'[j].short}
    BY <1>2, <2>1, <2>2, <2>5 DEF NoneLeft, Owned
  <2>7. \A b \in Devices : Request("leave", b) \in reqs' =>
             b \in net' /\ \A j \in Slots : dev'[j].short # b
    BY <2>1, <2>5 DEF NoneLeft
  <2> QED BY <2>6, <2>7 DEF NoneLeft
<1>6. CASE Reboot
  <2>1. \A j \in Slots : dev'[j].short = nv[j].short /\ dev'[j].ieee = nv[j].ieee
                         /\ dev'[j].state = nv[j].state
    BY <1>1, <1>6 DEF Reboot, Restored, SlotType
  <2> QED BY <1>6, <2>1 DEF Reboot, NoneLeft, Owned
<1>7. CASE Harmless
  BY <1>7, HarmlessKeeps
<1>8. \A a : LeaveAnswered(a) => a \in Devices \cup {Zero}
  BY TypeParts DEF LeaveAnswered, Answer
<1> QED BY <1>3, <1>4, <1>5, <1>6, <1>7, <1>8, OthersAreHarmless

\* Where no device leaves by itself and none announces itself again, a device
\* that joins while a slot is free is given one, also after it was removed,
\* asked to leave, and came back, and across restarts: the table holds no address
\* of a device outside the network, for which the newcomer would be taken.
THEOREM JoinersAreAdopted ==
  Env \cap {"leave", "again"} = {} => (Spec => JoinerIsAdopted)
<1> SUFFICES ASSUME "leave" \notin Env, "again" \notin Env PROVE Spec => JoinerIsAdopted
  OBVIOUS
<1>1. Init => NoneLeft
  BY DEF Init, NoneLeft, Owned, Empty
<1>2. TypeOK /\ OneSlotPerDevice /\ NoneLeft /\ [Next]_vars => NoneLeft'
  BY NoneLeftStep
<1> DEFINE Adopted == \A a \in net' \ net : ByState("NO_DEVICE") # Invalid =>
                         \E i \in Slots : dev'[i].state # "NO_DEVICE" /\ dev'[i].short = a
<1>3. TypeOK /\ NoneLeft /\ [Next]_vars => [Adopted]_vars
  <2> SUFFICES ASSUME TypeOK, NoneLeft, [Next]_vars, NEW a \in net' \ net,
                      ByState("NO_DEVICE") # Invalid
               PROVE  \E i \in Slots : dev'[i].state # "NO_DEVICE" /\ dev'[i].short = a
    OBVIOUS
  <2>1. a \in Devices /\ Announce(a)
    <3>1. (\A b \in Devices : ~ Announce(b)) => net' \subseteq net
      <4> SUFFICES ASSUME \A b \in Devices : ~ Announce(b) PROVE net' \subseteq net
        OBVIOUS
      <4>1. CASE (\A i \in Slots : ~ RemoveDevice(i)) /\ (\A b : ~ LeaveAnswered(b)) /\ ~ Reboot
        BY <4>1, OthersAreHarmless DEF Harmless
      <4>2. CASE (\E i \in Slots : RemoveDevice(i)) \/ (\E b : LeaveAnswered(b)) \/ Reboot
        BY <4>2 DEF RemoveDevice, LeaveAnswered, Leaves, Reboot
      <4> QED BY <4>1, <4>2
    <3>2. PICK b \in Devices : Announce(b)
      BY <3>1
    <3> QED BY <3>2 DEF Announce
  <2>2. dev \in [Slots -> SlotType]
    BY TypeParts DEF Table
  <2>3. PICK i \in Slots : dev' = [dev EXCEPT ![i].short = a, ![i].state = "MATCH_DESC_DISCOVERY"]
    BY <2>1, JoinerAdopted
  <2> QED BY <2>2, <2>3 DEF SlotType
<1> QED BY <1>1, <1>2, <1>3, TypeCorrect, DevicesAreDistinct, PTL DEF Spec, JoinerIsAdopted

-----------------------------------------------------------------------------
(* RAM and NVRAM agree.                                                    *)

\* Of the commissioning there is at most this under way: timers of D,
\* requests of R and the callbacks C.
Only(D, R, C) ==
    /\ {t \in alarms : t.fn \in {"onoff", "onoffTmo", "ias", "iasTmo"}} \subseteq D
    /\ {r \in reqs : r.kind # "toggle"} \subseteq R
    /\ calls = C

\* Slot i holds the device that is being commissioned, at one of the points
\* of the chain of requests.
Subject(i) == dev[i].state # "COMPLETED" /\ dev[i].short # Zero
OnoffTimed(i) == Only(Alarms({"onoff", "onoffTmo"}, i), {}, <<>>)
OnoffAsked(i) == Only(Alarms({"onoffTmo"}, i), {Request("match", dev[i].short)}, <<>>)
IasTimed(i) == Only(Alarms({"ias", "iasTmo"}, i), {}, <<>>)
IasAsked(i) == Only(Alarms({"iasTmo"}, i), {Request("iasMatch", dev[i].short)}, <<>>)
IeeeAsked(i) == Only({}, {Request("ieee", dev[i].short)}, <<>>)
Scheduling(f, i) == Only({}, {}, <<Alarm(f, i)>>)

Commissioning(i) ==
    /\ Subject(i)
    /\ \/ OnoffTimed(i) \/ OnoffAsked(i) \/ IasTimed(i) \/ IasAsked(i) \/ IeeeAsked(i)
       \/ \E f \in Steps : Scheduling(f, i)

\* From the bind request on, the answers no longer say which slot they are
\* for, and nothing but the request is under way.
Anonymous(k, a) == Only({}, {Request(k, a)}, <<>>)
Unnamed == \E k \in {"bind", "report", "leave"}, a \in Devices \cup {Zero} : Anonymous(k, a)

OneAtATime == Unnamed \/ \E i \in Slots : Commissioning(i)

\* A slot in use has an address, and its IEEE address once that was asked for.
Sound(s) ==
    /\ s.state # "NO_DEVICE" => s.short # Zero
    /\ s.state \in {"CONFIGURE_BINDING", "CONFIGURE_REPORTING", "COMPLETED"} => s.ieee = s.short

PersistInv ==
    /\ OneAtATime
    /\ \A i \in Slots : Sound(dev[i]) /\ Sound(nv[i])
    /\ PersistedAgrees

\* Where the chain is when one of its timers, callbacks or requests is there.
LEMMA TimerPhase ==
  ASSUME OneAtATime, NEW i, NEW f \in {"onoff", "onoffTmo", "ias", "iasTmo"}, Expire(f, i)
  PROVE  /\ Subject(i)
         /\ \/ f \in {"onoff", "onoffTmo"} /\ OnoffTimed(i)
            \/ f = "onoffTmo" /\ OnoffAsked(i)
            \/ f \in {"ias", "iasTmo"} /\ IasTimed(i)
            \/ f = "iasTmo" /\ IasAsked(i)
<1>1. Alarm(f, i).fn = f /\ Alarm(f, i) \in alarms
  BY DEF Alarm, Expire
<1>2. ASSUME NEW D, NEW R, NEW C, Only(D, R, C) PROVE Alarm(f, i) \in D
  BY <1>1, <1>2 DEF Only
<1>3. ~ Unnamed
  BY <1>2 DEF Unnamed, Anonymous
<1>4. PICK j \in Slots : Commissioning(j)
  BY <1>3 DEF OneAtATime
<1>5. ~ IeeeAsked(j) /\ \A g \in Steps : ~ Scheduling(g, j)
  BY <1>2 DEF IeeeAsked, Scheduling
<1>6. ASSUME NEW F, Alarm(f, i) \in Alarms(F, j) PROVE f \in F /\ i = j
  BY <1>6, AlarmsDiffer DEF Alarms
<1>7. CASE OnoffTimed(j)
  <2>1. Alarm(f, i) \in Alarms({"onoff", "onoffTmo"}, j)
    BY <1>2, <1>7 DEF OnoffTimed
  <2>2. f \in {"onoff", "onoffTmo"} /\ i = j
    BY <1>6, <2>1
  <2> QED BY <1>4, <1>7, <2>2 DEF Commissioning
<1>8. CASE OnoffAsked(j)
  <2>1. Alarm(f, i) \in Alarms({"onoffTmo"}, j)
    BY <1>2, <1>8 DEF OnoffAsked
  <2>2. f \in {"onoffTmo"} /\ i = j
    BY <1>6, <2>1
  <2> QED BY <1>4, <1>8, <2>2 DEF Commissioning
<1>9. CASE IasTimed(j)
  <2>1. Alarm(f, i) \in Alarms({"ias", "iasTmo"}, j)
    BY <1>2, <1>9 DEF IasTimed
  <2>2. f \in {"ias", "iasTmo"} /\ i = j
    BY <1>6, <2>1
  <2> QED BY <1>4, <1>9, <2>2 DEF Commissioning
<1>10. CASE IasAsked(j)
  <2>1. Alarm(f, i) \in Alarms({"iasTmo"}, j)
    BY <1>2, <1>10 DEF IasAsked
  <2>2. f \in {"iasTmo"} /\ i = j
    BY <1>6, <2>1
  <2> QED BY <1>4, <1>10, <2>2 DEF Commissioning
<1> QED BY <1>4, <1>5, <1>7, <1>8, <1>9, <1>10 DEF Commissioning

LEMMA CallPhase ==
  ASSUME OneAtATime, NEW i, NEW f, IsNext(f, i)
  PROVE  Subject(i) /\ Scheduling(f, i) /\ Tail(calls) = <<>>
<1>1. calls # <<>> /\ Head(calls) = Alarm(f, i)
  BY DEF IsNext
<1>2. PICK j \in Slots : Commissioning(j)
  BY <1>1 DEF OneAtATime, Unnamed, Anonymous, Only
<1>3. PICK g \in Steps : Scheduling(g, j)
  BY <1>1, <1>2 DEF Commissioning, OnoffTimed, OnoffAsked, IasTimed, IasAsked, IeeeAsked, Only
<1>4. calls = <<Alarm(g, j)>>
  BY <1>3 DEF Scheduling, Only
<1>5. g = f /\ j = i
  BY <1>1, <1>4, AlarmsDiffer
<1> QED BY <1>2, <1>3, <1>4, <1>5 DEF Commissioning

LEMMA RequestPhase ==
  ASSUME OneAtATime, NEW k, k # "toggle", NEW a, Request(k, a) \in reqs
  PROVE  \/ k \in {"bind", "report", "leave"} /\ Anonymous(k, a)
         \/ \E i \in Slots :
               /\ Subject(i) /\ dev[i].short = a
               /\ \/ k = "match" /\ OnoffAsked(i)
                  \/ k = "iasMatch" /\ IasAsked(i)
                  \/ k = "ieee" /\ IeeeAsked(i)
<1>1. Request(k, a).kind = k
  BY DEF Request
<1>2. ASSUME NEW D, NEW R, NEW C, Only(D, R, C) PROVE Request(k, a) \in R
  BY <1>1, <1>2 DEF Only
<1>3. CASE Unnamed
  <2>1. PICK l \in {"bind", "report", "leave"}, b \in Devices \cup {Zero} : Anonymous(l, b)
    BY <1>3 DEF Unnamed
  <2>2. k = l /\ a = b
    BY <1>2, <2>1, RequestsDiffer DEF Anonymous
  <2> QED BY <2>1, <2>2
<1>4. ASSUME NEW i \in Slots, Commissioning(i)
      PROVE  /\ Subject(i) /\ dev[i].short = a
             /\ \/ k = "match" /\ OnoffAsked(i)
                \/ k = "iasMatch" /\ IasAsked(i)
                \/ k = "ieee" /\ IeeeAsked(i)
  <2>1. ~ OnoffTimed(i) /\ ~ IasTimed(i) /\ \A f \in Steps : ~ Scheduling(f, i)
    BY <1>2 DEF OnoffTimed, IasTimed, Scheduling
  <2>2. CASE OnoffAsked(i)
    BY <1>2, <1>4, <2>2, RequestsDiffer DEF OnoffAsked, Commissioning
  <2>3. CASE IasAsked(i)
    BY <1>2, <1>4, <2>3, RequestsDiffer DEF IasAsked, Commissioning
  <2>4. CASE IeeeAsked(i)
    BY <1>2, <1>4, <2>4, RequestsDiffer DEF IeeeAsked, Commissioning
  <2> QED BY <1>4, <2>1, <2>2, <2>3, <2>4 DEF Commissioning
<1> QED BY <1>3, <1>4 DEF OneAtATime

\* A request of the commissioning finds the slot it was sent for.
LEMMA FindsSubject ==
  ASSUME OneSlotPerDevice, NEW i \in Slots, Subject(i)
  PROVE  ByShort(dev[i].short) = i /\ i # Invalid
<1>1. \A j \in Slots : dev[j].short = dev[i].short => j = i
  BY DEF OneSlotPerDevice, Distinct, Subject
<1>2. ByShort(dev[i].short) # Invalid
  BY Lookups
<1>3. ByShort(dev[i].short) \in Slots /\ dev[ByShort(dev[i].short)].short = dev[i].short
  BY <1>2, Lookups
<1> QED BY <1>1, <1>2, <1>3

LEMMA NothingPending ==
  /\ Only({}, {}, <<>>) => OneAtATime
  /\ Only({}, {}, <<>>)' => OneAtATime'
<1>1. Only({}, {}, <<>>) => Anonymous("bind", Zero)
  BY DEF Only, Anonymous
<1>2. Only({}, {}, <<>>)' => Anonymous("bind", Zero)'
  BY DEF Only, Anonymous
<1> QED BY <1>1, <1>2 DEF Unnamed, OneAtATime

\* A step that adds nothing and completes no slot.
LEMMA OnlyLess ==
  ASSUME OneAtATime,
         \A i \in Slots : /\ dev'[i].short = dev[i].short
                          /\ dev[i].state # "COMPLETED" => dev'[i].state # "COMPLETED",
         \A t \in alarms' : t.fn \in {"onoff", "onoffTmo", "ias", "iasTmo"} => t \in alarms,
         \A r \in reqs' : r.kind # "toggle" => r \in reqs,
         calls' = calls
  PROVE  OneAtATime'
<1>1. ASSUME NEW D, NEW R, NEW C, Only(D, R, C)
      PROVE  /\ {t \in alarms' : t.fn \in {"onoff", "onoffTmo", "ias", "iasTmo"}} \subseteq D
             /\ {r \in reqs' : r.kind # "toggle"} \subseteq R
             /\ calls' = C
  BY <1>1 DEF Only
<1>2. ASSUME Unnamed PROVE Unnamed'
  BY <1>1, <1>2 DEF Unnamed, Anonymous, Only
<1>3. ASSUME NEW i \in Slots, Commissioning(i) PROVE Commissioning(i)'
  <2>1. Subject(i)' /\ dev'[i].short = dev[i].short
    BY <1>3 DEF Commissioning, Subject
  <2>2. OnoffTimed(i) => OnoffTimed(i)'
    BY <1>1 DEF OnoffTimed, Only
  <2>3. OnoffAsked(i) => OnoffAsked(i)'
    BY <1>1, <2>1 DEF OnoffAsked, Only
  <2>4. IasTimed(i) => IasTimed(i)'
    BY <1>1 DEF IasTimed, Only
  <2>5. IasAsked(i) => IasAsked(i)'
    BY <1>1, <2>1 DEF IasAsked, Only
  <2>6. IeeeAsked(i) => IeeeAsked(i)'
    BY <1>1, <2>1 DEF IeeeAsked, Only
  <2>7. \A f \in Steps : Scheduling(f, i) => Scheduling(f, i)'
    BY <1>1 DEF Scheduling, Only
  <2> QED BY <1>3, <2>1, <2>2, <2>3, <2>4, <2>5, <2>6, <2>7 DEF Commissioning
<1> QED BY <1>2, <1>3 DEF OneAtATime

\* The callback a handler schedules when none is scheduled.
LEMMA FirstCall ==
  ASSUME NEW f, NEW i, Schedule(f, i), calls = <<>>
  PROVE  calls' = <<Alarm(f, i)>>
  BY DEF Schedule, Call

LEMMA OneJoin ==
  ASSUME "overlap" \notin Env, TypeOK, OneAtATime, NEW a \in Devices, Announce(a)
  PROVE  OneAtATime'
<1>1. dev \in [Slots -> SlotType]
  BY TypeParts DEF Table
<1>2. Quiet /\ calls' = calls /\ reqs' = reqs
  BY DEF Announce
<1>3. Only({}, {}, <<>>)
  BY <1>2 DEF Quiet, Only
<1>4. CASE Known(a) \/ ByState("NO_DEVICE") = Invalid
  BY <1>2, <1>3, <1>4, NothingPending DEF Announce, Adopt, Only
<1>5. CASE ~ Known(a) /\ ByState("NO_DEVICE") # Invalid
  <2>1. PICK i \in Slots :
           /\ dev' = [dev EXCEPT ![i].short = a, ![i].state = "MATCH_DESC_DISCOVERY"]
           /\ alarms' = alarms \cup Alarms({"onoff", "onoffTmo"}, i)
    BY <1>5, Lookups DEF Announce, Adopt
  <2>2. Subject(i)'
    BY <1>1, <2>1, SimpleGwAssumption DEF SlotType, Subject
  <2>3. OnoffTimed(i)'
    BY <1>2, <1>3, <2>1 DEF OnoffTimed, Only
  <2> QED BY <2>1, <2>2, <2>3 DEF Commissioning, OneAtATime
<1> QED BY <1>4, <1>5

LEMMA OneTimer ==
  ASSUME "late" \notin Env, TypeOK, OneAtATime, NEW i \in Slots, Timer(i)
  PROVE  OneAtATime'
<1>0. /\ \A f, j : Alarm(f, j).fn = f
      /\ \A k, a : Request(k, a).kind = k
  BY DEF Alarm, Request
<1>1. dev' = dev
  BY DEF Timer, FindOnoffDevice, FindIasZoneDevice, FindOnoffDeviceTmo,
         FindIasZoneDeviceTmo, SendToggleReq
<1>2. Subject(i) => Subject(i)'
  BY <1>1 DEF Subject
<1>3. CASE FindOnoffDevice(i)
  <2>1. Subject(i) /\ OnoffTimed(i)
    BY <1>3, TimerPhase DEF FindOnoffDevice
  <2>2. alarms' = alarms \ {Alarm("onoff", i)} /\ reqs' = reqs \cup {Request("match", dev[i].short)}
        /\ calls' = calls
    BY <1>3 DEF FindOnoffDevice
  <2>3. OnoffAsked(i)'
    BY <1>1, <2>1, <2>2 DEF OnoffTimed, OnoffAsked, Only, Alarms
  <2> QED BY <1>2, <2>1, <2>3 DEF Commissioning, OneAtATime
<1>4. CASE FindIasZoneDevice(i)
  <2>1. Subject(i) /\ IasTimed(i)
    BY <1>4, TimerPhase DEF FindIasZoneDevice
  <2>2. alarms' = alarms \ {Alarm("ias", i)} /\ reqs' = reqs \cup {Request("iasMatch", dev[i].short)}
        /\ calls' = calls
    BY <1>4 DEF FindIasZoneDevice
  <2>3. IasAsked(i)'
    BY <1>1, <2>1, <2>2 DEF IasTimed, IasAsked, Only, Alarms
  <2> QED BY <1>2, <2>1, <2>3 DEF Commissioning, OneAtATime
<1>5. CASE FindOnoffDeviceTmo(i)
  <2>1. Subject(i) /\ (OnoffTimed(i) \/ OnoffAsked(i))
    BY <1>5, TimerPhase DEF FindOnoffDeviceTmo
  <2>2. Alarm("onoff", i) \notin alarms /\ Request("match", dev[i].short) \notin reqs
        /\ alarms' = alarms \ {Alarm("onoffTmo", i)} /\ reqs' = reqs
    BY <1>5 DEF FindOnoffDeviceTmo, Expire, Over
  <2>3. calls = <<>> /\ {r \in reqs : r.kind # "toggle"} = {}
        /\ {t \in alarms' : t.fn \in {"onoff", "onoffTmo", "ias", "iasTmo"}} = {}
    BY <2>1, <2>2 DEF OnoffTimed, OnoffAsked, Only, Alarms
  <2>4. CASE calls' = calls
    BY <2>2, <2>3, <2>4, NothingPending DEF Only
  <2>5. CASE Schedule("remove", i)
    <3>1. calls' = <<Alarm("remove", i)>> /\ "remove" \in Steps
      BY <2>3, <2>5, FirstCall DEF Steps
    <3>2. Scheduling("remove", i)'
      BY <2>2, <2>3, <3>1 DEF Scheduling, Only
    <3> QED BY <1>2, <2>1, <3>1, <3>2 DEF Commissioning, OneAtATime
  <2> QED BY <1>5, <2>4, <2>5 DEF FindOnoffDeviceTmo
<1>6. CASE FindIasZoneDeviceTmo(i)
  <2>1. Subject(i) /\ (IasTimed(i) \/ IasAsked(i))
    BY <1>6, TimerPhase DEF FindIasZoneDeviceTmo
  <2>2. Alarm("ias", i) \notin alarms /\ Request("iasMatch", dev[i].short) \notin reqs
        /\ alarms' = alarms \ {Alarm("iasTmo", i)} /\ reqs' = reqs
    BY <1>6 DEF FindIasZoneDeviceTmo, Expire, Over
  <2>3. calls = <<>> /\ {r \in reqs : r.kind # "toggle"} = {}
        /\ {t \in alarms' : t.fn \in {"onoff", "onoffTmo", "ias", "iasTmo"}} = {}
    BY <2>1, <2>2 DEF IasTimed, IasAsked, Only, Alarms
  <2>4. CASE calls' = calls
    BY <2>2, <2>3, <2>4, NothingPending DEF Only
  <2>5. CASE Schedule("remove", i)
    <3>1. calls' = <<Alarm("remove", i)>> /\ "remove" \in Steps
      BY <2>3, <2>5, FirstCall DEF Steps
    <3>2. Scheduling("remove", i)'
      BY <2>2, <2>3, <3>1 DEF Scheduling, Only
    <3> QED BY <1>2, <2>1, <3>1, <3>2 DEF Commissioning, OneAtATime
  <2> QED BY <1>6, <2>4, <2>5 DEF FindIasZoneDeviceTmo
<1>7. CASE SendToggleReq(i)
  BY <1>0, <1>1, <1>7, OnlyLess DEF SendToggleReq
<1> QED BY <1>3, <1>4, <1>5, <1>6, <1>7 DEF Timer

LEMMA OneCall ==
  ASSUME TypeOK, OneAtATime, NEW i \in Slots, RunCall(i)
  PROVE  OneAtATime'
<1>1. dev \in Table
  BY TypeParts
<1>2. CASE \E f \in Steps : SendStep(f, i)
  <2>1. PICK f \in Steps : SendStep(f, i)
    BY <1>2
  <2>2. Subject(i) /\ Scheduling(f, i) /\ calls' = <<>> /\ dev' = dev /\ alarms' = alarms
        /\ reqs' = reqs \cup {Request(f, dev[i].short)} /\ f \in {"ieee", "bind", "report"}
    BY <2>1, CallPhase DEF SendStep
  <2>3. Only({}, {Request(f, dev[i].short)}, <<>>)'
    BY <2>2 DEF Scheduling, Only
  <2>4. CASE f = "ieee"
    BY <2>2, <2>3, <2>4 DEF IeeeAsked, Subject, Commissioning, OneAtATime
  <2>5. CASE f \in {"bind", "report"}
    BY <1>1, <2>2, <2>3, <2>5, ShortTyped DEF Anonymous, Unnamed, OneAtATime
  <2> QED BY <2>2, <2>4, <2>5
<1>3. CASE WriteCieAddr(i)
  <2>1. Scheduling("cie", i) /\ calls' = <<>> /\ alarms' = alarms /\ reqs' = reqs
    BY <1>3, CallPhase DEF WriteCieAddr
  <2> QED BY <2>1, NothingPending DEF Scheduling, Only
<1>4. CASE RemoveDevice(i)
  <2>1. Scheduling("remove", i) /\ calls' = <<>> /\ alarms' \subseteq alarms
        /\ reqs' \subseteq reqs \cup {Request("leave", dev[i].short)}
    BY <1>4, CallPhase DEF RemoveDevice
  <2>2. \A s : s = dev[i].short => Only({}, {Request("leave", s)}, <<>>)'
    BY <2>1 DEF Scheduling, Only
  <2>3. Unnamed'
    BY <1>1, <2>2, ShortTyped DEF Anonymous, Unnamed
  <2> QED BY <2>3 DEF OneAtATime
<1> QED BY <1>2, <1>3, <1>4 DEF RunCall

LEMMA OneAnswer ==
  ASSUME TypeOK, OneSlotPerDevice, OneAtATime, \A i \in Slots : Sound(dev[i]),
         NEW a \in Devices \cup {Zero}, Answered(a), ~ ToggleAnswered(a), ~ LeaveAnswered(a)
  PROVE  OneAtATime'
<1>1. dev \in Table /\ dev \in [Slots -> SlotType]
  BY TypeParts DEF Table
<1>2. {"ieee", "cie", "bind", "report"} \subseteq Steps
  BY DEF Steps
<1>3. CASE MatchFound(a) \/ NoMatch(a)
  <2>1. Request("match", a) \in reqs /\ reqs' = reqs \ {Request("match", a)}
    BY <1>3 DEF MatchFound, NoMatch, Answer
  <2>2. PICK i \in Slots : Subject(i) /\ dev[i].short = a /\ OnoffAsked(i)
    BY <2>1, RequestPhase
  <2>3. ByShort(a) = i /\ i # Invalid
    BY <2>2, FindsSubject
  <2>4. {t \in alarms \ {Alarm("onoffTmo", i)} : t.fn \in {"onoff", "onoffTmo", "ias", "iasTmo"}} = {}
        /\ {r \in reqs' : r.kind # "toggle"} = {} /\ calls = <<>>
    BY <2>1, <2>2 DEF OnoffAsked, Only, Alarms
  <2>5. CASE MatchFound(a)
    <3>1. dev' = [dev EXCEPT ![i].state = "IEEE_ADDR_DISCOVERY"] /\ Schedule("ieee", i)
          /\ alarms' = alarms \ {Alarm("onoffTmo", i)}
      BY <2>3, <2>5 DEF MatchFound
    <3>2. calls' = <<Alarm("ieee", i)>>
      BY <2>4, <3>1, FirstCall
    <3>3. Scheduling("ieee", i)'
      BY <2>4, <3>1, <3>2 DEF Scheduling, Only
    <3>4. Subject(i)'
      BY <1>1, <2>2, <3>1, StateTaken DEF Subject, Takes
    <3> QED BY <1>2, <3>3, <3>4 DEF Commissioning, OneAtATime
  <2>6. CASE NoMatch(a)
    <3>1. dev' = dev /\ calls' = calls
          /\ alarms' = (alarms \ {Alarm("onoffTmo", i)}) \cup Alarms({"ias", "iasTmo"}, i)
      BY <2>3, <2>6 DEF NoMatch, IasTimers
    <3>2. IasTimed(i)' /\ Subject(i)'
      BY <2>2, <2>4, <3>1 DEF IasTimed, Only, Subject
    <3> QED BY <3>2 DEF Commissioning, OneAtATime
  <2> QED BY <1>3, <2>5, <2>6
<1>4. CASE IasFound(a) \/ NoIas(a)
  <2>1. Request("iasMatch", a) \in reqs /\ reqs' = reqs \ {Request("iasMatch", a)}
    BY <1>4 DEF IasFound, NoIas, Answer
  <2>2. PICK i \in Slots : Subject(i) /\ dev[i].short = a /\ IasAsked(i)
    BY <2>1, RequestPhase
  <2>3. ByShort(a) = i /\ i # Invalid
    BY <2>2, FindsSubject
  <2>4. {t \in alarms \ {Alarm("iasTmo", i)} : t.fn \in {"onoff", "onoffTmo", "ias", "iasTmo"}} = {}
        /\ {r \in reqs' : r.kind # "toggle"} = {} /\ calls = <<>>
    BY <2>1, <2>2 DEF IasAsked, Only, Alarms
  <2>5. alarms' = alarms \ {Alarm("iasTmo", i)}
    BY <1>4, <2>3 DEF IasFound, NoIas
  <2>6. CASE IasFound(a)
    <3>1. dev' = [dev EXCEPT ![i].state = "WRITE_CIE_ADDR"] /\ Schedule("cie", i)
      BY <2>3, <2>6 DEF IasFound
    <3>2. calls' = <<Alarm("cie", i)>>
      BY <2>4, <3>1, FirstCall
    <3>3. Scheduling("cie", i)'
      BY <2>4, <2>5, <3>2 DEF Scheduling, Only
    <3>4. Subject(i)'
      BY <1>1, <2>2, <3>1, StateTaken DEF Subject, Takes
    <3> QED BY <1>2, <3>3, <3>4 DEF Commissioning, OneAtATime
  <2>7. CASE NoIas(a)
    <3>1. calls' = <<>>
      BY <2>4, <2>7 DEF NoIas
    <3> QED BY <2>4, <2>5, <3>1, NothingPending DEF Only
  <2> QED BY <1>4, <2>6, <2>7
<1>5. CASE IeeeAnswered(a)
  <2>1. Request("ieee", a) \in reqs /\ reqs' = reqs \ {Request("ieee", a)} /\ alarms' = alarms
    BY <1>5 DEF IeeeAnswered, Answer
  <2>2. PICK i \in Slots : Subject(i) /\ dev[i].short = a /\ IeeeAsked(i)
    BY <2>1, RequestPhase
  <2>3. ByShort(a) = i /\ i # Invalid
    BY <2>2, FindsSubject
  <2>4. {t \in alarms' : t.fn \in {"onoff", "onoffTmo", "ias", "iasTmo"}} = {}
        /\ {r \in reqs' : r.kind # "toggle"} = {} /\ calls = <<>>
    BY <2>1, <2>2 DEF IeeeAsked, Only
  <2>5. dev' = [dev EXCEPT ![i].ieee = a, ![i].state = "CONFIGURE_BINDING"] /\ Schedule("bind", i)
    BY <1>5, <2>3 DEF IeeeAnswered
  <2>6. calls' = <<Alarm("bind", i)>>
    BY <2>4, <2>5, FirstCall
  <2>7. Scheduling("bind", i)'
    BY <2>4, <2>6 DEF Scheduling, Only
  <2>8. Subject(i)'
    BY <1>1, <2>2, <2>5 DEF Subject, SlotType
  <2> QED BY <1>2, <2>7, <2>8 DEF Commissioning, OneAtATime
<1>6. CASE BindAnswered(a)
  <2>1. Request("bind", a) \in reqs /\ reqs' = reqs \ {Request("bind", a)} /\ alarms' = alarms
    BY <1>6 DEF BindAnswered, Answer
  <2>2. Anonymous("bind", a)
    BY <2>1, RequestPhase
  <2>3. {t \in alarms' : t.fn \in {"onoff", "onoffTmo", "ias", "iasTmo"}} = {}
        /\ {r \in reqs' : r.kind # "toggle"} = {} /\ calls = <<>>
    BY <2>1, <2>2 DEF Anonymous, Only
  <2>4. CASE BindSlot = Invalid
    <3>1. calls' = <<>>
      BY <1>6, <2>3, <2>4 DEF BindAnswered
    <3> QED BY <2>3, <3>1, NothingPending DEF Only
  <2>5. CASE BindSlot # Invalid
    <3>1. BindSlot \in {k \in Slots : dev[k].state = "CONFIGURE_BINDING"}
      BY <2>5, FirstFinds DEF BindSlot, ByState
    <3>2. PICK i \in Slots : i = BindSlot /\ dev[i].state = "CONFIGURE_BINDING"
      BY <3>1
    <3>3. dev' = [dev EXCEPT ![i].state = "CONFIGURE_REPORTING"] /\ Schedule("report", i)
      BY <1>6, <2>5, <3>2 DEF BindAnswered
    <3>4. calls' = <<Alarm("report", i)>>
      BY <2>3, <3>3, FirstCall
    <3>5. Scheduling("report", i)'
      BY <2>3, <3>4 DEF Scheduling, Only
    <3>6. Subject(i)'
      BY <1>1, <3>2, <3>3, StateTaken DEF Subject, Takes, Sound
    <3> QED BY <1>2, <3>5, <3>6 DEF Commissioning, OneAtATime
  <2> QED BY <2>4, <2>5
<1>7. CASE ReportAnswered(a)
  <2>1. Request("report", a) \in reqs /\ reqs' = reqs \ {Request("report", a)} /\ alarms' = alarms
        /\ calls' = calls
    BY <1>7 DEF ReportAnswered, Answer
  <2>2. Anonymous("report", a)
    BY <2>1, RequestPhase
  <2>3. Only({}, {}, <<>>)'
    BY <2>1, <2>2 DEF Anonymous, Only
  <2> QED BY <2>3, NothingPending
<1> QED BY <1>3, <1>4, <1>5, <1>6, <1>7 DEF Answered

\* Nothing that happens adds a second commissioning.
LEMMA OneStep ==
  ASSUME "overlap" \notin Env, "late" \notin Env, TypeOK, OneSlotPerDevice, PersistInv, [Next]_vars
  PROVE  OneAtATime'
<1>1. dev \in Table /\ dev \in [Slots -> SlotType] /\ OneAtATime /\ \A i \in Slots : Sound(dev[i])
  BY TypeParts DEF Table, PersistInv
<1>2. ASSUME NEW a \in Devices \cup {Zero}, ToggleAnswered(a) PROVE OneAtATime'
  BY <1>1, <1>2, OnlyLess DEF ToggleAnswered, Answer
<1>3. ASSUME NEW a \in Devices \cup {Zero}, Failed(a) PROVE OneAtATime'
  <2>1. reqs' \subseteq reqs /\ alarms' = alarms /\ calls' = calls
    BY <1>3 DEF Failed, ToggleFailed, Unanswered, Fails
  <2>2. \A i \in Slots : dev'[i].short = dev[i].short /\ dev'[i].state = dev[i].state
    BY <1>1, <1>3, Lookups DEF Failed, ToggleFailed, Unanswered, SlotType
  <2> QED BY <1>1, <2>1, <2>2, OnlyLess
<1>4. ASSUME NEW a \in Devices \cup {Zero}, Leave(a) \/ LeaveAnswered(a) PROVE OneAtATime'
  <2>1. reqs' \subseteq reqs /\ calls' = calls /\ LeaveIndication(a)
    BY <1>4 DEF Leave, LeaveAnswered, Leaves, Answer
  <2>2. \A i \in Slots : dev'[i].short = dev[i].short
                         /\ (dev[i].state # "COMPLETED" => dev'[i].state # "COMPLETED")
    BY <1>1, <2>1, Lookups DEF LeaveIndication, SlotType
  <2>3. alarms' \subseteq alarms
    BY <2>1 DEF LeaveIndication
  <2> QED BY <1>1, <2>1, <2>2, <2>3, OnlyLess
<1>5. CASE ToggleBulbs
  <2>1. \A i \in Slots : dev'[i].short = dev[i].short /\ dev'[i].state = dev[i].state
    BY <1>1, <1>5 DEF ToggleBulbs, SlotType
  <2>2. \A t \in alarms' : t.fn \in {"onoff", "onoffTmo", "ias", "iasTmo"} => t \in alarms
    BY <1>5 DEF ToggleBulbs, TickAgain, Tick, Alarm
  <2> QED BY <1>1, <1>5, <2>1, <2>2, OnlyLess DEF ToggleBulbs
<1>6. CASE Reboot
  <2>1. Only({}, {}, <<>>)'
    BY <1>6 DEF Reboot, Only, Tick, Alarm
  <2> QED BY <2>1, NothingPending
<1>7. CASE UNCHANGED vars
  BY <1>1, <1>7, OnlyLess DEF vars
<1> QED BY <1>1, <1>2, <1>3, <1>4, <1>5, <1>6, <1>7, OneJoin, OneTimer, OneCall, OneAnswer
        DEF Next, Answered

\* What a step makes of slot i: nothing but a counter, a state that is not
\* stored, or what the table in NVRAM says from now on.
Alike(s, t) == s.state = t.state /\ s.short = t.short /\ s.ieee = t.ieee
Untouched(i) == Alike(dev'[i], dev[i]) /\ nv'[i] = nv[i]
Passing(i) ==
    /\ dev[i].state # "COMPLETED" /\ dev'[i].state # "COMPLETED"
    /\ Sound(dev'[i]) /\ nv'[i] = nv[i]
Stored(i) ==
    /\ Alike(nv'[i], dev'[i]) /\ Sound(dev'[i])
    /\ dev[i].state = "COMPLETED" /\ dev'[i].state # "COMPLETED" => dev[i].short \notin net'
Outcome(i) == Untouched(i) \/ Passing(i) \/ Stored(i)

LEMMA OutcomesKeep ==
  ASSUME \A i \in Slots : Sound(dev[i]) /\ Sound(nv[i]), PersistedAgrees,
         \A i \in Slots : Outcome(i)
  PROVE  /\ \A i \in Slots : Sound(dev[i])' /\ Sound(nv[i])'
         /\ PersistedAgrees'
         /\ \A i \in Slots : dev[i].state = "COMPLETED" /\ dev'[i].state # "COMPLETED" =>
               dev[i].short \notin net'
  BY DEF PersistedAgrees, Outcome, Untouched, Passing, Stored, Alike, Sound

\* One slot goes on with its commissioning.
LEMMA GoesOn ==
  ASSUME dev \in Table, NEW i \in Slots, NEW s, dev' = [dev EXCEPT ![i].state = s], nv' = nv,
         Subject(i), s \notin {"CONFIGURE_BINDING", "CONFIGURE_REPORTING", "COMPLETED"}
  PROVE  \A j \in Slots : Outcome(j)
<1>1. Takes(i, s)
  BY StateTaken
<1>2. Passing(i)
  BY <1>1 DEF Passing, Takes, Subject, Sound
<1> QED BY <1>1, <1>2 DEF Takes, Outcome, Untouched, Alike

LEMMA Outcomes ==
  ASSUME "overlap" \notin Env, "late" \notin Env, TypeOK, OneSlotPerDevice, PersistInv, [Next]_vars
  PROVE  \A j \in Slots : Outcome(j)
<1>1. dev \in Table /\ dev \in [Slots -> SlotType] /\ nv \in [Slots -> SlotType] /\ OneAtATime
      /\ \A i \in Slots : Sound(dev[i]) /\ Sound(nv[i])
  BY TypeParts DEF Table, PersistInv
<1>2. dev' = dev /\ nv' = nv => \A j \in Slots : Outcome(j)
  BY DEF Outcome, Untouched, Alike
<1>3. ASSUME NEW a \in Devices, Announce(a) PROVE \A j \in Slots : Outcome(j)
  <2> DEFINE i == ByState("NO_DEVICE")
  <2>1. CASE Known(a) \/ i = Invalid
    BY <1>2, <1>3, <2>1 DEF Announce, Adopt
  <2>2. CASE ~ Known(a) /\ i # Invalid
    <3>1. i \in {k \in Slots : dev[k].state = "NO_DEVICE"}
      BY <2>2, FirstFinds DEF ByState
    <3>2. dev' = [dev EXCEPT ![i].short = a, ![i].state = "MATCH_DESC_DISCOVERY"] /\ nv' = nv
      BY <1>3, <2>2 DEF Announce, Adopt
    <3> HIDE DEF i
    <3>3. dev'[i].short # Zero /\ dev'[i].state = "MATCH_DESC_DISCOVERY"
          /\ \A j \in Slots \ {i} : dev'[j] = dev[j]
      BY <1>1, <3>1, <3>2, SimpleGwAssumption DEF SlotType
    <3>4. Passing(i)
      BY <3>1, <3>2, <3>3 DEF Passing, Sound
    <3> QED BY <3>2, <3>3, <3>4 DEF Outcome, Untouched, Alike
  <2> QED BY <2>1, <2>2
<1>4. ASSUME NEW i \in Slots, Timer(i) PROVE \A j \in Slots : Outcome(j)
  BY <1>2, <1>4 DEF Timer, FindOnoffDevice, FindIasZoneDevice, FindOnoffDeviceTmo,
              FindIasZoneDeviceTmo, SendToggleReq
<1>5. ASSUME NEW i \in Slots, RunCall(i) PROVE \A j \in Slots : Outcome(j)
  <2>1. CASE \E f \in Steps : SendStep(f, i)
    BY <1>2, <2>1 DEF SendStep
  <2>2. CASE WriteCieAddr(i)
    <3>1. Subject(i)
      BY <1>1, <2>2, CallPhase DEF WriteCieAddr
    <3>2. nv' = nv /\ \E s \in {"COMPLETED_NO_TOGGLE"} : dev' = [dev EXCEPT ![i].state = s]
      BY <2>2 DEF WriteCieAddr
    <3> QED BY <1>1, <3>1, <3>2, GoesOn
  <2>3. CASE RemoveDevice(i)
    <3>1. dev[i].state # "COMPLETED"
      BY <1>1, <2>3, CallPhase DEF RemoveDevice, Subject
    <3>2. dev' = [dev EXCEPT ![i] = Empty] /\ nv' = Saved(dev')
      BY <2>3 DEF RemoveDevice, Removed
    <3>3. dev'[i] = Empty /\ \A j \in Slots \ {i} : dev'[j] = dev[j]
      BY <1>1, <3>2
    <3>4. \A j \in Slots : dev'[j] \in SlotType
      <4>1. TypeOK'
        BY <1>5, TypeCall
      <4> QED BY <4>1 DEF TypeOK, Slots, SlotType
    <3>5. \A j \in Slots : Alike(nv'[j], dev'[j])
      BY <3>2, <3>4 DEF Saved, SlotType, Alike
    <3>6. Sound(Empty) /\ Empty.state # "COMPLETED"
      BY DEF Sound, Empty
    <3>7. \A j \in Slots : Sound(dev'[j])
      BY <1>1, <3>3, <3>6
    <3> QED BY <3>1, <3>3, <3>5, <3>7 DEF Outcome, Stored
  <2> QED BY <1>5, <2>1, <2>2, <2>3 DEF RunCall
<1>6. ASSUME NEW a \in Devices \cup {Zero}, Answered(a), ~ LeaveAnswered(a)
      PROVE  \A j \in Slots : Outcome(j)
  <2>1. CASE MatchFound(a) \/ IasFound(a) \/ NoIas(a)
    <3>1. \E k \in {"match", "iasMatch"} : Request(k, a) \in reqs
      BY <2>1 DEF MatchFound, IasFound, NoIas, Answer
    <3>2. PICK i \in Slots : Subject(i) /\ dev[i].short = a
      BY <1>1, <3>1, RequestPhase
    <3>3. ByShort(a) = i /\ i # Invalid
      BY <3>2, FindsSubject
    <3>4. nv' = nv /\ \E s \in {"IEEE_ADDR_DISCOVERY", "WRITE_CIE_ADDR", "COMPLETED_NO_TOGGLE"} :
             dev' = [dev EXCEPT ![i].state = s]
      BY <2>1, <3>3 DEF MatchFound, IasFound, NoIas
    <3> QED BY <1>1, <3>2, <3>4, GoesOn
  <2>2. CASE NoMatch(a) \/ ToggleAnswered(a)
    BY <1>2, <2>2 DEF NoMatch, ToggleAnswered
  <2>3. CASE IeeeAnswered(a)
    <3>1. Request("ieee", a) \in reqs
      BY <2>3 DEF IeeeAnswered, Answer
    <3>2. PICK i \in Slots : Subject(i) /\ dev[i].short = a
      BY <1>1, <3>1, RequestPhase
    <3>3. ByShort(a) = i /\ i # Invalid
      BY <3>2, FindsSubject
    <3>4. nv' = nv /\ dev' = [dev EXCEPT ![i].ieee = a, ![i].state = "CONFIGURE_BINDING"]
      BY <2>3, <3>3 DEF IeeeAnswered
    <3>5. dev'[i].ieee = a /\ dev'[i].short = a /\ dev'[i].state = "CONFIGURE_BINDING"
          /\ \A j \in Slots \ {i} : dev'[j] = dev[j]
      BY <1>1, <3>2, <3>4 DEF SlotType
    <3>6. Passing(i)
      BY <3>2, <3>4, <3>5 DEF Passing, Subject, Sound
    <3> QED BY <3>4, <3>5, <3>6 DEF Outcome, Untouched, Alike
  <2>4. CASE BindAnswered(a)
    <3>1. CASE BindSlot = Invalid
      BY <1>2, <2>4, <3>1 DEF BindAnswered
    <3>2. CASE BindSlot # Invalid
      <4>1. BindSlot \in {k \in Slots : dev[k].state = "CONFIGURE_BINDING"}
        BY <3>2, FirstFinds DEF BindSlot, ByState
      <4>2. PICK i \in Slots : i = BindSlot /\ dev[i].state = "CONFIGURE_BINDING"
        BY <4>1
      <4>3. dev' = [dev EXCEPT ![i].state = "CONFIGURE_REPORTING"] /\ nv' = nv
        BY <2>4, <3>2, <4>2 DEF BindAnswered
      <4>4. Takes(i, "CONFIGURE_REPORTING")
        BY <1>1, <4>3, StateTaken
      <4>5. Passing(i)
        BY <1>1, <4>2, <4>3, <4>4 DEF Passing, Takes, Sound
      <4> QED BY <4>3, <4>4, <4>5 DEF Takes, Outcome, Untouched, Alike
    <3> QED BY <3>1, <3>2
  <2>5. CASE ReportAnswered(a)
    <3>1. CASE ByState("CONFIGURE_REPORTING") = Invalid
      BY <1>2, <2>5, <3>1 DEF ReportAnswered
    <3>2. CASE ByState("CONFIGURE_REPORTING") # Invalid
      <4>1. ByState("CONFIGURE_REPORTING") \in {k \in Slots : dev[k].state = "CONFIGURE_REPORTING"}
        BY <3>2, FirstFinds DEF ByState
      <4>2. PICK i \in Slots : i = ByState("CONFIGURE_REPORTING") /\ dev[i].state = "CONFIGURE_REPORTING"
        BY <4>1
      <4> DEFINE t == [dev EXCEPT ![i].state = "COMPLETED"]
      <4>3. nv' = Saved(t) /\ dev' = [t EXCEPT ![i].pending = ToggleWait(i)]
        BY <2>5, <3>2, <4>2 DEF ReportAnswered
      <4>4. \A j \in Slots : Alike(nv'[j], dev'[j])
        BY <1>1, <4>3 DEF Saved, Alike, SlotType
      <4>5. dev'[i].state = "COMPLETED" /\ dev'[i].short = dev[i].short /\ dev'[i].ieee = dev[i].ieee
            /\ \A j \in Slots \ {i} : dev'[j] = dev[j]
        BY <1>1, <4>3 DEF SlotType
      <4>6. Sound(dev'[i])
        BY <1>1, <4>2, <4>5 DEF Sound
      <4> QED BY <1>1, <4>4, <4>5, <4>6 DEF Outcome, Stored
    <3> QED BY <3>1, <3>2
  <2> QED BY <1>6, <2>1, <2>2, <2>3, <2>4, <2>5 DEF Answered
<1>7. ASSUME NEW a \in Devices \cup {Zero}, Failed(a) PROVE \A j \in Slots : Outcome(j)
  <2>1. nv' = nv /\ \A i \in Slots : Alike(dev'[i], dev[i])
    BY <1>1, <1>7, Lookups DEF Failed, ToggleFailed, Unanswered, SlotType, Alike
  <2> QED BY <2>1 DEF Outcome, Untouched
<1>8. ASSUME NEW a \in Devices \cup {Zero}, Leave(a) \/ LeaveAnswered(a)
      PROVE  \A j \in Slots : Outcome(j)
  <2>1. LeaveIndication(a) /\ net' = net \ {a}
    BY <1>8 DEF Leave, LeaveAnswered, Leaves
  <2>2. CASE ByIeee(a) = Invalid
    BY <1>2, <2>1, <2>2 DEF LeaveIndication
  <2>3. CASE ByIeee(a) # Invalid
    <3>1. ByIeee(a) \in {k \in Slots : dev[k].ieee = a}
      BY <2>3, FirstFinds DEF ByIeee
    <3>2. PICK i \in Slots : i = ByIeee(a) /\ dev[i].ieee = a
      BY <3>1
    <3>3. dev' = [dev EXCEPT ![i].state = "NO_DEVICE"] /\ nv' = Saved(dev')
      BY <2>1, <2>3, <3>2 DEF LeaveIndication
    <3>4. Takes(i, "NO_DEVICE")
      BY <1>1, <3>3, StateTaken
    <3>5. \A j \in Slots : Alike(nv'[j], dev'[j])
      BY <1>1, <3>3 DEF Saved, Alike, SlotType
    <3>6. \A j \in Slots : Sound(dev'[j])
      BY <1>1, <3>4 DEF Takes, Sound
    <3>7. dev[i].state = "COMPLETED" => dev[i].short \notin net'
      BY <1>1, <2>1, <3>2 DEF Sound
    <3> QED BY <3>4, <3>5, <3>6, <3>7 DEF Takes, Outcome, Stored
  <2> QED BY <2>2, <2>3
<1>9. CASE ToggleBulbs
  <2>1. nv' = nv /\ \A i \in Slots : Alike(dev'[i], dev[i])
    BY <1>1, <1>9 DEF ToggleBulbs, SlotType, Alike
  <2> QED BY <2>1 DEF Outcome, Untouched
<1>10. CASE Reboot
  <2>1. nv' = nv /\ \A i \in Slots : Alike(dev'[i], nv[i])
    BY <1>1, <1>10 DEF Reboot, Restored, SlotType, Alike
  <2>2. PersistedAgrees
    BY DEF PersistInv
  <2>3. \A i \in Slots : Alike(nv'[i], dev'[i]) /\ Sound(dev'[i])
    BY <1>1, <2>1 DEF Alike, Sound
  <2>4. \A i \in Slots : dev[i].state = "COMPLETED" => dev'[i].state = "COMPLETED"
    BY <2>1, <2>2 DEF PersistedAgrees, Alike
  <2> QED BY <2>3, <2>4 DEF Outcome, Stored
<1>11. CASE UNCHANGED vars
  BY <1>2, <1>11 DEF vars
<1> QED BY <1>3, <1>4, <1>5, <1>6, <1>7, <1>8, <1>9, <1>10, <1>11 DEF Next, Answered

LEMMA PersistInit == Init => PersistInv
<1> SUFFICES ASSUME Init PROVE PersistInv
  OBVIOUS
<1>1. Only({}, {}, <<>>)
  BY DEF Init, Only, Tick, Alarm
<1>2. Sound(Empty) /\ \A i \in Slots : dev[i] = Empty /\ nv[i] = Empty
  BY DEF Init, Sound, Empty
<1> QED BY <1>1, <1>2, NothingPending DEF PersistInv, PersistedAgrees, Empty

LEMMA PersistStep ==
  "overlap" \notin Env /\ "late" \notin Env =>
     (TypeOK /\ OneSlotPerDevice /\ PersistInv /\ [Next]_vars => PersistInv')
  BY OneStep, Outcomes, OutcomesKeep DEF PersistInv

\* Devices that join one at a time and answers that come before the timeout
\* of their discovery (overlap and late excluded): then RAM and NVRAM agree on
\* the commissioned devices, with any number of slots, departures, failures,
\* repeated announcements and restarts.  The invariant is that at most one slot is
\* in the chain of requests, and that it is not a COMPLETED one.
THEOREM TableIsPersisted ==
  Env \cap {"overlap", "late"} = {} => (Spec => []PersistedAgrees)
<1> SUFFICES ASSUME "overlap" \notin Env, "late" \notin Env PROVE Spec => []PersistedAgrees
  OBVIOUS
<1>1. Init => PersistInv
  BY PersistInit
<1>2. TypeOK /\ OneSlotPerDevice /\ PersistInv /\ [Next]_vars => PersistInv'
  BY PersistStep
<1>3. PersistInv => PersistedAgrees
  BY DEF PersistInv
<1> QED BY <1>1, <1>2, <1>3, TypeCorrect, DevicesAreDistinct, PTL DEF Spec

\* In the same environments a commissioned device loses its slot only when it
\* has left the network: no timer, no removal, no answer and no restart takes
\* it away.
THEOREM CompletedKeepsItsSlot ==
  Env \cap {"overlap", "late"} = {} => (Spec => CompletedStays)
<1> SUFFICES ASSUME "overlap" \notin Env, "late" \notin Env PROVE Spec => CompletedStays
  OBVIOUS
<1>1. Init => PersistInv
  BY PersistInit
<1>2. TypeOK /\ OneSlotPerDevice /\ PersistInv /\ [Next]_vars => PersistInv'
  BY PersistStep
<1>3. TypeOK /\ OneSlotPerDevice /\ PersistInv /\ [Next]_vars =>
        [\A i \in Slots : dev[i].state = "COMPLETED" /\ dev'[i].state # "COMPLETED" =>
            dev[i].short \notin net']_vars
  BY Outcomes, OutcomesKeep DEF PersistInv
<1> QED BY <1>1, <1>2, <1>3, TypeCorrect, DevicesAreDistinct, PTL DEF Spec, CompletedStays

-----------------------------------------------------------------------------
(* Every answer counts once.                                               *)

Waiting(f, i) == \E p \in 1 .. Len(calls) : calls[p] = Alarm(f, i)
Asked(k, i) == Request(k, dev[i].short) \in reqs
NoRepeat == \A p, q \in 1 .. Len(calls) : calls[p] = calls[q] => p = q

Binding == {"CONFIGURE_BINDING", "CONFIGURE_REPORTING", "COMPLETED"}
Reporting == {"CONFIGURE_REPORTING", "COMPLETED"}

\* Slot i has the address of a device in the network, or none.
Addressed(i) ==
    /\ dev[i].state = "NO_DEVICE" => dev[i].short = Zero
    /\ dev[i].state # "NO_DEVICE" => dev[i].short \in net

\* While slot i waits for a match descriptor answer there is one timer or one
\* request that leads on, with the timeout that belongs to it; later none.
Matching(i) ==
    /\ Expire("onoff", i) \/ Expire("onoffTmo", i) \/ Expire("ias", i) \/ Expire("iasTmo", i)
          \/ Asked("match", i) \/ Asked("iasMatch", i) => dev[i].state = "MATCH_DESC_DISCOVERY"
    /\ ~ (Expire("onoff", i) /\ Asked("match", i))
    /\ ~ (Expire("ias", i) /\ Asked("iasMatch", i))
    /\ ~ (Expire("onoffTmo", i) /\ Expire("iasTmo", i))
    /\ Expire("onoffTmo", i) <=> Expire("onoff", i) \/ Asked("match", i)
    /\ Expire("iasTmo", i) <=> Expire("ias", i) \/ Asked("iasMatch", i)

\* Of each later step of the chain one callback or one request exists, and
\* none before the state it belongs to or after its answer was counted.
Stepping(i) ==
    /\ Waiting("ieee", i) \/ Asked("ieee", i) => dev[i].state = "IEEE_ADDR_DISCOVERY"
    /\ ~ (Waiting("ieee", i) /\ Asked("ieee", i))
    /\ Waiting("cie", i) => dev[i].state = "WRITE_CIE_ADDR"
    /\ ~ Waiting("remove", i)
    /\ Waiting("bind", i) \/ Asked("bind", i) => dev[i].state \in Binding /\ dev[i].short \notin bound
    /\ ~ (Waiting("bind", i) /\ Asked("bind", i))
    /\ Waiting("report", i) \/ Asked("report", i) =>
          dev[i].state \in Reporting /\ dev[i].short \notin conf
    /\ ~ (Waiting("report", i) /\ Asked("report", i))
    /\ dev[i].short \in bound => dev[i].state \in Binding
    /\ dev[i].short \in conf => dev[i].state \in Reporting

Owner(a) == \E i \in Slots : dev[i].state # "NO_DEVICE" /\ dev[i].short = a

\* The commissionings under way, any number of them.
ChainInv ==
    /\ \A i \in Slots : Addressed(i) /\ Matching(i) /\ Stepping(i)
    /\ \A k, a : Request(k, a) \in reqs => Owner(a) /\ k # "leave"
    /\ \A a \in bound \cup conf : Owner(a)
    /\ NoRepeat

\* Scheduling a callback, and running the next one.
LEMMA WaitsMore ==
  ASSUME calls \in Seq(CallType), NEW f \in Steps, NEW i \in Slots, Schedule(f, i)
  PROVE  /\ \A g, j : Waiting(g, j)' <=> Waiting(g, j) \/ (g = f /\ j = i)
         /\ NoRepeat /\ ~ Waiting(f, i) => NoRepeat'
<1>1. Alarm(f, i) \in CallType
  BY DEF Alarm, CallType
<1>2. /\ calls' = Append(calls, Alarm(f, i)) /\ Len(calls') = Len(calls) + 1
      /\ calls'[Len(calls) + 1] = Alarm(f, i)
      /\ \A k \in 1 .. Len(calls) : calls'[k] = calls[k]
      /\ Len(calls) \in Nat
  BY <1>1 DEF Schedule, Call
<1>3. ASSUME NEW g, NEW j PROVE Waiting(g, j)' <=> Waiting(g, j) \/ (g = f /\ j = i)
  <2>1. Waiting(g, j) => Waiting(g, j)'
    BY <1>2 DEF Waiting
  <2>2. Waiting(f, i)'
    BY <1>2 DEF Waiting
  <2>3. ASSUME Waiting(g, j)', ~ Waiting(g, j) PROVE g = f /\ j = i
    <3>1. PICK p \in 1 .. Len(calls') : calls'[p] = Alarm(g, j)
      BY <2>3 DEF Waiting
    <3>2. p = Len(calls) + 1
      BY <1>2, <2>3, <3>1 DEF Waiting
    <3> QED BY <1>2, <3>1, <3>2, AlarmsDiffer
  <2> QED BY <2>1, <2>2, <2>3
<1>4. ASSUME NoRepeat, ~ Waiting(f, i) PROVE NoRepeat'
  <2> SUFFICES ASSUME NEW p \in 1 .. Len(calls'), NEW q \in 1 .. Len(calls'), calls'[p] = calls'[q]
               PROVE  p = q
    BY DEF NoRepeat
  <2> QED BY <1>2, <1>4 DEF NoRepeat, Waiting
<1> QED BY <1>3, <1>4

LEMMA WaitsLess ==
  ASSUME calls \in Seq(CallType), NEW f, NEW i, IsNext(f, i), calls' = Tail(calls), NoRepeat
  PROVE  /\ Waiting(f, i)
         /\ \A g, j : Waiting(g, j)' <=> Waiting(g, j) /\ ~ (g = f /\ j = i)
         /\ NoRepeat'
<1>1. /\ Len(calls') = Len(calls) - 1 /\ Len(calls) \in Nat /\ Len(calls) > 0
      /\ \A k \in 1 .. Len(calls') : calls'[k] = calls[k + 1]
      /\ calls[1] = Alarm(f, i)
  BY DEF IsNext
<1>2. ASSUME NEW g, NEW j PROVE Waiting(g, j)' <=> Waiting(g, j) /\ ~ (g = f /\ j = i)
  <2>1. ASSUME Waiting(g, j)' PROVE Waiting(g, j) /\ ~ (g = f /\ j = i)
    <3>1. PICK p \in 1 .. Len(calls') : calls'[p] = Alarm(g, j)
      BY <2>1 DEF Waiting
    <3>2. p + 1 \in 1 .. Len(calls) /\ calls[p + 1] = Alarm(g, j) /\ p + 1 # 1
      BY <1>1, <3>1
    <3> QED BY <1>1, <3>2 DEF Waiting, NoRepeat
  <2>2. ASSUME Waiting(g, j), ~ (g = f /\ j = i) PROVE Waiting(g, j)'
    <3>1. PICK p \in 1 .. Len(calls) : calls[p] = Alarm(g, j)
      BY <2>2 DEF Waiting
    <3>2. p # 1
      <4>1. Alarm(f, i) # Alarm(g, j)
        BY <2>2, AlarmsDiffer
      <4> QED BY <1>1, <3>1, <4>1
    <3>3. p - 1 \in 1 .. Len(calls') /\ calls'[p - 1] = calls[p]
      BY <1>1, <3>1, <3>2
    <3> QED BY <3>1, <3>3 DEF Waiting
  <2> QED BY <2>1, <2>2
<1>3. NoRepeat'
  <2> SUFFICES ASSUME NEW p \in 1 .. Len(calls'), NEW q \in 1 .. Len(calls'), calls'[p] = calls'[q]
               PROVE  p = q
    BY DEF NoRepeat
  <2>1. p + 1 \in 1 .. Len(calls) /\ q + 1 \in 1 .. Len(calls) /\ calls[p + 1] = calls[q + 1]
    BY <1>1
  <2> QED BY <2>1 DEF NoRepeat
<1>4. Waiting(f, i)
  <2>1. 1 \in 1 .. Len(calls)
    BY <1>1
  <2> QED BY <1>1, <2>1 DEF Waiting
<1> QED BY <1>2, <1>3, <1>4

LEMMA AskedMore ==
  ASSUME NEW k, NEW a, reqs' = reqs \cup {Request(k, a)}
  PROVE  \A l, b : Request(l, b) \in reqs' <=> Request(l, b) \in reqs \/ (l = k /\ b = a)
  BY RequestsDiffer

LEMMA AskedLess ==
  ASSUME NEW k, NEW a, reqs' = reqs \ {Request(k, a)}
  PROVE  \A l, b : Request(l, b) \in reqs' <=> Request(l, b) \in reqs /\ ~ (l = k /\ b = a)
  BY RequestsDiffer

LEMMA ExpireLess ==
  ASSUME NEW f, NEW i, alarms' = alarms \ {Alarm(f, i)}
  PROVE  \A g, j : Expire(g, j)' <=> Expire(g, j) /\ ~ (g = f /\ j = i)
  BY AlarmsDiffer DEF Expire

\* A slot the step does not concern.
Frame(j) ==
    /\ dev'[j].state = dev[j].state /\ dev'[j].short = dev[j].short
    /\ \A f \in {"onoff", "onoffTmo", "ias", "iasTmo"} : Expire(f, j)' <=> Expire(f, j)
    /\ \A k \in {"match", "iasMatch", "ieee", "bind", "report"} :
          Request(k, dev[j].short) \in reqs' <=> Request(k, dev[j].short) \in reqs
    /\ \A f \in {"ieee", "cie", "bind", "report", "remove"} : Waiting(f, j)' <=> Waiting(f, j)
    /\ dev[j].short \in bound' <=> dev[j].short \in bound
    /\ dev[j].short \in conf' <=> dev[j].short \in conf

LEMMA FrameKeeps ==
  ASSUME NEW j, Frame(j), net \subseteq net', Addressed(j), Matching(j), Stepping(j)
  PROVE  Addressed(j)' /\ Matching(j)' /\ Stepping(j)'
<1>1. Addressed(j)'
  BY DEF Frame, Addressed
<1>2. /\ Asked("match", j)' <=> Asked("match", j)
      /\ Asked("iasMatch", j)' <=> Asked("iasMatch", j)
      /\ Asked("ieee", j)' <=> Asked("ieee", j)
      /\ Asked("bind", j)' <=> Asked("bind", j)
      /\ Asked("report", j)' <=> Asked("report", j)
  BY DEF Frame, Asked
<1>3. Matching(j)'
  <2>1. /\ Expire("onoff", j)' <=> Expire("onoff", j)
        /\ Expire("onoffTmo", j)' <=> Expire("onoffTmo", j)
        /\ Expire("ias", j)' <=> Expire("ias", j)
        /\ Expire("iasTmo", j)' <=> Expire("iasTmo", j)
        /\ dev'[j].state = dev[j].state
    BY DEF Frame
  <2> QED BY <1>2, <2>1 DEF Matching
<1>4. Stepping(j)'
  <2>1. /\ Waiting("ieee", j)' <=> Waiting("ieee", j)
        /\ Waiting("cie", j)' <=> Waiting("cie", j)
        /\ Waiting("bind", j)' <=> Waiting("bind", j)
        /\ Waiting("report", j)' <=> Waiting("report", j)
        /\ Waiting("remove", j)' <=> Waiting("remove", j)
        /\ dev'[j].state = dev[j].state /\ dev'[j].short = dev[j].short
        /\ dev[j].short \in bound' <=> dev[j].short \in bound
        /\ dev[j].short \in conf' <=> dev[j].short \in conf
    BY DEF Frame
  <2> QED BY <1>2, <2>1 DEF Stepping
<1> QED BY <1>1, <1>3, <1>4

\* An address of a slot in use is that of a device, and of no other slot.
LEMMA OwnAddress ==
  ASSUME TypeOK, OneSlotPerDevice, ChainInv, NEW i \in Slots, dev[i].state # "NO_DEVICE"
  PROVE  /\ dev[i].short \in net /\ dev[i].short # Zero
         /\ \A j \in Slots \ {i} : dev[j].short # dev[i].short
         /\ ByShort(dev[i].short) = i /\ i # Invalid
<1>1. dev[i].short \in net /\ dev[i].short # Zero
  BY SimpleGwAssumption DEF ChainInv, Addressed, TypeOK
<1>2. \A j \in Slots \ {i} : dev[j].short # dev[i].short
  BY <1>1 DEF OneSlotPerDevice, Distinct
<1>3. ByShort(dev[i].short) # Invalid
  BY Lookups
<1>4. ByShort(dev[i].short) \in Slots /\ dev[ByShort(dev[i].short)].short = dev[i].short
  BY <1>3, Lookups
<1> QED BY <1>1, <1>2, <1>3, <1>4

\* The slot of a device that is asked something.
LEMMA AskedSlot ==
  ASSUME TypeOK, OneSlotPerDevice, ChainInv, NEW k, NEW a, Request(k, a) \in reqs
  PROVE  \E i \in Slots : /\ dev[i].state # "NO_DEVICE" /\ dev[i].short = a /\ ByShort(a) = i
                          /\ i # Invalid /\ Asked(k, i) /\ a # Zero /\ a \in net
<1>1. PICK i \in Slots : dev[i].state # "NO_DEVICE" /\ dev[i].short = a
  BY DEF ChainInv, Owner
<1> QED BY <1>1, OwnAddress DEF Asked

\* ChainInv in terms of the slots after a step.
LEMMA ChainAfter ==
  ASSUME ChainInv, NEW i \in Slots,
         \A j \in Slots \ {i} : Frame(j), net \subseteq net',
         Addressed(i)', Matching(i)', Stepping(i)',
         dev[i].state # "NO_DEVICE" => dev'[i].state # "NO_DEVICE" /\ dev'[i].short = dev[i].short,
         \A k, a : Request(k, a) \in reqs' => Owner(a) /\ k # "leave",
         \A a \in bound' \cup conf' : Owner(a),
         NoRepeat'
  PROVE  ChainInv'
<1>1. ASSUME NEW j \in Slots PROVE Addressed(j)' /\ Matching(j)' /\ Stepping(j)'
  BY FrameKeeps DEF ChainInv
<1>2. ASSUME NEW a, Owner(a) PROVE Owner(a)'
  BY <1>2 DEF Owner, Frame
<1> QED BY <1>1, <1>2 DEF ChainInv

LEMMA ChainJoin ==
  ASSUME TypeOK, OneSlotPerDevice, ChainInv, NEW a \in Devices, Announce(a)
  PROVE  ChainInv'
<1>1. /\ calls' = calls /\ reqs' = reqs /\ bound' = bound /\ conf' = conf /\ net' = net \cup {a}
      /\ dev \in [Slots -> SlotType]
      /\ \A f, j : Waiting(f, j)' <=> Waiting(f, j)
      /\ NoRepeat'
  BY TypeParts DEF Announce, Table, Waiting, NoRepeat, ChainInv
<1>2. CASE Known(a) \/ ByState("NO_DEVICE") = Invalid
  <2>1. dev' = dev /\ alarms' = alarms
    BY <1>2 DEF Announce, Adopt
  <2>2. \A j \in Slots : Frame(j)
    BY <1>1, <2>1 DEF Frame, Expire
  <2>3. \A b : Owner(b)' <=> Owner(b)
    BY <2>1 DEF Owner
  <2> QED BY <1>1, <2>2, <2>3, FrameKeeps DEF ChainInv
<1>3. CASE ~ Known(a) /\ ByState("NO_DEVICE") # Invalid
  <2>1. ByState("NO_DEVICE") \in {k \in Slots : dev[k].state = "NO_DEVICE"}
    BY <1>3, FirstFinds DEF ByState
  <2>2. PICK i \in Slots :
           /\ dev[i].state = "NO_DEVICE"
           /\ dev' = [dev EXCEPT ![i].short = a, ![i].state = "MATCH_DESC_DISCOVERY"]
           /\ alarms' = alarms \cup Alarms({"onoff", "onoffTmo"}, i)
    BY <1>3, <2>1 DEF Announce, Adopt
  <2>3. \A j \in Slots : dev[j].short # a
    BY <1>3, Lookups DEF Known
  <2>4. dev'[i].short = a /\ dev'[i].state = "MATCH_DESC_DISCOVERY"
        /\ \A j \in Slots \ {i} : dev'[j] = dev[j]
    BY <1>1, <2>2 DEF SlotType
  <2>5. \A f, j : Expire(f, j)' <=> Expire(f, j) \/ (f \in {"onoff", "onoffTmo"} /\ j = i)
    BY <2>2, AlarmsDiffer DEF Expire, Alarms
  <2>6. \A j \in Slots \ {i} : Frame(j)
    BY <1>1, <2>4, <2>5 DEF Frame
  <2>7. ~ Owner(a)
    BY <2>3 DEF Owner
  <2>8. \A k : Request(k, a) \notin reqs'
    BY <1>1, <2>7 DEF ChainInv
  <2>9. a \notin bound' /\ a \notin conf'
    BY <1>1, <2>7 DEF ChainInv
  <2>10. Matching(i) /\ Stepping(i)
    BY DEF ChainInv
  <2>11. Addressed(i)'
    BY <1>1, <2>4 DEF Addressed
  <2>12. Matching(i)'
    BY <2>2, <2>4, <2>5, <2>8, <2>10 DEF Matching, Asked
  <2>13. Stepping(i)'
    BY <1>1, <2>2, <2>4, <2>8, <2>9, <2>10 DEF Stepping, Asked, Binding, Reporting
  <2>14. net \subseteq net' /\ \A b \in bound' \cup conf' : Owner(b)
    BY <1>1 DEF ChainInv
  <2> QED BY <1>1, <2>2, <2>6, <2>11, <2>12, <2>13, <2>14, ChainAfter DEF ChainInv
<1> QED BY <1>2, <1>3

LEMMA ChainTimer ==
  ASSUME "late" \notin Env, TypeOK, OneSlotPerDevice, ChainInv, NEW i \in Slots, Timer(i)
  PROVE  ChainInv'
<1>1. /\ dev' = dev /\ net' = net /\ bound' = bound /\ conf' = conf
  BY DEF Timer, FindOnoffDevice, FindIasZoneDevice, FindOnoffDeviceTmo,
         FindIasZoneDeviceTmo, SendToggleReq
<1>2. \A a : Owner(a)' <=> Owner(a)
  BY <1>1 DEF Owner
<1>3. Addressed(i) /\ Matching(i) /\ Stepping(i)
  BY DEF ChainInv
<1>4. ~ FindOnoffDeviceTmo(i) /\ ~ FindIasZoneDeviceTmo(i)
  BY <1>3 DEF FindOnoffDeviceTmo, FindIasZoneDeviceTmo, Over, Matching, Asked
<1>5. CASE FindOnoffDevice(i) \/ FindIasZoneDevice(i)
  <2>0. PICK f \in {"onoff", "ias"}, k \in {"match", "iasMatch"} :
           /\ f = "onoff" <=> k = "match"
           /\ Expire(f, i) /\ alarms' = alarms \ {Alarm(f, i)}
           /\ reqs' = reqs \cup {Request(k, dev[i].short)} /\ calls' = calls
    BY <1>5 DEF FindOnoffDevice, FindIasZoneDevice
  <2>1. dev[i].state = "MATCH_DESC_DISCOVERY"
    BY <1>3, <2>0 DEF Matching
  <2>2. \A l, b : Request(l, b) \in reqs' <=> Request(l, b) \in reqs \/ (l = k /\ b = dev[i].short)
    BY <2>0, AskedMore
  <2>3. \A g, j : Expire(g, j)' <=> Expire(g, j) /\ ~ (g = f /\ j = i)
    BY <2>0, ExpireLess
  <2>4. \A j \in Slots \ {i} : dev[j].short # dev[i].short
    BY <2>1, OwnAddress
  <2>5. (\A g, j : Waiting(g, j)' <=> Waiting(g, j)) /\ NoRepeat'
    BY <2>0 DEF Waiting, NoRepeat, ChainInv
  <2>6. \A j \in Slots \ {i} : Frame(j)
    BY <1>1, <2>2, <2>3, <2>4, <2>5 DEF Frame
  <2>7. Addressed(i)'
    BY <1>1, <1>3 DEF Addressed
  <2>8. Matching(i)'
    BY <1>1, <1>3, <2>0, <2>1, <2>2, <2>3 DEF Matching, Asked
  <2>9. Stepping(i)'
    BY <1>1, <1>3, <2>1, <2>2, <2>5 DEF Stepping, Asked
  <2>10. \A l, b : Request(l, b) \in reqs' => Owner(b) /\ l # "leave"
    BY <2>1, <2>2 DEF ChainInv, Owner
  <2>11. net \subseteq net' /\ \A a \in bound' \cup conf' : Owner(a)
    BY <1>1 DEF ChainInv
  <2> QED BY <1>1, <2>5, <2>6, <2>7, <2>8, <2>9, <2>10, <2>11, ChainAfter
<1>6. CASE SendToggleReq(i)
  <2>1. alarms' = alarms \ {Alarm("toggle", i)} /\ calls' = calls
        /\ reqs' \subseteq reqs \cup {Request("toggle", dev[i].short)} /\ reqs \subseteq reqs'
        /\ (dev[i].state = "COMPLETED" \/ reqs' = reqs)
    BY <1>6 DEF SendToggleReq
  <2>2. \A g, j : Expire(g, j)' <=> Expire(g, j) /\ ~ (g = "toggle" /\ j = i)
    BY <2>1, ExpireLess
  <2>3. \A l, b : l # "toggle" => (Request(l, b) \in reqs' <=> Request(l, b) \in reqs)
    BY <2>1, RequestsDiffer
  <2>4. (\A g, j : Waiting(g, j)' <=> Waiting(g, j)) /\ NoRepeat'
    BY <2>1 DEF Waiting, NoRepeat, ChainInv
  <2>5. \A j \in Slots : Frame(j)
    BY <1>1, <2>2, <2>3, <2>4 DEF Frame
  <2>6. \A l, b : Request(l, b) \in reqs' => Owner(b) /\ l # "leave"
    <3> SUFFICES ASSUME NEW l, NEW b, Request(l, b) \in reqs' PROVE Owner(b) /\ l # "leave"
      OBVIOUS
    <3>1. CASE Request(l, b) \in reqs
      BY <3>1 DEF ChainInv
    <3>2. CASE Request(l, b) \notin reqs
      <4>1. l = "toggle" /\ b = dev[i].short /\ dev[i].state = "COMPLETED"
        BY <2>1, <3>2, RequestsDiffer
      <4> QED BY <4>1 DEF Owner
    <3> QED BY <3>1, <3>2
  <2> QED BY <1>1, <1>2, <2>4, <2>5, <2>6, FrameKeeps DEF ChainInv
<1> QED BY <1>4, <1>5, <1>6 DEF Timer

LEMMA ChainCall ==
  ASSUME TypeOK, OneSlotPerDevice, ChainInv, NEW i \in Slots, RunCall(i)
  PROVE  ChainInv'
<1>1. dev \in [Slots -> SlotType] /\ dev \in Table /\ calls \in Seq(CallType) /\ NoRepeat
  BY TypeParts DEF Table, ChainInv
<1>2. Addressed(i) /\ Matching(i) /\ Stepping(i)
  BY DEF ChainInv
<1>3. CASE \E f \in Steps : SendStep(f, i)
  <2>1. PICK f \in {"ieee", "bind", "report"} : SendStep(f, i)
    BY <1>3 DEF SendStep
  <2>2. /\ IsNext(f, i) /\ calls' = Tail(calls) /\ reqs' = reqs \cup {Request(f, dev[i].short)}
        /\ dev' = dev /\ net' = net /\ bound' = bound /\ conf' = conf /\ alarms' = alarms
    BY <2>1 DEF SendStep
  <2>3. /\ Waiting(f, i) /\ NoRepeat'
        /\ \A g, j : Waiting(g, j)' <=> Waiting(g, j) /\ ~ (g = f /\ j = i)
    BY <1>1, <2>2, WaitsLess
  <2>4. dev[i].state # "NO_DEVICE"
    BY <1>2, <2>3 DEF Stepping, Binding, Reporting
  <2>5. \A j \in Slots \ {i} : dev[j].short # dev[i].short
    BY <2>4, OwnAddress
  <2>6. \A l, b : Request(l, b) \in reqs' <=> Request(l, b) \in reqs \/ (l = f /\ b = dev[i].short)
    BY <2>2, AskedMore
  <2>7. \A j \in Slots \ {i} : Frame(j)
    BY <2>2, <2>3, <2>5, <2>6 DEF Frame, Expire
  <2>8. Addressed(i)'
    BY <1>2, <2>2 DEF Addressed
  <2>9. Matching(i)'
    BY <1>2, <2>2, <2>6 DEF Matching, Asked, Expire
  <2>10. Stepping(i)'
    BY <1>2, <2>2, <2>3, <2>6 DEF Stepping, Asked
  <2>11. \A l, b : Request(l, b) \in reqs' => Owner(b) /\ l # "leave"
    BY <2>4, <2>6 DEF ChainInv, Owner
  <2>12. net \subseteq net' /\ \A a \in bound' \cup conf' : Owner(a)
    BY <2>2 DEF ChainInv
  <2> QED BY <2>2, <2>3, <2>7, <2>8, <2>9, <2>10, <2>11, <2>12, ChainAfter
<1>4. CASE WriteCieAddr(i)
  <2>1. /\ IsNext("cie", i) /\ calls' = Tail(calls) /\ reqs' = reqs
        /\ dev' = [dev EXCEPT ![i].state = "COMPLETED_NO_TOGGLE"]
        /\ net' = net /\ bound' = bound /\ conf' = conf /\ alarms' = alarms
    BY <1>4 DEF WriteCieAddr
  <2>2. /\ Waiting("cie", i) /\ NoRepeat'
        /\ \A g, j : Waiting(g, j)' <=> Waiting(g, j) /\ ~ (g = "cie" /\ j = i)
    BY <1>1, <2>1, WaitsLess
  <2>3. Takes(i, "COMPLETED_NO_TOGGLE")
    BY <1>1, <2>1, StateTaken
  <2>4. dev[i].state = "WRITE_CIE_ADDR"
    BY <1>2, <2>2 DEF Stepping
  <2>5. \A j \in Slots \ {i} : Frame(j)
    BY <2>1, <2>2, <2>3 DEF Frame, Expire, Takes
  <2>6. Addressed(i)' /\ dev'[i].short = dev[i].short /\ dev'[i].state = "COMPLETED_NO_TOGGLE"
    BY <1>2, <2>1, <2>3, <2>4 DEF Addressed, Takes
  <2>7. Matching(i)'
    BY <1>2, <2>1, <2>4, <2>6 DEF Matching, Asked, Expire
  <2>8. Stepping(i)'
    BY <1>2, <2>1, <2>2, <2>4, <2>6 DEF Stepping, Asked, Binding, Reporting
  <2>9. net \subseteq net' /\ \A a \in bound' \cup conf' : Owner(a)
    BY <2>1 DEF ChainInv
  <2>10. \A l, b : Request(l, b) \in reqs' => Owner(b) /\ l # "leave"
    BY <2>1 DEF ChainInv
  <2> QED BY <2>2, <2>5, <2>6, <2>7, <2>8, <2>9, <2>10, ChainAfter
<1>5. ~ RemoveDevice(i)
  BY <1>1, <1>2, WaitsLess DEF RemoveDevice, Stepping
<1> QED BY <1>3, <1>4, <1>5 DEF RunCall

\* The answers that take the slot of their device on.
LEMMA ChainNamed ==
  ASSUME TypeOK, OneSlotPerDevice, ChainInv, NEW a \in Devices \cup {Zero},
         MatchFound(a) \/ NoMatch(a) \/ IasFound(a) \/ NoIas(a) \/ IeeeAnswered(a)
  PROVE  ChainInv'
<1>1. dev \in [Slots -> SlotType] /\ dev \in Table /\ calls \in Seq(CallType) /\ NoRepeat
  BY TypeParts DEF Table, ChainInv
<1>2. {"ieee", "cie", "bind"} \subseteq Steps
  BY DEF Steps
<1>3. PICK k \in {"match", "iasMatch", "ieee"} :
         /\ Request(k, a) \in reqs /\ reqs' = reqs \ {Request(k, a)}
         /\ k = "match" <=> MatchFound(a) \/ NoMatch(a)
         /\ k = "iasMatch" <=> IasFound(a) \/ NoIas(a)
         /\ k = "ieee" <=> IeeeAnswered(a)
  <2>1. CASE MatchFound(a) \/ NoMatch(a)
    <3>1. Request("match", a) \in reqs /\ Request("match", a) \notin reqs'
      BY <2>1 DEF MatchFound, NoMatch, Answer
    <3>2. ~ IasFound(a) /\ ~ NoIas(a) /\ ~ IeeeAnswered(a)
      BY <3>1, RequestsDiffer DEF IasFound, NoIas, IeeeAnswered, Answer
    <3> QED BY <2>1, <3>2 DEF MatchFound, NoMatch, Answer
  <2>2. CASE IasFound(a) \/ NoIas(a)
    <3>1. Request("iasMatch", a) \in reqs /\ Request("iasMatch", a) \notin reqs'
      BY <2>2 DEF IasFound, NoIas, Answer
    <3>2. ~ MatchFound(a) /\ ~ NoMatch(a) /\ ~ IeeeAnswered(a)
      BY <3>1, RequestsDiffer DEF MatchFound, NoMatch, IeeeAnswered, Answer
    <3> QED BY <2>2, <3>2 DEF IasFound, NoIas, Answer
  <2>3. CASE IeeeAnswered(a)
    <3>1. Request("ieee", a) \in reqs /\ Request("ieee", a) \notin reqs'
      BY <2>3 DEF IeeeAnswered, Answer
    <3>2. ~ MatchFound(a) /\ ~ NoMatch(a) /\ ~ IasFound(a) /\ ~ NoIas(a)
      BY <3>1, RequestsDiffer DEF MatchFound, NoMatch, IasFound, NoIas, Answer
    <3> QED BY <2>3, <3>2 DEF IeeeAnswered, Answer
  <2> QED BY <2>1, <2>2, <2>3
<1>4. net' = net /\ bound' = bound /\ conf' = conf
  BY DEF MatchFound, NoMatch, IasFound, NoIas, IeeeAnswered
<1>5. PICK i \in Slots : dev[i].state # "NO_DEVICE" /\ dev[i].short = a /\ ByShort(a) = i
                         /\ i # Invalid /\ Asked(k, i)
  BY <1>3, AskedSlot
<1>6. Addressed(i) /\ Matching(i) /\ Stepping(i) /\ \A j \in Slots \ {i} : dev[j].short # a
  BY <1>5, OwnAddress DEF ChainInv
<1>7. \A l, b : Request(l, b) \in reqs' <=> Request(l, b) \in reqs /\ ~ (l = k /\ b = a)
  BY <1>3, AskedLess
<1>8. \A l, b : Request(l, b) \in reqs' => Owner(b) /\ l # "leave"
  BY <1>7 DEF ChainInv
<1>9. net \subseteq net' /\ \A b \in bound' \cup conf' : Owner(b)
  BY <1>4 DEF ChainInv
<1>10. ASSUME \A j \in Slots \ {i} : dev'[j] = dev[j],
              \A g \in {"onoff", "onoffTmo", "ias", "iasTmo"} : \A j : j # i => (Expire(g, j)' <=> Expire(g, j)),
              calls' = calls \/ \E g \in Steps : Schedule(g, i)
       PROVE  \A j \in Slots \ {i} : Frame(j)
  <2>1. ASSUME NEW j \in Slots \ {i}, NEW g PROVE Waiting(g, j)' <=> Waiting(g, j)
    BY <1>1, <1>10, WaitsMore DEF Waiting
  <2> QED BY <1>4, <1>6, <1>7, <1>10, <2>1 DEF Frame
<1>11. CASE MatchFound(a)
  <2>1. k = "match" /\ dev[i].state = "MATCH_DESC_DISCOVERY"
    BY <1>3, <1>5, <1>6, <1>11 DEF Matching
  <2>2. /\ alarms' = alarms \ {Alarm("onoffTmo", i)} /\ Schedule("ieee", i)
        /\ dev' = [dev EXCEPT ![i].state = "IEEE_ADDR_DISCOVERY"]
    BY <1>5, <1>11 DEF MatchFound
  <2>3. Takes(i, "IEEE_ADDR_DISCOVERY")
    BY <1>1, <2>2, StateTaken
  <2>4. \A g, j : Expire(g, j)' <=> Expire(g, j) /\ ~ (g = "onoffTmo" /\ j = i)
    BY <2>2, ExpireLess
  <2>5. ~ Waiting("ieee", i)
    BY <1>6, <2>1 DEF Stepping
  <2>6. (\A g, j : Waiting(g, j)' <=> Waiting(g, j) \/ (g = "ieee" /\ j = i)) /\ NoRepeat'
    BY <1>1, <1>2, <2>2, <2>5, WaitsMore
  <2>7. \A j \in Slots \ {i} : Frame(j)
    BY <1>2, <1>10, <2>2, <2>3, <2>4 DEF Takes
  <2>8. Addressed(i)' /\ dev'[i].short = a /\ dev'[i].state = "IEEE_ADDR_DISCOVERY"
    BY <1>4, <1>5, <1>6, <2>3 DEF Takes, Addressed
  <2>9. Matching(i)'
    BY <1>5, <1>6, <1>7, <2>1, <2>4, <2>8 DEF Matching, Asked
  <2>10. Stepping(i)'
    BY <1>4, <1>5, <1>6, <1>7, <2>1, <2>6, <2>8 DEF Stepping, Asked, Binding, Reporting
  <2> QED BY <1>5, <1>8, <1>9, <2>6, <2>7, <2>8, <2>9, <2>10, ChainAfter
<1>12. CASE NoMatch(a)
  <2>1. k = "match" /\ dev[i].state = "MATCH_DESC_DISCOVERY"
    BY <1>3, <1>5, <1>6, <1>12 DEF Matching
  <2>2. /\ alarms' = (alarms \ {Alarm("onoffTmo", i)}) \cup Alarms({"ias", "iasTmo"}, i)
        /\ dev' = dev /\ calls' = calls
    BY <1>5, <1>12 DEF NoMatch, IasTimers
  <2>3. \A g, j : Expire(g, j)' <=> (Expire(g, j) /\ ~ (g = "onoffTmo" /\ j = i))
                                    \/ (g \in {"ias", "iasTmo"} /\ j = i)
    BY <2>2, AlarmsDiffer DEF Expire, Alarms
  <2>4. (\A g, j : Waiting(g, j)' <=> Waiting(g, j)) /\ NoRepeat'
    BY <1>1, <2>2 DEF Waiting, NoRepeat
  <2>5. \A j \in Slots \ {i} : Frame(j)
    BY <1>10, <2>2, <2>3
  <2>6. Addressed(i)'
    BY <1>4, <1>6, <2>2 DEF Addressed
  <2>7. Matching(i)'
    BY <1>5, <1>6, <1>7, <2>1, <2>2, <2>3 DEF Matching, Asked
  <2>8. Stepping(i)'
    BY <1>4, <1>5, <1>6, <1>7, <2>1, <2>2, <2>4 DEF Stepping, Asked
  <2> QED BY <1>8, <1>9, <2>2, <2>4, <2>5, <2>6, <2>7, <2>8, ChainAfter
<1>13. CASE IasFound(a)
  <2>1. k = "iasMatch" /\ dev[i].state = "MATCH_DESC_DISCOVERY"
    BY <1>3, <1>5, <1>6, <1>13 DEF Matching
  <2>2. /\ alarms' = alarms \ {Alarm("iasTmo", i)} /\ Schedule("cie", i)
        /\ dev' = [dev EXCEPT ![i].state = "WRITE_CIE_ADDR"]
    BY <1>5, <1>13 DEF IasFound
  <2>3. Takes(i, "WRITE_CIE_ADDR")
    BY <1>1, <2>2, StateTaken
  <2>4. \A g, j : Expire(g, j)' <=> Expire(g, j) /\ ~ (g = "iasTmo" /\ j = i)
    BY <2>2, ExpireLess
  <2>5. ~ Waiting("cie", i)
    BY <1>6, <2>1 DEF Stepping
  <2>6. (\A g, j : Waiting(g, j)' <=> Waiting(g, j) \/ (g = "cie" /\ j = i)) /\ NoRepeat'
    BY <1>1, <1>2, <2>2, <2>5, WaitsMore
  <2>7. \A j \in Slots \ {i} : Frame(j)
    BY <1>2, <1>10, <2>2, <2>3, <2>4 DEF Takes
  <2>8. Addressed(i)' /\ dev'[i].short = a /\ dev'[i].state = "WRITE_CIE_ADDR"
    BY <1>4, <1>5, <1>6, <2>3 DEF Takes, Addressed
  <2>9. Matching(i)'
    BY <1>5, <1>6, <1>7, <2>1, <2>4, <2>8 DEF Matching, Asked
  <2>10. Stepping(i)'
    BY <1>4, <1>5, <1>6, <1>7, <2>1, <2>6, <2>8 DEF Stepping, Asked, Binding, Reporting
  <2> QED BY <1>5, <1>8, <1>9, <2>6, <2>7, <2>8, <2>9, <2>10, ChainAfter
<1>14. CASE NoIas(a)
  <2>1. k = "iasMatch" /\ dev[i].state = "MATCH_DESC_DISCOVERY"
    BY <1>3, <1>5, <1>6, <1>14 DEF Matching
  <2>2. /\ alarms' = alarms \ {Alarm("iasTmo", i)} /\ calls' = calls
        /\ dev' = [dev EXCEPT ![i].state = "COMPLETED_NO_TOGGLE"]
    BY <1>5, <1>14 DEF NoIas
  <2>3. Takes(i, "COMPLETED_NO_TOGGLE")
    BY <1>1, <2>2, StateTaken
  <2>4. \A g, j : Expire(g, j)' <=> Expire(g, j) /\ ~ (g = "iasTmo" /\ j = i)
    BY <2>2, ExpireLess
  <2>5. (\A g, j : Waiting(g, j)' <=> Waiting(g, j)) /\ NoRepeat'
    BY <1>1, <2>2 DEF Waiting, NoRepeat
  <2>6. \A j \in Slots \ {i} : Frame(j)
    BY <1>10, <2>2, <2>3, <2>4 DEF Takes
  <2>7. Addressed(i)' /\ dev'[i].short = a /\ dev'[i].state = "COMPLETED_NO_TOGGLE"
    BY <1>4, <1>5, <1>6, <2>3 DEF Takes, Addressed
  <2>8. Matching(i)'
    BY <1>5, <1>6, <1>7, <2>1, <2>4, <2>7 DEF Matching, Asked
  <2>9. Stepping(i)'
    BY <1>4, <1>5, <1>6, <1>7, <2>1, <2>5, <2>7 DEF Stepping, Asked, Binding, Reporting
  <2> QED BY <1>5, <1>8, <1>9, <2>5, <2>6, <2>7, <2>8, <2>9, ChainAfter
<1>15. CASE IeeeAnswered(a)
  <2>1. k = "ieee" /\ dev[i].state = "IEEE_ADDR_DISCOVERY"
    BY <1>3, <1>5, <1>6, <1>15 DEF Stepping
  <2>2. /\ alarms' = alarms /\ Schedule("bind", i)
        /\ dev' = [dev EXCEPT ![i].ieee = a, ![i].state = "CONFIGURE_BINDING"]
    BY <1>5, <1>15 DEF IeeeAnswered
  <2>3. /\ dev'[i].state = "CONFIGURE_BINDING" /\ dev'[i].short = a
        /\ \A j \in Slots \ {i} : dev'[j] = dev[j]
    BY <1>1, <1>5, <2>2 DEF SlotType
  <2>4. ~ Waiting("bind", i)
    BY <1>6, <2>1 DEF Stepping, Binding
  <2>5. (\A g, j : Waiting(g, j)' <=> Waiting(g, j) \/ (g = "bind" /\ j = i)) /\ NoRepeat'
    BY <1>1, <1>2, <2>2, <2>4, WaitsMore
  <2>6. \A j \in Slots \ {i} : Frame(j)
    BY <1>2, <1>10, <2>2, <2>3 DEF Expire
  <2>7. Addressed(i)'
    BY <1>4, <1>5, <1>6, <2>3 DEF Addressed
  <2>8. Matching(i)'
    BY <1>5, <1>6, <1>7, <2>1, <2>2, <2>3 DEF Matching, Asked, Expire
  <2>9. Stepping(i)'
    BY <1>4, <1>5, <1>6, <1>7, <2>1, <2>3, <2>5 DEF Stepping, Asked, Binding, Reporting
  <2> QED BY <1>5, <1>8, <1>9, <2>3, <2>5, <2>6, <2>7, <2>8, <2>9, ChainAfter
<1> QED BY <1>11, <1>12, <1>13, <1>14, <1>15

\* The slots in one of some states, and what a step that moves slot i from
\* outside of them into them adds.
InStates(S) == {i \in Slots : dev[i].state \in S}

LEMMA SlotsFinite == IsFiniteSet(Slots) /\ \A S : IsFiniteSet(InStates(S)) /\ InStates(S) \subseteq Slots
<1>1. IsFiniteSet(Slots)
  BY SimpleGwAssumption, FS_Interval DEF Slots
<1> QED BY <1>1, FS_Subset DEF InStates

\* As many devices as slots of a set at most: each is in one of them.
LEMMA AtMost ==
  ASSUME NEW T, T \subseteq Slots, NEW B, \A a \in B : \E i \in T : dev[i].short = a
  PROVE  IsFiniteSet(B) /\ Cardinality(B) <= Cardinality(T) /\ Cardinality(T) \in Nat
         /\ Cardinality(B) \in Nat
<1>1. IsFiniteSet(T)
  BY SlotsFinite, FS_Subset
<1> DEFINE R == {dev[i].short : i \in T}
           f == [i \in T |-> dev[i].short]
<1>2. f \in Surjection(T, R)
  BY DEF Surjection
<1>3. IsFiniteSet(R) /\ Cardinality(R) <= Cardinality(T)
  BY <1>1, <1>2, FS_Surjection
<1>4. B \in SUBSET R
  OBVIOUS
<1>5. IsFiniteSet(B) /\ Cardinality(B) <= Cardinality(R)
  BY <1>3, <1>4, FS_Subset
<1> QED BY <1>1, <1>3, <1>5, FS_CardinalityType

\* Where each of the devices of B has a slot of T and slot i is another one of
\* T, there are fewer devices than slots.
LEMMA FewerThan ==
  ASSUME NEW T, T \subseteq Slots, NEW i \in T,
         NEW B, \A a \in B : a # dev[i].short /\ \E j \in T : dev[j].short = a
  PROVE  Cardinality(B) # Cardinality(T)
<1>1. IsFiniteSet(T)
  BY SlotsFinite, FS_Subset
<1>2. Cardinality(B) <= Cardinality(T \ {i}) /\ Cardinality(B) \in Nat
  BY AtMost
<1>3. Cardinality(T \ {i}) = Cardinality(T) - 1 /\ Cardinality(T) \in Nat
  BY <1>1, FS_RemoveElement, FS_CardinalityType
<1> QED BY <1>2, <1>3

LEMMA OneMore ==
  ASSUME NEW B, IsFiniteSet(B), NEW b, b \notin B
  PROVE  Cardinality(B \cup {b}) = Cardinality(B) + 1 /\ Cardinality(B) \in Nat
  BY FS_AddElement, FS_CardinalityType

Counted ==
    /\ Cardinality(InStates(Reporting)) = Cardinality(bound)
    /\ Cardinality(InStates({"COMPLETED"})) = Cardinality(conf)

LEMMA CountedIsIt == EveryAnswerCounts <=> Counted
  BY DEF EveryAnswerCounts, Counted, InStates, Reporting

\* A step that neither counts nor moves.
LEMMA CountedStays ==
  ASSUME Counted, bound' = bound, conf' = conf,
         \A i \in Slots : /\ dev[i].state \in Reporting <=> dev'[i].state \in Reporting
                          /\ dev[i].state = "COMPLETED" <=> dev'[i].state = "COMPLETED"
  PROVE  Counted'
<1>1. InStates(Reporting)' = InStates(Reporting) /\ InStates({"COMPLETED"})' = InStates({"COMPLETED"})
  BY DEF InStates, Reporting
<1> QED BY <1>1 DEF Counted

\* The answer to a bind request: a slot waits for it, since there are fewer
\* devices counted than slots with their request behind them.
LEMMA ChainBind ==
  ASSUME TypeOK, OneSlotPerDevice, ChainInv, Counted, NEW a \in Devices \cup {Zero}, BindAnswered(a)
  PROVE  ChainInv' /\ Counted'
<1>1. dev \in [Slots -> SlotType] /\ dev \in Table /\ calls \in Seq(CallType) /\ NoRepeat
      /\ "report" \in Steps
  BY TypeParts DEF Table, ChainInv, Steps
<1>2. /\ Request("bind", a) \in reqs /\ reqs' = reqs \ {Request("bind", a)}
      /\ net' = net /\ conf' = conf /\ alarms' = alarms /\ bound' = bound \cup ({a} \ {Zero})
  BY DEF BindAnswered, Answer
<1>3. PICK i \in Slots : dev[i].state # "NO_DEVICE" /\ dev[i].short = a /\ Asked("bind", i) /\ a # Zero
  BY <1>2, AskedSlot
<1>4. dev[i].state \in Binding /\ a \notin bound /\ ~ Waiting("bind", i)
      /\ \A j \in Slots \ {i} : dev[j].short # a
  BY <1>3, OwnAddress DEF ChainInv, Stepping
<1>5. bound' = bound \cup {a}
  BY <1>2, <1>3
<1>6. BindSlot # Invalid
  <2> SUFFICES ASSUME BindSlot = Invalid PROVE FALSE
    OBVIOUS
  <2>1. \A j \in Slots : dev[j].state # "CONFIGURE_BINDING"
    <3>1. {j \in Slots : dev[j].state = "CONFIGURE_BINDING"} = {}
      BY FirstFinds DEF BindSlot, ByState
    <3> QED BY <3>1
  <2>2. i \in InStates(Reporting)
    BY <1>4, <2>1 DEF InStates, Binding, Reporting
  <2>3. \A b \in bound : b # dev[i].short /\ \E j \in InStates(Reporting) : dev[j].short = b
    <3> SUFFICES ASSUME NEW b \in bound PROVE \E j \in InStates(Reporting) : dev[j].short = b
      BY <1>3, <1>4
    <3>1. PICK j \in Slots : dev[j].short = b
      BY DEF ChainInv, Owner
    <3>2. dev[j].state \in Binding
      BY <3>1 DEF ChainInv, Stepping
    <3> QED BY <2>1, <3>1, <3>2 DEF InStates, Binding, Reporting
  <2>4. InStates(Reporting) \subseteq Slots
    BY SlotsFinite
  <2> QED BY <2>2, <2>3, <2>4, FewerThan DEF Counted
<1>7. PICK k \in Slots : k = BindSlot /\ dev[k].state = "CONFIGURE_BINDING"
  <2>1. BindSlot \in {j \in Slots : dev[j].state = "CONFIGURE_BINDING"}
    BY <1>6, FirstFinds DEF BindSlot, ByState
  <2> QED BY <2>1
<1>8. dev' = [dev EXCEPT ![k].state = "CONFIGURE_REPORTING"] /\ Schedule("report", k)
  BY <1>6, <1>7 DEF BindAnswered
<1>9. Takes(k, "CONFIGURE_REPORTING")
  BY <1>1, <1>8, StateTaken
<1>10. \A l, b : Request(l, b) \in reqs' <=> Request(l, b) \in reqs /\ ~ (l = "bind" /\ b = a)
  BY <1>2, AskedLess
<1>11. ~ Waiting("report", k) /\ ~ Asked("report", k) /\ dev[k].short \notin conf
  BY <1>7 DEF ChainInv, Stepping, Reporting
<1>12. (\A g, j : Waiting(g, j)' <=> Waiting(g, j) \/ (g = "report" /\ j = k)) /\ NoRepeat'
  BY <1>1, <1>8, <1>11, WaitsMore
<1>13. ASSUME NEW j \in Slots PROVE Addressed(j)' /\ Matching(j)' /\ Stepping(j)'
  <2>1. Addressed(j) /\ Matching(j) /\ Stepping(j)
    BY DEF ChainInv
  <2>2. dev'[j].short = dev[j].short
        /\ dev'[j].state = IF j = k THEN "CONFIGURE_REPORTING" ELSE dev[j].state
    BY <1>9 DEF Takes
  <2>3. Addressed(j)'
    BY <1>2, <1>7, <2>1, <2>2 DEF Addressed
  <2>4. Matching(j)'
    BY <1>2, <1>7, <1>10, <2>1, <2>2 DEF Matching, Asked, Expire
  <2>5. Stepping(j)'
    <3>1. dev[j].short = a => j = i
      BY <1>4
    <3>2. dev'[j].state \in Reporting <=> dev[j].state \in Reporting \/ j = k
      BY <2>2 DEF Reporting
    <3>3. dev'[j].state \in Binding <=> dev[j].state \in Binding
      BY <1>7, <2>2 DEF Binding
    <3>4. \/ dev'[j].state = dev[j].state
          \/ dev'[j].state = "CONFIGURE_REPORTING" /\ dev[j].state = "CONFIGURE_BINDING"
      BY <1>7, <2>2
    <3>5. ~ Waiting("remove", j)'
      BY <1>12, <2>1 DEF Stepping
    <3>6. /\ Waiting("ieee", j)' \/ Asked("ieee", j)' => dev'[j].state = "IEEE_ADDR_DISCOVERY"
          /\ ~ (Waiting("ieee", j)' /\ Asked("ieee", j)')
          /\ Waiting("cie", j)' => dev'[j].state = "WRITE_CIE_ADDR"
      BY <1>10, <1>12, <2>1, <2>2, <3>4 DEF Stepping, Asked
    <3>7. /\ Waiting("bind", j)' \/ Asked("bind", j)' =>
                dev'[j].state \in Binding /\ dev'[j].short \notin bound'
          /\ ~ (Waiting("bind", j)' /\ Asked("bind", j)')
          /\ dev'[j].short \in bound' => dev'[j].state \in Binding
      BY <1>3, <1>4, <1>5, <1>10, <1>12, <2>1, <2>2, <3>1, <3>3 DEF Stepping, Asked
    <3>8. /\ Waiting("report", j)' \/ Asked("report", j)' =>
                dev'[j].state \in Reporting /\ dev'[j].short \notin conf'
          /\ ~ (Waiting("report", j)' /\ Asked("report", j)')
          /\ dev'[j].short \in conf' => dev'[j].state \in Reporting
      BY <1>2, <1>10, <1>11, <1>12, <2>1, <2>2, <3>2 DEF Stepping, Asked
    <3> QED BY <3>5, <3>6, <3>7, <3>8 DEF Stepping
  <2> QED BY <2>3, <2>4, <2>5
<1>14. \A b : Owner(b) => Owner(b)'
  BY <1>7, <1>9 DEF Owner, Takes
<1>15. ChainInv'
  <2>1. \A b \in bound' \cup conf' : Owner(b)
    BY <1>2, <1>3, <1>5 DEF ChainInv, Owner
  <2>2. \A l, b : Request(l, b) \in reqs' => Owner(b) /\ l # "leave"
    BY <1>10 DEF ChainInv
  <2> QED BY <1>12, <1>13, <1>14, <2>1, <2>2 DEF ChainInv
<1>16. Counted'
  <2>1. InStates(Reporting)' = InStates(Reporting) \cup {k} /\ k \notin InStates(Reporting)
        /\ InStates({"COMPLETED"})' = InStates({"COMPLETED"})
    BY <1>7, <1>9 DEF InStates, Reporting, Takes
  <2>2. IsFiniteSet(bound)
    <3>1. \A b \in bound : \E j \in Slots : dev[j].short = b
      BY DEF ChainInv, Owner
    <3> QED BY <3>1, AtMost
  <2>3. Cardinality(InStates(Reporting) \cup {k}) = Cardinality(InStates(Reporting)) + 1
    BY <2>1, SlotsFinite, OneMore
  <2>4. Cardinality(bound \cup {a}) = Cardinality(bound) + 1
    BY <1>4, <2>2, OneMore
  <2> QED BY <1>2, <1>5, <2>1, <2>3, <2>4 DEF Counted
<1> QED BY <1>15, <1>16

\* The answer to a reporting request, likewise.
LEMMA ChainReport ==
  ASSUME TypeOK, OneSlotPerDevice, ChainInv, Counted, NEW a \in Devices \cup {Zero}, ReportAnswered(a)
  PROVE  ChainInv' /\ Counted'
<1>1. dev \in [Slots -> SlotType] /\ dev \in Table /\ NoRepeat
  BY TypeParts DEF Table, ChainInv
<1>2. /\ Request("report", a) \in reqs /\ reqs' = reqs \ {Request("report", a)}
      /\ net' = net /\ bound' = bound /\ alarms' = alarms /\ conf' = conf \cup ({a} \ {Zero})
      /\ calls' = calls
  BY DEF ReportAnswered, Answer
<1>3. PICK i \in Slots : dev[i].state # "NO_DEVICE" /\ dev[i].short = a /\ Asked("report", i) /\ a # Zero
  BY <1>2, AskedSlot
<1>4. dev[i].state \in Reporting /\ a \notin conf /\ ~ Waiting("report", i)
      /\ \A j \in Slots \ {i} : dev[j].short # a
  BY <1>3, OwnAddress DEF ChainInv, Stepping
<1>5. conf' = conf \cup {a}
  BY <1>2, <1>3
<1> DEFINE w == ByState("CONFIGURE_REPORTING")
<1>6. w # Invalid
  <2> SUFFICES ASSUME w = Invalid PROVE FALSE
    OBVIOUS
  <2>1. \A j \in Slots : dev[j].state # "CONFIGURE_REPORTING"
    <3>1. {j \in Slots : dev[j].state = "CONFIGURE_REPORTING"} = {}
      BY FirstFinds DEF ByState
    <3> QED BY <3>1
  <2>2. i \in InStates({"COMPLETED"})
    BY <1>4, <2>1 DEF InStates, Reporting
  <2>3. \A b \in conf : b # dev[i].short /\ \E j \in InStates({"COMPLETED"}) : dev[j].short = b
    <3> SUFFICES ASSUME NEW b \in conf PROVE \E j \in InStates({"COMPLETED"}) : dev[j].short = b
      BY <1>3, <1>4
    <3>1. PICK j \in Slots : dev[j].short = b
      BY DEF ChainInv, Owner
    <3>2. dev[j].state \in Reporting
      BY <3>1 DEF ChainInv, Stepping
    <3> QED BY <2>1, <3>1, <3>2 DEF InStates, Reporting
  <2>4. InStates({"COMPLETED"}) \subseteq Slots
    BY SlotsFinite
  <2> QED BY <2>2, <2>3, <2>4, FewerThan DEF Counted
<1>7. PICK k \in Slots : k = w /\ dev[k].state = "CONFIGURE_REPORTING"
  <2>1. w \in {j \in Slots : dev[j].state = "CONFIGURE_REPORTING"}
    BY <1>6, FirstFinds DEF ByState
  <2> QED BY <2>1
<1>8. dev' = [[dev EXCEPT ![k].state = "COMPLETED"] EXCEPT ![k].pending = ToggleWait(k)]
  BY <1>6, <1>7 DEF ReportAnswered
<1>9. /\ dev'[k].state = "COMPLETED" /\ dev'[k].short = dev[k].short
      /\ \A j \in Slots \ {k} : dev'[j] = dev[j]
  BY <1>1, <1>8 DEF SlotType
<1>10. \A l, b : Request(l, b) \in reqs' <=> Request(l, b) \in reqs /\ ~ (l = "report" /\ b = a)
  BY <1>2, AskedLess
<1>11. /\ \A g, j : Waiting(g, j)' <=> Waiting(g, j)
       /\ NoRepeat'
  BY <1>1, <1>2 DEF Waiting, NoRepeat
<1>12. ASSUME NEW j \in Slots PROVE Addressed(j)' /\ Matching(j)' /\ Stepping(j)'
  <2>1. Addressed(j) /\ Matching(j) /\ Stepping(j)
    BY DEF ChainInv
  <2>2. dev'[j].short = dev[j].short /\ dev'[j].state = IF j = k THEN "COMPLETED" ELSE dev[j].state
    BY <1>9
  <2>3. Addressed(j)'
    BY <1>2, <1>7, <2>1, <2>2 DEF Addressed
  <2>4. Matching(j)'
    BY <1>2, <1>7, <1>10, <2>1, <2>2 DEF Matching, Asked, Expire
  <2>5. Stepping(j)'
    <3>1. dev[j].short = a => j = i
      BY <1>4
    <3>2. dev'[j].state \in Reporting <=> dev[j].state \in Reporting
      BY <1>7, <2>2 DEF Reporting
    <3>3. dev'[j].state \in Binding <=> dev[j].state \in Binding
      BY <1>7, <2>2 DEF Binding
    <3>4. \/ dev'[j].state = dev[j].state
          \/ dev'[j].state = "COMPLETED" /\ dev[j].state = "CONFIGURE_REPORTING"
      BY <1>7, <2>2
    <3>5. ~ Waiting("remove", j)'
      BY <1>11, <2>1 DEF Stepping
    <3>6. /\ Waiting("ieee", j)' \/ Asked("ieee", j)' => dev'[j].state = "IEEE_ADDR_DISCOVERY"
          /\ ~ (Waiting("ieee", j)' /\ Asked("ieee", j)')
          /\ Waiting("cie", j)' => dev'[j].state = "WRITE_CIE_ADDR"
      BY <1>10, <1>11, <2>1, <2>2, <3>4 DEF Stepping, Asked
    <3>7. /\ Waiting("bind", j)' \/ Asked("bind", j)' =>
                dev'[j].state \in Binding /\ dev'[j].short \notin bound'
          /\ ~ (Waiting("bind", j)' /\ Asked("bind", j)')
          /\ dev'[j].short \in bound' => dev'[j].state \in Binding
      BY <1>2, <1>10, <1>11, <2>1, <2>2, <3>3 DEF Stepping, Asked
    <3>8. /\ Waiting("report", j)' \/ Asked("report", j)' =>
                dev'[j].state \in Reporting /\ dev'[j].short \notin conf'
          /\ ~ (Waiting("report", j)' /\ Asked("report", j)')
          /\ dev'[j].short \in conf' => dev'[j].state \in Reporting
      BY <1>3, <1>4, <1>5, <1>10, <1>11, <2>1, <2>2, <3>1, <3>2 DEF Stepping, Asked
    <3> QED BY <3>5, <3>6, <3>7, <3>8 DEF Stepping
  <2> QED BY <2>3, <2>4, <2>5
<1>13. \A b : Owner(b) => Owner(b)'
  BY <1>7, <1>9 DEF Owner
<1>14. ChainInv'
  <2>1. \A b \in bound' \cup conf' : Owner(b)
    BY <1>2, <1>3, <1>5 DEF ChainInv, Owner
  <2>2. \A l, b : Request(l, b) \in reqs' => Owner(b) /\ l # "leave"
    BY <1>10 DEF ChainInv
  <2> QED BY <1>11, <1>12, <1>13, <2>1, <2>2 DEF ChainInv
<1>15. Counted'
  <2>1. InStates({"COMPLETED"})' = InStates({"COMPLETED"}) \cup {k} /\ k \notin InStates({"COMPLETED"})
        /\ InStates(Reporting)' = InStates(Reporting)
    BY <1>7, <1>9 DEF InStates, Reporting
  <2>2. IsFiniteSet(conf)
    <3>1. \A b \in conf : \E j \in Slots : dev[j].short = b
      BY DEF ChainInv, Owner
    <3> QED BY <3>1, AtMost
  <2>3. Cardinality(InStates({"COMPLETED"}) \cup {k}) = Cardinality(InStates({"COMPLETED"})) + 1
    BY <2>1, SlotsFinite, OneMore
  <2>4. Cardinality(conf \cup {a}) = Cardinality(conf) + 1
    BY <1>4, <2>2, OneMore
  <2> QED BY <1>2, <1>5, <2>1, <2>3, <2>4 DEF Counted
<1> QED BY <1>14, <1>15

\* No other step moves a slot into or out of the states that are counted.
LEMMA OthersDoNotCount ==
  ASSUME TypeOK, OneSlotPerDevice, ChainInv, "late" \notin Env, Counted,
         \/ \E a \in Devices : Announce(a)
         \/ \E i \in Slots : Timer(i) \/ RunCall(i)
         \/ \E a \in Devices \cup {Zero} :
               MatchFound(a) \/ NoMatch(a) \/ IasFound(a) \/ NoIas(a) \/ IeeeAnswered(a)
  PROVE  Counted'
<1>1. dev \in [Slots -> SlotType] /\ dev \in Table /\ calls \in Seq(CallType) /\ NoRepeat
  BY TypeParts DEF Table, ChainInv
<1>2. dev' = dev /\ bound' = bound /\ conf' = conf => Counted'
  BY CountedStays
<1>3. ASSUME NEW i \in Slots, dev[i].state \notin Reporting, dev'[i].state \notin Reporting,
             \A j \in Slots \ {i} : dev'[j] = dev[j], bound' = bound, conf' = conf
      PROVE  Counted'
  BY <1>3, CountedStays DEF Reporting
<1>4. ASSUME NEW a \in Devices, Announce(a) PROVE Counted'
  <2>1. CASE Known(a) \/ ByState("NO_DEVICE") = Invalid
    BY <1>2, <1>4, <2>1 DEF Announce, Adopt
  <2>2. CASE ~ Known(a) /\ ByState("NO_DEVICE") # Invalid
    <3>1. ByState("NO_DEVICE") \in {k \in Slots : dev[k].state = "NO_DEVICE"}
      BY <2>2, FirstFinds DEF ByState
    <3>2. PICK i \in Slots : dev[i].state = "NO_DEVICE" /\ bound' = bound /\ conf' = conf
                             /\ dev' = [dev EXCEPT ![i].short = a, ![i].state = "MATCH_DESC_DISCOVERY"]
      BY <1>4, <2>2, <3>1 DEF Announce, Adopt
    <3>3. dev'[i].state = "MATCH_DESC_DISCOVERY" /\ \A j \in Slots \ {i} : dev'[j] = dev[j]
      BY <1>1, <3>2 DEF SlotType
    <3> QED BY <1>3, <3>2, <3>3 DEF Reporting
  <2> QED BY <2>1, <2>2
<1>5. ASSUME NEW i \in Slots, Timer(i) PROVE Counted'
  BY <1>2, <1>5 DEF Timer, FindOnoffDevice, FindIasZoneDevice, FindOnoffDeviceTmo,
              FindIasZoneDeviceTmo, SendToggleReq
<1>6. ASSUME NEW i \in Slots, RunCall(i) PROVE Counted'
  <2>1. CASE \E f \in Steps : SendStep(f, i)
    BY <1>2, <2>1 DEF SendStep
  <2>2. CASE WriteCieAddr(i)
    <3>1. Waiting("cie", i)
      BY <1>1, <2>2, WaitsLess DEF WriteCieAddr
    <3>2. dev[i].state = "WRITE_CIE_ADDR"
      BY <3>1 DEF ChainInv, Stepping
    <3>3. dev' = [dev EXCEPT ![i].state = "COMPLETED_NO_TOGGLE"] /\ bound' = bound /\ conf' = conf
      BY <2>2 DEF WriteCieAddr
    <3>4. Takes(i, "COMPLETED_NO_TOGGLE")
      BY <1>1, <3>3, StateTaken
    <3> QED BY <1>3, <3>2, <3>3, <3>4 DEF Takes, Reporting
  <2>3. ~ RemoveDevice(i)
    BY <1>1, WaitsLess DEF RemoveDevice, ChainInv, Stepping
  <2> QED BY <1>6, <2>1, <2>2, <2>3 DEF RunCall
<1>7. ASSUME NEW a \in Devices \cup {Zero},
             MatchFound(a) \/ NoMatch(a) \/ IasFound(a) \/ NoIas(a) \/ IeeeAnswered(a)
      PROVE  Counted'
  <2>1. PICK k \in {"match", "iasMatch", "ieee"} : Request(k, a) \in reqs
    BY <1>7 DEF MatchFound, NoMatch, IasFound, NoIas, IeeeAnswered, Answer
  <2>2. PICK i \in Slots : ByShort(a) = i /\ i # Invalid /\ Asked(k, i)
    BY <2>1, AskedSlot
  <2>3. dev[i].state \in {"MATCH_DESC_DISCOVERY", "IEEE_ADDR_DISCOVERY"}
    BY <2>2 DEF ChainInv, Matching, Stepping
  <2>4. bound' = bound /\ conf' = conf
    BY <1>7 DEF MatchFound, NoMatch, IasFound, NoIas, IeeeAnswered
  <2>5. CASE MatchFound(a) \/ IasFound(a) \/ NoIas(a)
    <3>1. \E s \in {"IEEE_ADDR_DISCOVERY", "WRITE_CIE_ADDR", "COMPLETED_NO_TOGGLE"} :
             dev' = [dev EXCEPT ![i].state = s]
      BY <2>2, <2>5 DEF MatchFound, IasFound, NoIas
    <3>2. \E s \in {"IEEE_ADDR_DISCOVERY", "WRITE_CIE_ADDR", "COMPLETED_NO_TOGGLE"} : Takes(i, s)
      BY <1>1, <3>1, StateTaken
    <3> QED BY <1>3, <2>3, <2>4, <3>2 DEF Takes, Reporting
  <2>6. CASE NoMatch(a)
    BY <1>2, <2>6 DEF NoMatch
  <2>7. CASE IeeeAnswered(a)
    <3>1. dev' = [dev EXCEPT ![i].ieee = a, ![i].state = "CONFIGURE_BINDING"]
      BY <2>2, <2>7 DEF IeeeAnswered
    <3>2. dev'[i].state = "CONFIGURE_BINDING" /\ \A j \in Slots \ {i} : dev'[j] = dev[j]
      BY <1>1, <3>1 DEF SlotType
    <3> QED BY <1>3, <2>3, <2>4, <3>2 DEF Reporting
  <2> QED BY <1>7, <2>5, <2>6, <2>7
<1> QED BY <1>4, <1>5, <1>6, <1>7

LEMMA CountStep ==
  ASSUME Env \subseteq {"overlap", "again", "toggle"}, TypeOK, OneSlotPerDevice, ChainInv, Counted,
         [Next]_vars
  PROVE  ChainInv' /\ Counted'
<1>1. "late" \notin Env /\ "fail" \notin Env /\ "leave" \notin Env /\ "reboot" \notin Env
  OBVIOUS
<1>2. dev \in [Slots -> SlotType]
  BY TypeParts DEF Table
<1>3. ASSUME dev' = dev \/ (ToggleBulbs \/ UNCHANGED vars),
             net' = net, bound' = bound, conf' = conf, calls' = calls, reqs' \subseteq reqs,
             \A j \in Slots : dev'[j].state = dev[j].state /\ dev'[j].short = dev[j].short,
             \A j : \A f \in {"onoff", "onoffTmo", "ias", "iasTmo"} : Expire(f, j)' <=> Expire(f, j),
             \A l, b : l # "toggle" => (Request(l, b) \in reqs' <=> Request(l, b) \in reqs)
      PROVE  ChainInv' /\ Counted'
  <2>1. (\A g, j : Waiting(g, j)' <=> Waiting(g, j)) /\ NoRepeat'
    BY <1>3 DEF Waiting, NoRepeat, ChainInv
  <2>2. \A j \in Slots : Frame(j)
    BY <1>3, <2>1 DEF Frame
  <2>3. \A b : Owner(b)' <=> Owner(b)
    BY <1>3 DEF Owner
  <2>4. ChainInv'
    BY <1>3, <2>1, <2>2, <2>3, FrameKeeps DEF ChainInv
  <2>5. Counted'
    BY <1>3, CountedStays
  <2> QED BY <2>4, <2>5
<1>4. ASSUME NEW a \in Devices \cup {Zero}, ToggleAnswered(a) PROVE ChainInv' /\ Counted'
  <2>1. reqs' = reqs \ {Request("toggle", a)} /\ dev' = dev /\ alarms' = alarms
        /\ net' = net /\ bound' = bound /\ conf' = conf /\ calls' = calls
    BY <1>4 DEF ToggleAnswered, Answer
  <2> QED BY <1>3, <2>1, AskedLess DEF Expire
<1>5. CASE ToggleBulbs
  <2>1. \A j \in Slots : dev'[j].state = dev[j].state /\ dev'[j].short = dev[j].short
    BY <1>2, <1>5 DEF ToggleBulbs, SlotType
  <2>2. \A j : \A f \in {"onoff", "onoffTmo", "ias", "iasTmo"} : Expire(f, j)' <=> Expire(f, j)
    BY <1>5, AlarmsDiffer DEF ToggleBulbs, TickAgain, Expire, Tick
  <2> QED BY <1>3, <1>5, <2>1, <2>2 DEF ToggleBulbs
<1>6. CASE UNCHANGED vars
  BY <1>3, <1>6 DEF vars, Expire
<1>7. ASSUME NEW k, NEW a, Fails(k, a) PROVE FALSE
  BY <1>1, <1>7, AskedSlot DEF Fails
<1>8. \A a : ~ Failed(a)
  BY <1>7 DEF Failed, ToggleFailed, Unanswered
<1>9. \A a : ~ LeaveAnswered(a) /\ ~ Leave(a)
  BY <1>1 DEF LeaveAnswered, Leave, Answer, ChainInv
<1>10. ~ Reboot
  BY <1>1 DEF Reboot
<1> QED BY <1>1, <1>4, <1>5, <1>6, <1>8, <1>9, <1>10, ChainJoin, ChainTimer, ChainCall, ChainNamed,
           ChainBind, ChainReport, OthersDoNotCount DEF Next, Answered

LEMMA CountInit == Init => ChainInv /\ Counted
<1> SUFFICES ASSUME Init PROVE ChainInv /\ Counted
  OBVIOUS
<1>1. \A i \in Slots : dev[i].state = "NO_DEVICE" /\ dev[i].short = Zero
  BY DEF Init, Empty
<1>2. \A f, i : ~ Waiting(f, i)
  BY DEF Init, Waiting
<1>3. \A f \in {"onoff", "onoffTmo", "ias", "iasTmo"}, i \in Slots : ~ Expire(f, i)
  BY DEF Init, Expire, Tick, Alarm
<1>4. ASSUME NEW i \in Slots PROVE Addressed(i) /\ Matching(i) /\ Stepping(i)
  BY <1>1, <1>2, <1>3 DEF Init, Addressed, Matching, Stepping, Asked
<1>5. ChainInv
  BY <1>4 DEF Init, ChainInv, NoRepeat
<1>6. InStates(Reporting) = {} /\ InStates({"COMPLETED"}) = {}
  BY <1>1 DEF InStates, Reporting
<1> QED BY <1>5, <1>6 DEF Counted, Init

\* Devices may join, be commissioned and announce themselves again in any
\* order, any number of them at a time: as long as nothing fails, every answer to
\* a bind or reporting request finds a slot that waits for one, and takes one
\* on, though the answer does not say which.
THEOREM AnswersAreCounted ==
  Env \subseteq {"overlap", "again", "toggle"} => (Spec => []EveryAnswerCounts)
<1> SUFFICES ASSUME Env \subseteq {"overlap", "again", "toggle"} PROVE Spec => []EveryAnswerCounts
  OBVIOUS
<1>1. Init => ChainInv /\ Counted
  BY CountInit
<1>2. TypeOK /\ OneSlotPerDevice /\ (ChainInv /\ Counted) /\ [Next]_vars => (ChainInv /\ Counted)'
  BY CountStep
<1>3. ChainInv /\ Counted => EveryAnswerCounts
  BY CountedIsIt
<1> QED BY <1>1, <1>2, <1>3, TypeCorrect, DevicesAreDistinct, PTL DEF Spec

=============================================================================

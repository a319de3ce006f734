---------------------------- MODULE LightProofs ----------------------------
(***************************************************************************)
(* Theorems about Light, for any number of bulbs, any bound Depth, any     *)
(* count of failures and any set of worlds.                                *)
(*                                                                         *)
(* The argument is one of conservation.  When one bulb answers, in time, a *)
(* light control holds one token, which its handlers pass on: an alarm or  *)
(* a request of the search, then a request to the bulb found or a callback *)
(* that will send one, then the alarm of the commands or the request for a *)
(* buffer it becomes.  The alarm that repeats the search makes a token,    *)
(* but fires only when there is none.                                      *)
(***************************************************************************)
EXTENDS Light, TLAPS

Pending(k, b) == IF Asks(k, b) \in asked THEN 1 ELSE 0

(* The tokens of the search, and of what follows it.                       *)
Search(b) == timers.find + waits.giveUp + Pending("match", b)
Chain(b) ==
    todo.ieee + todo.bind + Pending("ieee", b) + Pending("bind", b) + Pending("level", b)
        + timers.onOff + waits.onOff

(* A device that starts has nothing under way.                             *)
Fresh ==
    joining = "start" =>
        /\ net = "out"
        /\ timers = None(Handlers) /\ waits = None(Handlers) /\ todo = None(Callbacks)
        /\ asked = {} /\ sent = 0 /\ failures = 0

Alone(b) == world.near = {b} /\ "late" \notin world.happens

(* Everything is asked of the one bulb.                                    *)
Aimed(b) ==
    /\ \A r \in asked : r.kind # "leave" => r.of = b
    /\ todo.ieee > 0 => bulb.short = b
    /\ todo.bind > 0 \/ Asks("bind", b) \in asked => bulb.ieee = b

OneToken(b) ==
    /\ Search(b) + Chain(b) <= 1
    /\ timers.giveUp <= 1
    /\ timers.giveUp > 0 => Chain(b) = 0 /\ waits.giveUp = 0

(* One command at a time, while the alarm of the next one runs.            *)
Paced ==
    /\ sent <= 1
    /\ sent > 0 => timers.onOff = 1

(* Too many failures take the token away.                                  *)
Stopped(b) ==
    failures >= FailureCnt => Search(b) + Chain(b) = 0 /\ timers.giveUp = 0 /\ sent = 0

(* Where joining and answers never fail, the token is never lost.          *)
Calm == world.happens \cap {"lost", "joinfail", "leave"} = {}
Kept(b) ==
    /\ timers.leave = 0 /\ waits.leave = 0 /\ Asks("leave", NoBulb) \notin asked
    /\ joining # "steering"
    /\ net = "out" => joining = "start"
    /\ joining = "none" => Search(b) + Chain(b) = 1 \/ failures >= FailureCnt

OneBulb(b) == Aimed(b) /\ OneToken(b) /\ Paced /\ Stopped(b)

LightInv == LightTypeOK /\ Fresh /\ \A b \in Bulbs : Alone(b) => OneBulb(b) /\ (Calm => Kept(b))

-----------------------------------------------------------------------------
(* What is cancelled, of the one alarm there is or of none.                *)
LEMMA OneCancelled ==
    ASSUME LightTypeOK, NEW h \in Handlers, timers[h] <= 1
    PROVE  CancelOne(timers, h) = [timers EXCEPT ![h] = 0]
<1>1. timers[h] \in Nat
  BY LightAssumption DEF LightTypeOK
<1>2. (IF timers[h] > 0 THEN timers[h] - 1 ELSE timers[h]) = 0
  BY <1>1
<1>3. QED
  BY <1>2 DEF CancelOne

LEMMA StartedTimers ==
    ASSUME LightTypeOK, Fresh, Started
    PROVE  timers' = IF bulb.ieee = NoBulb
                     THEN [timers EXCEPT !.onOff = 0, !.find = @ + 1, !.giveUp = @ + 1]
                     ELSE [timers EXCEPT !.onOff = 1]
<1> DEFINE t == CancelOne(timers, "onOff")
<1>1. timers = None(Handlers) /\ "onOff" \in Handlers
  BY DEF Fresh, Started, Handlers
<1>2. t = [timers EXCEPT !.onOff = 0]
  BY <1>1, OneCancelled DEF None
<1>3. timers' = IF bulb.ieee = NoBulb
                THEN [t EXCEPT !.find = @ + 1, !.giveUp = @ + 1] ELSE [t EXCEPT !.onOff = @ + 1]
  BY DEF Started
<1> HIDE DEF t
<1>4. t = timers
  BY <1>1, <1>2 DEF None
<1>5. timers.onOff = 0
  BY <1>1 DEF None
<1>6. timers = [timers EXCEPT !.onOff = 0]
  BY <1>2, <1>4
<1>7. CASE bulb.ieee = NoBulb
  <2>1. timers' = [[[t EXCEPT !.find = t.find + 1] EXCEPT !.giveUp = t.giveUp + 1] EXCEPT !.onOff = 0]
    BY <1>1, <1>3, <1>4, <1>7 DEF None, Handlers
  <2>2. QED
    BY <1>1, <1>4, <1>7, <2>1 DEF None, Handlers
<1>8. CASE bulb.ieee # NoBulb
  BY <1>3, <1>4, <1>5, <1>8
<1>9. QED
  BY <1>7, <1>8

-----------------------------------------------------------------------------
(* Each variable keeps its type: by one step per action.  Only a start     *)
(* adds to an alarm without looking at its bound, and nothing is under     *)
(* way then (Fresh).                                                       *)
LEMMA TypeStep ==
    ASSUME LightTypeOK, Fresh, LightNext
    PROVE  LightTypeOK' /\ Fresh'
<1> USE LightAssumption DEF LightTypeOK, Fresh
<1>1. CASE Started
  <2>1. timers \in [Handlers -> {0}] /\ 1 \in 0 .. Depth
    BY <1>1 DEF Started, None
  <2>2. timers' \in [Handlers -> 0 .. Depth]
    <3>1. CASE bulb.ieee = NoBulb
      <4>1. timers' = [[[timers EXCEPT !.onOff = 0] EXCEPT !.find = timers.find + 1]
                          EXCEPT !.giveUp = timers.giveUp + 1]
        BY <1>1, <3>1, StartedTimers
      <4>2. timers.find + 1 = 1 /\ timers.giveUp + 1 = 1
        BY <2>1 DEF Handlers
      <4>3. QED
        BY <2>1, <4>1, <4>2 DEF Handlers
    <3>2. CASE bulb.ieee # NoBulb
      BY <1>1, <2>1, <3>2, StartedTimers DEF Handlers
    <3>3. QED
      BY <3>1, <3>2
  <2>3. QED
    BY <1>1, <2>2 DEF Started
<1>2. CASE Steered
    BY <1>2 DEF Steered, More, Less, None, Handlers, Callbacks
<1>3. CASE JoinFails
    BY <1>3 DEF JoinFails, More, Less, None, Handlers, Callbacks
<1>4. CASE Left
    BY <1>4 DEF Left, More, Less, None, Handlers, Callbacks, Asks
<1>5. CASE FindLightBulb
    BY <1>5 DEF FindLightBulb, More, Less, None, Handlers, Callbacks, Asks
<1>6. ASSUME NEW b \in Bulbs, FindLightBulbCb(b) PROVE LightTypeOK' /\ Fresh'
    BY <1>6 DEF FindLightBulbCb, AnsweredTimers, CancelOne, More, Less, None, Handlers, Callbacks, Asks
<1>7. CASE FindLightBulbAlarm
    BY <1>7 DEF FindLightBulbAlarm, More, Less, None, Handlers, Callbacks
<1>8. CASE FindAgain
    BY <1>8 DEF FindAgain, More, Less, None, Handlers, Callbacks
<1>9. CASE BulbIeeeAddrReq
    BY <1>9 DEF BulbIeeeAddrReq, More, Less, None, Handlers, Callbacks, Asks
<1>10. ASSUME NEW b \in Bulbs, BulbIeeeAddrReqCb(b) PROVE LightTypeOK' /\ Fresh'
    BY <1>10 DEF BulbIeeeAddrReqCb, More, Less, None, Handlers, Callbacks, Asks
<1>11. CASE BindBulb
    BY <1>11 DEF BindBulb, More, Less, None, Handlers, Callbacks, Asks
<1>12. ASSUME NEW b \in Bulbs, BindLevelControl(b) PROVE LightTypeOK' /\ Fresh'
    BY <1>12 DEF BindLevelControl, More, Less, None, Handlers, Callbacks, Asks
<1>13. ASSUME NEW b \in Bulbs, BindingCompleted(b) PROVE LightTypeOK' /\ Fresh'
    BY <1>13 DEF BindingCompleted, ChainStarts, More, Less, None, Handlers, Callbacks, Asks
<1>14. CASE LeaveAndJoin
    BY <1>14 DEF LeaveAndJoin, More, Less, None, Handlers, Callbacks
<1>15. CASE LeaveNwk
    BY <1>15 DEF LeaveNwk, More, Less, None, Handlers, Callbacks, Asks
<1>16. ASSUME NEW r \in asked, Lost(r) PROVE LightTypeOK' /\ Fresh'
    BY <1>16 DEF Lost, More, Less, None, Handlers, Callbacks, Asks
<1>17. CASE OnOffAlarmDelayed
    BY <1>17 DEF OnOffAlarmDelayed, More, Less, None, Handlers, Callbacks
<1>18. CASE OnOffAlarm
    BY <1>18 DEF OnOffAlarm, More, Less, None, Handlers, Callbacks
<1>19. CASE OnOffCb
    BY <1>19 DEF OnOffCb, More, Less, None, Handlers, Callbacks
<1>20. CASE OnOffFails
    BY <1>20 DEF OnOffFails, CancelOne, TooMany, More, Less, None, Handlers, Callbacks
<1>21. CASE PowerCycle
    BY <1>21 DEF PowerCycle, Boot, More, Less, None, Handlers, Callbacks
<1>22. QED
    BY <1>1, <1>2, <1>3, <1>4, <1>5, <1>6, <1>7, <1>8, <1>9, <1>10, <1>11, <1>12, <1>13, <1>14, <1>15, <1>16, <1>17, <1>18, <1>19, <1>20, <1>21 DEF LightNext

-----------------------------------------------------------------------------
(* What is asked of one device is not asked of another.                    *)
LEMMA AsksDiffer ==
    /\ \A k, b, m, c : Asks(k, b) = Asks(m, c) <=> k = m /\ b = c
    /\ \A k, b : Asks(k, b).kind = k /\ Asks(k, b).of = b
BY DEF Asks

(* The token is passed on: where one bulb answers in time, every action    *)
(* keeps it one.                                                           *)
LEMMA TokenStep ==
    ASSUME NEW b \in Bulbs, Alone(b), LightTypeOK, Fresh, OneBulb(b), LightNext
    PROVE  OneBulb(b)'
<1> USE LightAssumption, AsksDiffer
    DEF LightTypeOK, Handlers, Callbacks, Alone, OneBulb, Aimed, OneToken, Search, Chain,
        Pending, Paced, Stopped, More, Less
<1>a. /\ \A h \in Handlers : timers[h] \in Nat /\ waits[h] \in Nat
      /\ \A h \in Callbacks : todo[h] \in Nat
      /\ \A k : Pending(k, b) \in {0, 1}
    OBVIOUS
<1>1. CASE Started
  <2>1. timers' = IF bulb.ieee = NoBulb
                  THEN [timers EXCEPT !.onOff = 0, !.find = @ + 1, !.giveUp = @ + 1]
                  ELSE [timers EXCEPT !.onOff = 1]
    BY <1>1, StartedTimers
  <2>2. /\ joining = "start" /\ net' = "in" /\ joining' = "none"
        /\ UNCHANGED <<bulb, saved, waits, todo, asked, sent, failures, world>>
    BY <1>1 DEF Started
  <2>3. QED
    BY <2>1, <2>2 DEF None, Fresh
<1>2. CASE Steered
    BY <1>2 DEF Steered
<1>3. CASE JoinFails
    BY <1>3 DEF JoinFails
<1>4. CASE Left
    BY <1>4 DEF Left
<1>5. CASE FindLightBulb
  <2>1. asked' = asked \/ asked' = asked \cup {Asks("match", b)}
    BY <1>5 DEF FindLightBulb
  <2>2. Pending("match", b)' <= 1 /\ \A k \in {"ieee", "bind", "level"} : Pending(k, b)' = Pending(k, b)
    BY <2>1
  <2>3. timers.find = 1 /\ Pending("match", b) = 0 /\ timers'.find = 0 /\ timers'.giveUp = timers.giveUp
    <3>1. timers.find = 1 /\ Pending("match", b) = 0
      <4>1. timers.find > 0 /\ Search(b) + Chain(b) <= 1
        BY <1>5 DEF FindLightBulb
      <4>2. Pending("match", b) \in {0, 1} /\ waits.giveUp \in Nat /\ timers.find \in Nat
        BY <1>a
      <4>3. Chain(b) \in Nat
        <5>1. \A k : Pending(k, b) \in Nat
          BY <1>a
        <5>2. todo.ieee \in Nat /\ todo.bind \in Nat /\ timers.onOff \in Nat /\ waits.onOff \in Nat
          BY <1>a
        <5>3. QED
          BY <5>1, <5>2
      <4> HIDE DEF Chain, Pending, LightTypeOK, Alone, OneBulb, Aimed, OneToken, Paced, Stopped
      <4>4. QED
        BY <4>1, <4>2, <4>3
    <3>2. timers' = [timers EXCEPT !["find"] = timers["find"] - 1]
      BY <1>5 DEF FindLightBulb
    <3>3. QED
      BY <3>1, <3>2
  <2>4. Search(b)' <= Search(b) /\ Chain(b)' = Chain(b)
    BY <1>5, <2>2, <2>3 DEF FindLightBulb
  <2>5. Aimed(b)'
    <3>1. \A r \in asked' : r.kind # "leave" => r.of = b
      BY <2>1
    <3>2. Asks("bind", b) \in asked' => Asks("bind", b) \in asked
      BY <2>1
    <3>3. QED
      BY <1>5, <3>1, <3>2 DEF FindLightBulb
  <2>6. QED
    BY <1>5, <2>3, <2>4, <2>5 DEF FindLightBulb
<1>6. ASSUME NEW c \in Bulbs, FindLightBulbCb(c) PROVE OneBulb(b)'
  <2>1. timers.giveUp <= 1
    OBVIOUS
  <2>2. AnsweredTimers = [timers EXCEPT !.giveUp = 0]
    BY <2>1, OneCancelled DEF AnsweredTimers
  <2>3. /\ timers'.giveUp = 0 /\ timers'.find = timers.find /\ timers'.onOff = timers.onOff
        /\ todo'.ieee = todo.ieee + 1 /\ todo'.bind = todo.bind
    BY <1>6, <2>2 DEF FindLightBulbCb
  <2>4. /\ asked' = asked \ {Asks("match", c)} /\ Asks("match", c) \in asked
        /\ bulb'.short = c /\ bulb'.ieee = bulb.ieee
        /\ UNCHANGED <<net, joining, waits, sent, failures, world>>
    BY <1>6 DEF FindLightBulbCb
  <2>5. c = b
    BY <2>4
  <2>6. /\ Pending("match", b) = 1 /\ Pending("match", b)' = 0
        /\ \A k \in {"ieee", "bind", "level"} : Pending(k, b)' = Pending(k, b)
    BY <2>4, <2>5
  <2>7. Search(b) = 1 /\ Chain(b) = 0 /\ Search(b)' = 0 /\ Chain(b)' = 1
    <3>1. Search(b) = 1 /\ Chain(b) = 0
      BY <1>a, <2>6
    <3> HIDE DEF Pending
    <3>2. QED
      BY <1>a, <2>3, <2>4, <2>6, <3>1
  <2>8. Aimed(b)'
    BY <2>3, <2>4, <2>5
  <2>9. sent = 0 /\ failures < FailureCnt
    BY <1>a, <2>7
  <2> HIDE DEF Search, Chain, Pending, Aimed
  <2>10. QED
    BY <2>3, <2>4, <2>7, <2>8, <2>9
<1>7. CASE FindLightBulbAlarm
  <2>1. Search(b) = 0 /\ Chain(b) = 0 /\ waits.giveUp = 0 /\ failures < FailureCnt /\ timers.giveUp = 1
    <3>1. timers.giveUp > 0 /\ timers.find = 0 /\ Asks("match", b) \notin asked
      BY <1>7 DEF FindLightBulbAlarm, InTime
    <3>2. QED
      BY <1>a, <3>1
  <2>2. Search(b)' = 1 /\ Chain(b)' = 0 /\ timers'.giveUp = 0 /\ sent' = sent
    BY <1>7, <2>1 DEF FindLightBulbAlarm
  <2>3. Aimed(b)'
    BY <1>7 DEF FindLightBulbAlarm
  <2>4. timers'.onOff = timers.onOff /\ failures' = failures
    BY <1>7 DEF FindLightBulbAlarm
  <2>5. QED
    BY <2>1, <2>2, <2>3, <2>4
<1>8. CASE FindAgain
    BY <1>8 DEF FindAgain
<1>9. CASE BulbIeeeAddrReq
    BY <1>9 DEF BulbIeeeAddrReq
<1>10. ASSUME NEW c \in Bulbs, BulbIeeeAddrReqCb(c) PROVE OneBulb(b)'
    BY <1>10 DEF BulbIeeeAddrReqCb
<1>11. CASE BindBulb
    BY <1>11 DEF BindBulb
<1>12. ASSUME NEW c \in Bulbs, BindLevelControl(c) PROVE OneBulb(b)'
    BY <1>12 DEF BindLevelControl
<1>13. ASSUME NEW c \in Bulbs, BindingCompleted(c) PROVE OneBulb(b)'
    BY <1>13 DEF BindingCompleted, ChainStarts
<1>14. CASE LeaveAndJoin
    BY <1>14 DEF LeaveAndJoin
<1>15. CASE LeaveNwk
    BY <1>15 DEF LeaveNwk
<1>16. ASSUME NEW r \in asked, Lost(r) PROVE OneBulb(b)'
    BY <1>16 DEF Lost
<1>17. CASE OnOffAlarmDelayed
    BY <1>17 DEF OnOffAlarmDelayed
<1>18. CASE OnOffAlarm
    BY <1>18 DEF OnOffAlarm
<1>19. CASE OnOffCb
    BY <1>19 DEF OnOffCb
<1>20. CASE OnOffFails
  <2>1. sent = 1 /\ timers.onOff = 1 /\ failures < FailureCnt /\ timers.giveUp = 0
        /\ Search(b) = 0 /\ Chain(b) = 1
    BY <1>20 DEF OnOffFails, CancelOne
  <2>2. CASE TooMany(failures + 1)
    <3>0. timers' = [timers EXCEPT !.onOff = 0]
      BY <1>20, <2>1, <2>2, OneCancelled DEF OnOffFails
    <3>1. timers'.onOff = 0 /\ \A h \in Handlers \ {"onOff"} : timers'[h] = timers[h]
      BY <3>0
    <3>2. Search(b)' = 0 /\ Chain(b)' = 0
      <4>1. UNCHANGED <<waits, todo, asked>>
        BY <1>20 DEF OnOffFails
      <4>2. /\ timers'.find = timers.find /\ waits' = waits /\ todo' = todo
            /\ \A k : Pending(k, b)' = Pending(k, b)
        BY <3>1, <4>1
      <4>3. /\ timers.find + waits.giveUp + Pending("match", b) = 0
            /\ todo.ieee + todo.bind + Pending("ieee", b) + Pending("bind", b)
                 + Pending("level", b) + 1 + waits.onOff = 1
        BY <2>1
      <4> HIDE DEF Pending
      <4>4. QED
        BY <1>a, <3>1, <4>2, <4>3
    <3>3. QED
      BY <1>20, <2>1, <3>1, <3>2 DEF OnOffFails
  <2>3. CASE ~ TooMany(failures + 1)
    <3>1. failures' \in Nat /\ failures' < FailureCnt /\ timers' = timers /\ sent' = 0
      <4>1. timers' = timers /\ sent' = 0 /\ failures' = failures + 1
        BY <1>20, <2>1, <2>3 DEF OnOffFails
      <4>2. failures \in Nat /\ failures + 1 # FailureCnt
        BY <2>3 DEF TooMany
      <4>3. failures < FailureCnt /\ FailureCnt \in Nat
        BY <2>1
      <4> HIDE DEF Search, Chain, Pending, Aimed, LightTypeOK, Alone, OneBulb, Stopped
      <4>4. QED
        BY <4>1, <4>2, <4>3
    <3>2. UNCHANGED <<bulb, waits, todo, asked, world>>
      BY <1>20 DEF OnOffFails
    <3>3. Search(b)' = Search(b) /\ Chain(b)' = Chain(b) /\ Aimed(b)'
      BY <3>1, <3>2
    <3> HIDE DEF Search, Chain, Pending, Aimed, LightTypeOK, Alone
    <3>4. QED
      BY <2>1, <3>1, <3>3
  <2>4. QED
    BY <2>2, <2>3
<1>21. CASE PowerCycle
    BY <1>21 DEF PowerCycle, Boot, None, Fresh
<1>22. QED
    BY <1>1, <1>2, <1>3, <1>4, <1>5, <1>6, <1>7, <1>8, <1>9, <1>10, <1>11, <1>12, <1>13, <1>14, <1>15, <1>16, <1>17, <1>18, <1>19, <1>20, <1>21 DEF LightNext

(* Where nothing fails but commands, and power, no action loses the token. *)
LEMMA KeptStep ==
    ASSUME NEW b \in Bulbs, Alone(b), Calm, LightTypeOK, Fresh, OneBulb(b), Kept(b), LightNext
    PROVE  Kept(b)'
<1> USE LightAssumption, AsksDiffer
    DEF LightTypeOK, Handlers, Callbacks, Alone, Calm, OneBulb, Aimed, OneToken, Search, Chain,
        Pending, Paced, Stopped, Kept, More, Less
<1>a. /\ \A h \in Handlers : timers[h] \in Nat /\ waits[h] \in Nat
      /\ \A h \in Callbacks : todo[h] \in Nat
      /\ \A k : Pending(k, b) \in {0, 1}
    OBVIOUS
<1>1. CASE Started
  <2>1. timers' = IF bulb.ieee = NoBulb
                  THEN [timers EXCEPT !.onOff = 0, !.find = @ + 1, !.giveUp = @ + 1]
                  ELSE [timers EXCEPT !.onOff = 1]
    BY <1>1, StartedTimers
  <2>2. /\ joining = "start" /\ net' = "in" /\ joining' = "none"
        /\ UNCHANGED <<bulb, saved, waits, todo, asked, sent, failures, world>>
    BY <1>1 DEF Started
  <2>3. QED
    BY <2>1, <2>2 DEF None, Fresh
<1>2. CASE Steered
    BY <1>2 DEF Steered
<1>3. CASE JoinFails
    BY <1>3 DEF JoinFails
<1>4. CASE Left
    BY <1>4 DEF Left, None, Fresh
<1>5. CASE FindLightBulb
    BY <1>5 DEF FindLightBulb, None, Fresh
<1>6. ASSUME NEW c \in Bulbs, FindLightBulbCb(c) PROVE Kept(b)'
  <2>1. timers.giveUp <= 1
    OBVIOUS
  <2>2. AnsweredTimers = [timers EXCEPT !.giveUp = 0]
    BY <2>1, OneCancelled DEF AnsweredTimers
  <2>3. QED
    BY <1>6, <2>2 DEF FindLightBulbCb
<1>7. CASE FindLightBulbAlarm
  <2>1. timers.giveUp > 0 /\ timers.find = 0 /\ Asks("match", b) \notin asked
    BY <1>7 DEF FindLightBulbAlarm, InTime
  <2>2. Search(b) + Chain(b) = 0
    BY <1>a, <2>1
  <2>3. joining = "start"
    BY <2>1, <2>2
  <2>4. timers.giveUp = 0
    BY <2>3 DEF Fresh, None
  <2>5. QED
    BY <2>1, <2>4
<1>8. CASE FindAgain
    BY <1>8 DEF FindAgain
<1>9. CASE BulbIeeeAddrReq
    BY <1>9 DEF BulbIeeeAddrReq
<1>10. ASSUME NEW c \in Bulbs, BulbIeeeAddrReqCb(c) PROVE Kept(b)'
    BY <1>10 DEF BulbIeeeAddrReqCb
<1>11. CASE BindBulb
    BY <1>11 DEF BindBulb
<1>12. ASSUME NEW c \in Bulbs, BindLevelControl(c) PROVE Kept(b)'
    BY <1>12 DEF BindLevelControl
<1>13. ASSUME NEW c \in Bulbs, BindingCompleted(c) PROVE Kept(b)'
    BY <1>13 DEF BindingCompleted, ChainStarts
<1>14. CASE LeaveAndJoin
    BY <1>14 DEF LeaveAndJoin
<1>15. CASE LeaveNwk
    BY <1>15 DEF LeaveNwk
<1>16. ASSUME NEW r \in asked, Lost(r) PROVE Kept(b)'
    BY <1>16 DEF Lost
<1>17. CASE OnOffAlarmDelayed
    BY <1>17 DEF OnOffAlarmDelayed
<1>18. CASE OnOffAlarm
    BY <1>18 DEF OnOffAlarm
<1>19. CASE OnOffCb
    BY <1>19 DEF OnOffCb
<1>20. CASE OnOffFails
    BY <1>20 DEF OnOffFails, CancelOne, TooMany
<1>21. CASE PowerCycle
    BY <1>21 DEF PowerCycle, Boot, None, Fresh
<1>22. QED
    BY <1>1, <1>2, <1>3, <1>4, <1>5, <1>6, <1>7, <1>8, <1>9, <1>10, <1>11, <1>12, <1>13, <1>14, <1>15, <1>16, <1>17, <1>18, <1>19, <1>20, <1>21 DEF LightNext

-----------------------------------------------------------------------------
(* The invariant holds initially and is kept.                              *)
LEMMA LightInvHolds == LightSpec => []LightInv
<1>1. LightInit => LightInv
  <2> SUFFICES ASSUME LightInit PROVE LightInv
    OBVIOUS
  <2> USE LightAssumption DEF LightInit, None, Handlers, Callbacks, Nobody
  <2>1. LightTypeOK /\ Fresh
    BY DEF LightTypeOK, Fresh
  <2>2. ASSUME NEW b \in Bulbs PROVE OneBulb(b) /\ Kept(b)
    BY DEF OneBulb, Aimed, OneToken, Search, Chain, Pending, Paced, Stopped, Kept
  <2>3. QED
    BY <2>1, <2>2 DEF LightInv
<1>2. LightInv /\ [LightNext]_lightVars => LightInv'
  <2> SUFFICES ASSUME LightInv, [LightNext]_lightVars PROVE LightInv'
    OBVIOUS
  <2>1. CASE LightNext
    <3>1. LightTypeOK' /\ Fresh'
      BY <2>1, TypeStep DEF LightInv
    <3>2. world' = world
      BY <2>1 DEF LightNext, Started, Steered, JoinFails, Left, FindLightBulb, FindLightBulbCb,
         FindLightBulbAlarm, FindAgain, BulbIeeeAddrReq, BulbIeeeAddrReqCb, BindBulb,
         BindLevelControl, BindingCompleted, LeaveAndJoin, LeaveNwk, Lost, OnOffAlarmDelayed,
         OnOffAlarm, OnOffCb, OnOffFails, PowerCycle
    <3>3. ASSUME NEW b \in Bulbs, Alone(b)' PROVE OneBulb(b)' /\ (Calm' => Kept(b)')
      <4>1. Alone(b) /\ (Calm' => Calm)
        BY <3>2, <3>3 DEF Alone, Calm
      <4>2. LightTypeOK /\ Fresh /\ OneBulb(b) /\ (Calm => Kept(b))
        BY <4>1 DEF LightInv
      <4>3. OneBulb(b)'
        BY <2>1, <4>1, <4>2, TokenStep
      <4>4. Calm => Kept(b)'
        BY <2>1, <4>1, <4>2, KeptStep
      <4>5. QED
        BY <4>1, <4>3, <4>4
    <3>4. QED
      BY <3>1, <3>3 DEF LightInv
  <2>2. CASE UNCHANGED lightVars
    BY <2>2 DEF lightVars, LightInv, LightTypeOK, Fresh, Alone, Calm, Kept, OneBulb, Aimed,
       OneToken, Search, Chain, Pending, Paced, Stopped
  <2>3. QED
    BY <2>1, <2>2
<1>3. QED
  BY <1>1, <1>2, PTL DEF LightSpec

(* Types are kept: alarms, callbacks and requests for a buffer stay within *)
(* their bound, although a start schedules two alarms without looking.     *)
THEOREM LightTypeCorrect == LightSpec => []LightTypeOK
<1>1. LightInv => LightTypeOK
  BY DEF LightInv
<1>2. QED
  BY <1>1, LightInvHolds, PTL

(* One alarm drives the bulb: bulb_binding_completed and the start never   *)
(* make a second chain of commands, where one bulb answers in time.        *)
THEOREM OneChainAlways == LightSpec => []OneChain
<1>1. LightInv => OneChain
  <2> SUFFICES ASSUME LightInv, NEW b \in Bulbs, Alone(b) PROVE Driving <= 1
    BY DEF OneChain, OneAnswer, Alone
  <2>1. OneToken(b) /\ LightTypeOK
    BY DEF LightInv, OneBulb
  <2>2. QED
    BY <2>1 DEF OneToken, Search, Chain, Pending, Driving, LightTypeOK, Handlers, Callbacks
<1>2. QED
  BY <1>1, LightInvHolds, PTL

(* After BULB_ON_OFF_FAILURE_CNT failures in a row the chain has ended,    *)
(* whatever was waiting when light_control_send_on_off_cb cancelled it.    *)
THEOREM FailuresStop == LightSpec => []StopsOnFailures
<1>1. LightInv => StopsOnFailures
  <2> SUFFICES ASSUME LightInv, NEW b \in Bulbs, Alone(b), failures >= FailureCnt
               PROVE  Driving = 0 /\ sent = 0
    BY DEF StopsOnFailures, OneAnswer, Alone
  <2>1. Stopped(b) /\ LightTypeOK
    BY DEF LightInv, OneBulb
  <2>2. Search(b) + Chain(b) = 0 /\ sent = 0
    BY <2>1 DEF Stopped
  <2>3. /\ timers.find \in Nat /\ timers.onOff \in Nat
        /\ waits.giveUp \in Nat /\ waits.onOff \in Nat
        /\ todo.ieee \in Nat /\ todo.bind \in Nat
    BY <2>1 DEF LightTypeOK, Handlers, Callbacks
  <2>4. \A k : Pending(k, b) \in Nat
    BY DEF Pending
  <2>5. /\ Pending("match", b) \in Nat /\ Pending("ieee", b) \in Nat
        /\ Pending("bind", b) \in Nat /\ Pending("level", b) \in Nat
    BY <2>4
  <2>6. timers.onOff + waits.onOff = 0
    <3>1. Search(b) \in Nat /\ Chain(b) \in Nat
      BY <2>3, <2>5 DEF Search, Chain
    <3>2. Chain(b) = 0
      BY <2>2, <3>1
    <3>3. QED
      BY <2>3, <2>5, <3>2 DEF Chain
  <2>7. QED
    BY <2>2, <2>6 DEF Driving
<1>2. QED
  BY <1>1, LightInvHolds, PTL

(* A light control that joins at once is never left without a next step:   *)
(* its search goes on from handler to handler until it drives a bulb.      *)
THEOREM SearchNeverStalls == LightSpec => []SearchGoesOn
<1>1. LightInv => SearchGoesOn
  <2> SUFFICES ASSUME LightInv, NEW b \in Bulbs, Alone(b), Calm, net = "in", joining = "none",
                      ~ (failures >= FailureCnt)
               PROVE  Searching \/ Driving > 0
    BY DEF SearchGoesOn, Answered, OneAnswer, HasNextStep, Alone, Calm
  <2>1. Search(b) + Chain(b) = 1 /\ LightTypeOK
    BY DEF LightInv, OneBulb, Kept
  <2>2. asked = {} => Pending("match", b) = 0 /\ Pending("ieee", b) = 0 /\ Pending("bind", b) = 0
                      /\ Pending("level", b) = 0
    BY DEF Pending
  <2>3. QED
    BY <2>1, <2>2 DEF Search, Chain, Searching, Driving, LightTypeOK, Handlers, Callbacks
<1>2. QED
  BY <1>1, LightInvHolds, PTL
=============================================================================

------------------------------ MODULE LowPower ------------------------------
(***************************************************************************)
(* platform/zb_zephyr_power.c in a build with CONFIG_PM: the stack turns   *)
(* low power off and on, and the system sleeps while nobody holds a lock   *)
(* of Zephyr's power policy.                                               *)
(***************************************************************************)
EXTENDS Integers, TLAPS

CONSTANT MaxLocks   \* bound of the locks looked at; Zephyr's counter has none

ASSUME LowPowerAssumption == MaxLocks \in Nat \ {0}

VARIABLES
    lp_config,  \* low power may be used
    lp_on,      \* what was asked for last
    locks,      \* locks held: pm_policy_state_all_lock_get less _put
    disabled    \* zephyr_low_power_config(false) was called

powerVars == <<lp_config, lp_on, locks, disabled>>

Get(held) == IF held THEN locks < MaxLocks /\ locks' = locks + 1 ELSE UNCHANGED locks

(* zephyr_low_power_off                                                    *)
TakesMut(config) == config
Takes(config) == config /\ lp_on

LowPowerOff ==
    /\ Get(Takes(lp_config))
    /\ lp_on' = FALSE
    /\ UNCHANGED <<lp_config, disabled>>

(* zephyr_low_power_on                                                     *)
LowPowerOn ==
    /\ locks' = IF lp_config /\ ~ lp_on THEN locks - 1 ELSE locks
    /\ lp_on' = TRUE
    /\ UNCHANGED <<lp_config, disabled>>

(* zephyr_low_power_config turns low power off, as if it was used till now.*)
LowPowerConfig(enable) ==
    /\ Get(Takes(TRUE))
    /\ lp_on' = FALSE
    /\ lp_config' = enable
    /\ disabled' = (disabled \/ ~ enable)

PowerInit == lp_config = TRUE /\ lp_on = TRUE /\ locks = 0 /\ disabled = FALSE

PowerNext ==
    LowPowerOff \/ LowPowerOn \/ \E enable \in BOOLEAN : LowPowerConfig(enable)

PowerSpec == PowerInit /\ [][PowerNext]_powerVars

-----------------------------------------------------------------------------
(* Whatever is called in whatever order, the system is kept awake while    *)
(* low power is off, and a lock is given back only when it is held; and as *)
(* long as low power was never disabled, the locks are balanced (line 22   *)
(* "Avoid unbalanced state lock get/put").  Once it was, they need not be: *)
(* disable, on, enable, on leaves a lock that is never given back.         *)
LocksMatch ==
    /\ locks >= 0
    /\ ~ lp_on => locks > 0
    /\ ~ disabled => locks = IF lp_on THEN 0 ELSE 1

-----------------------------------------------------------------------------
(* The theorem, for any bound of the locks.                                *)

(* A disabled low power holds a lock too: it was turned off when it was    *)
(* disabled, and turning it on since gave nothing back.                    *)
PowerInv ==
    /\ lp_config \in BOOLEAN /\ lp_on \in BOOLEAN /\ disabled \in BOOLEAN /\ locks \in Int
    /\ ~ lp_config => disabled /\ locks > 0
    /\ LocksMatch

(* In any order of calls: the system is awake while low power is off, no   *)
(* lock is given back that is not held, and without disabling the locks    *)
(* are balanced.                                                           *)
THEOREM LocksAlwaysMatch == PowerSpec => []LocksMatch
<1>1. PowerInit => PowerInv
  <2> SUFFICES ASSUME PowerInit PROVE PowerInv
    OBVIOUS
  <2>1. lp_config = TRUE /\ lp_on = TRUE /\ disabled = FALSE /\ locks = 0
    BY DEF PowerInit
  <2>2. /\ lp_config \in BOOLEAN /\ lp_on \in BOOLEAN /\ disabled \in BOOLEAN
        /\ lp_config /\ lp_on
    BY <2>1, Zenon
  <2>3. locks \in Int /\ locks >= 0 /\ locks = 0
    BY <2>1, SMT
  <2>4. QED
    BY <2>2, <2>3, Zenon DEF PowerInv, LocksMatch
<1>2. PowerInv /\ [PowerNext]_powerVars => PowerInv'
  <2> SUFFICES ASSUME PowerInv, [PowerNext]_powerVars PROVE PowerInv'
    OBVIOUS
  <2> USE DEF PowerInv, LocksMatch
  <2>1. CASE LowPowerOff
    <3>1. CASE lp_config /\ lp_on
      <4>1. /\ lp_on' \in BOOLEAN /\ lp_config' \in BOOLEAN /\ disabled' \in BOOLEAN
            /\ ~ lp_on' /\ lp_config' /\ (disabled' <=> disabled)
        BY <2>1, <3>1, Zenon DEF LowPowerOff
      <4>2. locks' = locks + 1
        BY <2>1, <3>1 DEF LowPowerOff, Get, Takes
      <4>3. locks' \in Int /\ locks' > 0 /\ (~ disabled => locks' = 1)
        BY <3>1, <4>2, SMT
      <4>4. locks' >= 0
        BY <4>3, SMT
      <4>5. QED
        BY <4>1, <4>3, <4>4, Zenon
    <3>2. CASE ~ (lp_config /\ lp_on)
      BY <2>1, <3>2 DEF LowPowerOff, Get, Takes
    <3>3. QED
      BY <3>1, <3>2
  <2>2. CASE LowPowerOn
    BY <2>2 DEF LowPowerOn
  <2>3. ASSUME NEW enable \in BOOLEAN, LowPowerConfig(enable) PROVE PowerInv'
    <3>1. CASE lp_on
      <4>1. /\ lp_on' \in BOOLEAN /\ lp_config' \in BOOLEAN /\ disabled' \in BOOLEAN
            /\ ~ lp_on' /\ (~ lp_config' => disabled') /\ (disabled => disabled')
        BY <2>3, Zenon DEF LowPowerConfig
      <4>2. locks' = locks + 1
        BY <2>3, <3>1 DEF LowPowerConfig, Get, Takes
      <4>3. locks' \in Int /\ locks' > 0 /\ (~ disabled => locks' = 1)
        BY <3>1, <4>2, SMT
      <4>4. locks' >= 0
        BY <4>3, SMT
      <4>5. QED
        BY <4>1, <4>3, <4>4, Zenon
    <3>2. CASE ~ lp_on
      BY <2>3, <3>2 DEF LowPowerConfig, Get, Takes
    <3>3. QED
      BY <3>1, <3>2
  <2>4. CASE UNCHANGED powerVars
    BY <2>4 DEF powerVars
  <2>5. QED
    BY <2>1, <2>2, <2>3, <2>4 DEF PowerNext
<1>3. PowerInv => LocksMatch
  BY DEF PowerInv
<1>4. QED
  BY <1>1, <1>2, <1>3, PTL DEF PowerSpec
=============================================================================

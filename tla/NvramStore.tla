----------------------------- MODULE NvramStore -----------------------------
(***************************************************************************)
(* What the NVRAM backend (platform/osif/zb_osif_nvram.c) promises to a    *)
(* core that writes one dataset at a time: a store of whole values.  A     *)
(* value is announced by its header, at a page, and replaces the old one   *)
(* when its tail is written.  A power failure touches only what the call   *)
(* it interrupts is about: a value being written is the old one or the new *)
(* one, or none where the backend deletes before it writes, and a page     *)
(* being erased loses some of its values.                                  *)
(***************************************************************************)
CONSTANTS
    Keys,           \* the datasets
    NoKey,          \* none of them
    Values,         \* the records a dataset may hold
    None,           \* no record
    Pages,          \* where records are put
    Nowhere,        \* no page
    Resized(_, _)   \* Resized(v, w): w has another length than the record v

VARIABLES
    store,      \* the value the flash holds for each key
    pending,    \* the value being written for each key
    place,      \* the page each key was last written to or found on
    cause       \* the last call or power failure: op "run", "erase" of page, or
                \* "power", which interrupted the write of value for key or the
                \* erase of page

storeVars == <<store, pending, place, cause>>

Cause(op, k, v, p) == [op |-> op, key |-> k, value |-> v, page |-> p]
Run == Cause("run", NoKey, None, Nowhere)

On(p) == {k \in Keys : place[k] = p}
Without(S) == [k \in Keys |-> IF k \in S THEN None ELSE store[k]]

\* A new value is announced; an old one of another length may go at once.
Begin(k, v, p) ==
    /\ pending[k] = None
    /\ pending' = [pending EXCEPT ![k] = v]
    /\ place' = [place EXCEPT ![k] = p]
    /\ store' = store \/ (Resized(store[k], v) /\ store' = Without({k}))
    /\ cause' = Run

\* Its last piece makes it the stored one.
Commit(k) ==
    /\ pending[k] # None
    /\ store' = [store EXCEPT ![k] = pending[k]]
    /\ pending' = [pending EXCEPT ![k] = None]
    /\ cause' = Run
    /\ UNCHANGED place

\* Any other call changes nothing.
Touch ==
    /\ cause' = Run
    /\ UNCHANGED <<store, pending, place>>

\* A start finds a stored key.
Found(k, p) ==
    /\ place[k] = Nowhere /\ store[k] # None
    /\ place' = [place EXCEPT ![k] = p]
    /\ UNCHANGED <<store, pending, cause>>

\* The keys of a page are erased.
Erase(p) ==
    /\ \A k \in Keys : pending[k] = None
    /\ store' = Without(On(p))
    /\ place' = [k \in Keys |-> IF k \in On(p) THEN Nowhere ELSE place[k]]
    /\ cause' = Cause("erase", NoKey, None, p)
    /\ UNCHANGED pending

RamLost ==
    /\ pending' = [k \in Keys |-> None]
    /\ place' = [k \in Keys |-> Nowhere]

\* Power fails while nothing is being changed,
PowerFailure ==
    /\ RamLost
    /\ store' = store
    /\ cause' = Cause("power", NoKey, None, Nowhere)

\* in a call that writes v for k: the replacement of a value by itself or by
\* one of another length may leave none,
Interrupted(k, v) ==
    /\ RamLost
    /\ \/ store' = store
       \/ pending[k] = v /\ store' = [store EXCEPT ![k] = v]
       \/ pending[k] = v /\ store[k] = v /\ store' = Without({k})
       \/ pending[k] = None /\ Resized(store[k], v) /\ store' = Without({k})
    /\ cause' = Cause("power", k, v, Nowhere)

\* or in the erase of p.
EraseInterrupted(p) ==
    /\ RamLost
    /\ \E S \in SUBSET On(p) : store' = Without(S)
    /\ cause' = Cause("power", NoKey, None, p)

Init ==
    /\ store = [k \in Keys |-> None]
    /\ pending = [k \in Keys |-> None]
    /\ place = [k \in Keys |-> Nowhere]
    /\ cause = Run

Next ==
    \/ \E k \in Keys, v \in Values : Interrupted(k, v) \/ \E p \in Pages : Begin(k, v, p)
    \/ \E k \in Keys : Commit(k) \/ \E p \in Pages : Found(k, p)
    \/ \E p \in Pages : Erase(p) \/ EraseInterrupted(p)
    \/ Touch \/ PowerFailure

Spec == Init /\ [][Next]_storeVars
=============================================================================

------------------------------ MODULE MultiEp ------------------------------
(***************************************************************************)
(* The coordinator of the multi-endpoint samples (multiendpoint_zc.c, with *)
(* MULTI_EP_ZED_DISCOVERY, which line 48 defines): for every device that   *)
(* joins, its IEEE address, its endpoints, for each of these the clusters, *)
(* for each of these the attributes.                                       *)
(*                                                                         *)
(* A device is its short address, and its IEEE address has the same name;  *)
(* an endpoint is its place in the device's list, a cluster its place in   *)
(* the endpoint's.  Waiting for a buffer is one step with the alarm that   *)
(* asks for it.  Left out: the attributes an answer lists, with KNOWN_ATTRS *)
(* (nothing reads them), and the test steps, which read the table only.    *)
(***************************************************************************)
EXTENDS Integers, FiniteSets, Sequences

CONSTANTS
    NSlots,       \* MULTI_EP_ZC_DEV_NUMBER
    MaxEp,        \* MULTI_EP_ZC_MAX_EP_PER_DEV
    MaxClusters,  \* MULTI_EP_ZC_MAX_CLUSTERS_PER_EP
    Devices,
    Endpoints,    \* the number of clusters of each endpoint, a sequence by device
    NoAddr,       \* 0, the address of a slot never used
    MaxReuse      \* bound: how often a slot is given to another device

ASSUME MultiEpAssumption ==
    /\ NSlots \in Nat /\ MaxEp \in Nat /\ MaxClusters \in Nat /\ MaxReuse \in Nat
    /\ \A d \in Devices : Endpoints[d] \in Seq(Nat)
    /\ NoAddr \notin Devices

VARIABLES
    devices,  \* g_device_ctx.devices
    pending,  \* alarms and callbacks that wait, counted by handler and slot
    reqs,     \* requests that are under way; equal ones are one
    former,   \* <<slot, device>>: the device the slot had before another one
    wild      \* an answer was stored outside of the table: anything may follow

multiVars == <<devices, pending, reqs, former, wild>>

Slots == 0 .. NSlots - 1
Chains == {"ieee", "ep", "simple", "attr"}
EpCount(d) == Len(Endpoints[d])

NoEndpoint == [state |-> "NO_CLUSTER_INFO", clusters |-> 0, asked |-> {}]
NoDevice == [state |-> "NO_DEVICE", addr |-> NoAddr, ieee |-> NoAddr,
             num_ep |-> 0, ep |-> [e \in 1 .. MaxEp |-> NoEndpoint]]

(* The searches of the table: the first slot, if there is one.             *)
First(S) == {i \in S : \A j \in S : i <= j}
ByState(s) == First({i \in Slots : devices[i].state = s})
ByAddr(d) == First({i \in Slots : devices[i].addr = d})
ByIeee(d) == First({i \in Slots : devices[i].ieee = d})

Soon(p, h, i, n) == [p EXCEPT ![h][i] = @ + n]
Runs(h, i) == pending[h][i] > 0 /\ pending' = Soon(pending, h, i, -1)
Request(k, d, e, c) == [kind |-> k, to |-> d, ep |-> e, cluster |-> c]
Sends(S) == reqs' = reqs \cup S

-----------------------------------------------------------------------------
(* multi_ep_zc_dev_annce_cb, multi_ep_zc_associate_cb: an unknown device   *)
(* gets the first free slot, with what the table holds of its former one.  *)
DevAnnce(d) ==
    /\ ByAddr(d) = {}
    /\ \E i \in ByState("NO_DEVICE") :
        /\ devices' = [devices EXCEPT ![i].addr = d, ![i].state = "IEEE_ADDR_DISCOVERY"]
        /\ devices[i].addr = NoAddr \/ Cardinality(former) < MaxReuse
        /\ pending' = Soon(Soon(pending, "ieee", i, 1), "ep", i, 1)
        /\ former' = former \cup ({i} \X ({devices[i].addr} \ {NoAddr}))
    /\ UNCHANGED <<reqs, wild>>

(* multi_ep_zc_leave_indication: the slot keeps all but its state.         *)
LeaveIndication(d) ==
    /\ \E i \in ByIeee(d) : devices' = [devices EXCEPT ![i].state = "NO_DEVICE"]
    /\ UNCHANGED <<pending, reqs, former, wild>>

(* device_ieee_addr_req                                                    *)
DeviceIeeeAddrReq(i) ==
    /\ Runs("ieee", i)
    /\ Sends({Request("ieee", devices[i].addr, 0, 0)})
    /\ UNCHANGED <<devices, former, wild>>

(* device_ieee_addr_req_cb, also for a device that left meanwhile          *)
DeviceIeeeAddrReqCb(r) ==
    /\ r.kind = "ieee"
    /\ devices' = [i \in Slots |-> IF i \in ByAddr(r.to)
                   THEN [devices[i] EXCEPT !.ieee = r.to, !.state = "COMPLETED"]
                   ELSE devices[i]]
    /\ UNCHANGED <<pending, wild>>

(* send_active_ep_req                                                      *)
SendActiveEpReq(i) ==
    /\ Runs("ep", i)
    /\ Sends({Request("ep", devices[i].addr, 0, 0)})
    /\ UNCHANGED <<devices, former, wild>>

(* active_ep_callback: one alarm for each endpoint.                        *)
PerEndpointMut(n) == 1
PerEndpoint(n) == n

ActiveEpCallback(r) ==
    /\ r.kind = "ep"
    /\ \/ \E i \in ByAddr(r.to) :
            /\ EpCount(r.to) <= MaxEp
            /\ devices' = [devices EXCEPT ![i].num_ep = EpCount(r.to)]
            /\ pending' = Soon(pending, "simple", i, PerEndpoint(EpCount(r.to)))
       \/ /\ ByAddr(r.to) = {} \/ EpCount(r.to) > MaxEp
          /\ UNCHANGED <<devices, pending>>
    /\ UNCHANGED wild

(* send_simple_desc_req, for the first endpoint not asked for; when there  *)
(* is none, the request is sent with an endpoint nobody wrote.             *)
NotAsked(i) == {e \in 1 .. devices[i].num_ep : devices[i].ep[e].state = "NO_CLUSTER_INFO"}

SendSimpleDescReq(i) ==
    /\ Runs("simple", i)
    /\ \/ \E e \in First(NotAsked(i)) :
            /\ devices' = [devices EXCEPT ![i].ep[e].state = "REQUESTED_CLUSTER_INFO"]
            /\ Sends({Request("simple", devices[i].addr, e, 0)})
       \/ /\ NotAsked(i) = {}
          /\ \E e \in 0 .. MaxEp : Sends({Request("simple", devices[i].addr, e, 0)})
          /\ UNCHANGED devices
    /\ UNCHANGED <<former, wild>>

(* simple_desc_callback does not look whether the device and its endpoint  *)
(* are in the table.  Descriptions come for endpoints the device has.      *)
SimpleDescCallback(r) ==
    /\ r.kind = "simple" /\ r.ep \in DOMAIN Endpoints[r.to]
    /\ \/ \E i \in ByAddr(r.to) :
            /\ r.ep <= devices[i].num_ep /\ Endpoints[r.to][r.ep] <= MaxClusters
            /\ devices' = [devices EXCEPT ![i].ep[r.ep].state = "KNOWN_CLUSTER",
                                          ![i].ep[r.ep].clusters = Endpoints[r.to][r.ep]]
            /\ pending' = Soon(pending, "attr", i, 1)
            /\ UNCHANGED wild
       \/ /\ Endpoints[r.to][r.ep] > MaxClusters
          /\ UNCHANGED <<devices, pending, wild>>
       \/ /\ Endpoints[r.to][r.ep] <= MaxClusters
          /\ \A i \in ByAddr(r.to) : r.ep > devices[i].num_ep
          /\ wild' = TRUE
          /\ UNCHANGED <<devices, pending>>

(* send_attr_disc_req, for the first cluster not asked for: when there is  *)
(* none, nothing is sent (and the buffer is not given back).               *)
Clusters(i, e) == 1 .. devices[i].ep[e].clusters
Asking(i) == {e \in 1 .. devices[i].num_ep : Clusters(i, e) \ devices[i].ep[e].asked # {}}

SendAttrDiscReq(i) ==
    /\ Runs("attr", i)
    /\ \/ \E e \in First(Asking(i)) : \E c \in First(Clusters(i, e) \ devices[i].ep[e].asked) :
            /\ devices' = [devices EXCEPT ![i].ep[e].asked = @ \cup {c}]
            /\ Sends({Request("attr", devices[i].addr, e, c)})
       \/ Asking(i) = {} /\ UNCHANGED <<devices, reqs>>
    /\ UNCHANGED <<former, wild>>

(* attr_disc_cb, whatever the status                                       *)
AttrDiscCb(r) ==
    /\ r.kind = "attr"
    /\ pending' = [pending EXCEPT !["attr"] =
                    [i \in Slots |-> @[i] + (IF i \in ByAddr(r.to) THEN 1 ELSE 0)]]
    /\ UNCHANGED <<devices, wild>>

(* An answer comes once, in any order, or a request fails: its callback    *)
(* traces that and does nothing more.                                      *)
Answer(r) ==
    /\ \/ DeviceIeeeAddrReqCb(r) \/ ActiveEpCallback(r) \/ SimpleDescCallback(r)
       \/ AttrDiscCb(r)
    /\ reqs' = reqs \ {r}
    /\ UNCHANGED former

Failure(r) ==
    /\ r.kind # "attr"
    /\ reqs' = reqs \ {r}
    /\ UNCHANGED <<devices, pending, former, wild>>

MultiInit ==
    /\ devices = [i \in Slots |-> NoDevice]
    /\ pending = [h \in Chains |-> [i \in Slots |-> 0]]
    /\ reqs = {} /\ former = {} /\ wild = FALSE

MultiNext ==
    /\ ~ wild
    /\ \/ \E d \in Devices : DevAnnce(d) \/ LeaveIndication(d)
       \/ \E i \in Slots : DeviceIeeeAddrReq(i) \/ SendActiveEpReq(i)
                           \/ SendSimpleDescReq(i) \/ SendAttrDiscReq(i)
       \/ \E r \in reqs : Answer(r) \/ Failure(r)

MultiSpec == MultiInit /\ [][MultiNext]_multiVars

-----------------------------------------------------------------------------
(* Line 35 "for each active EP: simple_desc_req (...) for each cluster in  *)
(* EP: discover_attr_req": every endpoint that is not yet asked for has an *)
(* alarm that will ask, and while a cluster is not yet asked for, the      *)
(* chain that asks for one after the other goes on, however alarms,        *)
(* answers and failures of several devices interleave.  Slots that had     *)
(* another device and devices that had another slot are excepted: what the *)
(* table holds of the former is taken for the new one's.  Before a slot    *)
(* is given away a second time, no answer is stored outside of the table.  *)
FirstUse(i) == \A f \in former : f[1] # i /\ f[2] # devices[i].addr
EndpointsAreAsked(i) == Cardinality(NotAsked(i)) = pending["simple"][i]
ClustersAreAsked(i) ==
    Asking(i) # {} =>
        \/ pending["attr"][i] > 0
        \/ \E r \in reqs : r.kind = "attr" /\ r.to = devices[i].addr

DiscoveryGoesOn ==
    /\ \A i \in Slots : FirstUse(i) => EndpointsAreAsked(i) /\ ClustersAreAsked(i)
    /\ wild => former # {}
=============================================================================

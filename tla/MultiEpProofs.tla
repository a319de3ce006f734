--------------------------- MODULE MultiEpProofs ---------------------------
(***************************************************************************)
(* The theorem about MultiEp, for any table and any number of devices,     *)
(* with any endpoints.                                                     *)
(***************************************************************************)
EXTENDS MultiEp, FiniteSetTheorems, TLAPS

EpType == [state : {"NO_CLUSTER_INFO", "REQUESTED_CLUSTER_INFO", "KNOWN_CLUSTER"},
           clusters : Nat, asked : SUBSET Nat]
DeviceType == [state : {"NO_DEVICE", "IEEE_ADDR_DISCOVERY", "COMPLETED"},
               addr : Devices \cup {NoAddr}, ieee : Devices \cup {NoAddr},
               num_ep : 0 .. MaxEp, ep : [1 .. MaxEp -> EpType]]
RequestType == [kind : Chains, to : Devices, ep : Nat, cluster : Nat]

MultiTypeOK ==
    /\ devices \in [Slots -> DeviceType]
    /\ pending \in [Chains -> [Slots -> Nat]]
    /\ reqs \subseteq RequestType
    /\ \A r \in reqs : r.kind = "ep" => r.ep = 0 /\ r.cluster = 0

(* What one slot and the requests to its device have to do with each other.*)
To(i) == {r \in reqs : r.to = devices[i].addr}
Listing(i) == pending["ep"][i] > 0 \/ \E r \in To(i) : r.kind = "ep"
Blank(i) ==
    devices[i].num_ep = 0 /\ \A e \in 1 .. MaxEp : devices[i].ep[e] = NoEndpoint

(* A slot with its first device: the list of endpoints is asked for once,  *)
(* and till it comes the slot is blank.                                    *)
Orderly(i) ==
    /\ Listing(i) => Blank(i)
    /\ pending["ep"][i] <= 1
    /\ pending["ep"][i] = 1 => \A r \in To(i) : r.kind # "ep"
    /\ \A r \in To(i) : r.kind = "simple" =>
        /\ r.ep \in 1 .. devices[i].num_ep
        /\ devices[i].ep[r.ep].state # "NO_CLUSTER_INFO"
    /\ EndpointsAreAsked(i)
    /\ ClustersAreAsked(i)

(* No device has two slots, and a request goes to one that has a slot or   *)
(* had one.  A slot never used is blank and nothing is under way for it.   *)
OneSlot == \A i, j \in Slots :
    devices[i].addr = devices[j].addr => i = j \/ devices[i].addr = NoAddr
Met == \A r \in reqs : (\E i \in Slots : devices[i].addr = r.to) \/ \E f \in former : f[2] = r.to
Unused == \A i \in Slots :
    devices[i].addr = NoAddr => Blank(i) /\ \A h \in Chains : pending[h][i] = 0

AllOrderly ==
    /\ OneSlot /\ Met /\ Unused
    /\ \A i \in Slots : FirstUse(i) => Orderly(i)

MultiInv == MultiTypeOK /\ AllOrderly /\ (wild => former # {})

-----------------------------------------------------------------------------
(* A device that has a slot is found in it.                                *)
LEMMA Found ==
  ASSUME MultiTypeOK, OneSlot, NEW d \in Devices
  PROVE  /\ \A i \in Slots : devices[i].addr = d => ByAddr(d) = {i}
         /\ \A i \in ByAddr(d) : i \in Slots /\ devices[i].addr = d
<1>1. \A i \in ByAddr(d) : i \in Slots /\ devices[i].addr = d
  BY DEF ByAddr, First
<1>2. ASSUME NEW i \in Slots, devices[i].addr = d PROVE ByAddr(d) = {i}
  <2>1. {j \in Slots : devices[j].addr = d} = {i}
    BY <1>2, MultiEpAssumption DEF OneSlot
  <2>2. i <= i
    BY DEF Slots
  <2> QED BY <2>1, <2>2 DEF ByAddr, First
<1> QED BY <1>1, <1>2

(* A slot that a step leaves alone, with the requests to its device, stays *)
(* as it is.                                                               *)
LEMMA Elsewhere ==
  ASSUME NEW i \in Slots, FirstUse(i) => Orderly(i),
         devices'[i].addr = devices[i].addr, devices'[i].num_ep = devices[i].num_ep,
         devices'[i].ep = devices[i].ep,
         \A h \in Chains : pending'[h][i] = pending[h][i],
         To(i)' = To(i), former \subseteq former'
  PROVE  FirstUse(i)' => Orderly(i)'
<1> SUFFICES ASSUME FirstUse(i)' PROVE Orderly(i)'
  OBVIOUS
<1>1. FirstUse(i)
  BY DEF FirstUse
<1>2. Orderly(i)
  BY <1>1
<1>3. NotAsked(i)' = NotAsked(i) /\ Asking(i)' = Asking(i)
  BY DEF NotAsked, Asking, Clusters
<1>4. /\ pending'["ep"][i] = pending["ep"][i] /\ pending'["simple"][i] = pending["simple"][i]
      /\ pending'["attr"][i] = pending["attr"][i]
  BY DEF Chains
<1>5. EndpointsAreAsked(i)'
  BY <1>2, <1>3, <1>4 DEF Orderly, EndpointsAreAsked
<1>6. ClustersAreAsked(i)'
  BY <1>2, <1>3, <1>4 DEF Orderly, ClustersAreAsked, To
<1>7. Blank(i)' = Blank(i) /\ Listing(i)' = Listing(i)
  BY <1>4 DEF Blank, Listing
<1> QED BY <1>2, <1>4, <1>5, <1>6, <1>7 DEF Orderly

LEMMA Finite ==
  ASSUME MultiTypeOK, NEW i \in Slots
  PROVE  IsFiniteSet(NotAsked(i)) /\ NotAsked(i) \subseteq 1 .. MaxEp
<1>1. devices[i].num_ep \in 0 .. MaxEp
  BY DEF MultiTypeOK, DeviceType
<1>2. IsFiniteSet(1 .. devices[i].num_ep)
  BY <1>1, MultiEpAssumption, FS_Interval
<1>3. NotAsked(i) \in SUBSET (1 .. devices[i].num_ep)
  BY DEF NotAsked
<1>4. IsFiniteSet(NotAsked(i))
  BY <1>2, <1>3, FS_Subset
<1> QED BY <1>1, <1>3, <1>4, MultiEpAssumption

-----------------------------------------------------------------------------
(* Every way a handler writes a slot leaves a table.                       *)
LEMMA Written ==
  ASSUME NEW t \in [Slots -> DeviceType], NEW i \in Slots
  PROVE  /\ \A a \in Devices \cup {NoAddr} : [t EXCEPT ![i].addr = a] \in [Slots -> DeviceType]
         /\ \A s \in {"NO_DEVICE", "IEEE_ADDR_DISCOVERY", "COMPLETED"} :
              /\ [t EXCEPT ![i].state = s] \in [Slots -> DeviceType]
              /\ \A a \in Devices : [t[i] EXCEPT !.ieee = a, !.state = s] \in DeviceType
         /\ \A n \in 0 .. MaxEp : [t EXCEPT ![i].num_ep = n] \in [Slots -> DeviceType]
<1>1. t[i] \in DeviceType
  OBVIOUS
<1>2. \A a \in Devices \cup {NoAddr} : [t[i] EXCEPT !.addr = a] \in DeviceType
  BY <1>1 DEF DeviceType
<1>3. \A s \in {"NO_DEVICE", "IEEE_ADDR_DISCOVERY", "COMPLETED"} :
        [t[i] EXCEPT !.state = s] \in DeviceType
  BY <1>1 DEF DeviceType
<1>4. \A n \in 0 .. MaxEp : [t[i] EXCEPT !.num_ep = n] \in DeviceType
  BY <1>1 DEF DeviceType
<1>5. \A s \in {"NO_DEVICE", "IEEE_ADDR_DISCOVERY", "COMPLETED"} : \A a \in Devices :
        [t[i] EXCEPT !.ieee = a, !.state = s] \in DeviceType
  BY <1>1 DEF DeviceType
<1> QED BY <1>2, <1>3, <1>4, <1>5

LEMMA EpWritten ==
  ASSUME NEW t \in [Slots -> DeviceType], NEW i \in Slots, NEW e \in 1 .. MaxEp
  PROVE  /\ \A s \in {"REQUESTED_CLUSTER_INFO", "KNOWN_CLUSTER"} :
              [t EXCEPT ![i].ep[e].state = s] \in [Slots -> DeviceType]
         /\ \A n \in Nat : [t EXCEPT ![i].ep[e].clusters = n] \in [Slots -> DeviceType]
         /\ \A c \in Nat : [t EXCEPT ![i].ep[e].asked = @ \cup {c}] \in [Slots -> DeviceType]
<1> DEFINE E == [1 .. MaxEp -> EpType]
<1>1. t[i] \in DeviceType /\ t[i].ep \in E /\ t[i].ep[e] \in EpType
  BY DEF DeviceType
<1>2. ASSUME NEW f \in EpType PROVE [t EXCEPT ![i].ep[e] = f] \in [Slots -> DeviceType]
  <2>1. [t[i].ep EXCEPT ![e] = f] \in E
    BY <1>1
  <2>2. [t[i] EXCEPT !.ep = [t[i].ep EXCEPT ![e] = f]] \in DeviceType
    BY <1>1, <2>1 DEF DeviceType
  <2> QED BY <2>2
<1>3. ASSUME NEW s \in {"REQUESTED_CLUSTER_INFO", "KNOWN_CLUSTER"}
      PROVE  [t EXCEPT ![i].ep[e].state = s] \in [Slots -> DeviceType]
  <2>1. [t[i].ep[e] EXCEPT !.state = s] \in EpType
    BY <1>1 DEF EpType
  <2> QED BY <1>2, <2>1
<1>4. ASSUME NEW n \in Nat PROVE [t EXCEPT ![i].ep[e].clusters = n] \in [Slots -> DeviceType]
  <2>1. [t[i].ep[e] EXCEPT !.clusters = n] \in EpType
    BY <1>1 DEF EpType
  <2> QED BY <1>2, <2>1
<1>5. ASSUME NEW c \in Nat PROVE [t EXCEPT ![i].ep[e].asked = @ \cup {c}] \in [Slots -> DeviceType]
  <2>1. [t[i].ep[e] EXCEPT !.asked = @ \cup {c}] \in EpType
    BY <1>1 DEF EpType
  <2> QED BY <1>2, <2>1
<1> QED BY <1>3, <1>4, <1>5

LEMMA Requests ==
  ASSUME NEW k \in Chains, NEW d \in Devices, NEW e \in Nat, NEW c \in Nat
  PROVE  Request(k, d, e, c) \in RequestType
BY DEF Request, RequestType

LEMMA Types ==
  ASSUME MultiTypeOK, OneSlot, Unused, MultiNext
  PROVE  MultiTypeOK'
<1> USE DEF MultiTypeOK
<1>1. ASSUME NEW d \in Devices, DevAnnce(d) PROVE MultiTypeOK'
  <2>1. PICK i \in ByState("NO_DEVICE") :
          /\ devices' = [devices EXCEPT ![i].addr = d, ![i].state = "IEEE_ADDR_DISCOVERY"]
          /\ pending' = Soon(Soon(pending, "ieee", i, 1), "ep", i, 1)
    BY <1>1 DEF DevAnnce
  <2>2. i \in Slots
    BY DEF ByState, First
  <2>3. [devices EXCEPT ![i].addr = d] \in [Slots -> DeviceType]
    BY <2>2, Written
  <2>4. devices' = [[devices EXCEPT ![i].addr = d] EXCEPT ![i].state = "IEEE_ADDR_DISCOVERY"]
    BY <2>1
  <2>5. devices' \in [Slots -> DeviceType]
    BY <2>2, <2>3, <2>4, Written, Zenon
  <2>6. pending' \in [Chains -> [Slots -> Nat]]
    BY <2>1, <2>2 DEF Soon, Chains
  <2> QED BY <1>1, <2>5, <2>6 DEF DevAnnce
<1>2. ASSUME NEW d \in Devices, LeaveIndication(d) PROVE MultiTypeOK'
  <2>1. PICK i \in ByIeee(d) : devices' = [devices EXCEPT ![i].state = "NO_DEVICE"]
    BY <1>2 DEF LeaveIndication
  <2>2. i \in Slots
    BY DEF ByIeee, First
  <2>3. devices' \in [Slots -> DeviceType]
    BY <2>1, <2>2, Written
  <2> QED BY <1>2, <2>3 DEF LeaveIndication
<1>3. ASSUME NEW i \in Slots, NEW h \in Chains, Runs(h, i)
      PROVE  pending' \in [Chains -> [Slots -> Nat]]
  BY <1>3 DEF Runs, Soon
<1>4. ASSUME NEW i \in Slots, NEW h \in Chains, Runs(h, i)
      PROVE  devices[i].addr \in Devices
  <2>1. devices[i].addr \in Devices \cup {NoAddr}
    BY DEF DeviceType
  <2>2. pending[h][i] # 0
    BY <1>4 DEF Runs
  <2>3. devices[i].addr # NoAddr
    BY <2>2 DEF Unused
  <2> QED BY <2>1, <2>3
<1>5. ASSUME NEW i \in Slots, DeviceIeeeAddrReq(i) PROVE MultiTypeOK'
  <2>1. "ieee" \in Chains
    BY DEF Chains
  <2>2. Request("ieee", devices[i].addr, 0, 0) \in RequestType
    BY <1>4, <1>5, <2>1, Requests DEF DeviceIeeeAddrReq
  <2> QED BY <1>3, <1>5, <2>1, <2>2 DEF DeviceIeeeAddrReq, Sends, Request
<1>6. ASSUME NEW i \in Slots, SendActiveEpReq(i) PROVE MultiTypeOK'
  <2>1. "ep" \in Chains
    BY DEF Chains
  <2>2. Request("ep", devices[i].addr, 0, 0) \in RequestType
    BY <1>4, <1>6, <2>1, Requests DEF SendActiveEpReq
  <2> QED BY <1>3, <1>6, <2>1, <2>2 DEF SendActiveEpReq, Sends, Request
<1>7. ASSUME NEW i \in Slots, SendSimpleDescReq(i) PROVE MultiTypeOK'
  <2>1. "simple" \in Chains /\ Runs("simple", i)
    BY <1>7 DEF Chains, SendSimpleDescReq
  <2>2. PICK x \in 0 .. MaxEp : Sends({Request("simple", devices[i].addr, x, 0)})
    <3>1. \A e \in First(NotAsked(i)) : e \in 0 .. MaxEp
      BY Finite, MultiEpAssumption DEF First
    <3> QED BY <1>7, <3>1 DEF SendSimpleDescReq
  <2>3. Request("simple", devices[i].addr, x, 0) \in RequestType
    BY <1>4, <2>1, Requests, MultiEpAssumption
  <2>4. devices' \in [Slots -> DeviceType]
    <3>1. \A e \in First(NotAsked(i)) : e \in 1 .. MaxEp
      BY Finite DEF First
    <3>2. ASSUME NEW e \in First(NotAsked(i)),
                 devices' = [devices EXCEPT ![i].ep[e].state = "REQUESTED_CLUSTER_INFO"]
          PROVE  devices' \in [Slots -> DeviceType]
      BY <3>1, <3>2, EpWritten
    <3> QED BY <1>7, <3>2 DEF SendSimpleDescReq
  <2> QED BY <1>3, <2>1, <2>2, <2>3, <2>4 DEF Sends, Request
<1>8. ASSUME NEW i \in Slots, SendAttrDiscReq(i) PROVE MultiTypeOK'
  <2>1. "attr" \in Chains /\ Runs("attr", i)
    BY <1>8 DEF Chains, SendAttrDiscReq
  <2>2. pending' \in [Chains -> [Slots -> Nat]] /\ devices[i].addr \in Devices
    BY <1>3, <1>4, <2>1
  <2>3. CASE UNCHANGED <<devices, reqs>>
    BY <2>2, <2>3
  <2>4. ASSUME NEW e \in First(Asking(i)),
               NEW c \in First(Clusters(i, e) \ devices[i].ep[e].asked),
               devices' = [devices EXCEPT ![i].ep[e].asked = @ \cup {c}],
               Sends({Request("attr", devices[i].addr, e, c)})
        PROVE  MultiTypeOK'
    <3>1. e \in 1 .. MaxEp
      BY MultiEpAssumption DEF First, Asking, DeviceType
    <3>2. c \in Nat
      BY <3>1 DEF First, Clusters, DeviceType, EpType
    <3>3. devices' \in [Slots -> DeviceType]
      BY <2>4, <3>1, <3>2, EpWritten
    <3>4. Request("attr", devices[i].addr, e, c) \in RequestType
      BY <2>1, <2>2, <3>1, <3>2, Requests, MultiEpAssumption
    <3> QED BY <2>2, <2>4, <3>3, <3>4 DEF Sends, Request
  <2> QED BY <1>8, <2>3, <2>4 DEF SendAttrDiscReq
<1>9. ASSUME NEW r \in reqs, reqs' = reqs \ {r}
      PROVE  reqs' \subseteq RequestType /\ \A q \in reqs' : q.kind = "ep" => q.ep = 0 /\ q.cluster = 0
  BY <1>9
<1>10. ASSUME NEW r \in reqs, Failure(r) PROVE MultiTypeOK'
  BY <1>9, <1>10 DEF Failure
<1>11. ASSUME NEW r \in reqs, Answer(r) PROVE MultiTypeOK'
  <2>1. r \in RequestType /\ r.to \in Devices
    BY DEF RequestType
  <2>2. \A i \in ByAddr(r.to) : i \in Slots
    BY DEF ByAddr, First
  <2>3. reqs' \subseteq RequestType /\ \A q \in reqs' : q.kind = "ep" => q.ep = 0 /\ q.cluster = 0
    BY <1>9, <1>11 DEF Answer
  <2>4. CASE DeviceIeeeAddrReqCb(r)
    <3>1. devices' \in [Slots -> DeviceType]
      BY <2>1, <2>4, Written DEF DeviceIeeeAddrReqCb
    <3> QED BY <2>3, <2>4, <3>1 DEF DeviceIeeeAddrReqCb
  <2>5. CASE ActiveEpCallback(r)
    <3>1. CASE UNCHANGED <<devices, pending>>
      BY <2>3, <3>1
    <3>2. ASSUME NEW i \in ByAddr(r.to), EpCount(r.to) <= MaxEp,
                 devices' = [devices EXCEPT ![i].num_ep = EpCount(r.to)],
                 pending' = Soon(pending, "simple", i, PerEndpoint(EpCount(r.to)))
          PROVE  MultiTypeOK'
      <4>1. EpCount(r.to) \in 0 .. MaxEp
        BY <2>1, <3>2, MultiEpAssumption DEF EpCount
      <4>2. devices' \in [Slots -> DeviceType]
        BY <2>2, <3>2, <4>1, Written
      <4>3. pending' \in [Chains -> [Slots -> Nat]]
        BY <2>2, <3>2, <4>1, MultiEpAssumption DEF Soon, PerEndpoint, Chains
      <4> QED BY <2>3, <4>2, <4>3
    <3> QED BY <2>5, <3>1, <3>2 DEF ActiveEpCallback
  <2>6. CASE SimpleDescCallback(r)
    <3>1. CASE UNCHANGED <<devices, pending>>
      BY <2>3, <3>1
    <3>2. ASSUME NEW i \in ByAddr(r.to), r.ep <= devices[i].num_ep,
                 devices' = [devices EXCEPT ![i].ep[r.ep].state = "KNOWN_CLUSTER",
                                            ![i].ep[r.ep].clusters = Endpoints[r.to][r.ep]],
                 pending' = Soon(pending, "attr", i, 1)
          PROVE  MultiTypeOK'
      <4>1. Endpoints[r.to] \in Seq(Nat) /\ r.ep \in DOMAIN Endpoints[r.to]
        BY <2>1, <2>6, MultiEpAssumption DEF SimpleDescCallback
      <4>2. Endpoints[r.to][r.ep] \in Nat /\ r.ep \in Nat \ {0}
        BY <4>1
      <4>3. devices[i].num_ep \in 0 .. MaxEp
        BY <2>2 DEF DeviceType
      <4>4. r.ep \in 1 .. MaxEp
        BY <3>2, <4>2, <4>3, MultiEpAssumption
      <4>5. [devices EXCEPT ![i].ep[r.ep].state = "KNOWN_CLUSTER"] \in [Slots -> DeviceType]
        BY <2>2, <4>4, EpWritten
      <4>6. devices' = [[devices EXCEPT ![i].ep[r.ep].state = "KNOWN_CLUSTER"]
                          EXCEPT ![i].ep[r.ep].clusters = Endpoints[r.to][r.ep]]
        BY <3>2
      <4>7. devices' \in [Slots -> DeviceType]
        BY <2>2, <4>2, <4>4, <4>5, <4>6, EpWritten
      <4>8. pending' \in [Chains -> [Slots -> Nat]]
        BY <2>2, <3>2 DEF Soon, Chains
      <4> QED BY <2>3, <4>7, <4>8
    <3> QED BY <2>6, <3>1, <3>2 DEF SimpleDescCallback
  <2>7. CASE AttrDiscCb(r)
    <3>1. pending' \in [Chains -> [Slots -> Nat]]
      BY <2>7 DEF AttrDiscCb, Chains
    <3> QED BY <2>3, <2>7, <3>1 DEF AttrDiscCb
  <2> QED BY <1>11, <2>4, <2>5, <2>6, <2>7 DEF Answer
<1> QED BY <1>1, <1>2, <1>5, <1>6, <1>7, <1>8, <1>10, <1>11 DEF MultiNext

-----------------------------------------------------------------------------
(* A step that concerns the device a: all other slots, and the requests to *)
(* other devices, stay as they are.                                        *)
Concerns(a) ==
    /\ \A i \in Slots : devices'[i].addr = devices[i].addr
    /\ \A i \in Slots : devices[i].addr # a =>
        /\ devices'[i].num_ep = devices[i].num_ep
        /\ devices'[i].ep = devices[i].ep
        /\ \A h \in Chains : pending'[h][i] = pending[h][i]
    /\ \A r \in reqs \cup reqs' : r.to # a => (r \in reqs <=> r \in reqs')
    /\ former' = former

LEMMA Others ==
  ASSUME MultiInv, NEW a \in Devices, Concerns(a),
         (\E i \in Slots : devices[i].addr = a) \/ reqs' \subseteq reqs,
         \A i \in Slots : devices[i].addr = a /\ FirstUse(i) => Orderly(i)'
  PROVE  AllOrderly'
<1> USE DEF AllOrderly
<1>1. OneSlot'
  BY DEF MultiInv, OneSlot, Concerns
<1>2. Met'
  <2> SUFFICES ASSUME NEW r \in reqs'
               PROVE  (\E i \in Slots : devices'[i].addr = r.to) \/ \E f \in former' : f[2] = r.to
    BY DEF Met
  <2>1. r \in reqs \/ \E i \in Slots : devices[i].addr = r.to
    BY DEF Concerns
  <2> QED BY <2>1 DEF MultiInv, Met, Concerns
<1>3. Unused'
  <2> SUFFICES ASSUME NEW i \in Slots, devices'[i].addr = NoAddr
               PROVE  Blank(i)' /\ \A h \in Chains : pending'[h][i] = 0
    BY DEF Unused
  <2>1. devices[i].addr = NoAddr /\ devices[i].addr # a
    BY MultiEpAssumption DEF Concerns
  <2>2. Blank(i) /\ \A h \in Chains : pending[h][i] = 0
    BY <2>1 DEF MultiInv, Unused
  <2> QED BY <2>1, <2>2 DEF Concerns, Blank
<1>4. ASSUME NEW i \in Slots PROVE FirstUse(i)' => Orderly(i)'
  <2>1. CASE devices[i].addr = a
    BY <2>1 DEF Concerns, FirstUse
  <2>2. CASE devices[i].addr # a
    <3>1. To(i)' = To(i)
      BY <2>2 DEF Concerns, To
    <3>2. FirstUse(i) => Orderly(i)
      BY DEF MultiInv
    <3> QED BY <2>2, <3>1, <3>2, Elsewhere DEF Concerns
  <2> QED BY <2>1, <2>2
<1> QED BY <1>1, <1>2, <1>3, <1>4

(* A slot whose own entries stay and whose device loses a request other    *)
(* than one for attributes, or gets one for its address.                   *)
LEMMA Undisturbed ==
  ASSUME NEW i \in Slots, Orderly(i), devices'[i].addr = devices[i].addr,
         devices'[i].num_ep = devices[i].num_ep, devices'[i].ep = devices[i].ep,
         \A h \in Chains \ {"ieee"} : pending'[h][i] = pending[h][i],
         \A r \in To(i)' : r \in To(i) \/ r.kind = "ieee",
         \A r \in To(i) : r.kind = "attr" => r \in To(i)'
  PROVE  Orderly(i)'
<1>1. NotAsked(i)' = NotAsked(i) /\ Asking(i)' = Asking(i) /\ Blank(i)' = Blank(i)
  BY DEF NotAsked, Asking, Clusters, Blank
<1>2. /\ pending'["ep"][i] = pending["ep"][i] /\ pending'["simple"][i] = pending["simple"][i]
      /\ pending'["attr"][i] = pending["attr"][i]
  BY DEF Chains
<1>3. EndpointsAreAsked(i)'
  BY <1>1, <1>2 DEF Orderly, EndpointsAreAsked
<1>4. ClustersAreAsked(i)'
  <2>1. CASE Asking(i)' = {} \/ pending'["attr"][i] > 0
    BY <2>1 DEF ClustersAreAsked
  <2>2. CASE \E r \in To(i) : r.kind = "attr"
    BY <2>2 DEF ClustersAreAsked, To
  <2> QED BY <1>1, <1>2, <2>1, <2>2 DEF Orderly, ClustersAreAsked, To
<1>5. Listing(i)' => Listing(i)
  BY <1>2 DEF Listing
<1> QED BY <1>1, <1>2, <1>3, <1>4, <1>5 DEF Orderly

-----------------------------------------------------------------------------
(* One step.                                                               *)
LEMMA Announced ==
  ASSUME MultiInv, NEW d \in Devices, DevAnnce(d)
  PROVE  AllOrderly'
<1> USE DEF AllOrderly
<1>1. PICK i \in ByState("NO_DEVICE") :
        /\ devices' = [devices EXCEPT ![i].addr = d, ![i].state = "IEEE_ADDR_DISCOVERY"]
        /\ pending' = Soon(Soon(pending, "ieee", i, 1), "ep", i, 1)
        /\ former' = former \cup ({i} \X ({devices[i].addr} \ {NoAddr}))
  BY DEF DevAnnce
<1>2. i \in Slots /\ reqs' = reqs
  BY DEF ByState, First, DevAnnce
<1>3. \A j \in Slots : devices[j].addr # d
  BY Found DEF MultiInv, DevAnnce
<1>4. /\ devices'[i].addr = d /\ devices'[i].num_ep = devices[i].num_ep /\ devices'[i].ep = devices[i].ep
      /\ \A j \in Slots \ {i} : devices'[j] = devices[j]
  BY <1>1, <1>2 DEF MultiInv, MultiTypeOK, DeviceType
<1>5. /\ \A j \in Slots \ {i} : \A h \in Chains : pending'[h][j] = pending[h][j]
      /\ pending'["ep"][i] = pending["ep"][i] + 1
      /\ pending'["simple"][i] = pending["simple"][i]
      /\ pending'["attr"][i] = pending["attr"][i]
  BY <1>1, <1>2 DEF MultiInv, MultiTypeOK, Soon, Chains
<1>6. devices[i].addr # NoAddr => <<i, devices[i].addr>> \in former'
  BY <1>1
<1>7. OneSlot'
  BY <1>2, <1>3, <1>4 DEF MultiInv, OneSlot
<1>8. Met'
  <2> SUFFICES ASSUME NEW r \in reqs
               PROVE  (\E j \in Slots : devices'[j].addr = r.to) \/ \E f \in former' : f[2] = r.to
    BY <1>2 DEF Met
  <2>1. r.to # NoAddr
    BY MultiEpAssumption DEF MultiInv, MultiTypeOK, RequestType
  <2>2. CASE \E f \in former : f[2] = r.to
    BY <1>1, <2>2
  <2>3. CASE devices[i].addr = r.to
    BY <1>6, <2>1, <2>3
  <2>4. ASSUME NEW j \in Slots \ {i}, devices[j].addr = r.to
        PROVE  \E k \in Slots : devices'[k].addr = r.to
    BY <1>4, <2>4
  <2> QED BY <2>2, <2>3, <2>4 DEF MultiInv, Met
<1>9. Unused'
  <2> SUFFICES ASSUME NEW j \in Slots, devices'[j].addr = NoAddr
               PROVE  Blank(j)' /\ \A h \in Chains : pending'[h][j] = 0
    BY DEF Unused
  <2>1. j # i
    BY <1>4, MultiEpAssumption
  <2>2. Blank(j) /\ \A h \in Chains : pending[h][j] = 0
    BY <1>4, <2>1 DEF MultiInv, Unused
  <2> QED BY <1>4, <1>5, <2>1, <2>2 DEF Blank
<1>10. ASSUME NEW j \in Slots \ {i} PROVE FirstUse(j)' => Orderly(j)'
  <2>1. To(j)' = To(j)
    BY <1>2, <1>4 DEF To
  <2> QED BY <1>1, <1>4, <1>5, <2>1, Elsewhere DEF MultiInv
<1>11. ASSUME FirstUse(i)' PROVE Orderly(i)'
  <2>1. devices[i].addr = NoAddr
    BY <1>6, <1>11 DEF FirstUse
  <2>2. Blank(i) /\ \A h \in Chains : pending[h][i] = 0
    BY <1>2, <2>1 DEF MultiInv, Unused
  <2>3. To(i)' = {}
    <3> SUFFICES ASSUME NEW r \in reqs, r.to = d PROVE FALSE
      BY <1>2, <1>4 DEF To
    <3>1. \E f \in former : f[2] = d
      BY <1>3 DEF MultiInv, Met
    <3> QED BY <1>1, <1>4, <1>11, <3>1 DEF FirstUse
  <2>4. Blank(i)'
    BY <1>4, <2>2 DEF Blank
  <2>5. pending'["ep"][i] = 1 /\ pending'["simple"][i] = 0
    BY <1>5, <2>2 DEF Chains
  <2>6. NotAsked(i)' = {} /\ Asking(i)' = {}
    BY <2>4 DEF Blank, NotAsked, Asking
  <2>7. EndpointsAreAsked(i)' /\ ClustersAreAsked(i)'
    BY <2>5, <2>6, FS_EmptySet DEF EndpointsAreAsked, ClustersAreAsked
  <2> QED BY <2>3, <2>4, <2>5, <2>7 DEF Orderly
<1> QED BY <1>7, <1>8, <1>9, <1>10, <1>11

LEMMA Left ==
  ASSUME MultiInv, NEW d \in Devices, LeaveIndication(d)
  PROVE  AllOrderly'
<1>1. \A i \in Slots : /\ devices'[i].addr = devices[i].addr
                       /\ devices'[i].num_ep = devices[i].num_ep
                       /\ devices'[i].ep = devices[i].ep
  BY DEF LeaveIndication, ByIeee, First, MultiInv, MultiTypeOK, DeviceType
<1>2. pending' = pending /\ former' = former /\ reqs' = reqs
  BY DEF LeaveIndication
<1>3. Concerns(d)
  BY <1>1, <1>2 DEF Concerns
<1>4. ASSUME NEW i \in Slots, FirstUse(i) PROVE Orderly(i)'
  <2>1. To(i)' = To(i) /\ Orderly(i)
    BY <1>1, <1>2, <1>4 DEF To, MultiInv, AllOrderly
  <2> QED BY <1>1, <1>2, <2>1, Undisturbed
<1> QED BY <1>2, <1>3, <1>4, Others

(* A request ends and changes nothing that matters here.                   *)
LEMMA Ended ==
  ASSUME MultiInv, NEW r \in reqs, r.kind # "attr", reqs' = reqs \ {r},
         \A i \in Slots : /\ devices'[i].addr = devices[i].addr
                          /\ devices'[i].num_ep = devices[i].num_ep
                          /\ devices'[i].ep = devices[i].ep,
         pending' = pending, former' = former
  PROVE  AllOrderly'
<1>1. r.to \in Devices
  BY DEF MultiInv, MultiTypeOK, RequestType
<1>2. Concerns(r.to)
  BY DEF Concerns
<1>3. ASSUME NEW i \in Slots, FirstUse(i) PROVE Orderly(i)'
  <2>1. Orderly(i)
    BY <1>3 DEF MultiInv, AllOrderly
  <2>2. (\A q \in To(i)' : q \in To(i)) /\ \A q \in To(i) : q.kind = "attr" => q \in To(i)'
    BY DEF To
  <2> QED BY <2>1, <2>2, Undisturbed
<1> QED BY <1>1, <1>2, <1>3, Others

(* A handler of slot i runs: the slot was used, and its device is known.   *)
LEMMA Running ==
  ASSUME MultiInv, NEW i \in Slots, NEW h \in Chains, Runs(h, i)
  PROVE  /\ devices[i].addr \in Devices
         /\ pending[h][i] > 0 /\ pending'[h][i] = pending[h][i] - 1
         /\ \A g \in Chains \ {h} : pending'[g][i] = pending[g][i]
         /\ \A j \in Slots \ {i} : \A g \in Chains : pending'[g][j] = pending[g][j]
         /\ \A j \in Slots : devices[j].addr = devices[i].addr => j = i
<1>1. devices[i].addr \in Devices \cup {NoAddr} /\ pending[h][i] \in Nat
  BY DEF MultiInv, MultiTypeOK, DeviceType
<1>2. pending[h][i] > 0
  BY DEF Runs
<1>3. devices[i].addr # NoAddr
  BY <1>1, <1>2 DEF MultiInv, AllOrderly, Unused
<1>4. /\ pending'[h][i] = pending[h][i] - 1
      /\ \A g \in Chains \ {h} : pending'[g][i] = pending[g][i]
      /\ \A j \in Slots \ {i} : \A g \in Chains : pending'[g][j] = pending[g][j]
  BY DEF Runs, Soon, MultiInv, MultiTypeOK
<1>5. \A j \in Slots : devices[j].addr = devices[i].addr => j = i
  BY <1>3 DEF MultiInv, AllOrderly, OneSlot
<1> QED BY <1>1, <1>2, <1>3, <1>4, <1>5

LEMMA AddressAsked ==
  ASSUME MultiInv, NEW i \in Slots, DeviceIeeeAddrReq(i)
  PROVE  AllOrderly'
<1>1. "ieee" \in Chains /\ Runs("ieee", i)
  BY DEF Chains, DeviceIeeeAddrReq
<1>2. /\ devices' = devices /\ former' = former
      /\ reqs' = reqs \cup {Request("ieee", devices[i].addr, 0, 0)}
  BY DEF DeviceIeeeAddrReq, Sends
<1>3. Concerns(devices[i].addr)
  BY <1>1, <1>2, Running DEF Concerns, Request
<1>4. ASSUME FirstUse(i) PROVE Orderly(i)'
  <2>1. Orderly(i)
    BY <1>4 DEF MultiInv, AllOrderly
  <2>2. (\A q \in To(i)' : q \in To(i) \/ q.kind = "ieee")
        /\ \A q \in To(i) : q.kind = "attr" => q \in To(i)'
    BY <1>2 DEF To, Request
  <2> QED BY <1>1, <1>2, <2>1, <2>2, Running, Undisturbed
<1> QED BY <1>1, <1>3, <1>4, Running, Others

LEMMA ListAsked ==
  ASSUME MultiInv, NEW i \in Slots, SendActiveEpReq(i)
  PROVE  AllOrderly'
<1> DEFINE new == Request("ep", devices[i].addr, 0, 0)
<1>1. "ep" \in Chains /\ Runs("ep", i)
  BY DEF Chains, SendActiveEpReq
<1>2. devices' = devices /\ former' = former /\ reqs' = reqs \cup {new}
  BY DEF SendActiveEpReq, Sends
<1>3. new.to = devices[i].addr /\ new.kind = "ep"
  BY DEF Request
<1>4. Concerns(devices[i].addr)
  BY <1>1, <1>2, <1>3, Running DEF Concerns
<1>5. ASSUME FirstUse(i) PROVE Orderly(i)'
  <2>1. Orderly(i)
    BY <1>5 DEF MultiInv, AllOrderly
  <2>2. pending["ep"][i] > 0 /\ pending["ep"][i] \in Nat /\ pending'["ep"][i] = 0
    BY <1>1, <2>1, Running DEF Orderly, MultiInv, MultiTypeOK
  <2>3. pending'["simple"][i] = pending["simple"][i] /\ pending'["attr"][i] = pending["attr"][i]
    BY <1>1, Running DEF Chains
  <2>4. Blank(i)
    BY <2>1, <2>2 DEF Orderly, Listing
  <2>5. Blank(i)' /\ NotAsked(i)' = NotAsked(i) /\ Asking(i)' = {}
    BY <1>2, <2>4 DEF Blank, NotAsked, Asking
  <2>6. EndpointsAreAsked(i)' /\ ClustersAreAsked(i)'
    BY <2>1, <2>3, <2>5 DEF Orderly, EndpointsAreAsked, ClustersAreAsked
  <2>7. \A r \in To(i)' : r.kind = "simple" => r \in To(i)
    BY <1>2, <1>3 DEF To
  <2>8. \A r \in To(i)' : r.kind = "simple" => FALSE
    BY <2>1, <2>4, <2>7 DEF Orderly, Blank
  <2> QED BY <2>2, <2>5, <2>6, <2>8 DEF Orderly
<1> QED BY <1>1, <1>4, <1>5, Running, Others

LEMMA EndpointAsked ==
  ASSUME MultiInv, NEW i \in Slots, SendSimpleDescReq(i)
  PROVE  AllOrderly'
<1>1. "simple" \in Chains /\ Runs("simple", i) /\ former' = former
  BY DEF Chains, SendSimpleDescReq
<1>2. PICK e \in Nat : /\ reqs' = reqs \cup {Request("simple", devices[i].addr, e, 0)}
                      /\ \/ NotAsked(i) = {} /\ devices' = devices
                         \/ /\ e \in NotAsked(i)
                            /\ devices' = [devices EXCEPT ![i].ep[e].state = "REQUESTED_CLUSTER_INFO"]
  <2>1. NotAsked(i) \subseteq Nat /\ 0 .. MaxEp \subseteq Nat
    BY Finite, MultiEpAssumption DEF MultiInv
  <2> QED BY <2>1 DEF SendSimpleDescReq, Sends, First
<1> DEFINE new == Request("simple", devices[i].addr, e, 0)
<1>3. new.to = devices[i].addr /\ new.kind = "simple" /\ new.ep = e
  BY DEF Request
<1>4. devices \in [Slots -> DeviceType] /\ devices[i] \in DeviceType /\ devices[i].ep \in [1 .. MaxEp -> EpType]
  BY DEF MultiInv, MultiTypeOK, DeviceType
<1>5. \A j \in Slots : /\ devices'[j].addr = devices[j].addr
                       /\ devices'[j].num_ep = devices[j].num_ep
                       /\ j # i => devices'[j].ep = devices[j].ep
  BY <1>2, <1>4 DEF DeviceType
<1>6. Concerns(devices[i].addr)
  BY <1>1, <1>2, <1>3, <1>5, Running DEF Concerns
<1>7. ASSUME FirstUse(i) PROVE Orderly(i)'
  <2>1. Orderly(i)
    BY <1>7 DEF MultiInv, AllOrderly
  <2>2. /\ pending["simple"][i] \in Nat /\ pending'["simple"][i] = pending["simple"][i] - 1
        /\ pending["simple"][i] > 0
        /\ pending'["ep"][i] = pending["ep"][i] /\ pending'["attr"][i] = pending["attr"][i]
    BY <1>1, Running DEF Chains, MultiInv, MultiTypeOK
  <2>3. Cardinality(NotAsked(i)) = pending["simple"][i]
    BY <2>1 DEF Orderly, EndpointsAreAsked
  <2>4. e \in NotAsked(i)
    <3>1. ASSUME NotAsked(i) = {} PROVE FALSE
      <4>1. Cardinality(NotAsked(i)) = 0
        BY <3>1, FS_EmptySet, Zenon
      <4> QED BY <2>2, <2>3, <4>1
    <3> QED BY <1>2, <3>1
  <2>5. devices' = [devices EXCEPT ![i].ep[e].state = "REQUESTED_CLUSTER_INFO"]
    BY <1>2, <2>4
  <2>6. e \in 1 .. MaxEp /\ e \in 1 .. devices[i].num_ep
    BY <2>4, Finite DEF MultiInv, NotAsked
  <2>7. /\ devices'[i].ep[e].state = "REQUESTED_CLUSTER_INFO"
        /\ devices'[i].ep[e].clusters = devices[i].ep[e].clusters
        /\ devices'[i].ep[e].asked = devices[i].ep[e].asked
        /\ \A f \in 1 .. MaxEp : f # e => devices'[i].ep[f] = devices[i].ep[f]
    BY <1>4, <2>5, <2>6 DEF DeviceType, EpType
  <2>8. 1 .. devices[i].num_ep \subseteq 1 .. MaxEp
    BY <1>4, MultiEpAssumption DEF DeviceType
  <2>9. NotAsked(i)' = NotAsked(i) \ {e}
    BY <1>5, <2>6, <2>7, <2>8 DEF NotAsked
  <2>10. EndpointsAreAsked(i)'
    BY <2>2, <2>3, <2>4, <2>9, Finite, FS_RemoveElement DEF EndpointsAreAsked, MultiInv
  <2>11. Asking(i)' = Asking(i)
    BY <1>5, <2>7, <2>8 DEF Asking, Clusters
  <2>12. ClustersAreAsked(i)'
    BY <1>2, <1>5, <2>1, <2>2, <2>11 DEF Orderly, ClustersAreAsked
  <2>13. ~ Listing(i)
    BY <2>1, <2>6 DEF Orderly, Blank
  <2>14. To(i)' = To(i) \cup {new}
    BY <1>2, <1>3, <1>5 DEF To
  <2>15. ~ Listing(i)'
    BY <1>3, <2>2, <2>13, <2>14 DEF Listing
  <2>16. ASSUME NEW r \in To(i)', r.kind = "simple"
         PROVE  r.ep \in 1 .. devices'[i].num_ep /\ devices'[i].ep[r.ep].state # "NO_CLUSTER_INFO"
    <3>1. CASE r = new
      BY <1>3, <1>5, <2>6, <2>7, <3>1
    <3>2. CASE r \in To(i)
      <4>1. r.ep \in 1 .. devices[i].num_ep /\ devices[i].ep[r.ep].state # "NO_CLUSTER_INFO"
        BY <2>1, <2>16, <3>2 DEF Orderly
      <4> QED BY <1>5, <2>7, <2>8, <4>1
    <3> QED BY <2>14, <3>1, <3>2
  <2>17. pending'["ep"][i] <= 1 /\ pending'["ep"][i] # 1
    BY <2>1, <2>2, <2>13 DEF Orderly, Listing
  <2> QED BY <2>10, <2>12, <2>15, <2>16, <2>17 DEF Orderly
<1> QED BY <1>1, <1>6, <1>7, Running, Others

LEMMA AttributesAsked ==
  ASSUME MultiInv, NEW i \in Slots, SendAttrDiscReq(i)
  PROVE  AllOrderly'
<1>1. "attr" \in Chains /\ Runs("attr", i) /\ former' = former
  BY DEF Chains, SendAttrDiscReq
<1>2. devices \in [Slots -> DeviceType] /\ devices[i] \in DeviceType /\ devices[i].ep \in [1 .. MaxEp -> EpType]
  BY DEF MultiInv, MultiTypeOK, DeviceType
<1>3. /\ pending'["ep"][i] = pending["ep"][i] /\ pending'["simple"][i] = pending["simple"][i]
  BY <1>1, Running DEF Chains
<1>4. CASE Asking(i) = {} /\ UNCHANGED <<devices, reqs>>
  <2>1. Concerns(devices[i].addr)
    BY <1>1, <1>4, Running DEF Concerns
  <2>2. ASSUME FirstUse(i) PROVE Orderly(i)'
    <3>1. Orderly(i)
      BY <2>2 DEF MultiInv, AllOrderly
    <3>2. /\ NotAsked(i)' = NotAsked(i) /\ Asking(i)' = {} /\ To(i)' = To(i)
          /\ Blank(i)' = Blank(i)
      BY <1>4 DEF NotAsked, Asking, Clusters, To, Blank
    <3>3. EndpointsAreAsked(i)' /\ ClustersAreAsked(i)' /\ Listing(i)' = Listing(i)
      BY <1>3, <3>1, <3>2 DEF Orderly, EndpointsAreAsked, ClustersAreAsked, Listing
    <3> QED BY <1>3, <1>4, <3>1, <3>2, <3>3 DEF Orderly
  <2> QED BY <1>1, <2>1, <2>2, Running, Others
<1>5. ASSUME NEW e \in First(Asking(i)),
             NEW c \in First(Clusters(i, e) \ devices[i].ep[e].asked),
             devices' = [devices EXCEPT ![i].ep[e].asked = @ \cup {c}],
             Sends({Request("attr", devices[i].addr, e, c)})
      PROVE  AllOrderly'
  <2> DEFINE new == Request("attr", devices[i].addr, e, c)
  <2>1. new.to = devices[i].addr /\ new.kind = "attr" /\ reqs' = reqs \cup {new}
    BY <1>5 DEF Request, Sends
  <2>2. \A j \in Slots : /\ devices'[j].addr = devices[j].addr
                         /\ devices'[j].num_ep = devices[j].num_ep
                         /\ j # i => devices'[j].ep = devices[j].ep
    BY <1>2, <1>5 DEF DeviceType
  <2>3. Concerns(devices[i].addr)
    BY <1>1, <2>1, <2>2, Running DEF Concerns
  <2>4. ASSUME FirstUse(i) PROVE Orderly(i)'
    <3>1. Orderly(i)
      BY <2>4 DEF MultiInv, AllOrderly
    <3>2. e \in 1 .. devices[i].num_ep /\ e \in 1 .. MaxEp /\ 1 .. devices[i].num_ep \subseteq 1 .. MaxEp
      BY <1>2, MultiEpAssumption DEF First, Asking, DeviceType
    <3>3. /\ \A f \in 1 .. MaxEp : devices'[i].ep[f].state = devices[i].ep[f].state
      BY <1>2, <1>5, <3>2 DEF DeviceType, EpType
    <3>4. NotAsked(i)' = NotAsked(i)
      BY <2>2, <3>2, <3>3 DEF NotAsked
    <3>5. EndpointsAreAsked(i)'
      BY <1>3, <3>1, <3>4 DEF Orderly, EndpointsAreAsked
    <3>6. ClustersAreAsked(i)'
      BY <2>1, <2>2 DEF ClustersAreAsked
    <3>7. ~ Listing(i)
      BY <3>1, <3>2 DEF Orderly, Blank
    <3>8. To(i)' = To(i) \cup {new}
      BY <2>1, <2>2 DEF To
    <3>9. ~ Listing(i)' /\ pending'["ep"][i] <= 1 /\ pending'["ep"][i] # 1
      BY <1>3, <2>1, <3>1, <3>7, <3>8 DEF Orderly, Listing
    <3>10. ASSUME NEW r \in To(i)', r.kind = "simple"
           PROVE  r.ep \in 1 .. devices'[i].num_ep /\ devices'[i].ep[r.ep].state # "NO_CLUSTER_INFO"
      <4>1. r.ep \in 1 .. devices[i].num_ep /\ devices[i].ep[r.ep].state # "NO_CLUSTER_INFO"
        BY <2>1, <3>1, <3>8, <3>10 DEF Orderly
      <4> QED BY <2>2, <3>2, <3>3, <4>1
    <3> QED BY <3>5, <3>6, <3>9, <3>10 DEF Orderly
  <2> QED BY <1>1, <2>3, <2>4, Running, Others
<1> QED BY <1>4, <1>5 DEF SendAttrDiscReq

-----------------------------------------------------------------------------
(* Answers.                                                                *)
LEMMA StatusCame ==
  ASSUME MultiInv, NEW r \in reqs, AttrDiscCb(r), reqs' = reqs \ {r}, former' = former
  PROVE  AllOrderly'
<1>1. r.to \in Devices /\ devices' = devices /\ r.kind = "attr"
  BY DEF MultiInv, MultiTypeOK, RequestType, AttrDiscCb
<1>2. /\ \A i \in Slots : devices[i].addr = r.to => i \in ByAddr(r.to)
      /\ \A i \in ByAddr(r.to) : devices[i].addr = r.to
  BY <1>1, Found DEF MultiInv, AllOrderly
<1>3. \A i \in Slots : /\ \A h \in Chains \ {"attr"} : pending'[h][i] = pending[h][i]
                       /\ i \notin ByAddr(r.to) => pending'["attr"][i] = pending["attr"][i]
                       /\ i \in ByAddr(r.to) => pending'["attr"][i] = pending["attr"][i] + 1
  BY DEF AttrDiscCb, MultiInv, MultiTypeOK, Chains
<1>4. Concerns(r.to)
  BY <1>1, <1>2, <1>3 DEF Concerns
<1>5. ASSUME NEW i \in Slots, devices[i].addr = r.to, FirstUse(i) PROVE Orderly(i)'
  <2>1. Orderly(i)
    BY <1>5 DEF MultiInv, AllOrderly
  <2>2. /\ NotAsked(i)' = NotAsked(i) /\ Blank(i)' = Blank(i) /\ \A q \in To(i)' : q \in To(i)
    BY <1>1 DEF NotAsked, To, Blank
  <2>3. /\ pending'["ep"][i] = pending["ep"][i] /\ pending'["simple"][i] = pending["simple"][i]
    BY <1>3 DEF Chains
  <2>4. pending["attr"][i] \in Nat /\ pending'["attr"][i] = pending["attr"][i] + 1
    BY <1>2, <1>3, <1>5 DEF MultiInv, MultiTypeOK, Chains
  <2>5. ClustersAreAsked(i)'
    BY <2>4 DEF ClustersAreAsked
  <2>6. EndpointsAreAsked(i)' /\ (Listing(i)' => Listing(i))
    BY <2>1, <2>2, <2>3 DEF Orderly, EndpointsAreAsked, Listing
  <2> QED BY <1>1, <2>1, <2>2, <2>3, <2>5, <2>6 DEF Orderly
<1> QED BY <1>1, <1>4, <1>5, Others

LEMMA ListCame ==
  ASSUME MultiInv, NEW r \in reqs, ActiveEpCallback(r), reqs' = reqs \ {r}, former' = former
  PROVE  AllOrderly'
<1>1. r \in RequestType /\ r.to \in Devices /\ r.kind = "ep" /\ r.ep = 0 /\ r.cluster = 0
  BY DEF MultiInv, MultiTypeOK, RequestType, ActiveEpCallback
<1>2. CASE UNCHANGED <<devices, pending>>
  BY <1>1, <1>2, Ended
<1>3. ASSUME NEW i \in ByAddr(r.to), EpCount(r.to) <= MaxEp,
             devices' = [devices EXCEPT ![i].num_ep = EpCount(r.to)],
             pending' = Soon(pending, "simple", i, PerEndpoint(EpCount(r.to)))
      PROVE  AllOrderly'
  <2> DEFINE n == EpCount(r.to)
  <2>1. n \in 0 .. MaxEp /\ n \in Nat
    BY <1>1, <1>3, MultiEpAssumption DEF EpCount
  <2>2. i \in Slots /\ devices[i].addr = r.to /\ \A j \in Slots : devices[j].addr = r.to => j = i
    BY <1>1, Found, MultiEpAssumption DEF MultiInv, AllOrderly, OneSlot
  <2>3. /\ \A j \in Slots : /\ devices'[j].addr = devices[j].addr
                            /\ devices'[j].ep = devices[j].ep
                            /\ j # i => devices'[j].num_ep = devices[j].num_ep
        /\ devices'[i].num_ep = n
    BY <1>3, <2>2 DEF MultiInv, MultiTypeOK, DeviceType
  <2>4. /\ \A j \in Slots \ {i} : \A h \in Chains : pending'[h][j] = pending[h][j]
        /\ pending'["ep"][i] = pending["ep"][i] /\ pending'["attr"][i] = pending["attr"][i]
        /\ pending'["simple"][i] = pending["simple"][i] + n
        /\ pending["simple"][i] \in Nat /\ pending["ep"][i] \in Nat
    BY <1>3, <2>1, <2>2 DEF MultiInv, MultiTypeOK, Soon, PerEndpoint, Chains
  <2>5. Concerns(r.to)
    BY <2>2, <2>3, <2>4 DEF Concerns
  <2>6. ASSUME FirstUse(i) PROVE Orderly(i)'
    <3>1. Orderly(i)
      BY <2>2, <2>6 DEF MultiInv, AllOrderly
    <3>2. r \in To(i)
      BY <2>2 DEF To
    <3>3. Blank(i) /\ pending["ep"][i] = 0
      BY <1>1, <2>4, <3>1, <3>2 DEF Orderly, Listing
    <3>4. NotAsked(i) = {} /\ pending["simple"][i] = 0
      <4>1. NotAsked(i) = {}
        BY <3>3 DEF Blank, NotAsked
      <4> QED BY <3>1, <4>1, FS_EmptySet, Zenon DEF Orderly, EndpointsAreAsked
    <3>5. NotAsked(i)' = 1 .. n /\ Asking(i)' = {}
      <4>1. \A e \in 1 .. n : devices'[i].ep[e] = NoEndpoint
        BY <2>1, <2>2, <2>3, <3>3, MultiEpAssumption DEF Blank
      <4>2. \A e \in 1 .. n : /\ devices'[i].ep[e].state = "NO_CLUSTER_INFO"
                             /\ Clusters(i, e)' = {}
        BY <4>1 DEF NoEndpoint, Clusters
      <4> QED BY <2>3, <4>2 DEF NotAsked, Asking
    <3>6. Cardinality(1 .. n) = n
      BY <2>1, FS_Interval
    <3>7. EndpointsAreAsked(i)' /\ ClustersAreAsked(i)'
      BY <2>1, <2>4, <3>4, <3>5, <3>6 DEF EndpointsAreAsked, ClustersAreAsked
    <3>8. \A q \in To(i)' : q \in To(i) /\ q # r /\ q \in RequestType
      BY <2>2, <2>3 DEF To, MultiInv, MultiTypeOK
    <3>9. \A q \in To(i)' : q.kind # "ep"
      <4> SUFFICES ASSUME NEW q \in To(i)', q.kind = "ep" PROVE FALSE
        OBVIOUS
      <4>1. q.ep = 0 /\ q.cluster = 0 /\ q.to = r.to
        BY <2>2, <3>8 DEF To, MultiInv, MultiTypeOK
      <4> QED BY <1>1, <3>8, <4>1 DEF RequestType
    <3>10. \A q \in To(i)' : q.kind # "simple"
      BY <3>1, <3>3, <3>8 DEF Orderly, Blank
    <3> QED BY <2>4, <3>3, <3>7, <3>9, <3>10 DEF Orderly, Listing
  <2> QED BY <1>1, <2>2, <2>5, <2>6, Others
<1> QED BY <1>2, <1>3 DEF ActiveEpCallback

LEMMA DescriptionCame ==
  ASSUME MultiInv, NEW r \in reqs, SimpleDescCallback(r), reqs' = reqs \ {r}, former' = former
  PROVE  AllOrderly' /\ (wild' => wild \/ former # {})
<1>1. /\ r \in RequestType /\ r.to \in Devices /\ r.kind = "simple"
      /\ Endpoints[r.to] \in Seq(Nat) /\ r.ep \in DOMAIN Endpoints[r.to]
  BY MultiEpAssumption DEF MultiInv, MultiTypeOK, RequestType, SimpleDescCallback
<1>2. r.ep \in Nat \ {0} /\ Endpoints[r.to][r.ep] \in Nat
  BY <1>1
<1>3. ASSUME UNCHANGED <<devices, pending>> PROVE AllOrderly'
  BY <1>1, <1>3, Ended
<1>4. ASSUME NEW i \in ByAddr(r.to), r.ep <= devices[i].num_ep,
             devices' = [devices EXCEPT ![i].ep[r.ep].state = "KNOWN_CLUSTER",
                                        ![i].ep[r.ep].clusters = Endpoints[r.to][r.ep]],
             pending' = Soon(pending, "attr", i, 1)
      PROVE  AllOrderly'
  <2>1. i \in Slots /\ devices[i].addr = r.to /\ \A j \in Slots : devices[j].addr = r.to => j = i
    BY <1>1, Found, MultiEpAssumption DEF MultiInv, AllOrderly, OneSlot
  <2>2. devices \in [Slots -> DeviceType] /\ devices[i] \in DeviceType /\ devices[i].ep \in [1 .. MaxEp -> EpType]
    BY <2>1 DEF MultiInv, MultiTypeOK, DeviceType
  <2>3. r.ep \in 1 .. MaxEp /\ 1 .. devices[i].num_ep \subseteq 1 .. MaxEp
    BY <1>2, <1>4, <2>2, MultiEpAssumption DEF DeviceType
  <2>4. /\ \A j \in Slots : /\ devices'[j].addr = devices[j].addr
                            /\ devices'[j].num_ep = devices[j].num_ep
                            /\ j # i => devices'[j].ep = devices[j].ep
        /\ devices'[i].ep[r.ep].state = "KNOWN_CLUSTER"
        /\ \A f \in 1 .. MaxEp : f # r.ep => devices'[i].ep[f] = devices[i].ep[f]
    <3> DEFINE D == [devices EXCEPT ![i].ep[r.ep].state = "KNOWN_CLUSTER"]
    <3>1. /\ \A j \in Slots : /\ D[j].addr = devices[j].addr
                              /\ D[j].num_ep = devices[j].num_ep
                              /\ j # i => D[j].ep = devices[j].ep
          /\ D[i].ep[r.ep].state = "KNOWN_CLUSTER"
          /\ \A f \in 1 .. MaxEp : f # r.ep => D[i].ep[f] = devices[i].ep[f]
      BY <2>1, <2>2, <2>3 DEF DeviceType, EpType
    <3>2. D \in [Slots -> DeviceType]
      BY <2>1, <2>2, <2>3, EpWritten
    <3>3. devices' = [D EXCEPT ![i].ep[r.ep].clusters = Endpoints[r.to][r.ep]]
      BY <1>4
    <3> HIDE DEF D
    <3>4. D[i] \in DeviceType /\ D[i].ep \in [1 .. MaxEp -> EpType] /\ D[i].ep[r.ep] \in EpType
      BY <2>1, <2>3, <3>2 DEF DeviceType
    <3>5. /\ \A j \in Slots : /\ devices'[j].addr = D[j].addr
                              /\ devices'[j].num_ep = D[j].num_ep
                              /\ j # i => devices'[j].ep = D[j].ep
          /\ devices'[i].ep[r.ep].state = D[i].ep[r.ep].state
          /\ \A f \in 1 .. MaxEp : f # r.ep => devices'[i].ep[f] = D[i].ep[f]
      BY <2>1, <2>3, <3>2, <3>3, <3>4 DEF DeviceType, EpType
    <3> QED BY <2>1, <3>1, <3>5
  <2>5. /\ \A j \in Slots \ {i} : \A h \in Chains : pending'[h][j] = pending[h][j]
        /\ pending'["ep"][i] = pending["ep"][i] /\ pending'["simple"][i] = pending["simple"][i]
        /\ pending'["attr"][i] > 0
    BY <1>4, <2>1 DEF MultiInv, MultiTypeOK, Soon, Chains
  <2>6. Concerns(r.to)
    BY <2>1, <2>4, <2>5 DEF Concerns
  <2>7. ASSUME FirstUse(i) PROVE Orderly(i)'
    <3>1. Orderly(i) /\ r \in To(i)
      BY <2>1, <2>7 DEF MultiInv, AllOrderly, To
    <3>2. r.ep \in 1 .. devices[i].num_ep /\ devices[i].ep[r.ep].state # "NO_CLUSTER_INFO"
      BY <1>1, <3>1 DEF Orderly
    <3>3. NotAsked(i)' = NotAsked(i)
      BY <2>3, <2>4, <3>2, <2>1 DEF NotAsked
    <3>4. EndpointsAreAsked(i)' /\ ClustersAreAsked(i)'
      BY <2>5, <3>1, <3>3 DEF Orderly, EndpointsAreAsked, ClustersAreAsked
    <3>5. \A q \in To(i)' : q \in To(i)
      BY <2>1, <2>4 DEF To
    <3>6. ~ Listing(i)
      BY <3>1, <3>2 DEF Orderly, Blank
    <3>7. ~ Listing(i)' /\ pending'["ep"][i] <= 1 /\ pending'["ep"][i] # 1
      BY <2>5, <3>1, <3>5, <3>6 DEF Orderly, Listing
    <3>8. ASSUME NEW q \in To(i)', q.kind = "simple"
          PROVE  q.ep \in 1 .. devices'[i].num_ep /\ devices'[i].ep[q.ep].state # "NO_CLUSTER_INFO"
      <4>1. q.ep \in 1 .. devices[i].num_ep /\ devices[i].ep[q.ep].state # "NO_CLUSTER_INFO"
        BY <3>1, <3>5, <3>8 DEF Orderly
      <4> QED BY <2>1, <2>3, <2>4, <4>1
    <3> QED BY <3>4, <3>7, <3>8 DEF Orderly
  <2> QED BY <1>1, <2>1, <2>6, <2>7, Others
<1>5. AllOrderly'
  BY <1>3, <1>4 DEF SimpleDescCallback
<1>6. ASSUME former = {}, \A i \in ByAddr(r.to) : r.ep > devices[i].num_ep PROVE FALSE
  <2>1. PICK i \in Slots : devices[i].addr = r.to
    BY <1>6 DEF MultiInv, AllOrderly, Met
  <2>2. r \in To(i) /\ Orderly(i) /\ i \in ByAddr(r.to)
    BY <1>1, <1>6, <2>1, Found DEF MultiInv, AllOrderly, To, FirstUse
  <2>3. r.ep \in 1 .. devices[i].num_ep /\ devices[i].num_ep \in Nat
    BY <1>1, <2>2, MultiEpAssumption DEF Orderly, MultiInv, MultiTypeOK, DeviceType
  <2> QED BY <1>2, <1>6, <2>2, <2>3
<1>7. wild' => wild \/ former # {}
  BY <1>6 DEF SimpleDescCallback
<1> QED BY <1>5, <1>7

-----------------------------------------------------------------------------
(* For any table and any devices: as long as a slot has its first device   *)
(* and that its first slot, every endpoint listed is asked for and the     *)
(* chain of attribute requests goes on; and the table is not overrun       *)
(* before a slot is given away a second time.                              *)
THEOREM DiscoveryAlwaysGoesOn == MultiSpec => []DiscoveryGoesOn
<1>1. MultiInit => MultiInv
  <2> SUFFICES ASSUME MultiInit PROVE MultiInv
    OBVIOUS
  <2> USE DEF MultiInit
  <2>1. NoEndpoint \in EpType /\ NoDevice \in DeviceType
    BY MultiEpAssumption DEF NoEndpoint, NoDevice, EpType, DeviceType
  <2>2. MultiTypeOK /\ OneSlot /\ Met
    BY <2>1 DEF MultiTypeOK, OneSlot, Met, NoDevice
  <2>3. \A i \in Slots : Blank(i) /\ NotAsked(i) = {} /\ Asking(i) = {} /\ To(i) = {}
    <3> SUFFICES ASSUME NEW i \in Slots
                 PROVE  Blank(i) /\ NotAsked(i) = {} /\ Asking(i) = {} /\ To(i) = {}
      OBVIOUS
    <3>1. devices[i] = NoDevice
      OBVIOUS
    <3>2. devices[i].num_ep = 0 /\ devices[i].ep = [e \in 1 .. MaxEp |-> NoEndpoint]
      BY <3>1 DEF NoDevice
    <3>3. Blank(i)
      BY <3>2 DEF Blank
    <3>4. 1 .. devices[i].num_ep = {}
      BY <3>2
    <3>5. NotAsked(i) = {} /\ Asking(i) = {}
      BY <3>4, Zenon DEF NotAsked, Asking
    <3> QED BY <3>3, <3>5 DEF To
  <2>4. Unused /\ \A i \in Slots : pending["ep"][i] = 0 /\ pending["simple"][i] = 0
    BY <2>3 DEF Unused, Chains
  <2>5. \A i \in Slots : EndpointsAreAsked(i) /\ ClustersAreAsked(i)
    BY <2>3, <2>4, FS_EmptySet DEF EndpointsAreAsked, ClustersAreAsked
  <2>6. \A i \in Slots : Orderly(i)
    BY <2>3, <2>4, <2>5 DEF Orderly
  <2> QED BY <2>2, <2>4, <2>6 DEF MultiInv, AllOrderly
<1>2. MultiInv /\ [MultiNext]_multiVars => MultiInv'
  <2> SUFFICES ASSUME MultiInv, [MultiNext]_multiVars PROVE MultiInv'
    OBVIOUS
  <2>1. CASE UNCHANGED multiVars
    <3>1. MultiTypeOK' /\ OneSlot' /\ Met' /\ Unused'
      BY <2>1 DEF multiVars, MultiInv, AllOrderly, MultiTypeOK, OneSlot, Met, Unused, Blank
    <3>2. \A i \in Slots : To(i)' = To(i)
      BY <2>1 DEF multiVars, To
    <3>3. \A i \in Slots : FirstUse(i)' => Orderly(i)'
      BY <2>1, <3>2, Elsewhere DEF multiVars, MultiInv, AllOrderly
    <3> QED BY <2>1, <3>1, <3>3 DEF multiVars, MultiInv, AllOrderly
  <2>2. CASE MultiNext
    <3>1. MultiTypeOK'
      BY <2>2, Types DEF MultiInv, AllOrderly
    <3>2. ASSUME NEW r \in reqs, Answer(r) PROVE AllOrderly' /\ (wild' => wild \/ former # {})
      <4>1. reqs' = reqs \ {r} /\ former' = former
        BY <3>2 DEF Answer
      <4>2. CASE DeviceIeeeAddrReqCb(r)
        <5>1. \A i \in Slots : /\ devices'[i].addr = devices[i].addr
                               /\ devices'[i].num_ep = devices[i].num_ep
                               /\ devices'[i].ep = devices[i].ep
          BY <4>2 DEF DeviceIeeeAddrReqCb, MultiInv, MultiTypeOK, DeviceType
        <5> QED BY <4>1, <4>2, <5>1, Ended DEF DeviceIeeeAddrReqCb
      <4>3. CASE ActiveEpCallback(r)
        BY <4>1, <4>3, ListCame DEF ActiveEpCallback
      <4>4. CASE SimpleDescCallback(r)
        BY <4>1, <4>4, DescriptionCame
      <4>5. CASE AttrDiscCb(r)
        BY <4>1, <4>5, StatusCame DEF AttrDiscCb
      <4> QED BY <3>2, <4>2, <4>3, <4>4, <4>5 DEF Answer
    <3>3. ASSUME NEW r \in reqs, Failure(r) PROVE AllOrderly' /\ wild' = wild
      BY <3>3, Ended DEF Failure
    <3>4. ASSUME NEW d \in Devices, DevAnnce(d) \/ LeaveIndication(d) PROVE AllOrderly' /\ wild' = wild
      BY <3>4, Announced, Left DEF DevAnnce, LeaveIndication
    <3>5. ASSUME NEW i \in Slots, \/ DeviceIeeeAddrReq(i) \/ SendActiveEpReq(i)
                                  \/ SendSimpleDescReq(i) \/ SendAttrDiscReq(i)
          PROVE  AllOrderly' /\ wild' = wild
      BY <3>5, AddressAsked, ListAsked, EndpointAsked, AttributesAsked
         DEF DeviceIeeeAddrReq, SendActiveEpReq, SendSimpleDescReq, SendAttrDiscReq
    <3>6. AllOrderly' /\ (wild' => former # {})
      BY <2>2, <3>2, <3>3, <3>4, <3>5 DEF MultiNext
    <3>7. former \subseteq former'
      BY <2>2 DEF MultiNext, DevAnnce, LeaveIndication, DeviceIeeeAddrReq, SendActiveEpReq,
                  SendSimpleDescReq, SendAttrDiscReq, Answer, Failure
    <3> QED BY <3>1, <3>6, <3>7 DEF MultiInv
  <2> QED BY <2>1, <2>2
<1>3. MultiInv => DiscoveryGoesOn
  BY DEF MultiInv, AllOrderly, Orderly, DiscoveryGoesOn
<1> QED BY <1>1, <1>2, <1>3, PTL DEF MultiSpec
=============================================================================

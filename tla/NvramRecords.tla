---------------------------- MODULE NvramRecords ----------------------------
(*************************************************************************)
(* Theorems about what Nvram stores: the records in the flash, the       *)
(* buffer they are written from, and the backend as an implementation of *)
(* NvramStore.                                                           *)
(*                                                                       *)
(* The invariant StoreInv rests on the one of the table (TableInv of     *)
(* NvramProofs). Its first part follows a record from its header to its  *)
(* tail: what is stored is whole and of its own identifier, and the      *)
(* buffer belongs to the record being written. Its second part holds     *)
(* while nothing but the power fails, and never while page 0 has no      *)
(* header and datasets are stored: table, flash and buffer tell the      *)
(* same, and all datasets fit one page, so that the next start places    *)
(* each of them. The rebuilding adds up lengths, one dataset after the   *)
(* other: Sums.                                                          *)
(*************************************************************************)
EXTENDS NvramProofs

-----------------------------------------------------------------------------
(* The environments.  In Settled ones datasets are written one after the   *)
(* other; either the flash may fail and the header of page 0 be missed, or *)
(* datasets are relocated.  In Calm ones nothing fails but the power, and  *)
(* that never while page 0 has no header and datasets are stored: a start  *)
(* in that gap places none.                                                *)
IsCalm(w) == w \subseteq {"copy", "move"}
Settled == \A w \in Worlds : IsCalm(w) \/ w \subseteq {"move", "gap", "flashfail"}
Calm == \A w \in Worlds : IsCalm(w)

-----------------------------------------------------------------------------
(* The records and the buffer.                                             *)

LensOf(i) == IF i \in Types THEN Lens ELSE {HdrLen}
GensOf(i) == IF i \in Types THEN Gens ELSE {0}

(* A stored item is missing, or a whole record of its own identifier.      *)
IsRecord(i, x) ==
    x = NoItem \/ (i # 0 /\ \E l \in LensOf(i), g \in GensOf(i) : x = Record(i, l, g))
Whole(n) == \A i \in Ids : IsRecord(i, n[i])

(* The buffer belongs to the record being written and holds the pieces     *)
(* written so far; of a copy, which repeats the old record, all of them.   *)
Holds(i, k) ==
    \A s \in Slots : s < k => cache.buf[s] = Piece(i, info[i].len, jobs[i].g, s)

JobBuffered(i) ==
    jobs[i].next > 0 =>
        /\ i # 0 /\ info[i].len \in LensOf(i) /\ jobs[i].g \in GensOf(i)
        /\ cache.id = i /\ cache.flush
        /\ jobs[i].old.len = 0 =>
              (reloc.len = 0 \/ reloc.ds # i) /\ Holds(i, jobs[i].next)
        /\ jobs[i].old.len > 0 =>
              /\ Holds(i, info[i].len)
              /\ reloc.ds = i /\ reloc.old = jobs[i].old
              /\ jobs[i].old.pos + jobs[i].old.len <= PageSize
              /\ jobs[i].got # NoCell =>
                    jobs[i].got = Piece(i, info[i].len, jobs[i].g, jobs[i].next)

RecordInv ==
    /\ Whole(nvs)
    /\ \A i \in Ids : JobBuffered(i)
    /\ reloc.ds = NotFound => reloc.len = 0
    /\ reloc.ds < DatasetNumber
    /\ cache.flush => cache.id \in Active
    /\ \A i \in Ids : acked[i] = Stored(nvs[i])

-----------------------------------------------------------------------------
(* The table and the flash, when nothing fails but the power.              *)

LensIn(n) == [i \in Ids |-> n[i].len]
Room == PageSize - HdrLen

(* What is not being written is in the table as it is in the flash, and    *)
(* the buffer agrees with both.                                            *)
Synced ==
    /\ boot = "up" => \A i \in Ids : jobs[i].next = 0 => info[i].len = nvs[i].len
    /\ cache.id \notin Active =>
          \A s \in Slots : s < info[cache.id].len => cache.buf[s] = nvs[cache.id].cell[s]

(* All datasets fit behind the header of one page.                         *)
Filled ==
    /\ Sums(LensIn(nvs))[DatasetNumber] <= Room
    /\ boot = "up" => LiveLen <= Room
    /\ \A i \in Ids : info[i].pos + info[i].len <= PageSize
    /\ \A i \in Ids : i < DatasetNumber /\ info[i].len > 0 => info[i].pos > 0

(* The rebuilding places them there, and meets no other page before it has *)
(* placed them all.                                                        *)
Placing ==
    /\ boot # "up" => HeaderSafe(nvs) /\ cache.id = 0
    /\ boot = "headers" =>
          \A i \in Ids : DatasetNumber <= i /\ i < scan.id => info[i].len = nvs[i].len
    /\ boot = "datasets" =>
          /\ \A i \in Ids : DatasetNumber <= i \/ i < scan.id => info[i].len = nvs[i].len
          /\ \/ scan.page = 0 /\ scan.pos = HdrLen + Sums(LensIn(nvs))[scan.id]
             \/ scan.page = 1 /\ Sums(LensIn(nvs))[scan.id] = Room

CalmInv == Synced /\ Filled /\ Placing

StoreInv == RecordInv /\ (IsCalm(env) => CalmInv)
NoFatal == IsCalm(env) /\ PageCount >= 2 => boot # "fatal"

-----------------------------------------------------------------------------
(* Sums of lengths.                                                        *)

Lists == [Ids -> Nat]
Steps == 0 .. DatasetNumber

LEMMA StepOf ==
    ASSUME NEW k \in Steps
    PROVE  /\ k \in Nat /\ k <= DatasetNumber
           /\ k > 0 => k - 1 \in Steps /\ k - 1 \in Ids /\ k - 1 < DatasetNumber /\ k - 1 < k
<1>1. k \in Nat /\ k <= DatasetNumber
  BY Sizes1 DEF Steps
<1>2. ASSUME k > 0
      PROVE  /\ k - 1 \in 0 .. DatasetNumber /\ k - 1 \in 0 .. (DatasetNumber + PageCount - 1)
             /\ k - 1 < DatasetNumber /\ k - 1 < k
  BY <1>1, <1>2, Sizes1
<1>3. QED
  BY <1>1, <1>2 DEF Steps, Ids

(* The recursion has a solution.                                           *)
LEMMA SumsExist ==
    ASSUME NEW f \in Lists
    PROVE  \E s \in [Steps -> Nat] :
              s = [k \in Steps |-> IF k = 0 THEN 0 ELSE s[k - 1] + f[k - 1]]
<1> DEFINE Solves(n, s) == \A k \in 0 .. n : s[k] = IF k = 0 THEN 0 ELSE s[k - 1] + f[k - 1]
           bad == {n \in Steps : ~ \E s \in [0 .. n -> Nat] : Solves(n, s)}
<1>1. bad = {}
  <2> SUFFICES ASSUME bad # {} PROVE FALSE
    OBVIOUS
  <2>1. PICK n \in bad : \A m \in bad : n <= m
    <3>1. bad \subseteq Nat
      BY StepOf
    <3> HIDE DEF bad
    <3>2. QED
      BY <3>1, Least
  <2>2. n \in Steps /\ n \in Nat
    BY <2>1, StepOf
  <2>3. CASE n = 0
    <3>1. [k \in 0 .. 0 |-> 0] \in [0 .. n -> Nat] /\ Solves(n, [k \in 0 .. 0 |-> 0])
      BY <2>3
    <3>2. QED
      BY <2>1, <3>1
  <2>4. CASE n > 0
    <3>1. n - 1 \in Steps /\ n - 1 \in Ids /\ n - 1 \in Nat
      BY <2>2, <2>4, StepOf
    <3>2. n - 1 \notin bad
      <4>1. ~ (n <= n - 1)
        BY <2>2
      <4> HIDE DEF bad
      <4>2. QED
        BY <2>1, <4>1
    <3>3. PICK s \in [0 .. (n - 1) -> Nat] : Solves(n - 1, s)
      BY <3>1, <3>2
    <3> DEFINE t == [k \in 0 .. n |-> IF k = n THEN s[n - 1] + f[n - 1] ELSE s[k]]
    <3>4. \A k \in 0 .. n : k = n \/ k \in 0 .. (n - 1)
      BY <2>2
    <3>5. s[n - 1] + f[n - 1] \in Nat
      BY <2>2, <2>4, <3>1, <3>3 DEF Lists
    <3>6. t \in [0 .. n -> Nat]
      BY <3>3, <3>4, <3>5
    <3>7. Solves(n, t)
      <4> SUFFICES ASSUME NEW k \in 0 .. n
                   PROVE  t[k] = IF k = 0 THEN 0 ELSE t[k - 1] + f[k - 1]
        OBVIOUS
      <4>1. k > 0 => k - 1 \in 0 .. n /\ k - 1 # n
        BY <2>2
      <4>2. k > 0 => t[k - 1] = s[k - 1]
        BY <4>1
      <4>3. CASE k = n
        BY <2>2, <2>4, <4>2, <4>3
      <4>4. CASE k # n
        <5>1. k \in 0 .. (n - 1)
          BY <3>4, <4>4
        <5>2. t[k] = s[k] /\ s[k] = IF k = 0 THEN 0 ELSE s[k - 1] + f[k - 1]
          BY <3>3, <4>4, <5>1
        <5>3. QED
          BY <2>2, <4>2, <5>1, <5>2
      <4>5. QED
        BY <4>3, <4>4
    <3> HIDE DEF t, Solves
    <3>8. QED
      BY <2>1, <3>6, <3>7
  <2>5. QED
    BY <2>2, <2>3, <2>4
<1>2. DatasetNumber \in Steps
  BY Sizes1 DEF Steps
<1>3. PICK s \in [0 .. DatasetNumber -> Nat] : Solves(DatasetNumber, s)
  BY <1>1, <1>2
<1>4. s = [k \in Steps |-> IF k = 0 THEN 0 ELSE s[k - 1] + f[k - 1]]
  BY <1>3 DEF Steps
<1>5. QED
  BY <1>3, <1>4 DEF Steps

LEMMA SumsRec ==
    ASSUME NEW f \in Lists
    PROVE  /\ \A k \in Steps : Sums(f)[k] \in Nat
           /\ Sums(f)[0] = 0
           /\ \A k \in Steps : k > 0 => Sums(f)[k] = Sums(f)[k - 1] + f[k - 1]
<1> DEFINE Solution(s) == s = [k \in Steps |-> IF k = 0 THEN 0 ELSE s[k - 1] + f[k - 1]]
           S == Sums(f)
<1>1. S = CHOOSE s : Solution(s)
  BY DEF Sums, Steps
<1>2. Solution(S)
  <2> HIDE DEF S
  <2>1. \E s : Solution(s)
    BY SumsExist
  <2> HIDE DEF Solution
  <2>2. QED
    BY <1>1, <2>1
<1> HIDE DEF S
<1>3. 0 \in Steps
  BY Sizes1 DEF Steps
<1>4. S[0] = 0
  BY <1>2, <1>3
<1>5. ASSUME NEW k \in Steps, k > 0 PROVE S[k] = S[k - 1] + f[k - 1]
  BY <1>2, <1>5, StepOf
<1> DEFINE bad == {k \in Steps : S[k] \notin Nat}
<1>6. bad = {}
  <2> SUFFICES ASSUME bad # {} PROVE FALSE
    OBVIOUS
  <2>1. PICK n \in bad : \A m \in bad : n <= m
    <3>1. bad \subseteq Nat
      BY StepOf
    <3> HIDE DEF bad
    <3>2. QED
      BY <3>1, Least
  <2>2. n \in Steps /\ n # 0
    BY <1>4, <2>1
  <2>3. n > 0
    BY <2>2, StepOf
  <2>4. n - 1 \in Steps /\ n - 1 \in Ids /\ n - 1 \in Nat
    BY <2>2, <2>3, StepOf
  <2>5. n - 1 \notin bad
    BY <2>1, <2>2, <2>4, StepOf
  <2>6. S[n - 1] \in Nat /\ f[n - 1] \in Nat
    BY <2>4, <2>5 DEF Lists
  <2>7. S[n] \in Nat
    BY <1>5, <2>2, <2>3, <2>6
  <2>8. QED
    BY <2>1, <2>7
<1>7. QED
  BY <1>4, <1>5, <1>6 DEF S

LEMMA SumsLeq ==
    ASSUME NEW f \in Lists, NEW g \in Lists, \A i \in Ids : i < DatasetNumber => f[i] <= g[i],
           NEW k \in Steps
    PROVE  Sums(f)[k] <= Sums(g)[k]
<1> DEFINE S == Sums(f)
           T == Sums(g)
           bad == {m \in Steps : ~ (S[m] <= T[m])}
<1>1. /\ \A m \in Steps : S[m] \in Nat /\ T[m] \in Nat
      /\ S[0] = 0 /\ T[0] = 0
      /\ \A m \in Steps : m > 0 => S[m] = S[m - 1] + f[m - 1] /\ T[m] = T[m - 1] + g[m - 1]
  BY SumsRec
<1> HIDE DEF S, T
<1>2. bad = {}
  <2> SUFFICES ASSUME bad # {} PROVE FALSE
    OBVIOUS
  <2>1. PICK n \in bad : \A m \in bad : n <= m
    <3>1. bad \subseteq Nat
      BY StepOf
    <3> HIDE DEF bad
    <3>2. QED
      BY <3>1, Least
  <2>2. n \in Steps /\ n > 0
    BY <1>1, <2>1, StepOf
  <2>3. n - 1 \in Steps /\ n - 1 \in Ids /\ n - 1 < DatasetNumber /\ ~ (n <= n - 1)
    BY <2>2, StepOf
  <2>4. n - 1 \notin bad
    BY <2>1, <2>3
  <2>5. S[n - 1] <= T[n - 1] /\ f[n - 1] <= g[n - 1] /\ f[n - 1] \in Nat /\ g[n - 1] \in Nat
    BY <2>3, <2>4 DEF Lists
  <2>6. S[n] <= T[n]
    BY <1>1, <2>2, <2>3, <2>5
  <2>7. QED
    BY <2>1, <2>6
<1>3. QED
  BY <1>2 DEF S, T

(* Sums over more entries are larger.                                      *)
LEMMA SumsGrow ==
    ASSUME NEW f \in Lists, NEW j \in Steps, NEW k \in Steps, j <= k
    PROVE  Sums(f)[j] <= Sums(f)[k]
<1> DEFINE S == Sums(f)
           bad == {m \in Steps : j <= m /\ ~ (S[j] <= S[m])}
<1>1. /\ \A m \in Steps : S[m] \in Nat
      /\ \A m \in Steps : m > 0 => S[m] = S[m - 1] + f[m - 1]
  BY SumsRec
<1> HIDE DEF S
<1>2. bad = {}
  <2> SUFFICES ASSUME bad # {} PROVE FALSE
    OBVIOUS
  <2>1. PICK n \in bad : \A m \in bad : n <= m
    <3>1. bad \subseteq Nat
      BY StepOf
    <3> HIDE DEF bad
    <3>2. QED
      BY <3>1, Least
  <2>2. n \in Steps /\ j <= n /\ n # j /\ j \in Nat /\ n \in Nat /\ n > 0
    BY <1>1, <2>1, StepOf
  <2>3. n - 1 \in Steps /\ n - 1 \in Ids /\ j <= n - 1 /\ ~ (n <= n - 1)
    BY <2>2, StepOf
  <2>4. n - 1 \notin bad
    BY <2>1, <2>3
  <2>5. S[j] <= S[n - 1] /\ f[n - 1] \in Nat
    BY <2>3, <2>4 DEF Lists
  <2>6. S[j] <= S[n]
    BY <1>1, <2>2, <2>3, <2>5
  <2>7. QED
    BY <2>1, <2>6
<1>3. QED
  BY <1>2 DEF S

(* One entry changes the sum by what it changes.                           *)
LEMMA SumsChange ==
    ASSUME NEW f \in Lists, NEW g \in Lists, NEW d \in Ids, d < DatasetNumber,
           \A i \in Ids : i # d /\ i < DatasetNumber => g[i] = f[i]
    PROVE  Sums(g)[DatasetNumber] = Sums(f)[DatasetNumber] - f[d] + g[d]
<1> DEFINE S == Sums(f)
           T == Sums(g)
           bad == {m \in Steps : ~ (T[m] = S[m] + (IF m > d THEN g[d] - f[d] ELSE 0))}
<1>1. /\ \A m \in Steps : S[m] \in Nat /\ T[m] \in Nat
      /\ S[0] = 0 /\ T[0] = 0
      /\ \A m \in Steps : m > 0 => S[m] = S[m - 1] + f[m - 1] /\ T[m] = T[m - 1] + g[m - 1]
  BY SumsRec
<1>2. d \in Nat /\ f[d] \in Nat /\ g[d] \in Nat
  BY Naturals1 DEF Lists
<1> HIDE DEF S, T
<1>3. bad = {}
  <2> SUFFICES ASSUME bad # {} PROVE FALSE
    OBVIOUS
  <2>1. PICK n \in bad : \A m \in bad : n <= m
    <3>1. bad \subseteq Nat
      BY StepOf
    <3> HIDE DEF bad
    <3>2. QED
      BY <3>1, Least
  <2>2. n \in Steps /\ n \in Nat /\ n > 0
    BY <1>1, <1>2, <2>1, StepOf
  <2>3. n - 1 \in Steps /\ n - 1 \in Ids /\ n - 1 < DatasetNumber /\ ~ (n <= n - 1)
    BY <2>2, StepOf
  <2>4. T[n - 1] = S[n - 1] + (IF n - 1 > d THEN g[d] - f[d] ELSE 0)
    BY <2>1, <2>3
  <2>5. /\ f[n - 1] \in Nat /\ g[n - 1] \in Nat /\ (n - 1 # d => g[n - 1] = f[n - 1])
        /\ S[n] = S[n - 1] + f[n - 1] /\ T[n] = T[n - 1] + g[n - 1]
        /\ S[n - 1] \in Nat /\ T[n - 1] \in Nat
    BY <1>1, <2>2, <2>3 DEF Lists
  <2>6. T[n] = S[n] + (IF n > d THEN g[d] - f[d] ELSE 0)
    <3>1. CASE n - 1 = d
      BY <1>2, <2>2, <2>4, <2>5, <3>1
    <3>2. CASE n - 1 # d
      <4>1. n > d <=> n - 1 > d
        BY <1>2, <2>2, <3>2
      <4>2. QED
        BY <1>2, <2>4, <2>5, <3>2, <4>1
    <3>3. QED
      BY <3>1, <3>2
  <2>7. QED
    BY <2>1, <2>6
<1>4. DatasetNumber \in Steps
  BY Sizes1 DEF Steps
<1>5. T[DatasetNumber] = S[DatasetNumber] + (g[d] - f[d])
  BY <1>3, <1>4
<1>6. QED
  BY <1>1, <1>2, <1>4, <1>5 DEF S, T

-----------------------------------------------------------------------------
(* Records.                                                                *)

LEMMA LensFit ==
    ASSUME NEW i \in Ids, NEW l \in LensOf(i)
    PROVE  l \in 2 .. MaxLen /\ l \in Nat /\ l >= 2 /\ l <= MaxLen /\ l <= PageSize
<1>1. l \in 2 .. MaxLen
  BY Naturals1 DEF LensOf
<1>2. QED
  BY <1>1, Sizes1

LEMMA GensFit ==
    ASSUME NEW i \in Ids, NEW g \in GensOf(i)
    PROVE  g \in Gens \cup {0}
BY DEF GensOf

LEMMA PieceFields ==
    ASSUME NEW d, NEW l, NEW g, NEW s
    PROVE  /\ Piece(d, l, g, s).d = d /\ Piece(d, l, g, s).len = l /\ Piece(d, l, g, s).g = g
           /\ s = 0 => Piece(d, l, g, s).k = "hdr"
BY DEF Piece

LEMMA RecordFacts ==
    ASSUME NEW i \in Ids, NEW l \in LensOf(i), NEW g \in GensOf(i)
    PROVE  /\ Record(i, l, g).len = l /\ Record(i, l, g).len > 0
           /\ \A s \in Slots : Record(i, l, g).cell[s] = IF s < l THEN Piece(i, l, g, s) ELSE Blank
           /\ Record(i, l, g).cell[0] = Piece(i, l, g, 0)
           /\ Stored(Record(i, l, g)) = [len |-> l, g |-> g]
<1> DEFINE r == Record(i, l, g)
<1>1. l \in Nat /\ l >= 2
  BY LensFit
<1>2. /\ r.len = l
      /\ \A s \in Slots : r.cell[s] = IF s < l THEN Piece(i, l, g, s) ELSE Blank
  BY DEF Record
<1>3. r.cell[0] = Piece(i, l, g, 0)
  BY <1>1, <1>2, Naturals1
<1> HIDE DEF r
<1>4. Stored(r) = [len |-> l, g |-> g]
  <2>1. r.cell[0].g = g
    BY <1>3, PieceFields
  <2>2. QED
    BY <1>1, <1>2, <2>1 DEF Stored
<1>5. QED
  BY <1>1, <1>2, <1>3, <1>4 DEF r

LEMMA NoItemFacts == NoItem.len = 0 /\ Stored(NoItem) = NoAck /\ NoAck.len = 0 /\ NoAck.g = 0
BY DEF NoItem, Stored, NoAck

(* What is stored has the length of its identifier, and its first piece    *)
(* says so.                                                                *)
LEMMA StoredRecord ==
    ASSUME NEW i \in Ids, NEW x, IsRecord(i, x), x.len # 0
    PROVE  /\ i # 0 /\ x.len \in LensOf(i) /\ x.cell[0].g \in GensOf(i)
           /\ x = Record(i, x.len, x.cell[0].g)
           /\ x.cell[0].len = x.len
<1>1. PICK l \in LensOf(i), g \in GensOf(i) : x = Record(i, l, g)
  BY NoItemFacts DEF IsRecord
<1>2. i # 0
  BY NoItemFacts DEF IsRecord
<1>3. x.len = l /\ x.cell[0] = Piece(i, l, g, 0)
  BY <1>1, RecordFacts
<1>4. x.cell[0].g = g /\ x.cell[0].len = l
  BY <1>3, PieceFields
<1>5. QED
  BY <1>1, <1>2, <1>3, <1>4

LEMMA StoredLen ==
    ASSUME NEW i \in Ids, NEW x, IsRecord(i, x)
    PROVE  x.len \in Nat /\ x.len <= MaxLen /\ (x.len = 0 <=> x = NoItem)
<1>1. CASE x.len = 0
  BY <1>1, RecordFacts, NoItemFacts, Sizes1 DEF IsRecord
<1>2. CASE x.len # 0
  BY <1>2, StoredRecord, LensFit, NoItemFacts
<1>3. QED
  BY <1>1, <1>2

LEMMA MakeRecord ==
    ASSUME NEW i \in Ids, i # 0, NEW l \in LensOf(i), NEW g \in GensOf(i), NEW c,
           \A s \in Slots : s < l => c.buf[s] = Piece(i, l, g, s)
    PROVE  Buffered(c, l) = Record(i, l, g) /\ IsRecord(i, Buffered(c, l))
<1>1. Buffered(c, l) = Record(i, l, g)
  BY DEF Buffered, Record
<1>2. QED
  BY <1>1 DEF IsRecord

LEMMA WholePut ==
    ASSUME NEW n \in Stores, Whole(n), NEW d \in Ids, NEW x, IsRecord(d, x)
    PROVE  Whole([n EXCEPT ![d] = x])
<1>1. n = [i \in Ids |-> n[i]]
  BY DEF Stores
<1>2. \A i \in Ids : [n EXCEPT ![d] = x][i] = IF i = d THEN x ELSE n[i]
  BY <1>1
<1>3. QED
  BY <1>2 DEF Whole

(* The lengths in the flash and in the table.                              *)
LEMMA LensList ==
    ASSUME NEW n, Whole(n)
    PROVE  LensIn(n) \in Lists /\ \A i \in Ids : LensIn(n)[i] = n[i].len
BY StoredLen DEF LensIn, Lists, Whole

LEMMA TableList ==
    ASSUME NEW t \in TableType
    PROVE  LensIn(t) \in Lists /\ \A i \in Ids : LensIn(t)[i] = t[i].len
BY Entry DEF LensIn, Lists

LEMMA SameSums ==
    ASSUME NEW f \in Lists, NEW g \in Lists, \A i \in Ids : i < DatasetNumber => f[i] = g[i],
           NEW k \in Steps
    PROVE  Sums(f)[k] = Sums(g)[k]
<1>1. \A i \in Ids : i < DatasetNumber => f[i] \in Nat /\ g[i] \in Nat
  BY DEF Lists
<1>2. Sums(f)[k] <= Sums(g)[k] /\ Sums(g)[k] <= Sums(f)[k]
  BY <1>1, SumsLeq
<1>3. Sums(f)[k] \in Nat /\ Sums(g)[k] \in Nat
  BY SumsRec
<1>4. QED
  BY <1>2, <1>3

LEMMA LiveIs == LiveLen = Sums(LensIn(info))[DatasetNumber]
BY DEF LiveLen, LensIn

LEMMA LastStep == DatasetNumber \in Steps /\ 0 \in Steps /\ Room \in Int
BY Sizes1 DEF Steps, Room

(* Less in the flash than before fits where that did.                      *)
LEMMA StillFits ==
    ASSUME NEW n, Whole(n), NEW m, Whole(m), \A i \in Ids : n[i].len <= m[i].len,
           Sums(LensIn(m))[DatasetNumber] <= Room
    PROVE  Sums(LensIn(n))[DatasetNumber] <= Room
<1>1. LensIn(n) \in Lists /\ LensIn(m) \in Lists
      /\ \A i \in Ids : LensIn(n)[i] <= LensIn(m)[i]
  BY LensList
<1>2. Sums(LensIn(n))[DatasetNumber] <= Sums(LensIn(m))[DatasetNumber]
  BY <1>1, SumsLeq, LastStep
<1>3. Sums(LensIn(n))[DatasetNumber] \in Nat /\ Sums(LensIn(m))[DatasetNumber] \in Nat
  BY <1>1, SumsRec, LastStep
<1>4. QED
  BY <1>2, <1>3, LastStep

-----------------------------------------------------------------------------
(* Power failure.                                                          *)

LEMMA PowerStore ==
    ASSUME NvramInv, TableInv, NEW n \in Stores, NEW F, NEW w,
           Whole(n), \A i \in Ids : F[i] = Stored(n[i]),
           IsCalm(env) => Sums(LensIn(n))[DatasetNumber] <= Room,
           PowerFails(n, F, w)
    PROVE  StoreInv'
<1>1. /\ "gap" \in env \/ HeaderSafe(n)
      /\ nvs' = n /\ boot' = "headers" /\ scan' = ScanStart /\ info' = [i \in Ids |-> NoInfo]
      /\ cache' = BlankCache /\ reloc' = NoReloc /\ jobs' = [i \in Ids |-> NoJob]
      /\ acked' = F /\ env' = env
  BY DEF PowerFails
<1>2. /\ \A i \in Ids : jobs'[i].next = 0 /\ info'[i].len = 0 /\ info'[i].pos = 0
      /\ cache'.id = 0 /\ cache'.flush = FALSE /\ reloc'.len = 0 /\ reloc'.ds = -1
      /\ scan'.id = DatasetNumber
  BY <1>1 DEF NoJob, NoInfo, BlankCache, NoReloc, NotFound, ScanStart
<1>3. RecordInv'
  <2>1. \A i \in Ids : JobBuffered(i)'
    BY <1>2 DEF JobBuffered
  <2>2. \A i \in Ids : acked'[i] = Stored(nvs'[i])
    BY <1>1
  <2>3. reloc'.ds < DatasetNumber
    BY <1>2, Sizes1
  <2>4. Whole(nvs')
    BY <1>1
  <2>5. QED
    BY <1>2, <2>1, <2>2, <2>3, <2>4 DEF RecordInv
<1>4. ASSUME IsCalm(env') PROVE CalmInv'
  <2>1. HeaderSafe(nvs') /\ Sums(LensIn(nvs'))[DatasetNumber] <= Room
    BY <1>1, <1>4 DEF IsCalm
  <2>2. Synced'
    <3>1. 0 \in Ids /\ \A s \in Slots : ~ (s < 0)
      BY Naturals1
    <3>2. info'[cache'.id].len = 0 /\ boot' # "up"
      BY <1>1, <1>2, <3>1
    <3>3. QED
      BY <3>1, <3>2 DEF Synced
  <2>3. Filled'
    BY <1>1, <1>2, <2>1, Sizes1 DEF Filled
  <2>4. Placing'
    <3>1. \A i \in Ids : ~ (DatasetNumber <= i /\ i < DatasetNumber)
      BY Naturals1
    <3>2. QED
      BY <1>1, <1>2, <2>1, <3>1 DEF Placing
  <2>5. QED
    BY <2>2, <2>3, <2>4 DEF CalmInv
<1>5. QED
  BY <1>3, <1>4 DEF StoreInv

-----------------------------------------------------------------------------
(* The rebuilding of the table.                                            *)

LEMMA RecordQuiet ==
    ASSUME RecordInv, UNCHANGED <<nvs, jobs, cache, reloc, acked>>,
           \A i \in Ids : jobs[i].next > 0 => info'[i] = info[i]
    PROVE  RecordInv'
<1>1. \A i \in Ids : JobBuffered(i)'
  BY DEF RecordInv, JobBuffered, Holds
<1>2. Active' = Active
  BY DEF Active
<1>3. QED
  BY <1>1, <1>2 DEF RecordInv

(* While the table is rebuilt the buffer is empty.                         *)
LEMMA BootSynced ==
    ASSUME NvramInv, boot' # "up", cache' = cache, cache.id = 0, info'[0].len = 0
    PROVE  Synced'
<1>1. 0 \in Ids /\ \A s \in Slots : ~ (s < 0)
  BY Naturals1
<1>2. info'[cache'.id].len = 0
  OBVIOUS
<1>3. QED
  BY <1>1, <1>2 DEF Synced

LEMMA HeaderStore ==
    ASSUME NvramInv, TableInv, StoreInv, BootHeader
    PROVE  StoreInv'
<1> DEFINE i == scan.id
           e == [page |-> i - DatasetNumber, pos |-> 0, len |-> nvs[i].cell[0].len]
<1>1. /\ boot = "headers" /\ i \in Ids
      /\ info' = IF nvs[i].len > 0 THEN [info EXCEPT ![i] = e] ELSE info
      /\ scan' = [scan EXCEPT !.id = i + 1]
      /\ UNCHANGED <<boot, nvs, cache, reloc, jobs, acked, last, env>>
  BY DEF BootHeader
<1>2. Typed /\ Rebuilding /\ info \in TableType /\ scan \in ScanType /\ RecordInv /\ Whole(nvs)
  BY DEF TableInv, Typed, StoreInv, RecordInv
<1>3. /\ i >= DatasetNumber
      /\ \A j \in Ids : jobs[j].next = 0
      /\ \A j \in Ids : j < DatasetNumber \/ j >= i => info[j].len = 0
  BY <1>1, <1>2 DEF Rebuilding
<1>4. \A j \in Ids : j # i => info'[j] = info[j]
  BY <1>1, <1>2 DEF TableType
<1>5. info'[i].pos = 0 \/ info'[i] = info[i]
  BY <1>1, <1>2 DEF TableType
<1>6. info'[i].len = nvs[i].len /\ nvs[i].len <= MaxLen /\ nvs[i].len \in Nat
  <2>1. IsRecord(i, nvs[i])
    BY <1>1, <1>2 DEF Whole
  <2>2. nvs[i].len \in Nat /\ nvs[i].len <= MaxLen
    BY <1>1, <2>1, StoredLen
  <2>3. CASE nvs[i].len > 0
    <3>1. nvs[i].cell[0].len = nvs[i].len
      BY <1>1, <2>1, <2>3, StoredRecord
    <3>2. info'[i].len = nvs[i].cell[0].len
      BY <1>1, <1>2, <2>3 DEF TableType
    <3>3. QED
      BY <2>2, <3>1, <3>2
  <2>4. CASE nvs[i].len = 0
    <3>1. info[i].len = 0
      BY <1>1, <1>3, Naturals1
    <3>2. QED
      BY <1>1, <2>2, <2>4, <3>1
  <2>5. QED
    BY <2>2, <2>3, <2>4
<1>7. RecordInv'
  BY <1>1, <1>2, <1>3, RecordQuiet
<1>8. ASSUME IsCalm(env') PROVE CalmInv'
  <2>1. CalmInv
    BY <1>1, <1>8 DEF StoreInv
  <2>2. cache.id = 0 /\ HeaderSafe(nvs)
    BY <1>1, <2>1 DEF CalmInv, Placing
  <2>3. i \in Nat /\ i # 0 /\ 0 \in Ids
    BY <1>1, <1>3, Naturals1
  <2>4. Synced'
    BY <1>1, <1>4, <2>2, <2>3, BootSynced DEF NvramInv, Tables
  <2>5. Filled'
    <3>1. ASSUME NEW j \in Ids PROVE info'[j].pos + info'[j].len <= PageSize
      <4>1. CASE info'[j] = info[j]
        BY <2>1, <4>1 DEF CalmInv, Filled
      <4>2. CASE j = i /\ info'[i].pos = 0
        BY <1>6, <4>2, Sizes1
      <4>3. QED
        BY <1>4, <1>5, <4>1, <4>2
    <3>2. ASSUME NEW j \in Ids, j < DatasetNumber PROVE info'[j] = info[j]
      BY <1>3, <1>4, <2>3, <3>2, Naturals1
    <3>3. QED
      BY <1>1, <2>1, <3>1, <3>2 DEF CalmInv, Filled
  <2>6. Placing'
    <3>1. scan'.id = i + 1
      BY <1>1, <1>2 DEF ScanType
    <3>2. ASSUME NEW j \in Ids, DatasetNumber <= j, j < i + 1 PROVE info'[j].len = nvs[j].len
      <4>1. CASE j = i
        BY <1>6, <4>1
      <4>2. CASE j # i
        <5>1. j < i
          BY <2>3, <3>2, <4>2, Naturals1
        <5>2. QED
          BY <1>1, <1>4, <2>1, <3>2, <4>2, <5>1 DEF CalmInv, Placing
      <4>3. QED
        BY <4>1, <4>2
    <3>3. QED
      BY <1>1, <2>2, <3>1, <3>2 DEF Placing
  <2>7. QED
    BY <2>4, <2>5, <2>6 DEF CalmInv
<1>9. QED
  BY <1>7, <1>8 DEF StoreInv

LEMMA HeadersDoneStore ==
    ASSUME NvramInv, TableInv, StoreInv, BootHeadersDone
    PROVE  StoreInv'
<1> DEFINE h == info[PageHdr(0)]
<1>1. /\ boot = "headers" /\ scan.id \notin Ids
      /\ \/ /\ h.pos + h.len # 0
            /\ boot' = "datasets" /\ scan' = [id |-> 0, page |-> 0, pos |-> h.pos + h.len]
         \/ h.pos + h.len = 0 /\ boot' = "up" /\ scan' = ScanStart
      /\ UNCHANGED <<info, nvs, cache, reloc, jobs, free, acked, last, env>>
  BY DEF BootHeadersDone
<1>2. Typed /\ Rebuilding /\ info \in TableType /\ scan \in ScanType /\ RecordInv /\ Whole(nvs)
      /\ Within(info, free)
  BY DEF TableInv, Typed, StoreInv, RecordInv
<1>3. /\ \A j \in Ids : jobs[j].next = 0
      /\ \A j \in Ids : j < DatasetNumber => info[j].len = 0
  BY <1>1, <1>2 DEF Rebuilding
<1>4. PageHdr(0) \in Ids /\ PageHdr(0) = DatasetNumber /\ h.pos = 0 /\ h.len \in Nat
  <2>1. PageHdr(0) \in Ids /\ 0 \in Pages /\ PageHdr(0) = DatasetNumber
    BY Naturals1, Sizes1
  <2>2. QED
    BY <1>2, <2>1, Entry DEF Within
<1>5. RecordInv'
  BY <1>1, <1>2, RecordQuiet
<1>6. ASSUME IsCalm(env') PROVE CalmInv'
  <2>1. CalmInv
    BY <1>1, <1>6 DEF StoreInv
  <2>2. cache.id = 0 /\ HeaderSafe(nvs) /\ info[0].len = 0 /\ nvs[0] = NoItem
    BY <1>1, <2>1 DEF CalmInv, Placing, NvramInv, Tables, Flashes
  <2>3. \A j \in Ids : DatasetNumber <= j => info[j].len = nvs[j].len
    <3>1. \A j \in Ids : j < scan.id
      <4>1. scan.id \in Nat
        BY <1>2, Sizes1 DEF ScanType
      <4>2. scan.id >= DatasetNumber
        BY <1>1, <1>2 DEF Rebuilding
      <4>3. scan.id > DatasetNumber + PageCount - 1
        BY <1>1, <4>1, Sizes1 DEF Ids
      <4>4. QED
        BY <4>1, <4>3, Sizes1 DEF Ids
    <3>2. QED
      BY <1>1, <2>1, <3>1 DEF CalmInv, Placing
  <2>4. CASE boot' = "datasets"
    <3>1. Synced'
      BY <1>1, <2>2, <2>4, BootSynced
    <3>2. Filled'
      BY <1>1, <2>1, <2>4 DEF CalmInv, Filled
    <3>3. Placing'
      <4>1. h.len = HdrLen
        <5>1. h.len = nvs[PageHdr(0)].len /\ h.len # 0
          BY <1>1, <1>4, <2>3, <2>4, Sizes1
        <5>2. IsRecord(PageHdr(0), nvs[PageHdr(0)])
          BY <1>2, <1>4 DEF Whole
        <5>3. nvs[PageHdr(0)].len \in LensOf(PageHdr(0))
          BY <1>4, <5>1, <5>2, StoredRecord
        <5>4. PageHdr(0) \notin Types
          BY <1>4, Sizes1 DEF Types
        <5>5. QED
          BY <5>1, <5>3, <5>4 DEF LensOf
      <4>2. Sums(LensIn(nvs))[0] = 0
        BY <1>2, LensList, SumsRec
      <4>3. scan'.page = 0 /\ scan'.id = 0 /\ scan'.pos = HdrLen
        BY <1>1, <1>4, <2>4, <4>1
      <4>4. HdrLen = HdrLen + Sums(LensIn(nvs))[0]
        BY <4>2, Sizes1
      <4>5. ASSUME NEW j \in Ids, DatasetNumber <= j \/ j < 0 PROVE info'[j].len = nvs'[j].len
        BY <1>1, <2>3, <4>5, Naturals1
      <4>6. QED
        BY <1>1, <2>2, <2>4, <4>3, <4>4, <4>5 DEF Placing
    <3>4. QED
      BY <3>1, <3>2, <3>3 DEF CalmInv
  <2>5. CASE boot' = "up"
    <3>1. h.len = 0
      BY <1>1, <1>4, <2>5
    <3>2. \A d \in Types : nvs[d].len = 0
      <4>1. nvs[PageHdr(0)].len = 0
        BY <1>4, <2>3, <3>1, Sizes1
      <4>2. QED
        BY <2>2, <4>1 DEF HeaderSafe
    <3>3. ASSUME NEW j \in Ids PROVE info'[j].len = nvs'[j].len
      <4>1. CASE j \in Types \/ j = 0
        <5>1. j < DatasetNumber
          BY <4>1, Sizes1 DEF Types
        <5>2. QED
          BY <1>1, <1>3, <2>2, <3>2, <4>1, <5>1, NoItemFacts
      <4>2. CASE ~ (j \in Types \/ j = 0)
        <5>1. DatasetNumber <= j
          BY <4>2, Naturals1 DEF Types
        <5>2. QED
          BY <1>1, <2>3, <5>1
      <4>3. QED
        BY <4>1, <4>2
    <3>4. Synced'
      <4>1. 0 \in Ids /\ \A s \in Slots : ~ (s < 0)
        BY Naturals1
      <4>2. info'[cache'.id].len = 0
        BY <1>1, <2>2
      <4>3. QED
        BY <3>3, <4>1, <4>2 DEF Synced
    <3>5. Filled'
      <4>1. LensIn(info') = LensIn(nvs')
        BY <3>3 DEF LensIn
      <4>2. LiveLen' = Sums(LensIn(info'))[DatasetNumber]
        BY DEF LiveLen, LensIn
      <4>3. QED
        BY <1>1, <2>1, <4>1, <4>2 DEF CalmInv, Filled
    <3>6. Placing'
      BY <2>5 DEF Placing
    <3>7. QED
      BY <3>4, <3>5, <3>6 DEF CalmInv
  <2>6. QED
    BY <1>1, <2>4, <2>5
<1>7. QED
  BY <1>5, <1>6 DEF StoreInv

(* A stored dataset goes behind the header of page 0 and those before it,  *)
(* and ends in that page.                                                  *)
LEMMA DatasetPlaced ==
    ASSUME NvramInv, TableInv, StoreInv, IsCalm(env), boot = "datasets",
           scan.id \in Ids, scan.id < DatasetNumber, nvs[scan.id].len # 0
    PROVE  /\ scan.id # 0 /\ nvs[scan.id].cell[0].len = nvs[scan.id].len
           /\ scan.page = 0 /\ scan.pos \in Nat /\ scan.pos > 0
           /\ BootEnd(scan.id) = scan.pos + nvs[scan.id].len
           /\ BootEnd(scan.id) = HdrLen + Sums(LensIn(nvs))[scan.id + 1]
           /\ BootEnd(scan.id) <= PageSize
           /\ BootEnd(scan.id) = PageSize => Sums(LensIn(nvs))[scan.id + 1] = Room
<1> DEFINE i == scan.id
           S == Sums(LensIn(nvs))
           x == nvs[i]
<1>1. Whole(nvs) /\ Placing /\ S[DatasetNumber] <= Room
  BY DEF StoreInv, RecordInv, CalmInv, Filled
<1>2. i # 0
  BY NoItemFacts DEF NvramInv, Flashes
<1>3. x.cell[0].len = x.len /\ x.len \in Nat
  <2>1. IsRecord(i, x)
    BY <1>1 DEF Whole
  <2>2. QED
    BY <2>1, StoredRecord, StoredLen
<1>4. LensIn(nvs) \in Lists /\ LensIn(nvs)[i] = x.len
  BY <1>1, LensList
<1>5. i \in Nat /\ i \in Steps /\ i + 1 \in Steps /\ i + 1 > 0 /\ (i + 1) - 1 = i
      /\ i + 1 <= DatasetNumber
  BY Sizes1 DEF Ids, Steps
<1>6. S[i] \in Nat /\ S[i + 1] \in Nat /\ S[i + 1] = S[i] + x.len
  BY <1>4, <1>5, SumsRec
<1>7. S[i + 1] <= S[DatasetNumber] /\ S[DatasetNumber] \in Nat
  BY <1>4, <1>5, LastStep, SumsGrow, SumsRec
<1>8. \/ scan.page = 0 /\ scan.pos = HdrLen + S[i]
      \/ scan.page = 1 /\ S[i] = Room
  BY <1>1 DEF Placing
<1>9. BootEnd(i) = scan.pos + x.cell[0].len
  BY DEF BootEnd
<1> HIDE DEF i, S, x
<1>10. S[i + 1] <= Room
  BY <1>1, <1>6, <1>7, LastStep
<1>11. scan.page = 0 /\ scan.pos = HdrLen + S[i]
  <2>1. S[i] # Room
    BY <1>3, <1>6, <1>10 DEF i, x
  <2>2. QED
    BY <1>8, <2>1
<1>12. scan.pos \in Nat /\ scan.pos > 0 /\ BootEnd(i) = HdrLen + S[i + 1]
  BY <1>3, <1>6, <1>9, <1>11, Sizes1
<1>13. BootEnd(i) <= PageSize /\ (BootEnd(i) = PageSize => S[i + 1] = Room)
  BY <1>6, <1>10, <1>12, Sizes1 DEF Room
<1>14. QED
  BY <1>2, <1>3, <1>9, <1>11, <1>12, <1>13 DEF i, S, x

LEMMA DatasetStore ==
    ASSUME NvramInv, TableInv, StoreInv, BootDataset
    PROVE  StoreInv' /\ (IsCalm(env) /\ boot' = "fatal" => PageCount < 2)
<1> DEFINE i == scan.id
           p == scan.page
           l == nvs[i].cell[0].len
           end == BootEnd(i)
           e == [page |-> p, pos |-> scan.pos, len |-> l]
           S == Sums(LensIn(nvs))
<1>1. /\ boot = "datasets" /\ i < DatasetNumber
      /\ UNCHANGED <<nvs, cache, reloc, jobs, acked, last, env>>
  BY DEF BootDataset
<1>2. /\ Typed /\ info \in TableType /\ scan \in ScanType /\ RecordInv /\ Whole(nvs)
      /\ \A j \in Ids : jobs[j].next = 0
      /\ \A j \in Ids : i <= j /\ j < DatasetNumber => info[j].len = 0
  BY <1>1 DEF TableInv, Typed, Rebuilding, StoreInv, RecordInv
<1>3. i \in Ids /\ i \in Nat /\ 0 \in Ids
  <2>1. i \in Nat
    BY <1>2, Sizes1 DEF ScanType
  <2>2. QED
    BY <1>1, <2>1, Sizes1 DEF Ids
<1>4. RecordInv'
  BY <1>1, <1>2, RecordQuiet
<1>5. ASSUME IsCalm(env) PROVE CalmInv /\ cache.id = 0 /\ HeaderSafe(nvs) /\ info[0].len = 0
  BY <1>1, <1>5 DEF StoreInv, CalmInv, Placing, NvramInv, Tables
<1>6. \A j \in Ids : j < i + 1 => j < i \/ j = i
  BY <1>3, Naturals1
<1>7. CASE nvs[i].len = 0
  <2>1. scan' = [scan EXCEPT !.id = i + 1] /\ UNCHANGED <<boot, info, free>>
    BY <1>7 DEF BootDataset
  <2>2. scan'.id = i + 1 /\ scan'.page = p /\ scan'.pos = scan.pos
    BY <1>2, <2>1 DEF ScanType
  <2>3. ASSUME IsCalm(env) PROVE CalmInv'
    <3>1. Synced'
      BY <1>1, <1>5, <2>1, <2>3, BootSynced
    <3>2. Filled'
      BY <1>1, <1>5, <2>1, <2>3 DEF CalmInv, Filled, LiveLen
    <3>3. Placing'
      <4>1. i + 1 \in Steps /\ i + 1 > 0 /\ (i + 1) - 1 = i /\ i \in Steps
        BY <1>1, <1>3, Sizes1 DEF Steps
      <4>2. LensIn(nvs) \in Lists /\ LensIn(nvs)[i] = 0
        BY <1>2, <1>3, <1>7, LensList
      <4>3. S[i + 1] = S[i] + 0 /\ S[i] \in Nat
        BY <4>1, <4>2, SumsRec
      <4>4. S[i + 1] = S[i]
        BY <4>3
      <4>5. ASSUME NEW j \in Ids, DatasetNumber <= j \/ j < i + 1 PROVE info[j].len = nvs[j].len
        <5>1. CASE j = i
          BY <1>1, <1>2, <1>3, <1>7, <5>1
        <5>2. CASE DatasetNumber <= j \/ j < i
          BY <1>1, <1>5, <2>3, <5>2 DEF CalmInv, Placing
        <5>3. QED
          BY <1>6, <4>5, <5>1, <5>2
      <4>6. \/ p = 0 /\ scan.pos = HdrLen + S[i]
            \/ p = 1 /\ S[i] = Room
        BY <1>1, <1>5, <2>3 DEF CalmInv, Placing
      <4>7. QED
        BY <1>1, <1>5, <2>1, <2>2, <2>3, <4>4, <4>5, <4>6 DEF Placing
    <3>4. QED
      BY <3>1, <3>2, <3>3 DEF CalmInv
  <2>4. QED
    BY <1>1, <1>4, <2>1, <2>3 DEF StoreInv
<1>8. CASE nvs[i].len # 0
  <2>1. /\ info' = [info EXCEPT ![i] = e]
        /\ \/ scan' = [scan EXCEPT !.id = i + 1, !.pos = end] /\ boot' = boot /\ ~ Invalid(end)
           \/ /\ p + 1 \in Pages /\ boot' = boot /\ Invalid(end)
              /\ scan' = [id |-> i + 1, page |-> p + 1,
                          pos |-> info[PageHdr(p + 1)].pos + info[PageHdr(p + 1)].len]
           \/ boot' = "fatal" /\ p + 1 \notin Pages
    BY <1>8 DEF BootDataset
  <2>2. info'[i] = e /\ \A j \in Ids : j # i => info'[j] = info[j]
    BY <1>2, <1>3, <2>1 DEF TableType
  <2>3. ASSUME IsCalm(env)
        PROVE  /\ i # 0 /\ l = nvs[i].len /\ p = 0 /\ scan.pos \in Nat /\ scan.pos > 0
               /\ end = scan.pos + nvs[i].len /\ end = HdrLen + S[i + 1] /\ end <= PageSize
               /\ end = PageSize => S[i + 1] = Room
    BY <1>1, <1>3, <1>8, <2>3, DatasetPlaced
  <2>4. e.page = p /\ e.pos = scan.pos /\ e.len = l
    OBVIOUS
  <2> HIDE DEF e, l, end, S
  <2>5. ASSUME IsCalm(env) PROVE CalmInv'
    <3>1. Synced'
      BY <1>1, <1>3, <1>5, <2>1, <2>2, <2>3, <2>5, BootSynced
    <3>2. Filled'
      <4>1. ASSUME NEW j \in Ids
            PROVE  /\ info'[j].pos + info'[j].len <= PageSize
                   /\ j < DatasetNumber /\ info'[j].len > 0 => info'[j].pos > 0
        <5>1. CASE j = i
          BY <2>2, <2>3, <2>4, <2>5, <5>1
        <5>2. CASE j # i
          BY <1>5, <2>2, <2>5, <5>2 DEF CalmInv, Filled
        <5>3. QED
          BY <5>1, <5>2
      <4>2. boot' # "up"
        BY <1>1, <2>1
      <4>3. QED
        BY <1>1, <1>5, <2>5, <4>1, <4>2 DEF CalmInv, Filled
    <3>3. Placing'
      <4>1. ASSUME NEW j \in Ids, DatasetNumber <= j \/ j < i + 1 PROVE info'[j].len = nvs[j].len
        <5>1. CASE j = i
          BY <2>2, <2>3, <2>4, <2>5, <5>1
        <5>2. CASE j # i
          BY <1>1, <1>5, <1>6, <2>2, <2>5, <4>1, <5>2 DEF CalmInv, Placing
        <5>3. QED
          BY <5>1, <5>2
      <4>2. CASE scan' = [scan EXCEPT !.id = i + 1, !.pos = end] /\ boot' = boot /\ ~ Invalid(end)
        <5>1. scan'.id = i + 1 /\ scan'.page = 0 /\ scan'.pos = HdrLen + S[i + 1]
          BY <1>2, <2>3, <2>5, <4>2 DEF ScanType
        <5>2. QED
          BY <1>1, <1>5, <2>5, <4>1, <4>2, <5>1 DEF Placing, S
      <4>3. CASE /\ p + 1 \in Pages /\ boot' = boot /\ Invalid(end)
                 /\ scan' = [id |-> i + 1, page |-> p + 1,
                             pos |-> info[PageHdr(p + 1)].pos + info[PageHdr(p + 1)].len]
        <5>1. scan'.id = i + 1 /\ scan'.page = 1
          BY <2>3, <2>5, <4>3
        <5>2. end = PageSize
          <6>1. end \in Int
            <7>1. nvs[i].len \in Nat
              BY <1>2, <1>3, StoredLen DEF Whole
            <7>2. QED
              BY <2>3, <2>5, <7>1
          <6>2. QED
            BY <2>3, <2>5, <4>3, <6>1, Sizes1 DEF Invalid
        <5>3. S[i + 1] = Room
          BY <2>3, <2>5, <5>2
        <5>4. QED
          BY <1>1, <1>5, <2>5, <4>1, <4>3, <5>1, <5>3 DEF Placing, S
      <4>4. CASE boot' = "fatal"
        BY <1>1, <1>5, <2>5, <4>4 DEF Placing
      <4>5. QED
        BY <2>1, <4>2, <4>3, <4>4
    <3>4. QED
      BY <3>1, <3>2, <3>3 DEF CalmInv
  <2>6. ASSUME IsCalm(env), boot' = "fatal" PROVE PageCount < 2
    <3>1. 0 + 1 \notin Pages
      BY <1>1, <2>1, <2>3, <2>6
    <3>2. QED
      BY <3>1, Sizes1 DEF Pages
  <2>7. QED
    BY <1>1, <1>4, <2>5, <2>6 DEF StoreInv
<1>9. QED
  BY <1>7, <1>8

LEMMA DoneStore ==
    ASSUME NvramInv, TableInv, StoreInv, BootDone
    PROVE  StoreInv'
<1>1. /\ boot = "datasets" /\ scan.id = DatasetNumber /\ boot' = "up"
      /\ UNCHANGED <<info, nvs, cache, reloc, jobs, free, acked, last, env>>
  BY DEF BootDone
<1>2. Typed /\ info \in TableType /\ RecordInv /\ \A j \in Ids : jobs[j].next = 0
  BY <1>1 DEF TableInv, Typed, Rebuilding, StoreInv
<1>3. RecordInv'
  BY <1>1, <1>2, RecordQuiet
<1>4. ASSUME IsCalm(env') PROVE CalmInv'
  <2>1. CalmInv /\ cache.id = 0 /\ info[0].len = 0 /\ 0 \in Ids
    BY <1>1, <1>4, Naturals1 DEF StoreInv, CalmInv, Placing, NvramInv, Tables
  <2>2. ASSUME NEW j \in Ids PROVE info[j].len = nvs[j].len
    <3>1. DatasetNumber <= j \/ j < DatasetNumber
      BY Naturals1
    <3>2. QED
      BY <1>1, <2>1, <3>1 DEF CalmInv, Placing
  <2>3. Synced'
    <3>1. \A s \in Slots : ~ (s < 0)
      BY Naturals1
    <3>2. QED
      BY <1>1, <2>1, <2>2, <3>1 DEF Synced
  <2>4. Filled'
    <3>1. LensIn(info) = LensIn(nvs)
      BY <2>2 DEF LensIn
    <3>2. LiveLen' = Sums(LensIn(info'))[DatasetNumber]
      BY DEF LiveLen, LensIn
    <3>3. QED
      BY <1>1, <2>1, <3>1, <3>2 DEF CalmInv, Filled
  <2>5. Placing'
    BY <1>1 DEF Placing
  <2>6. QED
    BY <2>3, <2>4, <2>5 DEF CalmInv
<1>5. QED
  BY <1>3, <1>4 DEF StoreInv

-----------------------------------------------------------------------------
(* Power failure during a call that writes one record at most.             *)

LEMMA SettledNow ==
    ASSUME Settled, Typed
    PROVE  /\ "interleave" \notin env /\ "midway" \notin env /\ "deinit" \notin env
           /\ "blind" \notin env
           /\ IsCalm(env) \/ "copy" \notin env
           /\ "flashfail" \in env => ~ IsCalm(env)
BY DEF Settled, Typed, IsCalm

(* The record being written was promised its room.                         *)
LEMMA WriteFits ==
    ASSUME TableInv, StoreInv, IsCalm(env), boot = "up", NEW i \in Ids, Active \subseteq {i},
           NEW x, IsRecord(i, x), x.len <= info[i].len, NEW n, n = [nvs EXCEPT ![i] = x]
    PROVE  Sums(LensIn(n))[DatasetNumber] <= Room
<1>1. /\ nvs \in Stores /\ info \in TableType /\ Whole(nvs)
      /\ jobs \in [Ids -> JobType] /\ CalmInv
  BY DEF TableInv, Typed, StoreInv, RecordInv
<1>2. Whole(n) /\ n[i] = x /\ \A j \in Ids : j # i => n[j] = nvs[j]
  BY <1>1, WholePut DEF Stores
<1>3. \A j \in Ids : info[j].len \in Nat
  BY <1>1, Entry
<1>4. ASSUME NEW j \in Ids, j # i PROVE n[j].len = info[j].len
  <2>1. jobs[j].next = 0
    <3>1. ~ (jobs[j].next > 0)
      BY <1>4 DEF Active
    <3>2. jobs[j].next \in Nat
      BY <1>1, Sizes1 DEF JobType
    <3>3. QED
      BY <3>1, <3>2
  <2>2. info[j].len = nvs[j].len
    BY <1>1, <2>1 DEF CalmInv, Synced
  <2>3. QED
    BY <1>2, <1>4, <2>2
<1>5. \A j \in Ids : n[j].len <= info[j].len
  BY <1>2, <1>3, <1>4
<1>6. LensIn(n) \in Lists /\ LensIn(info) \in Lists
      /\ \A j \in Ids : LensIn(n)[j] <= LensIn(info)[j]
  BY <1>1, <1>2, <1>5, LensList, TableList
<1>7. Sums(LensIn(n))[DatasetNumber] <= LiveLen
  BY <1>6, SumsLeq, LastStep, LiveIs
<1>8. Sums(LensIn(n))[DatasetNumber] \in Nat /\ LiveLen \in Nat /\ LiveLen <= Room
  BY <1>1, <1>6, SumsRec, LastStep, LiveIs DEF CalmInv, Filled
<1>9. QED
  BY <1>7, <1>8, LastStep

(* The core counts on what the flash holds: what may be there instead of   *)
(* the version it counted on is among the versions it allows for.          *)
LEMMA Resolves ==
    ASSUME RecordInv, NEW i \in Ids, NEW n, NEW may, n[i] = nvs[i] \/ Stored(n[i]) \in may
    PROVE  Resolved(i, n, may) = Stored(n[i])
BY DEF Resolved, RecordInv

LEMMA PowerOf ==
    ASSUME NvramInv, TableInv, StoreInv, NEW F, NEW w,
           NEW i \in Ids, NEW x \in ItemType, x.cell \in Rows, IsRecord(i, x),
           NEW n, n = nvs \/ n = [nvs EXCEPT ![i] = x],
           IsCalm(env) /\ n # nvs =>
              x.len <= nvs[i].len \/ (x.len <= info[i].len /\ boot = "up" /\ Active \subseteq {i}),
           F = [acked EXCEPT ![i] = Stored(n[i])],
           PowerFails(n, F, w)
    PROVE  StoreInv'
<1>1. /\ nvs \in Stores /\ info \in TableType /\ Whole(nvs) /\ RecordInv
      /\ acked \in [Ids -> AckType] /\ \A j \in Ids : acked[j] = Stored(nvs[j])
  BY DEF TableInv, Typed, StoreInv, RecordInv
<1>2. n \in Stores /\ Whole(n)
  BY <1>1, PutStore, WholePut
<1>3. \A j \in Ids : j # i => n[j] = nvs[j]
  BY <1>1 DEF Stores
<1>4. n = nvs \/ n[i] = x
  BY <1>1 DEF Stores
<1>5. \A j \in Ids : F[j] = Stored(n[j])
  BY <1>1, <1>3
<1>6. ASSUME IsCalm(env) PROVE Sums(LensIn(n))[DatasetNumber] <= Room
  <2>1. Sums(LensIn(nvs))[DatasetNumber] <= Room /\ (boot = "up" => LiveLen <= Room)
    BY <1>6 DEF StoreInv, CalmInv, Filled
  <2>2. \A j \in Ids : n[j].len \in Nat /\ nvs[j].len \in Nat
    BY <1>1, <1>2, StoredLen DEF Whole
  <2>3. CASE n = nvs
    BY <2>1, <2>3
  <2>4. CASE n # nvs /\ x.len <= nvs[i].len
    <3>1. \A j \in Ids : n[j].len <= nvs[j].len
      BY <1>3, <1>4, <2>2, <2>4
    <3>2. QED
      BY <1>1, <1>2, <2>1, <3>1, StillFits
  <2>5. CASE n # nvs /\ x.len <= info[i].len /\ boot = "up" /\ Active \subseteq {i}
    BY <1>6, <2>5, WriteFits
  <2>6. QED
    BY <1>6, <2>3, <2>4, <2>5
<1>7. QED
  BY <1>2, <1>5, <1>6, PowerStore

(* Power fails while the flash is as it was.                               *)
LEMMA PowerIdle ==
    ASSUME NvramInv, TableInv, StoreInv, NEW w, PowerFails(nvs, acked, w)
    PROVE  StoreInv'
<1>1. /\ nvs \in Stores /\ Whole(nvs) /\ \A j \in Ids : acked[j] = Stored(nvs[j])
      /\ IsCalm(env) => Sums(LensIn(nvs))[DatasetNumber] <= Room
  BY DEF TableInv, Typed, StoreInv, RecordInv, CalmInv, Filled
<1>2. QED
  BY <1>1, PowerStore

LEMMA CrashStore ==
    ASSUME NvramInv, TableInv, StoreInv, Crash
    PROVE  StoreInv'
BY PowerIdle DEF Crash

-----------------------------------------------------------------------------
(* Nothing is in flight: the buffer holds nothing the flash does not.      *)

LEMMA Idle ==
    ASSUME TableInv, RecordInv, Active = {}
    PROVE  /\ cache.flush = FALSE
           /\ \A j \in Ids : jobs[j].next = 0 /\ acked[j] = Stored(nvs[j])
           /\ \A n, t : Flushed(n, cache, t) = n /\ FlushStops(n, cache, t) = {n}
<1>1. cache.flush = FALSE
  BY DEF RecordInv, TableInv, Typed, Caches
<1>2. ASSUME NEW j \in Ids PROVE jobs[j].next = 0 /\ acked[j] = Stored(nvs[j])
  <2>1. ~ (jobs[j].next > 0)
    BY DEF Active
  <2>2. jobs[j].next \in Nat
    BY Sizes1 DEF TableInv, Typed, JobType
  <2>3. QED
    BY <2>1, <2>2 DEF RecordInv
<1>3. QED
  BY <1>1, <1>2 DEF Flushed, FlushStops, FlushFails

(* A dataset whose length is not about to change is in the buffer as it    *)
(* is in the flash once it is loaded.                                      *)
LEMMA LoadedWhole ==
    ASSUME TableInv, RecordInv, CalmInv, boot = "up", Active = {},
           NEW d \in Ids, NEW t \in TableType, t[d].len = info[d].len
    PROVE  \A s \in Slots : s < info[d].len => Loaded(nvs, cache, t, d, 0).buf[s] = nvs[d].cell[s]
<1>1. jobs[d].next = 0 /\ info[d].len = nvs[d].len /\ info[d].len \in Nat
  BY Idle, Entry DEF CalmInv, Synced, TableInv, Typed
<1>2. CASE cache.id = d
  BY <1>2 DEF CalmInv, Synced, Loaded
<1>3. CASE cache.id # d
  <2>1. ReadLen(t, d, 0) = info[d].len
    BY DEF ReadLen
  <2>2. nvs[d].len >= info[d].len
    BY <1>1
  <2>3. QED
    BY <1>3, <2>1, <2>2 DEF Loaded
<1>4. QED
  BY <1>2, <1>3

-----------------------------------------------------------------------------
(* The core begins a record.                                               *)

(* The table the header leaves behind, and what is found in it.            *)
LEMMA BeginPlaces ==
    ASSUME NvramInv, TableInv, NEW i \in Ids, NEW L \in LensOf(i), NEW g \in GensOf(i),
           NEW p \in Pages, NEW o \in Nat, o >= free[p], o + L <= PageSize,
           \A q \in Pages : PageHdr(q) = i => o = 0 /\ p = q,
           NEW c, c = Piece(i, L, g, 0)
    PROVE  /\ c.k = "hdr" /\ c.d = i /\ c.len = L /\ c.g = g /\ c.k # "tail"
           /\ BuildInfo(c, p, o) = [info EXCEPT ![i] = [page |-> p, pos |-> o, len |-> L]]
           /\ BuildInfo(c, p, o) \in TableType
           /\ BuildInfo(c, p, o)[i] = [page |-> p, pos |-> o, len |-> L]
           /\ \A j \in Ids : j # i => BuildInfo(c, p, o)[j] = info[j]
           /\ Target(c, p, o) = i /\ Offset(c, p, o) = 0 /\ ~ IsTail(c, p, o)
           /\ i # NotFound
<1> DEFINE e == [page |-> p, pos |-> o, len |-> L]
           u == [info EXCEPT ![i] = e]
           r == [free EXCEPT ![p] = o + L]
<1>1. Typed /\ Disjoint(info) /\ Within(info, free) /\ info \in TableType /\ free \in FreeType
  BY DEF TableInv, Typed
<1>2. L \in Nat /\ L >= 2 /\ L <= MaxLen /\ L \in 0 .. MaxLen /\ o \in 0 .. PageSize
  <2>1. L \in Nat /\ L >= 2 /\ L <= MaxLen
    BY LensFit
  <2>2. QED
    BY <2>1, Sizes1
<1>3. e \in InfoType /\ e.page = p /\ e.pos = o /\ e.len = L
  BY <1>2 DEF InfoType
<1>4. c.k = "hdr" /\ c.d = i /\ c.len = L /\ c.g = g
  BY PieceFields
<1>5. BuildInfo(c, p, o) = u
  BY <1>4 DEF BuildInfo
<1>6. r \in FreeType /\ r[p] = o + L /\ \A q \in Pages : q # p => r[q] = free[q]
  <2>1. o + L \in 0 .. (PageSize + MaxLen)
    BY <1>2, Sizes1
  <2>2. QED
    BY <1>1, <2>1 DEF FreeType
<1> HIDE DEF e, r
<1>7. u \in TableType /\ Disjoint(u)
  <2>1. e.pos >= free[e.page] /\ r[e.page] = e.pos + e.len
        /\ (\A q \in Pages : q # e.page => r[q] = free[q])
        /\ (\A q \in Pages : PageHdr(q) = i => e.pos = 0 /\ e.page = q)
    BY <1>3, <1>6
  <2>2. QED
    BY <1>1, <1>3, <1>6, <2>1, PlaceBehind
<1>8. u[i] = e /\ \A j \in Ids : j # i => u[j] = info[j]
  BY <1>1 DEF TableType
<1> HIDE DEF u
<1>9. Target(c, p, o) = i
  <2>1. Covers(u[i], p, o)
    BY <1>2, <1>3, <1>8 DEF Covers
  <2>2. QED
    BY <1>5, <1>7, <2>1, FindIt DEF Target
<1>10. Offset(c, p, o) = 0
  BY <1>3, <1>5, <1>8, <1>9 DEF Offset
<1>11. ~ IsTail(c, p, o)
  BY <1>2, <1>3, <1>5, <1>8, <1>9, <1>10 DEF IsTail
<1>12. i # NotFound
  BY Naturals1 DEF NotFound
<1>13. QED
  BY <1>4, <1>5, <1>7, <1>8, <1>9, <1>10, <1>11, <1>12 DEF e, u

(* What the header of a record leaves in the relocation.                   *)
LEMMA BeginReloc ==
    ASSUME NvramInv, TableInv, RecordInv, NEW i \in Ids, NEW c, NEW p, NEW o,
           c.k = "hdr", c.d = i, reloc.ds = NotFound \/ i >= DatasetNumber
    PROVE  /\ BuildReloc(c, p, o).len = reloc.len /\ BuildReloc(c, p, o).off = reloc.off
           /\ BuildReloc(c, p, o).ds \in {i, reloc.ds} /\ BuildReloc(c, p, o).ds < DatasetNumber
           /\ BuildReloc(c, p, o).ds = NotFound => reloc.ds = NotFound
           /\ reloc.len = 0 \/ BuildReloc(c, p, o).ds # i
           /\ Moved(info[i], p, o, c.len) =>
                 BuildReloc(c, p, o).ds = i /\ BuildReloc(c, p, o).old = info[i]
<1> DEFINE b == BuildReloc(c, p, o)
           m == Moved(info[i], p, o, c.len)
           ds == IF m THEN i ELSE reloc.ds
           old == IF ds # NotFound /\ (info[i].pos = 0 \/ m) THEN info[i] ELSE reloc.old
<1>1. reloc \in RelocType /\ reloc.ds < DatasetNumber /\ (reloc.ds = NotFound => reloc.len = 0)
  BY DEF TableInv, Typed, RecordInv
<1>2. b = [reloc EXCEPT !.ds = ds, !.old = old]
  BY DEF BuildReloc
<1>3. i # NotFound
  BY Naturals1 DEF NotFound
<1>4. i >= DatasetNumber => ~ m /\ reloc.ds # i
  <2> SUFFICES ASSUME i >= DatasetNumber PROVE ~ m /\ reloc.ds # i
    OBVIOUS
  <2>1. info[i].pos = 0
    <3>1. i - DatasetNumber \in Pages /\ PageHdr(i - DatasetNumber) = i
      BY HeaderId
    <3>2. QED
      BY <3>1 DEF TableInv, Within
  <2>2. ~ m
    BY <2>1 DEF Moved
  <2>3. reloc.ds # i
    BY <1>1, Naturals1
  <2>4. QED
    BY <2>2, <2>3
<1>5. ~ (i >= DatasetNumber) => i < DatasetNumber
  BY Naturals1
<1> HIDE DEF m, old
<1>6. b.ds = ds /\ b.old = old /\ b.len = reloc.len /\ b.off = reloc.off
  BY <1>1, <1>2 DEF RelocType
<1>7. m => b.old = info[i] /\ b.ds = i
  BY <1>3, <1>6 DEF old
<1>8. b.ds < DatasetNumber
  BY <1>1, <1>4, <1>5, <1>6
<1>9. reloc.len = 0 \/ b.ds # i
  BY <1>1, <1>4, <1>6
<1>10. QED
  BY <1>1, <1>3, <1>6, <1>7, <1>8, <1>9 DEF m

(* The header of a record changes the flash only when it announces another *)
(* length, and leaves the buffer to its record.                            *)
HeaderNvs(i, c, p, o) == Trimmed(nvs, cache, BuildInfo(c, p, o), i, OldLen(c, p))
HeaderCache(i, c, p, o) ==
    [Loaded(nvs, cache, BuildInfo(c, p, o), i, OldLen(c, p)) EXCEPT !.buf[0] = c, !.flush = TRUE]

HeaderWritten(i, c, p, o, job) ==
    /\ info' = BuildInfo(c, p, o) /\ reloc' = BuildReloc(c, p, o)
    /\ nvs' = HeaderNvs(i, c, p, o) /\ cache' = HeaderCache(i, c, p, o)
    /\ jobs' = [jobs EXCEPT ![i] = job]
    /\ acked' = [acked EXCEPT ![i] = Stored(nvs'[i])]
    /\ last' = [NoCall EXCEPT !.op = "write"]
    /\ UNCHANGED <<boot, scan, env>>

(* Power fails while version v of i is written, and the flash is n.        *)
WriteCut(i, n, v) ==
    PowerFails(n, [acked EXCEPT ![i] = Stored(n[i])],
               [CutShort("write") EXCEPT !.id = i, !.ver = v])

LEMMA BeginWrites ==
    ASSUME Settled, NvramInv, TableInv, RecordInv, NEW i \in Ids, jobs[i].next = 0, Orderly(i),
           NEW L \in LensOf(i), NEW g \in GensOf(i), NEW p \in Pages, NEW o \in Nat,
           o >= free[p], o + L <= PageSize,
           \A q \in Pages : PageHdr(q) = i => o = 0 /\ p = q,
           reloc.ds = NotFound \/ i >= DatasetNumber,
           NEW c, c = Piece(i, L, g, 0), NEW job, CoreWrite(i, c, p, o, job)
    PROVE  \/ \E n \in {nvs, HeaderNvs(i, c, p, o)} : WriteCut(i, n, [len |-> L, g |-> job.g])
           \/ HeaderWritten(i, c, p, o, job)
<1> DEFINE u == BuildInfo(c, p, o)
           m == HeaderNvs(i, c, p, o)
           b == Loaded(nvs, cache, u, i, OldLen(c, p))
           ver == [len |-> u[i].len, g |-> job.g]
           old == Kept(i, c, o, ver)
           cut(n) == PowerFails(n, [acked EXCEPT ![i] = Resolved(i, n, old \cup {ver})],
                                [CutShort("write") EXCEPT !.id = i, !.ver = ver])
<1>1. /\ u[i].len = L /\ u \in TableType /\ c.k = "hdr" /\ c.d = i /\ c.k # "tail" /\ i # NotFound
      /\ Target(c, p, o) = i /\ Offset(c, p, o) = 0 /\ ~ IsTail(c, p, o)
  <2> HIDE DEF m, b, ver, old
  <2>1. /\ c.k = "hdr" /\ c.d = i /\ c.len = L /\ c.g = g /\ c.k # "tail"
        /\ BuildInfo(c, p, o) = [info EXCEPT ![i] = [page |-> p, pos |-> o, len |-> L]]
        /\ BuildInfo(c, p, o) \in TableType
        /\ BuildInfo(c, p, o)[i] = [page |-> p, pos |-> o, len |-> L]
        /\ \A j \in Ids : j # i => BuildInfo(c, p, o)[j] = info[j]
        /\ Target(c, p, o) = i /\ Offset(c, p, o) = 0 /\ ~ IsTail(c, p, o)
        /\ i # NotFound
    BY BeginPlaces
  <2>2. QED
    BY <2>1
<1>2. Active = {}
  <2>1. Active \subseteq {i}
    BY SettledNow DEF Orderly, TableInv
  <2>2. i \notin Active
    BY DEF Active
  <2>3. QED
    BY <2>1, <2>2
<1>3. \A n, t : Flushed(n, cache, t) = n /\ FlushStops(n, cache, t) = {n}
  BY <1>2, Idle
<1>4. BuildReloc(c, p, o).len = reloc.len /\ (reloc.len = 0 \/ BuildReloc(c, p, o).ds # i)
  BY <1>1, BeginReloc
<1>5. /\ Displaced(c, p, o) = {nvs}
      /\ LoadedNvs(c, p, o, nvs) = m /\ LoadedCache(c, p, o, nvs) = b
  <2>1. Displaced(c, p, o) = {nvs}
    BY <1>1, <1>3 DEF Displaced, AfterFlush
  <2>2. QED
    BY <1>1, <2>1 DEF LoadedNvs, LoadedCache, HeaderNvs
<1>6. ~ IsRelocated(c, p, o)
  BY <1>1, <1>4 DEF IsRelocated
<1>7. Patched(c, p, o, nvs) = HeaderCache(i, c, p, o) /\ ~ Refused(c, p, o, nvs)
  BY <1>1, <1>5, <1>6 DEF Patched, Refused, HeaderCache
<1>11. ASSUME NEW n \in {nvs, m}, NEW may, old \subseteq may PROVE Resolved(i, n, may) = Stored(n[i])
  <2>1. nvs \in Stores /\ nvs \in [Ids -> ItemType]
    BY DEF TableInv, Typed, Stores
  <2>2. n[i] = nvs[i] \/ (n[i] = NoItem /\ OldLen(c, p) # 0)
    BY <1>1, <1>11, <2>1 DEF HeaderNvs, Trimmed, ReadLen
  <2>3. OldLen(c, p) # 0 => NoAck \in old
    BY DEF Kept, OldLen
  <2>4. n[i] = nvs[i] \/ Stored(n[i]) \in may
    BY <1>11, <2>2, <2>3, NoItemFacts
  <2> HIDE DEF m, old
  <2>5. QED
    BY <2>4, Resolves
<1>8. CASE \E n \in WriteStops(c, p, o) : cut(n)
  <2>1. PICK n \in WriteStops(c, p, o) : cut(n)
    BY <1>8
  <2> DEFINE x == IF cache.id = i THEN nvs ELSE Flushed(nvs, cache, u)
  <2>2. n \in {nvs} \cup FlushStops(nvs, cache, u) \cup {LoadedNvs(c, p, o, x)}
    BY <1>1, <2>1 DEF WriteStops
  <2>3. LoadedNvs(c, p, o, x) = m /\ FlushStops(nvs, cache, u) = {nvs}
    BY <1>3, <1>5
  <2> HIDE DEF u, m, x
  <2>4. n \in {nvs, m}
    BY <2>2, <2>3
  <2>5. Resolved(i, n, old \cup {ver}) = Stored(n[i])
    <3> HIDE DEF old, ver
    <3>1. old \subseteq old \cup {ver}
      OBVIOUS
    <3>2. QED
      BY <1>11, <2>4, <3>1
  <2>6. ver = [len |-> L, g |-> job.g]
    BY <1>1
  <2> HIDE DEF old, ver
  <2>7. WriteCut(i, n, [len |-> L, g |-> job.g])
    BY <2>1, <2>5, <2>6 DEF WriteCut
  <2>8. QED
    BY <2>4, <2>7 DEF m
<1>9. CASE ~ \E n \in WriteStops(c, p, o) : cut(n)
  <2>1. /\ WriteEffect(c, p, o)
        /\ jobs' = [jobs EXCEPT ![i] = IF last'.ret # "ok" \/ c.k = "tail" THEN NoJob ELSE job]
        /\ acked' = [acked EXCEPT ![i] = IF last'.ret = "ok" /\ c.k = "tail" THEN ver
                                         ELSE Resolved(i, nvs', old)]
        /\ UNCHANGED <<boot, scan, env>>
    BY <1>9 DEF CoreWrite
  <2>2. WriteUnknown(c, p, o) \/ WriteRefused(c, p, o, nvs)
            \/ WriteBuffered(c, p, o, nvs) \/ WriteTail(c, p, o, nvs)
    BY <1>5, <2>1 DEF WriteEffect
  <2>3. WriteBuffered(c, p, o, nvs)
    BY <1>1, <1>7, <2>2 DEF WriteUnknown, WriteRefused, WriteTail
  <2>4. /\ nvs' = m /\ cache' = HeaderCache(i, c, p, o)
        /\ last' = [NoCall EXCEPT !.op = "write"]
    BY <1>5, <1>7, <2>3 DEF WriteBuffered
  <2>5. last'.ret = "ok"
    BY <2>4 DEF NoCall
  <2>6. jobs' = [jobs EXCEPT ![i] = job] /\ acked' = [acked EXCEPT ![i] = Stored(nvs'[i])]
    <3>1. Resolved(i, nvs', old) = Stored(nvs'[i])
      BY <1>11, <2>4
    <3>2. QED
      BY <1>1, <2>1, <2>5, <3>1
  <2>7. info' = BuildInfo(c, p, o) /\ reloc' = BuildReloc(c, p, o)
    BY <2>1 DEF WriteEffect
  <2>8. QED
    BY <2>1, <2>4, <2>6, <2>7 DEF HeaderWritten
<1>10. QED
  BY <1>8, <1>9

LEMMA BeginStore ==
    ASSUME Settled, NvramInv, TableInv, StoreInv, boot = "up", NEW i \in Ids, i # 0,
           jobs[i].next = 0, Orderly(i),
           NEW L \in LensOf(i), NEW g \in GensOf(i), NEW p \in Pages, NEW o \in Nat,
           o >= free[p], o + L <= PageSize,
           \A q \in Pages : PageHdr(q) = i => o = 0 /\ p = q,
           reloc.ds = NotFound \/ i >= DatasetNumber,
           i < DatasetNumber => o > 0 /\ LiveLen - info[i].len + L <= Room,
           NEW job \in JobType, job.next = 1, job.g = g, job.got = NoCell,
           job.old.len > 0 =>
              /\ IsCalm(env) /\ i < DatasetNumber /\ job.old = info[i]
              /\ info[i].len = L /\ info[i].page # p /\ nvs[i] = Record(i, L, g),
           CoreWrite(i, Piece(i, L, g, 0), p, o, job)
    PROVE  StoreInv'
<1> DEFINE c == Piece(i, L, g, 0)
           u == BuildInfo(c, p, o)
           ol == OldLen(c, p)
           b == Loaded(nvs, cache, u, i, ol)
           m == Trimmed(nvs, cache, u, i, ol)
           r == BuildReloc(c, p, o)
<1>1. Typed /\ RecordInv /\ Whole(nvs) /\ nvs \in Stores /\ cache \in Caches /\ info \in TableType
      /\ reloc \in RelocType /\ jobs \in [Ids -> JobType]
  BY DEF TableInv, Typed, StoreInv, RecordInv
<1>2. /\ c.k = "hdr" /\ c.d = i /\ c.len = L /\ c.g = g /\ c.k # "tail"
      /\ u = [info EXCEPT ![i] = [page |-> p, pos |-> o, len |-> L]]
      /\ u \in TableType /\ u[i] = [page |-> p, pos |-> o, len |-> L]
      /\ \A j \in Ids : j # i => u[j] = info[j]
      /\ Target(c, p, o) = i /\ Offset(c, p, o) = 0 /\ ~ IsTail(c, p, o)
      /\ i # NotFound
  BY BeginPlaces
<1>3. Active = {}
  <2>1. Active \subseteq {i}
    BY <1>1, SettledNow DEF Orderly
  <2>2. i \notin Active
    BY DEF Active
  <2>3. QED
    BY <2>1, <2>2
<1>4. /\ cache.flush = FALSE
      /\ \A j \in Ids : jobs[j].next = 0 /\ acked[j] = Stored(nvs[j])
      /\ \A n, t : Flushed(n, cache, t) = n /\ FlushStops(n, cache, t) = {n}
  BY <1>1, <1>3, Idle
<1>5. L \in Nat /\ L >= 2 /\ L <= MaxLen
  BY LensFit
<1>6. m = nvs \/ m = [nvs EXCEPT ![i] = NoItem]
  BY DEF Trimmed
<1>7. b \in Caches /\ b.id = i
  BY <1>1, <1>2, LoadStore
<1>8. /\ r.len = reloc.len /\ r.off = reloc.off
      /\ r.ds \in {i, reloc.ds} /\ r.ds < DatasetNumber
      /\ r.ds = NotFound => reloc.ds = NotFound
      /\ reloc.len = 0 \/ r.ds # i
      /\ Moved(info[i], p, o, L) => r.ds = i /\ r.old = info[i]
  BY <1>1, <1>2, BeginReloc
<1> DEFINE b2 == [b EXCEPT !.buf[0] = c, !.flush = TRUE]
<1>9. \/ \E n \in {nvs, m} : WriteCut(i, n, [len |-> L, g |-> g])
      \/ HeaderWritten(i, c, p, o, job)
  <2> HIDE DEF c
  <2>1. c = Piece(i, L, g, 0) /\ CoreWrite(i, c, p, o, job)
    BY DEF c
  <2>2. \/ \E n \in {nvs, HeaderNvs(i, c, p, o)} : WriteCut(i, n, [len |-> L, g |-> g])
        \/ HeaderWritten(i, c, p, o, job)
    BY <1>1, <2>1, BeginWrites
  <2>3. QED
    BY <2>2 DEF HeaderNvs
<1>12. b2.id = i /\ b2.flush = TRUE /\ b2.buf[0] = c
       /\ \A s \in Slots : s # 0 => b2.buf[s] = b.buf[s]
  <2> HIDE DEF c, b
  <2>1. b2 = [[b EXCEPT !.buf = [b.buf EXCEPT ![0] = c]] EXCEPT !.flush = TRUE]
    OBVIOUS
  <2>2. 0 \in Slots /\ b.buf \in [Slots -> Cells]
    BY <1>7, Naturals1 DEF Caches
  <2>3. QED
    BY <1>7, <2>1, <2>2 DEF Caches
<1>13. Whole(m) /\ IsRecord(i, NoItem)
  BY <1>1, <1>6, WholePut DEF IsRecord
<1>14. CASE \E n \in {nvs, m} : WriteCut(i, n, [len |-> L, g |-> g])
  <2>1. PICK n \in {nvs, m} : WriteCut(i, n, [len |-> L, g |-> g])
    BY <1>14
  <2>2. n = nvs \/ n = [nvs EXCEPT ![i] = NoItem]
    <3> HIDE DEF m
    <3>1. QED
      BY <1>6, <2>1
  <2>3. NoItem.len <= nvs[i].len
    <3>1. nvs[i].len \in Nat
      BY <1>1, StoredLen DEF Whole
    <3>2. QED
      BY <3>1, NoItemFacts
  <2> HIDE DEF c, u, m, b, r, b2
  <2>4. NoItem \in ItemType /\ NoItem.cell \in Rows
    BY Cells1
  <2>5. QED
    BY <1>13, <2>1, <2>2, <2>3, <2>4, PowerOf DEF WriteCut
<1>15. CASE HeaderWritten(i, c, p, o, job)
  <2>1. UNCHANGED <<boot, scan, env>>
    BY <1>15 DEF HeaderWritten
  <2>2. info' = u /\ reloc' = r /\ nvs' = m /\ cache' = b2
    BY <1>15 DEF HeaderWritten, HeaderNvs, HeaderCache
  <2>4. jobs' = [jobs EXCEPT ![i] = job] /\ acked' = [acked EXCEPT ![i] = Stored(nvs'[i])]
    BY <1>15 DEF HeaderWritten
  <2>5. jobs'[i] = job /\ \A j \in Ids : j # i => jobs'[j] = jobs[j]
    BY <1>1, <2>4
  <2>6. \A j \in Ids : j # i => nvs'[j] = nvs[j]
    BY <1>1, <1>6, <2>2 DEF Stores
  <2>7. i \in Active' /\ boot' = "up" /\ env' = env
    BY <2>1, <2>5 DEF Active
  <2> HIDE DEF c, u, m, b2
  <2>8. ASSUME job.old.len > 0
        PROVE  /\ \A s \in Slots : s < L => b2.buf[s] = Piece(i, L, g, s)
               /\ r.ds = i /\ r.old = job.old
               /\ job.old.pos + job.old.len <= PageSize
    <3>1. IsCalm(env) /\ CalmInv /\ info[i].len = L /\ nvs[i] = Record(i, L, g) /\ u[i].len = info[i].len
      BY <1>2, <2>8 DEF StoreInv
    <3>2. ol = 0
      BY <1>2, <3>1 DEF OldLen
    <3>3. \A s \in Slots : s < L => b.buf[s] = nvs[i].cell[s]
      <4>1. b = Loaded(nvs, cache, u, i, 0)
        BY <3>2
      <4>2. u \in TableType
        BY <1>2
      <4> HIDE DEF b
      <4>3. QED
        BY <1>1, <1>3, <3>1, <4>1, <4>2, LoadedWhole
    <3>4. \A s \in Slots : s < L => nvs[i].cell[s] = Piece(i, L, g, s)
      BY <3>1, RecordFacts
    <3> HIDE DEF b
    <3>5. \A s \in Slots : s < L => b2.buf[s] = Piece(i, L, g, s)
      BY <1>12, <3>3, <3>4 DEF c
    <3>6. Moved(info[i], p, o, L)
      <4>1. info[i].pos > 0 /\ info[i].pos \in Nat
        BY <1>1, <1>5, <2>8, <3>1, Entry DEF CalmInv, Filled
      <4>2. QED
        BY <2>8, <4>1 DEF Moved
    <3>7. job.old.pos + job.old.len <= PageSize
      BY <2>8, <3>1 DEF CalmInv, Filled
    <3>8. QED
      BY <1>8, <2>8, <3>5, <3>6, <3>7
  <2> HIDE DEF b, r
  <2>9. RecordInv'
    <3>1. JobBuffered(i)'
      <4>1. info'[i].len = L
        BY <1>2, <2>2
      <4>2. reloc'.len = 0 \/ reloc'.ds # i
        BY <1>8, <2>2
      <4>3. \A s \in Slots : s < 1 => cache'.buf[s] = Piece(i, L, g, s)
        <5>1. \A s \in Slots : s < 1 => s = 0
          BY Naturals1
        <5>2. QED
          BY <1>12, <2>2, <5>1 DEF c
      <4>4. QED
        BY <1>12, <2>2, <2>5, <2>8, <4>1, <4>2, <4>3 DEF JobBuffered, Holds
    <3>2. ASSUME NEW j \in Ids, j # i PROVE JobBuffered(j)'
      BY <1>4, <2>5, <3>2 DEF JobBuffered
    <3>3. \A j \in Ids : acked'[j] = Stored(nvs'[j])
      <4>1. acked \in [Ids -> AckType]
        BY <1>1 DEF Typed
      <4>2. QED
        BY <1>4, <2>4, <2>6, <4>1
    <3>4. reloc'.ds = NotFound => reloc'.len = 0
      BY <1>1, <1>8, <2>2 DEF RecordInv
    <3>5. Whole(nvs') /\ reloc'.ds < DatasetNumber /\ cache'.id \in Active'
      BY <1>8, <1>12, <1>13, <2>2, <2>7
    <3>6. QED
      BY <3>1, <3>2, <3>3, <3>4, <3>5 DEF RecordInv
  <2>10. ASSUME IsCalm(env) PROVE CalmInv'
    <3>1. CalmInv
      BY <2>10 DEF StoreInv
    <3>2. Synced'
      <4>1. ASSUME NEW j \in Ids, jobs'[j].next = 0 PROVE info'[j].len = nvs'[j].len
        <5>1. j # i
          BY <2>5, <4>1
        <5>2. QED
          BY <1>2, <1>4, <2>2, <2>6, <3>1, <5>1 DEF CalmInv, Synced
      <4>2. cache'.id \in Active'
        BY <1>12, <2>2, <2>7
      <4>3. QED
        BY <4>1, <4>2 DEF Synced
    <3>3. Filled'
      <4>1. Sums(LensIn(nvs'))[DatasetNumber] <= Room
        <5>1. \A j \in Ids : nvs'[j].len <= nvs[j].len
          <6>1. \A j \in Ids : nvs[j].len \in Nat
            BY <1>1, StoredLen DEF Whole
          <6>2. nvs'[i].len <= nvs[i].len
            <7>1. CASE m = nvs
              BY <2>2, <6>1, <7>1
            <7>2. CASE m = [nvs EXCEPT ![i] = NoItem]
              <8>1. nvs'[i] = NoItem
                BY <1>1, <2>2, <7>2 DEF Stores
              <8>2. QED
                BY <6>1, <8>1, NoItemFacts
            <7>3. QED
              BY <1>6, <7>1, <7>2
          <6>3. QED
            BY <2>6, <6>1, <6>2
        <5>2. Whole(nvs')
          BY <1>13, <2>2
        <5>3. QED
          BY <1>1, <3>1, <5>1, <5>2, StillFits DEF CalmInv, Filled
      <4>2. LiveLen' <= Room
        <5>1. LensIn(info) \in Lists /\ LensIn(u) \in Lists
              /\ \A j \in Ids : LensIn(info)[j] = info[j].len /\ LensIn(u)[j] = u[j].len
          BY <1>1, <1>2, TableList
        <5>2. LiveLen' = Sums(LensIn(u))[DatasetNumber]
          BY <2>2 DEF LiveLen, LensIn
        <5>3. (\A j \in Ids : j # i => u[j] = info[j]) /\ u[i].len = L
          BY <1>2
        <5>4. CASE i < DatasetNumber
          <6>1. \A j \in Ids : j # i /\ j < DatasetNumber => LensIn(u)[j] = LensIn(info)[j]
            BY <5>1, <5>3
          <6>2. Sums(LensIn(u))[DatasetNumber] = LiveLen - info[i].len + L
            <7>1. LensIn(u)[i] = L /\ LensIn(info)[i] = info[i].len
              BY <5>1, <5>3
            <7>2. QED
              BY <5>1, <5>4, <6>1, <7>1, SumsChange, LiveIs
          <6>3. QED
            BY <5>2, <5>4, <6>2
        <5>5. CASE ~ (i < DatasetNumber)
          <6>1. \A j \in Ids : j < DatasetNumber => LensIn(u)[j] = LensIn(info)[j]
            BY <5>1, <5>5, <5>3
          <6>2. Sums(LensIn(u))[DatasetNumber] = LiveLen
            BY <5>1, <6>1, LastStep, SameSums, LiveIs
          <6>3. QED
            BY <3>1, <5>2, <6>2 DEF CalmInv, Filled
        <5>6. QED
          BY <5>4, <5>5
      <4>3. ASSUME NEW j \in Ids
            PROVE  /\ info'[j].pos + info'[j].len <= PageSize
                   /\ j < DatasetNumber /\ info'[j].len > 0 => info'[j].pos > 0
        <5>1. CASE j = i
          BY <1>2, <2>2, <5>1
        <5>2. CASE j # i
          BY <1>2, <2>2, <3>1, <5>2 DEF CalmInv, Filled
        <5>3. QED
          BY <5>1, <5>2
      <4>4. QED
        BY <4>1, <4>2, <4>3 DEF Filled
    <3>4. Placing'
      BY <2>7 DEF Placing
    <3>5. QED
      BY <3>2, <3>3, <3>4 DEF CalmInv
  <2>11. QED
    BY <2>7, <2>9, <2>10 DEF StoreInv
<1>16. QED
  BY <1>9, <1>14, <1>15

(* What is not being written reads as it is in the flash, wherever it is   *)
(* placed and whatever the buffer holds.                                   *)
LEMMA ReadPiece ==
    ASSUME TableInv, StoreInv, IsCalm(env), boot = "up",
           NEW d \in Ids, jobs[d].next = 0, NEW s \in Nat, s < info[d].len
    PROVE  s \in Slots /\ ReadValue(info[d].page, info[d].pos + s) = nvs[d].cell[s]
<1> DEFINE p == info[d].page
           o == info[d].pos + s
           n == Flushed(nvs, cache, info)
<1>1. /\ info \in TableType /\ Disjoint(info) /\ nvs \in Stores /\ cache \in Caches
      /\ CalmInv
  BY DEF TableInv, Typed, StoreInv
<1>2. /\ p \in Pages /\ info[d].pos \in Nat /\ info[d].len \in Nat /\ info[d].len <= MaxLen
      /\ info[d].pos + info[d].len <= PageSize /\ info[d].len = nvs[d].len
  BY <1>1, Entry DEF CalmInv, Filled, Synced
<1>3. s \in Slots
  BY <1>2, Sizes1 DEF Slots
<1>4. o \in Nat /\ Covers(info[d], p, o) /\ ~ Invalid(o) /\ o - info[d].pos = s
  BY <1>2, Sizes1 DEF Covers, Invalid
<1>5. d # NotFound
  BY Naturals1 DEF NotFound
<1> HIDE DEF p, o
<1>6. Find(info, p, o) = d
  BY <1>1, <1>2, <1>4, FindIt
<1>7. ReadId(p, o) = d /\ ReadOff(p, o) = s
  BY <1>4, <1>5, <1>6 DEF ReadId, ReadOff
<1>8. ReadValue(p, o) = Loaded(n, cache, info, d, 0).buf[s]
  BY <1>3, <1>4, <1>5, <1>7 DEF ReadValue
<1>9. Loaded(n, cache, info, d, 0).buf[s] = nvs[d].cell[s]
  <2>1. CASE cache.id = d
    <3>1. cache.id \notin Active
      BY <2>1 DEF Active
    <3>2. QED
      BY <1>1, <1>3, <2>1, <3>1 DEF CalmInv, Synced, Loaded
  <2>2. CASE cache.id # d
    <3>1. n[d] = nvs[d]
      BY <1>1, <2>2 DEF Flushed, Stores
    <3>2. ReadLen(info, d, 0) = info[d].len
      BY DEF ReadLen
    <3>3. nvs[d].len >= info[d].len
      BY <1>2
    <3> HIDE DEF n
    <3>4. QED
      BY <1>3, <2>2, <3>1, <3>2, <3>3 DEF Loaded
  <2>3. QED
    BY <2>1, <2>2
<1>10. QED
  BY <1>3, <1>8, <1>9 DEF p, o

LEMMA FormatStore ==
    ASSUME Settled, NvramInv, TableInv, StoreInv, NEW p \in Pages, FormatPage(p)
    PROVE  StoreInv'
<1> DEFINE i == PageHdr(p)
           job == [NoJob EXCEPT !.next = 1]
<1>1. /\ boot = "up" /\ jobs[i].next = 0 /\ Orderly(i) /\ free[p] = 0
      /\ CoreWrite(i, Piece(i, HdrLen, 0, 0), p, 0, job)
  BY DEF FormatPage
<1>2. i \in Ids /\ i \in Nat /\ i >= DatasetNumber /\ i # 0 /\ \A q \in Pages : PageHdr(q) = i => p = q
  BY Naturals1
<1>3. i \notin Types
  BY <1>2, Sizes1 DEF Types
<1> HIDE DEF i
<1>4. HdrLen \in LensOf(i) /\ 0 \in GensOf(i)
  BY <1>3 DEF LensOf, GensOf
<1>5. job \in JobType /\ job.next = 1 /\ job.g = 0 /\ job.got = NoCell /\ job.old.len = 0
  <2>1. 1 \in 0 .. MaxLen
    BY Sizes1
  <2>2. QED
    BY <2>1, Cells1 DEF NoJob, JobType, NoInfo
<1>6. 0 >= free[p] /\ 0 + HdrLen <= PageSize /\ ~ (i < DatasetNumber)
  BY <1>1, <1>2, Sizes1
<1>7. 0 \in Nat /\ ~ (0 > 0) /\ \A q \in Pages : PageHdr(q) = i => 0 = 0 /\ p = q
  BY <1>2
<1> HIDE DEF job
<1>8. ~ (job.old.len > 0)
  BY <1>5
<1>9. QED
  BY <1>1, <1>2, <1>4, <1>5, <1>6, <1>7, <1>8, BeginStore

LEMMA TypeFacts ==
    ASSUME NEW d \in Types
    PROVE  /\ d \in Ids /\ d # 0 /\ d < DatasetNumber /\ LensOf(d) = Lens /\ GensOf(d) = Gens
           /\ \A q \in Pages : PageHdr(q) # d
BY Naturals1 DEF Types, LensOf, GensOf

LEMMA BeginWriteStore ==
    ASSUME Settled, NvramInv, TableInv, StoreInv,
           NEW d \in Types, NEW p \in Pages, NEW l \in Lens, NEW g \in Gens, BeginWrite(d, p, l, g)
    PROVE  StoreInv'
<1> DEFINE job == [NoJob EXCEPT !.next = 1, !.g = g]
           o == free[p]
<1>1. /\ boot = "up" /\ jobs[d].next = 0 /\ Orderly(d) /\ o > 0 /\ o + l <= PageSize
      /\ "blind" \in env \/ reloc.ds = NotFound
      /\ LiveLen - info[d].len + l <= Room
      /\ CoreWrite(d, Piece(d, l, g, 0), p, o, job)
  BY DEF BeginWrite, MayBegin, Room
<1>2. d \in Ids /\ d # 0 /\ l \in LensOf(d) /\ g \in GensOf(d) /\ \A q \in Pages : PageHdr(q) # d
  BY TypeFacts
<1>3. o \in Nat /\ o >= free[p]
  BY Sizes1 DEF TableInv, Typed, FreeType
<1>4. reloc.ds = NotFound
  BY <1>1, SettledNow DEF TableInv
<1>5. job \in JobType /\ job.next = 1 /\ job.g = g /\ job.got = NoCell /\ job.old.len = 0
  <2>1. 1 \in 0 .. MaxLen
    BY Sizes1
  <2>2. QED
    BY <2>1, Cells1 DEF NoJob, JobType, NoInfo
<1> HIDE DEF job, o
<1>6. ~ (job.old.len > 0)
  BY <1>5
<1>7. QED
  BY <1>1, <1>2, <1>3, <1>4, <1>5, <1>6, BeginStore

(* The header of a copy is the one in the flash.                           *)
CopyHeader(d, g, h) ==
    /\ info[d].len \in LensOf(d) /\ nvs[d] = Record(d, info[d].len, g)
    /\ h = Piece(d, info[d].len, g, 0) /\ h.g = g

LEMMA CopyBegins ==
    ASSUME Settled, TableInv, StoreInv, NEW d \in Types, NEW p \in Pages, BeginCopy(d, p),
           NEW h, h = ReadValue(info[d].page, info[d].pos)
    PROVE  IsCalm(env) /\ reloc.ds = NotFound /\ \E g \in GensOf(d) : CopyHeader(d, g, h)
<1>1. /\ "copy" \in env /\ info[d].len > 0 /\ boot = "up" /\ jobs[d].next = 0
      /\ "blind" \in env \/ reloc.ds = NotFound
  BY DEF BeginCopy, MayBegin
<1>2. Typed /\ info \in TableType /\ Whole(nvs) /\ d \in Ids
  BY TypeFacts DEF TableInv, Typed, StoreInv, RecordInv
<1>3. IsCalm(env) /\ reloc.ds = NotFound
  BY <1>1, <1>2, SettledNow
<1>4. info[d].pos \in Nat /\ info[d].len \in Nat /\ info[d].len = nvs[d].len
  BY <1>1, <1>2, <1>3, Entry DEF StoreInv, CalmInv, Synced
<1>5. h = nvs[d].cell[0]
  <2>1. ReadValue(info[d].page, info[d].pos + 0) = nvs[d].cell[0]
    BY <1>1, <1>2, <1>3, ReadPiece
  <2>2. info[d].pos + 0 = info[d].pos
    BY <1>4
  <2>3. QED
    BY <2>1, <2>2
<1>6. PICK g \in GensOf(d) : info[d].len \in LensOf(d) /\ nvs[d] = Record(d, info[d].len, g)
  <2>1. IsRecord(d, nvs[d]) /\ nvs[d].len # 0
    BY <1>1, <1>2, <1>4 DEF Whole
  <2>2. QED
    BY <1>2, <1>4, <2>1, StoredRecord
<1>7. h = Piece(d, info[d].len, g, 0)
  BY <1>2, <1>5, <1>6, RecordFacts
<1>8. h.g = g
  BY <1>7, PieceFields
<1>9. QED
  BY <1>3, <1>6, <1>7, <1>8 DEF CopyHeader

LEMMA BeginCopyStore ==
    ASSUME Settled, NvramInv, TableInv, StoreInv, NEW d \in Types, NEW p \in Pages, BeginCopy(d, p)
    PROVE  StoreInv'
<1> DEFINE h == ReadValue(info[d].page, info[d].pos)
           job == [next |-> 1, g |-> h.g, old |-> info[d], got |-> NoCell]
           o == free[p]
<1>1. /\ info[d].len > 0 /\ info[d].page # p /\ h.len = info[d].len
      /\ boot = "up" /\ jobs[d].next = 0 /\ Orderly(d) /\ o > 0 /\ o + h.len <= PageSize
      /\ LiveLen - info[d].len + h.len <= Room
      /\ CoreWrite(d, h, p, o, job)
  BY DEF BeginCopy, MayBegin, Room
<1>2. d \in Ids /\ d # 0 /\ d < DatasetNumber /\ \A q \in Pages : PageHdr(q) # d
  BY TypeFacts
<1>3. o \in Nat /\ o >= free[p] /\ info[d] \in InfoType
  BY <1>2, Entry, Sizes1 DEF TableInv, Typed, FreeType
<1>4. h = ReadValue(info[d].page, info[d].pos)
  OBVIOUS
<1> HIDE DEF h
<1>5. IsCalm(env) /\ reloc.ds = NotFound /\ \E g \in GensOf(d) : CopyHeader(d, g, h)
  BY <1>4, CopyBegins
<1>6. PICK g \in GensOf(d) : CopyHeader(d, g, h)
  BY <1>5
<1>7. /\ info[d].len \in LensOf(d) /\ nvs[d] = Record(d, info[d].len, g)
      /\ h = Piece(d, info[d].len, g, 0) /\ h.g = g
  BY <1>6 DEF CopyHeader
<1>8. /\ job \in JobType /\ job.next = 1 /\ job.g = g /\ job.got = NoCell /\ job.old = info[d]
  <2>1. 1 \in 0 .. MaxLen /\ g \in Gens \cup {0}
    BY <1>2, GensFit, Sizes1
  <2>2. QED
    BY <1>3, <1>7, <2>1, Cells1 DEF JobType
<1> HIDE DEF job, o
<1>9. /\ o + info[d].len <= PageSize /\ LiveLen - info[d].len + info[d].len <= Room
      /\ CoreWrite(d, Piece(d, info[d].len, g, 0), p, o, job)
  BY <1>1, <1>7
<1>10. QED
  BY <1>1, <1>2, <1>3, <1>5, <1>7, <1>8, <1>9, BeginStore

-----------------------------------------------------------------------------
(* The core goes on with its record.                                       *)

(* Buffer b is the present one with piece s of the record in it.           *)
Appended(i, s, c, b) ==
    /\ b.id = i /\ b.flush = TRUE /\ b.buf[s] = c
    /\ \A t \in Slots : t # s => b.buf[t] = cache.buf[t]

(* The record being written is the one in the buffer, so nothing is loaded *)
(* or displaced; what was read from the old place is there already.        *)
Continues(i, k, L, g, c, p, o) ==
    /\ i # 0 /\ L \in LensOf(i) /\ g \in GensOf(i) /\ k \in Nat /\ k > 0 /\ k < L
    /\ k \in Slots /\ cache.id = i /\ cache.flush = TRUE
    /\ c = Piece(i, L, g, k) /\ c.len = L /\ c.g = g /\ (c.k = "tail" <=> k = L - 1)
    /\ BuildInfo(c, p, o) = info /\ BuildReloc(c, p, o) = reloc
    /\ Target(c, p, o) = i /\ i # NotFound /\ (IsTail(c, p, o) <=> k = L - 1)
    /\ Displaced(c, p, o) = {nvs} /\ LoadedNvs(c, p, o, nvs) = nvs /\ ~ Refused(c, p, o, nvs)
    /\ Appended(i, k, c, Patched(c, p, o, nvs))

LEMMA NextWrites ==
    ASSUME NvramInv, TableInv, RecordInv, boot = "up", NEW i \in Ids, i \in Active,
           NEW k, k = jobs[i].next, NEW L, L = info[i].len, NEW g, g = jobs[i].g,
           NEW c, c = IF IsCopied(i) THEN jobs[i].got ELSE Piece(i, L, g, k), c # NoCell,
           NEW p, p = info[i].page, NEW o, o = info[i].pos + k
    PROVE  Continues(i, k, L, g, c, p, o)
<1>1. /\ Typed /\ Disjoint(info) /\ info \in TableType /\ jobs \in [Ids -> JobType]
      /\ cache \in Caches /\ JobFits(i) /\ JobBuffered(i) /\ jobs[i].next > 0
  BY DEF TableInv, Typed, RecordInv, Active
<1>2. /\ i # 0 /\ L \in LensOf(i) /\ g \in GensOf(i)
      /\ cache.id = i /\ cache.flush
      /\ jobs[i].old.len = 0 => (reloc.len = 0 \/ reloc.ds # i) /\ Holds(i, k)
      /\ jobs[i].old.len > 0 =>
            /\ Holds(i, L)
            /\ jobs[i].got # NoCell => jobs[i].got = Piece(i, L, g, k)
  BY <1>1 DEF JobBuffered
<1>3. k \in Nat /\ k > 0 /\ k < L /\ jobs[i].old.len \in Nat
  <2>1. k \in 0 .. MaxLen /\ jobs[i].old \in InfoType
    BY <1>1 DEF JobType
  <2>2. QED
    BY <1>1, <2>1, Sizes1 DEF JobFits, InfoType
<1>4. L \in 2 .. MaxLen /\ L \in Nat /\ L <= MaxLen /\ g \in Gens \cup {0}
  BY <1>2, LensFit, GensFit
<1>5. k \in Slots
  BY <1>3, <1>4, Sizes1 DEF Slots
<1>6. c = Piece(i, L, g, k)
  BY <1>2 DEF IsCopied
<1>7. c.len = L /\ c.g = g /\ (c.k = "hdr" <=> k = 0) /\ (c.k = "tail" <=> k = L - 1)
  BY <1>3, <1>4, <1>6, PieceCell, PieceFields
<1>8. c.k # "hdr"
  BY <1>3, <1>7
<1>9. BuildInfo(c, p, o) = info /\ BuildReloc(c, p, o) = reloc /\ OldLen(c, p) = 0
  BY <1>8 DEF BuildInfo, BuildReloc, OldLen
<1>10. p \in Pages /\ o \in Nat /\ Covers(info[i], p, o) /\ o - info[i].pos = k
  <2>1. info[i].page \in Pages /\ info[i].pos \in Nat
    BY <1>1, Entry
  <2>2. QED
    BY <1>3, <1>4, <2>1 DEF Covers
<1>11. Target(c, p, o) = i /\ Offset(c, p, o) = k
  <2>1. Find(info, p, o) = i
    BY <1>1, <1>10, FindIt
  <2>2. QED
    BY <1>9, <1>10, <2>1 DEF Target, Offset
<1>12. i # NotFound /\ (IsTail(c, p, o) <=> k = L - 1)
  BY <1>9, <1>11, Naturals1 DEF NotFound, IsTail
<1>13. /\ Displaced(c, p, o) = {nvs}
       /\ LoadedNvs(c, p, o, nvs) = nvs /\ LoadedCache(c, p, o, nvs) = cache
  BY <1>2, <1>11 DEF Displaced, LoadedNvs, LoadedCache, Trimmed, Loaded
<1>14. IsRelocated(c, p, o) => cache.buf[k] = c
  <2>1. CASE jobs[i].old.len = 0
    BY <1>2, <1>9, <1>11, <2>1 DEF IsRelocated
  <2>2. CASE jobs[i].old.len > 0
    BY <1>2, <1>3, <1>5, <1>6, <2>2 DEF Holds
  <2>3. QED
    BY <1>3, <2>1, <2>2
<1>15. ~ Refused(c, p, o, nvs) /\ Appended(i, k, c, Patched(c, p, o, nvs))
  <2> DEFINE b == Patched(c, p, o, nvs)
  <2>1. b = IF IsRelocated(c, p, o) THEN cache ELSE [cache EXCEPT !.buf[k] = c, !.flush = TRUE]
    BY <1>11, <1>13 DEF Patched
  <2>2. ~ Refused(c, p, o, nvs)
    BY <1>11, <1>13, <1>14 DEF Refused
  <2> HIDE DEF b
  <2>3. CASE IsRelocated(c, p, o)
    BY <1>1, <1>2, <1>14, <2>1, <2>2, <2>3 DEF b, Caches, Appended
  <2>4. CASE ~ IsRelocated(c, p, o)
    <3>1. b = [[cache EXCEPT !.buf = [cache.buf EXCEPT ![k] = c]] EXCEPT !.flush = TRUE]
      BY <2>1, <2>4
    <3>2. b.id = i /\ b.flush = TRUE /\ b.buf = [cache.buf EXCEPT ![k] = c]
      BY <1>1, <1>2, <3>1 DEF Caches
    <3>3. cache.buf \in [Slots -> Cells]
      BY <1>1 DEF Caches
    <3>4. QED
      BY <1>5, <2>2, <3>2, <3>3 DEF b, Appended
  <2>5. QED
    BY <2>3, <2>4
<1>16. cache.flush = TRUE
  BY <1>1, <1>2 DEF Caches
<1>17. /\ Displaced(c, p, o) = {nvs} /\ LoadedNvs(c, p, o, nvs) = nvs /\ ~ Refused(c, p, o, nvs)
       /\ Appended(i, k, c, Patched(c, p, o, nvs))
  BY <1>13, <1>15
<1>18. /\ i # 0 /\ L \in LensOf(i) /\ g \in GensOf(i) /\ k \in Nat /\ k > 0 /\ k < L
       /\ k \in Slots /\ cache.id = i /\ cache.flush = TRUE
  BY <1>2, <1>3, <1>5, <1>16
<1>19. /\ c = Piece(i, L, g, k) /\ c.len = L /\ c.g = g /\ (c.k = "tail" <=> k = L - 1)
       /\ BuildInfo(c, p, o) = info /\ BuildReloc(c, p, o) = reloc
       /\ Target(c, p, o) = i /\ i # NotFound /\ (IsTail(c, p, o) <=> k = L - 1)
  BY <1>6, <1>7, <1>9, <1>11, <1>12
<1>20. QED
  BY <1>17, <1>18, <1>19 DEF Continues

LEMMA WholeRecord ==
    ASSUME NEW i \in Ids, i # 0, NEW L \in LensOf(i), NEW g \in GensOf(i), NEW x, x = Record(i, L, g)
    PROVE  /\ x.len = L /\ IsRecord(i, x) /\ x \in ItemType /\ x.cell \in Rows
           /\ Stored(x) = [len |-> L, g |-> g] /\ L \in 2 .. MaxLen /\ L \in Nat
           /\ \A s \in Slots : s < L => x.cell[s] = Piece(i, L, g, s)
<1>1. L \in 2 .. MaxLen /\ L \in Nat /\ g \in Gens \cup {0}
  BY LensFit, GensFit
<1>2. IsRecord(i, x)
  BY DEF IsRecord
<1>3. /\ x.len = L /\ Stored(x) = [len |-> L, g |-> g]
      /\ \A s \in Slots : x.cell[s] = IF s < L THEN Piece(i, L, g, s) ELSE Blank
  BY RecordFacts
<1>4. \A s \in Slots : x.cell[s] \in At(s)
  <2>1. \A s \in Slots : s \in Nat
    BY Naturals1
  <2>2. QED
    BY <1>1, <1>3, <2>1, PieceCell, Cells1
<1>5. x = [len |-> L, cell |-> x.cell] /\ x.cell = [s \in Slots |-> x.cell[s]]
  BY DEF Record
<1>6. x.cell \in Rows
  BY <1>4, <1>5, Rowed
<1>7. x \in ItemType
  <2>1. L \in 0 .. MaxLen
    BY <1>1
  <2>2. x.cell \in [Slots -> Cells]
    BY <1>6 DEF Rows
  <2>3. QED
    BY <1>5, <2>1, <2>2 DEF ItemType
<1>8. QED
  BY <1>1, <1>2, <1>3, <1>6, <1>7

(* With its tail in it, the buffer is the whole record.                    *)
Complete(b, i, L, g) ==
    /\ b.id = i /\ b.flush = TRUE /\ Buffered(b, L) = Record(i, L, g)
    /\ \A s \in Slots : s < L => b.buf[s] = Piece(i, L, g, s)

LEMMA TailBuffer ==
    ASSUME TableInv, RecordInv, NEW i \in Ids, i \in Active,
           NEW k, k = jobs[i].next, NEW L, L = info[i].len, NEW g, g = jobs[i].g,
           L \in LensOf(i), g \in GensOf(i), k = L - 1,
           NEW b, Appended(i, k, Piece(i, L, g, k), b)
    PROVE  Complete(b, i, L, g)
<1>1. JobBuffered(i) /\ jobs[i] \in JobType /\ jobs[i].next > 0
  BY DEF TableInv, Typed, RecordInv, Active
<1>2. L \in Nat /\ k \in Nat /\ k < L
  BY LensFit
<1>3. \A s \in Slots : s < k => cache.buf[s] = Piece(i, L, g, s)
  <2>1. jobs[i].old.len \in Nat
    BY <1>1, Sizes1 DEF JobType, InfoType
  <2>2. CASE jobs[i].old.len = 0
    BY <1>1, <2>2 DEF JobBuffered, Holds
  <2>3. CASE jobs[i].old.len > 0
    <3>1. Holds(i, L)
      BY <1>1, <2>3 DEF JobBuffered
    <3>2. \A s \in Slots : s < k => s < L
      BY <1>2, Naturals1
    <3>3. QED
      BY <3>1, <3>2 DEF Holds
  <2>4. QED
    BY <2>1, <2>2, <2>3
<1>4. \A s \in Slots : s < L => s < k \/ s = k
  BY <1>2, Naturals1
<1>5. \A s \in Slots : s < k => s # k
  BY <1>2, Naturals1
<1>6. \A s \in Slots : s < L => b.buf[s] = Piece(i, L, g, s)
  BY <1>3, <1>4, <1>5 DEF Appended
<1>7. i # 0
  BY <1>1 DEF JobBuffered
<1>8. Buffered(b, L) = Record(i, L, g)
  BY <1>6, <1>7, MakeRecord
<1>9. QED
  BY <1>6, <1>8 DEF Complete, Appended

(* What the next piece of a record does to the flash: x is the record.     *)
Cut(i, x, n) ==
    n = nvs \/ n = [nvs EXCEPT ![i] = x] \/ (n = [nvs EXCEPT ![i] = NoItem] /\ nvs[i] = x)

BodyWritten(i, k, c) ==
    /\ k # info[i].len - 1
    /\ nvs' = nvs /\ Appended(i, k, c, cache')
    /\ jobs' = [jobs EXCEPT ![i] = [jobs[i] EXCEPT !.next = k + 1, !.got = NoCell]]
    /\ acked' = acked /\ last' = [NoCall EXCEPT !.op = "write"]

TailWritten(i, k, x, done) ==
    /\ k = info[i].len - 1
    /\ Cut(i, x, nvs') /\ (done => nvs' = [nvs EXCEPT ![i] = x])
    /\ cache'.id = i /\ cache'.flush = FALSE
    /\ \A s \in Slots : s < x.len => cache'.buf[s] = x.cell[s]
    /\ jobs' = [jobs EXCEPT ![i] = NoJob]
    /\ acked' = [acked EXCEPT ![i] = Stored(nvs'[i])]
    /\ last' = [NoCall EXCEPT !.op = "write", !.ret = IF done THEN "ok" ELSE "failed"]

NextWritten(i, k, c, x) ==
    /\ UNCHANGED <<boot, scan, info, reloc, env>>
    /\ BodyWritten(i, k, c) \/ \E done \in Outcomes : TailWritten(i, k, x, done)

LEMMA NextDoes ==
    ASSUME NvramInv, TableInv, RecordInv, NEW i \in Ids, WriteNext(i),
           NEW k, k = jobs[i].next, NEW L, L = info[i].len, NEW g, g = jobs[i].g,
           NEW x, x = Record(i, L, g)
    PROVE  /\ boot = "up" /\ i \in Active /\ Orderly(i)
           /\ i # 0 /\ L \in LensOf(i) /\ g \in GensOf(i)
           /\ k \in Nat /\ k > 0 /\ k < L /\ k \in Slots
           /\ \/ \E n : Cut(i, x, n) /\ WriteCut(i, n, [len |-> L, g |-> g])
              \/ NextWritten(i, k, Piece(i, L, g, k), x)
<1> DEFINE c == IF IsCopied(i) THEN jobs[i].got ELSE Piece(i, L, g, k)
           p == info[i].page
           o == info[i].pos + k
           job == [jobs[i] EXCEPT !.next = k + 1, !.got = NoCell]
           b == Patched(c, p, o, nvs)
           ver == [len |-> BuildInfo(c, p, o)[i].len, g |-> job.g]
           old == Kept(i, c, o, ver)
           cut(n) == PowerFails(n, [acked EXCEPT ![i] = Resolved(i, n, old \cup {ver})],
                                [CutShort("write") EXCEPT !.id = i, !.ver = ver])
<1>1. boot = "up" /\ i \in Active /\ Orderly(i) /\ c # NoCell /\ CoreWrite(i, c, p, o, job)
  BY DEF WriteNext
<1>2. Continues(i, k, L, g, c, p, o)
  <2>1. /\ c = IF IsCopied(i) THEN jobs[i].got ELSE Piece(i, L, g, k)
        /\ p = info[i].page /\ o = info[i].pos + k
    OBVIOUS
  <2> HIDE DEF c, p, o
  <2>2. QED
    BY <1>1, <2>1, NextWrites
<1>3. /\ i # 0 /\ L \in LensOf(i) /\ g \in GensOf(i) /\ k \in Nat /\ k > 0 /\ k < L
      /\ k \in Slots /\ cache.id = i
      /\ c = Piece(i, L, g, k) /\ c.len = L /\ c.g = g /\ (c.k = "tail" <=> k = L - 1)
      /\ BuildInfo(c, p, o) = info /\ BuildReloc(c, p, o) = reloc
      /\ Target(c, p, o) = i /\ i # NotFound /\ (IsTail(c, p, o) <=> k = L - 1)
      /\ Displaced(c, p, o) = {nvs} /\ LoadedNvs(c, p, o, nvs) = nvs /\ ~ Refused(c, p, o, nvs)
      /\ Appended(i, k, c, b)
  <2> HIDE DEF c, p, o
  <2>1. QED
    BY <1>2 DEF Continues
<1>4. ASSUME k = L - 1
      PROVE  /\ b.id = i /\ b.flush = TRUE /\ Buffered(b, info[i].len) = x
             /\ \A s \in Slots : s < L => b.buf[s] = Piece(i, L, g, s)
  <2>1. Appended(i, k, Piece(i, L, g, k), b)
    BY <1>3
  <2> DEFINE d == b
  <2> HIDE DEF d
  <2>2. Appended(i, k, Piece(i, L, g, k), d)
    BY <2>1 DEF d
  <2>3. Complete(d, i, L, g)
    <3> HIDE DEF c, p, o
    <3>1. /\ TableInv /\ RecordInv /\ i \in Active /\ k = jobs[i].next /\ L = info[i].len
          /\ g = jobs[i].g /\ L \in LensOf(i) /\ g \in GensOf(i) /\ k = L - 1
      BY <1>1, <1>3, <1>4
    <3>2. QED
      BY <2>2, <3>1, TailBuffer
  <2>4. QED
    BY <2>3 DEF d, Complete
<1>5. x.len = L /\ Stored(x) = [len |-> L, g |-> g]
      /\ \A s \in Slots : s < L => x.cell[s] = Piece(i, L, g, s)
  BY <1>3, WholeRecord
<1>10. ver = [len |-> L, g |-> g] /\ acked[i] = Stored(nvs[i])
  <2>1. jobs[i] \in JobType
    BY DEF TableInv, Typed
  <2>2. job.g = g
    BY <2>1 DEF JobType
  <2> HIDE DEF c, p, o, job
  <2>3. QED
    BY <1>3, <2>2 DEF RecordInv
<1>11. ASSUME NEW n, NEW may, old \subseteq may,
              n = nvs \/ (k = L - 1 /\ n = [nvs EXCEPT ![i] = NoItem] /\ nvs[i] = x)
              \/ (n = [nvs EXCEPT ![i] = x] /\ ver \in may)
       PROVE  Resolved(i, n, may) = Stored(n[i])
  <2>1. nvs \in [Ids -> ItemType]
    BY DEF TableInv, Typed, Stores
  <2>2. k = L - 1 /\ nvs[i] = x => NoAck \in old
    BY <1>3, <1>5, <1>10 DEF Kept
  <2> HIDE DEF old, ver, c, p, o
  <2>3. n[i] = nvs[i] \/ Stored(n[i]) \in may
    BY <1>5, <1>10, <1>11, <2>1, <2>2, NoItemFacts
  <2>4. QED
    BY <2>3, Resolves
<1>6. CASE \E n \in WriteStops(c, p, o) : cut(n)
  <2>1. PICK n \in WriteStops(c, p, o) : cut(n)
    BY <1>6
  <2>2. n = nvs \/ (k = L - 1 /\ n \in FlushStops(nvs, b, info))
    <3> HIDE DEF c, p, o
    <3>1. n \in {nvs} \cup {LoadedNvs(c, p, o, nvs)}
            \cup (IF IsTail(c, p, o) THEN FlushStops(LoadedNvs(c, p, o, nvs), b, info)
                  ELSE {})
      BY <1>3, <2>1 DEF WriteStops
    <3>2. LoadedNvs(c, p, o, nvs) = nvs /\ (IsTail(c, p, o) <=> k = L - 1)
      BY <1>3
    <3> DEFINE stops == FlushStops(nvs, b, info)
    <3>3. n \in {nvs} \cup (IF k = L - 1 THEN stops ELSE {})
      BY <3>1, <3>2
    <3> HIDE DEF stops
    <3>4. n = nvs \/ (k = L - 1 /\ n \in stops)
      BY <3>3
    <3>5. QED
      BY <3>4 DEF stops
  <2>3. ASSUME k = L - 1, NEW m \in FlushStops(nvs, b, info) PROVE Cut(i, x, m)
    <3>1. b.id = i /\ b.flush = TRUE /\ Buffered(b, info[i].len) = x
      BY <1>4, <2>3
    <3> HIDE DEF b
    <3>2. QED
      BY <2>3, <3>1 DEF FlushStops, FlushFails, Flushed, Cut
  <2>4. Cut(i, x, n) /\ (k # L - 1 => n = nvs)
    BY <2>2, <2>3 DEF Cut
  <2>5. WriteCut(i, n, [len |-> L, g |-> g])
    <3> HIDE DEF old, ver, c, p, o
    <3>1. Resolved(i, n, old \cup {ver}) = Stored(n[i])
      BY <1>11, <2>4 DEF Cut
    <3>2. QED
      BY <1>10, <2>1, <3>1 DEF WriteCut
  <2> HIDE DEF c, p, o
  <2>6. QED
    BY <1>1, <1>3, <2>4, <2>5
<1>7. CASE ~ \E n \in WriteStops(c, p, o) : cut(n)
  <2>1. /\ WriteEffect(c, p, o)
        /\ jobs' = [jobs EXCEPT ![i] = IF last'.ret # "ok" \/ c.k = "tail" THEN NoJob ELSE job]
        /\ acked' = [acked EXCEPT ![i] = IF last'.ret = "ok" /\ c.k = "tail" THEN ver
                                         ELSE Resolved(i, nvs', old)]
        /\ UNCHANGED <<boot, scan, env>>
    BY <1>1, <1>7 DEF CoreWrite
  <2>2. info' = info /\ reloc' = reloc
    BY <1>3, <2>1 DEF WriteEffect
  <2>3. WriteBuffered(c, p, o, nvs) \/ WriteTail(c, p, o, nvs)
    BY <1>3, <2>1 DEF WriteEffect, WriteUnknown, WriteRefused
  <2>4. CASE k # L - 1
    <3>1. nvs' = nvs /\ cache' = b /\ last' = [NoCall EXCEPT !.op = "write"]
      <4>1. WriteBuffered(c, p, o, nvs)
        <5>1. ~ IsTail(c, p, o)
          BY <1>3, <2>4
        <5>2. QED
          BY <2>3, <5>1 DEF WriteTail
      <4>2. Patched(c, p, o, nvs) = b /\ LoadedNvs(c, p, o, nvs) = nvs
        BY <1>3
      <4> HIDE DEF b, c, p, o
      <4>3. QED
        BY <4>1, <4>2 DEF WriteBuffered
    <3>2. last'.ret = "ok"
      BY <3>1 DEF NoCall
    <3>3. jobs' = [jobs EXCEPT ![i] = job] /\ acked' = acked
      <4>1. jobs' = [jobs EXCEPT ![i] = job] /\ acked' = [acked EXCEPT ![i] = Resolved(i, nvs', old)]
        BY <1>3, <2>1, <2>4, <3>2
      <4>2. acked \in [Ids -> AckType]
        BY DEF TableInv, Typed
      <4> HIDE DEF old
      <4>3. Resolved(i, nvs', old) = Stored(nvs[i])
        BY <1>11, <3>1
      <4>4. QED
        BY <1>10, <4>1, <4>2, <4>3
    <3>4. Appended(i, k, Piece(i, L, g, k), cache')
      <4>1. Appended(i, k, Piece(i, L, g, k), b)
        BY <1>3
      <4> HIDE DEF b
      <4>2. QED
        BY <3>1, <4>1
    <3>5. BodyWritten(i, k, Piece(i, L, g, k))
      BY <2>4, <3>1, <3>3, <3>4 DEF BodyWritten
    <3> HIDE DEF b, c, p, o
    <3>6. QED
      BY <1>1, <1>3, <2>1, <2>2, <3>5 DEF NextWritten
  <2>5. CASE k = L - 1
    <3>1. PICK done \in Outcomes :
            /\ nvs' \in IF done THEN {Flushed(nvs, b, info)} ELSE FlushFails(nvs, b, info)
            /\ cache' = [b EXCEPT !.flush = FALSE]
            /\ last' = [NoCall EXCEPT !.op = "write", !.ret = TailRet(b, done)]
      <4> HIDE DEF c, p, o
      <4>1. WriteTail(c, p, o, nvs)
        BY <1>3, <2>3, <2>5 DEF WriteBuffered
      <4>2. LoadedNvs(c, p, o, nvs) = nvs /\ BuildInfo(c, p, o) = info
        BY <1>3
      <4>3. QED
        BY <4>1, <4>2 DEF WriteTail
    <3>2. done \in BOOLEAN
      BY DEF Outcomes
    <3>3. /\ b.id = i /\ b.flush = TRUE /\ Buffered(b, info[i].len) = x
          /\ \A s \in Slots : s < L => b.buf[s] = Piece(i, L, g, s)
      BY <1>4, <2>5
    <3> HIDE DEF b
    <3>4. Cut(i, x, nvs') /\ (done => nvs' = [nvs EXCEPT ![i] = x])
      BY <3>1, <3>2, <3>3 DEF Flushed, FlushFails, Cut
    <3>5. last' = [NoCall EXCEPT !.op = "write", !.ret = IF done THEN "ok" ELSE "failed"]
      BY <3>1, <3>2, <3>3 DEF TailRet
    <3>6. cache'.id = i /\ cache'.flush = FALSE
          /\ \A s \in Slots : s < x.len => cache'.buf[s] = x.cell[s]
      <4>1. cache'.id = i /\ cache'.flush = FALSE /\ cache'.buf = b.buf
        BY <3>1, <3>3
      <4>2. QED
        BY <1>5, <3>3, <4>1
    <3>7. last'.ret = IF done THEN "ok" ELSE "failed"
      BY <3>5 DEF NoCall
    <3>8. jobs' = [jobs EXCEPT ![i] = NoJob]
      BY <1>3, <2>1, <2>5
    <3>9. acked' = [acked EXCEPT ![i] = Stored(nvs'[i])]
      <4>1. nvs \in [Ids -> ItemType]
        BY DEF TableInv, Typed, Stores
      <4> HIDE DEF c, p, o, ver, old
      <4>2. acked' = [acked EXCEPT ![i] = IF done THEN ver ELSE Resolved(i, nvs', old)]
        BY <1>3, <2>1, <2>5, <3>2, <3>7
      <4>3. CASE done
        BY <1>5, <1>10, <3>4, <4>1, <4>2, <4>3
      <4>4. CASE ~ done
        <5>1. nvs' = nvs \/ (nvs' = [nvs EXCEPT ![i] = NoItem] /\ nvs[i] = x)
          BY <3>1, <3>3, <4>4 DEF FlushFails
        <5>2. Resolved(i, nvs', old) = Stored(nvs'[i])
          BY <1>11, <2>5, <5>1
        <5>3. QED
          BY <4>2, <4>4, <5>2
      <4>5. QED
        BY <4>3, <4>4
    <3>10. TailWritten(i, k, x, done)
      BY <2>5, <3>4, <3>5, <3>6, <3>8, <3>9 DEF TailWritten
    <3> HIDE DEF c, p, o
    <3>11. QED
      BY <1>1, <1>3, <2>1, <2>2, <3>10 DEF NextWritten
  <2>6. QED
    BY <2>4, <2>5
<1>8. QED
  BY <1>6, <1>7

LEMMA NextStore ==
    ASSUME Settled, NvramInv, TableInv, StoreInv, NEW i \in Ids, WriteNext(i)
    PROVE  StoreInv'
<1> DEFINE k == jobs[i].next
           L == info[i].len
           g == jobs[i].g
           c == Piece(i, L, g, k)
           whole == Record(i, L, g)
<1>1. /\ Typed /\ RecordInv /\ Whole(nvs) /\ nvs \in Stores /\ info \in TableType
      /\ jobs \in [Ids -> JobType] /\ JobBuffered(i)
      /\ \A j \in Ids : acked[j] = Stored(nvs[j])
      /\ (reloc.ds = NotFound => reloc.len = 0) /\ reloc.ds < DatasetNumber
  BY DEF TableInv, Typed, StoreInv, RecordInv
<1>2. /\ boot = "up" /\ i \in Active /\ Orderly(i)
      /\ i # 0 /\ L \in LensOf(i) /\ g \in GensOf(i)
      /\ k \in Nat /\ k > 0 /\ k < L /\ k \in Slots
      /\ \/ \E n : Cut(i, whole, n) /\ WriteCut(i, n, [len |-> L, g |-> g])
         \/ NextWritten(i, k, c, whole)
  <2>1. k = jobs[i].next /\ L = info[i].len /\ g = jobs[i].g /\ whole = Record(i, L, g)
    OBVIOUS
  <2> HIDE DEF k, L, g, whole
  <2>2. QED
    BY <1>1, <2>1, NextDoes
<1>3. Active = {i} /\ \A j \in Ids : j # i => jobs[j].next = 0
  <2>1. Active = {i}
    BY <1>1, <1>2, SettledNow DEF Orderly
  <2>2. ASSUME NEW j \in Ids, j # i PROVE jobs[j].next = 0
    <3>1. ~ (jobs[j].next > 0)
      BY <2>1, <2>2 DEF Active
    <3>2. jobs[j].next \in Nat
      BY <1>1, Sizes1 DEF JobType
    <3>3. QED
      BY <3>1, <3>2
  <2>3. QED
    BY <2>1, <2>2
<1>4. whole.len = L /\ IsRecord(i, whole) /\ whole \in ItemType /\ whole.cell \in Rows
      /\ Stored(whole) = [len |-> L, g |-> g] /\ L \in 2 .. MaxLen /\ L \in Nat
      /\ \A s \in Slots : s < L => whole.cell[s] = Piece(i, L, g, s)
  <2>1. whole = Record(i, L, g)
    OBVIOUS
  <2> HIDE DEF k, L, g, whole
  <2>2. QED
    BY <1>2, <2>1, WholeRecord
<1>5. CASE \E n : Cut(i, whole, n) /\ WriteCut(i, n, [len |-> L, g |-> g])
  <2>1. PICK n : Cut(i, whole, n) /\ WriteCut(i, n, [len |-> L, g |-> g])
    BY <1>5
  <2>2. n = nvs \/ n = [nvs EXCEPT ![i] = whole] \/ n = [nvs EXCEPT ![i] = NoItem]
    BY <2>1 DEF Cut
  <2>3. NoItem \in ItemType /\ NoItem.cell \in Rows /\ IsRecord(i, NoItem) /\ NoItem.len <= L
    BY <1>4, Cells1, NoItemFacts DEF IsRecord
  <2>4. Active \subseteq {i}
    BY <1>3
  <2>5. whole.len <= info[i].len
    BY <1>4
  <2> HIDE DEF c, k, g, whole
  <2>6. QED
    BY <1>2, <1>4, <2>1, <2>2, <2>3, <2>4, <2>5, PowerOf DEF WriteCut
<1>6. CASE NextWritten(i, k, c, whole)
  <2>1. UNCHANGED <<boot, scan, info, reloc, env>>
    BY <1>6 DEF NextWritten
  <2>2. info' = info /\ reloc' = reloc
    BY <2>1
  <2>5. acked \in [Ids -> AckType]
    BY <1>1 DEF Typed
  <2>6. CASE BodyWritten(i, k, c)
    <3>1. nvs' = nvs /\ Appended(i, k, c, cache') /\ k # L - 1
      BY <2>6 DEF BodyWritten
    <3>3. acked' = acked
      BY <2>6 DEF BodyWritten
    <3>4. /\ jobs'[i].next = k + 1 /\ jobs'[i].g = g /\ jobs'[i].got = NoCell
          /\ jobs'[i].old = jobs[i].old
          /\ \A j \in Ids : j # i => jobs'[j] = jobs[j]
      <4> DEFINE job == [jobs[i] EXCEPT !.next = k + 1, !.got = NoCell]
      <4>1. jobs[i] \in JobType /\ jobs' = [jobs EXCEPT ![i] = job]
        BY <1>1, <2>6 DEF BodyWritten
      <4>2. job.next = k + 1 /\ job.g = g /\ job.got = NoCell /\ job.old = jobs[i].old
        BY <4>1 DEF JobType
      <4> HIDE DEF job
      <4>3. QED
        BY <1>1, <4>1, <4>2
    <3>5. Active' = {i}
      <4>1. \A j \in Ids : jobs'[j].next > 0 <=> j = i
        BY <1>3, <1>2, <3>4
      <4>2. QED
        BY <4>1 DEF Active
    <3>6. JobBuffered(i)'
      <4>1. cache'.id = i /\ cache'.flush = TRUE /\ cache'.buf[k] = Piece(i, L, g, k)
            /\ \A s \in Slots : s # k => cache'.buf[s] = cache.buf[s]
        BY <1>2, <3>1 DEF Appended
      <4>2. ASSUME Holds(i, k) PROVE \A s \in Slots : s < k + 1 => cache'.buf[s] = Piece(i, L, g, s)
        <5>1. \A s \in Slots : s < k + 1 => s = k \/ (s < k /\ s # k)
          BY <1>2, Naturals1
        <5> HIDE DEF k, L, g
        <5>2. QED
          BY <4>1, <4>2, <5>1 DEF Holds, L, g
      <4>3. ASSUME Holds(i, L) PROVE \A s \in Slots : s < L => cache'.buf[s] = Piece(i, L, g, s)
        <5> HIDE DEF k, L, g
        <5>1. QED
          BY <4>1, <4>3 DEF Holds, L, g
      <4>4. k > 0
        BY <1>2
      <4>5. JobBuffered(i)
        BY <1>1
      <4>6. QED
        BY <1>2, <2>2, <3>4, <4>1, <4>2, <4>3, <4>4, <4>5 DEF JobBuffered, Holds
    <3>7. RecordInv'
      <4>1. ASSUME NEW j \in Ids, j # i PROVE JobBuffered(j)'
        BY <1>3, <3>4, <4>1 DEF JobBuffered
      <4>2. \A j \in Ids : acked'[j] = Stored(nvs'[j])
        BY <1>1, <3>1, <3>3
      <4>3. cache'.id \in Active'
        BY <3>1, <3>5 DEF Appended
      <4>4. QED
        BY <1>1, <2>2, <3>1, <3>6, <4>1, <4>2, <4>3 DEF RecordInv
    <3>8. ASSUME IsCalm(env) PROVE CalmInv'
      <4>1. CalmInv
        BY <3>8 DEF StoreInv
      <4>2. Synced'
        <5>1. cache'.id \in Active'
          BY <3>1, <3>5 DEF Appended
        <5>2. ASSUME NEW j \in Ids, jobs'[j].next = 0 PROVE info'[j].len = nvs'[j].len
          <6>1. jobs[j].next = 0
            BY <1>3, <1>2, <3>4, <5>2
          <6>2. QED
            BY <1>2, <2>2, <3>1, <4>1, <6>1 DEF CalmInv, Synced
        <5>3. QED
          BY <5>1, <5>2 DEF Synced
      <4>3. Filled'
        BY <2>1, <2>2, <3>1, <4>1 DEF CalmInv, Filled, LiveLen
      <4>4. Placing'
        BY <1>2, <2>1 DEF Placing
      <4>5. QED
        BY <4>2, <4>3, <4>4 DEF CalmInv
    <3>9. QED
      BY <2>1, <3>7, <3>8 DEF StoreInv
  <2>7. CASE \E done \in Outcomes : TailWritten(i, k, whole, done)
    <3>1. PICK done \in Outcomes : TailWritten(i, k, whole, done)
      BY <2>7
    <3>2. done \in BOOLEAN
      BY DEF Outcomes
    <3> HIDE DEF whole, c, k, g
    <3>4. Cut(i, whole, nvs') /\ (done => nvs' = [nvs EXCEPT ![i] = whole])
      BY <3>1 DEF TailWritten
    <3>6. cache'.id = i /\ cache'.flush = FALSE
          /\ \A s \in Slots : s < L => cache'.buf[s] = whole.cell[s]
      BY <1>4, <3>1 DEF TailWritten
    <3>7. jobs' = [jobs EXCEPT ![i] = NoJob]
      BY <3>1 DEF TailWritten
    <3>8. \A j \in Ids : jobs'[j].next = 0
      BY <1>1, <1>3, <3>7 DEF NoJob
    <3>9. Active' = {}
      <4>1. \A j \in Ids : ~ (jobs'[j].next > 0)
        BY <3>8
      <4>2. QED
        BY <4>1 DEF Active
    <3>10. \A j \in Ids : j # i => nvs'[j] = nvs[j]
      BY <1>1, <3>4 DEF Stores, Cut
    <3>11. done => nvs'[i] = whole
      BY <1>1, <3>4 DEF Stores
    <3>12. \A j \in Ids : acked'[j] = Stored(nvs'[j])
      <4>1. acked' = [acked EXCEPT ![i] = Stored(nvs'[i])]
        BY <3>1 DEF TailWritten
      <4>2. QED
        BY <1>1, <2>5, <3>10, <4>1
    <3>13. Whole(nvs')
      <4>1. IsRecord(i, NoItem)
        BY DEF IsRecord
      <4>2. QED
        BY <1>1, <1>4, <3>4, <4>1, WholePut DEF Cut
    <3>14. RecordInv'
      <4>1. \A j \in Ids : JobBuffered(j)'
        BY <3>8 DEF JobBuffered
      <4>2. QED
        BY <1>1, <2>2, <3>6, <3>12, <3>13, <4>1 DEF RecordInv
    <3>15. ASSUME IsCalm(env) PROVE CalmInv'
      <4>1. CalmInv /\ done = TRUE
        BY <3>1, <3>15 DEF StoreInv, IsCalm, Outcomes
      <4>2. nvs' = [nvs EXCEPT ![i] = whole] /\ nvs'[i] = whole
        BY <3>4, <3>11, <4>1
      <4>3. Synced'
        <5>1. ASSUME NEW j \in Ids PROVE info'[j].len = nvs'[j].len
          <6>1. CASE j = i
            BY <1>4, <2>2, <4>2, <6>1
          <6>2. CASE j # i
            BY <1>2, <1>3, <2>2, <3>10, <4>1, <6>2 DEF CalmInv, Synced
          <6>3. QED
            BY <6>1, <6>2
        <5>2. \A s \in Slots : s < info'[i].len => cache'.buf[s] = nvs'[i].cell[s]
          BY <1>4, <2>2, <3>6, <4>2, <4>1
        <5>3. QED
          BY <3>6, <5>1, <5>2 DEF Synced
      <4>4. Filled'
        <5>1. Sums(LensIn(nvs'))[DatasetNumber] <= Room
          <6>1. whole.len <= info[i].len /\ Active \subseteq {i}
            BY <1>3, <1>4
          <6>2. QED
            BY <1>2, <1>4, <3>15, <4>2, <6>1, WriteFits
        <5>2. QED
          BY <2>1, <2>2, <4>1, <5>1 DEF CalmInv, Filled, LiveLen
      <4>5. Placing'
        BY <1>2, <2>1 DEF Placing
      <4>6. QED
        BY <4>3, <4>4, <4>5 DEF CalmInv
    <3>16. QED
      BY <2>1, <3>14, <3>15 DEF StoreInv
  <2>8. QED
    BY <1>6, <2>6, <2>7 DEF NextWritten
<1>7. QED
  BY <1>2, <1>5, <1>6

-----------------------------------------------------------------------------
(* The old place of a copy answers from the buffer.                        *)

CopyPlace(i, p, o, v) ==
    /\ cache.id = i /\ cache.flush /\ Active = {i} /\ IsCalm(env)
    /\ i # 0 /\ info[i].len \in LensOf(i) /\ jobs[i].g \in GensOf(i)
    /\ jobs[i].old.len > 0 /\ Holds(i, info[i].len) /\ reloc.ds = i /\ reloc.old = jobs[i].old
    /\ jobs[i].old.pos + jobs[i].old.len <= PageSize
    /\ ReadId(p, o) = i /\ ReadReloc(p, o) = [reloc EXCEPT !.off = o - reloc.old.pos, !.len = 1]
    /\ v = Piece(i, info[i].len, jobs[i].g, jobs[i].next)

LEMMA CopyReads ==
    ASSUME Settled, TableInv, RecordInv, boot = "up", NEW i \in Ids, i \in Active, Orderly(i),
           IsCopied(i),
           NEW p, p = jobs[i].old.page, NEW o, o = jobs[i].old.pos + jobs[i].next
    PROVE  CopyPlace(i, p, o, ReadValue(p, o))
<1> DEFINE a == jobs[i].old
           k == jobs[i].next
           L == info[i].len
<1>1. /\ Typed /\ info \in TableType /\ jobs \in [Ids -> JobType] /\ cache \in Caches
      /\ JobFits(i) /\ JobBuffered(i) /\ k > 0 /\ a.len > 0 /\ k < L - 1
  BY DEF TableInv, Typed, RecordInv, Active, IsCopied
<1>2. /\ "copy" \in env /\ a.len = L /\ \A j \in Ids : Apart(a, info[j])
  BY <1>1 DEF JobFits
<1>3. IsCalm(env) /\ Active = {i}
  BY <1>1, <1>2, SettledNow DEF Orderly
<1>4. /\ i # 0 /\ L \in LensOf(i) /\ jobs[i].g \in GensOf(i)
      /\ cache.id = i /\ cache.flush /\ Holds(i, L) /\ reloc.ds = i /\ reloc.old = a
      /\ a.pos + a.len <= PageSize
  BY <1>1 DEF JobBuffered
<1>5. a \in InfoType /\ p \in Pages /\ a.pos \in Nat /\ k \in Nat /\ L \in Nat /\ L <= MaxLen
  <2>1. a \in InfoType /\ k \in 0 .. MaxLen
    BY <1>1 DEF JobType
  <2>2. QED
    BY <1>1, <2>1, Entry, Sizes1 DEF InfoType
<1> HIDE DEF a, k, L
<1>6. /\ o \in Nat /\ o - a.pos = k /\ k \in Slots /\ Covers(a, p, o) /\ ~ Invalid(o)
      /\ o >= a.pos /\ o + 1 < a.pos + a.len
  <2>1. o = a.pos + k /\ p = a.page
    BY DEF a, k
  <2>2. QED
    BY <1>1, <1>2, <1>4, <1>5, <2>1, Sizes1 DEF Covers, Invalid, Slots
<1>7. Find(info, p, o) = NotFound
  <2>1. ASSUME NEW j \in Ids, Covers(info[j], p, o) PROVE FALSE
    <3>1. info[j] \in InfoType
      BY <1>1, Entry
    <3>2. QED
      BY <1>2, <1>5, <1>6, <2>1, <3>1, CoverOnce
  <2>2. QED
    BY <2>1, FindSome
<1>8. i # NotFound
  BY Naturals1 DEF NotFound
<1>9. IsOldPlace(p, o)
  BY <1>4, <1>6, <1>8 DEF IsOldPlace, a
<1>10. ReadId(p, o) = i /\ ReadOff(p, o) = k
       /\ ReadReloc(p, o) = [reloc EXCEPT !.off = o - reloc.old.pos, !.len = 1]
  BY <1>4, <1>6, <1>7, <1>9 DEF ReadId, ReadOff, ReadReloc
<1>11. ReadValue(p, o) = cache.buf[k]
  BY <1>4, <1>6, <1>8, <1>10 DEF ReadValue, Loaded
<1>12. cache.buf[k] = Piece(i, L, jobs[i].g, k)
  <2>1. k < L
    BY <1>1, <1>5
  <2>2. QED
    BY <1>4, <1>6, <2>1 DEF Holds, L
<1>13. QED
  BY <1>1, <1>3, <1>4, <1>10, <1>11, <1>12 DEF CopyPlace, a, k, L

LEMMA CopyReadStore ==
    ASSUME Settled, NvramInv, TableInv, StoreInv, NEW i \in Ids, CopyRead(i)
    PROVE  StoreInv'
<1> DEFINE p == jobs[i].old.page
           o == jobs[i].old.pos + jobs[i].next
           v == ReadValue(p, o)
<1>1. boot = "up" /\ i \in Active /\ Orderly(i) /\ IsCopied(i)
  BY DEF CopyRead
<1>2. /\ RecordInv /\ CopyPlace(i, p, o, v) /\ jobs \in [Ids -> JobType] /\ reloc \in RelocType
      /\ cache \in Caches
  BY <1>1, CopyReads DEF StoreInv, TableInv, Typed
<1> HIDE DEF v, p, o
<1>3. i # NotFound
  BY Naturals1 DEF NotFound
<1>4. CASE \E n \in ReadStops(p, o) : PowerFails(n, acked, CutShort("read"))
  <2>1. PowerFails(nvs, acked, CutShort("read"))
    BY <1>2, <1>4 DEF ReadStops, CopyPlace
  <2>2. QED
    BY <2>1, PowerIdle
<1>5. CASE ~ \E n \in ReadStops(p, o) : PowerFails(n, acked, CutShort("read"))
  <2>1. /\ ReadEffect(p, o) /\ jobs' = [jobs EXCEPT ![i].got = v]
        /\ UNCHANGED <<boot, scan, info, free, acked, env>>
    BY <1>5 DEF CopyRead, v, p, o
  <2>2. nvs' = nvs /\ cache' = cache /\ reloc' = [reloc EXCEPT !.off = o - reloc.old.pos, !.len = 1]
    BY <1>2, <1>3, <2>1 DEF ReadEffect, CopyPlace
  <2>3. reloc'.ds = reloc.ds /\ reloc'.old = reloc.old
    BY <1>2, <2>2 DEF RelocType
  <2>4. /\ jobs'[i].got = v /\ jobs'[i].next = jobs[i].next /\ jobs'[i].old = jobs[i].old
        /\ jobs'[i].g = jobs[i].g
        /\ \A j \in Ids : j # i => jobs'[j] = jobs[j]
    <3>1. jobs[i] \in JobType /\ jobs' = [jobs EXCEPT ![i] = [jobs[i] EXCEPT !.got = v]]
      BY <1>2, <2>1
    <3>2. QED
      BY <1>2, <3>1 DEF JobType
  <2>5. \A j \in Ids : jobs'[j].next = jobs[j].next
    BY <2>4
  <2>6. Active' = Active
    BY <2>5 DEF Active
  <2>7. JobBuffered(i)'
    BY <1>2, <2>1, <2>2, <2>3, <2>4 DEF JobBuffered, CopyPlace, Holds
  <2>8. ASSUME NEW j \in Ids, j # i PROVE JobBuffered(j)'
    <3>1. ~ (jobs[j].next > 0)
      BY <1>2, <2>8 DEF CopyPlace, Active
    <3>2. QED
      BY <2>5, <3>1 DEF JobBuffered
  <2>9. RecordInv'
    BY <1>2, <1>3, <2>1, <2>2, <2>3, <2>5, <2>6, <2>7, <2>8 DEF RecordInv, CopyPlace
  <2>10. CalmInv'
    <3>1. CalmInv
      BY <1>2 DEF StoreInv, CopyPlace
    <3>2. Synced'
      BY <2>1, <2>2, <2>5, <2>6, <3>1 DEF CalmInv, Synced
    <3>3. Filled'
      BY <2>1, <2>2, <3>1 DEF CalmInv, Filled, LiveLen
    <3>4. Placing'
      BY <1>1, <2>1 DEF Placing
    <3>5. QED
      BY <3>2, <3>3, <3>4 DEF CalmInv
  <2>11. QED
    BY <2>1, <2>9, <2>10 DEF StoreInv
<1>6. QED
  BY <1>4, <1>5

-----------------------------------------------------------------------------
(* The core reads, moves and erases.                                       *)

LEMMA ReadReturns ==
    ASSUME Settled, NvramInv, TableInv, StoreInv, boot = "up", Active = {},
           NEW p \in Pages, NEW o \in Nat, ReadEffect(p, o),
           UNCHANGED <<boot, scan, info, jobs, acked, env>>
    PROVE  StoreInv'
<1> DEFINE d == ReadId(p, o)
<1>1. /\ Typed /\ RecordInv /\ info \in TableType /\ nvs \in Stores /\ cache \in Caches
      /\ reloc \in RelocType
      /\ (reloc.ds = NotFound => reloc.len = 0) /\ reloc.ds < DatasetNumber
  BY DEF TableInv, Typed, StoreInv, RecordInv
<1>2. /\ cache.flush = FALSE
      /\ \A j \in Ids : jobs[j].next = 0 /\ acked[j] = Stored(nvs[j])
      /\ AfterFlush(nvs, cache, info) = {nvs}
  BY <1>1, Idle DEF AfterFlush
<1>3. d = NotFound \/ d \in Ids
  BY <1>1, FindSome DEF ReadId, IsOldPlace, RelocType
<1> HIDE DEF d
<1>4. nvs' = nvs /\ (cache' = cache \/ (d \in Ids /\ cache' = Loaded(nvs, cache, info, d, 0)))
  BY <1>2, <1>3 DEF ReadEffect, d
<1>5. cache'.flush = FALSE
  <2>1. d \in Ids => Loaded(nvs, cache, info, d, 0).flush = FALSE
    BY <1>2 DEF Loaded
  <2>2. QED
    BY <1>2, <1>4, <2>1
<1>6. (reloc'.ds = NotFound => reloc'.len = 0) /\ reloc'.ds < DatasetNumber
  <2>1. reloc' = ReadReloc(p, o)
    BY DEF ReadEffect
  <2>2. \/ reloc' = reloc
        \/ reloc' = [reloc EXCEPT !.ds = NotFound, !.off = 0, !.len = 0]
        \/ /\ reloc' = [reloc EXCEPT !.off = o - reloc.old.pos, !.len = 1]
           /\ reloc.ds # NotFound
    BY <2>1 DEF ReadReloc, IsOldPlace
  <2>3. NotFound < DatasetNumber
    BY Sizes1 DEF NotFound
  <2>4. QED
    BY <1>1, <2>2, <2>3 DEF RelocType
<1>7. Active' = {}
  BY DEF Active
<1>8. RecordInv'
  <2>1. \A j \in Ids : JobBuffered(j)'
    BY <1>2 DEF JobBuffered
  <2>2. QED
    BY <1>1, <1>2, <1>4, <1>5, <1>6, <2>1 DEF RecordInv
<1>9. ASSUME IsCalm(env) PROVE CalmInv'
  <2>1. CalmInv
    BY <1>9 DEF StoreInv
  <2>2. Synced'
    <3>1. \A s \in Slots : s < info[cache'.id].len => cache'.buf[s] = nvs[cache'.id].cell[s]
      <4>1. CASE cache' = cache
        BY <2>1, <4>1 DEF CalmInv, Synced
      <4>2. CASE d \in Ids /\ cache' = Loaded(nvs, cache, info, d, 0)
        <5>1. Loaded(nvs, cache, info, d, 0).id = d
          BY <1>1, <4>2, LoadStore
        <5>2. QED
          BY <1>1, <2>1, <4>2, <5>1, LoadedWhole
      <4>3. QED
        BY <1>4, <4>1, <4>2
    <3>2. QED
      BY <1>2, <1>4, <2>1, <3>1 DEF CalmInv, Synced
  <2>3. Filled'
    BY <1>4, <2>1 DEF CalmInv, Filled, LiveLen
  <2>4. Placing'
    BY DEF Placing
  <2>5. QED
    BY <2>2, <2>3, <2>4 DEF CalmInv
<1>10. QED
  BY <1>8, <1>9 DEF StoreInv

LEMMA ReadStore ==
    ASSUME Settled, NvramInv, TableInv, StoreInv, NEW p \in Pages, NEW o \in ReadPoints(p), Read(p, o)
    PROVE  StoreInv'
<1>1. Typed /\ RecordInv /\ info \in TableType
  BY DEF TableInv, Typed, StoreInv
<1>2. o \in Nat
  BY <1>1, Entry, Sizes1 DEF ReadPoints
<1>3. boot = "up" /\ Active = {}
  BY <1>1, SettledNow DEF Read
<1>4. CASE \E n \in ReadStops(p, o) : PowerFails(n, acked, CutShort("read"))
  <2>1. FlushStops(nvs, cache, info) = {nvs}
    BY <1>1, <1>3, Idle
  <2>2. PowerFails(nvs, acked, CutShort("read"))
    BY <1>4, <2>1 DEF ReadStops
  <2>3. QED
    BY <2>2, PowerIdle
<1>5. CASE ~ \E n \in ReadStops(p, o) : PowerFails(n, acked, CutShort("read"))
  BY <1>2, <1>3, <1>5, ReadReturns DEF Read
<1>6. QED
  BY <1>4, <1>5

LEMMA MoveStore ==
    ASSUME Settled, NvramInv, TableInv, StoreInv, NEW d \in Types, NEW p \in Pages, Move(d, p)
    PROVE  StoreInv'
<1>1. Typed /\ info \in TableType /\ d \in Ids
  BY TypeFacts DEF TableInv, Typed
<1>2. info[d].page \in Pages /\ info[d].pos \in Nat
  BY <1>1, Entry
<1>3. /\ boot = "up" /\ Orderly(d) /\ jobs[d].next = 0
      /\ ReadEffect(info[d].page, info[d].pos)
      /\ UNCHANGED <<boot, scan, info, jobs, acked, env>>
  BY DEF Move
<1>4. Active = {}
  <2>1. Active \subseteq {d}
    BY <1>1, <1>3, SettledNow DEF Orderly
  <2>2. d \notin Active
    BY <1>3 DEF Active
  <2>3. QED
    BY <2>1, <2>2
<1>5. QED
  BY <1>2, <1>3, <1>4, ReadReturns

LEMMA EraseStore ==
    ASSUME Settled, NvramInv, TableInv, StoreInv, NEW p \in Pages, Erase(p)
    PROVE  StoreInv'
<1> DEFINE found(k) == [i \in Ids |-> IF i \in Gone(p)
                                        THEN Resolved(i, ErasedUpTo(p, k), {acked[i], NoAck})
                                        ELSE acked[i]]
           call == [CutShort("erase") EXCEPT !.page = p]
<1>1. /\ Typed /\ RecordInv /\ info \in TableType /\ nvs \in Stores /\ cache \in Caches
      /\ Whole(nvs) /\ (reloc.ds = NotFound => reloc.len = 0) /\ reloc.ds < DatasetNumber
  BY DEF TableInv, Typed, StoreInv, RecordInv
<1>2. boot = "up" /\ Active = {}
  BY <1>1, SettledNow DEF Erase
<1>3. cache.flush = FALSE /\ \A j \in Ids : jobs[j].next = 0 /\ acked[j] = Stored(nvs[j])
  BY <1>1, <1>2, Idle
<1>4. ASSUME NEW k \in Int
      PROVE  /\ ErasedUpTo(p, k) \in Stores /\ Whole(ErasedUpTo(p, k))
             /\ \A j \in Ids : j \notin Gone(p) => ErasedUpTo(p, k)[j] = nvs[j]
             /\ IsCalm(env) => Sums(LensIn(ErasedUpTo(p, k)))[DatasetNumber] <= Room
  <2> DEFINE n == ErasedUpTo(p, k)
  <2>1. \A j \in Ids : n[j] = NoItem \/ n[j] = nvs[j]
    BY DEF ErasedUpTo
  <2>2. n \in Stores
    <3>1. nvs \in [Ids -> ItemType] /\ \A j \in Ids : nvs[j].cell \in Rows
      BY <1>1 DEF Stores
    <3>2. n \in [Ids -> ItemType] /\ \A j \in Ids : n[j].cell \in Rows
      BY <3>1, Cells1 DEF ErasedUpTo
    <3>3. QED
      BY <3>2 DEF Stores
  <2>3. \A j \in Ids : j \notin Gone(p) => n[j] = nvs[j]
    BY DEF ErasedUpTo, Gone
  <2> HIDE DEF n
  <2>4. Whole(n)
    BY <1>1, <2>1 DEF Whole, IsRecord
  <2>5. \A j \in Ids : n[j].len <= nvs[j].len
    <3>1. \A j \in Ids : nvs[j].len \in Nat
      BY <1>1, StoredLen DEF Whole
    <3>2. QED
      BY <2>1, <3>1, NoItemFacts
  <2>6. ASSUME IsCalm(env) PROVE Sums(LensIn(n))[DatasetNumber] <= Room
    <3>1. Sums(LensIn(nvs))[DatasetNumber] <= Room
      BY <2>6 DEF StoreInv, CalmInv, Filled
    <3>2. QED
      BY <1>1, <2>4, <2>5, <3>1, StillFits
  <2>7. QED
    BY <2>2, <2>3, <2>4, <2>6 DEF n
<1>5. CASE \E k \in 0 .. (DatasetNumber + PageCount) :
              PowerFails(ErasedUpTo(p, k), found(k), call)
  <2>1. PICK k \in 0 .. (DatasetNumber + PageCount) : PowerFails(ErasedUpTo(p, k), found(k), call)
    BY <1>5
  <2> DEFINE n == ErasedUpTo(p, k)
             F == found(k)
  <2>2. \A j \in Ids : F[j] = Stored(n[j])
    <3>1. ASSUME NEW j \in Ids PROVE Resolved(j, n, {acked[j], NoAck}) = Stored(n[j])
      <4>1. n[j] = nvs[j] \/ n[j] = NoItem
        BY DEF ErasedUpTo
      <4> DEFINE may == {acked[j], NoAck}
      <4>2. n[j] = nvs[j] \/ Stored(n[j]) \in may
        BY <4>1, NoItemFacts
      <4> HIDE DEF n, may
      <4>3. QED
        BY <1>1, <4>2, Resolves DEF may
    <3>2. QED
      BY <1>3, <1>4, <3>1
  <2>3. /\ n \in Stores /\ Whole(n)
        /\ IsCalm(env) => Sums(LensIn(n))[DatasetNumber] <= Room
        /\ PowerFails(n, F, call)
    BY <1>4, <2>1
  <2> HIDE DEF n, F, call
  <2>4. QED
    BY <2>2, <2>3, PowerStore
<1>6. CASE ~ \E k \in 0 .. (DatasetNumber + PageCount) :
              PowerFails(ErasedUpTo(p, k), found(k), call)
  <2> DEFINE n == ErasedUpTo(p, DatasetNumber + PageCount)
  <2>1. /\ nvs' = n
        /\ info' = [i \in Ids |-> IF i \in Gone(p) THEN NoInfo ELSE info[i]]
        /\ cache' = [cache EXCEPT !.id = 0, !.buf = [s \in Slots |-> Junk]]
        /\ jobs' = [i \in Ids |-> IF i \in Gone(p) THEN NoJob ELSE jobs[i]]
        /\ acked' = [i \in Ids |-> IF i \in Gone(p) THEN NoAck ELSE acked[i]]
        /\ UNCHANGED <<boot, scan, reloc, env>>
    BY <1>6 DEF Erase
  <2>2. /\ n \in Stores /\ Whole(n)
        /\ \A j \in Ids : j \notin Gone(p) => n[j] = nvs[j]
        /\ IsCalm(env) => Sums(LensIn(n))[DatasetNumber] <= Room
    BY <1>4, Naturals1
  <2>3. \A j \in Ids : j \in Gone(p) => n[j] = NoItem
    BY Naturals1 DEF ErasedUpTo, Gone
  <2> HIDE DEF n
  <2>4. /\ \A j \in Ids : jobs'[j].next = 0 /\ acked'[j] = Stored(nvs'[j])
        /\ \A j \in Ids : (j \in Gone(p) /\ info'[j] = NoInfo /\ nvs'[j] = NoItem)
                            \/ (j \notin Gone(p) /\ info'[j] = info[j] /\ nvs'[j] = nvs[j])
    BY <1>3, <2>1, <2>2, <2>3, NoItemFacts DEF NoJob
  <2>5. cache'.id = 0 /\ cache'.flush = FALSE /\ 0 \in Ids
    BY <1>1, <1>3, <2>1, Naturals1 DEF Caches
  <2>6. RecordInv'
    <3>1. \A j \in Ids : JobBuffered(j)'
      BY <2>4 DEF JobBuffered
    <3>2. QED
      BY <1>1, <2>1, <2>2, <2>4, <2>5, <3>1 DEF RecordInv
  <2>7. ASSUME IsCalm(env) PROVE CalmInv'
    <3>1. /\ CalmInv /\ \A j \in Ids : info[j].len = nvs[j].len
          /\ info[0].len = 0
      BY <1>2, <1>3, <2>7 DEF StoreInv, CalmInv, Synced, NvramInv, Tables
    <3>2. NoInfo.len = 0 /\ NoInfo.pos = 0
      BY DEF NoInfo
    <3>3. \A j \in Ids : info'[j].len = nvs'[j].len
      BY <2>4, <3>1, <3>2, NoItemFacts
    <3>4. Synced'
      <4>1. info'[0].len = 0 /\ \A s \in Slots : ~ (s < 0)
        BY <2>4, <2>5, <3>1, <3>2, Naturals1
      <4>2. QED
        BY <2>5, <3>3, <4>1 DEF Synced
    <3>5. Filled'
      <4>1. LensIn(info)' = LensIn(n)
        BY <2>1, <3>3 DEF LensIn
      <4>2. LiveLen' = Sums(LensIn(n))[DatasetNumber]
        BY <4>1 DEF LiveLen, LensIn
      <4>3. Sums(LensIn(nvs'))[DatasetNumber] <= Room /\ LiveLen' <= Room
        BY <2>1, <2>2, <2>7, <4>2
      <4>4. /\ \A j \in Ids : info'[j].pos + info'[j].len <= PageSize
            /\ \A j \in Ids : j < DatasetNumber /\ info'[j].len > 0 => info'[j].pos > 0
        BY <2>4, <3>1, <3>2, Sizes1 DEF CalmInv, Filled
      <4>5. QED
        BY <4>3, <4>4 DEF Filled
    <3>6. Placing'
      BY <1>2, <2>1 DEF Placing
    <3>7. QED
      BY <3>4, <3>5, <3>6 DEF CalmInv
  <2>8. QED
    BY <2>1, <2>6, <2>7 DEF StoreInv
<1>7. QED
  BY <1>5, <1>6

-----------------------------------------------------------------------------
(* The invariant of the records holds.                                     *)

LEMMA StoreInvInit ==
    ASSUME Init
    PROVE  StoreInv
<1>1. /\ boot = "headers" /\ scan = ScanStart /\ info = [i \in Ids |-> NoInfo]
      /\ nvs = [i \in Ids |-> NoItem] /\ cache = BlankCache /\ reloc = NoReloc
      /\ jobs = [i \in Ids |-> NoJob] /\ acked = [i \in Ids |-> NoAck]
  BY DEF Init
<1>2. /\ \A i \in Ids : /\ jobs[i].next = 0 /\ info[i].len = 0 /\ info[i].pos = 0
                        /\ nvs[i] = NoItem /\ acked[i] = Stored(nvs[i])
      /\ cache.id = 0 /\ cache.flush = FALSE /\ reloc.len = 0 /\ reloc.ds = -1
      /\ scan.id = DatasetNumber
  BY <1>1, NoItemFacts DEF NoJob, NoInfo, BlankCache, NoReloc, NotFound, ScanStart
<1>3. Whole(nvs)
  BY <1>2 DEF Whole, IsRecord
<1>4. RecordInv
  <2>1. \A i \in Ids : JobBuffered(i)
    BY <1>2 DEF JobBuffered
  <2>2. reloc.ds < DatasetNumber
    BY <1>2, Sizes1
  <2>3. QED
    BY <1>2, <1>3, <2>1, <2>2 DEF RecordInv
<1>5. CalmInv
  <2>1. HeaderSafe(nvs)
    BY <1>2, NoItemFacts, TypeFacts DEF HeaderSafe
  <2>2. Synced
    <3>1. 0 \in Ids /\ \A s \in Slots : ~ (s < 0)
      BY Naturals1
    <3>2. info[cache.id].len = 0 /\ boot # "up"
      BY <1>1, <1>2, <3>1
    <3>3. QED
      BY <3>1, <3>2 DEF Synced
  <2>3. Sums(LensIn(nvs))[DatasetNumber] <= Room
    <3> DEFINE S == Sums(LensIn(nvs))
               bad == {k \in Steps : S[k] # 0}
    <3>1. /\ S[0] = 0
          /\ \A k \in Steps : k > 0 => S[k] = S[k - 1] + LensIn(nvs)[k - 1]
      BY <1>3, LensList, SumsRec
    <3>2. \A i \in Ids : LensIn(nvs)[i] = 0
      BY <1>2, NoItemFacts DEF LensIn
    <3> HIDE DEF S
    <3>3. bad = {}
      <4> SUFFICES ASSUME bad # {} PROVE FALSE
        OBVIOUS
      <4>1. PICK k \in bad : \A m \in bad : k <= m
        <5>1. bad \subseteq Nat
          BY StepOf
        <5> HIDE DEF bad
        <5>2. QED
          BY <5>1, Least
      <4>2. k \in Steps /\ k \in Nat /\ k > 0
        BY <3>1, <4>1, StepOf
      <4>3. k - 1 \in Steps /\ k - 1 \in Ids /\ ~ (k <= k - 1)
        BY <4>2, StepOf
      <4>4. S[k - 1] = 0
        BY <4>1, <4>3
      <4>5. S[k] = 0
        BY <3>1, <3>2, <4>2, <4>3, <4>4
      <4>6. QED
        BY <4>1, <4>5
    <3>4. S[DatasetNumber] = 0
      BY <3>3, LastStep
    <3>5. QED
      BY <3>4, Sizes1 DEF S, Room
  <2>4. Filled
    BY <1>1, <1>2, <2>3, Sizes1 DEF Filled
  <2>5. Placing
    <3>1. \A i \in Ids : ~ (DatasetNumber <= i /\ i < DatasetNumber)
      BY Naturals1
    <3>2. QED
      BY <1>1, <1>2, <2>1, <3>1 DEF Placing
  <2>6. QED
    BY <2>2, <2>4, <2>5 DEF CalmInv
<1>6. QED
  BY <1>4, <1>5 DEF StoreInv

LEMMA StoreInvStep ==
    ASSUME Settled, NvramInv, TableInv, StoreInv, Next
    PROVE  StoreInv'
<1>1. ~ Deinit
  BY SettledNow DEF Deinit, TableInv
<1>2. QED
  BY <1>1, HeaderStore, HeadersDoneStore, DatasetStore, DoneStore, CrashStore, FormatStore,
     BeginWriteStore, BeginCopyStore, MoveStore, CopyReadStore, NextStore, ReadStore,
     EraseStore DEF Next

LEMMA StoreInvHolds == Settled => (Spec => []StoreInv)
<1> SUFFICES ASSUME Settled PROVE Spec => []StoreInv
  OBVIOUS
<1>1. Tame
  BY DEF Settled, IsCalm, Tame
<1>2. Init => StoreInv
  BY StoreInvInit
<1>3. NvramInv /\ TableInv /\ StoreInv /\ [Next]_vars => StoreInv'
  <2>1. CASE Next
    BY <2>1, StoreInvStep
  <2>2. CASE UNCHANGED vars
    BY <2>2 DEF vars, StoreInv, RecordInv, JobBuffered, Holds, Active, CalmInv, Synced, Filled,
                LiveLen, Placing
  <2>3. QED
    BY <2>1, <2>2
<1>4. QED
  BY <1>1, <1>2, <1>3, NvramInvHolds, TableInvHolds, PTL DEF Spec

LEMMA NoFatalHolds == Settled => (Spec => []NoFatal)
<1> SUFFICES ASSUME Settled PROVE Spec => []NoFatal
  OBVIOUS
<1>1. Tame
  BY DEF Settled, IsCalm, Tame
<1>2. Init => NoFatal
  BY DEF Init, NoFatal
<1>3. NvramInv /\ TableInv /\ StoreInv /\ NoFatal /\ [Next]_vars => NoFatal'
  <2> SUFFICES ASSUME NvramInv, TableInv, StoreInv, NoFatal, [Next]_vars, IsCalm(env'),
                      PageCount >= 2, boot' = "fatal"
               PROVE  FALSE
    BY DEF NoFatal
  <2>1. CASE BootDataset
    <3>1. env' = env
      BY <2>1 DEF BootDataset
    <3>2. PageCount < 2
      BY <2>1, <3>1, DatasetStore
    <3>3. QED
      BY <3>2, Sizes1
  <2>2. CASE Next /\ ~ BootDataset
    <3> DEFINE Fine == env' = env /\ boot' \in {boot, "up", "headers", "datasets"}
    <3>1. ASSUME NEW n, NEW F, NEW w, PowerFails(n, F, w) PROVE Fine
      BY <3>1 DEF PowerFails
    <3>2. ASSUME NEW i, NEW c, NEW p, NEW o, NEW job, CoreWrite(i, c, p, o, job) PROVE Fine
      BY <3>1, <3>2 DEF CoreWrite
    <3>3. ASSUME BootHeader \/ BootHeadersDone \/ BootDone PROVE Fine
      BY <3>3 DEF BootHeader, BootHeadersDone, BootDone
    <3>4. ASSUME Crash \/ Deinit PROVE Fine
      <4>1. CASE Deinit
        BY <4>1 DEF Deinit
      <4>2. CASE PowerFails(nvs, acked, CutShort("idle"))
        BY <3>1, <4>2
      <4>3. QED
        BY <3>4, <4>1, <4>2 DEF Crash
    <3>5. ASSUME \E p \in Pages : FormatPage(p) PROVE Fine
      BY <3>2, <3>5 DEF FormatPage
    <3>6. ASSUME \E d \in Types, p \in Pages, l \in Lens, g \in Gens : BeginWrite(d, p, l, g)
          PROVE  Fine
      <4>1. PICK d \in Types, p \in Pages, l \in Lens, g \in Gens : BeginWrite(d, p, l, g)
        BY <3>6
      <4>2. QED
        BY <3>2, <4>1 DEF BeginWrite
    <3>7. ASSUME \E d \in Types, p \in Pages : BeginCopy(d, p) PROVE Fine
      <4>1. PICK d \in Types, p \in Pages : BeginCopy(d, p)
        BY <3>7
      <4>2. QED
        BY <3>2, <4>1 DEF BeginCopy
    <3>8. ASSUME \E i \in Ids : WriteNext(i) PROVE Fine
      BY <3>2, <3>8 DEF WriteNext
    <3>9. ASSUME \E i \in Ids : CopyRead(i) PROVE Fine
      BY <3>1, <3>9 DEF CopyRead
    <3>10. ASSUME \E d \in Types, p \in Pages : Move(d, p) PROVE Fine
      BY <3>10 DEF Move
    <3>11. ASSUME \E p \in Pages : \E o \in ReadPoints(p) : Read(p, o) PROVE Fine
      BY <3>1, <3>11 DEF Read
    <3>12. ASSUME \E p \in Pages : Erase(p) PROVE Fine
      BY <3>1, <3>12 DEF Erase
    <3>13. Fine
      <4> HIDE DEF Fine
      <4>1. QED
        BY <2>2, <3>3, <3>4, <3>5, <3>6, <3>7, <3>8, <3>9, <3>10, <3>11, <3>12 DEF Next
    <3>14. QED
      BY <3>13 DEF NoFatal
  <2>3. CASE UNCHANGED vars
    BY <2>3 DEF vars, NoFatal
  <2>4. QED
    BY <2>1, <2>2, <2>3
<1>4. QED
  BY <1>1, <1>2, <1>3, NvramInvHolds, TableInvHolds, StoreInvHolds, PTL DEF Spec

-----------------------------------------------------------------------------
(* What the backend promises.                                              *)

(* The flash holds complete records only, at every instant and whatever    *)
(* fails: do_localNvs_write is reached with a whole record in the buffer.  *)
THEOREM RecordsAreWhole == Settled => (Spec => []NoTornRecord)
<1> SUFFICES ASSUME Settled PROVE Spec => []NoTornRecord
  OBVIOUS
<1>1. StoreInv => NoTornRecord
  <2> SUFFICES ASSUME Whole(nvs), NEW i \in Ids, nvs[i].len > 0
               PROVE  \E g \in Gens \cup {0} : nvs[i] = Record(i, nvs[i].len, g)
    BY DEF StoreInv, RecordInv, NoTornRecord
  <2>1. IsRecord(i, nvs[i]) /\ nvs[i].len # 0
    BY DEF Whole
  <2> DEFINE x == nvs[i]
  <2> HIDE DEF x
  <2>2. x.cell[0].g \in GensOf(i) /\ x = Record(i, x.len, x.cell[0].g)
    BY <2>1, StoredRecord DEF x
  <2>3. QED
    BY <2>2, GensFit DEF x
<1>2. QED
  BY <1>1, StoreInvHolds, PTL

(* What the flash holds is what the core counts on.                        *)
LEMMA AckedRecord ==
    ASSUME TableInv, RecordInv, NEW d \in Types
    PROVE  /\ nvs[d].len = acked[d].len
           /\ acked[d].len = 0 => acked[d] = NoAck /\ nvs[d] = NoItem
           /\ acked[d].len # 0 =>
                 /\ acked[d] # NoAck /\ nvs[d] = Record(d, acked[d].len, acked[d].g)
                 /\ acked[d].len \in LensOf(d) /\ acked[d].g \in GensOf(d)
<1> DEFINE x == nvs[d]
<1>1. d \in Ids /\ IsRecord(d, x) /\ acked[d] = Stored(x)
  BY TypeFacts DEF RecordInv, Whole
<1> HIDE DEF x
<1>2. CASE x.len = 0
  BY <1>1, <1>2, StoredLen, NoItemFacts DEF x
<1>3. CASE x.len # 0
  <2>1. x.len \in LensOf(d) /\ x.cell[0].g \in GensOf(d) /\ x = Record(d, x.len, x.cell[0].g)
    BY <1>1, <1>3, StoredRecord
  <2>2. acked[d] = [len |-> x.len, g |-> x.cell[0].g]
    BY <1>1, <1>3 DEF Stored
  <2>3. QED
    BY <1>3, <2>1, <2>2, NoItemFacts DEF x
<1>4. QED
  BY <1>2, <1>3

(* The flash holds the version of a dataset whose tail was accepted last,  *)
(* also while another is written over it and after that failed: where      *)
(* datasets are relocated on a flash that works, and where nothing is      *)
(* relocated but nvs_write fails or page 0 has lost its header.            *)
THEOREM AcceptedIsStored == Settled => (Spec => []FlashHoldsAcked)
<1> SUFFICES ASSUME Settled PROVE Spec => []FlashHoldsAcked
  OBVIOUS
<1>1. Tame
  BY DEF Settled, IsCalm, Tame
<1>2. TableInv /\ StoreInv => FlashHoldsAcked
  BY AckedRecord, NoItemFacts DEF StoreInv, FlashHoldsAcked
<1>3. QED
  BY <1>1, <1>2, TableInvHolds, StoreInvHolds, PTL

(* While only the power fails, and not in the gap in which page 0 has no   *)
(* header, every dataset that was accepted is found and read back as it    *)
(* was written, after any number of relocations, moves, erasures and       *)
(* restarts.                                                               *)
THEOREM AcceptedIsReadable == Calm => (Spec => []CommittedReadable)
<1> SUFFICES ASSUME Calm PROVE Spec => []CommittedReadable
  OBVIOUS
<1>1. Settled /\ Tame
  BY DEF Calm, Settled, IsCalm, Tame
<1>2. TableInv /\ StoreInv => CommittedReadable
  <2> SUFFICES ASSUME TableInv, StoreInv, boot = "up", NEW d \in Types, acked[d].len > 0,
                      jobs[d].next = 0
               PROVE  /\ info[d].len = acked[d].len
                      /\ \A s \in 0 .. (acked[d].len - 1) :
                            ReadValue(info[d].page, info[d].pos + s)
                              = Piece(d, acked[d].len, acked[d].g, s)
    BY DEF CommittedReadable
  <2>1. IsCalm(env) /\ RecordInv /\ d \in Ids
    BY <1>1, TypeFacts DEF Calm, TableInv, Typed, StoreInv
  <2> DEFINE l == acked[d].len
             g == acked[d].g
  <2>2. /\ nvs[d].len = l /\ nvs[d] = Record(d, l, g) /\ l \in LensOf(d) /\ g \in GensOf(d)
    BY <2>1, AckedRecord
  <2>3. info[d].len = l
    BY <2>1, <2>2 DEF StoreInv, CalmInv, Synced
  <2> HIDE DEF l, g
  <2>4. ASSUME NEW s \in 0 .. (l - 1)
        PROVE  ReadValue(info[d].page, info[d].pos + s) = Piece(d, l, g, s)
    <3>1. l \in Nat /\ s \in Nat /\ s < l
      BY <2>1, <2>2, LensFit
    <3>2. s \in Slots /\ ReadValue(info[d].page, info[d].pos + s) = nvs[d].cell[s]
      BY <2>1, <2>3, <3>1, ReadPiece
    <3>3. nvs[d].cell[s] = Piece(d, l, g, s)
      BY <2>1, <2>2, <3>1, <3>2, RecordFacts
    <3>4. QED
      BY <3>2, <3>3
  <2>5. QED
    BY <2>3, <2>4 DEF l, g
<1>3. QED
  BY <1>1, <1>2, TableInvHolds, StoreInvHolds, PTL

(* ... and no dataset that was erased, or never written, comes back.       *)
THEOREM ErasedStaysErased == Calm => (Spec => []NothingResurrected)
<1> SUFFICES ASSUME Calm PROVE Spec => []NothingResurrected
  OBVIOUS
<1>1. Settled /\ Tame
  BY DEF Calm, Settled, IsCalm, Tame
<1>2. TableInv /\ StoreInv => NothingResurrected
  <2> SUFFICES ASSUME TableInv, StoreInv, boot = "up", NEW d \in Types, acked[d].len = 0,
                      jobs[d].next = 0
               PROVE  info[d].len = 0
    BY DEF NothingResurrected
  <2>1. IsCalm(env) /\ RecordInv /\ d \in Ids
    BY <1>1, TypeFacts DEF Calm, TableInv, Typed, StoreInv
  <2>2. nvs[d].len = 0
    BY <2>1, AckedRecord
  <2>3. QED
    BY <2>1, <2>2 DEF StoreInv, CalmInv, Synced
<1>3. QED
  BY <1>1, <1>2, TableInvHolds, StoreInvHolds, PTL

(* Under the same conditions what a rebuilding places lies whole inside    *)
(* its page, and with a second page the start never ends in                *)
(* RET_OUT_OF_RANGE: a first page that is exactly full sends the loop on   *)
(* to the next.                                                            *)
THEOREM RebuildingFits == Calm /\ PageCount >= 2 => (Spec => []RebuildFits)
<1> SUFFICES ASSUME Calm, PageCount >= 2 PROVE Spec => []RebuildFits
  OBVIOUS
<1>1. Settled /\ Tame
  BY DEF Calm, Settled, IsCalm, Tame
<1>2. TableInv /\ StoreInv /\ NoFatal => RebuildFits
  BY DEF Calm, TableInv, Typed, StoreInv, CalmInv, Filled, NoFatal, RebuildFits
<1>3. QED
  BY <1>1, <1>2, TableInvHolds, StoreInvHolds, NoFatalHolds, PTL

-----------------------------------------------------------------------------
(* The backend as the abstract store.                                      *)

(* The record of d being written, and where d lies.                        *)
Pending(d) == IF jobs[d].next > 0 THEN Version(d) ELSE NoAck
Place(d) == IF info[d].len > 0 THEN info[d].page ELSE NotFound

(* A call of the core that power did not cut short, and what it leaves of  *)
(* a dataset.                                                              *)
Called(op) == last'.op = op /\ last'.id = 0 /\ last'.page = NotFound
Untouched(d) ==
    Stored(nvs'[d]) = Stored(nvs[d]) /\ Pending(d)' = Pending(d) /\ Place(d)' = Place(d)

LEMMA CallIs ==
    ASSUME NEW op, NEW ret, last' = [NoCall EXCEPT !.op = op, !.ret = ret]
                            \/ last' = [NoCall EXCEPT !.op = op]
    PROVE  Called(op)
BY DEF NoCall, Called

(* How the calls of the core, and what they change, read in the store.     *)
LEMMA TouchMaps ==
    ASSUME NEW op \in {"write", "read", "move"}, Called(op), \A d \in Types : Untouched(d)
    PROVE  Store!Next
<1>1. 0 \notin Types
  BY TypeFacts
<1>2. Store!Touch
  BY <1>1 DEF Store!Touch, Store!Run, Store!Cause, Called, Untouched, Pending, Place
<1>3. QED
  BY <1>2 DEF Store!Next

LEMMA BeginMaps ==
    ASSUME NEW d \in Types, NEW v \in [len : Lens, g : Gens], NEW p \in Pages, Called("write"),
           Pending(d) = NoAck, Pending(d)' = v, Place(d)' = p,
           \A j \in Types : j # d => Untouched(j),
           \/ Stored(nvs'[d]) = Stored(nvs[d])
           \/ Stored(nvs'[d]) = NoAck /\ Resizes(Stored(nvs[d]), v)
    PROVE  Store!Next
<1>1. 0 \notin Types
  BY TypeFacts
<1>2. Store!Begin(d, v, p)
  BY <1>1 DEF Store!Begin, Store!Without, Store!Run, Store!Cause, Called, Untouched, Pending, Place
<1>3. QED
  BY <1>2 DEF Store!Next

LEMMA CommitMaps ==
    ASSUME NEW d \in Types, Called("write"),
           Pending(d) # NoAck, Pending(d)' = NoAck, Stored(nvs'[d]) = Pending(d),
           Place(d)' = Place(d), \A j \in Types : j # d => Untouched(j)
    PROVE  Store!Next
<1>1. 0 \notin Types
  BY TypeFacts
<1>2. Store!Commit(d)
  BY <1>1 DEF Store!Commit, Store!Run, Store!Cause, Called, Untouched, Pending, Place
<1>3. QED
  BY <1>2 DEF Store!Next

(* A start finds d.                                                        *)
LEMMA FoundMaps ==
    ASSUME NEW d \in Types, NEW p \in Pages, UNCHANGED <<nvs, jobs, last>>,
           \A j \in Types : jobs[j].next = 0,
           Place(d) = NotFound, Stored(nvs[d]) # NoAck, Place(d)' = p,
           \A j \in Types : j # d => Place(j)' = Place(j)
    PROVE  Store!Next
<1> DEFINE cause == [op |-> CASE last.op = "crash" -> "power"
                              [] last.op = "erase" -> "erase"
                              [] OTHER -> "run",
                     key |-> IF last.id \in Types THEN last.id ELSE 0,
                     value |-> IF last.id \in Types THEN last.ver ELSE NoAck,
                     page |-> last.page]
<1>1. [j \in Types |-> Place(j)]' = [[j \in Types |-> Place(j)] EXCEPT ![d] = p]
  OBVIOUS
<1>2. [j \in Types |-> Pending(j)]' = [j \in Types |-> Pending(j)]
  BY DEF Pending
<1>3. cause' = cause
  OBVIOUS
<1>4. Store!Found(d, p)
  BY <1>1, <1>2, <1>3 DEF Store!Found, Place, Pending
<1>5. QED
  BY <1>4 DEF Store!Next

(* After a power failure nothing is being written and no place is known.   *)
LEMMA RamIsLost ==
    ASSUME NEW n, NEW F, NEW w, PowerFails(n, F, w)
    PROVE  /\ nvs' = n /\ last' = w /\ Store!RamLost
           /\ \A d \in Types : Pending(d)' = NoAck /\ Place(d)' = NotFound
<1>1. \A d \in Types : d \in Ids
  BY TypeFacts
<1>2. \A d \in Types : jobs'[d].next = 0 /\ info'[d].len = 0
  BY <1>1 DEF PowerFails, NoJob, NoInfo
<1>3. \A d \in Types : Pending(d)' = NoAck /\ Place(d)' = NotFound
  BY <1>2 DEF Pending, Place
<1>4. Store!RamLost
  BY <1>2 DEF Store!RamLost
<1>5. QED
  BY <1>3, <1>4 DEF PowerFails

(* It fails and the flash is as it was,                                    *)
LEMMA IdleMaps ==
    ASSUME NEW n, NEW F, NEW w, PowerFails(n, F, w), \A j \in Types : n[j] = nvs[j],
           w.op = "crash", w.id \notin Types, w.page = NotFound
    PROVE  Store!Next
<1>1. 0 \notin Types
  BY TypeFacts
<1>2. nvs' = n /\ last' = w /\ Store!RamLost
  BY RamIsLost
<1>3. Store!PowerFailure
  BY <1>1, <1>2 DEF Store!PowerFailure, Store!Cause
<1>4. QED
  BY <1>3 DEF Store!Next

LEMMA CutIs ==
    ASSUME NEW op
    PROVE  /\ CutShort(op).op = "crash" /\ CutShort(op).id = 0 /\ CutShort(op).page = NotFound
           /\ CutShort(op).ver = NoAck
           /\ \A i, v : LET w == [CutShort(op) EXCEPT !.id = i, !.ver = v]
                       IN  w.op = "crash" /\ w.id = i /\ w.ver = v /\ w.page = NotFound
           /\ \A p : LET w == [CutShort(op) EXCEPT !.page = p]
                    IN  w.op = "crash" /\ w.id = 0 /\ w.ver = NoAck /\ w.page = p
BY DEF CutShort, NoCall

(* ... while version v of k is written,                                    *)
LEMMA WriteMaps ==
    ASSUME NEW k \in Types, NEW v \in [len : Lens, g : Gens], NEW n, WriteCut(k, n, v),
           \A j \in Types : j # k => Stored(n[j]) = Stored(nvs[j]),
           \/ Stored(n[k]) = Stored(nvs[k])
           \/ Pending(k) = v /\ Stored(n[k]) = v
           \/ Pending(k) = v /\ Stored(nvs[k]) = v /\ Stored(n[k]) = NoAck
           \/ Pending(k) = NoAck /\ Resizes(Stored(nvs[k]), v) /\ Stored(n[k]) = NoAck
    PROVE  Store!Next
<1> DEFINE w == [CutShort("write") EXCEPT !.id = k, !.ver = v]
<1>1. nvs' = n /\ last' = w /\ Store!RamLost
  BY RamIsLost DEF WriteCut
<1>2. w.op = "crash" /\ w.id = k /\ w.ver = v /\ w.page = NotFound
  BY CutIs
<1> HIDE DEF w
<1>3. Store!Interrupted(k, v)
  BY <1>1, <1>2 DEF Store!Interrupted, Store!Without, Store!Cause, Pending
<1>4. QED
  BY <1>3 DEF Store!Next

(* or the header of a page,                                                *)
LEMMA HeaderCutMaps ==
    ASSUME NEW i, i \notin Types, NEW v, NEW n, WriteCut(i, n, v),
           \A j \in Types : n[j] = nvs[j]
    PROVE  Store!Next
<1> DEFINE w == [CutShort("write") EXCEPT !.id = i, !.ver = v]
           F == [acked EXCEPT ![i] = Stored(n[i])]
<1>1. PowerFails(n, F, w)
  BY DEF WriteCut
<1>2. w.op = "crash" /\ w.id = i /\ w.page = NotFound
  BY CutIs
<1> HIDE DEF w, F
<1>3. QED
  BY <1>1, <1>2, IdleMaps

(* or while page p is erased, of which S is gone.                          *)
LEMMA EraseCutMaps ==
    ASSUME NEW p \in Pages, NEW n, NEW F,
           PowerFails(n, F, [CutShort("erase") EXCEPT !.page = p]),
           NEW S \in SUBSET {j \in Types : Place(j) = p},
           \A j \in Types : Stored(n[j]) = IF j \in S THEN NoAck ELSE Stored(nvs[j])
    PROVE  Store!Next
<1> DEFINE w == [CutShort("erase") EXCEPT !.page = p]
<1>1. nvs' = n /\ last' = w /\ Store!RamLost /\ 0 \notin Types
  BY RamIsLost, TypeFacts
<1>2. w.op = "crash" /\ w.id = 0 /\ w.ver = NoAck /\ w.page = p
  BY CutIs
<1> HIDE DEF w
<1>3. S \in SUBSET Store!On(p)
  <2>1. \A j \in Types : Place(j) = p => j \in Store!On(p)
    BY DEF Store!On, Place
  <2>2. QED
    BY <2>1
<1>4. [j \in Types |-> Stored(nvs'[j])] = Store!Without(S)
  BY <1>1 DEF Store!Without
<1>5. Store!EraseInterrupted(p)
  BY <1>1, <1>2, <1>3, <1>4 DEF Store!EraseInterrupted, Store!Cause
<1>6. QED
  BY <1>5 DEF Store!Next

(* What does not change the flash, the jobs, the table and the last call   *)
(* is no step of the store.                                                *)
LEMMA QuietMaps ==
    ASSUME UNCHANGED <<nvs, last>>,
           \A j \in Types : Pending(j)' = Pending(j) /\ Place(j)' = Place(j)
    PROVE  UNCHANGED Store!storeVars
BY DEF Store!storeVars, Pending, Place

(* The record being written is announced, and no other is.                 *)
LEMMA PendingFacts ==
    ASSUME TableInv, RecordInv, NEW d \in Types
    PROVE  /\ jobs[d].next = 0 => Pending(d) = NoAck
           /\ d \in Active => Pending(d) = [len |-> info[d].len, g |-> jobs[d].g]
                                /\ Pending(d) # NoAck
           /\ d \notin Active => jobs[d].next = 0 /\ Pending(d) = NoAck
<1>1. d \in Ids /\ JobBuffered(d) /\ jobs[d].next \in Nat
  BY TypeFacts, Sizes1 DEF TableInv, Typed, RecordInv, JobType
<1>2. ASSUME jobs[d].next > 0
      PROVE  Pending(d) = [len |-> info[d].len, g |-> jobs[d].g] /\ Pending(d) # NoAck
  <2>1. info[d].len \in LensOf(d) /\ Pending(d) = [len |-> info[d].len, g |-> jobs[d].g]
    BY <1>1, <1>2 DEF JobBuffered, Pending, Version
  <2>2. info[d].len # 0
    BY <1>1, <2>1, LensFit
  <2>3. QED
    BY <2>1, <2>2 DEF NoAck
<1>3. QED
  BY <1>1, <1>2 DEF Active, Pending

LEMMA BootMaps ==
    ASSUME NvramInv, TableInv, RecordInv, BootHeader \/ BootHeadersDone \/ BootDataset \/ BootDone
    PROVE  [Store!Next]_(Store!storeVars)
<1>1. boot # "up" /\ UNCHANGED <<nvs, jobs, last>>
  BY DEF BootHeader, BootHeadersDone, BootDataset, BootDone
<1>2. \A j \in Types : j \in Ids /\ jobs[j].next = 0
  BY <1>1, TypeFacts DEF TableInv, Rebuilding
<1>3. ASSUME \A j \in Types : info'[j] = info[j] PROVE UNCHANGED Store!storeVars
  BY <1>1, <1>2, <1>3, QuietMaps DEF Pending, Place
<1>4. info \in TableType /\ scan.id \in Nat /\ scan.page \in Pages
  BY DEF TableInv, Typed, ScanType, NvramInv
<1>5. CASE BootHeader
  <2>1. scan.id >= DatasetNumber
    BY <1>5 DEF BootHeader, TableInv, Rebuilding
  <2>2. \A j \in Types : j # scan.id
    BY <1>4, <2>1, Naturals1, TypeFacts
  <2>3. QED
    BY <1>2, <1>3, <1>4, <1>5, <2>2 DEF BootHeader, TableType
<1>6. CASE BootHeadersDone \/ BootDone
  BY <1>3, <1>6 DEF BootHeadersDone, BootDone
<1>7. CASE BootDataset
  <2> DEFINE i == scan.id
  <2>1. boot = "datasets" /\ i < DatasetNumber /\ i \in Ids
    BY <1>4, <1>7, Naturals1 DEF BootDataset
  <2>2. nvs[0] = NoItem /\ info[i].len = 0
    BY <1>4, <2>1 DEF NvramInv, Flashes, TableInv, Rebuilding
  <2>3. CASE nvs[i].len = 0 \/ i \notin Types
    <3>1. i = 0 => nvs[i].len = 0
      BY <2>2, NoItemFacts
    <3>2. i \notin Types => i = 0
      BY <1>4, <2>1, Naturals1 DEF Types
    <3>3. nvs[i].len = 0
      BY <2>3, <3>1, <3>2
    <3>4. info' = info
      BY <1>7, <3>3 DEF BootDataset
    <3>5. QED
      BY <1>3, <3>4
  <2>4. ASSUME NEW d \in Types, d = scan.id, nvs[d].len # 0 PROVE Store!Next
    <3> DEFINE l == nvs[d].cell[0].len
    <3>1. info' = [info EXCEPT ![d] = [page |-> scan.page, pos |-> scan.pos, len |-> l]]
      BY <1>7, <2>4 DEF BootDataset
    <3>2. l > 0
      <4>1. IsRecord(d, nvs[d]) /\ d \in Ids
        BY <1>2 DEF RecordInv, Whole
      <4>2. nvs[d].len \in LensOf(d) /\ l = nvs[d].len
        BY <2>4, <4>1, StoredRecord
      <4>3. QED
        BY <4>1, <4>2, LensFit
    <3> HIDE DEF l
    <3>3. /\ info'[d].page = scan.page /\ info'[d].len = l
          /\ \A j \in Types : j # d => info'[j] = info[j]
      BY <1>2, <1>4, <3>1 DEF TableType
    <3>4. Place(d)' = scan.page /\ \A j \in Types : j # d => Place(j)' = Place(j)
      BY <3>2, <3>3 DEF Place
    <3>5. Place(d) = NotFound /\ Stored(nvs[d]) # NoAck
      <4>1. info[d].len = 0 /\ nvs[d].len # 0
        BY <2>2, <2>4
      <4>2. QED
        BY <4>1 DEF Place, Stored, NoAck
    <3>6. QED
      BY <1>1, <1>2, <1>4, <3>4, <3>5, FoundMaps
  <2>5. QED
    BY <2>3, <2>4
<1>8. QED
  BY <1>5, <1>6, <1>7

LEMMA CrashMaps ==
    ASSUME Crash
    PROVE  Store!Next
<1>1. CutShort("idle").op = "crash" /\ CutShort("idle").id \notin Types
      /\ CutShort("idle").page = NotFound
  BY CutIs, TypeFacts
<1>2. QED
  BY <1>1, IdleMaps DEF Crash

(* A header announces the new version; the old one is deleted only when    *)
(* its length is about to change.                                          *)
LEMMA HeaderMaps ==
    ASSUME Settled, NvramInv, TableInv, StoreInv, IsCalm(env), boot = "up",
           NEW i \in Ids, jobs[i].next = 0, Orderly(i),
           NEW L \in LensOf(i), NEW g \in GensOf(i), NEW p \in Pages, NEW o \in Nat,
           o >= free[p], o + L <= PageSize,
           \A q \in Pages : PageHdr(q) = i => o = 0 /\ p = q,
           reloc.ds = NotFound \/ i >= DatasetNumber,
           NEW c, c = Piece(i, L, g, 0), NEW job, job.next = 1, job.g = g,
           CoreWrite(i, c, p, o, job)
    PROVE  Store!Next
<1> DEFINE m == HeaderNvs(i, c, p, o)
           v == [len |-> L, g |-> g]
<1>1. /\ RecordInv /\ Whole(nvs) /\ nvs \in Stores /\ jobs \in [Ids -> JobType]
      /\ info \in TableType
  BY DEF TableInv, Typed, StoreInv, RecordInv
<1>2. /\ c.k = "hdr" /\ c.d = i /\ c.len = L
      /\ BuildInfo(c, p, o)[i].len = L /\ BuildInfo(c, p, o)[i].page = p
      /\ \A j \in Ids : j # i => BuildInfo(c, p, o)[j] = info[j]
  <2> HIDE DEF m, v
  <2>1. /\ c.k = "hdr" /\ c.d = i /\ c.len = L /\ c.g = g /\ c.k # "tail"
        /\ BuildInfo(c, p, o) = [info EXCEPT ![i] = [page |-> p, pos |-> o, len |-> L]]
        /\ BuildInfo(c, p, o) \in TableType
        /\ BuildInfo(c, p, o)[i] = [page |-> p, pos |-> o, len |-> L]
        /\ \A j \in Ids : j # i => BuildInfo(c, p, o)[j] = info[j]
        /\ Target(c, p, o) = i /\ Offset(c, p, o) = 0 /\ ~ IsTail(c, p, o)
        /\ i # NotFound
    BY BeginPlaces
  <2>2. QED
    BY <2>1
<1>3. m = nvs \/ (m = [nvs EXCEPT ![i] = NoItem] /\ info[i].len # L)
  BY <1>2 DEF HeaderNvs, Trimmed, ReadLen, OldLen
<1>4. Active = {}
  <2>1. Active \subseteq {i}
    BY SettledNow DEF Orderly, TableInv
  <2>2. i \notin Active
    BY DEF Active
  <2>3. QED
    BY <2>1, <2>2
<1>5. nvs[i].len = info[i].len /\ IsRecord(i, nvs[i])
  BY <1>1 DEF StoreInv, CalmInv, Synced, Whole
<1> HIDE DEF m
<1>6. \A j \in Types : j \in Ids /\ Pending(j) = NoAck /\ jobs[j].next = 0
  BY <1>1, <1>4, TypeFacts, PendingFacts
<1>7. \A j \in Ids : j # i => m[j] = nvs[j]
  BY <1>1, <1>3 DEF Stores
<1>8. Stored(m[i]) = Stored(nvs[i]) \/ (Stored(m[i]) = NoAck /\ Resizes(Stored(nvs[i]), v))
  <2>1. CASE m = nvs \/ nvs[i].len = 0
    <3>1. m[i] = NoItem \/ m[i] = nvs[i]
      BY <1>1, <1>3 DEF Stores
    <3>2. nvs[i].len = 0 => nvs[i] = NoItem
      BY <1>5, StoredLen
    <3>3. QED
      BY <2>1, <3>1, <3>2
  <2>2. CASE ~ (m = nvs \/ nvs[i].len = 0)
    <3>1. m[i] = NoItem /\ nvs[i].len # L /\ nvs[i].len \in Nat /\ nvs[i].len > 0
      BY <1>1, <1>3, <1>5, <2>2, StoredLen DEF Stores
    <3>2. Stored(nvs[i]).len = nvs[i].len
      BY <3>1 DEF Stored
    <3>3. Resizes(Stored(nvs[i]), v)
      BY <3>1, <3>2 DEF Resizes
    <3>4. QED
      BY <3>1, <3>3, NoItemFacts
  <2>3. QED
    BY <2>1, <2>2
<1>9. i \in Types => v \in [len : Lens, g : Gens]
  BY TypeFacts
<1>10. \/ \E n \in {nvs, m} : WriteCut(i, n, v)
       \/ HeaderWritten(i, c, p, o, job)
  <2>1. \/ \E n \in {nvs, HeaderNvs(i, c, p, o)} : WriteCut(i, n, [len |-> L, g |-> job.g])
        \/ HeaderWritten(i, c, p, o, job)
    BY <1>1, BeginWrites
  <2>2. QED
    BY <2>1 DEF m
<1> HIDE DEF v
<1>11. CASE \E n \in {nvs, m} : WriteCut(i, n, v)
  <2>1. PICK n \in {nvs, m} : WriteCut(i, n, v)
    BY <1>11
  <2>2. CASE i \in Types
    <3>1. \A j \in Types : j # i => Stored(n[j]) = Stored(nvs[j])
      BY <1>6, <1>7, <2>1
    <3>2. \/ Stored(n[i]) = Stored(nvs[i])
          \/ Pending(i) = NoAck /\ Resizes(Stored(nvs[i]), v) /\ Stored(n[i]) = NoAck
      BY <1>6, <1>8, <2>1, <2>2
    <3>3. QED
      BY <1>9, <2>1, <2>2, <3>1, <3>2, WriteMaps
  <2>3. CASE i \notin Types
    <3>1. \A j \in Types : n[j] = nvs[j]
      BY <1>6, <1>7, <2>1, <2>3
    <3>2. QED
      BY <2>1, <2>3, <3>1, HeaderCutMaps
  <2>4. QED
    BY <2>2, <2>3
<1>12. CASE HeaderWritten(i, c, p, o, job)
  <2>1. /\ nvs' = m /\ info' = BuildInfo(c, p, o) /\ jobs' = [jobs EXCEPT ![i] = job]
        /\ last' = [NoCall EXCEPT !.op = "write"]
    BY <1>12 DEF HeaderWritten, m
  <2>2. Called("write")
    BY <2>1, CallIs
  <2>3. \A j \in Types : j # i => Untouched(j)
    <3>1. \A j \in Types : j # i => jobs'[j] = jobs[j] /\ info'[j] = info[j] /\ nvs'[j] = nvs[j]
      BY <1>1, <1>2, <1>6, <1>7, <2>1
    <3>2. QED
      BY <1>6, <3>1 DEF Untouched, Pending, Place
  <2>4. CASE i \in Types
    <3>1. jobs'[i] = job /\ info'[i].len = L /\ info'[i].page = p /\ L > 0
      <4>1. L > 0
        BY LensFit
      <4>2. QED
        BY <1>1, <1>2, <2>1, <4>1
    <3>2. Pending(i)' = v /\ Place(i)' = p
      BY <3>1 DEF Pending, Place, Version, v
    <3>3. Stored(nvs'[i]) = Stored(nvs[i])
            \/ (Stored(nvs'[i]) = NoAck /\ Resizes(Stored(nvs[i]), v))
      BY <1>8, <2>1
    <3>4. QED
      BY <1>6, <1>9, <2>2, <2>3, <2>4, <3>2, <3>3, BeginMaps
  <2>5. CASE i \notin Types
    <3>1. \A j \in Types : Untouched(j)
      BY <2>3, <2>5
    <3>2. QED
      BY <2>2, <3>1, TouchMaps
  <2>6. QED
    BY <2>4, <2>5
<1>13. QED
  BY <1>10, <1>11, <1>12

LEMMA FormatMaps ==
    ASSUME Settled, NvramInv, TableInv, StoreInv, IsCalm(env),
           NEW p \in Pages, FormatPage(p)
    PROVE  Store!Next
<1> DEFINE i == PageHdr(p)
           c == Piece(i, HdrLen, 0, 0)
           job == [NoJob EXCEPT !.next = 1]
<1>1. /\ boot = "up" /\ jobs[i].next = 0 /\ Orderly(i) /\ free[p] = 0
      /\ CoreWrite(i, c, p, 0, job)
  BY DEF FormatPage
<1>2. i \in Ids /\ i >= DatasetNumber /\ \A q \in Pages : PageHdr(q) = i => 0 = 0 /\ p = q
  BY Naturals1
<1>3. i \notin Types
  BY <1>2, Sizes1 DEF Types
<1> HIDE DEF i
<1>4. HdrLen \in LensOf(i) /\ 0 \in GensOf(i) /\ c = Piece(i, HdrLen, 0, 0)
  BY <1>3 DEF LensOf, GensOf
<1>5. job.next = 1 /\ job.g = 0
  BY DEF NoJob
<1>6. 0 \in Nat /\ 0 >= free[p] /\ 0 + HdrLen <= PageSize
  BY <1>1, Sizes1
<1> HIDE DEF c, job
<1>7. QED
  BY <1>1, <1>2, <1>4, <1>5, <1>6, HeaderMaps

LEMMA BeginWriteMaps ==
    ASSUME Settled, NvramInv, TableInv, StoreInv, IsCalm(env),
           NEW d \in Types, NEW p \in Pages, NEW l \in Lens, NEW g \in Gens, BeginWrite(d, p, l, g)
    PROVE  Store!Next
<1> DEFINE c == Piece(d, l, g, 0)
           job == [NoJob EXCEPT !.next = 1, !.g = g]
           o == free[p]
<1>1. /\ boot = "up" /\ jobs[d].next = 0 /\ Orderly(d) /\ o + l <= PageSize
      /\ "blind" \in env \/ reloc.ds = NotFound
      /\ CoreWrite(d, c, p, o, job)
  BY DEF BeginWrite, MayBegin
<1>2. d \in Ids /\ l \in LensOf(d) /\ g \in GensOf(d) /\ c = Piece(d, l, g, 0)
      /\ \A q \in Pages : PageHdr(q) = d => o = 0 /\ p = q
  BY TypeFacts
<1>3. o \in Nat /\ o >= free[p]
  BY Sizes1 DEF TableInv, Typed, FreeType
<1>4. reloc.ds = NotFound
  BY <1>1, SettledNow DEF TableInv
<1>5. job.next = 1 /\ job.g = g
  BY DEF NoJob
<1> HIDE DEF c, job, o
<1>6. QED
  BY <1>1, <1>2, <1>3, <1>4, <1>5, HeaderMaps

LEMMA BeginCopyMaps ==
    ASSUME Settled, NvramInv, TableInv, StoreInv,
           NEW d \in Types, NEW p \in Pages, BeginCopy(d, p)
    PROVE  Store!Next
<1> DEFINE h == ReadValue(info[d].page, info[d].pos)
           job == [next |-> 1, g |-> h.g, old |-> info[d], got |-> NoCell]
           o == free[p]
<1>1. /\ boot = "up" /\ jobs[d].next = 0 /\ Orderly(d) /\ h.len = info[d].len
      /\ o + h.len <= PageSize /\ CoreWrite(d, h, p, o, job)
      /\ h = ReadValue(info[d].page, info[d].pos)
  BY DEF BeginCopy, MayBegin
<1>2. d \in Ids /\ \A q \in Pages : PageHdr(q) = d => o = 0 /\ p = q
  BY TypeFacts
<1>3. o \in Nat /\ o >= free[p] /\ job.next = 1 /\ job.g = h.g
  BY Sizes1 DEF TableInv, Typed, FreeType
<1> HIDE DEF h
<1>4. IsCalm(env) /\ reloc.ds = NotFound /\ \E g \in GensOf(d) : CopyHeader(d, g, h)
  BY <1>1, CopyBegins
<1>5. PICK g \in GensOf(d) : CopyHeader(d, g, h)
  BY <1>4
<1>6. info[d].len \in LensOf(d) /\ h = Piece(d, info[d].len, g, 0) /\ h.g = g
  BY <1>5 DEF CopyHeader
<1> HIDE DEF job, o
<1>7. o + info[d].len <= PageSize /\ job.g = g
  BY <1>1, <1>3, <1>6
<1>8. QED
  BY <1>1, <1>2, <1>3, <1>4, <1>6, <1>7, HeaderMaps

LEMMA NextMaps ==
    ASSUME Settled, NvramInv, TableInv, StoreInv, IsCalm(env),
           NEW i \in Ids, WriteNext(i)
    PROVE  Store!Next
<1> DEFINE k == jobs[i].next
           L == info[i].len
           g == jobs[i].g
           x == Record(i, L, g)
           v == [len |-> L, g |-> g]
<1>1. /\ Typed /\ RecordInv /\ nvs \in Stores /\ jobs \in [Ids -> JobType]
  BY DEF TableInv, Typed, StoreInv, RecordInv
<1>2. /\ i \in Active /\ Orderly(i) /\ i # 0 /\ L \in LensOf(i) /\ g \in GensOf(i)
      /\ k \in Nat /\ k > 0 /\ k < L
      /\ \/ \E n : Cut(i, x, n) /\ WriteCut(i, n, v)
         \/ NextWritten(i, k, Piece(i, L, g, k), x)
  <2>1. k = jobs[i].next /\ L = info[i].len /\ g = jobs[i].g /\ x = Record(i, L, g)
    OBVIOUS
  <2> HIDE DEF k, L, g, x
  <2>2. QED
    BY <1>1, <2>1, NextDoes
<1>3. Active = {i}
  BY <1>1, <1>2, SettledNow DEF Orderly
<1>4. Stored(x) = v /\ L > 0
  <2>1. L > 0
    BY <1>2, LensFit
  <2> HIDE DEF L, g
  <2>2. QED
    BY <1>2, <2>1, RecordFacts
<1>5. \A j \in Types : j \in Ids
  BY TypeFacts
<1>6. \A j \in Types : j # i => Pending(j) = NoAck /\ jobs[j].next = 0
  BY <1>1, <1>3, PendingFacts
<1>7. i \in Types => Pending(i) = v /\ v # NoAck
  BY <1>1, <1>2, PendingFacts
<1> HIDE DEF L, g, x, v
<1>8. CASE \E n : Cut(i, x, n) /\ WriteCut(i, n, v)
  <2>1. PICK n : Cut(i, x, n) /\ WriteCut(i, n, v)
    BY <1>8
  <2>2. \A j \in Types : j # i => n[j] = nvs[j]
    BY <1>1, <1>5, <2>1 DEF Cut, Stores
  <2>3. CASE i \in Types
    <3>1. n[i] = nvs[i] \/ n[i] = x \/ (n[i] = NoItem /\ nvs[i] = x)
      BY <1>1, <2>1 DEF Cut, Stores
    <3>2. \/ Stored(n[i]) = Stored(nvs[i])
          \/ Pending(i) = v /\ Stored(n[i]) = v
          \/ Pending(i) = v /\ Stored(nvs[i]) = v /\ Stored(n[i]) = NoAck
      BY <1>4, <1>7, <2>3, <3>1, NoItemFacts
    <3>3. v \in [len : Lens, g : Gens]
      BY <1>2, <2>3, TypeFacts DEF v
    <3>4. QED
      BY <2>1, <2>2, <2>3, <3>2, <3>3, WriteMaps
  <2>4. CASE i \notin Types
    <3>1. \A j \in Types : n[j] = nvs[j]
      BY <2>2, <2>4
    <3>2. QED
      BY <2>1, <2>4, <3>1, HeaderCutMaps
  <2>5. QED
    BY <2>3, <2>4
<1>9. CASE NextWritten(i, k, Piece(i, L, g, k), x)
  <2>1. info' = info
    BY <1>9 DEF NextWritten
  <2>2. CASE BodyWritten(i, k, Piece(i, L, g, k))
    <3>1. nvs' = nvs /\ last' = [NoCall EXCEPT !.op = "write"]
      BY <2>2 DEF BodyWritten
    <3>2. jobs'[i].next > 0 /\ jobs'[i].g = jobs[i].g /\ \A j \in Ids : j # i => jobs'[j] = jobs[j]
      <4> DEFINE job == [jobs[i] EXCEPT !.next = k + 1, !.got = NoCell]
      <4>1. jobs[i] \in JobType /\ jobs' = [jobs EXCEPT ![i] = job]
        BY <1>1, <2>2 DEF BodyWritten
      <4>2. job.next = k + 1 /\ job.g = jobs[i].g
        BY <4>1 DEF JobType
      <4> HIDE DEF job
      <4>3. QED
        BY <1>1, <1>2, <4>1, <4>2
    <3>3. \A j \in Types : Untouched(j)
      BY <1>2, <1>5, <2>1, <3>1, <3>2 DEF Untouched, Pending, Place, Version
    <3>4. Called("write")
      BY <3>1, CallIs
    <3>5. QED
      BY <3>3, <3>4, TouchMaps
  <2>3. CASE \E done \in Outcomes : TailWritten(i, k, x, done)
    <3>1. PICK done \in Outcomes : TailWritten(i, k, x, done)
      BY <2>3
    <3>2. done = TRUE
      BY DEF Outcomes, IsCalm
    <3>3. /\ nvs' = [nvs EXCEPT ![i] = x] /\ jobs' = [jobs EXCEPT ![i] = NoJob]
          /\ Called("write")
      <4>1. nvs' = [nvs EXCEPT ![i] = x] /\ jobs' = [jobs EXCEPT ![i] = NoJob]
            /\ last' = [NoCall EXCEPT !.op = "write", !.ret = IF done THEN "ok" ELSE "failed"]
        BY <3>1, <3>2 DEF TailWritten
      <4>2. QED
        BY <4>1, CallIs
    <3>4. /\ nvs'[i] = x /\ jobs'[i].next = 0
          /\ \A j \in Ids : j # i => nvs'[j] = nvs[j] /\ jobs'[j] = jobs[j]
      BY <1>1, <3>3 DEF NoJob, Stores
    <3>5. \A j \in Types : j # i => Untouched(j)
      BY <1>5, <2>1, <3>4 DEF Untouched, Pending, Place, Version
    <3>6. CASE i \in Types
      <4>1. Pending(i)' = NoAck /\ Place(i)' = Place(i)
        BY <2>1, <3>4 DEF Pending, Place
      <4>2. QED
        BY <1>4, <1>7, <3>3, <3>4, <3>5, <3>6, <4>1, CommitMaps
    <3>7. CASE i \notin Types
      <4>1. \A j \in Types : Untouched(j)
        BY <3>5, <3>7
      <4>2. QED
        BY <3>3, <4>1, TouchMaps
    <3>8. QED
      BY <3>6, <3>7
  <2>4. QED
    BY <1>9, <2>2, <2>3 DEF NextWritten
<1>10. QED
  BY <1>2, <1>8, <1>9

(* Power fails during a read that leaves the flash alone.                  *)
LEMMA ReadCutMaps ==
    ASSUME PowerFails(nvs, acked, CutShort("read"))
    PROVE  Store!Next
<1>1. CutShort("read").op = "crash" /\ CutShort("read").id \notin Types
      /\ CutShort("read").page = NotFound
  BY CutIs, TypeFacts
<1>2. QED
  BY <1>1, IdleMaps

LEMMA CopyReadMaps ==
    ASSUME Settled, NvramInv, TableInv, StoreInv, NEW i \in Ids, CopyRead(i)
    PROVE  Store!Next
<1> DEFINE p == jobs[i].old.page
           o == jobs[i].old.pos + jobs[i].next
           v == ReadValue(p, o)
<1>1. boot = "up" /\ i \in Active /\ Orderly(i) /\ IsCopied(i)
  BY DEF CopyRead
<1>2. RecordInv /\ CopyPlace(i, p, o, v) /\ jobs \in [Ids -> JobType]
  BY <1>1, CopyReads DEF StoreInv, TableInv, Typed
<1> HIDE DEF v, p, o
<1>3. Active = {i} /\ cache.id = i /\ ReadId(p, o) = i
  BY <1>2 DEF CopyPlace
<1>4. CASE \E n \in ReadStops(p, o) : PowerFails(n, acked, CutShort("read"))
  <2>1. PowerFails(nvs, acked, CutShort("read"))
    BY <1>3, <1>4 DEF ReadStops
  <2>2. QED
    BY <2>1, ReadCutMaps
<1>5. CASE ~ \E n \in ReadStops(p, o) : PowerFails(n, acked, CutShort("read"))
  <2>1. /\ ReadEffect(p, o) /\ jobs' = [jobs EXCEPT ![i].got = v] /\ info' = info
        /\ last' = [NoCall EXCEPT !.op = "read"]
    BY <1>5 DEF CopyRead, v, p, o
  <2>2. nvs' = nvs
    BY <1>3, <2>1 DEF ReadEffect
  <2>3. \A j \in Ids : jobs'[j].next = jobs[j].next /\ jobs'[j].g = jobs[j].g
    <3>1. jobs[i] \in JobType /\ jobs' = [jobs EXCEPT ![i] = [jobs[i] EXCEPT !.got = v]]
      BY <1>2, <2>1
    <3>2. QED
      BY <1>2, <3>1 DEF JobType
  <2>4. \A j \in Types : Untouched(j)
    BY <2>1, <2>2, <2>3, TypeFacts DEF Untouched, Pending, Place, Version
  <2>5. Called("read")
    BY <2>1, CallIs
  <2>6. QED
    BY <2>4, <2>5, TouchMaps
<1>6. QED
  BY <1>4, <1>5

(* While nothing is being written a read leaves the flash alone.           *)
LEMMA ReadFlash ==
    ASSUME TableInv, RecordInv, Active = {}, NEW p, NEW o
    PROVE  /\ ReadEffect(p, o) => nvs' = nvs
           /\ ReadStops(p, o) = {nvs}
BY Idle DEF ReadEffect, ReadStops, AfterFlush

LEMMA ReadMaps ==
    ASSUME Settled, TableInv, StoreInv, NEW p \in Pages, NEW o, Read(p, o)
    PROVE  Store!Next
<1>1. RecordInv /\ Active = {}
  BY SettledNow DEF Read, TableInv, StoreInv
<1>2. CASE \E n \in ReadStops(p, o) : PowerFails(n, acked, CutShort("read"))
  <2>1. PowerFails(nvs, acked, CutShort("read"))
    BY <1>1, <1>2, ReadFlash
  <2>2. QED
    BY <2>1, ReadCutMaps
<1>3. CASE ~ \E n \in ReadStops(p, o) : PowerFails(n, acked, CutShort("read"))
  <2>1. ReadEffect(p, o) /\ UNCHANGED <<info, jobs>> /\ last' = [NoCall EXCEPT !.op = "read"]
    BY <1>3 DEF Read
  <2>2. nvs' = nvs /\ Called("read")
    BY <1>1, <2>1, ReadFlash, CallIs
  <2>3. QED
    BY <2>1, <2>2, TouchMaps DEF Untouched, Pending, Place, Version
<1>4. QED
  BY <1>2, <1>3

LEMMA MoveMaps ==
    ASSUME Settled, TableInv, StoreInv, NEW d \in Types, NEW p \in Pages, Move(d, p)
    PROVE  Store!Next
<1>1. /\ Orderly(d) /\ jobs[d].next = 0 /\ ReadEffect(info[d].page, info[d].pos)
      /\ UNCHANGED <<info, jobs>> /\ last' = [NoCall EXCEPT !.op = "move"]
  BY DEF Move
<1>2. RecordInv /\ Active = {}
  <2>1. Active \subseteq {d} /\ d \notin Active
    BY <1>1, SettledNow DEF Orderly, TableInv, Active
  <2>2. QED
    BY <2>1 DEF StoreInv
<1>3. nvs' = nvs /\ Called("move")
  BY <1>1, <1>2, ReadFlash, CallIs
<1>4. QED
  BY <1>1, <1>3, TouchMaps DEF Untouched, Pending, Place, Version

LEMMA ErasedMaps ==
    ASSUME Settled, TableInv, StoreInv, IsCalm(env), NEW p \in Pages, Erase(p)
    PROVE  Store!Next
<1> DEFINE on == {j \in Types : Place(j) = p}
           S(k) == {j \in on : j < k}
           call == [CutShort("erase") EXCEPT !.page = p]
           found(k) == [i \in Ids |-> IF i \in Gone(p)
                                        THEN Resolved(i, ErasedUpTo(p, k), {acked[i], NoAck})
                                        ELSE acked[i]]
<1>1. /\ RecordInv /\ CalmInv /\ Active = {} /\ boot = "up" /\ info \in TableType
      /\ \A j \in Types : j \in Ids /\ j < DatasetNumber /\ jobs[j].next = 0
  <2>1. RecordInv /\ Active = {} /\ boot = "up"
    BY SettledNow DEF Erase, TableInv, StoreInv
  <2>2. QED
    BY <2>1, Idle, TypeFacts DEF StoreInv, TableInv, Typed
<1>2. ASSUME NEW j \in Types
      PROVE  /\ j \in on => j \in Gone(p)
             /\ j \in Gone(p) /\ j \notin on => Stored(nvs[j]) = NoAck /\ Place(j) = NotFound
  <2>1. info[j].len = nvs[j].len /\ info[j].len \in Nat /\ p # NotFound /\ \A q \in Pages : PageHdr(q) # j
    <3>1. info[j].len = nvs[j].len
      BY <1>1 DEF CalmInv, Synced
    <3>2. info[j].len \in Nat
      BY <1>1, Entry
    <3>3. p # NotFound
      BY Naturals1 DEF NotFound
    <3>4. QED
      BY <3>1, <3>2, <3>3, TypeFacts
  <2>2. j \in Gone(p) <=> info[j].page = p
    BY <1>1, <2>1, Naturals1 DEF Gone, OnPage
  <2>3. j \in on <=> info[j].len > 0 /\ info[j].page = p
    BY <2>1 DEF Place
  <2>4. QED
    BY <2>1, <2>2, <2>3 DEF Stored, Place
<1>3. ASSUME NEW k \in Int
      PROVE  \A j \in Types : Stored(ErasedUpTo(p, k)[j])
                                = IF j \in S(k) THEN NoAck ELSE Stored(nvs[j])
  <2>1. ASSUME NEW j \in Types
        PROVE  Stored(ErasedUpTo(p, k)[j]) = IF j \in S(k) THEN NoAck ELSE Stored(nvs[j])
    <3>1. ErasedUpTo(p, k)[j] = IF j \in Gone(p) /\ j < k THEN NoItem ELSE nvs[j]
      BY <1>1 DEF ErasedUpTo, Gone
    <3> HIDE DEF on
    <3>2. QED
      BY <1>2, <3>1, NoItemFacts
  <2>2. QED
    BY <2>1
<1>4. CASE \E k \in 0 .. (DatasetNumber + PageCount) :
              PowerFails(ErasedUpTo(p, k), found(k), call)
  <2>1. PICK k \in 0 .. (DatasetNumber + PageCount) : PowerFails(ErasedUpTo(p, k), found(k), call)
    BY <1>4
  <2> DEFINE n == ErasedUpTo(p, k)
             T == S(k)
             F == found(k)
  <2>2. \A j \in Types : Stored(n[j]) = IF j \in T THEN NoAck ELSE Stored(nvs[j])
    BY <1>3
  <2>3. T \in SUBSET on /\ PowerFails(n, F, call)
    BY <2>1
  <2> HIDE DEF n, T, F
  <2>4. QED
    BY <2>2, <2>3, EraseCutMaps
<1>5. CASE ~ \E k \in 0 .. (DatasetNumber + PageCount) :
              PowerFails(ErasedUpTo(p, k), found(k), call)
  <2> DEFINE n == ErasedUpTo(p, DatasetNumber + PageCount)
  <2>1. /\ nvs' = n
        /\ info' = [i \in Ids |-> IF i \in Gone(p) THEN NoInfo ELSE info[i]]
        /\ jobs' = [i \in Ids |-> IF i \in Gone(p) THEN NoJob ELSE jobs[i]]
        /\ last' = [NoCall EXCEPT !.op = "erase", !.page = p]
    BY <1>5 DEF Erase
  <2>2. \A j \in Types : Stored(n[j]) = IF j \in on THEN NoAck ELSE Stored(nvs[j])
    <3>1. DatasetNumber + PageCount \in Int
      BY Naturals1
    <3>2. \A j \in Types : j < DatasetNumber + PageCount
      BY <1>1, Naturals1 DEF Types
    <3> HIDE DEF on
    <3>3. QED
      BY <1>3, <3>1, <3>2
  <2>3. \A j \in Types : Pending(j) = NoAck /\ Pending(j)' = NoAck
    BY <1>1, <2>1 DEF Pending, NoJob
  <2>4. \A j \in Types : Place(j)' = IF j \in on THEN NotFound ELSE Place(j)
    <3>1. ASSUME NEW j \in Types
          PROVE  Place(j)' = IF j \in Gone(p) THEN NotFound ELSE Place(j)
      <4>1. info'[j] = IF j \in Gone(p) THEN NoInfo ELSE info[j]
        BY <1>1, <2>1
      <4>2. QED
        BY <4>1 DEF Place, NoInfo
    <3> HIDE DEF on
    <3>2. QED
      BY <1>2, <3>1
  <2>5. last'.op = "erase" /\ last'.id = 0 /\ last'.page = p /\ 0 \notin Types
    BY <2>1, TypeFacts DEF NoCall
  <2>6. Store!On(p) = on
    BY DEF Store!On, Place
  <2> HIDE DEF n, on
  <2>7. Store!Erase(p)
    BY <2>1, <2>2, <2>3, <2>4, <2>5, <2>6
       DEF Store!Erase, Store!Without, Store!Cause, Pending, Place
  <2>8. QED
    BY <2>7 DEF Store!Next
<1>6. QED
  BY <1>4, <1>5

LEMMA InitMaps ==
    ASSUME Init
    PROVE  Store!Init
<1>1. /\ \A d \in Types : Stored(nvs[d]) = NoAck /\ jobs[d].next = 0 /\ info[d].len = 0
      /\ last.op = "none" /\ last.id = 0 /\ last.page = NotFound /\ 0 \notin Types
  BY TypeFacts, NoItemFacts DEF Init, NoJob, NoCall, NoInfo
<1>2. QED
  BY <1>1 DEF Store!Init, Store!Run, Store!Cause

LEMMA StepMaps ==
    ASSUME Settled, NvramInv, TableInv, StoreInv, IsCalm(env), [Next]_vars
    PROVE  [Store!Next]_(Store!storeVars)
<1>1. "deinit" \notin env /\ RecordInv
  BY DEF IsCalm, StoreInv
<1>2. CASE BootHeader \/ BootHeadersDone \/ BootDataset \/ BootDone
  BY <1>1, <1>2, BootMaps
<1>3. CASE Crash
  BY <1>3, CrashMaps
<1>4. CASE \E p \in Pages : FormatPage(p)
  BY <1>4, FormatMaps
<1>5. CASE \E d \in Types, p \in Pages, l \in Lens, g \in Gens : BeginWrite(d, p, l, g)
  BY <1>5, BeginWriteMaps
<1>6. CASE \E d \in Types, p \in Pages : BeginCopy(d, p) \/ Move(d, p)
  BY <1>6, BeginCopyMaps, MoveMaps
<1>7. CASE \E i \in Ids : CopyRead(i) \/ WriteNext(i)
  BY <1>7, CopyReadMaps, NextMaps
<1>8. CASE \E p \in Pages : \E o \in ReadPoints(p) : Read(p, o)
  BY <1>8, ReadMaps
<1>9. CASE \E p \in Pages : Erase(p)
  BY <1>9, ErasedMaps
<1>10. CASE UNCHANGED vars
  BY <1>10, QuietMaps DEF vars, Pending, Place, Version
<1>11. ~ Deinit
  BY <1>1 DEF Deinit
<1>12. QED
  BY <1>2, <1>3, <1>4, <1>5, <1>6, <1>7, <1>8, <1>9, <1>10, <1>11 DEF Next

(* While nothing but the power fails, and never in the gap in which page 0 *)
(* has no header and datasets are stored, the backend is the store of      *)
(* whole values: a tail replaces the old version at once; an erase takes   *)
(* the datasets of its page and no other; a power failure changes only     *)
(* what the call it cut short was about, and leaves of the dataset that    *)
(* was being written the old version or the new one, or none where the     *)
(* same record is written again or another length is announced.            *)
THEOREM BackendIsStore == Calm => (Spec => ImplementsStore)
<1> SUFFICES ASSUME Calm PROVE Spec => ImplementsStore
  OBVIOUS
<1>1. Settled /\ Tame
  BY DEF Calm, Settled, IsCalm, Tame
<1>2. Init => Store!Init
  BY InitMaps
<1>3. NvramInv /\ TableInv /\ StoreInv /\ [Next]_vars => [Store!Next]_(Store!storeVars)
  <2>1. TableInv => IsCalm(env)
    BY DEF Calm, TableInv, Typed
  <2>2. QED
    BY <1>1, <2>1, StepMaps
<1>4. QED
  BY <1>1, <1>2, <1>3, NvramInvHolds, TableInvHolds, StoreInvHolds, PTL
     DEF Spec, ImplementsStore, Store!Spec

=============================================================================

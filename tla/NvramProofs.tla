---------------------------- MODULE NvramProofs ----------------------------
(*************************************************************************)
(* Theorems about the table of Nvram, for any number of datasets and     *)
(* pages and any lengths. What the flash holds is in NvramRecords.       *)
(*                                                                       *)
(* In every environment identifier 0 never reaches the flash.            *)
(* zb_osif_nvram_erase_async sets localNvsId to 0 and leaves the flush   *)
(* flag, so the next switch of datasets does write under identifier 0.   *)
(* What saves the backend is the table: entry 0 has length 0, and a      *)
(* write of length 0 deletes. Entry 0 keeps that length because it is    *)
(* only set from a header, and no header names dataset 0, wherever it    *)
(* comes from: the core, the buffer, or a record read back from the      *)
(* flash (NvramInv).                                                     *)
(*                                                                       *)
(* In Tame environments no position has two owners: entries lie apart in *)
(* the table, within the used part of their page, while it is used and   *)
(* while it is rebuilt (TableInv).                                       *)
(*************************************************************************)
EXTENDS Nvram, WellFoundedInduction, TLAPS

Kinds == {"hdr", "body", "tail", "blank", "junk", "none"}

(* A header names a dataset other than 0.                                  *)
Named == {c \in [k : Kinds, d : Ids, len : Int, g : Gens \cup {0}] : c.k = "hdr" => c.d # 0}

Places == [page : Int, pos : Int, len : Int]
Items == [len : Int, cell : [Slots -> Named]]
Buffers == [id : Ids, buf : [Slots -> Named], flush : BOOLEAN]
Relocs == [ds : Ids \cup {NotFound}, old : Places, off : Int, len : Int]
Jobs == [next : Int, g : Gens \cup {0}, old : Places, got : Named]

(* The table and the flash, with nothing under identifier 0.               *)
Tables == {t \in [Ids -> Places] : t[0].len = 0}
Flashes == {n \in [Ids -> Items] : n[0] = NoItem}

NvramInv ==
    /\ info \in Tables /\ nvs \in Flashes /\ cache \in Buffers
    /\ jobs \in [Ids -> Jobs] /\ free \in [Pages -> Int]
    /\ scan \in [id : Nat, page : Int, pos : Int]
    /\ reloc \in Relocs

-----------------------------------------------------------------------------
(* Tables are searched from their first entry on.                          *)

Less == {p \in Nat \X Nat : p[1] < p[2]}

(* The order of the naturals is well founded.                              *)
LEMMA LessWellFounded == IsWellFoundedOn(Less, Nat)
  BY NatLessThanWellFounded DEF Less, OpToRel

(* A nonempty set of naturals has a least element: what a CHOOSE of the    *)
(* first entry of a table finds.                                           *)
LEMMA Least ==
  ASSUME NEW S, S \subseteq Nat, S # {}
  PROVE  \E i \in S : \A j \in S : i <= j
<1>1. PICK i \in S : \A j \in S : ~ (<<j, i>> \in Less)
  BY LessWellFounded, WFMin
<1>2. \A j \in S : j < i => <<j, i>> \in Less
  BY DEF Less
<1>3. ASSUME NEW j \in S PROVE i <= j
  <2>1. ~ (j < i)
    BY <1>1, <1>2
  <2>2. i \in Nat /\ j \in Nat
    OBVIOUS
  <2> QED BY <2>1, <2>2
<1> QED BY <1>3

-----------------------------------------------------------------------------
(* The small pieces.                                                       *)

LEMMA Naturals0 ==
    /\ DatasetNumber \in Nat /\ DatasetNumber > 0 /\ PageCount \in Nat /\ PageCount > 0
    /\ MaxLen \in Nat /\ MaxLen > 0 /\ HdrLen \in Int
    /\ 0 \in Ids /\ 0 \in Slots /\ Ids \subseteq Nat /\ Pages \subseteq Nat /\ Slots \subseteq Nat
BY NvramAssumption DEF Ids, Pages, Slots

LEMMA Constants0 ==
    /\ Blank \in Named /\ Junk \in Named /\ NoCell \in Named
    /\ NoItem \in Items /\ NoInfo \in Places /\ NoJob \in Jobs
BY Naturals0 DEF Blank, Junk, NoCell, Named, Kinds, NoItem, Items, NoInfo, Places, NoJob, Jobs

LEMMA PieceNamed ==
    ASSUME NEW d \in Ids, NEW l \in Int, NEW g \in Gens \cup {0}, NEW s \in Int, s = 0 => d # 0
    PROVE  Piece(d, l, g, s) \in Named
BY DEF Piece, Named, Kinds

(* A place that is found belongs to an entry that has a length.            *)
LEMMA FoundIsNamed ==
    ASSUME NEW t \in Tables, NEW p \in Int, NEW o \in Int
    PROVE  Find(t, p, o) = NotFound \/ (Find(t, p, o) \in Ids /\ Find(t, p, o) # 0)
<1> DEFINE hits == {i \in Ids : Covers(t[i], p, o)}
<1>1. CASE hits = {}
  BY <1>1 DEF Find
<1>2. CASE hits # {}
  <2>1. \E i \in hits : \A j \in hits : i <= j
    <3>1. hits \subseteq Nat
      BY Naturals0
    <3> HIDE DEF hits
    <3>2. QED
      BY <1>2, <3>1, Least
  <2>2. Find(t, p, o) \in hits
    BY <1>2, <2>1 DEF Find
  <2>3. 0 \notin hits
    BY Naturals0 DEF Covers, Tables, Places
  <2>4. QED
    BY <2>2, <2>3
<1>3. QED
  BY <1>1, <1>2

-----------------------------------------------------------------------------
(* The buffer and the flash.                                               *)

LEMMA Put ==
    ASSUME NEW n \in Flashes, NEW d \in Ids, NEW x \in Items, d = 0 => x = NoItem
    PROVE  [n EXCEPT ![d] = x] \in Flashes
<1>1. n \in [Ids -> Items] /\ n[0] = NoItem /\ 0 \in Ids
  BY Naturals0 DEF Flashes
<1>2. [n EXCEPT ![d] = x] \in [Ids -> Items]
  BY <1>1
<1>3. [n EXCEPT ![d] = x][0] = NoItem
  BY <1>1
<1>4. QED
  BY <1>2, <1>3 DEF Flashes

(* do_localNvs_write: what goes under identifier 0 has length 0.           *)
LEMMA FlushKeeps ==
    ASSUME NEW n \in Flashes, NEW c \in Buffers, NEW t \in Tables
    PROVE  Flushed(n, c, t) \in Flashes /\ \A m \in FlushStops(n, c, t) : m \in Flashes
<1>1. Buffered(c, t[c.id].len) \in Items
  <2>1. t[c.id].len \in Int
    BY DEF Tables, Places, Buffers
  <2>2. \A s \in Slots : (IF s < t[c.id].len THEN c.buf[s] ELSE Blank) \in Named
    BY Constants0 DEF Buffers
  <2>3. QED
    BY <2>1, <2>2 DEF Buffered, Items
<1>2. c.id = 0 => Buffered(c, t[c.id].len) = NoItem
  <2> SUFFICES ASSUME c.id = 0 PROVE Buffered(c, 0) = NoItem
    BY DEF Tables
  <2>1. \A s \in Slots : ~ (s < 0)
    BY Naturals0
  <2>2. QED
    BY <2>1 DEF Buffered, NoItem
<1>3. c.id \in Ids
  BY DEF Buffers
<1>4. [n EXCEPT ![c.id] = Buffered(c, t[c.id].len)] \in Flashes
  BY <1>1, <1>2, <1>3, Put
<1>5. [n EXCEPT ![c.id] = NoItem] \in Flashes
  BY <1>3, Put, Constants0
<1>6. Flushed(n, c, t) \in Flashes
  BY <1>4 DEF Flushed
<1>7. QED
  BY <1>5, <1>6 DEF FlushStops, FlushFails

(* do_localNvs_read                                                        *)
LEMMA LoadKeeps ==
    ASSUME NEW n \in Flashes, NEW c \in Buffers, NEW t \in Tables, NEW d \in Ids, NEW l \in Int
    PROVE  Loaded(n, c, t, d, l) \in Buffers /\ Trimmed(n, c, t, d, l) \in Flashes
<1> DEFINE rl == ReadLen(t, d, l)
<1>1. \A s \in Slots : (IF s < rl THEN n[d].cell[s] ELSE c.buf[s]) \in Named
  BY DEF Flashes, Items, Buffers
<1>2. \A s \in Slots : (IF s < t[d].len THEN Blank ELSE c.buf[s]) \in Named
  BY Constants0 DEF Buffers
<1>3. Loaded(n, c, t, d, l) \in Buffers
  <2> HIDE DEF rl
  <2>1. [s \in Slots |-> IF s < rl THEN n[d].cell[s] ELSE c.buf[s]] \in [Slots -> Named]
    BY <1>1
  <2>2. [s \in Slots |-> IF s < t[d].len THEN Blank ELSE c.buf[s]] \in [Slots -> Named]
    BY <1>2
  <2>3. QED
    BY <2>1, <2>2 DEF Loaded, Buffers, rl
<1>4. [n EXCEPT ![d] = NoItem] \in Flashes
  BY Put, Constants0
<1>5. QED
  BY <1>3, <1>4 DEF Trimmed

-----------------------------------------------------------------------------
(* zb_osif_nvram_read                                                      *)

LEMMA RelocFields ==
    ASSUME NEW r \in Relocs, NEW x \in Ids \cup {NotFound}, NEW y \in Int, NEW z \in Int,
           NEW w \in Places
    PROVE  /\ [r EXCEPT !.ds = x, !.off = y, !.len = z] \in Relocs
           /\ [r EXCEPT !.ds = x, !.old = w] \in Relocs
           /\ [r EXCEPT !.off = y, !.len = z] \in Relocs
<1> DEFINE D == Ids \cup {NotFound}
<1>1. r \in [ds : D, old : Places, off : Int, len : Int] /\ x \in D
  BY DEF Relocs
<1> HIDE DEF D
<1>2. [r EXCEPT !.ds = x, !.off = y, !.len = z] \in [ds : D, old : Places, off : Int, len : Int]
  BY <1>1
<1>3. [r EXCEPT !.off = y, !.len = z] \in [ds : D, old : Places, off : Int, len : Int]
  BY <1>1
<1>4. [r EXCEPT !.ds = x, !.old = w] \in [ds : D, old : Places, off : Int, len : Int]
  BY <1>1
<1>5. QED
  BY <1>2, <1>3, <1>4 DEF Relocs, D

LEMMA ReadKeeps ==
    ASSUME NvramInv, NEW p \in Int, NEW o \in Int
    PROVE  /\ ReadValue(p, o) \in Named
           /\ \A n \in ReadStops(p, o) : n \in Flashes
           /\ ReadEffect(p, o) =>
                /\ nvs' \in Flashes /\ cache' \in Buffers
                /\ reloc' \in Relocs
<1> DEFINE d == ReadId(p, o)
<1> USE DEF NvramInv
<1>1. Find(info, p, o) = NotFound \/ Find(info, p, o) \in Ids
  BY FoundIsNamed
<1>2. d = NotFound \/ d \in Ids
  BY <1>1 DEF ReadId, IsOldPlace, Relocs
<1>3. Flushed(nvs, cache, info) \in Flashes /\ \A m \in FlushStops(nvs, cache, info) : m \in Flashes
  BY FlushKeeps
<1>4. ASSUME d \in Ids, NEW n \in Flashes PROVE Loaded(n, cache, info, d, 0) \in Buffers
  <2> HIDE DEF d
  <2>1. QED
    BY <1>4, LoadKeeps
<1>5. ReadValue(p, o) \in Named
  <2> HIDE DEF d
  <2>1. CASE d \in Ids
    BY <1>3, <1>4, <2>1, Constants0 DEF ReadValue, Buffers, d
  <2>2. CASE d = NotFound
    BY <2>2, Constants0 DEF ReadValue, d
  <2>3. QED
    BY <1>2, <2>1, <2>2
<1>6. \A n \in ReadStops(p, o) : n \in Flashes
  BY <1>3 DEF ReadStops
<1>7. ASSUME ReadEffect(p, o) PROVE nvs' \in Flashes /\ cache' \in Buffers
  <2>1. CASE UNCHANGED <<nvs, cache>>
    BY <2>1
  <2>2. CASE ~ UNCHANGED <<nvs, cache>>
    <3> HIDE DEF d
    <3>1. /\ d # NotFound
          /\ nvs' \in AfterFlush(nvs, cache, info)
          /\ cache' = Loaded(nvs', cache, info, d, 0)
      BY <1>7, <2>2 DEF ReadEffect, d
    <3>2. nvs' \in Flashes
      BY <1>3, <3>1 DEF AfterFlush
    <3>3. QED
      BY <1>2, <1>4, <3>1, <3>2
  <2>3. QED
    BY <2>1, <2>2
<1>8. ReadReloc(p, o) \in Relocs
  <2>1. /\ reloc \in Relocs /\ NotFound \in Ids \cup {NotFound}
        /\ 0 \in Int /\ 1 \in Int /\ o - reloc.old.pos \in Int /\ reloc.old \in Places
    BY DEF Places, Relocs
  <2>2. [reloc EXCEPT !.ds = NotFound, !.off = 0, !.len = 0] \in Relocs
    BY <2>1, RelocFields, Zenon
  <2>3. [reloc EXCEPT !.off = o - reloc.old.pos, !.len = 1] \in Relocs
    BY <2>1, RelocFields, Zenon
  <2>4. QED
    BY <2>1, <2>2, <2>3 DEF ReadReloc
<1>9. QED
  BY <1>5, <1>6, <1>7, <1>8 DEF ReadEffect

-----------------------------------------------------------------------------
(* zb_osif_nvram_write                                                     *)

(* build_dataset_info: a header that names a dataset changes its entry,    *)
(* and never entry 0.                                                      *)
LEMMA BuildKeeps ==
    ASSUME NvramInv, NEW c \in Named, NEW p \in Int, NEW o \in Int
    PROVE  BuildInfo(c, p, o) \in Tables /\ BuildReloc(c, p, o) \in Relocs /\ OldLen(c, p) \in Int
<1>1. info \in [Ids -> Places] /\ info[0].len = 0
  BY DEF NvramInv, Tables
<1>2. c.d \in Ids /\ c.len \in Int /\ (c.k = "hdr" => c.d # 0)
  BY DEF Named
<1>3. info[c.d] \in Places /\ info[c.d].len \in Int
  BY <1>1, <1>2 DEF Places
<1>4. BuildInfo(c, p, o) \in Tables
  <2>1. CASE c.k # "hdr"
    BY <2>1, <1>1 DEF BuildInfo, Tables
  <2>2. CASE c.k = "hdr"
    <3> DEFINE e == [page |-> p, pos |-> o, len |-> c.len]
    <3>1. e \in Places
      BY <1>2 DEF Places
    <3>2. BuildInfo(c, p, o) = [info EXCEPT ![c.d] = e]
      BY <2>2 DEF BuildInfo
    <3> HIDE DEF e
    <3>3. [info EXCEPT ![c.d] = e] \in [Ids -> Places]
      BY <1>1, <1>2, <3>1
    <3>4. [info EXCEPT ![c.d] = e][0] = info[0]
      BY <1>1, <1>2, <2>2, Naturals0
    <3>5. QED
      BY <1>1, <3>2, <3>3, <3>4 DEF Tables
  <2>3. QED
    BY <2>1, <2>2
<1>5. BuildReloc(c, p, o) \in Relocs
  <2>1. reloc \in Relocs
    BY DEF NvramInv
  <2> DEFINE ds == IF Moved(info[c.d], p, o, c.len) THEN c.d ELSE reloc.ds
             old == IF ds # NotFound /\ (info[c.d].pos = 0 \/ Moved(info[c.d], p, o, c.len))
                    THEN info[c.d] ELSE reloc.old
  <2>2. ds \in Ids \cup {NotFound}
    BY <1>2, <2>1 DEF Relocs
  <2>3. old \in Places
    BY <1>3, <2>1 DEF Relocs
  <2>4. BuildReloc(c, p, o) = IF c.k # "hdr" THEN reloc ELSE [reloc EXCEPT !.ds = ds, !.old = old]
    BY DEF BuildReloc
  <2> HIDE DEF ds, old
  <2>5. [reloc EXCEPT !.ds = ds, !.old = old] \in Relocs
    <3>1. 0 \in Int
      OBVIOUS
    <3>2. QED
      BY <2>1, <2>2, <2>3, <3>1, RelocFields, Zenon
  <2>6. QED
    BY <2>1, <2>4, <2>5
<1>6. OldLen(c, p) \in Int
  BY <1>3 DEF OldLen
<1>7. QED
  BY <1>4, <1>5, <1>6

(* The dataset that is written is in the buffer.                           *)
LEMMA LoadedKeeps ==
    ASSUME NvramInv, NEW c \in Named, NEW p \in Int, NEW o \in Int, NEW n \in Flashes,
           Target(c, p, o) # NotFound
    PROVE  /\ LoadedNvs(c, p, o, n) \in Flashes
           /\ LoadedCache(c, p, o, n) \in Buffers
           /\ Patched(c, p, o, n) \in Buffers
<1> DEFINE tbl == BuildInfo(c, p, o)
           d == Target(c, p, o)
           l == OldLen(c, p)
<1>1. nvs \in Flashes /\ cache \in Buffers
  BY DEF NvramInv
<1>2. tbl \in Tables /\ l \in Int
  BY BuildKeeps
<1>3. d \in Ids
  BY <1>2, FoundIsNamed DEF Target
<1>4. LoadedNvs(c, p, o, n) = Trimmed(n, cache, tbl, d, l)
  BY DEF LoadedNvs
<1>5. LoadedCache(c, p, o, n) = Loaded(n, cache, tbl, d, l)
  BY DEF LoadedCache
<1> HIDE DEF tbl, d, l
<1>7. LoadedNvs(c, p, o, n) \in Flashes
  BY <1>1, <1>2, <1>3, <1>4, LoadKeeps
<1>8. LoadedCache(c, p, o, n) \in Buffers
  BY <1>1, <1>2, <1>3, <1>5, LoadKeeps
<1>9. Patched(c, p, o, n) \in Buffers
  <2> DEFINE b == LoadedCache(c, p, o, n)
             j == Offset(c, p, o)
  <2>1. b \in Buffers
    BY <1>8
  <2>2. Patched(c, p, o, n) = IF IsRelocated(c, p, o) THEN b
                               ELSE [b EXCEPT !.buf[j] = c, !.flush = TRUE]
    BY DEF Patched
  <2> HIDE DEF b, j
  <2>3. [b.buf EXCEPT ![j] = c] \in [Slots -> Named]
    BY <2>1 DEF Buffers
  <2>4. [[b EXCEPT !.buf = [b.buf EXCEPT ![j] = c]] EXCEPT !.flush = TRUE] \in Buffers
    BY <2>1, <2>3 DEF Buffers
  <2>5. [b EXCEPT !.buf[j] = c, !.flush = TRUE]
          = [[b EXCEPT !.buf = [b.buf EXCEPT ![j] = c]] EXCEPT !.flush = TRUE]
    OBVIOUS
  <2>6. QED
    BY <2>1, <2>2, <2>4, <2>5
<1>10. QED
  BY <1>7, <1>8, <1>9

LEMMA WriteKeeps ==
    ASSUME NvramInv, NEW c \in Named, NEW p \in Int, NEW o \in Int
    PROVE  /\ \A n \in WriteStops(c, p, o) : n \in Flashes
           /\ WriteEffect(c, p, o) =>
                /\ info' \in Tables /\ reloc' \in Relocs
                /\ nvs' \in Flashes /\ cache' \in Buffers
<1>1. nvs \in Flashes /\ cache \in Buffers
  BY DEF NvramInv
<1>2. BuildInfo(c, p, o) \in Tables /\ BuildReloc(c, p, o) \in Relocs
  BY BuildKeeps
<1>3. ASSUME NEW n \in WriteStops(c, p, o) PROVE n \in Flashes
  <2>1. CASE n = nvs
    BY <1>1, <2>1
  <2>2. CASE n # nvs
    <3> DEFINE x == IF cache.id = Target(c, p, o) THEN nvs
                    ELSE Flushed(nvs, cache, BuildInfo(c, p, o))
               m == LoadedNvs(c, p, o, x)
               b == Patched(c, p, o, x)
    <3>0. x \in Flashes
      BY <1>1, <1>2, FlushKeeps
    <3>1. Target(c, p, o) # NotFound
      BY <2>2 DEF WriteStops
    <3>2. m \in Flashes /\ b \in Buffers
      <4> HIDE DEF x
      <4>1. QED
        BY <3>0, <3>1, LoadedKeeps
    <3>3. n \in FlushStops(nvs, cache, BuildInfo(c, p, o)) \/ n = m
            \/ n \in FlushStops(m, b, BuildInfo(c, p, o))
      BY <2>2 DEF WriteStops
    <3> HIDE DEF m, b
    <3>4. QED
      BY <1>1, <1>2, <3>2, <3>3, FlushKeeps
  <2>3. QED
    BY <2>1, <2>2
<1>4. ASSUME WriteEffect(c, p, o) PROVE nvs' \in Flashes /\ cache' \in Buffers
  <2>1. PICK n \in Displaced(c, p, o) : WriteUnknown(c, p, o) \/ WriteRefused(c, p, o, n)
                                  \/ WriteBuffered(c, p, o, n) \/ WriteTail(c, p, o, n)
    BY <1>4 DEF WriteEffect
  <2>2. n \in Flashes
    BY <1>1, <1>2, FlushKeeps DEF Displaced, AfterFlush
  <2>3. CASE WriteUnknown(c, p, o)
    BY <1>1, <2>3 DEF WriteUnknown
  <2>4. CASE WriteRefused(c, p, o, n)
    BY <2>2, <2>4, LoadedKeeps DEF WriteRefused
  <2>5. CASE WriteBuffered(c, p, o, n)
    BY <2>2, <2>5, LoadedKeeps DEF WriteBuffered
  <2>6. CASE WriteTail(c, p, o, n)
    <3> DEFINE b == Patched(c, p, o, n)
               m == LoadedNvs(c, p, o, n)
    <3>1. m \in Flashes /\ b \in Buffers
      BY <2>2, <2>6, LoadedKeeps DEF WriteTail
    <3>2. /\ cache' = [b EXCEPT !.flush = FALSE]
          /\ nvs' \in FlushStops(m, b, BuildInfo(c, p, o))
      BY <2>6 DEF WriteTail, FlushStops
    <3> HIDE DEF b, m
    <3>3. cache' \in Buffers
      BY <3>1, <3>2 DEF Buffers
    <3>4. nvs' \in Flashes
      BY <1>2, <3>1, <3>2, FlushKeeps
    <3>5. QED
      BY <3>3, <3>4
  <2>7. QED
    BY <2>1, <2>3, <2>4, <2>5, <2>6
<1>5. QED
  BY <1>2, <1>3, <1>4 DEF WriteEffect

-----------------------------------------------------------------------------
(* Start and power failure.                                                *)

LEMMA Blanks ==
    /\ [i \in Ids |-> NoInfo] \in Tables /\ [i \in Ids |-> NoItem] \in Flashes
    /\ BlankCache \in Buffers /\ NoReloc \in Relocs
    /\ [i \in Ids |-> NoJob] \in [Ids -> Jobs] /\ [p \in Pages |-> 0] \in [Pages -> Int]
    /\ ScanStart \in [id : Nat, page : Int, pos : Int]
<1>1. [i \in Ids |-> NoInfo] \in Tables
  BY Naturals0, Constants0 DEF Tables, NoInfo
<1>2. [i \in Ids |-> NoItem] \in Flashes
  BY Naturals0, Constants0 DEF Flashes
<1>3. BlankCache \in Buffers
  BY Naturals0, Constants0 DEF BlankCache, Buffers
<1>4. NoReloc \in Relocs
  BY Constants0 DEF NoReloc, Relocs
<1>5. QED
  BY <1>1, <1>2, <1>3, <1>4, Naturals0, Constants0 DEF ScanStart

LEMMA PowerKeeps ==
    ASSUME NEW n \in Flashes, NEW F, NEW w, PowerFails(n, F, w)
    PROVE  NvramInv'
BY Blanks DEF PowerFails, NvramInv

(* A call of the core to write a piece, completed or cut off.              *)
LEMMA CoreKeeps ==
    ASSUME NvramInv, NEW i \in Ids, NEW c \in Named, NEW p \in Int, NEW o \in Int,
           NEW job \in Jobs, CoreWrite(i, c, p, o, job), free' \in [Pages -> Int]
    PROVE  NvramInv'
<1> DEFINE ver == [len |-> BuildInfo(c, p, o)[i].len, g |-> job.g]
           found(n) == [acked EXCEPT ![i] = Resolved(i, n, Kept(i, c, o, ver) \cup {ver})]
           call == [CutShort("write") EXCEPT !.id = i, !.ver = ver]
<1>1. CASE \E n \in WriteStops(c, p, o) : PowerFails(n, found(n), call)
  BY <1>1, WriteKeeps, PowerKeeps
<1>2. CASE ~ \E n \in WriteStops(c, p, o) : PowerFails(n, found(n), call)
  <2>1. /\ WriteEffect(c, p, o) /\ scan' = scan
        /\ jobs' = [jobs EXCEPT ![i] = IF last'.ret # "ok" \/ c.k = "tail" THEN NoJob ELSE job]
    BY <1>2 DEF CoreWrite
  <2>2. jobs' \in [Ids -> Jobs]
    BY <2>1, Constants0 DEF NvramInv
  <2>3. info' \in Tables /\ reloc' \in Relocs /\ nvs' \in Flashes /\ cache' \in Buffers
    BY <2>1, WriteKeeps
  <2>4. scan' \in [id : Nat, page : Int, pos : Int]
    BY <2>1 DEF NvramInv
  <2>5. QED
    BY <2>2, <2>3, <2>4 DEF NvramInv
<1>3. QED
  BY <1>1, <1>2

-----------------------------------------------------------------------------
(* Every step keeps the invariant.                                         *)

LEMMA BootKeeps ==
    ASSUME NvramInv, BootHeader \/ BootHeadersDone \/ BootDataset \/ BootDone \/ Deinit
    PROVE  NvramInv'
<1> USE DEF NvramInv
<1>1. /\ info \in [Ids -> Places] /\ info[0].len = 0 /\ nvs \in [Ids -> Items] /\ nvs[0].len = 0
      /\ 0 \in Ids /\ 0 \in Slots
  BY Naturals0 DEF Tables, Flashes, NoItem
<1>2. ASSUME NEW i \in Ids PROVE nvs[i].cell[0].len \in Int
  BY <1>1 DEF Items, Named
<1>3. ASSUME NEW i \in Ids, nvs[i].len # 0, NEW e \in Places
      PROVE  [info EXCEPT ![i] = e] \in Tables
  BY <1>1, <1>3 DEF Tables
<1>4. CASE BootHeader
  <2> DEFINE i == scan.id
             l == nvs[i].cell[0].len
             p == i - DatasetNumber
  <2>1. i \in Ids /\ i \in Nat /\ p \in Int
    BY <1>4, Naturals0 DEF BootHeader
  <2>2. l \in Int
    BY <1>2, <2>1
  <2>3. UNCHANGED <<nvs, cache, reloc, jobs>> /\ scan' = [scan EXCEPT !.id = i + 1]
    BY <1>4 DEF BootHeader
  <2>4. free' = [free EXCEPT ![p] = IF nvs[i].len > 0 THEN l ELSE 0]
    BY <1>4 DEF BootHeader
  <2>5. \/ info' = info
        \/ nvs[i].len > 0 /\ info' = [info EXCEPT ![i] = [page |-> p, pos |-> 0, len |-> l]]
    BY <1>4 DEF BootHeader
  <2> HIDE DEF i, l, p
  <2>6. info' \in Tables
    <3>1. [page |-> p, pos |-> 0, len |-> l] \in Places
      BY <2>1, <2>2 DEF Places
    <3>2. QED
      BY <1>3, <2>1, <2>5, <3>1
  <2>7. free' \in [Pages -> Int]
    <3>1. free \in [Pages -> Int] /\ (IF nvs[i].len > 0 THEN l ELSE 0) \in Int
      BY <2>2
    <3> HIDE DEF NvramInv
    <3>2. QED
      BY <2>4, <3>1
  <2>8. QED
    BY <2>1, <2>3, <2>6, <2>7
<1>5. CASE BootHeadersDone
  <2>1. PageHdr(0) \in Ids
    BY Naturals0 DEF PageHdr, Ids
  <2>2. info[PageHdr(0)].pos + info[PageHdr(0)].len \in Int
    BY <1>1, <2>1 DEF Places
  <2>3. QED
    BY <1>5, <2>2, Blanks DEF BootHeadersDone
<1>6. CASE BootDataset
  <2> DEFINE i == scan.id
             l == nvs[i].cell[0].len
             e == [page |-> scan.page, pos |-> scan.pos, len |-> l]
             nxt == scan.page + 1
  <2>1. i \in Nat /\ i \in Ids
    BY <1>6, Naturals0 DEF BootDataset, Ids
  <2>2. l \in Int
    BY <1>2, <2>1
  <2>3. UNCHANGED <<nvs, cache, reloc, jobs>>
    BY <1>6 DEF BootDataset
  <2>4. CASE nvs[i].len = 0
    BY <1>6, <2>1, <2>3, <2>4 DEF BootDataset
  <2>5. CASE nvs[i].len # 0
    <3>1. info' = [info EXCEPT ![i] = e] /\ free' = [free EXCEPT ![scan.page] = scan.pos + l]
      BY <1>6, <2>5 DEF BootDataset, BootEnd
    <3>2. \/ scan' = [scan EXCEPT !.id = i + 1, !.pos = scan.pos + l]
          \/ nxt \in Pages /\ scan' = [id |-> i + 1, page |-> nxt,
                                 pos |-> info[PageHdr(nxt)].pos + info[PageHdr(nxt)].len]
          \/ scan' = scan
      BY <1>6, <2>5 DEF BootDataset, BootEnd
    <3>3. e \in Places /\ scan.pos + l \in Int
      BY <2>2 DEF Places
    <3>4. nxt \in Pages => info[PageHdr(nxt)].pos + info[PageHdr(nxt)].len \in Int
      <4>1. nxt \in Pages => PageHdr(nxt) \in Ids
        BY Naturals0 DEF PageHdr, Ids, Pages
      <4>2. QED
        BY <1>1, <4>1 DEF Places
    <3> HIDE DEF l, e
    <3>5. info' \in Tables
      BY <1>3, <2>1, <2>5, <3>1, <3>3
    <3>6. scan' \in [id : Nat, page : Int, pos : Int]
      <4> DEFINE end == scan.pos + l
                 head == info[PageHdr(nxt)].pos + info[PageHdr(nxt)].len
      <4>1. scan \in [id : Nat, page : Int, pos : Int] /\ i + 1 \in Nat /\ end \in Int
        BY <2>1, <3>3
      <4>2. nxt \in Pages => nxt \in Int /\ head \in Int
        BY <3>4, Naturals0
      <4>3. \/ scan' = [scan EXCEPT !.id = i + 1, !.pos = end]
            \/ nxt \in Pages /\ scan' = [id |-> i + 1, page |-> nxt, pos |-> head]
            \/ scan' = scan
        BY <3>2
      <4> HIDE DEF NvramInv, end, head, nxt, i
      <4>4. [scan EXCEPT !.id = i + 1, !.pos = end] \in [id : Nat, page : Int, pos : Int]
        <5> DEFINE k == i + 1
        <5> HIDE DEF k
        <5>1. [[scan EXCEPT !.id = k] EXCEPT !.pos = end] \in [id : Nat, page : Int, pos : Int]
          BY <4>1 DEF k
        <5>2. QED
          BY <4>1, <5>1 DEF k
      <4>5. CASE scan' = [scan EXCEPT !.id = i + 1, !.pos = end]
        BY <4>4, <4>5
      <4>6. CASE scan' # [scan EXCEPT !.id = i + 1, !.pos = end]
        BY <4>1, <4>2, <4>3, <4>6
      <4>7. QED
        BY <4>5, <4>6
    <3>7. QED
      BY <2>3, <3>1, <3>3, <3>5, <3>6
  <2>6. QED
    BY <2>4, <2>5
<1>7. CASE BootDone
  BY <1>7, Blanks DEF BootDone
<1>8. CASE Deinit
  BY <1>8, Blanks, Constants0 DEF Deinit, Buffers
<1>9. QED
  BY <1>4, <1>5, <1>6, <1>7, <1>8

LEMMA CallKeeps ==
    ASSUME NvramInv,
           \/ \E p \in Pages : FormatPage(p)
           \/ \E d \in Types, p \in Pages, l \in Lens, g \in Gens : BeginWrite(d, p, l, g)
           \/ \E d \in Types, p \in Pages : BeginCopy(d, p)
           \/ \E i \in Ids : WriteNext(i)
    PROVE  NvramInv'
<1>1. /\ free \in [Pages -> Int] /\ info \in [Ids -> Places] /\ jobs \in [Ids -> Jobs]
      /\ [q \in Pages |-> 0] \in [Pages -> Int]
  BY Blanks DEF NvramInv, Tables
<1>2. /\ Types \subseteq Ids /\ 0 \notin Types /\ Lens \subseteq Int
      /\ \A p \in Pages : PageHdr(p) \in Ids /\ PageHdr(p) # 0
  BY Naturals0, NvramAssumption DEF Types, Ids, Pages, PageHdr
<1>3. ASSUME NEW p \in Pages, FormatPage(p) PROVE NvramInv'
  <2> DEFINE i == PageHdr(p)
             c == Piece(i, HdrLen, 0, 0)
             job == [NoJob EXCEPT !.next = 1]
  <2>1. c \in Named /\ i \in Ids
    <3>1. i \in Ids /\ i # 0 /\ HdrLen \in Int /\ 0 \in Int /\ 0 \in Gens \cup {0}
      BY <1>2, Naturals0
    <3> HIDE DEF i
    <3>2. QED
      BY <3>1, PieceNamed
  <2>2. job \in Jobs
    BY Constants0 DEF NoJob, Jobs
  <2>3. free' \in [Pages -> Int]
    BY <1>1, <1>3, Naturals0 DEF FormatPage
  <2>4. CoreWrite(i, c, p, 0, job) /\ p \in Int
    BY <1>3, Naturals0 DEF FormatPage
  <2> HIDE DEF i, c, job
  <2>5. QED
    BY <2>1, <2>2, <2>3, <2>4, CoreKeeps
<1>4. ASSUME NEW d \in Types, NEW p \in Pages, NEW l \in Lens, NEW g \in Gens,
             BeginWrite(d, p, l, g)
      PROVE  NvramInv'
  <2> DEFINE c == Piece(d, l, g, 0)
             job == [NoJob EXCEPT !.next = 1, !.g = g]
  <2>1. c \in Named /\ d \in Ids
    BY <1>2, PieceNamed
  <2>2. job \in Jobs
    <3>1. [NoJob EXCEPT !.next = 1] \in Jobs /\ g \in Gens \cup {0}
      BY Constants0 DEF Jobs
    <3> DEFINE j == [NoJob EXCEPT !.next = 1]
    <3> HIDE DEF j
    <3>2. [j EXCEPT !.g = g] \in Jobs
      BY <3>1 DEF Jobs, j
    <3>3. QED
      BY <3>2 DEF j
  <2>3. free' \in [Pages -> Int]
    <3>1. free[p] + l \in Int
      BY <1>1, <1>2
    <3>2. free' = [free EXCEPT ![p] = free[p] + l] \/ free' = [q \in Pages |-> 0]
      BY <1>4 DEF BeginWrite
    <3>3. QED
      BY <1>1, <3>1, <3>2
  <2>4. CoreWrite(d, c, p, free[p], job)
    BY <1>4 DEF BeginWrite
  <2>5. p \in Int /\ free[p] \in Int
    BY <1>1, Naturals0
  <2> HIDE DEF c, job
  <2>6. QED
    BY <2>1, <2>2, <2>3, <2>4, <2>5, CoreKeeps
<1>5. ASSUME NEW d \in Types, NEW p \in Pages, BeginCopy(d, p) PROVE NvramInv'
  <2> DEFINE h == ReadValue(info[d].page, info[d].pos)
             job == [next |-> 1, g |-> h.g, old |-> info[d], got |-> NoCell]
  <2>1. d \in Ids /\ info[d] \in Places /\ info[d].page \in Int /\ info[d].pos \in Int
    BY <1>1, <1>2 DEF Places
  <2>2. h \in Named
    BY <2>1, ReadKeeps
  <2>3. CoreWrite(d, h, p, free[p], job) /\ p \in Int /\ free[p] \in Int
    BY <1>1, <1>5, Naturals0 DEF BeginCopy
  <2>4. free' = [free EXCEPT ![p] = free[p] + h.len] \/ free' = [q \in Pages |-> 0]
    BY <1>5 DEF BeginCopy
  <2> HIDE DEF h
  <2>5. job \in Jobs
    BY <2>1, <2>2, Constants0 DEF Jobs, Named
  <2>6. free' \in [Pages -> Int]
    <3>1. free[p] + h.len \in Int
      BY <2>2, <2>3 DEF Named
    <3>2. QED
      BY <1>1, <2>4, <3>1
  <2> HIDE DEF job
  <2>7. QED
    BY <2>1, <2>2, <2>3, <2>5, <2>6, CoreKeeps
<1>6. ASSUME NEW i \in Ids, WriteNext(i) PROVE NvramInv'
  <2> DEFINE k == jobs[i].next
             c == IF IsCopied(i) THEN jobs[i].got ELSE Piece(i, info[i].len, jobs[i].g, k)
             job == [jobs[i] EXCEPT !.next = k + 1, !.got = NoCell]
  <2>1. jobs[i] \in Jobs /\ k \in Int /\ jobs[i].g \in Gens \cup {0} /\ jobs[i].got \in Named
    BY <1>1 DEF Jobs
  <2>2. info[i].page \in Int /\ info[i].pos + k \in Int /\ info[i].len \in Int
    BY <1>1, <2>1 DEF Places
  <2>3. c \in Named
    <3>1. i \in Active
      BY <1>6 DEF WriteNext
    <3>2. k # 0
      BY <2>1, <3>1 DEF Active
    <3> HIDE DEF k
    <3>3. Piece(i, info[i].len, jobs[i].g, k) \in Named
      BY <2>1, <2>2, <3>2, PieceNamed
    <3>4. QED
      BY <2>1, <3>3
  <2>4. job \in Jobs
    <3> DEFINE n == k + 1
    <3>1. n \in Int
      BY <2>1
    <3> HIDE DEF n
    <3>2. [[jobs[i] EXCEPT !.next = n] EXCEPT !.got = NoCell] \in Jobs
      BY <2>1, <3>1, Constants0 DEF Jobs
    <3>3. QED
      BY <3>2 DEF n
  <2>5. free' \in [Pages -> Int]
    BY <1>1, <1>6 DEF WriteNext
  <2>6. CoreWrite(i, c, info[i].page, info[i].pos + k, job)
    BY <1>6 DEF WriteNext
  <2> HIDE DEF c, job, k
  <2>7. QED
    BY <2>2, <2>3, <2>4, <2>5, <2>6, CoreKeeps
<1>7. QED
  BY <1>3, <1>4, <1>5, <1>6

LEMMA OtherKeeps ==
    ASSUME NvramInv,
           \/ Crash
           \/ \E i \in Ids : CopyRead(i)
           \/ \E p \in Pages : \E o \in ReadPoints(p) : Read(p, o)
           \/ \E d \in Types, p \in Pages : Move(d, p)
           \/ \E p \in Pages : Erase(p)
    PROVE  NvramInv'
<1>1. /\ free \in [Pages -> Int] /\ info \in [Ids -> Places] /\ jobs \in [Ids -> Jobs]
      /\ nvs \in Flashes /\ Types \subseteq Ids
  BY NvramAssumption DEF NvramInv, Tables, Types, Ids
<1>2. CASE Crash
  BY <1>1, <1>2, PowerKeeps DEF Crash
<1>3. ASSUME NEW p \in Int, NEW o \in Int, NEW F, NEW w, NEW n \in ReadStops(p, o),
             PowerFails(n, F, w)
      PROVE  NvramInv'
  BY <1>3, ReadKeeps, PowerKeeps
<1>4. ASSUME NEW i \in Ids, CopyRead(i) PROVE NvramInv'
  <2> DEFINE p == jobs[i].old.page
             o == jobs[i].old.pos + jobs[i].next
  <2>1. p \in Int /\ o \in Int /\ jobs[i] \in Jobs
    BY <1>1 DEF Jobs, Places
  <2> HIDE DEF p, o
  <2>2. CASE \E n \in ReadStops(p, o) : PowerFails(n, acked, CutShort("read"))
    BY <1>3, <2>1, <2>2
  <2>3. CASE ~ \E n \in ReadStops(p, o) : PowerFails(n, acked, CutShort("read"))
    <3>1. /\ ReadEffect(p, o) /\ jobs' = [jobs EXCEPT ![i].got = ReadValue(p, o)]
          /\ UNCHANGED <<scan, info, free>>
      BY <1>4, <2>3 DEF CopyRead, p, o
    <3>2. ReadValue(p, o) \in Named
      BY <2>1, ReadKeeps
    <3>3. [jobs[i] EXCEPT !.got = ReadValue(p, o)] \in Jobs
      BY <2>1, <3>2 DEF Jobs
    <3>4. jobs' \in [Ids -> Jobs]
      BY <1>1, <3>1, <3>3
    <3>5. nvs' \in Flashes /\ cache' \in Buffers /\ reloc' \in Relocs
      BY <2>1, <3>1, ReadKeeps
    <3>6. QED
      BY <3>1, <3>4, <3>5 DEF NvramInv
  <2>4. QED
    BY <2>2, <2>3
<1>5. ASSUME NEW p \in Pages, NEW o \in ReadPoints(p), Read(p, o) PROVE NvramInv'
  <2>1. p \in Int /\ o \in Int
    <3>1. ReadPoints(p) \subseteq Int
      BY <1>1 DEF ReadPoints, Places
    <3>2. QED
      BY <3>1, Naturals0
  <2>2. CASE \E n \in ReadStops(p, o) : PowerFails(n, acked, CutShort("read"))
    BY <1>3, <2>1, <2>2
  <2>3. CASE ~ \E n \in ReadStops(p, o) : PowerFails(n, acked, CutShort("read"))
    <3>1. ReadEffect(p, o) /\ UNCHANGED <<scan, info, jobs, free>>
      BY <1>5, <2>3 DEF Read
    <3>2. nvs' \in Flashes /\ cache' \in Buffers /\ reloc' \in Relocs
      BY <2>1, <3>1, ReadKeeps
    <3>3. QED
      BY <3>1, <3>2 DEF NvramInv
  <2>4. QED
    BY <2>2, <2>3
<1>6. ASSUME NEW d \in Types, NEW p \in Pages, Move(d, p) PROVE NvramInv'
  <2>1. info[d].page \in Int /\ info[d].pos \in Int /\ free[p] + info[d].len \in Int
    BY <1>1 DEF Places
  <2>2. /\ ReadEffect(info[d].page, info[d].pos)
        /\ free' = [free EXCEPT ![p] = free[p] + info[d].len]
        /\ UNCHANGED <<scan, info, jobs>>
    BY <1>6 DEF Move
  <2>3. nvs' \in Flashes /\ cache' \in Buffers /\ reloc' \in Relocs
    BY <2>1, <2>2, ReadKeeps
  <2>4. free' \in [Pages -> Int]
    BY <1>1, <2>1, <2>2
  <2>5. QED
    BY <2>2, <2>3, <2>4 DEF NvramInv
<1>7. ASSUME NEW p \in Pages, Erase(p) PROVE NvramInv'
  <2> DEFINE found(k) == [i \in Ids |-> IF i \in Gone(p) THEN Resolved(i, ErasedUpTo(p, k), {acked[i], NoAck})
                                ELSE acked[i]]
             call == [CutShort("erase") EXCEPT !.page = p]
  <2>1. ASSUME NEW k \in Int PROVE ErasedUpTo(p, k) \in Flashes
    <3>1. nvs \in [Ids -> Items] /\ nvs[0] = NoItem /\ 0 \in Ids
      BY <1>1, Naturals0 DEF Flashes
    <3>2. ErasedUpTo(p, k) \in [Ids -> Items] /\ ErasedUpTo(p, k)[0] = NoItem
      BY <3>1, Constants0 DEF ErasedUpTo
    <3>3. QED
      BY <3>2 DEF Flashes
  <2>2. CASE \E k \in 0 .. (DatasetNumber + PageCount) :
               PowerFails(ErasedUpTo(p, k), found(k), call)
    BY <2>1, <2>2, PowerKeeps
  <2>3. CASE ~ \E k \in 0 .. (DatasetNumber + PageCount) :
               PowerFails(ErasedUpTo(p, k), found(k), call)
    <3>1. /\ nvs' = ErasedUpTo(p, DatasetNumber + PageCount)
          /\ info' = [i \in Ids |-> IF i \in Gone(p) THEN NoInfo ELSE info[i]]
          /\ cache' = [cache EXCEPT !.id = 0, !.buf = [s \in Slots |-> Junk]]
          /\ jobs' = [i \in Ids |-> IF i \in Gone(p) THEN NoJob ELSE jobs[i]]
          /\ free' = [free EXCEPT ![p] = 0]
          /\ UNCHANGED <<scan, reloc>>
      BY <1>7, <2>3 DEF Erase
    <3>2. nvs' \in Flashes
      BY <2>1, <3>1, Naturals0
    <3>3. info' \in Tables
      <4>1. info[0].len = 0 /\ 0 \in Ids
        BY Naturals0 DEF NvramInv, Tables
      <4>2. info' \in [Ids -> Places] /\ info'[0].len = 0
        BY <1>1, <3>1, <4>1, Constants0 DEF NoInfo
      <4>3. QED
        BY <4>2 DEF Tables
    <3>4. cache' \in Buffers
      <4>1. [s \in Slots |-> Junk] \in [Slots -> Named] /\ 0 \in Ids /\ cache \in Buffers
        BY Constants0, Naturals0 DEF NvramInv
      <4> DEFINE b == [s \in Slots |-> Junk]
      <4> HIDE DEF b
      <4>2. [[cache EXCEPT !.id = 0] EXCEPT !.buf = b] \in Buffers
        BY <4>1 DEF Buffers, b
      <4>3. cache' = [[cache EXCEPT !.id = 0] EXCEPT !.buf = b]
        BY <3>1 DEF b
      <4>4. QED
        BY <4>2, <4>3
    <3>5. jobs' \in [Ids -> Jobs] /\ free' \in [Pages -> Int]
      BY <1>1, <3>1, Constants0
    <3>6. QED
      BY <3>1, <3>2, <3>3, <3>4, <3>5 DEF NvramInv
  <2>4. QED
    BY <2>2, <2>3
<1>8. QED
  BY <1>2, <1>4, <1>5, <1>6, <1>7

-----------------------------------------------------------------------------
LEMMA NvramInvHolds == Spec => []NvramInv
<1>1. Init => NvramInv
  BY Blanks DEF Init, NvramInv
<1>2. NvramInv /\ [Next]_vars => NvramInv'
  <2> SUFFICES ASSUME NvramInv, [Next]_vars PROVE NvramInv'
    OBVIOUS
  <2>1. CASE Next
    BY <2>1, BootKeeps, CallKeeps, OtherKeeps DEF Next
  <2>2. CASE UNCHANGED vars
    BY <2>2 DEF vars, NvramInv
  <2>3. QED
    BY <2>1, <2>2
<1>3. QED
  BY <1>1, <1>2, PTL DEF Spec

(* For any number of datasets and pages, in every environment and after    *)
(* any power failure: what an erase leaves flagged for writing under       *)
(* identifier 0 is never stored there.                                     *)
THEOREM NothingUnderZero == Spec => []ReservedIdNeverStored
<1>1. NvramInv => ReservedIdNeverStored
  BY DEF NvramInv, Flashes, ReservedIdNeverStored
<1>2. QED
  BY <1>1, NvramInvHolds, PTL

-----------------------------------------------------------------------------
(* The table of positions, in every environment without deinit, which      *)
(* keeps the old table for the next start, and in which a dataset is not   *)
(* copied while another or a page is touched: the old place could then     *)
(* be erased and given away, and a header read there would be registered   *)
(* inside the copy.                                                        *)
Tame == \A w \in Worlds :
    "deinit" \notin w /\ ("copy" \notin w \/ w \cap {"interleave", "midway"} = {})

(* A header is the first piece of its record, in the buffer and in the     *)
(* flash, and announces at least another piece.                            *)
At(s) == {c \in Cells : c.k = "hdr" => s = 0 /\ c.len >= 2}
Rows == {b \in [Slots -> Cells] : \A s \in Slots : b[s] \in At(s)}
Stores == {n \in [Ids -> ItemType] : \A i \in Ids : n[i].cell \in Rows}
Caches == {c \in [id : Ids, buf : [Slots -> Cells], flush : BOOLEAN] : c.buf \in Rows}
TableType == [Ids -> InfoType]
RelocType == [ds : Ids \cup {NotFound}, old : InfoType, off : 0 .. PageSize, len : {0, 1}]
ScanType == [id : 0 .. (DatasetNumber + PageCount), page : Pages, pos : 0 .. PageSize]
FreeType == [Pages -> 0 .. (PageSize + MaxLen)]
AckType == [len : 0 .. MaxLen, g : Gens \cup {0}]
CallType == [op : {"none", "crash", "write", "read", "move", "erase"},
             ret : {"ok", "illegal", "failed", "idle", "write", "read", "erase"},
             id : Ids, ver : AckType, page : Pages \cup {NotFound}]

Typed ==
    /\ boot \in {"headers", "datasets", "up", "fatal"}
    /\ scan \in ScanType /\ info \in TableType /\ nvs \in Stores /\ cache \in Caches
    /\ reloc \in RelocType /\ jobs \in [Ids -> JobType] /\ free \in FreeType
    /\ acked \in [Ids -> AckType] /\ last \in CallType /\ env \in Worlds

(* Two entries of the table share no position.                             *)
Apart(e, f) ==
    \/ e.len = 0 \/ f.len = 0 \/ e.page # f.page
    \/ e.pos + e.len <= f.pos \/ f.pos + f.len <= e.pos

Disjoint(t) == \A i, j \in Ids : i # j => Apart(t[i], t[j])

(* Nothing lies behind the used part of a page, and the header of a page   *)
(* heads it.                                                               *)
Within(t, r) ==
    /\ \A i \in Ids : t[i].len > 0 => t[i].pos + t[i].len <= r[t[i].page]
    /\ \A p \in Pages : t[PageHdr(p)].pos = 0 /\ (t[PageHdr(p)].len > 0 => t[PageHdr(p)].page = p)

(* The rebuilding of the table: what is not placed yet has no length, and  *)
(* the next dataset goes to the end of what is used.                       *)
Rebuilding ==
    /\ boot # "up" => \A i \in Ids : jobs[i].next = 0
    /\ boot = "headers" =>
          /\ scan.id >= DatasetNumber
          /\ \A i \in Ids : i < DatasetNumber \/ i >= scan.id => info[i].len = 0
          /\ \A p \in Pages : free[p] = info[PageHdr(p)].len
    /\ boot = "datasets" =>
          /\ scan.pos = free[scan.page]
          /\ \A i \in Ids : scan.id <= i /\ i < DatasetNumber => info[i].len = 0
          /\ \A p \in Pages : p > scan.page => free[p] = info[PageHdr(p)].len

(* A job ends with its tail; the old place of a copy belongs to nobody,    *)
(* and is the one the relocation is about.                                 *)
JobFits(i) ==
    /\ jobs[i].got.k # "hdr"
    /\ jobs[i].next > 0 =>
          /\ jobs[i].next < info[i].len
          /\ jobs[i].old.len > 0 =>
                /\ "copy" \in env
                /\ jobs[i].old.len = info[i].len
                /\ \A j \in Ids : Apart(jobs[i].old, info[j])
                /\ reloc.ds # NotFound => reloc.old = jobs[i].old

OneJob == "interleave" \notin env => \A i, j \in Active : i = j

TableInv ==
    /\ Typed /\ Disjoint(info) /\ Within(info, free) /\ Rebuilding
    /\ \A i \in Ids : JobFits(i)
    /\ OneJob

-----------------------------------------------------------------------------
(* Constants, cells and rows.                                              *)

LEMMA Naturals1 ==
    /\ MaxLen \in Nat /\ MaxLen >= 2 /\ PageSize \in Nat /\ MaxLen <= PageSize
    /\ HdrLen \in Nat /\ HdrLen >= 2 /\ HdrLen <= MaxLen
    /\ DatasetNumber \in Nat /\ DatasetNumber > 0 /\ PageCount \in Nat /\ PageCount > 0
    /\ Lens \subseteq 2 .. MaxLen
    /\ Types \subseteq Ids /\ 0 \in Ids /\ 0 \in Pages /\ 0 \in Slots
    /\ Ids \subseteq Nat /\ Pages \subseteq Nat /\ Slots = 0 .. (MaxLen - 1)
    /\ Ids = 0 .. (DatasetNumber + PageCount - 1) /\ Pages = 0 .. (PageCount - 1)
    /\ \A p \in Pages : PageHdr(p) \in Ids /\ PageHdr(p) = DatasetNumber + p
                        /\ PageHdr(p) >= DatasetNumber
BY NvramAssumption DEF Types, Ids, Pages, Slots, PageHdr

LEMMA Cells1 ==
    /\ Blank \in Cells /\ Junk \in Cells /\ NoCell \in Cells
    /\ \A s \in Slots : Blank \in At(s) /\ Junk \in At(s)
    /\ [s \in Slots |-> Junk] \in Rows /\ [s \in Slots |-> Blank] \in Rows
    /\ NoItem \in ItemType /\ NoItem.cell \in Rows
    /\ NoInfo \in InfoType /\ NoJob \in JobType /\ NoAck \in AckType
<1>1. Blank \in Cells /\ Junk \in Cells /\ NoCell \in Cells
  BY Naturals1 DEF Blank, Junk, NoCell, Cells
<1>2. \A s \in Slots : Blank \in At(s) /\ Junk \in At(s)
  BY <1>1 DEF At, Blank, Junk
<1>3. [s \in Slots |-> Junk] \in Rows /\ [s \in Slots |-> Blank] \in Rows
  BY <1>1, <1>2 DEF Rows
<1>4. NoItem \in ItemType /\ NoItem.cell \in Rows
  BY <1>1, <1>3, Naturals1 DEF NoItem, ItemType
<1>5. NoInfo \in InfoType
  BY Naturals1 DEF NoInfo, InfoType
<1>6. NoJob \in JobType
  BY <1>1, <1>5, Naturals1 DEF NoJob, JobType
<1>7. NoAck \in AckType
  BY Naturals1 DEF NoAck, AckType
<1>8. QED
  BY <1>1, <1>2, <1>3, <1>4, <1>5, <1>6, <1>7

(* The records of a call.                                                  *)
LEMMA CallTypes ==
    /\ NoCall \in CallType
    /\ \A x \in {"write", "read", "move"} : [NoCall EXCEPT !.op = x] \in CallType
    /\ \A x \in {"ok", "illegal", "failed"} :
          [NoCall EXCEPT !.op = "write", !.ret = x] \in CallType
    /\ \A p \in Pages : [NoCall EXCEPT !.op = "erase", !.page = p] \in CallType
    /\ CutShort("idle") \in CallType /\ CutShort("read") \in CallType
    /\ \A i \in Ids : \A v \in AckType :
          [CutShort("write") EXCEPT !.id = i, !.ver = v] \in CallType
    /\ \A p \in Pages : [CutShort("erase") EXCEPT !.page = p] \in CallType
BY Naturals1, Cells1 DEF NoCall, CutShort, CallType

LEMMA Sizes1 ==
    /\ MaxLen \in Nat /\ MaxLen >= 2 /\ PageSize \in Nat /\ MaxLen <= PageSize
    /\ HdrLen \in Nat /\ HdrLen >= 2 /\ HdrLen <= MaxLen
    /\ DatasetNumber \in Nat /\ DatasetNumber > 0 /\ PageCount \in Nat /\ PageCount > 0
BY Naturals1

LEMMA Entry ==
    ASSUME NEW t \in TableType, NEW j \in Ids
    PROVE  /\ t[j] \in InfoType /\ t[j].page \in Pages
           /\ t[j].pos \in Nat /\ t[j].pos <= PageSize
           /\ t[j].len \in Nat /\ t[j].len <= MaxLen
<1>1. t[j] \in InfoType
  BY DEF TableType
<1>2. t[j].page \in Pages /\ t[j].pos \in 0 .. PageSize /\ t[j].len \in 0 .. MaxLen
  BY <1>1 DEF InfoType
<1>3. QED
  BY <1>1, <1>2, Sizes1

(* The identifiers from DatasetNumber on are those of the page headers.    *)
LEMMA HeaderId ==
    ASSUME NEW i \in Ids, i >= DatasetNumber
    PROVE  /\ i - DatasetNumber \in Pages /\ PageHdr(i - DatasetNumber) = i
           /\ \A q \in Pages : PageHdr(q) = i => q = i - DatasetNumber
<1>1. i \in Int /\ i <= DatasetNumber + PageCount - 1
  BY Sizes1 DEF Ids
<1>2. i - DatasetNumber \in 0 .. (PageCount - 1)
  BY <1>1, Sizes1
<1>3. PageHdr(i - DatasetNumber) = i
  BY <1>1, Sizes1 DEF PageHdr
<1>4. \A q \in Int : DatasetNumber + q = i => q = i - DatasetNumber
  BY <1>1, Sizes1
<1>5. QED
  BY <1>2, <1>3, <1>4, Sizes1 DEF PageHdr, Pages

(* A piece the core makes itself.                                          *)
LEMMA PieceCell ==
    ASSUME NEW d \in Ids, NEW l \in 2 .. MaxLen, NEW g \in Gens \cup {0}, NEW s \in Nat
    PROVE  /\ Piece(d, l, g, s) \in At(s)
           /\ Piece(d, l, g, s) \in Cells
           /\ Piece(d, l, g, s).d = d /\ Piece(d, l, g, s).len = l
           /\ Piece(d, l, g, s).k = "hdr" <=> s = 0
           /\ Piece(d, l, g, s).k = "tail" <=> s = l - 1
BY Naturals1 DEF Piece, At, Cells

LEMMA Rowed ==
    ASSUME NEW b, b = [s \in Slots |-> b[s]], \A s \in Slots : b[s] \in At(s)
    PROVE  b \in Rows
<1>1. \A s \in Slots : b[s] \in Cells
  BY DEF At
<1>2. b \in [Slots -> Cells]
  BY <1>1
<1>3. QED
  BY <1>2 DEF Rows

LEMMA RowCells ==
    ASSUME NEW b \in Rows, NEW s \in Slots
    PROVE  /\ b[s] \in At(s) /\ b[s] \in Cells
           /\ b[s].k = "hdr" => s = 0 /\ b[s].len >= 2
BY DEF Rows, At

LEMMA PutStore ==
    ASSUME NEW n \in Stores, NEW d \in Ids, NEW x \in ItemType, x.cell \in Rows
    PROVE  [n EXCEPT ![d] = x] \in Stores
<1>1. n \in [Ids -> ItemType] /\ \A i \in Ids : n[i].cell \in Rows
  BY DEF Stores
<1>2. [n EXCEPT ![d] = x] \in [Ids -> ItemType]
  BY <1>1
<1>3. \A i \in Ids : [n EXCEPT ![d] = x][i].cell \in Rows
  BY <1>1
<1>4. QED
  BY <1>2, <1>3 DEF Stores

(* do_localNvs_write                                                       *)
LEMMA FlushStore ==
    ASSUME NEW n \in Stores, NEW c \in Caches, NEW t \in TableType
    PROVE  Flushed(n, c, t) \in Stores /\ \A m \in FlushStops(n, c, t) : m \in Stores
<1> DEFINE x == Buffered(c, t[c.id].len)
<1>1. c.id \in Ids /\ c.buf \in Rows /\ t[c.id].len \in 0 .. MaxLen
  BY DEF Caches, TableType, InfoType
<1>2. x \in ItemType /\ x.cell \in Rows
  <2> DEFINE b == [s \in Slots |-> IF s < t[c.id].len THEN c.buf[s] ELSE Blank]
  <2>1. \A s \in Slots : b[s] \in At(s)
    BY <1>1, RowCells, Cells1
  <2>2. b = [s \in Slots |-> b[s]]
    OBVIOUS
  <2>3. x = [len |-> t[c.id].len, cell |-> b]
    BY DEF Buffered
  <2> HIDE DEF b
  <2>4. b \in Rows /\ b \in [Slots -> Cells]
    BY <2>1, <2>2, Rowed DEF Rows
  <2>5. QED
    BY <1>1, <2>3, <2>4 DEF ItemType
<1> HIDE DEF x
<1>3. [n EXCEPT ![c.id] = x] \in Stores
  BY <1>1, <1>2, PutStore
<1>4. [n EXCEPT ![c.id] = NoItem] \in Stores
  BY <1>1, Cells1, PutStore
<1>5. Flushed(n, c, t) \in Stores
  BY <1>3 DEF Flushed, x
<1>6. QED
  BY <1>4, <1>5 DEF FlushStops, FlushFails

(* do_localNvs_read                                                        *)
LEMMA LoadStore ==
    ASSUME NEW n \in Stores, NEW c \in Caches, NEW t \in TableType, NEW d \in Ids, NEW l
    PROVE  /\ Loaded(n, c, t, d, l) \in Caches /\ Loaded(n, c, t, d, l).id = d
           /\ Trimmed(n, c, t, d, l) \in Stores
<1> DEFINE rl == ReadLen(t, d, l)
           b == [s \in Slots |-> IF s < rl THEN n[d].cell[s] ELSE c.buf[s]]
           e == [s \in Slots |-> IF s < t[d].len THEN Blank ELSE c.buf[s]]
<1>1. n[d].cell \in Rows /\ c.buf \in Rows
  BY DEF Stores, Caches
<1>2. (\A s \in Slots : b[s] \in At(s)) /\ b = [s \in Slots |-> b[s]]
  BY <1>1, RowCells
<1>3. (\A s \in Slots : e[s] \in At(s)) /\ e = [s \in Slots |-> e[s]]
  BY <1>1, RowCells, Cells1
<1>4. Loaded(n, c, t, d, l) = IF c.id = d THEN c
        ELSE [id |-> d, flush |-> FALSE, buf |-> IF n[d].len >= rl THEN b ELSE e]
  BY DEF Loaded
<1> HIDE DEF b, e
<1>5. b \in Rows /\ e \in Rows /\ b \in [Slots -> Cells] /\ e \in [Slots -> Cells]
  BY <1>2, <1>3, Rowed DEF Rows
<1>6. Loaded(n, c, t, d, l) \in Caches /\ Loaded(n, c, t, d, l).id = d
  BY <1>4, <1>5 DEF Caches
<1>7. Trimmed(n, c, t, d, l) \in Stores
  BY PutStore, Cells1 DEF Trimmed
<1>8. QED
  BY <1>6, <1>7

-----------------------------------------------------------------------------
(* find_dataset on a table without overlaps.                               *)

LEMMA FindSome ==
    ASSUME NEW t, NEW p, NEW o
    PROVE  /\ Find(t, p, o) # NotFound => Find(t, p, o) \in Ids /\ Covers(t[Find(t, p, o)], p, o)
           /\ (\A i \in Ids : ~ Covers(t[i], p, o)) => Find(t, p, o) = NotFound
           /\ Find(t, p, o) \in Ids \cup {NotFound}
<1> DEFINE hits == {i \in Ids : Covers(t[i], p, o)}
<1>1. CASE hits = {}
  BY <1>1 DEF Find
<1>2. CASE hits # {}
  <2>1. \E i \in hits : \A j \in hits : i <= j
    <3>1. hits \subseteq Nat
      BY Naturals1
    <3> HIDE DEF hits
    <3>2. QED
      BY <1>2, <3>1, Least
  <2>2. Find(t, p, o) \in hits
    BY <1>2, <2>1 DEF Find
  <2>3. QED
    BY <2>2
<1>3. QED
  BY <1>1, <1>2

LEMMA CoverOnce ==
    ASSUME NEW e \in InfoType, NEW f \in InfoType, NEW p \in Pages, NEW o \in Nat,
           Apart(e, f), Covers(e, p, o), Covers(f, p, o)
    PROVE  FALSE
<1>1. e.pos \in Nat /\ e.len \in Nat /\ f.pos \in Nat /\ f.len \in Nat
  BY Naturals1 DEF InfoType
<1>2. o >= e.pos /\ o < e.pos + e.len /\ o >= f.pos /\ o < f.pos + f.len /\ e.page = f.page
  BY DEF Covers
<1>3. \/ e.len = 0 \/ f.len = 0 \/ e.pos + e.len <= f.pos \/ f.pos + f.len <= e.pos
  BY <1>2 DEF Apart
<1>4. QED
  BY <1>1, <1>2, <1>3

LEMMA FindIt ==
    ASSUME NEW t \in TableType, Disjoint(t), NEW i \in Ids, NEW p \in Pages, NEW o \in Nat,
           Covers(t[i], p, o)
    PROVE  Find(t, p, o) = i
<1> DEFINE j == Find(t, p, o)
<1>0. i # NotFound
  BY Naturals1 DEF NotFound
<1>1. j \in Ids /\ Covers(t[j], p, o)
  <2>1. j # NotFound
    <3>1. CASE {k \in Ids : Covers(t[k], p, o)} = {}
      BY <3>1
    <3>2. CASE {k \in Ids : Covers(t[k], p, o)} # {}
      <4> DEFINE hits == {k \in Ids : Covers(t[k], p, o)}
      <4>1. hits \subseteq Nat /\ hits # {}
        BY Naturals1, <3>2
      <4>2. \E k \in hits : \A m \in hits : k <= m
        <5> HIDE DEF hits
        <5>1. QED
          BY <4>1, Least
      <4>3. j \in hits
        BY <3>2, <4>2 DEF Find
      <4>4. QED
        BY <4>1, <4>3 DEF NotFound
    <3>3. QED
      BY <3>1, <3>2
  <2>2. QED
    BY <2>1, FindSome
<1> HIDE DEF j
<1>2. t[i] \in InfoType /\ t[j] \in InfoType
  BY <1>1 DEF TableType
<1>3. CASE j # i
  BY <1>1, <1>2, <1>3, CoverOnce DEF Disjoint
<1>4. QED
  BY <1>3 DEF j

-----------------------------------------------------------------------------
(* zb_osif_nvram_read                                                      *)

LEMMA RelocFields1 ==
    ASSUME NEW r \in RelocType, NEW y \in 0 .. PageSize
    PROVE  /\ [r EXCEPT !.ds = NotFound, !.off = 0, !.len = 0] \in RelocType
           /\ [r EXCEPT !.off = y, !.len = 1] \in RelocType
<1> DEFINE D == Ids \cup {NotFound}
<1>1. r \in [ds : D, old : InfoType, off : 0 .. PageSize, len : {0, 1}] /\ NotFound \in D
      /\ 0 \in 0 .. PageSize
  BY Naturals1 DEF RelocType
<1> HIDE DEF D
<1>2. [r EXCEPT !.ds = NotFound, !.off = 0, !.len = 0]
         \in [ds : D, old : InfoType, off : 0 .. PageSize, len : {0, 1}]
  BY <1>1
<1>3. [r EXCEPT !.off = y, !.len = 1]
         \in [ds : D, old : InfoType, off : 0 .. PageSize, len : {0, 1}]
  BY <1>1
<1>4. QED
  BY <1>2, <1>3 DEF RelocType, D

(* A read gives out a header only as the first piece of its dataset, and   *)
(* leaves the table and what the relocation is about alone.                *)
LEMMA ReadTyped ==
    ASSUME Typed, NEW p \in Pages, NEW o \in Nat
    PROVE  /\ ReadValue(p, o) \in Cells
           /\ ReadValue(p, o).k = "hdr" => ReadValue(p, o).len >= 2 /\ ReadOff(p, o) = 0
           /\ \A n \in ReadStops(p, o) : n \in Stores
           /\ ReadEffect(p, o) =>
                /\ nvs' \in Stores /\ cache' \in Caches /\ reloc' \in RelocType
                /\ reloc'.ds # NotFound => reloc.ds # NotFound
                /\ reloc'.old = reloc.old
<1> DEFINE d == ReadId(p, o)
<1>1. /\ info \in TableType /\ nvs \in Stores /\ cache \in Caches /\ reloc \in RelocType
  BY DEF Typed
<1>2. d = NotFound \/ d \in Ids
  BY <1>1, FindSome DEF ReadId, IsOldPlace, RelocType
<1>3. /\ Flushed(nvs, cache, info) \in Stores
      /\ \A m \in FlushStops(nvs, cache, info) : m \in Stores
  BY <1>1, FlushStore
<1>4. ASSUME d \in Ids, NEW n \in Stores PROVE Loaded(n, cache, info, d, 0) \in Caches
  <2> HIDE DEF d
  <2>1. QED
    BY <1>1, <1>4, LoadStore
<1>5. /\ ReadValue(p, o) \in Cells
      /\ ReadValue(p, o).k = "hdr" => ReadValue(p, o).len >= 2 /\ ReadOff(p, o) = 0
  <2> HIDE DEF d
  <2>1. CASE ~ Invalid(o) /\ d \in Ids /\ ReadOff(p, o) \in Slots
    <3> DEFINE b == Loaded(Flushed(nvs, cache, info), cache, info, d, 0).buf
    <3>1. b \in Rows
      BY <1>3, <1>4, <2>1 DEF Caches
    <3>2. ReadValue(p, o) = b[ReadOff(p, o)]
      BY <2>1, Naturals1 DEF ReadValue, d, NotFound
    <3> HIDE DEF b
    <3>3. QED
      BY <2>1, <3>1, <3>2, RowCells
  <2>2. CASE ~ (~ Invalid(o) /\ d \in Ids /\ ReadOff(p, o) \in Slots)
    <3>1. ReadValue(p, o) \in {Junk, Blank}
      BY <1>2, <2>2 DEF ReadValue, d
    <3>2. QED
      BY <3>1, Cells1 DEF Junk, Blank
  <2>3. QED
    BY <2>1, <2>2
<1>6. \A n \in ReadStops(p, o) : n \in Stores
  BY <1>1, <1>3 DEF ReadStops
<1>7. ASSUME ReadEffect(p, o) PROVE nvs' \in Stores /\ cache' \in Caches
  <2>1. CASE UNCHANGED <<nvs, cache>>
    BY <1>1, <2>1
  <2>2. CASE ~ UNCHANGED <<nvs, cache>>
    <3> HIDE DEF d
    <3>1. /\ d # NotFound
          /\ nvs' \in AfterFlush(nvs, cache, info)
          /\ cache' = Loaded(nvs', cache, info, d, 0)
      BY <1>7, <2>2 DEF ReadEffect, d
    <3>2. nvs' \in Stores
      BY <1>3, <3>1 DEF AfterFlush
    <3>3. QED
      BY <1>2, <1>4, <3>1, <3>2
  <2>3. QED
    BY <2>1, <2>2
<1>8. /\ ReadReloc(p, o) \in RelocType
      /\ ReadReloc(p, o).ds # NotFound => reloc.ds # NotFound
      /\ ReadReloc(p, o).old = reloc.old
  <2>1. ASSUME IsOldPlace(p, o) PROVE o - reloc.old.pos \in 0 .. PageSize
    <3>1. reloc.old.pos \in Nat /\ reloc.old.len \in Nat /\ reloc.old.len <= MaxLen
      BY <1>1, Naturals1 DEF RelocType, InfoType
    <3>2. o >= reloc.old.pos /\ o + 1 < reloc.old.pos + reloc.old.len
      BY <2>1 DEF IsOldPlace
    <3>3. ASSUME NEW x \in Nat, NEW l \in Nat, l <= MaxLen, o >= x, o + 1 < x + l
          PROVE  o - x \in 0 .. PageSize
      <4>1. o - x \in Nat /\ o - x <= l
        BY <3>3
      <4>2. QED
        BY <3>3, <4>1, Naturals1
    <3>4. QED
      BY <3>1, <3>2, <3>3
  <2> DEFINE y == o - reloc.old.pos
             r1 == [reloc EXCEPT !.ds = NotFound, !.off = 0, !.len = 0]
             r2 == [reloc EXCEPT !.off = y, !.len = 1]
  <2>2. ReadReloc(p, o) = IF Find(info, p, o) # NotFound THEN r1
                          ELSE IF IsOldPlace(p, o) THEN r2 ELSE reloc
    BY DEF ReadReloc
  <2>3. r1 \in RelocType /\ (IsOldPlace(p, o) => r2 \in RelocType)
    <3>1. 0 \in 0 .. PageSize
      BY Naturals1
    <3> HIDE DEF y
    <3>2. IsOldPlace(p, o) => y \in 0 .. PageSize
      BY <2>1 DEF y
    <3>3. QED
      BY <1>1, <3>1, <3>2, RelocFields1
  <2>4. /\ r1.ds = NotFound /\ r1.old = reloc.old
        /\ r2.ds = reloc.ds /\ r2.old = reloc.old
    <3> HIDE DEF y
    <3>1. QED
      BY <1>1 DEF RelocType
  <2> HIDE DEF r1, r2
  <2>5. QED
    BY <1>1, <2>2, <2>3, <2>4
<1>9. QED
  BY <1>5, <1>6, <1>7, <1>8 DEF ReadEffect

-----------------------------------------------------------------------------
(* zb_osif_nvram_write                                                     *)

(* A piece the core may write: a header announces at least a tail, and the *)
(* place it registers is free.                                             *)
Writable(c, p, o) ==
    /\ c \in Cells /\ p \in Pages /\ o \in Nat
    /\ c.k = "hdr" => o <= PageSize /\ c.len >= 2
    /\ Disjoint(BuildInfo(c, p, o))

(* build_dataset_info                                                      *)
LEMMA BuildTyped ==
    ASSUME Typed, NEW c, NEW p, NEW o, Writable(c, p, o)
    PROVE  /\ BuildInfo(c, p, o) \in TableType /\ BuildReloc(c, p, o) \in RelocType
           /\ Target(c, p, o) \in Ids \cup {NotFound}
           /\ Target(c, p, o) # NotFound => Offset(c, p, o) \in Slots /\ c \in At(Offset(c, p, o))
<1>1. /\ info \in TableType /\ reloc \in RelocType
      /\ c \in Cells /\ p \in Pages /\ o \in Nat /\ Disjoint(BuildInfo(c, p, o))
  BY DEF Typed, Writable
<1>2. c.d \in Ids /\ c.len \in 0 .. MaxLen
  BY <1>1 DEF Cells
<1>3. info[c.d] \in InfoType
  BY <1>1, <1>2 DEF TableType
<1> DEFINE e == [page |-> p, pos |-> o, len |-> c.len]
<1>4. BuildInfo(c, p, o) = IF c.k # "hdr" THEN info ELSE [info EXCEPT ![c.d] = e]
  BY DEF BuildInfo
<1>5. c.k = "hdr" => e \in InfoType
  BY <1>1, <1>2, Naturals1 DEF InfoType, Writable
<1>6. e.page = p /\ e.pos = o /\ e.len = c.len
  OBVIOUS
<1> HIDE DEF e
<1>7. BuildInfo(c, p, o) \in TableType
  BY <1>1, <1>2, <1>4, <1>5 DEF TableType
<1>8. BuildReloc(c, p, o) \in RelocType
  <2> DEFINE ds == IF Moved(info[c.d], p, o, c.len) THEN c.d ELSE reloc.ds
             old == IF ds # NotFound /\ (info[c.d].pos = 0 \/ Moved(info[c.d], p, o, c.len))
                    THEN info[c.d] ELSE reloc.old
             D == Ids \cup {NotFound}
  <2>1. ds \in D
    BY <1>1, <1>2 DEF RelocType
  <2>2. old \in InfoType
    BY <1>1, <1>3 DEF RelocType
  <2>3. BuildReloc(c, p, o) = IF c.k # "hdr" THEN reloc ELSE [reloc EXCEPT !.ds = ds, !.old = old]
    BY DEF BuildReloc
  <2>4. reloc \in [ds : D, old : InfoType, off : 0 .. PageSize, len : {0, 1}]
    BY <1>1 DEF RelocType
  <2> HIDE DEF ds, old, D
  <2>5. [reloc EXCEPT !.ds = ds, !.old = old]
           \in [ds : D, old : InfoType, off : 0 .. PageSize, len : {0, 1}]
    BY <2>1, <2>2, <2>4
  <2>6. QED
    BY <2>3, <2>4, <2>5 DEF RelocType, D
<1> DEFINE tbl == BuildInfo(c, p, o)
           d == Target(c, p, o)
<1>9. d \in Ids \cup {NotFound}
  BY FindSome DEF Target
<1>10. ASSUME d # NotFound PROVE Offset(c, p, o) \in Slots /\ c \in At(Offset(c, p, o))
  <2>1. d \in Ids /\ Covers(tbl[d], p, o)
    BY <1>10, FindSome DEF Target
  <2>2. Offset(c, p, o) = o - tbl[d].pos
    BY DEF Offset
  <2>3. tbl \in TableType
    BY <1>7
  <2> HIDE DEF tbl, d
  <2>4. Offset(c, p, o) \in Slots
    <3>0. tbl[d] \in InfoType /\ MaxLen \in Nat
      BY <2>1, <2>3, Naturals1 DEF TableType
    <3>1. tbl[d].pos \in Nat /\ tbl[d].len \in Nat /\ tbl[d].len <= MaxLen
      BY <3>0 DEF InfoType
    <3>2. o >= tbl[d].pos /\ o < tbl[d].pos + tbl[d].len
      BY <2>1 DEF Covers
    <3>3. o - tbl[d].pos \in 0 .. (MaxLen - 1)
      BY <1>1, <3>0, <3>1, <3>2
    <3>4. QED
      BY <2>2, <3>3, Naturals1
  <2>5. CASE c.k # "hdr"
    BY <1>1, <2>4, <2>5 DEF At
  <2>6. CASE c.k = "hdr"
    <3>1. tbl[c.d] = e
      BY <1>1, <1>2, <1>4, <2>6 DEF tbl, TableType
    <3>2. c.len \in Nat /\ c.len >= 2
      BY <1>1, <1>2, <2>6, Naturals1 DEF Writable
    <3>3. Covers(tbl[c.d], p, o)
      BY <1>1, <1>6, <3>1, <3>2 DEF Covers
    <3>4. d = c.d
      BY <1>1, <1>2, <2>3, <3>3, FindIt DEF d, Target, tbl
    <3>5. Offset(c, p, o) = 0
      BY <1>1, <1>6, <2>2, <3>1, <3>4
    <3>6. QED
      BY <1>1, <2>4, <3>2, <3>5 DEF At
  <2>7. QED
    BY <2>4, <2>5, <2>6
<1>11. QED
  BY <1>7, <1>8, <1>9, <1>10

(* The dataset that is written is in the buffer.                           *)
LEMMA LoadedTyped ==
    ASSUME Typed, NEW c, NEW p, NEW o, Writable(c, p, o), NEW n \in Stores,
           Target(c, p, o) # NotFound
    PROVE  /\ LoadedNvs(c, p, o, n) \in Stores
           /\ LoadedCache(c, p, o, n) \in Caches
           /\ Patched(c, p, o, n) \in Caches
<1> DEFINE tbl == BuildInfo(c, p, o)
           d == Target(c, p, o)
           l == OldLen(c, p)
<1>1. nvs \in Stores /\ cache \in Caches /\ c \in Cells
  BY DEF Typed, Writable
<1>2. tbl \in TableType /\ d \in Ids
  BY BuildTyped
<1>3. Offset(c, p, o) \in Slots /\ c \in At(Offset(c, p, o))
  BY BuildTyped
<1>4. LoadedNvs(c, p, o, n) = Trimmed(n, cache, tbl, d, l)
  BY DEF LoadedNvs
<1>5. LoadedCache(c, p, o, n) = Loaded(n, cache, tbl, d, l)
  BY DEF LoadedCache
<1> HIDE DEF tbl, d, l
<1>7. LoadedNvs(c, p, o, n) \in Stores
  BY <1>1, <1>2, <1>4, LoadStore
<1>8. LoadedCache(c, p, o, n) \in Caches
  BY <1>1, <1>2, <1>5, LoadStore
<1>9. Patched(c, p, o, n) \in Caches
  <2> DEFINE b == LoadedCache(c, p, o, n)
             j == Offset(c, p, o)
             r == [b.buf EXCEPT ![j] = c]
  <2>1. b \in Caches /\ j \in Slots /\ c \in At(j)
    BY <1>3, <1>8
  <2>2. Patched(c, p, o, n) = IF IsRelocated(c, p, o) THEN b
                               ELSE [b EXCEPT !.buf[j] = c, !.flush = TRUE]
    BY DEF Patched
  <2> HIDE DEF b, j
  <2>3. b.buf \in [Slots -> Cells] /\ \A s \in Slots : b.buf[s] \in At(s)
    BY <2>1 DEF Caches, Rows
  <2>4. r \in [Slots -> Cells] /\ \A s \in Slots : r[s] \in At(s)
    BY <1>1, <2>1, <2>3
  <2>5. [b EXCEPT !.buf[j] = c, !.flush = TRUE] = [[b EXCEPT !.buf = r] EXCEPT !.flush = TRUE]
    OBVIOUS
  <2> HIDE DEF r
  <2>6. [[b EXCEPT !.buf = r] EXCEPT !.flush = TRUE] \in Caches
    <3>1. r \in Rows
      BY <2>4 DEF Rows
    <3>2. QED
      BY <2>1, <2>4, <3>1 DEF Caches
  <2>7. QED
    BY <2>1, <2>2, <2>5, <2>6
<1>10. QED
  BY <1>7, <1>8, <1>9

LEMMA WriteTyped ==
    ASSUME Typed, NEW c, NEW p, NEW o, Writable(c, p, o)
    PROVE  /\ \A n \in WriteStops(c, p, o) : n \in Stores
           /\ WriteEffect(c, p, o) =>
                nvs' \in Stores /\ cache' \in Caches /\ last' \in CallType
<1>1. nvs \in Stores /\ cache \in Caches /\ BuildInfo(c, p, o) \in TableType
  BY BuildTyped DEF Typed
<1>2. ASSUME NEW n \in WriteStops(c, p, o) PROVE n \in Stores
  <2>1. CASE n = nvs
    BY <1>1, <2>1
  <2>2. CASE n # nvs
    <3> DEFINE x == IF cache.id = Target(c, p, o) THEN nvs
                    ELSE Flushed(nvs, cache, BuildInfo(c, p, o))
               m == LoadedNvs(c, p, o, x)
               b == Patched(c, p, o, x)
    <3>0. x \in Stores
      BY <1>1, FlushStore
    <3>1. Target(c, p, o) # NotFound
      BY <2>2 DEF WriteStops
    <3>2. m \in Stores /\ b \in Caches
      <4> HIDE DEF x
      <4>1. QED
        BY <3>0, <3>1, LoadedTyped
    <3>3. n \in FlushStops(nvs, cache, BuildInfo(c, p, o)) \/ n = m
            \/ n \in FlushStops(m, b, BuildInfo(c, p, o))
      BY <2>2 DEF WriteStops
    <3> HIDE DEF m, b
    <3>4. QED
      BY <1>1, <3>2, <3>3, FlushStore
  <2>3. QED
    BY <2>1, <2>2
<1>3. ASSUME WriteEffect(c, p, o) PROVE nvs' \in Stores /\ cache' \in Caches /\ last' \in CallType
  <2>1. PICK n \in Displaced(c, p, o) : WriteUnknown(c, p, o) \/ WriteRefused(c, p, o, n)
                                  \/ WriteBuffered(c, p, o, n) \/ WriteTail(c, p, o, n)
    BY <1>3 DEF WriteEffect
  <2>2. n \in Stores
    BY <1>1, FlushStore DEF Displaced, AfterFlush
  <2>3. CASE WriteUnknown(c, p, o)
    BY <1>1, <2>3, CallTypes DEF WriteUnknown
  <2>4. CASE WriteRefused(c, p, o, n)
    BY <2>2, <2>4, LoadedTyped, CallTypes DEF WriteRefused
  <2>5. CASE WriteBuffered(c, p, o, n)
    BY <2>2, <2>5, LoadedTyped, CallTypes DEF WriteBuffered
  <2>6. CASE WriteTail(c, p, o, n)
    <3> DEFINE b == Patched(c, p, o, n)
               m == LoadedNvs(c, p, o, n)
    <3>1. m \in Stores /\ b \in Caches
      BY <2>2, <2>6, LoadedTyped DEF WriteTail
    <3>2. /\ cache' = [b EXCEPT !.flush = FALSE]
          /\ nvs' \in FlushStops(m, b, BuildInfo(c, p, o))
          /\ \E done \in Outcomes : last' = [NoCall EXCEPT !.op = "write", !.ret = TailRet(b, done)]
      BY <2>6 DEF WriteTail, FlushStops
    <3> HIDE DEF b, m
    <3>3. nvs' \in Stores
      BY <1>1, <3>1, <3>2, FlushStore
    <3>4. cache' \in Caches
      BY <3>1, <3>2 DEF Caches
    <3>5. last' \in CallType
      BY <3>2, CallTypes DEF TailRet
    <3>6. QED
      BY <3>1, <3>2, <3>3, <3>4, <3>5
  <2>7. QED
    BY <2>1, <2>3, <2>4, <2>5, <2>6
<1>4. QED
  BY <1>2, <1>3

-----------------------------------------------------------------------------
(* A power failure, from any state of the RAM.                             *)

LEMMA StoredAck == ASSUME NEW x \in ItemType PROVE Stored(x) \in AckType
<1>1. x.len \in 0 .. MaxLen /\ x.cell[0].g \in Gens \cup {0}
  BY Naturals1 DEF ItemType, Cells
<1>2. QED
  BY <1>1, Cells1 DEF Stored, AckType

LEMMA Apart0 ==
    ASSUME NEW e, NEW f, Apart(e, f)
    PROVE  Apart(f, e)
BY DEF Apart

LEMMA BlankTable ==
    /\ [i \in Ids |-> NoInfo] \in TableType
    /\ Disjoint([i \in Ids |-> NoInfo])
    /\ Within([i \in Ids |-> NoInfo], [p \in Pages |-> 0])
BY Cells1, Naturals1 DEF TableType, Disjoint, Apart, Within, NoInfo

LEMMA PowerTable ==
    ASSUME Typed, NEW n \in Stores, NEW F \in [Ids -> AckType], NEW w \in CallType,
           PowerFails(n, F, w)
    PROVE  TableInv'
<1> DEFINE t == [i \in Ids |-> NoInfo]
           r == [p \in Pages |-> 0]
<1>1. /\ nvs' = n /\ boot' = "headers" /\ scan' = ScanStart /\ info' = t /\ cache' = BlankCache
      /\ reloc' = NoReloc /\ jobs' = [i \in Ids |-> NoJob] /\ free' = r
      /\ acked' = F /\ last' = w /\ env' = env
  BY DEF PowerFails
<1>2. Disjoint(t) /\ Within(t, r) /\ t \in TableType
  BY BlankTable
<1>3. Typed'
  <2>1. scan' \in ScanType /\ free' \in FreeType
    BY <1>1, Naturals1 DEF ScanStart, ScanType, FreeType
  <2>2. cache' \in Caches
    <3> DEFINE b == [s \in Slots |-> Junk]
    <3>1. b \in Rows
      BY Cells1
    <3>2. cache' = [id |-> 0, buf |-> b, flush |-> FALSE]
      BY <1>1 DEF BlankCache
    <3> HIDE DEF b
    <3>3. QED
      BY <3>1, <3>2, Naturals1 DEF Caches, Rows
  <2>3. reloc' \in RelocType
    BY <1>1, Cells1, Naturals1 DEF NoReloc, RelocType
  <2>4. jobs' \in [Ids -> JobType]
    BY <1>1, Cells1
  <2>5. acked' \in [Ids -> AckType]
    BY <1>1
  <2>6. last' \in CallType
    BY <1>1
  <2>7. QED
    BY <1>1, <1>2, <2>1, <2>2, <2>3, <2>4, <2>5, <2>6 DEF Typed
<1>4. Rebuilding'
  BY <1>1, Naturals1 DEF Rebuilding, ScanStart, NoInfo, NoJob
<1>5. \A i \in Ids : JobFits(i)'
  BY <1>1, Naturals1 DEF JobFits, NoJob, NoCell
<1>6. OneJob'
  BY <1>1 DEF OneJob, Active, NoJob
<1>7. QED
  BY <1>1, <1>2, <1>3, <1>4, <1>5, <1>6 DEF TableInv

-----------------------------------------------------------------------------
(* A write by the core that returns: the state it leaves, up to what the   *)
(* core then does with its job and its page.                               *)

LEMMA CoreWriteTyped ==
    ASSUME Typed, NEW c, NEW p, NEW o, Writable(c, p, o), NEW i \in Ids, NEW job, job.g \in Gens \cup {0},
           CoreWrite(i, c, p, o, job)
    PROVE  \/ TableInv' /\ boot' = "headers"
           \/ /\ info' = BuildInfo(c, p, o) /\ reloc' = BuildReloc(c, p, o)
              /\ info' \in TableType /\ reloc' \in RelocType
              /\ nvs' \in Stores /\ cache' \in Caches /\ last' \in CallType
              /\ acked' \in [Ids -> AckType]
              /\ jobs' = [jobs EXCEPT ![i] = NoJob]
                   \/ (jobs' = [jobs EXCEPT ![i] = job] /\ c.k # "tail")
              /\ UNCHANGED <<boot, scan, env>>
<1> DEFINE ver == [len |-> BuildInfo(c, p, o)[i].len, g |-> job.g]
           found(n) == [acked EXCEPT ![i] = Resolved(i, n, Kept(i, c, o, ver) \cup {ver})]
           call == [CutShort("write") EXCEPT !.id = i, !.ver = ver]
<1>0. ver \in AckType
  BY BuildTyped DEF TableType, InfoType, AckType
<1>1. CASE \E n \in WriteStops(c, p, o) : PowerFails(n, found(n), call)
  <2>1. PICK n \in WriteStops(c, p, o) : PowerFails(n, found(n), call)
    BY <1>1
  <2>2. n \in Stores
    BY <2>1, WriteTyped
  <2>3. TableInv'
    <3>1. found(n) \in [Ids -> AckType]
      <4>1. Resolved(i, n, Kept(i, c, o, ver) \cup {ver}) \in AckType
        BY <2>2, StoredAck DEF Resolved, Stores, Typed
      <4>2. QED
        BY <4>1 DEF Typed
    <3>2. call \in CallType
      <4> HIDE DEF ver
      <4>1. QED
        BY <1>0, CallTypes
    <3> HIDE DEF found, call
    <3>3. QED
      BY <2>1, <2>2, <3>1, <3>2, PowerTable
  <2>4. QED
    BY <2>1, <2>3 DEF PowerFails
<1>2. CASE ~ \E n \in WriteStops(c, p, o) : PowerFails(n, found(n), call)
  <2>1. /\ WriteEffect(c, p, o)
        /\ jobs' = [jobs EXCEPT ![i] = IF last'.ret # "ok" \/ c.k = "tail" THEN NoJob ELSE job]
        /\ acked' = [acked EXCEPT ![i] = IF last'.ret = "ok" /\ c.k = "tail" THEN ver
                                         ELSE Resolved(i, nvs', Kept(i, c, o, ver))]
        /\ UNCHANGED <<boot, scan, env>>
    BY <1>2 DEF CoreWrite
  <2>2. nvs' \in Stores /\ cache' \in Caches /\ last' \in CallType
    BY <2>1, WriteTyped
  <2>3. info' = BuildInfo(c, p, o) /\ reloc' = BuildReloc(c, p, o)
    BY <2>1 DEF WriteEffect
  <2>4. info' \in TableType /\ reloc' \in RelocType
    BY <2>3, BuildTyped
  <2>5. acked' \in [Ids -> AckType]
    <3>1. Stored(nvs'[i]) \in AckType
      BY <2>2, StoredAck DEF Stores
    <3>2. Resolved(i, nvs', Kept(i, c, o, ver)) \in AckType
      BY <3>1 DEF Resolved, Typed
    <3>3. acked \in [Ids -> AckType]
      BY DEF Typed
    <3>4. QED
      BY <1>0, <2>1, <3>2, <3>3
  <2>6. QED
    BY <2>1, <2>2, <2>3, <2>4, <2>5
<1>3. QED
  BY <1>1, <1>2

-----------------------------------------------------------------------------
(* An entry that is placed behind the used part of its page shares no      *)
(* position with the others.                                               *)

LEMMA PlaceBehind ==
    ASSUME NEW t \in TableType, NEW r \in FreeType, Disjoint(t), Within(t, r),
           NEW i \in Ids, NEW e \in InfoType, e.pos >= r[e.page],
           \A q \in Pages : PageHdr(q) = i => e.pos = 0 /\ e.page = q,
           NEW r2 \in FreeType, r2[e.page] = e.pos + e.len,
           \A q \in Pages : q # e.page => r2[q] = r[q]
    PROVE  [t EXCEPT ![i] = e] \in TableType /\ Disjoint([t EXCEPT ![i] = e])
             /\ Within([t EXCEPT ![i] = e], r2)
<1> DEFINE u == [t EXCEPT ![i] = e]
<1>1. u \in TableType /\ u[i] = e /\ \A j \in Ids : j # i => u[j] = t[j]
  BY DEF TableType
<1> HIDE DEF u
<1>2. /\ e.page \in Pages /\ e.pos \in Nat /\ e.len \in Nat
      /\ \A j \in Ids : t[j].page \in Pages /\ t[j].pos \in Nat /\ t[j].len \in Nat
      /\ \A q \in Pages : r[q] \in Nat /\ r2[q] \in Nat
  BY Entry, Sizes1 DEF InfoType, FreeType
<1>3. ASSUME NEW j \in Ids, t[j].len > 0, t[j].page = e.page
      PROVE  t[j].pos + t[j].len <= e.pos
  <2>1. t[j].pos + t[j].len <= r[e.page]
    BY <1>3 DEF Within
  <2>2. QED
    BY <1>2, <2>1
<1>4. ASSUME NEW j \in Ids, j # i PROVE Apart(u[i], u[j]) /\ Apart(u[j], u[i])
  <2>1. t[j].len = 0 \/ t[j].page # e.page \/ t[j].pos + t[j].len <= e.pos
    BY <1>2, <1>3
  <2>2. QED
    BY <1>1, <1>4, <2>1 DEF Apart
<1>5. Disjoint(u)
  BY <1>1, <1>4 DEF Disjoint
<1>6. ASSUME NEW j \in Ids, u[j].len > 0 PROVE u[j].pos + u[j].len <= r2[u[j].page]
  <2>1. CASE j = i
    BY <1>1, <1>2, <2>1
  <2>2. CASE j # i /\ t[j].page = e.page
    <3>1. t[j].pos + t[j].len <= e.pos
      BY <1>1, <1>3, <1>6, <2>2
    <3>2. QED
      BY <1>1, <1>2, <2>2, <3>1
  <2>3. CASE j # i /\ t[j].page # e.page
    BY <1>1, <1>2, <1>6, <2>3 DEF Within
  <2>4. QED
    BY <2>1, <2>2, <2>3
<1>7. ASSUME NEW q \in Pages
      PROVE  u[PageHdr(q)].pos = 0 /\ (u[PageHdr(q)].len > 0 => u[PageHdr(q)].page = q)
  <2>1. CASE PageHdr(q) = i
    BY <1>1, <2>1
  <2>2. CASE PageHdr(q) # i
    BY <1>1, <2>2, Naturals1 DEF Within
  <2>3. QED
    BY <2>1, <2>2
<1>8. QED
  BY <1>1, <1>5, <1>6, <1>7 DEF u, Within

-----------------------------------------------------------------------------
(* The rebuilding of the table.                                            *)

LEMMA HeaderTable ==
    ASSUME TableInv, BootHeader
    PROVE  TableInv'
<1> DEFINE i == scan.id
           p == i - DatasetNumber
           h == nvs[i].cell[0]
           e == [page |-> p, pos |-> 0, len |-> h.len]
<1>1. /\ boot = "headers" /\ i \in Ids
      /\ info' = IF nvs[i].len > 0 THEN [info EXCEPT ![i] = e] ELSE info
      /\ free' = [free EXCEPT ![p] = IF nvs[i].len > 0 THEN h.len ELSE 0]
      /\ scan' = [scan EXCEPT !.id = i + 1]
      /\ UNCHANGED <<boot, nvs, cache, reloc, jobs, acked, last, env>>
  BY DEF BootHeader
<1>2. Typed /\ Disjoint(info) /\ Within(info, free) /\ Rebuilding
  BY DEF TableInv
<1>3. /\ info \in TableType /\ scan \in ScanType /\ nvs \in Stores /\ free \in FreeType
      /\ i >= DatasetNumber
      /\ \A j \in Ids : j < DatasetNumber \/ j >= i => info[j].len = 0
      /\ \A q \in Pages : free[q] = info[PageHdr(q)].len
      /\ \A j \in Ids : jobs[j].next = 0
  BY <1>1, <1>2 DEF Typed, Rebuilding
<1>4. h.len \in 0 .. MaxLen
  <2>1. nvs[i].cell[0] \in Cells
    BY <1>1, <1>3, Naturals1 DEF Stores, ItemType
  <2>2. QED
    BY <2>1 DEF Cells
<1> HIDE DEF h
<1>5. p \in Pages /\ PageHdr(p) = i /\ \A q \in Pages : PageHdr(q) = i => q = p
  BY <1>1, <1>3, HeaderId
<1>6. e \in InfoType /\ e.page = p /\ e.pos = 0 /\ e.len = h.len
  BY <1>4, <1>5, Naturals1 DEF InfoType
<1> HIDE DEF e
<1>7. free[p] = 0 /\ info[i].len = 0
  <2>1. i >= i
    BY <1>1, Naturals1
  <2>2. QED
    BY <1>1, <1>3, <1>5, <2>1
<1>9. \A j \in Ids : info[j].len \in Nat /\ info[j].pos \in Nat /\ info[j].page \in Pages
  BY <1>3, Entry
<1>10. info' \in TableType
  BY <1>1, <1>3, <1>6 DEF TableType
<1>11. /\ \A j \in Ids : info'[j] = info[j] \/ (j = i /\ info'[j] = e /\ nvs[i].len > 0)
       /\ \A j \in Ids : j # i => info'[j] = info[j]
       /\ nvs[i].len > 0 => info'[i] = e
       /\ ~ nvs[i].len > 0 => info' = info
  BY <1>1, <1>3 DEF TableType
<1>12. /\ \A q \in Pages : q # p => free'[q] = free[q]
       /\ free'[p] = IF nvs[i].len > 0 THEN h.len ELSE 0
  BY <1>1, <1>3, <1>5 DEF FreeType
<1>13. free' \in FreeType
  <2>1. h.len \in 0 .. (PageSize + MaxLen) /\ 0 \in 0 .. (PageSize + MaxLen)
    BY <1>4, Sizes1
  <2>2. QED
    BY <1>1, <1>3, <2>1 DEF FreeType
<1>14. Disjoint(info') /\ Within(info', free')
  <2>1. CASE nvs[i].len > 0
    <3>1. e.pos >= free[e.page]
      BY <1>6, <1>7
    <3>2. free'[e.page] = e.pos + e.len
      BY <1>4, <1>6, <1>12, <2>1
    <3>3. info' = [info EXCEPT ![i] = e]
      BY <1>1, <2>1
    <3>4. \A q \in Pages : PageHdr(q) = i => e.pos = 0 /\ e.page = q
      BY <1>5, <1>6
    <3>5. \A q \in Pages : q # e.page => free'[q] = free[q]
      BY <1>6, <1>12
    <3>6. info \in TableType /\ free \in FreeType /\ i \in Ids /\ Disjoint(info) /\ Within(info, free)
      BY <1>1, <1>2, <1>3
    <3> HIDE DEF i, p
    <3>7. QED
      BY <1>6, <1>13, <3>1, <3>2, <3>3, <3>4, <3>5, <3>6, PlaceBehind
  <2>2. CASE ~ nvs[i].len > 0
    <3>1. \A q \in Pages : free'[q] = free[q]
      BY <1>7, <1>12, <2>2
    <3>2. QED
      BY <1>2, <1>9, <1>11, <2>2, <3>1 DEF Within
  <2>3. QED
    BY <2>1, <2>2
<1>15. scan' \in ScanType /\ scan'.id = i + 1
  <2>1. i + 1 \in 0 .. (DatasetNumber + PageCount)
    BY <1>1, Sizes1 DEF Ids
  <2> HIDE DEF i
  <2>2. QED
    BY <1>1, <1>3, <2>1 DEF ScanType
<1>16. Rebuilding'
  <2>1. ASSUME NEW j \in Ids, j < DatasetNumber \/ j >= i + 1 PROVE info'[j].len = 0
    <3>1. j # i /\ (j < DatasetNumber \/ j >= i)
      BY <1>1, <1>3, <2>1, Naturals1
    <3>2. QED
      BY <1>3, <1>11, <3>1
  <2>2. ASSUME NEW q \in Pages PROVE free'[q] = info'[PageHdr(q)].len
    <3>1. CASE q = p
      BY <1>5, <1>6, <1>7, <1>11, <1>12, <3>1
    <3>2. CASE q # p
      BY <1>3, <1>5, <1>11, <1>12, <3>2, Naturals1
    <3>3. QED
      BY <3>1, <3>2
  <2>3. i + 1 >= DatasetNumber
    BY <1>1, <1>3, Naturals1
  <2>4. QED
    BY <1>1, <1>3, <1>15, <2>1, <2>2, <2>3 DEF Rebuilding
<1>18. Typed'
  BY <1>1, <1>2, <1>10, <1>13, <1>15 DEF Typed
<1>19. (\A j \in Ids : JobFits(j)') /\ OneJob'
  <2>1. \A j \in Ids : JobFits(j)
    BY DEF TableInv
  <2>2. Active' = Active
    BY <1>1 DEF Active
  <2>3. OneJob
    BY DEF TableInv
  <2>4. OneJob'
    BY <1>1, <2>2, <2>3 DEF OneJob
  <2>5. \A j \in Ids : JobFits(j)'
    BY <1>1, <1>3, <2>1 DEF JobFits
  <2>6. QED
    BY <2>4, <2>5
<1>20. QED
  BY <1>2, <1>14, <1>16, <1>18, <1>19 DEF TableInv

LEMMA HeadersDoneTable ==
    ASSUME TableInv, BootHeadersDone
    PROVE  TableInv'
<1> DEFINE h == info[PageHdr(0)]
<1>1. /\ boot = "headers" /\ scan.id \notin Ids
      /\ \/ boot' = "datasets" /\ scan' = [id |-> 0, page |-> 0, pos |-> h.pos + h.len]
         \/ boot' = "up" /\ scan' = ScanStart
      /\ UNCHANGED <<info, nvs, cache, reloc, jobs, free, acked, last, env>>
  BY DEF BootHeadersDone
<1>2. Typed /\ Disjoint(info) /\ Within(info, free) /\ Rebuilding
      /\ (\A i \in Ids : JobFits(i)) /\ OneJob
  BY DEF TableInv
<1>3. /\ info \in TableType /\ scan \in ScanType
      /\ \A j \in Ids : jobs[j].next = 0
      /\ \A j \in Ids : j < DatasetNumber \/ j >= scan.id => info[j].len = 0
      /\ \A q \in Pages : free[q] = info[PageHdr(q)].len
  BY <1>1, <1>2 DEF Typed, Rebuilding
<1>4. PageHdr(0) \in Ids /\ 0 \in Pages /\ h.pos = 0 /\ h.len \in Nat /\ h.len <= MaxLen
  <2>1. PageHdr(0) \in Ids /\ 0 \in Pages
    BY Naturals1
  <2>2. QED
    BY <1>2, <1>3, <2>1, Entry DEF Within
<1>5. scan' \in ScanType
  <2>1. h.pos + h.len \in 0 .. PageSize /\ 0 \in 0 .. PageSize
    BY <1>4, Sizes1
  <2>2. 0 \in 0 .. (DatasetNumber + PageCount) /\ DatasetNumber \in 0 .. (DatasetNumber + PageCount)
    BY Sizes1
  <2> HIDE DEF h
  <2>3. QED
    BY <1>1, <1>4, <2>1, <2>2 DEF ScanStart, ScanType
<1>6. Typed'
  BY <1>1, <1>2, <1>5 DEF Typed
<1>7. Rebuilding'
  <2>1. CASE boot' = "up"
    BY <2>1 DEF Rebuilding
  <2>2. CASE boot' = "datasets" /\ scan' = [id |-> 0, page |-> 0, pos |-> h.pos + h.len]
    <3>1. h.pos + h.len = free[0]
      BY <1>3, <1>4
    <3>2. scan'.pos = free'[scan'.page] /\ scan'.id = 0
      BY <1>1, <2>2, <3>1
    <3>3. QED
      BY <1>1, <1>3, <2>2, <3>2 DEF Rebuilding
  <2>3. QED
    BY <1>1, <2>1, <2>2
<1>8. (\A i \in Ids : JobFits(i)') /\ OneJob'
  BY <1>1, <1>2 DEF JobFits, OneJob, Active
<1>9. QED
  BY <1>1, <1>2, <1>6, <1>7, <1>8 DEF TableInv

LEMMA DatasetTable ==
    ASSUME TableInv, BootDataset
    PROVE  TableInv'
<1> DEFINE i == scan.id
           p == scan.page
           l == nvs[i].cell[0].len
           end == BootEnd(i)
           e == [page |-> p, pos |-> scan.pos, len |-> l]
<1>1. /\ boot = "datasets" /\ i < DatasetNumber
      /\ UNCHANGED <<nvs, cache, reloc, jobs, acked, last, env>>
  BY DEF BootDataset
<1>2. Typed /\ Disjoint(info) /\ Within(info, free) /\ Rebuilding
      /\ (\A j \in Ids : JobFits(j)) /\ OneJob
  BY DEF TableInv
<1>3. /\ info \in TableType /\ scan \in ScanType /\ nvs \in Stores /\ free \in FreeType
      /\ scan.pos = free[p]
      /\ \A j \in Ids : jobs[j].next = 0
      /\ \A j \in Ids : i <= j /\ j < DatasetNumber => info[j].len = 0
      /\ \A q \in Pages : q > p => free[q] = info[PageHdr(q)].len
  BY <1>1, <1>2 DEF Typed, Rebuilding
<1>4. i \in Ids /\ p \in Pages /\ scan.pos \in Nat /\ scan.pos <= PageSize
  <2>1. i \in Nat /\ p \in Pages /\ scan.pos \in 0 .. PageSize
    BY <1>3, Sizes1 DEF ScanType
  <2>2. QED
    BY <1>1, <2>1, Sizes1 DEF Ids
<1>5. l \in Nat /\ l <= MaxLen /\ end = scan.pos + l
  <2>1. nvs[i].cell[0] \in Cells
    BY <1>3, <1>4, Naturals1 DEF Stores, ItemType
  <2>2. QED
    BY <2>1, Sizes1 DEF Cells, BootEnd
<1>6. e \in InfoType /\ e.page = p /\ e.pos = scan.pos /\ e.len = l
  <2>1. l \in 0 .. MaxLen /\ scan.pos \in 0 .. PageSize
    BY <1>4, <1>5, Sizes1
  <2> HIDE DEF l, p
  <2>2. QED
    BY <1>4, <2>1 DEF InfoType
<1>7. (\A j \in Ids : JobFits(j)') /\ OneJob'
  BY <1>1, <1>2, <1>3 DEF JobFits, OneJob, Active
<1>8. CASE nvs[i].len = 0
  <2>1. scan' = [scan EXCEPT !.id = i + 1] /\ UNCHANGED <<boot, info, free>>
    BY <1>8 DEF BootDataset
  <2>2. i + 1 \in 0 .. (DatasetNumber + PageCount) /\ i \in Nat
    BY <1>1, <1>4, Sizes1, Naturals1
  <2>3. scan' \in ScanType /\ scan'.id = i + 1 /\ scan'.page = p /\ scan'.pos = scan.pos
    BY <1>3, <2>1, <2>2 DEF ScanType
  <2>4. Typed'
    BY <1>1, <1>2, <2>1, <2>3 DEF Typed
  <2> HIDE DEF i
  <2>5. \A j \in Ids : i + 1 <= j => i <= j
    BY <2>2, Naturals1
  <2>6. Rebuilding'
    BY <1>1, <1>3, <2>1, <2>3, <2>5 DEF Rebuilding
  <2>7. QED
    BY <1>2, <1>7, <2>1, <2>4, <2>6 DEF TableInv
<1>9. CASE nvs[i].len # 0
  <2>1. /\ info' = [info EXCEPT ![i] = e]
        /\ free' = [free EXCEPT ![p] = end]
        /\ \/ scan' = [scan EXCEPT !.id = i + 1, !.pos = end] /\ boot' = boot /\ ~ Invalid(end)
           \/ /\ p + 1 \in Pages /\ boot' = boot
              /\ scan' = [id |-> i + 1, page |-> p + 1,
                          pos |-> info[PageHdr(p + 1)].pos + info[PageHdr(p + 1)].len]
           \/ boot' = "fatal" /\ scan' = scan
    BY <1>9 DEF BootDataset
  <2> HIDE DEF e, l, end
  <2>2. free' \in FreeType /\ free'[p] = end /\ \A q \in Pages : q # p => free'[q] = free[q]
    <3>1. end \in 0 .. (PageSize + MaxLen)
      BY <1>4, <1>5, Sizes1
    <3>2. QED
      BY <1>3, <1>4, <2>1, <3>1 DEF FreeType
  <2>3. Disjoint(info') /\ Within(info', free') /\ info' \in TableType
    <3>1. e.pos >= free[e.page]
      BY <1>3, <1>4, <1>6
    <3>2. free'[e.page] = e.pos + e.len /\ \A q \in Pages : q # e.page => free'[q] = free[q]
      BY <1>5, <1>6, <2>2
    <3>3. \A q \in Pages : PageHdr(q) # i
      BY <1>1, <1>4, Naturals1
    <3>4. /\ info \in TableType /\ free \in FreeType /\ i \in Ids /\ Disjoint(info)
          /\ Within(info, free) /\ info' = [info EXCEPT ![i] = e]
      BY <1>2, <1>3, <1>4, <2>1
    <3> HIDE DEF i, p
    <3>5. QED
      BY <1>6, <2>2, <3>1, <3>2, <3>3, <3>4, PlaceBehind
  <2>4. i + 1 \in 0 .. (DatasetNumber + PageCount) /\ i \in Nat
    BY <1>1, <1>4, Sizes1, Naturals1
  <2>5. \A j \in Ids : i + 1 <= j /\ j < DatasetNumber => info'[j].len = 0
    <3>1. \A j \in Ids : i + 1 <= j => i <= j /\ j # i
      BY <2>4, Naturals1
    <3>2. QED
      BY <1>3, <2>1, <3>1 DEF TableType
  <2>6. \A q \in Pages : q > p => free'[q] = info'[PageHdr(q)].len
    <3> SUFFICES ASSUME NEW q \in Pages, q > p PROVE free'[q] = info'[PageHdr(q)].len
      OBVIOUS
    <3>1. q # p /\ PageHdr(q) \in Ids /\ PageHdr(q) # i
      BY <1>1, <1>4, Naturals1
    <3>2. info'[PageHdr(q)] = info[PageHdr(q)]
      BY <1>3, <2>1, <3>1 DEF TableType
    <3>3. QED
      BY <1>3, <2>2, <3>1, <3>2
  <2>7. CASE scan' = [scan EXCEPT !.id = i + 1, !.pos = end] /\ boot' = boot /\ ~ Invalid(end)
    <3>1. end \in 0 .. PageSize
      BY <1>4, <1>5, <2>7, Sizes1 DEF Invalid
    <3>2. scan' \in ScanType /\ scan'.id = i + 1 /\ scan'.page = p /\ scan'.pos = end
      BY <1>3, <2>4, <2>7, <3>1 DEF ScanType
    <3>3. Typed'
      BY <1>1, <1>2, <2>2, <2>3, <2>7, <3>2 DEF Typed
    <3>4. Rebuilding'
      BY <1>1, <1>3, <2>2, <2>5, <2>6, <2>7, <3>2 DEF Rebuilding
    <3>5. QED
      BY <1>7, <2>3, <3>3, <3>4 DEF TableInv
  <2>8. CASE /\ p + 1 \in Pages /\ boot' = boot
             /\ scan' = [id |-> i + 1, page |-> p + 1,
                         pos |-> info[PageHdr(p + 1)].pos + info[PageHdr(p + 1)].len]
    <3> DEFINE n == p + 1
               x == info[PageHdr(n)]
    <3>1. n \in Pages /\ PageHdr(n) \in Ids
      BY <2>8, Naturals1
    <3>2. x.pos = 0 /\ x.len \in Nat /\ x.len <= MaxLen
      BY <1>2, <1>3, <3>1, Entry DEF Within
    <3>3. n > p /\ \A q \in Pages : q > n => q > p
      BY <1>4, <3>1, Naturals1
    <3>4. x.pos + x.len = free'[n]
      <4>1. n # p
        BY <1>4, Naturals1
      <4>2. free'[n] = free[n] /\ free[n] = x.len
        BY <1>3, <2>2, <3>1, <3>3, <4>1
      <4> HIDE DEF x, n
      <4>3. QED
        BY <3>2, <4>2
    <3>5. x.pos + x.len \in 0 .. PageSize
      BY <3>2, Sizes1
    <3>6. scan' = [id |-> i + 1, page |-> n, pos |-> x.pos + x.len]
      BY <2>8
    <3> HIDE DEF n, x
    <3>7. scan' \in ScanType /\ scan'.id = i + 1 /\ scan'.page = n /\ scan'.pos = free'[n]
      BY <2>4, <3>1, <3>4, <3>5, <3>6 DEF ScanType
    <3>8. Typed'
      BY <1>1, <1>2, <2>2, <2>3, <2>8, <3>7 DEF Typed
    <3>9. Rebuilding'
      BY <1>1, <1>3, <2>5, <2>6, <2>8, <3>3, <3>7 DEF Rebuilding
    <3>10. QED
      BY <1>7, <2>3, <3>8, <3>9 DEF TableInv
  <2>9. CASE boot' = "fatal" /\ scan' = scan
    <3>1. Typed'
      BY <1>1, <1>2, <2>2, <2>3, <2>9 DEF Typed
    <3>2. Rebuilding'
      BY <1>1, <1>3, <2>9 DEF Rebuilding
    <3>3. QED
      BY <1>7, <2>3, <3>1, <3>2 DEF TableInv
  <2>10. QED
    BY <2>1, <2>7, <2>8, <2>9
<1>10. QED
  BY <1>8, <1>9

LEMMA DoneTable ==
    ASSUME TableInv, BootDone
    PROVE  TableInv'
<1>1. /\ boot' = "up" /\ scan' = ScanStart
      /\ UNCHANGED <<info, nvs, cache, reloc, jobs, free, acked, last, env>>
  BY DEF BootDone
<1>2. scan' \in ScanType
  <2>1. 0 \in 0 .. PageSize /\ DatasetNumber \in 0 .. (DatasetNumber + PageCount) /\ 0 \in Pages
    BY Sizes1, Naturals1
  <2>2. QED
    BY <1>1, <2>1 DEF ScanStart, ScanType
<1>3. Typed'
  BY <1>1, <1>2 DEF TableInv, Typed
<1>4. Rebuilding'
  BY <1>1 DEF Rebuilding
<1>5. QED
  BY <1>1, <1>3, <1>4 DEF TableInv, JobFits, OneJob, Active

-----------------------------------------------------------------------------
(* The core begins a record behind the used part of a page.  A job whose   *)
(* old place counts runs alone, because it copies.                         *)

LEMMA TameNow ==
    ASSUME Tame, Typed
    PROVE  /\ "deinit" \notin env
           /\ "copy" \notin env \/ ("interleave" \notin env /\ "midway" \notin env)
BY DEF Tame, Typed

LEMMA BeginTable ==
    ASSUME Tame, TableInv, boot = "up", NEW i \in Ids, jobs[i].next = 0, Orderly(i),
           NEW c \in Cells, c.k = "hdr", c.d = i, c.len >= 2,
           NEW p \in Pages, NEW o \in Nat, o >= free[p], o <= PageSize,
           \A q \in Pages : PageHdr(q) = i => o = 0 /\ p = q,
           NEW job \in JobType, job.next = 1, job.got = NoCell,
           job.old.len > 0 =>
              /\ "copy" \in env /\ job.old = info[i]
              /\ info[i].len = c.len /\ info[i].page # p,
           CoreWrite(i, c, p, o, job),
           free' = IF boot' = "up" THEN [free EXCEPT ![p] = o + c.len] ELSE [q \in Pages |-> 0]
    PROVE  TableInv'
<1> DEFINE e == [page |-> p, pos |-> o, len |-> c.len]
           u == [info EXCEPT ![i] = e]
           r == [free EXCEPT ![p] = o + c.len]
<1>1. Typed /\ Disjoint(info) /\ Within(info, free) /\ Rebuilding
      /\ (\A j \in Ids : JobFits(j)) /\ OneJob
  BY DEF TableInv
<1>2. info \in TableType /\ free \in FreeType /\ jobs \in [Ids -> JobType] /\ reloc \in RelocType
  BY <1>1 DEF Typed
<1>3. c.len \in Nat /\ c.len <= MaxLen
  BY Sizes1 DEF Cells
<1>4. e \in InfoType /\ e.page = p /\ e.pos = o /\ e.len = c.len
  <2>1. c.len \in 0 .. MaxLen /\ o \in 0 .. PageSize
    BY <1>3, Sizes1
  <2>2. QED
    BY <2>1 DEF InfoType
<1>5. r \in FreeType /\ r[p] = o + c.len /\ \A q \in Pages : q # p => r[q] = free[q]
  <2>1. o + c.len \in 0 .. (PageSize + MaxLen)
    BY <1>3, Sizes1
  <2>2. QED
    BY <1>2, <2>1 DEF FreeType
<1>6. BuildInfo(c, p, o) = u
  BY DEF BuildInfo
<1> HIDE DEF e, r
<1>7. u \in TableType /\ Disjoint(u) /\ Within(u, r)
  <2>1. e.pos >= free[e.page] /\ r[e.page] = e.pos + e.len
        /\ (\A q \in Pages : q # e.page => r[q] = free[q])
        /\ (\A q \in Pages : PageHdr(q) = i => e.pos = 0 /\ e.page = q)
    BY <1>4, <1>5
  <2>2. QED
    BY <1>1, <1>2, <1>4, <1>5, <2>1, PlaceBehind
<1>8. u[i] = e /\ \A j \in Ids : j # i => u[j] = info[j]
  BY <1>2 DEF TableType
<1> HIDE DEF u
<1>9. Writable(c, p, o)
  BY <1>6, <1>7 DEF Writable
<1>10. CASE TableInv' /\ boot' = "headers"
  BY <1>10
<1>11. CASE /\ info' = BuildInfo(c, p, o) /\ reloc' = BuildReloc(c, p, o)
            /\ info' \in TableType /\ reloc' \in RelocType
            /\ nvs' \in Stores /\ cache' \in Caches /\ last' \in CallType
            /\ acked' \in [Ids -> AckType]
            /\ jobs' = [jobs EXCEPT ![i] = NoJob]
                 \/ (jobs' = [jobs EXCEPT ![i] = job] /\ c.k # "tail")
            /\ UNCHANGED <<boot, scan, env>>
  <2>1. info' = u /\ free' = r /\ boot' = "up" /\ env' = env
    BY <1>6, <1>11 DEF r
  <2>2. PICK x \in {NoJob, job} : jobs' = [jobs EXCEPT ![i] = x]
    BY <1>11
  <2>3. x \in JobType
    BY <2>2, Cells1
  <2>4. jobs' \in [Ids -> JobType] /\ jobs'[i] = x /\ \A j \in Ids : j # i => jobs'[j] = jobs[j]
    BY <1>2, <2>2, <2>3
  <2>5. Typed'
    BY <1>1, <1>5, <1>7, <1>11, <2>1, <2>4 DEF Typed
  <2>6. Rebuilding'
    BY <2>1 DEF Rebuilding
  <2>7. JobFits(i)'
    <3>1. CASE x = NoJob
      BY <2>4, <3>1 DEF JobFits, NoJob, NoCell
    <3>2. CASE x = job
      <4>1. x.got.k # "hdr" /\ x.next < info'[i].len
        BY <1>3, <1>4, <1>8, <2>1, <3>2 DEF NoCell
      <4>2. ASSUME x.old.len > 0
            PROVE  /\ "copy" \in env' /\ x.old.len = info'[i].len
                   /\ \A j \in Ids : Apart(x.old, info'[j])
        <5>1. "copy" \in env' /\ x.old = info[i] /\ info[i].len = c.len /\ info[i].page # p
          BY <2>1, <3>2, <4>2
        <5>2. x.old.len = info'[i].len
          BY <1>4, <1>8, <2>1, <5>1
        <5>3. ASSUME NEW j \in Ids PROVE Apart(x.old, info'[j])
          <6>1. CASE j = i
            BY <1>4, <1>8, <2>1, <5>1, <6>1 DEF Apart
          <6>2. CASE j # i
            BY <1>1, <1>8, <2>1, <5>1, <6>2 DEF Disjoint
          <6>3. QED
            BY <6>1, <6>2
        <5>4. QED
          BY <5>1, <5>2, <5>3
      <4>3. ASSUME x.old.len > 0, reloc'.ds # NotFound PROVE reloc'.old = x.old
        <5> DEFINE f == info[i]
                   ds == IF Moved(f, p, o, c.len) THEN c.d ELSE reloc.ds
        <5>1. x.old = f /\ f.page # p
          BY <3>2, <4>3
        <5>2. reloc' = [reloc EXCEPT !.ds = ds,
                           !.old = IF ds # NotFound /\ (f.pos = 0 \/ Moved(f, p, o, c.len))
                                   THEN f ELSE reloc.old]
          BY <1>11 DEF BuildReloc
        <5>3. f.pos = 0 \/ Moved(f, p, o, c.len)
          BY <5>1 DEF Moved
        <5> HIDE DEF f, ds
        <5>4. reloc'.ds = ds
          BY <1>2, <5>2 DEF RelocType
        <5>5. reloc'.old = f
          BY <1>2, <4>3, <5>2, <5>3, <5>4 DEF RelocType
        <5>6. QED
          BY <5>1, <5>5
      <4>4. QED
        BY <2>4, <4>1, <4>2, <4>3 DEF JobFits
    <3>3. QED
      BY <2>2, <3>1, <3>2
  <2>8. ASSUME NEW j \in Ids, j # i PROVE JobFits(j)'
    <3>1. jobs'[j] = jobs[j] /\ info'[j] = info[j] /\ JobFits(j)
      BY <1>1, <1>8, <2>1, <2>4, <2>8
    <3>2. ASSUME jobs[j].next > 0 PROVE ~ (jobs[j].old.len > 0)
      <4>1. j \in Active
        BY <3>2 DEF Active
      <4>2. "interleave" \in env
        BY <2>8, <4>1 DEF Orderly
      <4>3. "copy" \notin env
        BY <1>1, <4>2, TameNow
      <4>4. QED
        BY <3>1, <3>2, <4>3 DEF JobFits
    <3>3. QED
      BY <3>1, <3>2 DEF JobFits
  <2>9. OneJob'
    <3> SUFFICES ASSUME "interleave" \notin env', NEW j \in Active', NEW k \in Active' PROVE j = k
      BY DEF OneJob
    <3>1. Active \subseteq {i}
      BY <2>1 DEF Orderly
    <3>2. ASSUME NEW m \in Active' PROVE m = i
      <4>1. m \in Ids /\ jobs'[m].next > 0
        BY <3>2 DEF Active
      <4>2. CASE m # i
        <5>1. jobs'[m] = jobs[m]
          BY <2>4, <4>1, <4>2
        <5>2. m \in Active
          BY <4>1, <5>1 DEF Active
        <5>3. QED
          BY <3>1, <5>2
      <4>3. QED
        BY <4>2
    <3>3. QED
      BY <3>2
  <2>10. QED
    BY <1>7, <2>1, <2>5, <2>6, <2>7, <2>8, <2>9 DEF TableInv
<1>12. QED
  BY <1>9, <1>10, <1>11, CoreWriteTyped, <1>1 DEF JobType

LEMMA FormatTable ==
    ASSUME Tame, TableInv, NEW p \in Pages, FormatPage(p)
    PROVE  TableInv'
<1> DEFINE i == PageHdr(p)
           c == Piece(i, HdrLen, 0, 0)
           job == [NoJob EXCEPT !.next = 1]
<1>1. /\ boot = "up" /\ jobs[i].next = 0 /\ Orderly(i) /\ free[p] = 0
      /\ CoreWrite(i, c, p, 0, job)
      /\ free' = IF boot' = "up" THEN [free EXCEPT ![p] = HdrLen] ELSE [q \in Pages |-> 0]
  BY DEF FormatPage
<1>2. i \in Ids /\ \A q \in Pages : PageHdr(q) = i => p = q
  BY Naturals1
<1> HIDE DEF i
<1>3. c \in Cells /\ c.k = "hdr" /\ c.d = i /\ c.len = HdrLen
  <2>1. HdrLen \in 2 .. MaxLen /\ 0 \in Gens \cup {0} /\ 0 \in Nat
    BY Sizes1
  <2>2. QED
    BY <1>2, <2>1, PieceCell
<1>4. job \in JobType /\ job.next = 1 /\ job.got = NoCell /\ job.old.len = 0
  <2>1. 1 \in 0 .. MaxLen
    BY Sizes1
  <2>2. QED
    BY <2>1, Cells1 DEF NoJob, JobType, NoInfo
<1> HIDE DEF c, job
<1>5. 0 + c.len = HdrLen /\ 0 <= PageSize /\ 0 >= free[p] /\ c.len >= 2
  BY <1>1, <1>3, Sizes1
<1>6. free' = IF boot' = "up" THEN [free EXCEPT ![p] = 0 + c.len] ELSE [q \in Pages |-> 0]
  BY <1>1, <1>5
<1>7. /\ 0 \in Nat /\ \A q \in Pages : PageHdr(q) = i => 0 = 0 /\ p = q
      /\ job.old.len > 0 => /\ "copy" \in env /\ job.old = info[i]
                            /\ info[i].len = c.len /\ info[i].page # p
  BY <1>2, <1>4
<1>8. QED
  BY <1>1, <1>2, <1>3, <1>4, <1>5, <1>6, <1>7, BeginTable

LEMMA BeginWriteTable ==
    ASSUME Tame, TableInv, NEW d \in Types, NEW p \in Pages, NEW l \in Lens, NEW g \in Gens,
           BeginWrite(d, p, l, g)
    PROVE  TableInv'
<1> DEFINE c == Piece(d, l, g, 0)
           job == [NoJob EXCEPT !.next = 1, !.g = g]
           o == free[p]
<1>1. /\ boot = "up" /\ jobs[d].next = 0 /\ Orderly(d) /\ o + l <= PageSize
      /\ CoreWrite(d, c, p, o, job)
      /\ free' = IF boot' = "up" THEN [free EXCEPT ![p] = o + l] ELSE [q \in Pages |-> 0]
  BY DEF BeginWrite, MayBegin
<1>2. d \in Ids /\ \A q \in Pages : PageHdr(q) # d
  BY Naturals1 DEF Types
<1>3. l \in 2 .. MaxLen /\ l \in Nat /\ l >= 2
  BY Naturals1
<1>4. c \in Cells /\ c.k = "hdr" /\ c.d = d /\ c.len = l
  <2>1. g \in Gens \cup {0} /\ 0 \in Nat
    OBVIOUS
  <2>2. QED
    BY <1>2, <1>3, <2>1, PieceCell
<1>5. job \in JobType /\ job.next = 1 /\ job.got = NoCell /\ job.old.len = 0
  <2>1. 1 \in 0 .. MaxLen
    BY Sizes1
  <2>2. QED
    BY <2>1, Cells1 DEF NoJob, JobType, NoInfo
<1> HIDE DEF c, job
<1>6. o \in Nat /\ o <= PageSize /\ o >= free[p] /\ o + l = o + c.len
  <2>1. o \in Nat
    BY Sizes1 DEF TableInv, Typed, FreeType
  <2>2. QED
    BY <1>1, <1>3, <1>4, <2>1, Sizes1
<1> HIDE DEF o
<1>7. free' = IF boot' = "up" THEN [free EXCEPT ![p] = o + c.len] ELSE [q \in Pages |-> 0]
  BY <1>1, <1>6
<1>8. c.len >= 2
  BY <1>3, <1>4
<1>9. QED
  BY <1>1, <1>2, <1>4, <1>5, <1>6, <1>7, <1>8, BeginTable

LEMMA BeginCopyTable ==
    ASSUME Tame, TableInv, NEW d \in Types, NEW p \in Pages, BeginCopy(d, p)
    PROVE  TableInv'
<1> DEFINE c == ReadValue(info[d].page, info[d].pos)
           job == [next |-> 1, g |-> c.g, old |-> info[d], got |-> NoCell]
           o == free[p]
<1>1. /\ "copy" \in env /\ info[d].page # p
      /\ c.k = "hdr" /\ c.d = d /\ c.len = info[d].len
      /\ boot = "up" /\ jobs[d].next = 0 /\ Orderly(d) /\ o + c.len <= PageSize
      /\ CoreWrite(d, c, p, o, job)
      /\ free' = IF boot' = "up" THEN [free EXCEPT ![p] = o + c.len] ELSE [q \in Pages |-> 0]
  BY DEF BeginCopy, MayBegin
<1>2. d \in Ids /\ \A q \in Pages : PageHdr(q) # d
  BY Naturals1 DEF Types
<1>3. Typed /\ info \in TableType
  BY DEF TableInv, Typed
<1>4. c \in Cells /\ c.len >= 2
  <2>1. info[d].page \in Pages /\ info[d].pos \in Nat
    BY <1>2, <1>3, Entry
  <2>2. QED
    BY <1>1, <1>3, <2>1, ReadTyped
<1> HIDE DEF c
<1>5. job \in JobType /\ job.next = 1 /\ job.got = NoCell /\ job.old = info[d]
  <2>1. 1 \in 0 .. MaxLen /\ info[d] \in InfoType /\ c.g \in Gens \cup {0}
    BY <1>2, <1>3, <1>4, Entry, Sizes1 DEF Cells
  <2>2. QED
    BY <2>1, Cells1 DEF JobType
<1> HIDE DEF job
<1>6. o \in Nat /\ o <= PageSize /\ o >= free[p]
  <2>1. o \in Nat
    BY Sizes1 DEF TableInv, Typed, FreeType
  <2>2. c.len \in Nat
    BY <1>4, Sizes1 DEF Cells
  <2>3. QED
    BY <1>1, <2>1, <2>2, Sizes1
<1> HIDE DEF o
<1>7. QED
  BY <1>1, <1>2, <1>4, <1>5, <1>6, BeginTable

-----------------------------------------------------------------------------
(* The core goes on with its record, reads, moves and erases.              *)

(* What only the buffer, the flash and the relocation flags feel.          *)
LEMMA QuietTable ==
    ASSUME TableInv, nvs' \in Stores, cache' \in Caches, reloc' \in RelocType, last' \in CallType,
           reloc'.ds # NotFound => reloc.ds # NotFound, reloc'.old = reloc.old,
           UNCHANGED <<boot, scan, info, jobs, acked, env>>,
           free' \in FreeType, boot = "up", Within(info, free')
    PROVE  TableInv'
<1>1. Typed'
  BY DEF TableInv, Typed
<1>2. Rebuilding'
  BY DEF Rebuilding
<1>3. \A j \in Ids : JobFits(j)'
  BY DEF TableInv, JobFits
<1>4. OneJob'
  BY DEF TableInv, OneJob, Active
<1>5. QED
  BY <1>1, <1>2, <1>3, <1>4 DEF TableInv

LEMMA CopyReadTable ==
    ASSUME TableInv, NEW i \in Ids, CopyRead(i)
    PROVE  TableInv'
<1> DEFINE a == jobs[i].old
           p == a.page
           o == a.pos + jobs[i].next
           v == ReadValue(p, o)
<1>1. Typed /\ Disjoint(info) /\ Within(info, free) /\ Rebuilding
      /\ (\A j \in Ids : JobFits(j)) /\ OneJob
  BY DEF TableInv
<1>2. info \in TableType /\ jobs \in [Ids -> JobType] /\ reloc \in RelocType
  BY <1>1 DEF Typed
<1>3. boot = "up" /\ jobs[i].next > 0 /\ a.len > 0 /\ jobs[i].next < info[i].len - 1
  BY DEF CopyRead, IsCopied, Active
<1>4. p \in Pages /\ a.pos \in Nat /\ a.len \in Nat /\ jobs[i].next \in Nat /\ info[i].len \in Nat
  <2>1. a \in InfoType /\ jobs[i].next \in 0 .. MaxLen
    BY <1>2 DEF JobType
  <2>2. QED
    BY <1>2, <2>1, Entry, Sizes1 DEF InfoType
<1>5. o \in Nat
  BY <1>4
<1>6. CASE \E n \in ReadStops(p, o) : PowerFails(n, acked, CutShort("read"))
  <2> HIDE DEF p, o
  <2>1. QED
    BY <1>1, <1>4, <1>5, <1>6, ReadTyped, PowerTable, CallTypes DEF Typed
<1>7. CASE ~ \E n \in ReadStops(p, o) : PowerFails(n, acked, CutShort("read"))
  <2>1. /\ ReadEffect(p, o) /\ jobs' = [jobs EXCEPT ![i].got = v]
        /\ last' = [NoCall EXCEPT !.op = "read"]
        /\ UNCHANGED <<boot, scan, info, free, acked, env>>
    BY <1>7 DEF CopyRead
  <2>2. /\ v \in Cells /\ nvs' \in Stores /\ cache' \in Caches /\ reloc' \in RelocType
        /\ reloc'.ds # NotFound => reloc.ds # NotFound
        /\ reloc'.old = reloc.old
    <3> HIDE DEF p, o
    <3>1. QED
      BY <1>1, <1>4, <1>5, <2>1, ReadTyped
  <2>3. a.len = info[i].len /\ (\A j \in Ids : Apart(a, info[j]))
        /\ (reloc.ds # NotFound => reloc.old = a)
    BY <1>1, <1>3 DEF JobFits
  <2>4. v.k # "hdr"
    <3>1. \A j \in Ids : ~ Covers(info[j], p, o)
      <4> SUFFICES ASSUME NEW j \in Ids, Covers(info[j], p, o) PROVE FALSE
        OBVIOUS
      <4>1. Covers(a, p, o)
        <5>1. a.pos + jobs[i].next < a.pos + a.len /\ a.pos + jobs[i].next >= a.pos
          BY <1>3, <1>4, <2>3
        <5>2. QED
          BY <5>1 DEF Covers
      <4>2. a \in InfoType /\ info[j] \in InfoType
        BY <1>2, Entry DEF JobType
      <4> HIDE DEF a, p, o
      <4>3. QED
        BY <1>4, <1>5, <2>3, <4>1, <4>2, CoverOnce
    <3>2. Find(info, p, o) = NotFound
      BY <3>1, FindSome
    <3>3. CASE IsOldPlace(p, o)
      <4>1. reloc.old = a
        BY <2>3, <3>3 DEF IsOldPlace
      <4>2. ReadOff(p, o) = o - a.pos
        BY <3>2, <4>1 DEF ReadOff
      <4>3. ReadOff(p, o) # 0
        BY <1>3, <1>4, <4>2
      <4> HIDE DEF p, o
      <4>4. QED
        BY <1>1, <1>4, <1>5, <4>3, ReadTyped
    <3>4. CASE ~ IsOldPlace(p, o)
      BY <3>2, <3>4 DEF ReadValue, ReadId, Junk, Blank
    <3>5. QED
      BY <3>3, <3>4
  <2> HIDE DEF v, p, o, a
  <2>5. /\ jobs' \in [Ids -> JobType]
        /\ jobs'[i] = [jobs[i] EXCEPT !.got = v]
        /\ \A j \in Ids : j # i => jobs'[j] = jobs[j]
    <3>1. [jobs[i] EXCEPT !.got = v] \in JobType
      BY <1>2, <2>2 DEF JobType
    <3>2. QED
      BY <1>2, <2>1, <3>1
  <2>6. /\ jobs'[i].got = v
        /\ \A j \in Ids : jobs'[j].next = jobs[j].next /\ jobs'[j].old = jobs[j].old
        /\ \A j \in Ids : j # i => jobs'[j].got = jobs[j].got
    <3>1. jobs[i] \in JobType
      BY <1>2
    <3>2. jobs'[i].got = v /\ jobs'[i].next = jobs[i].next /\ jobs'[i].old = jobs[i].old
      BY <2>5, <3>1 DEF JobType
    <3>3. QED
      BY <2>5, <3>2
  <2>7. last' \in CallType
    BY <2>1, CallTypes
  <2>8. Typed'
    BY <1>1, <2>1, <2>2, <2>5, <2>7 DEF Typed
  <2>9. Rebuilding'
    BY <1>3, <2>1 DEF Rebuilding
  <2>10. \A j \in Ids : JobFits(j)'
    BY <1>1, <2>1, <2>2, <2>4, <2>6 DEF JobFits
  <2>11. OneJob'
    <3>1. Active' = Active
      BY <2>6 DEF Active
    <3>2. QED
      BY <1>1, <2>1, <3>1 DEF OneJob
  <2>12. QED
    BY <1>1, <2>1, <2>8, <2>9, <2>10, <2>11 DEF TableInv
<1>8. QED
  BY <1>6, <1>7

LEMMA WriteNextTable ==
    ASSUME TableInv, NEW i \in Ids, WriteNext(i)
    PROVE  TableInv'
<1> DEFINE k == jobs[i].next
           c == IF IsCopied(i) THEN jobs[i].got ELSE Piece(i, info[i].len, jobs[i].g, k)
           p == info[i].page
           o == info[i].pos + k
           job == [jobs[i] EXCEPT !.next = k + 1, !.got = NoCell]
<1>1. Typed /\ Disjoint(info) /\ Within(info, free) /\ Rebuilding
      /\ (\A j \in Ids : JobFits(j)) /\ OneJob
  BY DEF TableInv
<1>2. info \in TableType /\ jobs \in [Ids -> JobType]
  BY <1>1 DEF Typed
<1>3. /\ boot = "up" /\ k > 0
      /\ CoreWrite(i, c, p, o, job)
      /\ free' = IF boot' = "up" THEN free ELSE [q \in Pages |-> 0]
  BY DEF WriteNext, Active
<1>4. p \in Pages /\ info[i].pos \in Nat /\ info[i].len \in Nat /\ info[i].len <= MaxLen
  BY <1>2, Entry
<1>5. k \in Nat /\ k < info[i].len /\ jobs[i].g \in Gens \cup {0} /\ jobs[i].got \in Cells
      /\ jobs[i].got.k # "hdr" /\ jobs[i] \in JobType
  <2>1. jobs[i] \in JobType /\ JobFits(i)
    BY <1>1, <1>2
  <2>2. k \in 0 .. MaxLen
    BY <2>1 DEF JobType
  <2>3. QED
    BY <1>3, <2>1, <2>2, Sizes1 DEF JobFits, JobType
<1>6. o \in Nat
  BY <1>4, <1>5
<1>7. c \in Cells /\ c.k # "hdr" /\ (c.k # "tail" => k + 1 < info[i].len)
  <2>1. CASE IsCopied(i)
    BY <1>4, <1>5, <2>1 DEF IsCopied
  <2>2. CASE ~ IsCopied(i)
    <3>1. info[i].len \in 2 .. MaxLen
      BY <1>3, <1>4, <1>5, Sizes1
    <3>2. c \in Cells /\ (c.k = "hdr" <=> k = 0) /\ (c.k = "tail" <=> k = info[i].len - 1)
      BY <1>5, <2>2, <3>1, PieceCell
    <3> HIDE DEF k, c
    <3>3. QED
      BY <1>3, <1>4, <1>5, <3>2
  <2>3. QED
    BY <2>1, <2>2
<1>8. \/ /\ job \in JobType /\ job.next = k + 1
         /\ job.got = NoCell /\ job.old = jobs[i].old
      \/ c.k = "tail"
  <2> SUFFICES ASSUME c.k # "tail"
               PROVE  job \in JobType /\ job.next = k + 1 /\ job.got = NoCell /\ job.old = jobs[i].old
    OBVIOUS
  <2>1. k + 1 \in 0 .. MaxLen
    BY <1>4, <1>5, <1>7, Sizes1
  <2> HIDE DEF k
  <2>2. QED
    BY <1>5, <2>1, Cells1 DEF JobType
<1> HIDE DEF c, job
<1>9. BuildInfo(c, p, o) = info /\ BuildReloc(c, p, o) = reloc
  BY <1>7 DEF BuildInfo, BuildReloc
<1>10. Writable(c, p, o)
  BY <1>1, <1>4, <1>6, <1>7, <1>9 DEF Writable
<1> HIDE DEF p, o
<1>11. PICK x : /\ x = NoJob \/ (x = job /\ c.k # "tail")
                /\ \/ TableInv' /\ boot' = "headers"
                   \/ /\ info' = info /\ reloc' = reloc
                      /\ info' \in TableType /\ reloc' \in RelocType
                      /\ nvs' \in Stores /\ cache' \in Caches /\ last' \in CallType
                      /\ acked' \in [Ids -> AckType]
                      /\ jobs' = [jobs EXCEPT ![i] = x]
                      /\ UNCHANGED <<boot, scan, env>>
  <2>1. job.g \in Gens \cup {0}
    BY <1>5 DEF JobType, job
  <2>2. CoreWrite(i, c, p, o, job)
    BY <1>3
  <2>3. \/ TableInv' /\ boot' = "headers"
        \/ /\ info' = BuildInfo(c, p, o) /\ reloc' = BuildReloc(c, p, o)
           /\ info' \in TableType /\ reloc' \in RelocType
           /\ nvs' \in Stores /\ cache' \in Caches /\ last' \in CallType
           /\ acked' \in [Ids -> AckType]
           /\ jobs' = [jobs EXCEPT ![i] = NoJob]
                \/ (jobs' = [jobs EXCEPT ![i] = job] /\ c.k # "tail")
           /\ UNCHANGED <<boot, scan, env>>
    BY <1>1, <1>10, <2>1, <2>2, CoreWriteTyped
  <2>4. QED
    BY <1>9, <2>3
<1>12. CASE ~ (TableInv' /\ boot' = "headers")
  <2>1. /\ info' = info /\ reloc' = reloc /\ free' = free
        /\ nvs' \in Stores /\ cache' \in Caches /\ last' \in CallType
        /\ acked' \in [Ids -> AckType]
        /\ jobs' = [jobs EXCEPT ![i] = x]
        /\ UNCHANGED <<boot, scan, env>>
    BY <1>3, <1>11, <1>12
  <2>2. x \in JobType
    BY <1>8, <1>11, Cells1
  <2>3. jobs' \in [Ids -> JobType] /\ jobs'[i] = x /\ \A j \in Ids : j # i => jobs'[j] = jobs[j]
    BY <1>2, <2>1, <2>2
  <2>4. Typed'
    BY <1>1, <2>1, <2>3 DEF Typed
  <2>5. Rebuilding'
    BY <1>3, <2>1 DEF Rebuilding
  <2>6. JobFits(i)'
    <3>1. CASE x = NoJob
      BY <2>3, <3>1 DEF JobFits, NoJob, NoCell
    <3>2. CASE x = job /\ c.k # "tail"
      <4>1. x.next = k + 1 /\ x.got = NoCell /\ x.old = jobs[i].old /\ k + 1 < info[i].len
        BY <1>7, <1>8, <3>2
      <4>2. JobFits(i)
        BY <1>1
      <4>3. NoCell.k # "hdr"
        BY DEF NoCell
      <4>4. QED
        BY <1>3, <2>1, <2>3, <4>1, <4>2, <4>3 DEF JobFits
    <3>3. QED
      BY <1>11, <3>1, <3>2
  <2>7. ASSUME NEW j \in Ids, j # i PROVE JobFits(j)'
    BY <1>1, <2>1, <2>3, <2>7 DEF JobFits
  <2>8. OneJob'
    <3>1. Active' \subseteq Active
      <4> SUFFICES ASSUME NEW j \in Active' PROVE j \in Active
        OBVIOUS
      <4>1. j \in Ids /\ jobs'[j].next > 0
        BY DEF Active
      <4>2. QED
        BY <1>3, <2>3, <4>1 DEF Active
    <3>2. QED
      BY <1>1, <2>1, <3>1 DEF OneJob
  <2>9. QED
    BY <1>1, <2>1, <2>4, <2>5, <2>6, <2>7, <2>8 DEF TableInv
<1>13. QED
  BY <1>12

LEMMA ReadTable ==
    ASSUME TableInv, NEW p \in Pages, NEW o \in ReadPoints(p), Read(p, o)
    PROVE  TableInv'
<1>1. Typed /\ Within(info, free) /\ info \in TableType /\ free \in FreeType
  BY DEF TableInv, Typed
<1>2. o \in Nat
  BY <1>1, Entry, Sizes1 DEF ReadPoints
<1>3. CASE \E n \in ReadStops(p, o) : PowerFails(n, acked, CutShort("read"))
  BY <1>1, <1>2, <1>3, ReadTyped, PowerTable, CallTypes DEF Typed
<1>4. CASE ~ \E n \in ReadStops(p, o) : PowerFails(n, acked, CutShort("read"))
  <2>1. /\ boot = "up" /\ ReadEffect(p, o) /\ last' = [NoCall EXCEPT !.op = "read"]
        /\ UNCHANGED <<boot, scan, info, jobs, free, acked, env>>
    BY <1>4 DEF Read
  <2>2. /\ nvs' \in Stores /\ cache' \in Caches /\ reloc' \in RelocType
        /\ reloc'.ds # NotFound => reloc.ds # NotFound
        /\ reloc'.old = reloc.old
    BY <1>1, <1>2, <2>1, ReadTyped
  <2>3. last' \in CallType
    BY <2>1, CallTypes
  <2>4. free' \in FreeType /\ Within(info, free')
    BY <1>1, <2>1
  <2>5. QED
    BY <2>1, <2>2, <2>3, <2>4, QuietTable
<1>5. QED
  BY <1>3, <1>4

LEMMA MoveTable ==
    ASSUME TableInv, NEW d \in Types, NEW p \in Pages, Move(d, p)
    PROVE  TableInv'
<1> DEFINE q == info[d].page
           o == info[d].pos
           f == free[p] + info[d].len
<1>1. Typed /\ Within(info, free) /\ info \in TableType /\ free \in FreeType /\ d \in Ids
  BY Naturals1 DEF TableInv, Typed
<1>2. /\ boot = "up" /\ f <= PageSize /\ ReadEffect(q, o) /\ free' = [free EXCEPT ![p] = f]
      /\ last' = [NoCall EXCEPT !.op = "move"]
      /\ UNCHANGED <<boot, scan, info, jobs, acked, env>>
  BY DEF Move
<1>3. q \in Pages /\ o \in Nat /\ info[d].len \in Nat
  BY <1>1, Entry
<1>4. free[p] \in Nat /\ f \in Nat /\ free[p] <= f
  <2>1. free[p] \in Nat
    BY <1>1, Sizes1 DEF FreeType
  <2>2. QED
    BY <1>3, <2>1
<1> HIDE DEF q, o, f
<1>5. /\ nvs' \in Stores /\ cache' \in Caches /\ reloc' \in RelocType
      /\ reloc'.ds # NotFound => reloc.ds # NotFound
      /\ reloc'.old = reloc.old
  BY <1>1, <1>2, <1>3, ReadTyped
<1>6. free' \in FreeType /\ free'[p] = f /\ \A r \in Pages : r # p => free'[r] = free[r]
  <2>1. f \in 0 .. (PageSize + MaxLen)
    BY <1>2, <1>4, Sizes1
  <2>2. QED
    BY <1>1, <1>2, <2>1 DEF FreeType
<1>7. Within(info, free')
  <2>1. ASSUME NEW j \in Ids, info[j].len > 0
        PROVE  info[j].pos + info[j].len <= free'[info[j].page]
    <3>1. info[j].page \in Pages /\ info[j].pos \in Nat /\ info[j].len \in Nat
      BY <1>1, Entry
    <3>2. info[j].pos + info[j].len <= free[info[j].page]
      BY <1>1, <2>1 DEF Within
    <3>3. CASE info[j].page = p
      BY <1>4, <1>6, <3>1, <3>2, <3>3
    <3>4. CASE info[j].page # p
      BY <1>6, <3>1, <3>2, <3>4
    <3>5. QED
      BY <3>3, <3>4
  <2>2. QED
    BY <1>1, <2>1 DEF Within
<1>8. last' \in CallType
  BY <1>2, CallTypes
<1>9. QED
  BY <1>2, <1>5, <1>6, <1>7, <1>8, QuietTable

LEMMA EraseTable ==
    ASSUME TableInv, NEW p \in Pages, Erase(p)
    PROVE  TableInv'
<1> DEFINE found(k) == [i \in Ids |-> IF i \in Gone(p) THEN Resolved(i, ErasedUpTo(p, k), {acked[i], NoAck})
                              ELSE acked[i]]
           call == [CutShort("erase") EXCEPT !.page = p]
<1>1. Typed /\ Disjoint(info) /\ Within(info, free) /\ (\A j \in Ids : JobFits(j)) /\ OneJob
      /\ info \in TableType /\ free \in FreeType /\ jobs \in [Ids -> JobType] /\ nvs \in Stores
      /\ cache \in Caches /\ acked \in [Ids -> AckType]
  BY DEF TableInv, Typed
<1>2. ASSUME NEW k \in Int PROVE ErasedUpTo(p, k) \in Stores
  <2>1. nvs \in [Ids -> ItemType] /\ \A i \in Ids : nvs[i].cell \in Rows
    BY <1>1 DEF Stores
  <2>2. ErasedUpTo(p, k) \in [Ids -> ItemType] /\ \A i \in Ids : ErasedUpTo(p, k)[i].cell \in Rows
    BY <2>1, Cells1 DEF ErasedUpTo
  <2>3. QED
    BY <2>2 DEF Stores
<1>3. CASE \E k \in 0 .. (DatasetNumber + PageCount) :
              PowerFails(ErasedUpTo(p, k), found(k), call)
  <2>1. PICK k \in 0 .. (DatasetNumber + PageCount) : PowerFails(ErasedUpTo(p, k), found(k), call)
    BY <1>3
  <2>2. found(k) \in [Ids -> AckType]
    <3>1. \A i \in Ids : Resolved(i, ErasedUpTo(p, k), {acked[i], NoAck}) \in AckType
      BY <1>1, <1>2, <2>1, StoredAck DEF Resolved, Stores
    <3>2. QED
      BY <1>1, <3>1
  <2>3. call \in CallType
    BY CallTypes
  <2> HIDE DEF found, call
  <2>4. QED
    BY <1>1, <1>2, <2>1, <2>2, <2>3, PowerTable
<1>4. CASE ~ \E k \in 0 .. (DatasetNumber + PageCount) :
              PowerFails(ErasedUpTo(p, k), found(k), call)
  <2>1. /\ boot = "up"
        /\ nvs' = ErasedUpTo(p, DatasetNumber + PageCount)
        /\ info' = [i \in Ids |-> IF i \in Gone(p) THEN NoInfo ELSE info[i]]
        /\ cache' = [cache EXCEPT !.id = 0, !.buf = [s \in Slots |-> Junk]]
        /\ jobs' = [i \in Ids |-> IF i \in Gone(p) THEN NoJob ELSE jobs[i]]
        /\ free' = [free EXCEPT ![p] = 0]
        /\ acked' = [i \in Ids |-> IF i \in Gone(p) THEN NoAck ELSE acked[i]]
        /\ last' = [NoCall EXCEPT !.op = "erase", !.page = p]
        /\ UNCHANGED <<boot, scan, reloc, env>>
    BY <1>4 DEF Erase
  <2>2. nvs' \in Stores
    BY <1>2, <2>1, Naturals1
  <2>3. /\ info' \in TableType /\ jobs' \in [Ids -> JobType] /\ acked' \in [Ids -> AckType]
        /\ last' \in CallType
    BY <1>1, <2>1, Cells1, CallTypes DEF TableType
  <2>4. cache' \in Caches
    <3> DEFINE b == [s \in Slots |-> Junk]
    <3>1. b \in Rows /\ 0 \in Ids
      BY Cells1, Naturals1
    <3>2. cache' = [[cache EXCEPT !.id = 0] EXCEPT !.buf = b]
      BY <2>1
    <3> HIDE DEF b
    <3>3. QED
      BY <1>1, <3>1, <3>2 DEF Caches, Rows
  <2>5. free' \in FreeType /\ \A q \in Pages : q # p => free'[q] = free[q]
    <3>1. 0 \in 0 .. (PageSize + MaxLen)
      BY Sizes1
    <3>2. QED
      BY <1>1, <2>1, <3>1 DEF FreeType
  <2>6. Typed'
    BY <1>1, <2>1, <2>2, <2>3, <2>4, <2>5 DEF Typed
  <2>7. Rebuilding'
    BY <2>1 DEF Rebuilding
  <2>8. \A j \in Ids : (info'[j] = info[j] /\ j \notin Gone(p)) \/ (info'[j] = NoInfo /\ j \in Gone(p))
    BY <2>1
  <2>9. NoInfo.len = 0 /\ NoInfo.pos = 0
    BY DEF NoInfo
  <2>10. Disjoint(info')
    BY <1>1, <2>8, <2>9 DEF Disjoint, Apart
  <2>11. Within(info', free')
    <3>1. ASSUME NEW j \in Ids, info'[j].len > 0
          PROVE  info'[j].pos + info'[j].len <= free'[info'[j].page]
      <4>1. info'[j] = info[j] /\ j \notin Gone(p)
        BY <2>8, <2>9, <3>1
      <4>2. info[j].page # p
        <5>1. CASE j < DatasetNumber
          BY <4>1, <5>1, Naturals1 DEF Gone, OnPage
        <5>2. CASE j >= DatasetNumber
          <6>1. j - DatasetNumber \in Pages /\ PageHdr(j - DatasetNumber) = j
            BY <5>2, HeaderId
          <6>2. info[j].page = j - DatasetNumber
            BY <1>1, <3>1, <4>1, <6>1 DEF Within
          <6>3. QED
            BY <4>1, <6>1, <6>2 DEF Gone
        <5>3. QED
          BY <5>1, <5>2, Naturals1
      <4>3. info[j].page \in Pages
        BY <1>1, Entry
      <4>4. QED
        BY <1>1, <2>5, <3>1, <4>1, <4>2, <4>3 DEF Within
    <3>2. ASSUME NEW q \in Pages
          PROVE  info'[PageHdr(q)].pos = 0
                   /\ (info'[PageHdr(q)].len > 0 => info'[PageHdr(q)].page = q)
      <4>1. PageHdr(q) \in Ids
        BY Naturals1
      <4>2. QED
        BY <1>1, <2>8, <2>9, <4>1 DEF Within
    <3>3. QED
      BY <3>1, <3>2 DEF Within
  <2>12. ASSUME NEW j \in Ids PROVE JobFits(j)'
    <3>1. CASE j \in Gone(p)
      BY <2>1, <3>1 DEF JobFits, NoJob, NoCell
    <3>2. CASE j \notin Gone(p)
      <4>1. jobs'[j] = jobs[j] /\ info'[j] = info[j] /\ JobFits(j)
        BY <1>1, <2>1, <3>2
      <4>2. ASSUME \A m \in Ids : Apart(jobs[j].old, info[m])
            PROVE  \A m \in Ids : Apart(jobs[j].old, info'[m])
        BY <2>8, <2>9, <4>2 DEF Apart
      <4>3. QED
        BY <2>1, <4>1, <4>2 DEF JobFits
    <3>3. QED
      BY <3>1, <3>2
  <2>13. OneJob'
    <3>1. Active' \subseteq Active
      BY <2>1 DEF Active, NoJob
    <3>2. QED
      BY <1>1, <2>1, <3>1 DEF OneJob
  <2>14. QED
    BY <2>6, <2>7, <2>10, <2>11, <2>12, <2>13 DEF TableInv
<1>5. QED
  BY <1>3, <1>4

-----------------------------------------------------------------------------
LEMMA TableInvInit ==
    ASSUME Init
    PROVE  TableInv
<1>1. /\ boot = "headers" /\ scan = ScanStart /\ info = [i \in Ids |-> NoInfo]
      /\ nvs = [i \in Ids |-> NoItem] /\ cache = BlankCache /\ reloc = NoReloc
      /\ jobs = [i \in Ids |-> NoJob] /\ free = [p \in Pages |-> 0]
      /\ acked = [i \in Ids |-> NoAck] /\ last = NoCall /\ env \in Worlds
  BY DEF Init
<1>2. info \in TableType /\ Disjoint(info) /\ Within(info, free)
  BY <1>1, BlankTable
<1>3. nvs \in Stores
  BY <1>1, Cells1 DEF Stores
<1>4. scan \in ScanType /\ free \in FreeType
  BY <1>1, Naturals1 DEF ScanStart, ScanType, FreeType
<1>5. cache \in Caches
  <2> DEFINE b == [s \in Slots |-> Junk]
  <2>1. b \in Rows
    BY Cells1
  <2>2. cache = [id |-> 0, buf |-> b, flush |-> FALSE]
    BY <1>1 DEF BlankCache
  <2> HIDE DEF b
  <2>3. QED
    BY <2>1, <2>2, Naturals1 DEF Caches, Rows
<1>6. reloc \in RelocType
  BY <1>1, Cells1, Naturals1 DEF NoReloc, RelocType
<1>7. Typed
  BY <1>1, <1>2, <1>3, <1>4, <1>5, <1>6, Cells1, CallTypes DEF Typed
<1>8. Rebuilding
  BY <1>1, Naturals1 DEF Rebuilding, ScanStart, NoInfo, NoJob
<1>9. (\A i \in Ids : JobFits(i)) /\ OneJob
  BY <1>1, Naturals1 DEF JobFits, NoJob, NoCell, OneJob, Active
<1>10. QED
  BY <1>2, <1>7, <1>8, <1>9 DEF TableInv

LEMMA TableInvStep ==
    ASSUME Tame, TableInv, Next
    PROVE  TableInv'
<1>1. Typed /\ nvs \in Stores /\ "deinit" \notin env
  BY TameNow DEF TableInv, Typed
<1>2. CASE Crash
  BY <1>1, <1>2, PowerTable, CallTypes DEF Crash, Typed
<1>3. ~ Deinit
  BY <1>1 DEF Deinit
<1>4. QED
  BY <1>2, <1>3, HeaderTable, HeadersDoneTable, DatasetTable, DoneTable, FormatTable,
     BeginWriteTable, BeginCopyTable, MoveTable, CopyReadTable, WriteNextTable, ReadTable,
     EraseTable DEF Next

LEMMA TableInvHolds == Tame => (Spec => []TableInv)
<1> SUFFICES ASSUME Tame PROVE Spec => []TableInv
  OBVIOUS
<1>1. Init => TableInv
  BY TableInvInit
<1>2. TableInv /\ [Next]_vars => TableInv'
  <2>1. CASE Next
    BY <2>1, TableInvStep
  <2>2. CASE UNCHANGED vars
    BY <2>2 DEF vars, TableInv, Typed, Rebuilding, JobFits, OneJob, Active
  <2>3. QED
    BY <2>1, <2>2
<1>3. QED
  BY <1>1, <1>2, PTL DEF Spec

(* Whatever the core relocates, moves, erases or leaves half written, and  *)
(* wherever power fails, also while the table is rebuilt: no position      *)
(* belongs to two datasets, and find_dataset never has to choose.          *)
THEOREM PlacesAreUnshared == Tame => (Spec => []LookupUnambiguous)
<1> SUFFICES ASSUME Tame PROVE Spec => []LookupUnambiguous
  OBVIOUS
<1>1. TableInv => LookupUnambiguous
  <2> SUFFICES ASSUME TableInv, NEW i \in Ids, NEW j \in Ids, NEW p \in Pages,
                      NEW o \in 0 .. PageSize, Covers(info[i], p, o), Covers(info[j], p, o),
                      i # j
               PROVE  FALSE
    BY DEF LookupUnambiguous
  <2>1. info[i] \in InfoType /\ info[j] \in InfoType /\ Apart(info[i], info[j])
    BY DEF TableInv, Typed, TableType, Disjoint
  <2>2. QED
    BY <2>1, Sizes1, CoverOnce
<1>2. QED
  BY <1>1, TableInvHolds, PTL

(* Every position the table holds lies in a page, every offset computed    *)
(* from it in the buffer, whatever lengths are found in the flash.         *)
THEOREM TypesAreKept == Tame => (Spec => []TypeOK)
<1> SUFFICES ASSUME Tame PROVE Spec => []TypeOK
  OBVIOUS
<1>1. TableInv => TypeOK
  BY DEF TableInv, Typed, TypeOK, TableType, Stores, Caches, RelocType, ScanType, FreeType,
         AckType, CallType, VersionType
<1>2. QED
  BY <1>1, TableInvHolds, PTL

=============================================================================

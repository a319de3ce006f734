------------------------------- MODULE Nvram -------------------------------
(***************************************************************************)
(* The Zephyr NVRAM backend, platform/osif/zb_osif_nvram.c: the page and   *)
(* position addressed storage the ZBOSS core expects, emulated on top of   *)
(* Zephyr NVS, which stores one item per identifier.                       *)
(*                                                                         *)
(* A dataset is written by the core as a header, its body and a tail.  The *)
(* backend learns where a dataset lies from the header                     *)
(* (build_dataset_info), collects the pieces in one RAM buffer and writes  *)
(* the whole record to NVS when it sees the tail.  After a power failure   *)
(* the table of positions is rebuilt from what NVS holds.                  *)
(*                                                                         *)
(* Lengths and positions are counted in pieces: a header, one piece of the *)
(* body and a tail have length 1, and one call of read or write moves one  *)
(* piece.  The buffer is large enough for every dataset (line 120), so its *)
(* reallocation is left out, and so is the version of a dataset, which no  *)
(* decision reads.  NVS and the ZBOSS core are not in the repository: NVS  *)
(* is modelled from its use, the core by the calls the backend's own       *)
(* comments anticipate.                                                    *)
(***************************************************************************)
EXTENDS Integers, FiniteSets

CONSTANTS
    DatasetNumber,  \* ZB_NVRAM_DATASET_NUMBER: types 1 .. DatasetNumber - 1, 0 is reserved
    PageCount,      \* ZB_NVRAM_PAGE_COUNT
    PageSize,       \* ZB_NVRAM_PAGE_SIZE, in pieces
    HdrLen,         \* length of the record that heads a page
    Lens,           \* lengths a dataset may have
    MaxLen,         \* the largest length
    Gens,           \* time labels: they tell one version of a dataset from another
    Worlds          \* the environments to look at: what each may do beyond orderly
                    \* writes, see Habits

Habits == {"copy",        \* a dataset is relocated by reading its old place piece by piece
           "blind",       \* a write may begin without an ordinary read since the last one
           "interleave",  \* another dataset may be touched between a header and its tail
           "midway",      \* a page may be erased between a header and its tail
           "move",        \* zb_osif_nvram_move is used
           "gap",         \* power may fail while page 0 has no header and datasets are stored
           "flashfail",   \* nvs_write may fail
           "deinit"}      \* zb_osif_nvram_deinit is called and the backend started again

ASSUME NvramAssumption ==
    /\ DatasetNumber \in Nat \ {0}
    /\ PageCount \in Nat \ {0}
    /\ PageSize \in Nat
    /\ MaxLen \in Nat \ {0}
    /\ Lens \subseteq 2 .. MaxLen
    /\ HdrLen \in 2 .. MaxLen
    /\ MaxLen <= PageSize                     \* no dataset is larger than a page
    /\ Worlds \subseteq SUBSET Habits

VARIABLES
    boot,    \* progress of zb_osif_nvram_init, "up" once nvram_inited is set
    scan,    \* the loop variables of zb_osif_nvram_init: nvsId, curPage, curPos
    info,    \* datasetInfo
    nvs,     \* what the flash holds, one item per identifier
    cache,   \* localNvsId, localNvsBuf, localNvsFlush
    reloc,   \* relocateDataset, relocateOldInfo, relocateOffset, relocateLen
    jobs,    \* the core: the record it is writing for each identifier
    free,    \* the core: the end of the used part of each page
    acked,   \* the version of each record the core counts on finding after a restart
    last,    \* the last call of the core and what it returned
    env      \* the environment of this behaviour

vars == <<boot, scan, info, nvs, cache, reloc, jobs, free, acked, last, env>>

Ids == 0 .. (DatasetNumber + PageCount - 1)
Types == 1 .. (DatasetNumber - 1)
Pages == 0 .. (PageCount - 1)
PageHdr(p) == DatasetNumber + p
Slots == 0 .. (MaxLen - 1)
NotFound == -1

Cells == [k : {"hdr", "body", "tail", "blank", "junk", "none"}, d : Ids, len : 0 .. MaxLen,
          g : Gens \cup {0}]
Blank == [k |-> "blank", d |-> 0, len |-> 0, g |-> 0]   \* bytes 0xFF
Junk  == [k |-> "junk", d |-> 0, len |-> 0, g |-> 0]    \* zeroed or never written memory

NoCell == [k |-> "none", d |-> 0, len |-> 0, g |-> 0]   \* the core holds no piece

NoItem == [len |-> 0, cell |-> [s \in Slots |-> Blank]]
NoInfo == [page |-> 0, pos |-> 0, len |-> 0]
NoJob  == [next |-> 0, g |-> 0, old |-> NoInfo, got |-> NoCell]
NoAck  == [len |-> 0, g |-> 0]
NoCall == [op |-> "none", ret |-> "ok", id |-> 0, ver |-> NoAck, page |-> NotFound]

(* Piece s of a record of dataset d, of length l and label g.              *)
Piece(d, l, g, s) ==
    [k |-> IF s = 0 THEN "hdr" ELSE IF s = l - 1 THEN "tail" ELSE "body",
     d |-> d, len |-> l, g |-> g]

(* The whole record, as NVS holds it.                                      *)
Record(d, l, g) ==
    [len |-> l, cell |-> [s \in Slots |-> IF s < l THEN Piece(d, l, g, s) ELSE Blank]]

-----------------------------------------------------------------------------
(* The table of datasets.                                                  *)

Covers(e, p, o) == e.page = p /\ o >= e.pos /\ o < e.pos + e.len

(* find_dataset: the first entry that covers a position.                   *)
Find(tbl, p, o) ==
    LET hits == {i \in Ids : Covers(tbl[i], p, o)}
    IN  IF hits = {} THEN NotFound ELSE CHOOSE i \in hits : \A j \in hits : i <= j

(* build_dataset_info: a header being written at (p, o) registers its      *)
(* dataset or moves it.  What was known of it is kept in relocateOldInfo   *)
(* when some relocation is on record, this one or an earlier one.          *)
Moved(e, p, o, l) == e.pos # 0 /\ (e.page # p \/ e.pos # o \/ e.len # l)

BuildReloc(c, p, o) ==
    LET e  == info[c.d]
        ds == IF Moved(e, p, o, c.len) THEN c.d ELSE reloc.ds
    IN  IF c.k # "hdr" THEN reloc
        ELSE [reloc EXCEPT !.ds = ds,
                           !.old = IF ds # NotFound /\ (e.pos = 0 \/ Moved(e, p, o, c.len))
                                   THEN e ELSE @]

BuildInfo(c, p, o) ==
    IF c.k # "hdr" THEN info
    ELSE [info EXCEPT ![c.d] = [page |-> p, pos |-> o, len |-> c.len]]

OldLen(c, o) ==
    IF c.k = "hdr" /\ info[c.d].pos # 0 /\ info[c.d].len # c.len THEN info[c.d].len ELSE 0

-----------------------------------------------------------------------------
(* The buffer and the flash.                                               *)

BufferedMut(c, l) == [len |-> MaxLen, cell |-> c.buf]
Buffered(c, l) ==
    [len |-> l, cell |-> [s \in Slots |-> IF s < l THEN c.buf[s] ELSE Blank]]

(* do_localNvs_write: the buffered record replaces the stored one.  Length *)
(* 0 deletes it.  nvs_write of what is already stored writes nothing and   *)
(* returns 0, and the item is then deleted and written again.              *)
Flushed(n, c, tbl) ==
    IF c.flush THEN [n EXCEPT ![c.id] = Buffered(c, tbl[c.id].len)] ELSE n

(* What is left when its first or its second nvs_write fails.              *)
FlushFails(n, c, tbl) ==
    {n} \cup (IF c.flush /\ n[c.id] = Buffered(c, tbl[c.id].len)
              THEN {[n EXCEPT ![c.id] = NoItem]} ELSE {})

(* What a power failure during do_localNvs_write can leave.                *)
FlushStops(n, c, tbl) == FlushFails(n, c, tbl) \cup {Flushed(n, c, tbl)}

(* What do_localNvs_write leaves when nobody looks at its result.          *)
AfterFlush(n, c, tbl) ==
    IF "flashfail" \in env THEN FlushStops(n, c, tbl) ELSE {Flushed(n, c, tbl)}

(* do_localNvs_read: when another dataset is wanted the buffer is written  *)
(* out if need be, and filled from the stored record; if that is missing   *)
(* or too short the buffer reads as erased.  n is the flash after the      *)
(* write.                                                                  *)
ReadLen(tbl, d, oldLen) == IF oldLen # 0 THEN oldLen ELSE tbl[d].len

LoadedMut(n, c, tbl, d, oldLen) == [c EXCEPT !.id = d]
Loaded(n, c, tbl, d, oldLen) ==
    LET rl == ReadLen(tbl, d, oldLen)
    IN  IF c.id = d THEN c
        ELSE [id |-> d, flush |-> FALSE,
              buf |-> IF n[d].len >= rl
                      THEN [s \in Slots |-> IF s < rl THEN n[d].cell[s] ELSE c.buf[s]]
                      ELSE [s \in Slots |-> IF s < tbl[d].len THEN Blank ELSE c.buf[s]]]

(* ... and a record whose length is about to change is deleted.            *)
TrimmedMut(n, c, tbl, d, oldLen) == IF c.id # d THEN [n EXCEPT ![d] = NoItem] ELSE n
Trimmed(n, c, tbl, d, oldLen) ==
    IF c.id # d /\ ReadLen(tbl, d, oldLen) # tbl[d].len
    THEN [n EXCEPT ![d] = NoItem] ELSE n

Outcomes == IF "flashfail" \in env THEN BOOLEAN ELSE {TRUE}

-----------------------------------------------------------------------------
(* zb_osif_nvram_read of one piece.                                        *)

IsOldPlace(p, o) ==
    /\ reloc.ds # NotFound
    /\ p = reloc.old.page
    /\ o >= reloc.old.pos
    /\ o + 1 < reloc.old.pos + reloc.old.len

(* The dataset the read is answered from, and the piece of it.             *)
ReadId(p, o) ==
    LET d == Find(info, p, o)
    IN  IF d # NotFound THEN d ELSE IF IsOldPlace(p, o) THEN reloc.ds ELSE NotFound

ReadOff(p, o) ==
    IF Find(info, p, o) # NotFound THEN o - info[Find(info, p, o)].pos ELSE o - reloc.old.pos

Invalid(o) == o + 1 > PageSize

(* What the caller receives; an offset outside the buffer reads memory     *)
(* that is not the dataset's.                                              *)
ReadValue(p, o) ==
    LET d == ReadId(p, o)
        b == Loaded(Flushed(nvs, cache, info), cache, info, d, 0).buf
    IN  IF Invalid(o) THEN Junk
        ELSE IF d = NotFound THEN Blank
        ELSE IF ReadOff(p, o) \in Slots THEN b[ReadOff(p, o)] ELSE Junk

(* The state a read leaves behind.                                         *)
ReadRelocMut(p, o) ==
    IF IsOldPlace(p, o) THEN [reloc EXCEPT !.off = reloc.old.pos - o, !.len = 1] ELSE reloc
ReadReloc(p, o) ==
    IF Find(info, p, o) # NotFound
    THEN [reloc EXCEPT !.ds = NotFound, !.off = 0, !.len = 0]
    ELSE IF IsOldPlace(p, o)
    THEN [reloc EXCEPT !.off = o - reloc.old.pos, !.len = 1]
    ELSE reloc

ReadEffect(p, o) ==
    LET d == ReadId(p, o)
    IN  /\ reloc' = ReadReloc(p, o)
        /\ \/ /\ d = NotFound \/ cache.id = d
              /\ UNCHANGED <<nvs, cache>>
           \/ /\ d # NotFound /\ cache.id # d
              /\ nvs' \in AfterFlush(nvs, cache, info)
              /\ cache' = Loaded(nvs', cache, info, d, 0)

ReadStops(p, o) ==
    IF ReadId(p, o) \in {NotFound, cache.id} THEN {nvs} ELSE FlushStops(nvs, cache, info)

-----------------------------------------------------------------------------
(* zb_osif_nvram_write of one piece c.  The dataset is the one the table   *)
(* names once a header has updated it.                                     *)

Target(c, p, o) == Find(BuildInfo(c, p, o), p, o)
Offset(c, p, o) == o - BuildInfo(c, p, o)[Target(c, p, o)].pos

(* The flash once the buffer was written out to make room for the dataset, *)
(* and the flash and the buffer once the dataset is in it.                 *)
Displaced(c, p, o) ==
    IF cache.id = Target(c, p, o) THEN {nvs} ELSE AfterFlush(nvs, cache, BuildInfo(c, p, o))

LoadedNvs(c, p, o, n) ==
    Trimmed(n, cache, BuildInfo(c, p, o), Target(c, p, o), OldLen(c, p))

LoadedCache(c, p, o, n) ==
    Loaded(n, cache, BuildInfo(c, p, o), Target(c, p, o), OldLen(c, p))

(* A piece of the dataset being relocated that was last read from its old  *)
(* place is already in the buffer; different data are refused.             *)
IsRelocated(c, p, o) ==
    /\ BuildReloc(c, p, o).ds = Target(c, p, o)
    /\ reloc.off = Offset(c, p, o)
    /\ reloc.len = 1

Refused(c, p, o, n) ==
    IsRelocated(c, p, o) /\ LoadedCache(c, p, o, n).buf[Offset(c, p, o)] # c

Patched(c, p, o, n) ==
    LET b == LoadedCache(c, p, o, n)
    IN  IF IsRelocated(c, p, o) THEN b
        ELSE [b EXCEPT !.buf[Offset(c, p, o)] = c, !.flush = TRUE]

(* The tail triggers the write to the flash.                               *)
IsTailMut(c, p, o) == Offset(c, p, o) = BuildInfo(c, p, o)[Target(c, p, o)].len - 2
IsTail(c, p, o) == Offset(c, p, o) = BuildInfo(c, p, o)[Target(c, p, o)].len - 1

TailRetMut(b, done) == "ok"
TailRet(b, done) == IF done /\ b.flush THEN "ok" ELSE "failed"

WriteUnknown(c, p, o) ==
    /\ Target(c, p, o) = NotFound
    /\ UNCHANGED <<nvs, cache>>
    /\ last' = [NoCall EXCEPT !.op = "write", !.ret = "illegal"]

WriteRefused(c, p, o, n) ==
    /\ Target(c, p, o) # NotFound
    /\ Refused(c, p, o, n)
    /\ nvs' = LoadedNvs(c, p, o, n)
    /\ cache' = LoadedCache(c, p, o, n)
    /\ last' = [NoCall EXCEPT !.op = "write", !.ret = "illegal"]

WriteBuffered(c, p, o, n) ==
    /\ Target(c, p, o) # NotFound
    /\ ~ Refused(c, p, o, n) /\ ~ IsTail(c, p, o)
    /\ nvs' = LoadedNvs(c, p, o, n)
    /\ cache' = Patched(c, p, o, n)
    /\ last' = [NoCall EXCEPT !.op = "write"]

WriteTail(c, p, o, n) ==
    LET b   == Patched(c, p, o, n)
        m   == LoadedNvs(c, p, o, n)
        tbl == BuildInfo(c, p, o)
    IN  /\ Target(c, p, o) # NotFound
        /\ ~ Refused(c, p, o, n) /\ IsTail(c, p, o)
        /\ cache' = [b EXCEPT !.flush = FALSE]
        /\ \E done \in Outcomes :
              /\ nvs' \in IF done THEN {Flushed(m, b, tbl)} ELSE FlushFails(m, b, tbl)
              /\ last' = [NoCall EXCEPT !.op = "write", !.ret = TailRet(b, done)]

WriteEffect(c, p, o) ==
    /\ info' = BuildInfo(c, p, o)
    /\ reloc' = BuildReloc(c, p, o)
    /\ \E n \in Displaced(c, p, o) :
          WriteUnknown(c, p, o) \/ WriteRefused(c, p, o, n)
            \/ WriteBuffered(c, p, o, n) \/ WriteTail(c, p, o, n)

(* What a power failure during the call can leave.                         *)
WriteStops(c, p, o) ==
    LET tbl == BuildInfo(c, p, o)
        d   == Target(c, p, o)
        n   == IF cache.id = d THEN nvs ELSE Flushed(nvs, cache, tbl)
        m   == LoadedNvs(c, p, o, n)
    IN  {nvs} \cup
        (IF d = NotFound THEN {}
         ELSE (IF cache.id # d THEN FlushStops(nvs, cache, tbl) ELSE {}) \cup {m}
              \cup (IF IsTail(c, p, o) /\ ~ Refused(c, p, o, n)
                    THEN FlushStops(m, Patched(c, p, o, n), tbl) ELSE {}))

-----------------------------------------------------------------------------
(* Power failure and start.                                                *)

BlankCache == [id |-> 0, buf |-> [s \in Slots |-> Junk], flush |-> FALSE]
NoReloc == [ds |-> NotFound, old |-> NoInfo, off |-> 0, len |-> 0]
ScanStart == [id |-> DatasetNumber, page |-> 0, pos |-> 0]

Stored(item) == IF item.len = 0 THEN NoAck ELSE [len |-> item.len, g |-> item.cell[0].g]

Active == {i \in Ids : jobs[i].next > 0}

(* The version of i that is being written.                                 *)
Version(i) == [len |-> info[i].len, g |-> jobs[i].g]

(* Once record i may have been replaced by or deleted for another, the     *)
(* core goes on with the version the flash holds if it may find that one,  *)
(* and otherwise misses the one it counts on.                              *)
Resolved(i, n, may) == IF Stored(n[i]) \in may THEN Stored(n[i]) ELSE acked[i]

HeaderSafe(n) == n[PageHdr(0)].len > 0 \/ \A d \in Types : n[d].len = 0

CutShort(op) == [NoCall EXCEPT !.op = "crash", !.ret = op]

(* RAM is lost during call, the flash is n, and the core counts on the     *)
(* versions in found.                                                      *)
PowerFails(n, found, call) ==
    /\ "gap" \in env \/ HeaderSafe(n)
    /\ nvs' = n
    /\ boot' = "headers"
    /\ scan' = ScanStart
    /\ info' = [i \in Ids |-> NoInfo]
    /\ cache' = BlankCache
    /\ reloc' = NoReloc
    /\ jobs' = [i \in Ids |-> NoJob]
    /\ free' = [p \in Pages |-> 0]
    /\ acked' = found
    /\ last' = call
    /\ UNCHANGED env

Crash == PowerFails(nvs, acked, CutShort("idle"))

(* The first loop of zb_osif_nvram_init: the headers of the pages.         *)
BootHeader ==
    LET i == scan.id
        p == i - DatasetNumber
        h == nvs[i].cell[0]
    IN  /\ boot = "headers" /\ i \in Ids
        /\ IF nvs[i].len > 0
           THEN info' = [info EXCEPT ![i] = [page |-> p, pos |-> 0, len |-> h.len]]
           ELSE UNCHANGED info
        /\ free' = [free EXCEPT ![p] = IF nvs[i].len > 0 THEN h.len ELSE 0]
        /\ scan' = [scan EXCEPT !.id = i + 1]
        /\ UNCHANGED <<boot, nvs, cache, reloc, jobs, acked, last, env>>

(* The datasets are placed one after the other behind the header of page   *)
(* 0; without that header none is placed.                                  *)
BootHeadersDone ==
    LET h == info[PageHdr(0)]
    IN  /\ boot = "headers" /\ scan.id \notin Ids
        /\ IF h.pos + h.len # 0
           THEN boot' = "datasets" /\ scan' = [id |-> 0, page |-> 0, pos |-> h.pos + h.len]
           ELSE boot' = "up" /\ scan' = ScanStart
        /\ UNCHANGED <<info, nvs, cache, reloc, jobs, free, acked, last, env>>

BootEndMut(i) == scan.pos + nvs[i].cell[0].len + 1
BootEnd(i) == scan.pos + nvs[i].cell[0].len

BootDataset ==
    LET i   == scan.id
        l   == nvs[i].cell[0].len
        end == BootEnd(i)
        nxt == scan.page + 1
    IN  /\ boot = "datasets" /\ i < DatasetNumber
        /\ IF nvs[i].len = 0
           THEN /\ scan' = [scan EXCEPT !.id = i + 1]
                /\ UNCHANGED <<boot, info, free>>
           ELSE /\ info' = [info EXCEPT ![i] = [page |-> scan.page, pos |-> scan.pos, len |-> l]]
                /\ free' = [free EXCEPT ![scan.page] = end]
                /\ IF ~ Invalid(end)
                   THEN scan' = [scan EXCEPT !.id = i + 1, !.pos = end] /\ UNCHANGED boot
                   ELSE IF nxt \in Pages
                   THEN /\ scan' = [id |-> i + 1, page |-> nxt,
                                    pos |-> info[PageHdr(nxt)].pos + info[PageHdr(nxt)].len]
                        /\ UNCHANGED boot
                   ELSE boot' = "fatal" /\ UNCHANGED scan
        /\ UNCHANGED <<nvs, cache, reloc, jobs, acked, last, env>>

BootDone ==
    /\ boot = "datasets" /\ scan.id = DatasetNumber
    /\ boot' = "up" /\ scan' = ScanStart
    /\ UNCHANGED <<info, nvs, cache, reloc, jobs, free, acked, last, env>>

(* zb_osif_nvram_deinit: the buffer is freed, and the next start allocates *)
(* another; flush does nothing, and the other variables keep their values. *)
Deinit ==
    /\ "deinit" \in env
    /\ boot = "up" /\ Active = {}
    /\ boot' = "headers"
    /\ scan' = ScanStart
    /\ cache' = [cache EXCEPT !.buf = [s \in Slots |-> Junk]]
    /\ UNCHANGED <<info, nvs, reloc, jobs, free, acked, last, env>>

-----------------------------------------------------------------------------
(* The calls of the core.                                                  *)

Orderly(i) == "interleave" \in env \/ Active \subseteq {i}

(* Sums(f)[k] is the length of the first k entries; entry 0 has none.      *)
Sums(f) ==
    LET s[k \in 0 .. DatasetNumber] == IF k = 0 THEN 0 ELSE s[k - 1] + f[k - 1] IN s

LiveLen == Sums([i \in Ids |-> info[i].len])[DatasetNumber]

(* What the core may find of record i, of which piece c is written at      *)
(* (p, o), unless it is version ver: the one it counts on, or none when    *)
(* that is deleted first, because the header announces another length or   *)
(* because ver is the same record, which nvs_write does not write.         *)
Kept(i, c, o, ver) ==
    {acked[i]} \cup (IF OldLen(c, o) # 0 \/ (c.k = "tail" /\ acked[i] = ver) THEN {NoAck} ELSE {})

(* The core writes that piece: the call returns and the core goes on, or   *)
(* gives up when it failed, or power fails during the call.                *)
CoreWrite(i, c, p, o, job) ==
    LET ver == [len |-> BuildInfo(c, p, o)[i].len, g |-> job.g]
        old == Kept(i, c, o, ver)
    IN  \/ /\ WriteEffect(c, p, o)
           /\ jobs' = [jobs EXCEPT ![i] =
                         IF last'.ret # "ok" \/ c.k = "tail" THEN NoJob ELSE job]
           /\ acked' = [acked EXCEPT ![i] =
                          IF last'.ret = "ok" /\ c.k = "tail" THEN ver
                          ELSE Resolved(i, nvs', old)]
           /\ UNCHANGED <<boot, scan, env>>
        \/ \E n \in WriteStops(c, p, o) :
              PowerFails(n, [acked EXCEPT ![i] = Resolved(i, n, old \cup {ver})],
                         [CutShort("write") EXCEPT !.id = i, !.ver = ver])

(* A page is given its header, page 0 first.                               *)
FormatPage(p) ==
    LET i == PageHdr(p)
    IN  /\ boot = "up" /\ jobs[i].next = 0 /\ Orderly(i)
        /\ free[p] = 0 /\ (p = 0 \/ \E q \in Pages : free[q] > 0)
        /\ CoreWrite(i, Piece(i, HdrLen, 0, 0), p, 0, [NoJob EXCEPT !.next = 1])
        /\ free' = IF boot' = "up" THEN [free EXCEPT ![p] = HdrLen] ELSE [q \in Pages |-> 0]

(* A new version of a dataset goes to the end of a page; the core keeps    *)
(* all live datasets small enough for one page.                            *)
MayBegin(d, p, l) ==
    /\ boot = "up" /\ jobs[d].next = 0 /\ Orderly(d)
    /\ "blind" \in env \/ reloc.ds = NotFound
    /\ free[p] > 0 /\ jobs[PageHdr(p)].next = 0
    /\ free[p] + l <= PageSize
    /\ LiveLen - info[d].len + l <= PageSize - HdrLen

BeginWrite(d, p, l, g) ==
    /\ MayBegin(d, p, l)
    /\ g # acked[d].g
    /\ CoreWrite(d, Piece(d, l, g, 0), p, free[p], [NoJob EXCEPT !.next = 1, !.g = g])
    /\ free' = IF boot' = "up" THEN [free EXCEPT ![p] = @ + l] ELSE [q \in Pages |-> 0]

(* ... or an unchanged copy of it, taken from the old place.               *)
BeginCopy(d, p) ==
    LET h == ReadValue(info[d].page, info[d].pos)
    IN  /\ "copy" \in env
        /\ info[d].len > 0 /\ p # info[d].page
        /\ h.k = "hdr" /\ h.d = d /\ h.len = info[d].len
        /\ MayBegin(d, p, h.len)
        /\ CoreWrite(d, h, p, free[p], [next |-> 1, g |-> h.g, old |-> info[d], got |-> NoCell])
        /\ free' = IF boot' = "up" THEN [free EXCEPT ![p] = @ + h.len] ELSE [q \in Pages |-> 0]

IsCopied(i) == jobs[i].old.len > 0 /\ jobs[i].next < info[i].len - 1

CopyRead(i) ==
    LET p == jobs[i].old.page
        o == jobs[i].old.pos + jobs[i].next
    IN  /\ boot = "up" /\ i \in Active /\ Orderly(i)
        /\ IsCopied(i) /\ jobs[i].got = NoCell
        /\ \/ /\ ReadEffect(p, o)
              /\ jobs' = [jobs EXCEPT ![i].got = ReadValue(p, o)]
              /\ last' = [NoCall EXCEPT !.op = "read"]
              /\ UNCHANGED <<boot, scan, info, free, acked, env>>
           \/ \E n \in ReadStops(p, o) : PowerFails(n, acked, CutShort("read"))

(* The next piece: the tail and the pieces of a new version come from the  *)
(* core, the body of a copy from what was read.                            *)
WriteNext(i) ==
    LET k == jobs[i].next
        c == IF IsCopied(i) THEN jobs[i].got ELSE Piece(i, info[i].len, jobs[i].g, k)
    IN  /\ boot = "up" /\ i \in Active /\ Orderly(i)
        /\ c # NoCell
        /\ CoreWrite(i, c, info[i].page, info[i].pos + k,
                     [jobs[i] EXCEPT !.next = k + 1, !.got = NoCell])
        /\ free' = IF boot' = "up" THEN free ELSE [q \in Pages |-> 0]

(* Any other read.  Every piece of a dataset leaves the state that its     *)
(* first leaves, and a place that is not known leaves it alone.            *)
ReadPoints(p) == {info[i].pos : i \in Ids} \cup {o \in 0 .. (PageSize - 1) : IsOldPlace(p, o)}

Read(p, o) ==
    /\ boot = "up" /\ ReadId(p, o) # NotFound
    /\ "interleave" \in env \/ Active = {}
    /\ \/ /\ ReadEffect(p, o)
          /\ last' = [NoCall EXCEPT !.op = "read"]
          /\ UNCHANGED <<boot, scan, info, jobs, free, acked, env>>
       \/ \E n \in ReadStops(p, o) : PowerFails(n, acked, CutShort("read"))

(* zb_osif_nvram_move of a complete dataset to the end of a page: it reads *)
(* the dataset, and build_dataset_info, given more than a header, does     *)
(* nothing.                                                                *)
Move(d, p) ==
    /\ "move" \in env
    /\ boot = "up" /\ Orderly(d) /\ jobs[d].next = 0
    /\ info[d].len > 0 /\ p # info[d].page
    /\ free[p] > 0 /\ free[p] + info[d].len <= PageSize
    /\ ReadEffect(info[d].page, info[d].pos)
    /\ free' = [free EXCEPT ![p] = @ + info[d].len]
    /\ last' = [NoCall EXCEPT !.op = "move"]
    /\ UNCHANGED <<boot, scan, info, jobs, acked, env>>

(* zb_osif_nvram_erase_async: every dataset the table places on the page,  *)
(* then its header; the buffer is zeroed and forgotten, its flush flag is  *)
(* not.                                                                    *)
OnPage(p) == {i \in 0 .. (DatasetNumber - 1) : info[i].page = p}

ErasedUpToMut(p, k) == [i \in Ids |-> IF i = PageHdr(p) /\ i < k THEN NoItem ELSE nvs[i]]
ErasedUpTo(p, k) ==
    [i \in Ids |-> IF (i \in OnPage(p) \/ i = PageHdr(p)) /\ i < k THEN NoItem ELSE nvs[i]]

GoneMut(p) == {PageHdr(p)}
Gone(p) == OnPage(p) \cup {PageHdr(p)}

Erase(p) ==
    /\ boot = "up" /\ free[p] > 0
    /\ "midway" \in env \/ Active = {}
    /\ \/ /\ nvs' = ErasedUpTo(p, DatasetNumber + PageCount)
          /\ info' = [i \in Ids |-> IF i \in Gone(p) THEN NoInfo ELSE info[i]]
          /\ cache' = [cache EXCEPT !.id = 0, !.buf = [s \in Slots |-> Junk]]
          /\ jobs' = [i \in Ids |-> IF i \in Gone(p) THEN NoJob ELSE jobs[i]]
          /\ free' = [free EXCEPT ![p] = 0]
          /\ acked' = [i \in Ids |-> IF i \in Gone(p) THEN NoAck ELSE acked[i]]
          /\ last' = [NoCall EXCEPT !.op = "erase", !.page = p]
          /\ UNCHANGED <<boot, scan, reloc, env>>
       \/ \E k \in 0 .. (DatasetNumber + PageCount) :
             PowerFails(ErasedUpTo(p, k),
                        [i \in Ids |-> IF i \in Gone(p)
                                        THEN Resolved(i, ErasedUpTo(p, k), {acked[i], NoAck})
                                        ELSE acked[i]],
                        [CutShort("erase") EXCEPT !.page = p])

-----------------------------------------------------------------------------
Init ==
    /\ boot = "headers" /\ scan = ScanStart
    /\ info = [i \in Ids |-> NoInfo]
    /\ nvs = [i \in Ids |-> NoItem]
    /\ cache = BlankCache /\ reloc = NoReloc
    /\ jobs = [i \in Ids |-> NoJob]
    /\ free = [p \in Pages |-> 0]
    /\ acked = [i \in Ids |-> NoAck]
    /\ last = NoCall
    /\ env \in Worlds

Next ==
    \/ BootHeader \/ BootHeadersDone \/ BootDataset \/ BootDone
    \/ Crash \/ Deinit
    \/ \E p \in Pages : FormatPage(p)
    \/ \E d \in Types, p \in Pages, l \in Lens, g \in Gens : BeginWrite(d, p, l, g)
    \/ \E d \in Types, p \in Pages : BeginCopy(d, p) \/ Move(d, p)
    \/ \E i \in Ids : CopyRead(i) \/ WriteNext(i)
    \/ \E p \in Pages : \E o \in ReadPoints(p) : Read(p, o)
    \/ \E p \in Pages : Erase(p)

Spec == Init /\ [][Next]_vars

-----------------------------------------------------------------------------
(* Properties.                                                             *)

InfoType == [page : Pages, pos : 0 .. PageSize, len : 0 .. MaxLen]
JobType == [next : 0 .. MaxLen, g : Gens \cup {0}, old : InfoType, got : Cells]
ItemType == [len : 0 .. MaxLen, cell : [Slots -> Cells]]
VersionType == [len : 0 .. MaxLen, g : Gens \cup {0}]

(* Every variable keeps its type: in particular every position in the      *)
(* table lies in a page, and offsets computed from it stay in the buffer.  *)
TypeOK ==
    /\ boot \in {"headers", "datasets", "up", "fatal"}
    /\ scan \in [id : 0 .. (DatasetNumber + PageCount), page : Pages, pos : 0 .. PageSize]
    /\ info \in [Ids -> InfoType]
    /\ nvs \in [Ids -> ItemType]
    /\ cache \in [id : Ids, buf : [Slots -> Cells], flush : BOOLEAN]
    /\ reloc \in [ds : Ids \cup {NotFound}, old : InfoType, off : 0 .. PageSize, len : {0, 1}]
    /\ jobs \in [Ids -> JobType]
    /\ free \in [Pages -> 0 .. (PageSize + MaxLen)]
    /\ acked \in [Ids -> VersionType]
    /\ last \in [op : {"none", "crash", "write", "read", "move", "erase"},
                 ret : {"ok", "illegal", "failed", "idle", "write", "read", "erase"},
                 id : Ids, ver : VersionType, page : Pages \cup {NotFound}]
    /\ env \in Worlds

(* No position belongs to two datasets, whatever was moved, erased or      *)
(* rebuilt: find_dataset never has to choose.                              *)
LookupUnambiguous ==
    \A i, j \in Ids : \A p \in Pages : \A o \in 0 .. PageSize :
        Covers(info[i], p, o) /\ Covers(info[j], p, o) => i = j

(* The identifier a stale flush flag would be written under after an erase *)
(* (localNvsId = 0) never holds anything.                                  *)
ReservedIdNeverStored == nvs[0] = NoItem

(* The flash holds complete records only, at every instant and after any   *)
(* power failure: header, body and tail of one version.                    *)
NoTornRecord ==
    \A i \in Ids : nvs[i].len > 0 =>
        \E g \in Gens \cup {0} : nvs[i] = Record(i, nvs[i].len, g)

(* Datasets share one RAM buffer.  One may be put aside between its header *)
(* and its tail, half written to the flash, while others are read and      *)
(* written; still the flash holds all of it, and of no other, when the     *)
(* call that wrote its tail returns RET_OK.  This is for a core that       *)
(* copies nothing, erases no page midway and reads before it writes, on a  *)
(* flash that works: each of the four breaks it.  Until the tail, and      *)
(* after a refused write, the record in the flash may be torn.             *)
AcceptedIsWhole ==
    [][env \cap {"copy", "midway", "blind", "flashfail"} = {} => \A i \in Active \ Active' :
          last'.op = "write" /\ last'.ret = "ok" =>
              nvs'[i] = Record(i, info[i].len, jobs[i].g)]_vars

(* Once the backend is up, every dataset the core was told is stored, and  *)
(* is not rewriting, is found where the table says and reads back as it    *)
(* was written.                                                            *)
CommittedReadable ==
    boot = "up" => \A d \in Types : acked[d].len > 0 /\ jobs[d].next = 0 =>
        /\ info[d].len = acked[d].len
        /\ \A s \in 0 .. (acked[d].len - 1) :
              ReadValue(info[d].page, info[d].pos + s) = Piece(d, acked[d].len, acked[d].g, s)

(* Whatever fails, the flash holds of every dataset the version whose tail *)
(* was accepted last, whole, also while another is being written and after *)
(* its write has failed or was cut short: only an erase of its page, a     *)
(* header of another length and the same record written again may take it. *)
(* A core that writes without a read after a relocation, or touches other  *)
(* datasets or erases a page before the tail, has no such promise.         *)
FlashHoldsAcked ==
    env \cap {"blind", "interleave", "midway"} = {} => \A d \in Types :
        nvs[d] = IF acked[d] = NoAck THEN NoItem ELSE Record(d, acked[d].len, acked[d].g)

(* A dataset the core has not written, or has erased, is not in the table: *)
(* old records do not come back at a restart.                              *)
NothingResurrected ==
    boot = "up" => \A d \in Types : acked[d].len = 0 /\ jobs[d].next = 0 => info[d].len = 0

(* The table rebuilt at a restart places every record whole inside a page, *)
(* and the start never ends in RET_OUT_OF_RANGE.                           *)
RebuildFits ==
    /\ boot # "fatal"
    /\ \A i \in Ids : info[i].pos + info[i].len <= PageSize

(* The backend implements NvramStore: a version of a dataset replaces the  *)
(* stored one as a whole; an erase takes the datasets of its page and no   *)
(* other; a power failure changes nothing but the dataset or the page the  *)
(* call it cut short was about, and leaves that dataset's old version or   *)
(* the new one, and none only where the same record is written again (line *)
(* 463) or the header announces another length (line 567).                 *)
Resizes(v, w) == v.len > 0 /\ v.len # w.len

Store == INSTANCE NvramStore WITH
    Keys <- Types,
    NoKey <- 0,
    Values <- [len : Lens, g : Gens],
    None <- NoAck,
    Nowhere <- NotFound,
    Resized <- Resizes,
    store <- [d \in Types |-> Stored(nvs[d])],
    pending <- [d \in Types |-> IF jobs[d].next > 0 THEN Version(d) ELSE NoAck],
    place <- [d \in Types |-> IF info[d].len > 0 THEN info[d].page ELSE NotFound],
    cause <- [op |-> CASE last.op = "crash" -> "power"
                       [] last.op = "erase" -> "erase"
                       [] OTHER -> "run",
              key |-> IF last.id \in Types THEN last.id ELSE 0,
              value |-> IF last.id \in Types THEN last.ver ELSE NoAck,
              page |-> last.page]

ImplementsStore == Store!Spec
=============================================================================

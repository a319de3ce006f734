----------------------------- MODULE OtaProofs -----------------------------
(***************************************************************************)
(* Theorems about both OTA clients in Ota, for any files, any capacity of  *)
(* the storage and any number of repeated blocks and restarts.  The types  *)
(* need nothing of the server; the rest needs a first block that is not    *)
(* exactly the fixed header (HeaderSplits), and the count too few repeats  *)
(* to wrap around (CountIsExact).  A header may be spread over any number  *)
(* of blocks.                                                              *)
(***************************************************************************)
EXTENDS Ota, TLAPS

(* Each unit of the storage is blank or in the place of its file.          *)
Placed == \A k \in Units : flash[k].file # NoFile => flash[k].pos = flash[k].file.hl + k

(* What has come of the file is in the storage.                            *)
Got(n) == \A k \in Units : stack.file.hl + k < n => flash[k] = Unit(stack.file, stack.file.hl + k)

(* After the first block the length of the header is known, and once the   *)
(* fixed part has come the storage is open; the first block may be the one *)
(* that comes again.                                                       *)
Receiving ==
    stack.offset > 0 =>
        /\ rx.hl = stack.file.hl
        /\ stack.offset >= Fixed => rx.open
        /\ stack.last < stack.offset
        /\ stack.last = 0 => stack.offset # Fixed
        /\ Got(stack.offset)

RxSizes == [written : Sizes, size : Sizes, open : BOOLEAN, hl : Sizes, total : Sizes]

SampleTypes ==
    /\ rx \in RxSizes
    /\ stack \in [state : {"normal", "downloading", "downloaded", "refused", "waiting"},
                  file : Files \cup {NoFile}, block : Nat, offset : Nat, last : Nat]
    /\ flash \in [Units -> [file : Files \cup {NoFile}, pos : Nat]]

Downloads ==
    /\ stack.state # "normal" => stack.file \in Files
    /\ stack.state = "downloading" =>
          /\ stack.block \in Blocks["sample"] /\ stack.offset <= Total(stack.file)
          /\ Receiving
    /\ stack.state \in {"downloaded", "waiting"} => Holds(stack.file)
    /\ ready # NoFile => stack.state = "waiting" /\ ready = stack.file

SampleInv == SampleTypes /\ Placed /\ Downloads

OtaInv == app \in Apps /\ (app = "sample" => SampleInv)

-----------------------------------------------------------------------------
(* Subtraction of size_t, where nothing wraps around.                      *)
LEMMA NoWrap ==
    ASSUME NEW a \in Nat, NEW b \in Nat, b <= a, a < SizeRange
    PROVE  Minus(a, b) = a - b
BY OtaAssumption DEF Minus

LEMMA InRange == \A a \in Int : a % SizeRange \in Sizes
BY OtaAssumption DEF Sizes

(* Every unit of a file: positive lengths, and room for it everywhere.     *)
LEMMA Lengths ==
    ASSUME NEW f \in Files
    PROVE  /\ f.hl \in Nat /\ f.body \in Nat /\ f.hl >= Fixed /\ f.body > 0
           /\ Total(f) \in Nat /\ Total(f) = f.hl + f.body /\ Total(f) < SizeRange
           /\ f.body <= Capacity /\ f # NoFile
           /\ Fixed \in Nat /\ Fixed > 1 /\ SizeRange \in Nat /\ Capacity \in Nat
BY OtaAssumption DEF Total, NoFile

(* What the handler of ota_client_zed does with a block: it puts each unit *)
(* of the body in its place, and nothing of the header.                    *)
LEMMA SampleCopied ==
    ASSUME SampleTypes, stack.file \in Files, NEW o \in Nat, NEW n, NEW k
    PROVE  /\ HdrCopied(o, n, k) \in RxSizes
           /\ HdrCopied(o, n, k).hl = IF o = 0 THEN stack.file.hl ELSE rx.hl
           /\ HdrCopied(o, n, k).open = rx.open
<1> DEFINE h == HdrCopied(o, n, k)
<1>1. stack.file.hl \in Sizes /\ Total(stack.file) \in Sizes /\ 0 \in Sizes
  BY Lengths DEF Sizes
<1>2. PICK x \in Sizes, t \in Sizes :
        /\ h = [[rx EXCEPT !.hl = x] EXCEPT !.total = t]
        /\ x = IF o = 0 THEN stack.file.hl ELSE rx.hl
  <2>1. rx.hl \in Sizes /\ rx.total \in Sizes
    BY DEF SampleTypes, RxSizes
  <2>2. QED
    BY <1>1, <2>1 DEF HdrCopied
<1> HIDE DEF h
<1>3. QED
  BY <1>2 DEF SampleTypes, RxSizes, h

LEMMA BlockIsPut ==
    ASSUME app = "sample", SampleTypes, stack.file \in Files,
           NEW o \in Nat, NEW n \in Nat, n > 0, o + n <= Total(stack.file),
           o = 0 => n # Fixed,
           o > 0 => rx.hl = stack.file.hl /\ (o >= Fixed => rx.open),
           Receive(o, n)
    PROVE  /\ rx' \in RxSizes
           /\ rx'.hl = stack.file.hl /\ (o + n >= Fixed => rx'.open)
           /\ flash' = [k \in Units |-> IF stack.file.hl + k \in o .. (o + n - 1)
                                        THEN Unit(stack.file, stack.file.hl + k) ELSE flash[k]]
<1> DEFINE f == stack.file
           lands(k) == IF f.hl + k \in o .. (o + n - 1) THEN Unit(f, f.hl + k) ELSE flash[k]
<1>1. /\ f.hl \in Nat /\ f.body \in Nat /\ f.hl >= Fixed /\ f.body > 0
      /\ Total(f) = f.hl + f.body /\ Total(f) < SizeRange /\ f.body <= Capacity
      /\ Fixed \in Nat /\ Fixed > 1 /\ SizeRange \in Nat /\ Capacity \in Nat
      /\ f.hl + Capacity <= SizeRange
  BY Lengths, OtaAssumption
<1>2. CASE HeaderOnly(o, n)
  <2>1. rx' = HdrCopied(o, n, n) /\ flash' = flash /\ o + n < Fixed
    BY <1>1, <1>2 DEF Receive, ReceiveHeader, ReceiveFirst, ReceiveRest, ReceiveData, HeaderOnly,
       HeaderWhole, HeaderEnds
  <2>2. rx' \in RxSizes /\ rx'.hl = f.hl
    BY <2>1, SampleCopied
  <2>3. \A k \in Units : flash[k] = lands(k)
    BY <1>1, <2>1 DEF Units
  <2>4. flash = [k \in Units |-> flash[k]]
    BY DEF SampleTypes
  <2>5. flash' = [k \in Units |-> lands(k)]
    BY <2>1, <2>3, <2>4
  <2>6. QED
    BY <1>1, <2>1, <2>2, <2>5
<1>3. CASE ~ HeaderOnly(o, n) /\ o < f.hl
  <2>1. HeaderWhole(o, n) \/ (o > 0 /\ HeaderEnds(o, n))
    BY <1>1, <1>3 DEF HeaderOnly, HeaderWhole, HeaderEnds
  <2>2. PICK c : Save(SizeKnown(Opened(HdrCopied(o, n, c)), o, n), o,
                      BodyPart(o, n, HdrCopied(o, n, c).hl))
    BY <1>3, <2>1 DEF Receive, ReceiveHeader, ReceiveFirst, ReceiveRest, ReceiveData, HeaderEnds
  <2> DEFINE h == HdrCopied(o, n, c)
             r == SizeKnown(Opened(h), o, n)
             part == BodyPart(o, n, f.hl)
  <2>3. h \in RxSizes /\ h.hl = f.hl
    BY SampleCopied
  <2>4. Save(r, o, part)
    BY <2>2, <2>3
  <2>5. Opened(h) \in RxSizes /\ Opened(h).hl = f.hl /\ Opened(h).open
    <3>1. Opened(h) = [[h EXCEPT !.written = 0] EXCEPT !.open = TRUE]
      BY DEF Opened
    <3>2. 0 \in Sizes
      BY <1>1 DEF Sizes
    <3> HIDE DEF h
    <3>3. QED
      BY <2>3, <3>1, <3>2 DEF RxSizes
  <2>6. r \in RxSizes /\ r.hl = f.hl /\ r.open
    <3> DEFINE p == Opened(h)
    <3> HIDE DEF p
    <3>1. p \in RxSizes /\ p.hl = f.hl /\ p.open
      BY <2>5 DEF p
    <3>2. SizeKnown(p, o, n) \in RxSizes /\ SizeKnown(p, o, n).hl = f.hl /\ SizeKnown(p, o, n).open
      BY <3>1, InRange DEF SizeKnown, Minus, Sizes, RxSizes
    <3>3. QED
      BY <3>2 DEF p
  <2> HIDE DEF h, r
  <2>7. /\ part.at = 0 /\ part.from = f.hl - o /\ part.len \in Nat
        /\ o + n >= f.hl => part.len = o + n - f.hl
        /\ part.len <= Capacity => o + n >= f.hl
    <3>1. Minus(f.hl, o) = f.hl - o
      BY <1>1, <1>3, NoWrap
    <3>2. part = [at |-> 0, from |-> f.hl - o, len |-> Minus(n, f.hl - o)]
      BY <3>1 DEF BodyPart
    <3>3. CASE o + n >= f.hl
      <4>1. Minus(n, f.hl - o) = o + n - f.hl
        BY <1>1, <1>3, <3>3, NoWrap
      <4>2. QED
        BY <1>1, <1>3, <3>2, <3>3, <4>1
    <3>4. CASE o + n < f.hl
      <4>1. o + n - f.hl < 0 /\ o + n - f.hl + SizeRange > Capacity
            /\ o + n - f.hl + SizeRange < SizeRange
        BY <1>1, <3>4
      <4>2. Minus(n, f.hl - o) = o + n - f.hl + SizeRange
        BY <1>1, <3>4, <4>1 DEF Minus
      <4>3. QED
        BY <1>1, <3>2, <3>4, <4>1, <4>2
    <3>5. QED
      BY <1>1, <3>3, <3>4
  <2>8. WriteAt(r, part) = 0
    BY <2>7 DEF WriteAt
  <2> HIDE DEF part
  <2>9. rx' = [r EXCEPT !.written = (r.written + part.len) % SizeRange]
    BY <2>4 DEF Save
  <2>10. (r.written + part.len) % SizeRange \in Sizes
    BY <2>6, <2>7, InRange DEF RxSizes, Sizes
  <2>11. rx' \in RxSizes /\ rx'.hl = f.hl /\ rx'.open
    BY <2>6, <2>9, <2>10 DEF RxSizes
  <2>12. flash' = IF 0 + part.len > Capacity THEN flash
                  ELSE [k \in Units |-> IF k \in 0 .. (0 + part.len - 1)
                                        THEN Unit(f, o + part.from + (k - 0)) ELSE flash[k]]
    BY <2>4, <2>6, <2>8 DEF Save, Written
  <2>13. flash' = [k \in Units |-> lands(k)]
    <3>1. CASE o + n >= f.hl
      <4>1. part.len = o + n - f.hl /\ 0 + part.len <= Capacity
        BY <1>1, <2>7, <3>1
      <4>2. flash' = [k \in Units |-> IF k \in 0 .. (0 + part.len - 1)
                                      THEN Unit(f, o + part.from + (k - 0)) ELSE flash[k]]
        BY <1>1, <2>12, <4>1
      <4>3. ASSUME NEW k \in Units
            PROVE  (IF k \in 0 .. (0 + part.len - 1) THEN Unit(f, o + part.from + (k - 0)) ELSE flash[k])
                   = lands(k)
        <5>1. k \in Nat /\ o + part.from + (k - 0) = f.hl + k
          BY <1>1, <1>3, <2>7 DEF Units
        <5>2. k \in 0 .. (0 + part.len - 1) <=> f.hl + k \in o .. (o + n - 1)
          BY <1>1, <1>3, <4>1, <5>1
        <5>3. QED
          BY <5>1, <5>2
      <4> HIDE DEF lands
      <4>4. QED
        BY <4>2, <4>3
    <3>2. CASE o + n < f.hl
      <4>1. flash' = flash
        BY <1>1, <2>7, <2>12, <3>2
      <4>2. \A k \in Units : flash[k] = lands(k)
        BY <1>1, <3>2 DEF Units
      <4>3. flash = [k \in Units |-> flash[k]]
        BY DEF SampleTypes
      <4> HIDE DEF lands
      <4>4. QED
        BY <4>1, <4>2, <4>3
    <3>3. QED
      BY <1>1, <3>1, <3>2
  <2>14. QED
    BY <2>11, <2>13
<1>4. CASE ~ HeaderOnly(o, n) /\ o >= f.hl
  <2> DEFINE part == DataPart(o, n)
  <2>1. Save(rx, o, part) /\ rx.hl = f.hl /\ rx.open
    BY <1>1, <1>4 DEF Receive, ReceiveHeader, ReceiveFirst, ReceiveRest, ReceiveData, HeaderOnly,
       HeaderWhole, HeaderEnds
  <2>2. part = [at |-> o - f.hl, from |-> 0, len |-> n]
    BY <1>1, <1>4, <2>1, NoWrap DEF DataPart
  <2>3. WriteAt(rx, part) = o - f.hl
    BY <2>2 DEF WriteAt
  <2>4. flash' = [k \in Units |-> IF k \in (o - f.hl) .. (o - f.hl + n - 1)
                                 THEN Unit(f, o + 0 + (k - (o - f.hl))) ELSE flash[k]]
    BY <1>1, <1>4, <2>1, <2>2, <2>3 DEF Save, Written
  <2>5. \A k \in Units : (IF k \in (o - f.hl) .. (o - f.hl + n - 1)
                         THEN Unit(f, o + 0 + (k - (o - f.hl))) ELSE flash[k]) = lands(k)
    BY <1>1, <1>4 DEF Units
  <2>6. rx' = [rx EXCEPT !.written = (rx.written + n) % SizeRange]
    BY <2>1, <2>2 DEF Save
  <2>7. (rx.written + n) % SizeRange \in Sizes
    BY <1>1, InRange DEF SampleTypes, RxSizes, Sizes
  <2>8. QED
    BY <2>1, <2>4, <2>5, <2>6, <2>7 DEF SampleTypes, RxSizes
<1>5. QED
  BY <1>1, <1>2, <1>3, <1>4

-----------------------------------------------------------------------------
(* Every action keeps the invariant.                                       *)
LEMMA SampleStep ==
    ASSUME HeaderSplits, app = "sample", "sample" \in Apps, SampleInv, OtaNext
    PROVE  SampleInv'
<1> DEFINE f == stack.file
<1> USE DEF SampleInv
<1>1. ASSUME NEW g \in Files, NEW b, Start(g, b) PROVE SampleInv'
  <2>1. /\ stack' = [state |-> "downloading", file |-> g, block |-> b, offset |-> 0, last |-> 0]
        /\ UNCHANGED <<app, rx, flash, ready>> /\ b \in Blocks["sample"] /\ stack.state = "normal"
    BY <1>1 DEF Start, MayStart
  <2>2. b \in Nat /\ 0 <= Total(g) /\ ready = NoFile
    BY <2>1, OtaAssumption, Lengths DEF Downloads
  <2>3. SampleTypes'
    BY <2>1, <2>2 DEF SampleTypes
  <2>4. QED
    BY <2>1, <2>2, <2>3 DEF Downloads, Receiving, Placed
<1>2. CASE Block
  <2> DEFINE o == stack.offset
             n == BlockLen(o)
  <2>1. /\ stack.state = "downloading" /\ o < Total(f) /\ Receive(o, n)
        /\ stack' = [[stack EXCEPT !.offset = o + n] EXCEPT !.last = o]
        /\ UNCHANGED <<app, ready>>
    BY <1>2 DEF Block, Downloading
  <2>2. f \in Files /\ stack.block \in Blocks["sample"] /\ Receiving
    BY <2>1 DEF Downloads
  <2>3. /\ f.hl \in Nat /\ f.body \in Nat /\ f.hl >= Fixed /\ f.body > 0
        /\ Total(f) \in Nat /\ Total(f) = f.hl + f.body /\ f # NoFile /\ f.body <= Capacity
        /\ Fixed \in Nat /\ Capacity \in Nat
    BY <2>2, Lengths
  <2>4. o \in Nat /\ stack.block \in Nat /\ stack.block > 0 /\ stack.block # Fixed
    BY <2>2, OtaAssumption DEF SampleTypes, HeaderSplits
  <2>5. n \in Nat /\ n > 0 /\ o + n <= Total(f) /\ (o = 0 => n # Fixed)
    BY <2>1, <2>3, <2>4 DEF BlockLen
  <2>6. o > 0 => rx.hl = f.hl /\ (o >= Fixed => rx.open) /\ Got(o)
    BY <2>2 DEF Receiving
  <2>7. /\ rx' \in RxSizes
        /\ rx'.hl = f.hl /\ (o + n >= Fixed => rx'.open)
        /\ flash' = [k \in Units |-> IF f.hl + k \in o .. (o + n - 1)
                                     THEN Unit(f, f.hl + k) ELSE flash[k]]
    <3> HIDE DEF n, o, f
    <3>1. stack.file \in Files /\ o + n <= Total(stack.file)
      BY <2>2, <2>5 DEF f
    <3>2. o > 0 => rx.hl = stack.file.hl /\ (o >= Fixed => rx.open)
      BY <2>6 DEF f
    <3>3. QED
      BY <2>1, <2>4, <2>5, <3>1, <3>2, BlockIsPut DEF f
  <2>8. /\ stack'.offset = o + n /\ stack'.last = o /\ stack'.file = f /\ stack'.state = "downloading"
        /\ stack'.block = stack.block
    BY <2>1 DEF SampleTypes
  <2>9. SampleTypes'
    <3>1. flash' \in [Units -> [file : Files \cup {NoFile}, pos : Nat]]
      BY <2>2, <2>3, <2>7 DEF SampleTypes, Unit, Units
    <3>2. o + n \in Nat
      BY <2>4, <2>5
    <3>3. QED
      BY <2>1, <2>4, <2>7, <3>1, <3>2 DEF SampleTypes
  <2>10. Placed'
    BY <2>7 DEF Placed, Unit
  <2>11. Got(stack.offset)'
    <3>1. ASSUME NEW k \in Units, f.hl + k < o + n PROVE flash'[k] = Unit(f, f.hl + k)
      <4>1. k \in Nat
        BY <2>3 DEF Units
      <4>2. CASE f.hl + k >= o
        BY <2>3, <2>4, <2>5, <2>7, <3>1, <4>1, <4>2
      <4>3. CASE f.hl + k < o
        BY <2>3, <2>4, <2>5, <2>6, <2>7, <4>1, <4>3 DEF Got
      <4>4. QED
        BY <2>3, <2>4, <4>1, <4>2, <4>3
    <3>2. QED
      BY <2>8, <3>1 DEF Got
  <2>12. Receiving'
    <3>1. stack'.last < stack'.offset
      BY <2>3, <2>4, <2>5, <2>8
    <3>2. stack'.last = 0 => stack'.offset # Fixed
      BY <2>4, <2>5, <2>8
    <3>3. QED
      BY <2>7, <2>8, <2>11, <3>1, <3>2 DEF Receiving
  <2>13. ready = NoFile
    BY <2>1 DEF Downloads
  <2>14. QED
    BY <2>1, <2>2, <2>5, <2>8, <2>9, <2>10, <2>12, <2>13 DEF Downloads
<1>3. CASE Repeat
  <2> DEFINE o == stack.last
             n == stack.offset - o
  <2>1. /\ stack.state = "downloading" /\ stack.offset > 0 /\ Receive(o, n)
        /\ UNCHANGED <<app, ready, stack>>
    BY <1>3 DEF Repeat
  <2>2. f \in Files /\ Receiving /\ stack.offset <= Total(f) /\ o \in Nat /\ stack.offset \in Nat
    BY <2>1 DEF Downloads, SampleTypes
  <2>3. /\ f.hl \in Nat /\ Total(f) \in Nat /\ f # NoFile /\ Fixed \in Nat /\ Capacity \in Nat
    BY <2>2, Lengths
  <2>4. n \in Nat /\ n > 0 /\ o + n = stack.offset /\ o + n <= Total(f)
    BY <2>1, <2>2, <2>3 DEF Receiving
  <2>5. /\ o = 0 => n # Fixed
        /\ rx.hl = stack.file.hl /\ (o >= Fixed => rx.open)
    BY <2>1, <2>2, <2>3, <2>4 DEF Receiving
  <2>6. /\ rx' \in RxSizes
        /\ rx'.hl = f.hl /\ (o + n >= Fixed => rx'.open)
        /\ flash' = [k \in Units |-> IF f.hl + k \in o .. (o + n - 1)
                                     THEN Unit(f, f.hl + k) ELSE flash[k]]
    <3> HIDE DEF n, o
    <3>1. QED
      BY <2>1, <2>2, <2>4, <2>5, BlockIsPut
  <2>7. SampleTypes'
    <3>1. flash' \in [Units -> [file : Files \cup {NoFile}, pos : Nat]]
      BY <2>2, <2>3, <2>6 DEF SampleTypes, Unit, Units
    <3>2. QED
      BY <2>1, <2>6, <3>1 DEF SampleTypes
  <2>8. Placed'
    BY <2>6 DEF Placed, Unit
  <2>9. Got(stack.offset)'
    BY <2>1, <2>2, <2>6 DEF Got, Receiving
  <2>10. Receiving'
    BY <2>1, <2>2, <2>4, <2>6, <2>9 DEF Receiving
  <2>11. QED
    BY <2>1, <2>7, <2>8, <2>10 DEF Downloads
<1>4. ASSUME stack' = Idle, UNCHANGED <<app, flash, ready>>, stack.state # "waiting",
             rx' \in RxSizes
      PROVE  SampleInv'
  BY <1>4 DEF SampleTypes, Downloads, Placed, Idle
<1>5. CASE OpenFails
  <2> DEFINE o == stack.offset
             n == BlockLen(o)
             h == HdrCopied(o, n, IF HeaderWhole(o, n) THEN n ELSE rx.hl - o)
  <2>1. /\ stack.state = "downloading" /\ stack' = Idle /\ UNCHANGED <<app, flash, ready>>
        /\ rx' = [h EXCEPT !.open = FALSE]
    BY <1>5 DEF OpenFails, Downloading
  <2>2. f \in Files /\ o \in Nat
    BY <2>1 DEF Downloads, SampleTypes
  <2>3. h \in RxSizes
    BY <2>2, SampleCopied
  <2> HIDE DEF h
  <2>4. rx' \in RxSizes
    BY <2>1, <2>3 DEF RxSizes
  <2>5. QED
    BY <1>4, <2>1, <2>4
<1>6. CASE Abort
  BY <1>4, <1>6 DEF Abort, Downloading, SampleTypes
<1>7. CASE Refusal
  BY <1>4, <1>7 DEF Refusal, SampleTypes
<1>8. CASE Check
  <2>1. PICK s \in {"downloaded", "refused"} :
          /\ stack.state = "downloading" /\ stack.offset = Total(f)
          /\ stack' = [stack EXCEPT !.state = s]
          /\ rx' = [rx EXCEPT !.open = FALSE] /\ UNCHANGED <<app, flash, ready>>
    BY <1>8 DEF Check
  <2>2. f \in Files /\ Receiving /\ ready = NoFile
    BY <2>1 DEF Downloads
  <2>3. /\ f.hl \in Nat /\ f.body \in Nat /\ f.body > 0 /\ Total(f) = f.hl + f.body
        /\ f.body <= Capacity /\ Capacity \in Nat
    BY <2>2, Lengths
  <2>4. Got(Total(f))
    BY <2>1, <2>2, <2>3 DEF Receiving
  <2>5. Holds(f)
    BY <2>3, <2>4 DEF Got, Holds, Body, Units
  <2>6. stack'.state = s /\ stack'.file = f
    BY <2>1 DEF SampleTypes
  <2>7. Holds(f)'
    BY <2>1, <2>5 DEF Holds, Body
  <2>8. SampleTypes'
    BY <2>1 DEF SampleTypes, RxSizes
  <2>9. QED
    BY <2>1, <2>2, <2>6, <2>7, <2>8 DEF Downloads, Placed, Holds
<1>9. CASE Apply
  <2>1. /\ stack.state = "downloaded" /\ stack' = [stack EXCEPT !.state = "waiting"]
        /\ ready' = f /\ UNCHANGED <<app, rx, flash>>
    BY <1>9 DEF Apply
  <2>2. stack'.state = "waiting" /\ stack'.file = f
    BY <2>1 DEF SampleTypes
  <2>3. f \in Files /\ Holds(f)
    BY <2>1 DEF Downloads
  <2>4. SampleTypes'
    BY <2>1 DEF SampleTypes
  <2>5. Holds(f)'
    BY <2>1, <2>2, <2>3 DEF Holds, Body
  <2>6. QED
    BY <2>1, <2>2, <2>3, <2>4, <2>5 DEF Downloads, Placed, Holds
<1>10. CASE Finish
  BY <1>10 DEF Finish
<1>11. CASE ServerNotFound
  BY <1>11 DEF ServerNotFound, SampleTypes, Downloads, Receiving, Placed, Got, Holds, Body
<1>12. CASE Restart
  <2>1. 0 \in Sizes
    BY OtaAssumption DEF Sizes
  <2>2. QED
    BY <1>12, <2>1 DEF Restart, SampleTypes, Downloads, Placed, Idle, NoRx, RxSizes
<1>13. QED
  BY <1>1, <1>2, <1>3, <1>5, <1>6, <1>7, <1>8, <1>9, <1>10, <1>11, <1>12 DEF OtaNext

-----------------------------------------------------------------------------
LEMMA OtaInvHolds == HeaderSplits => (OtaSpec => []OtaInv)
<1> SUFFICES ASSUME HeaderSplits PROVE OtaSpec => []OtaInv
  OBVIOUS
<1>1. OtaInit => OtaInv
  <2> SUFFICES ASSUME OtaInit PROVE OtaInv
    OBVIOUS
  <2>1. 0 \in Sizes
    BY OtaAssumption DEF Sizes
  <2>2. QED
    BY <2>1 DEF OtaInit, OtaInv, SampleInv, SampleTypes, Placed, Downloads, Idle, NoRx, Blank, NoFile,
       RxSizes
<1>2. OtaInv /\ [OtaNext]_otaVars => OtaInv'
  <2> SUFFICES ASSUME OtaInv, [OtaNext]_otaVars PROVE OtaInv'
    OBVIOUS
  <2>1. CASE OtaNext
    <3>1. app' = app
      BY <2>1 DEF OtaNext, Start, Block, Repeat, OpenFails, Abort, Check, Refusal, Apply, Finish,
         ServerNotFound, Restart
    <3>2. app = "sample" => SampleInv'
      BY <2>1, SampleStep DEF OtaInv
    <3>3. QED
      BY <3>1, <3>2 DEF OtaInv
  <2>2. CASE UNCHANGED otaVars
    BY <2>2 DEF otaVars, OtaInv, SampleInv, SampleTypes, Placed, Downloads, Receiving, Got, Holds,
       Body
  <2>3. QED
    BY <2>1, <2>2
<1>3. QED
  BY <1>1, <1>2, PTL DEF OtaSpec

(* Nothing of the file being received is stored in a wrong place: blocks   *)
(* are written at their file offset, however often they come.              *)
THEOREM NothingIsMisplaced == HeaderSplits => (OtaSpec => []NothingMisplaced)
<1> SUFFICES ASSUME HeaderSplits PROVE OtaSpec => []NothingMisplaced
  OBVIOUS
<1>1. OtaInv => NothingMisplaced
  <2> SUFFICES ASSUME OtaInv, app = "sample", stack.state = "downloading", NEW k \in Units,
                      flash[k].file = stack.file
               PROVE  flash[k].pos = stack.file.hl + k
    BY DEF NothingMisplaced
  <2>1. Placed /\ stack.file \in Files
    BY DEF OtaInv, SampleInv, Downloads
  <2>2. QED
    BY <2>1, Lengths DEF Placed
<1>2. QED
  BY <1>1, OtaInvHolds, PTL

(* The image the boot loader is told to install is whole at every instant, *)
(* although zb_osif_ota_verify_integrity may have missed damage and blocks *)
(* come twice: a new download starts only when no image is ready.          *)
THEOREM ReadyStaysWhole == HeaderSplits => (OtaSpec => []ReadyIsWhole)
<1> SUFFICES ASSUME HeaderSplits PROVE OtaSpec => []ReadyIsWhole
  OBVIOUS
<1>1. OtaInv => ReadyIsWhole
  BY DEF OtaInv, SampleInv, Downloads, ReadyIsWhole
<1>2. QED
  BY <1>1, OtaInvHolds, PTL

-----------------------------------------------------------------------------
(* The types, for both applications and blocks of any size.                *)

RxTypes == [written : Sizes, size : 0 .. Capacity, open : BOOLEAN, hl : Sizes, total : Sizes]
FlashTypes == [Units -> [file : Files \cup {NoFile}, pos : Sizes]]

(* The header in RAM after o units of the file: that of the file, or the   *)
(* first block was exactly the fixed part of it and nothing was taken for  *)
(* a header since the restart.                                             *)
HeaderOf(r, f, o) ==
    \/ r.hl = f.hl /\ (o >= Fixed => r.total = Total(f))
    \/ r.hl = 0 /\ o >= Fixed

HeaderKnown ==
    /\ rx.hl = 0 \/ rx.hl >= Fixed
    /\ stack.state = "downloading" =>
          /\ stack.file \in Files /\ stack.block > 0
          /\ stack.offset > 0 => stack.last < stack.offset /\ HeaderOf(rx, stack.file, stack.offset)
    /\ stack.state \in {"downloaded", "waiting"} => stack.file \in Files

TypeInv == OtaTypeOK /\ HeaderKnown

(* No length that wrapped around fits into the storage: what is written    *)
(* is a part of the block.                                                 *)
LEMMA WrittenTypes ==
    ASSUME flash \in FlashTypes, stack.file \in Files, NEW r \in RxTypes,
           NEW o \in Nat, NEW n \in Nat, o + n <= Total(stack.file),
           NEW part, part.from \in Nat, part.len \in Nat, WriteAt(r, part) \in Nat,
           part.len <= Capacity => part.from + part.len <= n
    PROVE  Written(r, o, part) \in FlashTypes
<1> DEFINE f == stack.file
           at == WriteAt(r, part)
<1>1. /\ Total(f) \in Nat /\ Total(f) < SizeRange /\ SizeRange \in Nat /\ Capacity \in Nat
  BY Lengths
<1>2. CASE ~ r.open \/ at + part.len > Capacity
  BY <1>2 DEF Written
<1>3. CASE r.open /\ at + part.len <= Capacity
  <2>1. part.from + part.len <= n
    BY <1>1, <1>3
  <2>2. Written(r, o, part) = [k \in Units |-> IF k \in at .. (at + part.len - 1)
                              THEN Unit(f, o + part.from + (k - at)) ELSE flash[k]]
    BY <1>1, <1>3 DEF Written
  <2>3. ASSUME NEW k \in Units, k \in at .. (at + part.len - 1)
        PROVE  Unit(f, o + part.from + (k - at)) \in [file : Files \cup {NoFile}, pos : Sizes]
    BY <1>1, <2>1, <2>3 DEF Unit, Sizes, Units
  <2>4. QED
    BY <2>2, <2>3 DEF FlashTypes
<1>4. r.open \in BOOLEAN
  BY DEF RxTypes
<1>5. QED
  BY <1>1, <1>2, <1>3, <1>4

(* Where the header ends in a block: the part behind it, which is none and *)
(* has a length that wrapped when the header goes on in the next block.    *)
LEMMA BodyPartFits ==
    ASSUME NEW f \in Files, NEW o \in Nat, NEW n \in Nat, n > 0, o < f.hl, o + n <= Total(f)
    PROVE  /\ BodyPart(o, n, f.hl).at = 0
           /\ BodyPart(o, n, f.hl).from = f.hl - o
           /\ BodyPart(o, n, f.hl).len \in Nat
           /\ BodyPart(o, n, f.hl).len <= Capacity => f.hl - o + BodyPart(o, n, f.hl).len <= n
           /\ o + n >= f.hl => BodyPart(o, n, f.hl).len = o + n - f.hl
<1> DEFINE part == BodyPart(o, n, f.hl)
<1>1. /\ f.hl \in Nat /\ Total(f) \in Nat /\ Total(f) = f.hl + f.body /\ Total(f) < SizeRange
      /\ SizeRange \in Nat /\ Capacity \in Nat /\ f.hl + Capacity <= SizeRange
  BY Lengths, OtaAssumption
<1>2. Minus(f.hl, o) = f.hl - o
  BY <1>1, NoWrap, Lengths
<1>3. part.at = 0 /\ part.from = f.hl - o /\ part.len = Minus(n, f.hl - o)
  BY <1>2 DEF BodyPart
<1>4. CASE o + n >= f.hl
  <2>1. f.hl - o \in Nat /\ f.hl - o <= n /\ n < SizeRange
    BY <1>1, <1>4, Lengths
  <2>2. part.len = o + n - f.hl
    BY <1>1, <1>3, <2>1, NoWrap
  <2>3. QED
    BY <1>1, <1>3, <1>4, <2>2
<1>5. CASE o + n < f.hl
  <2>1. n - (f.hl - o) + SizeRange \in Nat /\ n - (f.hl - o) + SizeRange < SizeRange
        /\ n - (f.hl - o) + SizeRange > Capacity
    BY <1>1, <1>5
  <2>2. part.len = n - (f.hl - o) + SizeRange
    <3>1. \A x \in Int : x + SizeRange \in 0 .. SizeRange - 1 => x % SizeRange = x + SizeRange
      BY <1>1, OtaAssumption
    <3>2. QED
      BY <1>1, <1>3, <2>1, <3>1 DEF Minus
  <2>3. QED
    BY <1>1, <1>3, <1>5, <2>1, <2>2
<1>6. QED
  BY <1>1, <1>4, <1>5

(* The copy of the header keeps the types, and of the first unit and the   *)
(* last unit of the fixed part it takes what the file says.                *)
LEMMA CopiedTypes ==
    ASSUME rx \in RxTypes, stack.file \in Files, NEW o, NEW n, NEW k
    PROVE  /\ HdrCopied(o, n, k) \in RxTypes
           /\ HdrCopied(o, n, k).hl = IF o = 0 THEN stack.file.hl ELSE rx.hl
           /\ HdrCopied(o, n, k).total =
                 IF Fixed - 1 \in o .. (o + k - 1)
                 THEN IF Fixed - 1 < o + n THEN Total(stack.file) ELSE 0
                 ELSE rx.total
           /\ HdrCopied(o, n, k).written = rx.written
           /\ HdrCopied(o, n, k).size = rx.size
           /\ HdrCopied(o, n, k).open = rx.open
<1> DEFINE hl == IF o = 0 THEN stack.file.hl ELSE rx.hl
           total == IF Fixed - 1 \in o .. (o + k - 1)
                    THEN IF Fixed - 1 < o + n THEN Total(stack.file) ELSE 0 ELSE rx.total
<1>1. stack.file.hl \in Sizes /\ Total(stack.file) \in Sizes /\ 0 \in Sizes
  BY Lengths DEF Sizes
<1>2. hl \in Sizes /\ total \in Sizes
  BY <1>1 DEF RxTypes
<1>3. HdrCopied(o, n, k) = [[rx EXCEPT !.hl = hl] EXCEPT !.total = total]
  BY DEF HdrCopied, RxTypes
<1> HIDE DEF hl, total
<1>4. /\ HdrCopied(o, n, k) \in RxTypes /\ HdrCopied(o, n, k).hl = hl
      /\ HdrCopied(o, n, k).total = total /\ HdrCopied(o, n, k).written = rx.written
      /\ HdrCopied(o, n, k).size = rx.size /\ HdrCopied(o, n, k).open = rx.open
  BY <1>2, <1>3 DEF RxTypes
<1>5. QED
  BY <1>4 DEF hl, total

(* A file whose header and size are known is opened, and its size taken.   *)
LEMMA OpenedTypes ==
    ASSUME NEW r \in RxTypes, NEW f \in Files, r.hl = f.hl, r.total = Total(f),
           NEW o \in Nat, NEW n \in Nat
    PROVE  /\ SizeKnown(Opened(r), o, n) \in RxTypes
           /\ SizeKnown(Opened(r), o, n).hl = f.hl
           /\ SizeKnown(Opened(r), o, n).total = Total(f)
           /\ SizeKnown(Opened(r), o, n).written = 0
           /\ SizeKnown(Opened(r), o, n).open
           /\ HeaderWhole(o, n) \/ app = "cli" => SizeKnown(Opened(r), o, n).size = f.body
           /\ ~ (HeaderWhole(o, n) \/ app = "cli") => SizeKnown(Opened(r), o, n).size = r.size
<1> DEFINE p == Opened(r)
<1>1. /\ f.hl \in Nat /\ f.body \in Nat /\ Total(f) \in Nat /\ Total(f) = f.hl + f.body
      /\ Total(f) < SizeRange /\ f.body <= Capacity /\ Capacity \in Nat /\ SizeRange \in Nat
  BY Lengths
<1>2. 0 \in Sizes
  BY <1>1 DEF Sizes
<1>3. p = [[r EXCEPT !.written = 0] EXCEPT !.open = TRUE]
  BY DEF Opened
<1> HIDE DEF p
<1>4. /\ p \in RxTypes /\ p.hl = f.hl /\ p.total = Total(f) /\ p.written = 0 /\ p.open
      /\ p.size = r.size
  BY <1>2, <1>3 DEF RxTypes
<1>5. Minus(p.total, p.hl) = f.body
  BY <1>1, <1>4, NoWrap
<1>6. SizeKnown(p, o, n) = IF HeaderWhole(o, n) \/ app = "cli" THEN [p EXCEPT !.size = f.body] ELSE p
  BY <1>5 DEF SizeKnown
<1>7. /\ SizeKnown(p, o, n) \in RxTypes /\ SizeKnown(p, o, n).hl = f.hl
      /\ SizeKnown(p, o, n).total = Total(f) /\ SizeKnown(p, o, n).written = 0
      /\ SizeKnown(p, o, n).open
      /\ HeaderWhole(o, n) \/ app = "cli" => SizeKnown(p, o, n).size = f.body
      /\ ~ (HeaderWhole(o, n) \/ app = "cli") => SizeKnown(p, o, n).size = r.size
  BY <1>1, <1>4, <1>6 DEF RxTypes
<1>8. QED
  BY <1>7 DEF p

(* What the branch where the header ends does with a block.                *)
LEMMA HeaderBlock ==
    ASSUME rx \in RxTypes, stack.file \in Files, rx.hl = 0 \/ rx.hl >= Fixed,
           NEW o \in Nat, NEW n \in Nat, n > 0, o + n <= Total(stack.file), Receive(o, n),
           \/ HeaderWhole(o, n)
           \/ ~ HeaderOnly(o, n) /\ o < rx.hl /\ o < stack.file.hl
              /\ (o > 0 => rx.hl = stack.file.hl /\ (o >= Fixed => rx.total = Total(stack.file)))
    PROVE  \E r \in RxTypes :
              /\ r.hl = stack.file.hl /\ r.total = Total(stack.file) /\ r.written = 0 /\ r.open
              /\ HeaderWhole(o, n) \/ app = "cli" => r.size = stack.file.body
              /\ ~ (HeaderWhole(o, n) \/ app = "cli") => r.size = rx.size
              /\ Save(r, o, BodyPart(o, n, stack.file.hl))
<1> DEFINE f == stack.file
<1>1. /\ f.hl \in Nat /\ Total(f) \in Nat /\ f.hl >= Fixed /\ Fixed \in Nat /\ Fixed > 1
  BY Lengths
<1>2. rx.hl \in Nat
  BY DEF RxTypes, Sizes
<1>3. ASSUME NEW h \in RxTypes, h.hl = f.hl, h.total = Total(f), h.size = rx.size,
             Save(SizeKnown(Opened(h), o, n), o, BodyPart(o, n, h.hl))
      PROVE  \E r \in RxTypes :
                /\ r.hl = f.hl /\ r.total = Total(f) /\ r.written = 0 /\ r.open
                /\ HeaderWhole(o, n) \/ app = "cli" => r.size = f.body
                /\ ~ (HeaderWhole(o, n) \/ app = "cli") => r.size = rx.size
                /\ Save(r, o, BodyPart(o, n, f.hl))
  <2> DEFINE p == SizeKnown(Opened(h), o, n)
  <2>0. f \in Files /\ h \in RxTypes /\ h.hl = f.hl /\ h.total = Total(f)
    BY <1>3
  <2> HIDE DEF f
  <2>1. /\ p \in RxTypes
        /\ p.hl = f.hl /\ p.total = Total(f) /\ p.written = 0 /\ p.open
        /\ HeaderWhole(o, n) \/ app = "cli" => p.size = f.body
        /\ ~ (HeaderWhole(o, n) \/ app = "cli") => p.size = rx.size
    BY <1>3, <2>0, OpenedTypes
  <2>2. Save(p, o, BodyPart(o, n, f.hl))
    BY <1>3
  <2> HIDE DEF p
  <2>3. QED
    BY <2>1, <2>2
<1>4. CASE HeaderWhole(o, n)
  <2> DEFINE h == HdrCopied(o, n, n)
  <2>1. Save(SizeKnown(Opened(h), o, n), o, BodyPart(o, n, h.hl))
    BY <1>1, <1>4 DEF Receive, ReceiveHeader, ReceiveFirst, ReceiveRest, ReceiveData, HeaderOnly,
       HeaderEnds, HeaderWhole
  <2>2. o = 0 /\ Fixed - 1 \in o .. (o + n - 1) /\ Fixed - 1 < o + n
    BY <1>1, <1>4 DEF HeaderWhole
  <2>3. h \in RxTypes /\ h.hl = f.hl /\ h.total = Total(f) /\ h.size = rx.size
    BY <2>2, CopiedTypes
  <2> HIDE DEF h
  <2>4. QED
    BY <1>3, <2>1, <2>3
<1>5. CASE ~ HeaderWhole(o, n)
  <2> DEFINE h == HdrCopied(o, n, rx.hl - o)
  <2>1. ~ HeaderOnly(o, n) /\ HeaderEnds(o, n)
    BY <1>5 DEF HeaderEnds
  <2>2. Save(SizeKnown(Opened(h), o, n), o, BodyPart(o, n, h.hl))
    BY <1>5, <2>1 DEF Receive, ReceiveHeader, ReceiveFirst, ReceiveRest, ReceiveData
  <2>3. o + n >= Fixed
    BY <1>1, <2>1 DEF HeaderOnly
  <2>4. h.hl = f.hl
    BY <1>5, CopiedTypes
  <2>5. h.total = Total(f)
    <3>1. CASE o >= Fixed
      <4>1. rx.total = Total(f)
        BY <1>1, <1>5, <3>1
      <4>2. Fixed - 1 \notin o .. (o + (rx.hl - o) - 1)
        BY <1>1, <3>1
      <4>3. QED
        BY <4>1, <4>2, CopiedTypes
    <3>2. CASE o < Fixed
      <4>1. rx.hl >= Fixed
        BY <1>2, <1>5
      <4>2. QED
        BY <1>1, <1>2, <2>3, <3>2, <4>1, CopiedTypes
    <3>3. QED
      BY <1>1, <3>1, <3>2
  <2>6. h \in RxTypes /\ h.size = rx.size
    BY CopiedTypes
  <2> HIDE DEF h
  <2>7. QED
    BY <1>3, <2>2, <2>4, <2>5, <2>6
<1>6. QED
  BY <1>4, <1>5

(* The common end of the branches keeps the types.                         *)
LEMMA SaveTypes ==
    ASSUME flash \in FlashTypes, stack.file \in Files, NEW r \in RxTypes,
           NEW o \in Nat, NEW n \in Nat, o + n <= Total(stack.file),
           NEW part, part.at \in Nat, part.from \in Nat, part.len \in Nat,
           part.len <= Capacity => part.from + part.len <= n,
           Save(r, o, part)
    PROVE  /\ rx' \in RxTypes /\ flash' \in FlashTypes
           /\ rx'.hl = r.hl /\ rx'.total = r.total /\ rx'.size = r.size /\ rx'.open = r.open
           /\ rx'.written = (r.written + part.len) % SizeRange
<1>1. (r.written + part.len) % SizeRange \in Sizes
  BY InRange DEF RxTypes, Sizes
<1>2. rx' = [r EXCEPT !.written = (r.written + part.len) % SizeRange]
  BY DEF Save
<1>3. WriteAt(r, part) \in Nat /\ r.open \in BOOLEAN
  BY DEF WriteAt, RxTypes, Sizes
<1>4. Written(r, o, part) \in FlashTypes
  BY <1>3, WrittenTypes
<1>5. QED
  BY <1>1, <1>2, <1>4 DEF Save, RxTypes

(* What the handler does with a block, by the branch it takes: of the      *)
(* header it keeps what the file says, of the rest the storage takes no    *)
(* more than the block has.                                                *)
LEMMA BlockTypes ==
    ASSUME rx \in RxTypes, flash \in FlashTypes, stack.file \in Files, app \in {"sample", "cli"},
           rx.hl = 0 \/ rx.hl >= Fixed,
           NEW o \in Nat, NEW n \in Nat, n > 0, o + n <= Total(stack.file), Receive(o, n),
           o > 0 => HeaderOf(rx, stack.file, o + n) \/ HeaderOf(rx, stack.file, o)
    PROVE  /\ rx' \in RxTypes /\ flash' \in FlashTypes
           /\ rx'.hl = 0 \/ rx'.hl >= Fixed
           /\ HeaderOf(rx', stack.file, o + n)
<1> DEFINE f == stack.file
           part == BodyPart(o, n, f.hl)
<1>1. /\ f.hl \in Nat /\ Total(f) \in Nat /\ f.hl >= Fixed /\ Fixed \in Nat /\ Fixed > 1
      /\ SizeRange \in Nat /\ Capacity \in Nat
  BY Lengths
<1>2. rx.hl \in Nat
  BY DEF RxTypes, Sizes
<1>3. o > 0 => \/ rx.hl = f.hl /\ (o >= Fixed => rx.total = Total(f))
               \/ rx.hl = 0 /\ o + n >= Fixed
  BY <1>1 DEF HeaderOf
<1>4. CASE HeaderOnly(o, n)
  <2>1. rx' = HdrCopied(o, n, n) /\ flash' = flash
    BY <1>1, <1>4 DEF Receive, ReceiveHeader, ReceiveFirst, ReceiveRest, ReceiveData, HeaderOnly,
       HeaderWhole, HeaderEnds
  <2>2. o + n < Fixed
    BY <1>4 DEF HeaderOnly
  <2>3. rx' \in RxTypes /\ rx'.hl = IF o = 0 THEN f.hl ELSE rx.hl
    BY <2>1, CopiedTypes
  <2>4. rx'.hl = f.hl
    BY <1>1, <1>3, <2>2, <2>3
  <2>5. QED
    BY <1>1, <2>1, <2>2, <2>3, <2>4 DEF HeaderOf
<1>5. CASE \/ HeaderWhole(o, n)
           \/ ~ HeaderOnly(o, n) /\ o < rx.hl
  <2>1. \/ HeaderWhole(o, n)
        \/ /\ ~ HeaderOnly(o, n) /\ o < rx.hl /\ o < f.hl
           /\ o > 0 => rx.hl = f.hl /\ (o >= Fixed => rx.total = Total(f))
    BY <1>1, <1>3, <1>5
  <2>2. PICK r \in RxTypes : r.hl = f.hl /\ r.total = Total(f) /\ Save(r, o, part)
    BY <2>1, HeaderBlock
  <2>3. o < f.hl
    BY <1>1, <2>1 DEF HeaderWhole
  <2>4. /\ part.at \in Nat /\ part.from \in Nat /\ part.len \in Nat
        /\ part.len <= Capacity => part.from + part.len <= n
    BY <1>1, <2>3, BodyPartFits
  <2> HIDE DEF part
  <2>5. rx' \in RxTypes /\ flash' \in FlashTypes /\ rx'.hl = r.hl /\ rx'.total = r.total
    BY <2>2, <2>4, SaveTypes
  <2>6. QED
    BY <1>1, <2>2, <2>5 DEF HeaderOf
<1>6. CASE ~ HeaderOnly(o, n) /\ ~ HeaderWhole(o, n) /\ o >= rx.hl
  <2> DEFINE data == DataPart(o, n)
  <2>1. Save(rx, o, data)
    BY <1>1, <1>2, <1>6 DEF Receive, ReceiveHeader, ReceiveFirst, ReceiveRest, ReceiveData,
       HeaderEnds
  <2>2. o <= Total(f) /\ Total(f) < SizeRange
    BY <1>1, Lengths
  <2>3. data.at = o - rx.hl /\ data.from = 0 /\ data.len = n
    BY <1>1, <1>2, <1>6, <2>2, NoWrap DEF DataPart
  <2>4. data.at \in Nat /\ data.from \in Nat /\ data.len \in Nat /\ data.from + data.len <= n
    BY <1>2, <1>6, <2>3
  <2> HIDE DEF data
  <2>5. rx' \in RxTypes /\ flash' \in FlashTypes /\ rx'.hl = rx.hl /\ rx'.total = rx.total
    BY <2>1, <2>4, SaveTypes
  <2>6. o + n >= Fixed
    BY <1>1, <1>6 DEF HeaderOnly
  <2>7. HeaderOf(rx', f, o + n)
    <3>1. CASE o = 0
      BY <1>2, <1>6, <2>5, <2>6, <3>1 DEF HeaderOf
    <3>2. CASE o > 0 /\ rx.hl = f.hl /\ (o >= Fixed => rx.total = Total(f))
      BY <1>1, <1>6, <2>5, <3>2 DEF HeaderOf
    <3>3. CASE o > 0 /\ rx.hl = 0
      BY <2>5, <2>6, <3>3 DEF HeaderOf
    <3>4. QED
      BY <1>3, <3>1, <3>2, <3>3
  <2>8. QED
    BY <2>5, <2>7
<1>7. QED
  BY <1>1, <1>2, <1>4, <1>5, <1>6

LEMMA TypeStep == TypeInv /\ [OtaNext]_otaVars => TypeInv'
<1> SUFFICES ASSUME TypeInv, [OtaNext]_otaVars PROVE TypeInv'
  OBVIOUS
<1> DEFINE f == stack.file
           StackTypes == [state : {"normal", "downloading", "downloaded", "refused", "waiting"},
                          file : Files \cup {NoFile}, block : Nat, offset : Sizes, last : Sizes]
           BudgetTypes == [repeats : 0 .. MaxRepeats, reboots : 0 .. MaxReboots]
<1>1. /\ app \in Apps /\ app \in {"sample", "cli"} /\ rx \in RxTypes /\ stack \in StackTypes
      /\ stack.offset <= Total(f) /\ flash \in FlashTypes /\ ready \in Files \cup {NoFile}
      /\ clean \in BOOLEAN /\ budget \in BudgetTypes /\ HeaderKnown
  BY OtaAssumption DEF TypeInv, OtaTypeOK, RxTypes, FlashTypes
<1>2. ASSUME app' = app, rx' \in RxTypes, stack' \in StackTypes, stack'.offset <= Total(stack'.file),
             flash' \in FlashTypes, ready' \in Files \cup {NoFile}, clean' \in BOOLEAN,
             budget' \in BudgetTypes, HeaderKnown'
      PROVE  TypeInv'
  BY <1>1, <1>2 DEF TypeInv, OtaTypeOK, RxTypes, FlashTypes
<1>3. /\ 0 \in Sizes /\ SizeRange \in Nat /\ Fixed \in Nat /\ MaxRepeats \in Nat
      /\ MaxReboots \in Nat
  BY OtaAssumption DEF Sizes
<1>4. Idle \in StackTypes /\ Idle.offset <= Total(Idle.file) /\ Idle.state = "normal"
  BY <1>3 DEF Idle, Total, NoFile
<1>5. NoRx \in RxTypes /\ NoRx.hl = 0
  BY <1>3, OtaAssumption DEF NoRx, RxTypes
<1>6. ASSUME NEW o \in Nat, NEW n \in Nat, n > 0, o + n <= Total(f), Receive(o, n),
             f \in Files, o > 0 => HeaderOf(rx, f, o + n) \/ HeaderOf(rx, f, o)
      PROVE  /\ rx' \in RxTypes /\ flash' \in FlashTypes
             /\ rx'.hl = 0 \/ rx'.hl >= Fixed
             /\ HeaderOf(rx', f, o + n)
  BY <1>1, <1>6, BlockTypes DEF HeaderKnown
<1> HIDE DEF BudgetTypes
<1>7. ASSUME NEW g \in Files, NEW b, Start(g, b) PROVE TypeInv'
  <2>1. /\ stack' = [state |-> "downloading", file |-> g, block |-> b, offset |-> 0, last |-> 0]
        /\ clean' = TRUE /\ UNCHANGED <<app, rx, flash, ready, budget>> /\ b \in Blocks[app]
    BY <1>7 DEF Start
  <2>2. b \in Nat /\ b > 0 /\ 0 <= Total(g)
    BY <1>1, <2>1, OtaAssumption, Lengths
  <2>3. HeaderKnown'
    BY <1>1, <2>1, <2>2 DEF HeaderKnown
  <2>4. stack' \in StackTypes /\ stack'.offset <= Total(stack'.file)
    BY <1>3, <2>1, <2>2
  <2>5. QED
    BY <1>1, <1>2, <2>1, <2>3, <2>4
<1>8. CASE Block
  <2> DEFINE o == stack.offset
             n == BlockLen(o)
  <2>1. /\ stack.state = "downloading" /\ o < Total(f) /\ Receive(o, n)
        /\ stack' = [[stack EXCEPT !.offset = o + n] EXCEPT !.last = o]
        /\ UNCHANGED <<app, ready, clean, budget>>
    BY <1>8 DEF Block, Downloading
  <2>2. /\ f \in Files /\ stack.block > 0 /\ stack.block \in Nat /\ o \in Nat
        /\ o > 0 => HeaderOf(rx, f, o)
    BY <1>1, <2>1 DEF HeaderKnown, Sizes
  <2>3. Total(f) \in Nat /\ Total(f) < SizeRange
    BY <2>2, Lengths
  <2>4. n \in Nat /\ n > 0 /\ o + n <= Total(f)
    BY <2>1, <2>2, <2>3 DEF BlockLen
  <2>5. /\ rx' \in RxTypes /\ flash' \in FlashTypes /\ (rx'.hl = 0 \/ rx'.hl >= Fixed)
        /\ HeaderOf(rx', f, o + n)
    <3> HIDE DEF n, o, f
    <3>1. QED
      BY <1>6, <2>1, <2>2, <2>4
  <2>6. o + n \in Sizes /\ o \in Sizes
    BY <1>3, <2>2, <2>3, <2>4 DEF Sizes
  <2>7. /\ stack' \in StackTypes /\ stack'.offset = o + n /\ stack'.last = o /\ stack'.file = f
        /\ stack'.state = "downloading" /\ stack'.block = stack.block
    BY <1>1, <2>1, <2>6
  <2>8. o < o + n
    BY <2>2, <2>4
  <2>9. HeaderKnown'
    <3> HIDE DEF n, o, f
    <3>1. QED
      BY <2>2, <2>5, <2>7, <2>8 DEF HeaderKnown
  <2>10. stack'.offset <= Total(stack'.file)
    BY <2>4, <2>7
  <2> HIDE DEF n, o, StackTypes
  <2>11. QED
    BY <1>1, <1>2, <2>1, <2>5, <2>7, <2>9, <2>10
<1>9. CASE Repeat
  <2> DEFINE o == stack.last
             n == stack.offset - o
  <2>1. /\ stack.state = "downloading" /\ stack.offset > 0 /\ budget.repeats > 0 /\ Receive(o, n)
        /\ clean' = FALSE /\ budget' = [budget EXCEPT !.repeats = @ - 1]
        /\ UNCHANGED <<app, stack, ready>>
    BY <1>9 DEF Repeat
  <2>2. /\ f \in Files /\ o \in Nat /\ stack.offset \in Nat /\ o < stack.offset
        /\ HeaderOf(rx, f, stack.offset)
    BY <1>1, <2>1 DEF HeaderKnown, Sizes
  <2>3. n \in Nat /\ n > 0 /\ o + n = stack.offset
    BY <2>2
  <2>4. /\ rx' \in RxTypes /\ flash' \in FlashTypes /\ (rx'.hl = 0 \/ rx'.hl >= Fixed)
        /\ HeaderOf(rx', f, o + n)
    <3> HIDE DEF n, o
    <3>1. QED
      BY <1>1, <1>6, <2>1, <2>2, <2>3
  <2>5. HeaderKnown'
    BY <1>1, <2>1, <2>3, <2>4 DEF HeaderKnown
  <2>6. budget' \in BudgetTypes
    BY <1>1, <1>3, <2>1 DEF BudgetTypes
  <2> HIDE DEF n, o, StackTypes
  <2>7. QED
    BY <1>1, <1>2, <2>1, <2>4, <2>5, <2>6
<1>10. ASSUME stack' = Idle, rx' \in RxTypes, rx'.hl = 0 \/ rx'.hl >= Fixed,
              UNCHANGED <<app, flash, ready, clean, budget>>
       PROVE  TypeInv'
  <2>1. HeaderKnown'
    BY <1>4, <1>10 DEF HeaderKnown
  <2>2. QED
    BY <1>1, <1>2, <1>4, <1>10, <2>1
<1>11. CASE OpenFails
  <2> DEFINE o == stack.offset
             n == BlockLen(o)
             h == HdrCopied(o, n, IF HeaderWhole(o, n) THEN n ELSE rx.hl - o)
  <2>1. /\ stack.state = "downloading" /\ stack' = Idle
        /\ UNCHANGED <<app, flash, ready, clean, budget>> /\ rx' = [h EXCEPT !.open = FALSE]
    BY <1>11 DEF OpenFails, Downloading
  <2>2. f \in Files /\ f.hl >= Fixed
    BY <1>1, <2>1, Lengths DEF HeaderKnown
  <2>3. h \in RxTypes /\ h.hl = IF o = 0 THEN f.hl ELSE rx.hl
    BY <1>1, <2>2, CopiedTypes
  <2> HIDE DEF h
  <2>4. rx' \in RxTypes /\ rx'.hl = h.hl
    BY <2>1, <2>3 DEF RxTypes
  <2>5. QED
    BY <1>1, <1>10, <2>1, <2>2, <2>3, <2>4 DEF HeaderKnown
<1>12. CASE Abort \/ Refusal \/ Finish
  BY <1>1, <1>10, <1>12 DEF Abort, Refusal, Finish, HeaderKnown
<1>13. CASE Check
  <2>1. PICK s \in {"downloaded", "refused"} :
          /\ stack.state = "downloading" /\ stack' = [stack EXCEPT !.state = s]
          /\ rx' = [rx EXCEPT !.open = FALSE] /\ UNCHANGED <<app, flash, ready, clean, budget>>
    BY <1>13 DEF Check
  <2>2. /\ stack' \in StackTypes /\ stack'.state = s /\ stack'.file = f
        /\ stack'.offset = stack.offset
    BY <1>1, <2>1
  <2>3. rx' \in RxTypes /\ rx'.hl = rx.hl
    BY <1>1, <2>1 DEF RxTypes
  <2>4. HeaderKnown'
    BY <1>1, <2>1, <2>2, <2>3 DEF HeaderKnown
  <2>5. QED
    BY <1>1, <1>2, <2>1, <2>2, <2>3, <2>4
<1>14. CASE Apply
  <2>1. /\ stack.state = "downloaded" /\ stack' = [stack EXCEPT !.state = "waiting"]
        /\ ready' = f /\ UNCHANGED <<app, rx, flash, clean, budget>>
    BY <1>14 DEF Apply
  <2>2. /\ stack' \in StackTypes /\ stack'.state = "waiting" /\ stack'.file = f
        /\ stack'.offset = stack.offset
    BY <1>1, <2>1
  <2>3. HeaderKnown'
    BY <1>1, <2>1, <2>2 DEF HeaderKnown
  <2>4. QED
    BY <1>1, <1>2, <2>1, <2>2, <2>3
<1>15. CASE ServerNotFound
  BY <1>1, <1>2, <1>15 DEF ServerNotFound, HeaderKnown
<1>16. CASE Restart
  <2>1. budget' \in BudgetTypes
    BY <1>1, <1>3, <1>16 DEF Restart, BudgetTypes
  <2>2. HeaderKnown'
    BY <1>4, <1>5, <1>16 DEF Restart, HeaderKnown
  <2>3. QED
    BY <1>1, <1>2, <1>4, <1>5, <1>16, <2>1, <2>2 DEF Restart
<1>17. CASE UNCHANGED otaVars
  BY <1>1, <1>2, <1>17 DEF otaVars, HeaderKnown
<1>18. QED
  BY <1>7, <1>8, <1>9, <1>11, <1>12, <1>13, <1>14, <1>15, <1>16, <1>17 DEF OtaNext

LEMMA TypeInvHolds == OtaSpec => []TypeInv
<1>1. OtaInit => TypeInv
  <2> SUFFICES ASSUME OtaInit PROVE TypeInv
    OBVIOUS
  <2>1. 0 \in Sizes /\ Capacity \in Nat /\ MaxRepeats \in Nat /\ MaxReboots \in Nat
    BY OtaAssumption DEF Sizes
  <2>2. QED
    BY <2>1 DEF OtaInit, TypeInv, OtaTypeOK, HeaderKnown, NoRx, Idle, Blank, NoFile, Total
<1>2. QED
  BY <1>1, TypeStep, PTL DEF OtaSpec

(* Every variable keeps its type, whatever the sizes of the blocks and     *)
(* however often they come: the size computed from the header never wraps  *)
(* around and is never more than the storage holds, and what is written is *)
(* a part of the block.                                                    *)
THEOREM TypesAreKept == OtaSpec => []OtaTypeOK
<1>1. TypeInv => OtaTypeOK
  BY DEF TypeInv
<1>2. QED
  BY <1>1, TypeInvHolds, PTL

-----------------------------------------------------------------------------
(* The count of what was written, for both applications: it is what has    *)
(* come of the body and, for every block behind the header that came       *)
(* twice, its length more.  As long as nothing was counted twice, what has *)
(* come is in the storage; with ota_client_zed it is so anyhow (OtaInv).   *)

BlocksFit == HeaderSplits /\ CountIsExact

CountedAs(e) ==
    /\ rx.written = stack.offset - stack.file.hl + e
    /\ e <= (MaxRepeats - budget.repeats) * stack.block
    /\ clean => e = 0
    /\ e = 0 => Got(stack.offset)

Counted ==
    /\ stack.state = "downloading" => stack.block \in Blocks[app]
    /\ stack.state = "downloading" /\ stack.offset > 0 =>
          /\ rx.hl = stack.file.hl
          /\ stack.offset >= Fixed =>
                rx.total = Total(stack.file) /\ rx.open /\ (SizeTold => rx.size = stack.file.body)
          /\ stack.last = 0 => stack.offset # Fixed
          /\ app = "sample" /\ SizeTold =>
                stack.offset >= Fixed /\ (stack.last = 0 \/ stack.last >= Fixed)
          /\ stack.offset - stack.last <= stack.block
          /\ stack.offset >= stack.file.hl => \E e \in Nat : CountedAs(e)
    /\ stack.state = "refused" /\ SizeTold => ~ clean
    /\ stack.state = "downloaded" => Holds(stack.file)

CountInv == TypeInv /\ Counted

LEMMA Spares ==
    ASSUME NEW r \in 0 .. MaxRepeats, NEW b \in Nat
    PROVE  /\ (MaxRepeats - r) * b \in Nat /\ (MaxRepeats - r) * b <= MaxRepeats * b
           /\ (MaxRepeats - (r - 1)) * b = (MaxRepeats - r) * b + b
<1>1. MaxRepeats \in Nat
  BY OtaAssumption
<1>2. MaxRepeats - r \in Nat /\ r \in Nat
  BY <1>1
<1>3. \A x, y \in Nat : x * y \in Nat
  OBVIOUS
<1>4. MaxRepeats * b = (MaxRepeats - r) * b + r * b
  BY <1>1, <1>2
<1>5. (MaxRepeats - (r - 1)) * b = (MaxRepeats - r) * b + b
  BY <1>1, <1>2
<1>6. (MaxRepeats - r) * b \in Nat /\ r * b \in Nat
  BY <1>2, <1>3
<1>7. QED
  BY <1>4, <1>5, <1>6

(* What the handler does with a block, for the count.                      *)
LEMMA BlockIsCounted ==
    ASSUME rx \in RxTypes, stack.file \in Files, app \in {"sample", "cli"},
           rx.hl = 0 \/ rx.hl >= Fixed, NEW told \in BOOLEAN,
           NEW o \in Nat, NEW n \in Nat, n > 0, o + n <= Total(stack.file), Receive(o, n),
           o = 0 => n # Fixed,
           o > 0 => rx.hl = stack.file.hl,
           o >= Fixed => /\ rx.total = Total(stack.file) /\ rx.open
                         /\ told => rx.size = stack.file.body,
           app = "sample" /\ told => (o = 0 /\ n > Fixed) \/ o >= Fixed
    PROVE  /\ rx'.hl = stack.file.hl
           /\ o + n >= Fixed => /\ rx'.total = Total(stack.file) /\ rx'.open
                                /\ told => rx'.size = stack.file.body
           /\ o < stack.file.hl /\ o + n >= stack.file.hl => rx'.written = o + n - stack.file.hl
           /\ o >= stack.file.hl => rx'.written = (rx.written + n) % SizeRange
           /\ \/ o < stack.file.hl /\ o + n >= stack.file.hl
              \/ o >= stack.file.hl /\ rx.written = o - stack.file.hl
              => flash' = [k \in Units |-> IF stack.file.hl + k \in o .. (o + n - 1)
                                           THEN Unit(stack.file, stack.file.hl + k) ELSE flash[k]]
<1> DEFINE f == stack.file
           part == BodyPart(o, n, f.hl)
           lands(k) == IF f.hl + k \in o .. (o + n - 1) THEN Unit(f, f.hl + k) ELSE flash[k]
<1>1. /\ f.hl \in Nat /\ f.body \in Nat /\ Total(f) \in Nat /\ Total(f) = f.hl + f.body
      /\ f.hl >= Fixed /\ Fixed \in Nat /\ Fixed > 1 /\ f.body <= Capacity /\ Total(f) < SizeRange
      /\ SizeRange \in Nat /\ Capacity \in Nat
  BY Lengths
<1>2. rx.hl \in Nat
  BY DEF RxTypes, Sizes
<1>3. CASE HeaderOnly(o, n)
  <2>1. rx' = HdrCopied(o, n, n) /\ flash' = flash /\ o + n < Fixed
    BY <1>1, <1>3 DEF Receive, ReceiveHeader, ReceiveFirst, ReceiveRest, ReceiveData, HeaderOnly,
       HeaderWhole, HeaderEnds
  <2>2. rx'.hl = IF o = 0 THEN f.hl ELSE rx.hl
    BY <2>1, CopiedTypes
  <2>3. rx'.hl = f.hl
    BY <2>2
  <2>4. o < f.hl /\ o + n < f.hl
    BY <1>1, <2>1
  <2>5. QED
    BY <1>1, <2>1, <2>3, <2>4
<1>4. CASE ~ HeaderOnly(o, n) /\ o < f.hl
  <2>1. \/ HeaderWhole(o, n)
        \/ /\ ~ HeaderOnly(o, n) /\ o < rx.hl /\ o < f.hl
           /\ o > 0 => rx.hl = f.hl /\ (o >= Fixed => rx.total = Total(f))
    BY <1>1, <1>2, <1>4 DEF HeaderOnly, HeaderWhole
  <2>2. PICK r \in RxTypes :
          /\ r.hl = f.hl /\ r.total = Total(f) /\ r.written = 0 /\ r.open
          /\ HeaderWhole(o, n) \/ app = "cli" => r.size = f.body
          /\ ~ (HeaderWhole(o, n) \/ app = "cli") => r.size = rx.size
          /\ Save(r, o, part)
    BY <2>1, HeaderBlock
  <2>3. told => r.size = f.body
    BY <1>1, <2>2 DEF HeaderWhole
  <2>4. /\ part.at = 0 /\ part.from = f.hl - o /\ part.len \in Nat
        /\ o + n >= f.hl => part.len = o + n - f.hl
    BY <1>1, <1>4, BodyPartFits
  <2>5. WriteAt(r, part) = 0
    BY <2>2, <2>4 DEF WriteAt
  <2> HIDE DEF part
  <2>6. rx' = [r EXCEPT !.written = (0 + part.len) % SizeRange]
    BY <2>2 DEF Save
  <2>7. /\ rx'.hl = f.hl /\ rx'.total = Total(f) /\ (told => rx'.size = f.body) /\ rx'.open
        /\ rx'.written = part.len % SizeRange
    BY <2>2, <2>3, <2>4, <2>6 DEF RxTypes
  <2>8. o + n >= f.hl => /\ rx'.written = o + n - f.hl
                         /\ flash' = [k \in Units |-> lands(k)]
    <3> SUFFICES ASSUME o + n >= f.hl
                 PROVE  rx'.written = o + n - f.hl /\ flash' = [k \in Units |-> lands(k)]
      OBVIOUS
    <3>1. part.len = o + n - f.hl /\ part.len < SizeRange /\ 0 + part.len <= Capacity
      BY <1>1, <2>4
    <3>2. rx'.written = o + n - f.hl
      <4> DEFINE m == o + n - f.hl
      <4>1. m \in Nat /\ m < SizeRange /\ rx'.written = m % SizeRange
        BY <1>1, <2>7, <3>1
      <4> HIDE DEF m
      <4>2. m % SizeRange = m
        BY <1>1, <4>1
      <4>3. QED
        BY <4>1, <4>2 DEF m
    <3>3. flash' = [k \in Units |-> IF k \in 0 .. (0 + part.len - 1)
                                    THEN Unit(f, o + part.from + (k - 0)) ELSE flash[k]]
      BY <1>1, <2>2, <2>5, <3>1 DEF Save, Written
    <3>4. ASSUME NEW k \in Units
          PROVE  (IF k \in 0 .. (0 + part.len - 1) THEN Unit(f, o + part.from + (k - 0)) ELSE flash[k])
                 = lands(k)
      BY <1>1, <1>4, <2>4, <3>1 DEF Units
    <3> HIDE DEF lands
    <3>5. QED
      BY <3>2, <3>3, <3>4
  <2>9. QED
    BY <1>1, <1>4, <2>7, <2>8
<1>5. CASE ~ HeaderOnly(o, n) /\ o >= f.hl
  <2> DEFINE data == DataPart(o, n)
  <2>1. Save(rx, o, data)
    BY <1>1, <1>2, <1>5 DEF Receive, ReceiveHeader, ReceiveFirst, ReceiveRest, ReceiveData,
       HeaderEnds, HeaderWhole
  <2>2. o > 0 /\ o <= Total(f) /\ o < SizeRange /\ o >= Fixed
    BY <1>1, <1>5
  <2>3. data = [at |-> o - f.hl, from |-> 0, len |-> n]
    BY <1>1, <1>5, <2>2, NoWrap DEF DataPart
  <2>4. rx' = [rx EXCEPT !.written = (rx.written + n) % SizeRange]
    BY <2>1, <2>3 DEF Save
  <2>5. rx.written = o - f.hl => flash' = [k \in Units |-> lands(k)]
    <3> SUFFICES ASSUME rx.written = o - f.hl PROVE flash' = [k \in Units |-> lands(k)]
      OBVIOUS
    <3>1. WriteAt(rx, data) = o - f.hl
      BY <2>3 DEF WriteAt
    <3>2. flash' = [k \in Units |-> IF k \in (o - f.hl) .. (o - f.hl + n - 1)
                                   THEN Unit(f, o + 0 + (k - (o - f.hl))) ELSE flash[k]]
      BY <1>1, <1>5, <2>1, <2>2, <2>3, <3>1 DEF Save, Written
    <3>3. ASSUME NEW k \in Units
          PROVE  (IF k \in (o - f.hl) .. (o - f.hl + n - 1)
                  THEN Unit(f, o + 0 + (k - (o - f.hl))) ELSE flash[k]) = lands(k)
      BY <1>1, <1>5 DEF Units
    <3> HIDE DEF lands
    <3>4. QED
      BY <3>2, <3>3
  <2>6. /\ rx'.hl = f.hl /\ rx'.total = Total(f) /\ (told => rx'.size = f.body) /\ rx'.open
        /\ rx'.written = (rx.written + n) % SizeRange
    BY <2>2, <2>4 DEF RxTypes
  <2>7. QED
    BY <1>1, <1>5, <2>5, <2>6
<1>6. QED
  BY <1>1, <1>3, <1>4, <1>5

LEMMA CountStep ==
    ASSUME BlocksFit, CountInv, OtaInv, OtaNext
    PROVE  Counted'
<1> DEFINE f == stack.file
           StackTypes == [state : {"normal", "downloading", "downloaded", "refused", "waiting"},
                          file : Files \cup {NoFile}, block : Nat, offset : Sizes, last : Sizes]
<1>1. /\ app \in Apps /\ app \in {"sample", "cli"} /\ rx \in RxTypes /\ stack \in StackTypes
      /\ flash \in FlashTypes /\ budget.repeats \in 0 .. MaxRepeats
      /\ rx.hl = 0 \/ rx.hl >= Fixed
      /\ budget \in [repeats : 0 .. MaxRepeats, reboots : 0 .. MaxReboots]
  BY OtaAssumption DEF CountInv, TypeInv, OtaTypeOK, HeaderKnown, RxTypes, FlashTypes
<1>2. Counted /\ HeaderKnown
  BY DEF CountInv, TypeInv
<1>3. ASSUME NEW g \in Files, NEW b, Start(g, b) PROVE Counted'
  <2>1. /\ stack' = [state |-> "downloading", file |-> g, block |-> b, offset |-> 0, last |-> 0]
        /\ app' = app /\ b \in Blocks[app]
    BY <1>3 DEF Start
  <2>2. /\ stack'.state = "downloading" /\ stack'.block = b /\ ~ (stack'.offset > 0)
    BY <2>1
  <2>3. QED
    BY <2>1, <2>2 DEF Counted
<1>4. ASSUME stack.state = "downloading"
      PROVE  /\ f \in Files /\ stack.block \in Blocks[app] /\ stack.block \in Nat
             /\ stack.offset \in Nat /\ stack.last \in Nat /\ stack.offset <= Total(f)
             /\ stack.block > 0
             /\ stack.block # Fixed
             /\ f.body + MaxRepeats * stack.block < SizeRange
  <2>1. f \in Files /\ stack.block \in Blocks[app] /\ stack.block > 0
    BY <1>2, <1>4 DEF Counted, HeaderKnown
  <2>2. stack.offset <= Total(f)
    BY DEF CountInv, TypeInv, OtaTypeOK
  <2>3. stack.block # Fixed
    BY <1>1, <2>1 DEF BlocksFit, HeaderSplits
  <2>4. QED
    BY <1>1, <2>1, <2>2, <2>3 DEF BlocksFit, CountIsExact, Sizes
<1>5. ASSUME stack.state = "downloading", NEW e \in Nat, NEW m \in Nat, m <= f.body,
             e <= MaxRepeats * stack.block
      PROVE  (m + e) % SizeRange = m + e
  <2>1. f.body \in Nat /\ SizeRange \in Nat
    BY <1>4, <1>5, Lengths
  <2>2. MaxRepeats * stack.block \in Nat
    BY <1>1, <1>4, <1>5, Spares, OtaAssumption
  <2> DEFINE q == MaxRepeats * stack.block
  <2>3. f.body + q < SizeRange /\ q \in Nat /\ e <= q
    BY <1>4, <1>5, <2>2
  <2> HIDE DEF q
  <2>4. m + e < SizeRange
    BY <2>1, <2>3, <1>5
  <2>5. QED
    BY <2>1, <2>4
<1>6. CASE Block
  <2> DEFINE o == stack.offset
             n == BlockLen(o)
             b == stack.block
             room == (MaxRepeats - budget.repeats) * b
  <2>1. /\ stack.state = "downloading" /\ o < Total(f) /\ Receive(o, n)
        /\ stack' = [[stack EXCEPT !.offset = o + n] EXCEPT !.last = o]
        /\ UNCHANGED <<app, ready, clean, budget>>
    BY <1>6 DEF Block, Downloading
  <2>2. /\ f \in Files /\ b \in Nat /\ b > 0 /\ o \in Nat /\ b \in Blocks[app] /\ b # Fixed
    BY <1>4, <2>1
  <2>3. /\ f.hl \in Nat /\ f.body \in Nat /\ Total(f) \in Nat /\ Total(f) = f.hl + f.body
        /\ f.hl >= Fixed /\ Fixed \in Nat /\ Fixed > 1 /\ f.body > 0 /\ SizeRange \in Nat
        /\ Capacity \in Nat
    BY <2>2, Lengths
  <2>4. n \in Nat /\ n > 0 /\ o + n <= Total(f) /\ n <= b /\ (n = b \/ o + n = Total(f))
    BY <2>1, <2>2, <2>3 DEF BlockLen
  <2>5. /\ o > 0 => rx.hl = f.hl
        /\ o >= Fixed => rx.total = Total(f) /\ rx.open /\ (SizeTold => rx.size = f.body)
        /\ app = "sample" /\ SizeTold => o = 0 \/ o >= Fixed
        /\ o >= f.hl => \E e \in Nat : CountedAs(e)
    BY <1>2, <2>1, <2>2, <2>3 DEF Counted
  <2>6. o = 0 => n # Fixed /\ (app = "sample" /\ SizeTold => n > Fixed)
    BY <2>2, <2>3, <2>4 DEF SizeTold
  <2>7. /\ rx'.hl = f.hl
        /\ o + n >= Fixed => rx'.total = Total(f) /\ rx'.open /\ (SizeTold => rx'.size = f.body)
        /\ o < f.hl /\ o + n >= f.hl => rx'.written = o + n - f.hl
        /\ o >= f.hl => rx'.written = (rx.written + n) % SizeRange
        /\ \/ o < f.hl /\ o + n >= f.hl
           \/ o >= f.hl /\ rx.written = o - f.hl
           => flash' = [k \in Units |-> IF f.hl + k \in o .. (o + n - 1)
                                        THEN Unit(f, f.hl + k) ELSE flash[k]]
    <3> HIDE DEF n, o
    <3>1. app = "sample" /\ SizeTold => (o = 0 /\ n > Fixed) \/ o >= Fixed
      BY <2>5, <2>6
    <3>2. SizeTold \in BOOLEAN
      BY DEF SizeTold
    <3> HIDE DEF f
    <3>3. QED
      BY <1>1, <2>1, <2>2, <2>4, <2>5, <2>6, <3>1, <3>2, BlockIsCounted DEF f
  <2>8. /\ stack'.offset = o + n /\ stack'.last = o /\ stack'.file = f /\ stack'.block = b
        /\ stack'.state = "downloading"
    BY <1>1, <2>1
  <2> DEFINE told == SizeTold
  <2>15. SizeTold' <=> told
    BY <2>1, <2>8 DEF SizeTold
  <2> HIDE DEF told
  <2>9. room \in Nat /\ room <= MaxRepeats * b
    BY <1>1, <2>2, Spares
  <2> HIDE DEF n, room
  <2>10. o + n >= f.hl => \E e \in Nat : CountedAs(e)'
    <3> SUFFICES ASSUME o + n >= f.hl PROVE \E e \in Nat : CountedAs(e)'
      OBVIOUS
    <3>1. ASSUME NEW e \in Nat, rx'.written = o + n - f.hl + e, e <= room, clean => e = 0,
                 e = 0 => \A k \in Units : f.hl + k < o + n => flash'[k] = Unit(f, f.hl + k)
          PROVE  CountedAs(e)'
      <4>1. stack'.offset = o + n /\ stack'.file = f /\ stack'.block = b
        BY <2>8
      <4>2. CountedAs(e)' <=> /\ rx'.written = stack'.offset - stack'.file.hl + e
                              /\ e <= (MaxRepeats - budget'.repeats) * stack'.block
                              /\ clean' => e = 0
                              /\ e = 0 => \A k \in Units : stack'.file.hl + k < stack'.offset
                                             => flash'[k] = Unit(stack'.file, stack'.file.hl + k)
        BY DEF CountedAs, Got
      <4>3. QED
        BY <2>1, <2>2, <2>3, <2>4, <3>1, <4>1, <4>2 DEF room
    <3>2. CASE o < f.hl
      <4>1. \A k \in Units : f.hl + k < o + n => flash'[k] = Unit(f, f.hl + k)
        <5>1. ASSUME NEW k \in Units, f.hl + k < o + n PROVE f.hl + k \in o .. (o + n - 1)
          BY <2>2, <2>3, <2>4, <3>2, <5>1 DEF Units
        <5>2. flash' = [k \in Units |-> IF f.hl + k \in o .. (o + n - 1)
                                        THEN Unit(f, f.hl + k) ELSE flash[k]]
          BY <2>7, <3>2
        <5>3. QED
          BY <5>1, <5>2
      <4>2. rx'.written = o + n - f.hl + 0
        BY <2>2, <2>3, <2>4, <2>7, <3>2
      <4>3. QED
        BY <2>9, <3>1, <4>1, <4>2
    <3>3. CASE o >= f.hl
      <4>1. PICK e \in Nat : CountedAs(e)
        BY <2>5, <3>3
      <4>2. /\ rx.written = o - f.hl + e /\ e <= room /\ (clean => e = 0)
            /\ e = 0 => Got(o)
        BY <4>1 DEF CountedAs, room
      <4>3. (o + n - f.hl + e) % SizeRange = o + n - f.hl + e
        <5>1. o + n - f.hl \in Nat /\ o + n - f.hl <= f.body
          BY <2>2, <2>3, <2>4, <3>3
        <5>2. e <= MaxRepeats * stack.block
          <6> DEFINE q == MaxRepeats * stack.block
          <6>1. q \in Nat /\ room <= q
            BY <1>1, <2>2, <2>9, Spares, OtaAssumption
          <6> HIDE DEF q
          <6>2. e <= q
            BY <2>9, <4>2, <6>1
          <6>3. QED
            BY <6>2 DEF q
        <5> DEFINE m == o + n - f.hl
        <5> HIDE DEF m
        <5>3. (m + e) % SizeRange = m + e
          BY <1>5, <2>1, <5>1, <5>2 DEF m
        <5>4. QED
          BY <5>3 DEF m
      <4>4. rx'.written = o + n - f.hl + e
        <5>1. rx.written + n = o + n - f.hl + e
          BY <2>2, <2>3, <2>4, <4>2
        <5>2. rx'.written = (rx.written + n) % SizeRange
          BY <2>7, <3>3
        <5>3. QED
          BY <4>3, <5>1, <5>2
      <4>5. e = 0 => \A k \in Units : f.hl + k < o + n => flash'[k] = Unit(f, f.hl + k)
        <5> SUFFICES ASSUME e = 0, NEW k \in Units, f.hl + k < o + n
                     PROVE  flash'[k] = Unit(f, f.hl + k)
          OBVIOUS
        <5>1. Got(o) /\ rx.written = o - f.hl /\ k \in Nat
          BY <2>2, <2>3, <4>2 DEF Units
        <5>2. flash'[k] = IF f.hl + k \in o .. (o + n - 1) THEN Unit(f, f.hl + k) ELSE flash[k]
          BY <2>7, <3>3, <5>1
        <5>3. CASE f.hl + k < o
          BY <2>2, <2>3, <2>4, <5>1, <5>2, <5>3 DEF Got
        <5>4. CASE f.hl + k >= o
          BY <2>2, <2>3, <2>4, <5>1, <5>2, <5>4
        <5>5. QED
          BY <2>2, <2>3, <5>1, <5>3, <5>4
      <4>6. QED
        BY <3>1, <4>2, <4>4, <4>5
    <3>4. QED
      BY <2>2, <2>3, <3>2, <3>3
  <2>11. app = "sample" /\ told => o + n >= Fixed
    BY <2>2, <2>3, <2>4, <2>5, <2>6 DEF told
  <2>12. o = 0 => o + n # Fixed
    BY <2>4, <2>6
  <2>13. o + n - o <= b
    BY <2>2, <2>4
  <2>14. QED
    <3> HIDE DEF o, b, f
    <3>1. rx'.hl = stack'.file.hl
      BY <2>7, <2>8
    <3>2. stack'.offset >= Fixed =>
             rx'.total = Total(stack'.file) /\ rx'.open /\ (SizeTold' => rx'.size = stack'.file.body)
      BY <2>7, <2>8, <2>15 DEF told
    <3>3. app' = "sample" /\ SizeTold' =>
             stack'.offset >= Fixed /\ (stack'.last = 0 \/ stack'.last >= Fixed)
      BY <2>1, <2>5, <2>8, <2>11, <2>15 DEF told
    <3>4. stack'.block \in Blocks[app']
      BY <2>1, <2>2, <2>8
    <3>5. (stack'.last = 0 => stack'.offset # Fixed) /\ stack'.offset - stack'.last <= stack'.block
      <4>1. stack'.offset = o + n /\ stack'.last = o /\ stack'.block = b
        BY <2>8
      <4>2. QED
        BY <2>2, <2>4, <2>12, <2>13, <4>1
    <3>6. stack'.offset >= stack'.file.hl => \E e \in Nat : CountedAs(e)'
      BY <2>8, <2>10
    <3>7. QED
      BY <2>8, <3>1, <3>2, <3>3, <3>4, <3>5, <3>6 DEF Counted

<1>7. CASE Repeat
  <2> DEFINE o == stack.last
             n == stack.offset - o
             b == stack.block
             room == (MaxRepeats - budget.repeats) * b
  <2>1. /\ stack.state = "downloading" /\ stack.offset > 0 /\ budget.repeats > 0 /\ Receive(o, n)
        /\ clean' = FALSE /\ budget' = [budget EXCEPT !.repeats = @ - 1]
        /\ UNCHANGED <<app, stack, ready>>
    BY <1>7 DEF Repeat
  <2>2. /\ f \in Files /\ b \in Nat /\ b > 0 /\ o \in Nat /\ stack.offset \in Nat
        /\ b \in Blocks[app] /\ b # Fixed /\ stack.offset <= Total(f)
    BY <1>4, <2>1
  <2>3. /\ f.hl \in Nat /\ f.body \in Nat /\ Total(f) \in Nat /\ Total(f) = f.hl + f.body
        /\ f.hl >= Fixed /\ Fixed \in Nat /\ Fixed > 1 /\ SizeRange \in Nat /\ Capacity \in Nat
    BY <2>2, Lengths
  <2>4. /\ rx.hl = f.hl
        /\ stack.offset >= Fixed => rx.total = Total(f) /\ rx.open /\ (SizeTold => rx.size = f.body)
        /\ o = 0 => stack.offset # Fixed
        /\ app = "sample" /\ SizeTold => stack.offset >= Fixed /\ (o = 0 \/ o >= Fixed)
        /\ n <= b
        /\ stack.offset >= f.hl => \E e \in Nat : CountedAs(e)
    BY <1>2, <2>1 DEF Counted
  <2>5. o < stack.offset
    BY <1>2, <2>1 DEF HeaderKnown
  <2>6. n \in Nat /\ n > 0 /\ o + n = stack.offset /\ o + n <= Total(f)
    BY <2>2, <2>5
  <2>7. /\ rx'.hl = f.hl
        /\ o + n >= Fixed => rx'.total = Total(f) /\ rx'.open /\ (SizeTold => rx'.size = f.body)
        /\ o < f.hl /\ o + n >= f.hl => rx'.written = o + n - f.hl
        /\ o >= f.hl => rx'.written = (rx.written + n) % SizeRange
        /\ \/ o < f.hl /\ o + n >= f.hl
           \/ o >= f.hl /\ rx.written = o - f.hl
           => flash' = [k \in Units |-> IF f.hl + k \in o .. (o + n - 1)
                                        THEN Unit(f, f.hl + k) ELSE flash[k]]
    <3>1. o = 0 => n # Fixed
      BY <2>2, <2>4
    <3>2. app = "sample" /\ SizeTold => (o = 0 /\ n > Fixed) \/ o >= Fixed
      BY <2>2, <2>3, <2>4
    <3>3. o >= Fixed => rx.total = Total(f) /\ rx.open /\ (SizeTold => rx.size = f.body)
      BY <2>2, <2>3, <2>4, <2>5
    <3>4. SizeTold \in BOOLEAN
      BY DEF SizeTold
    <3> HIDE DEF n, o, f
    <3>5. QED
      BY <1>1, <2>1, <2>2, <2>4, <2>6, <3>1, <3>2, <3>3, <3>4, BlockIsCounted DEF f
  <2>8. /\ room \in Nat /\ room <= MaxRepeats * b /\ (MaxRepeats - budget'.repeats) * b = room + b
        /\ room + b <= MaxRepeats * b
    <3>1. budget'.repeats = budget.repeats - 1 /\ budget'.repeats \in 0 .. MaxRepeats
      BY <1>1, <2>1, OtaAssumption
    <3>2. /\ room \in Nat /\ room <= MaxRepeats * b
          /\ (MaxRepeats - (budget.repeats - 1)) * b = room + b
      BY <1>1, <2>2, Spares
    <3>3. (MaxRepeats - budget'.repeats) * b <= MaxRepeats * b
      BY <2>2, <3>1, Spares
    <3>4. QED
      BY <3>1, <3>2, <3>3
  <2> HIDE DEF n, room
  <2>9. stack.offset >= f.hl => \E e \in Nat : CountedAs(e)'
    <3> SUFFICES ASSUME stack.offset >= f.hl PROVE \E e \in Nat : CountedAs(e)'
      OBVIOUS
    <3>1. ASSUME NEW e \in Nat, rx'.written = o + n - f.hl + e, e <= room + b,
                 e = 0 => \A k \in Units : f.hl + k < o + n => flash'[k] = Unit(f, f.hl + k)
          PROVE  CountedAs(e)'
      <4>1. stack'.offset = o + n /\ stack'.file = f /\ stack'.block = b
        BY <2>1, <2>6
      <4>2. CountedAs(e)' <=> /\ rx'.written = stack'.offset - stack'.file.hl + e
                              /\ e <= (MaxRepeats - budget'.repeats) * stack'.block
                              /\ clean' => e = 0
                              /\ e = 0 => \A k \in Units : stack'.file.hl + k < stack'.offset
                                             => flash'[k] = Unit(stack'.file, stack'.file.hl + k)
        BY DEF CountedAs, Got
      <4>3. QED
        BY <2>1, <2>2, <2>3, <2>6, <2>8, <3>1, <4>1, <4>2
    <3>2. CASE o < f.hl
      <4>1. \A k \in Units : f.hl + k < o + n => flash'[k] = Unit(f, f.hl + k)
        <5>1. ASSUME NEW k \in Units, f.hl + k < o + n PROVE f.hl + k \in o .. (o + n - 1)
          BY <2>2, <2>3, <2>6, <3>2, <5>1 DEF Units
        <5>2. flash' = [k \in Units |-> IF f.hl + k \in o .. (o + n - 1)
                                        THEN Unit(f, f.hl + k) ELSE flash[k]]
          BY <2>6, <2>7, <3>2
        <5>3. QED
          BY <5>1, <5>2
      <4>2. rx'.written = o + n - f.hl + 0
        BY <2>2, <2>3, <2>6, <2>7, <3>2
      <4>3. 0 <= room + b
        BY <2>2, <2>8
      <4>4. QED
        BY <3>1, <4>1, <4>2, <4>3
    <3>3. CASE o >= f.hl
      <4>1. PICK e \in Nat : CountedAs(e)
        BY <2>4
      <4>2. rx.written = o + n - f.hl + e /\ e <= room
        <5>1. rx.written = stack.offset - f.hl + e /\ e <= room
          BY <4>1 DEF CountedAs, room
        <5>2. o + n = stack.offset
          BY <2>6
        <5> HIDE DEF o
        <5>3. QED
          BY <2>2, <2>3, <2>6, <5>1, <5>2
      <4>3. e + n \in Nat /\ e + n > 0 /\ e + n <= room + b
        BY <2>2, <2>4, <2>6, <2>8, <4>2
      <4>4. (o + n - f.hl + (e + n)) % SizeRange = o + n - f.hl + (e + n)
        <5> DEFINE m == o + n - f.hl
                   q == MaxRepeats * b
        <5>1. m \in Nat /\ m <= f.body
          BY <2>2, <2>3, <2>6, <3>3
        <5>2. q \in Nat /\ room + b <= q
          BY <1>1, <2>2, <2>8, Spares, OtaAssumption
        <5> HIDE DEF m, q
        <5>3. e + n <= q
          BY <2>2, <2>8, <4>3, <5>2
        <5>4. (m + (e + n)) % SizeRange = m + (e + n)
          BY <1>5, <2>1, <4>3, <5>1, <5>3 DEF q
        <5>5. QED
          BY <5>4 DEF m
      <4>5. rx'.written = o + n - f.hl + (e + n)
        <5>1. rx.written + n = o + n - f.hl + (e + n)
          BY <2>2, <2>3, <2>6, <4>2
        <5>2. rx'.written = (rx.written + n) % SizeRange
          BY <2>7, <3>3
        <5>3. QED
          BY <4>4, <5>1, <5>2
      <4> DEFINE d == e + n
      <4> HIDE DEF d
      <4>6. d \in Nat /\ d # 0 /\ d <= room + b /\ rx'.written = o + n - f.hl + d
        BY <4>3, <4>5 DEF d
      <4>7. QED
        BY <3>1, <4>6
    <3>4. QED
      BY <2>2, <2>3, <3>2, <3>3
  <2>10. QED
    <3> HIDE DEF o, b, f
    <3>1. rx'.hl = stack'.file.hl
      BY <2>1, <2>7 DEF f
    <3>2. stack'.offset >= Fixed =>
             rx'.total = Total(stack'.file) /\ rx'.open /\ (SizeTold' => rx'.size = stack'.file.body)
      BY <2>1, <2>6, <2>7 DEF f, SizeTold
    <3>3. stack'.offset >= stack'.file.hl => \E e \in Nat : CountedAs(e)'
      BY <2>1, <2>9 DEF f
    <3>4. SizeTold' <=> SizeTold
      BY <2>1 DEF SizeTold
    <3>5. QED
      BY <1>2, <2>1, <3>1, <3>2, <3>3, <3>4 DEF Counted
<1>8. ASSUME stack'.state \in {"normal", "waiting"} PROVE Counted'
  BY <1>8 DEF Counted
<1>9. CASE OpenFails \/ Abort \/ Refusal \/ Finish \/ Restart
  <2>1. stack' = Idle
    BY <1>9 DEF OpenFails, Abort, Refusal, Finish, Restart
  <2>2. QED
    BY <1>8, <2>1 DEF Idle
<1>10. CASE Check
  <2>1. PICK sound \in BOOLEAN :
          /\ stack.state = "downloading" /\ stack.offset = Total(f)
          /\ Holds(f) /\ rx.written = f.body => sound
          /\ stack' = [stack EXCEPT !.state = IF Accepted(sound) THEN "downloaded" ELSE "refused"]
          /\ UNCHANGED <<app, flash, ready, clean, budget>>
    BY <1>10 DEF Check
  <2>2. /\ f.hl \in Nat /\ f.body \in Nat /\ f.body > 0 /\ Total(f) = f.hl + f.body
        /\ f.hl >= Fixed /\ Fixed \in Nat /\ f.body <= Capacity /\ Capacity \in Nat
    BY <1>4, <2>1, Lengths
  <2>3. (SizeTold => rx.size = f.body) /\ \E e \in Nat : CountedAs(e)
    BY <1>2, <2>1, <2>2 DEF Counted
  <2>4. PICK e \in Nat : CountedAs(e)
    BY <2>3
  <2>5. rx.written = f.body + e /\ (clean => e = 0) /\ (e = 0 => Got(Total(f)))
    BY <2>1, <2>2, <2>4 DEF CountedAs
  <2>6. e = 0 => Holds(f)
    <3> SUFFICES ASSUME Got(Total(f)) PROVE Holds(f)
      BY <2>5
    <3>1. QED
      BY <2>2 DEF Got, Holds, Body, Units
  <2>7. Accepted(sound) => Holds(f)
    <3>1. CASE app = "cli"
      BY <2>2, <2>3, <2>5, <2>6, <3>1 DEF Accepted, SizeTold
    <3>2. CASE app = "sample"
      <4>1. Got(Total(f))
        BY <2>1, <2>2, <3>2 DEF OtaInv, SampleInv, Downloads, Receiving
      <4>2. QED
        BY <2>2, <4>1 DEF Got, Holds, Body, Units
    <3>3. QED
      BY <1>1, <3>1, <3>2
  <2>8. SizeTold /\ clean => Accepted(sound)
    BY <2>1, <2>2, <2>3, <2>5, <2>6 DEF Accepted
  <2>9. Holds(stack.file)' = Holds(f)
    BY <1>1, <2>1 DEF Holds, Body
  <2>10. stack'.state = IF Accepted(sound) THEN "downloaded" ELSE "refused"
    BY <1>1, <2>1
  <2>11. SizeTold' <=> SizeTold
    BY <1>1, <2>1 DEF SizeTold
  <2>12. QED
    BY <2>1, <2>7, <2>8, <2>9, <2>10, <2>11 DEF Counted
<1>11. CASE Apply
  BY <1>1, <1>8, <1>11 DEF Apply
<1>12. CASE ServerNotFound
  BY <1>8, <1>12 DEF ServerNotFound
<1>13. QED
  BY <1>3, <1>6, <1>7, <1>9, <1>10, <1>11, <1>12 DEF OtaNext

LEMMA CountInvHolds == BlocksFit => (OtaSpec => []CountInv)
<1> SUFFICES ASSUME BlocksFit PROVE OtaSpec => []CountInv
  OBVIOUS
<1>1. OtaInit => Counted
  BY DEF OtaInit, Counted, Idle
<1>2. TypeInv /\ OtaInv /\ Counted /\ [OtaNext]_otaVars => Counted'
  <2> SUFFICES ASSUME TypeInv, OtaInv, Counted, [OtaNext]_otaVars PROVE Counted'
    OBVIOUS
  <2>1. CASE OtaNext
    BY <2>1, CountStep DEF CountInv
  <2>2. CASE UNCHANGED otaVars
    BY <2>2 DEF otaVars, Counted, CountedAs, Got, Holds, Body, SizeTold
  <2>3. QED
    BY <2>1, <2>2
<1>3. OtaSpec => []TypeInv /\ []OtaInv
  BY TypeInvHolds, OtaInvHolds DEF BlocksFit
<1>4. TypeInv /\ Counted <=> CountInv
  BY DEF CountInv
<1>5. QED
  BY <1>1, <1>2, <1>3, <1>4, PTL DEF OtaSpec

(* A download in which no block came twice is accepted, however the header *)
(* is spread over the blocks, unless ota_client_zed got less than the      *)
(* fixed header in the first one: at the end the count is the size that    *)
(* the header told.                                                        *)
THEOREM ToldDownloadsAreAccepted == BlocksFit => (OtaSpec => []AcceptedIfTold)
<1> SUFFICES ASSUME BlocksFit PROVE OtaSpec => []AcceptedIfTold
  OBVIOUS
<1>1. CountInv => AcceptedIfTold
  BY DEF CountInv, Counted, AcceptedIfTold, CompleteIsAccepted
<1>2. QED
  BY <1>1, CountInvHolds, PTL

(* No application hands over an image that the storage does not hold       *)
(* whole: a block that came twice is in the count for good, and the count  *)
(* is compared with the size.                                              *)
THEOREM OnlyWholeImagesAreApplied == BlocksFit => (OtaSpec => AppliedIsWhole)
<1> SUFFICES ASSUME BlocksFit PROVE OtaSpec => AppliedIsWhole
  OBVIOUS
<1> DEFINE whole == \A k \in 0 .. (ready'.body - 1) : flash[k] = Body(ready')[k]
<1>1. CountInv /\ [OtaNext]_otaVars => [ready' # ready /\ ready' # NoFile => whole]_otaVars
  <2> SUFFICES ASSUME CountInv, OtaNext, ready' # ready, ready' # NoFile PROVE whole
    OBVIOUS
  <2>1. Apply
    BY DEF OtaNext, Start, Block, Repeat, OpenFails, Abort, Check, Refusal, Finish, ServerNotFound,
       Restart
  <2>2. ready' = stack.file /\ Holds(stack.file)
    BY <2>1 DEF Apply, CountInv, Counted
  <2>3. QED
    BY <2>2 DEF Holds
<1>2. QED
  BY <1>1, CountInvHolds, PTL DEF OtaSpec, AppliedIsWhole

=============================================================================

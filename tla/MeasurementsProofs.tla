-------------------------- MODULE MeasurementsProofs --------------------------
(***************************************************************************)
(* Theorems about Measurements, for every number of image blocks, all      *)
(* sizes of the blocks and headers, and any room for the record.           *)
(***************************************************************************)
EXTENDS Measurements, SequenceTheorems, TLAPS

Requests ==
  [kind : {"none", "get", "summary"}, index : Nat, raw_only : BOOLEAN, raw : BOOLEAN,
   sign : BOOLEAN, v12 : BOOLEAN, room : Nat, type : {"none", "TCB", "ALL"}]

(* The blocks of the answer to r, in order, and where each of them lies:   *)
(* the closed form of the offsets that the code adds up.                   *)
Order(r) == Indices(r.index)
BlockAt(r, k) == BlockOf(Order(r)[k], use_bit_stream(r))
Image(r) == HEADER + (IF use_bit_stream(r) THEN RAW_DATA_SIZE ELSE HASH_SIZE)
Images(r) == HASH_NUMBER * Image(r)
Total(r) == total_size_needed(r.index, use_bit_stream(r))
Place(r, k) ==
  CASE r.index # ALL -> IF k = 1 THEN 0 ELSE Total(r)
    [] r.index = ALL /\ k <= HASH_NUMBER + 1 -> (k - 1) * Image(r)
    [] r.index = ALL /\ k = HASH_NUMBER + 2 -> Images(r) + (HEADER + SVN_SIZE)
    [] r.index = ALL /\ k = HASH_NUMBER + 3 ->
         Images(r) + (HEADER + SVN_SIZE) + (HEADER + MANIFEST_SIZE)
    [] r.index = ALL /\ k > HASH_NUMBER + 3 -> Total(r)

(* The first n blocks lie where they should and nothing else does.         *)
Laid(r, n, a, f) ==
  /\ a = Place(r, n + 1)
  /\ \A k \in 1 .. n : Place(r, k) \in DOMAIN f /\ Place(r, k) < a /\ f[Place(r, k)] = BlockAt(r, k)
  /\ \A o \in DOMAIN f : \E k \in 1 .. n : o = Place(r, k)

(* What libspdm asks for, and the two bounds.                              *)
Shape ==
  /\ pc \in {"idle", "fill", "summary", "key", "sign"} /\ req \in Requests
  /\ pc = "summary" => req.kind = "summary"
  /\ pc \in {"key", "sign"} => req.sign
  /\ req.kind = "summary" => /\ req.index = ALL /\ ~req.sign /\ req.room = MAX_RECORD
                             /\ req.type \in {"TCB", "ALL"}
  /\ at \in Nat /\ at <= req.room
  /\ data_size \in Nat /\ data_size <= MAX_RECORD

(* The record while it is written and from then on.                        *)
Written == Len(Order(req)) - Len(todo)
RecordInv ==
  (pc = "fill" \/ Complete) /\ req.index # TOTAL_NUMBER =>
    /\ Known(req.index) /\ count = Len(Order(req)) /\ size = Total(req) /\ size <= req.room
    /\ todo \in Seq(Nat) /\ Len(todo) <= Len(Order(req)) /\ (pc = "fill" <=> todo # <<>>)
    /\ \A i \in 1 .. Len(todo) : todo[i] = Order(req)[Written + i]
    /\ Laid(req, Written, at, buf)

(* The summary while the record is read back and when it is hashed.        *)
SummaryInv ==
  /\ pc = "fill" => /\ req.index # TOTAL_NUMBER
                    /\ cached = 0 /\ read = 0 /\ summary = <<>> /\ data_size = 0
  /\ req.kind = "summary" /\ (pc = "summary" \/ (pc = "idle" /\ status = "success")) =>
       /\ read \in 0 .. count /\ (pc = "idle" => read = count)
       /\ cached = Place(req, read + 1)
       /\ req.type = "ALL" =>
            /\ summary \in Seq(Nat) /\ Len(summary) = read
            /\ \A k \in 1 .. read : summary[k] = Order(req)[k]
            /\ data_size + (IF req.v12 THEN 0 ELSE read * COMMON_HEADER) = cached
       /\ req.type = "TCB" =>
            /\ summary = IF read = 0 THEN <<>> ELSE <<1>>
            /\ data_size = IF read = 0 THEN 0 ELSE Hashed(BlockAt(req, 1))

Inv == Shape /\ RecordInv /\ SummaryInv

-------------------------------------------------------------------------------
(* The blocks and their places.                                            *)

(* What the assumption on the constants gives.                             *)
LEMMA Constants ==
  /\ HASH_NUMBER \in Nat /\ 1 <= HASH_NUMBER /\ HASH_NUMBER <= 15
  /\ HASH_SIZE \in Nat /\ RAW_DATA_SIZE \in Nat /\ MANIFEST_SIZE \in Nat
  /\ SVN_SIZE \in Nat /\ DEVICE_MODE_SIZE \in Nat /\ MAX_RECORD \in Nat
  /\ COMMON_HEADER \in Nat /\ 0 < COMMON_HEADER /\ DMTF_HEADER \in Nat /\ 0 < DMTF_HEADER
  /\ HEADER \in Nat /\ HEADER = COMMON_HEADER + DMTF_HEADER
  BY MeasurementAssumption DEF HEADER

(* The size fields hold the sizes.                                         *)
BlockIs(b, index, type, n) ==
  /\ n \in Nat /\ b.index = index /\ b.type = type /\ b.dsize = n
  /\ b.msize = DMTF_HEADER + n /\ b.full = HEADER + n

(* A block whose size the 16-bit fields can hold tells its own size.       *)
LEMMA SizesFit ==
  ASSUME NEW n \in {HASH_SIZE, RAW_DATA_SIZE, MANIFEST_SIZE, SVN_SIZE, DEVICE_MODE_SIZE},
         NEW index, NEW type, NEW raw
  PROVE  BlockIs(Block(index, type, raw, n), index, type, n)
  <1>1. n \in Nat /\ DMTF_HEADER \in Nat /\ DMTF_HEADER + n < 65536
    <2>1. 2^16 = 65536
      OBVIOUS
    <2> QED
      BY <2>1, MeasurementAssumption
  <1>2. n % 65536 = n /\ (DMTF_HEADER + n) % 65536 = DMTF_HEADER + n
    BY <1>1
  <1>3. 2^16 = 65536
    OBVIOUS
  <1>4. Block(index, type, raw, n) = [index |-> index, type |-> type, raw |-> raw, dsize |-> n,
                                      msize |-> DMTF_HEADER + n, full |-> HEADER + n]
    BY <1>2, <1>3 DEF Block
  <1> QED
    BY <1>1, <1>4 DEF BlockIs

(* Every block tells its index and its length, and only the first image is *)
(* immutable ROM.                                                          *)
BlockTells(b, index, n) ==
  /\ b.index = index /\ b.dsize = n /\ b.msize = DMTF_HEADER + n /\ b.full = HEADER + n
  /\ BlockSize(b) = HEADER + n
  /\ b.type = IMMUTABLE_ROM <=> index = 1

SizeOf(index, raw) ==
  CASE index = SVN -> SVN_SIZE [] index = MANIFEST -> MANIFEST_SIZE
    [] index = DEVICE_MODE -> DEVICE_MODE_SIZE
    [] OTHER -> IF raw THEN RAW_DATA_SIZE ELSE HASH_SIZE

(* The block of each index tells its index and its size.                   *)
LEMMA BlockFacts ==
  ASSUME NEW index \in Nat, Known(index), index # ALL, NEW raw \in BOOLEAN
  PROVE  BlockTells(BlockOf(index, raw), index, SizeOf(index, raw)) /\ SizeOf(index, raw) \in Nat
  <1>1. ASSUME NEW type, NEW flag,
               NEW n \in {HASH_SIZE, RAW_DATA_SIZE, MANIFEST_SIZE, SVN_SIZE, DEVICE_MODE_SIZE},
               BlockOf(index, raw) = Block(index, type, flag, n), SizeOf(index, raw) = n,
               type = 0 <=> index = 1
        PROVE  BlockTells(BlockOf(index, raw), index, SizeOf(index, raw)) /\ SizeOf(index, raw) \in Nat
    <2> DEFINE b == Block(index, type, flag, n)
    <2>1. BlockIs(b, index, type, n)
      BY SizesFit, Zenon
    <2>2. COMMON_HEADER + (DMTF_HEADER + n) = HEADER + n
      BY <2>1, Constants DEF BlockIs
    <2> HIDE DEF b
    <2>3. BlockTells(b, index, n)
      BY <1>1, <2>1, <2>2 DEF BlockIs, BlockTells, BlockSize, IMMUTABLE_ROM
    <2> QED
      BY <1>1, <2>1, <2>3 DEF b, BlockIs
  <1>2. CASE index = SVN
    <2>1. BlockOf(index, raw) = Block(index, 7, TRUE, SVN_SIZE) /\ SizeOf(index, raw) = SVN_SIZE
      BY <1>2 DEF BlockOf, SizeOf, fill_measurement_svn_block, SVN, MANIFEST, DEVICE_MODE
    <2>2. 7 = 0 <=> index = 1
      BY <1>2 DEF SVN
    <2> QED
      BY <1>1, <2>1, <2>2, Zenon
  <1>3. CASE index = MANIFEST
    <2>1. /\ BlockOf(index, raw) = Block(index, 4, TRUE, MANIFEST_SIZE)
          /\ SizeOf(index, raw) = MANIFEST_SIZE
      BY <1>3 DEF BlockOf, SizeOf, fill_measurement_manifest_block, SVN, MANIFEST,
             DEVICE_MODE
    <2>2. 4 = 0 <=> index = 1
      BY <1>3 DEF MANIFEST
    <2> QED
      BY <1>1, <2>1, <2>2, Zenon
  <1>4. CASE index = DEVICE_MODE
    <2>1. /\ BlockOf(index, raw) = Block(index, 5, TRUE, DEVICE_MODE_SIZE)
          /\ SizeOf(index, raw) = DEVICE_MODE_SIZE
      BY <1>4 DEF BlockOf, SizeOf, fill_measurement_device_mode_block, SVN, MANIFEST, DEVICE_MODE
    <2>2. 5 = 0 <=> index = 1
      BY <1>4 DEF DEVICE_MODE
    <2> QED
      BY <1>1, <2>1, <2>2, Zenon
  <1>5. CASE index \notin {SVN, MANIFEST, DEVICE_MODE}
    <2>1. index - 1 = 0 <=> index = 1
      OBVIOUS
    <2>2. CASE raw
      <3>1. /\ BlockOf(index, raw) = Block(index, index - 1, TRUE, RAW_DATA_SIZE)
            /\ SizeOf(index, raw) = RAW_DATA_SIZE
        BY <1>5, <2>2 DEF BlockOf, SizeOf, fill_measurement_image_hash_block
      <3> QED
        BY <1>1, <2>1, <3>1, Zenon
    <2>3. CASE ~raw
      <3>1. /\ BlockOf(index, raw) = Block(index, index - 1, FALSE, HASH_SIZE)
            /\ SizeOf(index, raw) = HASH_SIZE
        BY <1>5, <2>3 DEF BlockOf, SizeOf, fill_measurement_image_hash_block
      <3> QED
        BY <1>1, <2>1, <3>1, Zenon
    <2> QED
      BY <2>2, <2>3
  <1> QED
    BY <1>2, <1>3, <1>4, <1>5

(* The order of the blocks.                                                *)
LEMMA OrderAll ==
  LET s == Indices(ALL)
  IN  /\ s \in Seq(Nat) /\ Len(s) = HASH_NUMBER + 3
      /\ \A k \in 1 .. HASH_NUMBER : s[k] = k
      /\ s[HASH_NUMBER + 1] = SVN /\ s[HASH_NUMBER + 2] = MANIFEST
      /\ s[HASH_NUMBER + 3] = DEVICE_MODE
  <1> DEFINE a == [k \in 1 .. HASH_NUMBER |-> k]
             b == <<SVN, MANIFEST, DEVICE_MODE>>
  <1>1. a \in Seq(Nat) /\ Len(a) = HASH_NUMBER /\ \A k \in 1 .. HASH_NUMBER : a[k] = k
    BY Constants
  <1>2. b \in Seq(Nat) /\ Len(b) = 3 /\ b[1] = SVN /\ b[2] = MANIFEST /\ b[3] = DEVICE_MODE
    BY DEF SVN, MANIFEST, DEVICE_MODE
  <1>3. Indices(ALL) = a \o b
    BY DEF Indices
  <1> HIDE DEF a, b
  <1>4. /\ a \o b \in Seq(Nat) /\ Len(a \o b) = HASH_NUMBER + 3
        /\ \A k \in 1 .. HASH_NUMBER + 3 :
             (a \o b)[k] = IF k <= HASH_NUMBER THEN a[k] ELSE b[k - HASH_NUMBER]
    BY <1>1, <1>2, Constants, ConcatProperties
  <1>5. \A k \in 1 .. HASH_NUMBER : (a \o b)[k] = k
    BY <1>1, <1>4, Constants
  <1>6. (a \o b)[HASH_NUMBER + 1] = SVN
    <2>1. /\ HASH_NUMBER + 1 \in 1 .. HASH_NUMBER + 3 /\ ~(HASH_NUMBER + 1 <= HASH_NUMBER)
          /\ (HASH_NUMBER + 1) - HASH_NUMBER = 1
      BY Constants
    <2>2. (a \o b)[HASH_NUMBER + 1] = b[(HASH_NUMBER + 1) - HASH_NUMBER]
      BY <1>4, <2>1
    <2> QED
      BY <1>2, <2>1, <2>2
  <1>7. (a \o b)[HASH_NUMBER + 2] = MANIFEST
    <2>1. /\ HASH_NUMBER + 2 \in 1 .. HASH_NUMBER + 3 /\ ~(HASH_NUMBER + 2 <= HASH_NUMBER)
          /\ (HASH_NUMBER + 2) - HASH_NUMBER = 2
      BY Constants
    <2>2. (a \o b)[HASH_NUMBER + 2] = b[(HASH_NUMBER + 2) - HASH_NUMBER]
      BY <1>4, <2>1
    <2> QED
      BY <1>2, <2>1, <2>2
  <1>8. (a \o b)[HASH_NUMBER + 3] = DEVICE_MODE
    <2>1. /\ HASH_NUMBER + 3 \in 1 .. HASH_NUMBER + 3 /\ ~(HASH_NUMBER + 3 <= HASH_NUMBER)
          /\ (HASH_NUMBER + 3) - HASH_NUMBER = 3
      BY Constants
    <2>2. (a \o b)[HASH_NUMBER + 3] = b[(HASH_NUMBER + 3) - HASH_NUMBER]
      BY <1>4, <2>1
    <2> QED
      BY <1>2, <2>1, <2>2
  <1> QED
    BY <1>3, <1>4, <1>5, <1>6, <1>7, <1>8

(* The blocks of an answer have different, known indices.                  *)
LEMMA OrderFacts ==
  ASSUME NEW r \in Requests, Known(r.index)
  PROVE  /\ Order(r) \in Seq(Nat) /\ Len(Order(r)) >= 1
         /\ \A k \in 1 .. Len(Order(r)) : Known(Order(r)[k]) /\ Order(r)[k] # ALL
         /\ \A j, k \in 1 .. Len(Order(r)) : Order(r)[j] = Order(r)[k] => j = k
         /\ r.index # ALL => Order(r) = <<r.index>>
  <1>1. CASE r.index = ALL
    <2>1. \A k \in 1 .. Len(Order(r)) : k \in 1 .. HASH_NUMBER \/ k = HASH_NUMBER + 1
                                          \/ k = HASH_NUMBER + 2 \/ k = HASH_NUMBER + 3
      BY <1>1, OrderAll, Constants DEF Order
    <2>2. \A k \in 1 .. Len(Order(r)) : Known(Order(r)[k]) /\ Order(r)[k] # ALL
      BY <1>1, <2>1, OrderAll, Constants, SMTT(30) DEF Order, Known, SVN, MANIFEST, DEVICE_MODE, ALL
    <2>3. \A j, k \in 1 .. Len(Order(r)) : Order(r)[j] = Order(r)[k] => j = k
      BY <1>1, <2>1, OrderAll, Constants DEF Order, SVN, MANIFEST, DEVICE_MODE
    <2> QED
      BY <1>1, <2>2, <2>3, OrderAll, Constants DEF Order
  <1>2. CASE r.index # ALL
    <2>1. Order(r) = <<r.index>> /\ r.index \in Nat
      BY <1>2 DEF Order, Indices, Requests
    <2> QED
      BY <1>2, <2>1
  <1> QED
    BY <1>1, <1>2

(* The k-th block of an answer.                                            *)
LEMMA BlockAtFacts ==
  ASSUME NEW r \in Requests, Known(r.index), NEW k \in 1 .. Len(Order(r))
  PROVE  /\ SizeOf(Order(r)[k], use_bit_stream(r)) \in Nat
         /\ BlockTells(BlockAt(r, k), Order(r)[k], SizeOf(Order(r)[k], use_bit_stream(r)))
  <1>1. use_bit_stream(r) \in BOOLEAN
    BY DEF use_bit_stream, Requests
  <1>2. Order(r)[k] \in Nat /\ Known(Order(r)[k]) /\ Order(r)[k] # ALL
    BY OrderFacts, ElementOfSeq
  <1> QED
    BY <1>1, <1>2, BlockFacts DEF BlockAt

(* The places follow from each other by the sizes of the blocks, and the   *)
(* last block ends at the size that is worked out beforehand.              *)
LEMMA PlaceAll ==
  ASSUME NEW r \in Requests, r.index = ALL
  PROVE  /\ Place(r, 1) = 0 /\ Place(r, HASH_NUMBER + 4) = Total(r) /\ Total(r) \in Nat
         /\ \A k \in 1 .. HASH_NUMBER + 3 :
              /\ Place(r, k) \in Nat /\ Place(r, k) <= Total(r)
              /\ Place(r, k + 1) = Place(r, k) + (HEADER + SizeOf(Order(r)[k], use_bit_stream(r)))
  <1> DEFINE H == HASH_NUMBER
             image == Image(r)
             all == Images(r)
  <1>1. H \in Nat /\ H >= 1 /\ H <= 15 /\ image \in Nat
    BY Constants DEF Image
  <1>2. all \in Nat /\ all = H * image
    BY <1>1 DEF Images
  <1>3. /\ HEADER + SVN_SIZE \in Nat /\ HEADER + MANIFEST_SIZE \in Nat
        /\ HEADER + DEVICE_MODE_SIZE \in Nat
    BY Constants
  <1>4. Total(r) = all + (HEADER + SVN_SIZE) + (HEADER + MANIFEST_SIZE) + (HEADER + DEVICE_MODE_SIZE)
    BY DEF Total, total_size_needed, Images, Image, ALL, SVN, MANIFEST, DEVICE_MODE
  <1>5. \A k \in 1 .. H + 1 : Place(r, k) = (k - 1) * image
    BY <1>1 DEF Place, ALL
  <1>6. Place(r, H + 2) = all + (HEADER + SVN_SIZE)
    BY <1>1 DEF Place, ALL
  <1>7. Place(r, H + 3) = all + (HEADER + SVN_SIZE) + (HEADER + MANIFEST_SIZE)
    BY <1>1 DEF Place, ALL
  <1>8. Place(r, H + 4) = Total(r)
    BY <1>1 DEF Place, ALL
  <1> HIDE DEF H, image, all
  <1>9. \A k \in 1 .. H + 1 : (k - 1) * image \in Nat /\ (k - 1) * image <= all
    <2> SUFFICES ASSUME NEW k \in 1 .. H + 1 PROVE (k - 1) * image \in Nat /\ (k - 1) * image <= all
      OBVIOUS
    <2>1. PICK d \in Nat, j \in Nat : j = k - 1 /\ H = j + d
      <3>1. H - (k - 1) \in Nat /\ k - 1 \in Nat /\ H = (k - 1) + (H - (k - 1))
        BY <1>1
      <3> QED
        BY <3>1
    <2>2. j * image \in Nat /\ d * image \in Nat /\ (j + d) * image = j * image + d * image
      BY <1>1
    <2> QED
      BY <1>2, <2>1, <2>2
  <1>10. Total(r) \in Nat /\ all <= Total(r)
    BY <1>2, <1>3, <1>4
  <1>11. ASSUME NEW k \in 1 .. H
         PROVE  /\ Place(r, k) \in Nat /\ Place(r, k) <= Total(r)
                /\ Place(r, k + 1) = Place(r, k) + (HEADER + SizeOf(Order(r)[k], use_bit_stream(r)))
    <2>1. Order(r)[k] = k
      BY OrderAll DEF Order, H
    <2>2. k \notin {SVN, MANIFEST, DEVICE_MODE}
      BY <1>1 DEF SVN, MANIFEST, DEVICE_MODE
    <2>3. HEADER + SizeOf(Order(r)[k], use_bit_stream(r)) = image
      BY <2>1, <2>2 DEF SizeOf, image, Image
    <2>4. k \in 1 .. H + 1 /\ k + 1 \in 1 .. H + 1 /\ (k + 1) - 1 = k
      BY <1>1
    <2>5. Place(r, k) = (k - 1) * image /\ Place(r, k + 1) = k * image
      BY <1>5, <2>4
    <2>6. (k - 1) * image + image = k * image
      <3>1. PICK j \in Nat : j = k - 1 /\ k = j + 1
        <4>1. k - 1 \in Nat /\ k = (k - 1) + 1
          BY <1>1
        <4> QED
          BY <4>1
      <3>2. j * image + image = (j + 1) * image
        BY <1>1
      <3> QED
        BY <3>1, <3>2
    <2>7. (k - 1) * image \in Nat /\ (k - 1) * image <= all
      BY <1>9, <2>4
    <2>8. (k - 1) * image <= Total(r)
      BY <1>2, <1>10, <2>7
    <2> QED
      BY <2>3, <2>5, <2>6, <2>7, <2>8
  <1>12. /\ Order(r)[H + 1] = SVN /\ Order(r)[H + 2] = MANIFEST /\ Order(r)[H + 3] = DEVICE_MODE
    BY OrderAll DEF Order, H
  <1>13. /\ SizeOf(SVN, use_bit_stream(r)) = SVN_SIZE
         /\ SizeOf(MANIFEST, use_bit_stream(r)) = MANIFEST_SIZE
         /\ SizeOf(DEVICE_MODE, use_bit_stream(r)) = DEVICE_MODE_SIZE
    BY DEF SizeOf, SVN, MANIFEST, DEVICE_MODE
  <1>14. Place(r, H + 1) = all
    <2>1. H + 1 \in 1 .. H + 1 /\ (H + 1) - 1 = H
      BY <1>1
    <2> QED
      BY <1>2, <1>5, <2>1
  <1>15. Place(r, 1) = 0
    <2>1. 1 \in 1 .. H + 1 /\ (1 - 1) * image = 0
      BY <1>1
    <2> QED
      BY <1>5, <2>1
  <1>16. (H + 1) + 1 = H + 2 /\ (H + 2) + 1 = H + 3 /\ (H + 3) + 1 = H + 4
    BY <1>1
  <1>17. ASSUME NEW k \in {H + 1, H + 2, H + 3}
         PROVE  /\ Place(r, k) \in Nat /\ Place(r, k) <= Total(r)
                /\ Place(r, k + 1) = Place(r, k) + (HEADER + SizeOf(Order(r)[k], use_bit_stream(r)))
    <2>1. CASE k = H + 1
      BY <1>2, <1>3, <1>4, <1>6, <1>12, <1>13, <1>14, <1>16, <2>1
    <2>2. CASE k = H + 2
      BY <1>2, <1>3, <1>4, <1>6, <1>7, <1>12, <1>13, <1>16, <2>2
    <2>3. CASE k = H + 3
      BY <1>2, <1>3, <1>4, <1>7, <1>8, <1>12, <1>13, <1>16, <2>3
    <2> QED
      BY <2>1, <2>2, <2>3
  <1>18. \A k \in 1 .. H + 3 : k \in 1 .. H \/ k \in {H + 1, H + 2, H + 3}
    BY <1>1
  <1> QED
    BY <1>8, <1>10, <1>11, <1>15, <1>17, <1>18 DEF H

(* The blocks of an answer follow each other and end at the size worked    *)
(* out.                                                                    *)
LEMMA PlaceFacts ==
  ASSUME NEW r \in Requests, Known(r.index)
  PROVE  /\ Place(r, 1) = 0 /\ Place(r, Len(Order(r)) + 1) = Total(r) /\ Total(r) \in Nat
         /\ \A k \in 1 .. Len(Order(r)) :
              /\ Place(r, k) \in Nat /\ Place(r, k) <= Total(r)
              /\ Place(r, k + 1) = Place(r, k) + BlockAt(r, k).full
  <1>1. \A k \in 1 .. Len(Order(r)) :
          BlockAt(r, k).full = HEADER + SizeOf(Order(r)[k], use_bit_stream(r))
    BY BlockAtFacts DEF BlockTells
  <1>2. CASE r.index = ALL
    <2>1. Len(Order(r)) = HASH_NUMBER + 3 /\ (HASH_NUMBER + 3) + 1 = HASH_NUMBER + 4
      BY <1>2, OrderAll, Constants DEF Order
    <2> QED
      BY <1>1, <1>2, <2>1, PlaceAll
  <1>3. CASE r.index # ALL
    <2>1. Order(r) = <<r.index>> /\ Len(Order(r)) = 1 /\ Order(r)[1] = r.index
      BY <1>3, OrderFacts
    <2>2. Place(r, 1) = 0 /\ Place(r, 1 + 1) = Total(r)
      BY <1>3 DEF Place
    <2>3. Total(r) = HEADER + SizeOf(r.index, use_bit_stream(r))
      BY <1>3 DEF Total, total_size_needed, SizeOf, SVN, MANIFEST, DEVICE_MODE, ALL
    <2>4. Total(r) \in Nat
      BY <2>1, <2>3, BlockAtFacts, Constants
    <2> QED
      BY <1>1, <2>1, <2>2, <2>3, <2>4
  <1> QED
    BY <1>2, <1>3

(* Nothing is laid at first; then one block more.                          *)
LEMMA LaidNone ==
  ASSUME NEW r \in Requests, Known(r.index)
  PROVE  Laid(r, 0, 0, <<>>)
  <1>1. Place(r, 0 + 1) = 0
    BY PlaceFacts
  <1> QED
    BY <1>1 DEF Laid

(* A block written behind n others makes n + 1.                            *)
LEMMA LaidOne ==
  ASSUME NEW r \in Requests, Known(r.index), NEW n \in Nat, n < Len(Order(r)),
         NEW a, NEW f, Laid(r, n, a, f),
         NEW g, g = [o \in DOMAIN f \cup {a} |-> IF o = a THEN BlockAt(r, n + 1) ELSE f[o]]
  PROVE  Laid(r, n + 1, a + BlockAt(r, n + 1).full, g)
  <1> DEFINE b == BlockAt(r, n + 1)
             a2 == a + b.full
  <1>1. n + 1 \in 1 .. Len(Order(r)) /\ Len(Order(r)) \in Nat
    BY OrderFacts, LenProperties
  <1>2. a = Place(r, n + 1) /\ a \in Nat /\ a2 = Place(r, (n + 1) + 1)
    BY <1>1, PlaceFacts DEF Laid
  <1>3. b.full \in Nat /\ b.full > 0
    <2>1. b.full = HEADER + SizeOf(Order(r)[n + 1], use_bit_stream(r))
      BY <1>1, BlockAtFacts DEF BlockTells
    <2>2. SizeOf(Order(r)[n + 1], use_bit_stream(r)) \in Nat
      BY <1>1, BlockAtFacts
    <2> QED
      BY <2>1, <2>2, Constants
  <1>4. a2 \in Nat /\ a < a2
    BY <1>2, <1>3
  <1> HIDE DEF b, a2
  <1>5. ASSUME NEW k \in 1 .. n + 1
        PROVE  Place(r, k) \in DOMAIN g /\ Place(r, k) < a2 /\ g[Place(r, k)] = BlockAt(r, k)
    <2>1. CASE k = n + 1
      BY <1>2, <1>4, <2>1 DEF b
    <2>2. CASE k # n + 1
      <3>1. k \in 1 .. n /\ k \in 1 .. Len(Order(r))
        BY <1>1, <2>2
      <3>2. Place(r, k) \in DOMAIN f /\ Place(r, k) < a /\ f[Place(r, k)] = BlockAt(r, k)
        BY <3>1 DEF Laid
      <3>3. Place(r, k) \in Nat
        BY <3>1, PlaceFacts
      <3>4. Place(r, k) < a2 /\ Place(r, k) # a
        BY <1>2, <1>4, <3>2, <3>3
      <3> QED
        BY <3>2, <3>4
    <2> QED
      BY <2>1, <2>2
  <1>6. ASSUME NEW o \in DOMAIN g PROVE \E k \in 1 .. n + 1 : o = Place(r, k)
    <2>1. CASE o = a
      <3>1. n + 1 \in 1 .. n + 1
        OBVIOUS
      <3> QED
        BY <1>2, <2>1, <3>1
    <2>2. CASE o # a
      <3>1. PICK k \in 1 .. n : o = Place(r, k)
        BY <2>2 DEF Laid
      <3>2. k \in 1 .. n + 1
        OBVIOUS
      <3> QED
        BY <3>1, <3>2
    <2> QED
      BY <2>1, <2>2
  <1>7. Laid(r, n + 1, a2, g)
    BY <1>2, <1>5, <1>6 DEF Laid
  <1> QED
    BY <1>7 DEF a2, b

-------------------------------------------------------------------------------
(* The steps.                                                              *)

(* The initial state.                                                      *)
LEMMA InitInv == Init => Inv
  BY Constants, MeasurementAssumption
     DEF Init, NoRequest, TOTAL_NUMBER, Inv, Shape, RecordInv, SummaryInv, Complete, Requests

(* A new request, answered at once or with its first block to be written.  *)
LEMMA BeginStep ==
  ASSUME Inv, NEW r \in Requests, Begin(r),
         r.kind = "summary" => /\ r.index = ALL /\ ~r.sign /\ r.room = MAX_RECORD
                               /\ r.type \in {"TCB", "ALL"}
  PROVE  Inv'
  <1>1. /\ req' = r /\ at' = 0 /\ buf' = <<>>
        /\ cached' = 0 /\ read' = 0 /\ summary' = <<>> /\ data_size' = 0
        /\ pc' \in {"idle", "key", "fill"} /\ (pc' = "key" => r.sign)
    BY DEF Begin
  <1>2. Shape'
    BY <1>1, Constants DEF Shape, Requests
  <1>3. CASE pc' # "fill" /\ r.index = TOTAL_NUMBER
    <2>1. r.kind # "summary"
      BY <1>3 DEF TOTAL_NUMBER, ALL
    <2> QED
      BY <1>1, <1>2, <1>3, <2>1 DEF Inv, RecordInv, SummaryInv
  <1>4. CASE pc' # "fill" /\ r.index # TOTAL_NUMBER
    <2>1. pc' = "idle" /\ status' \in {"invalid index", "too small"}
      BY <1>4 DEF Begin
    <2> QED
      BY <1>2, <2>1 DEF Inv, RecordInv, SummaryInv, Complete
  <1>5. CASE pc' = "fill"
    <2>1. /\ Known(r.index) /\ size' = Total(r) /\ Total(r) <= r.room
          /\ count' = (IF r.index = ALL THEN BLOCK_NUMBER ELSE 1) /\ todo' = Order(r)
      BY <1>5 DEF Begin, Total, Order
    <2>2. r.index # TOTAL_NUMBER
      BY <2>1 DEF Known, TOTAL_NUMBER, SVN, MANIFEST, DEVICE_MODE, ALL
    <2>3. count' = Len(Order(r))
      BY <2>1, OrderAll, OrderFacts DEF Order, BLOCK_NUMBER
    <2>4. Order(r) \in Seq(Nat) /\ Len(Order(r)) \in Nat /\ Order(r) # <<>>
      BY <2>1, OrderFacts, LenProperties, EmptySeq
    <2>5. Written' = 0
      BY <1>1, <2>1, <2>4 DEF Written
    <2>6. Laid(r, 0, 0, <<>>)
      BY <2>1, LaidNone
    <2>7. \A i \in 1 .. Len(Order(r)) : Order(r)[i] = Order(r)[0 + i]
      OBVIOUS
    <2>8. RecordInv'
      BY <1>1, <1>5, <2>1, <2>3, <2>4, <2>5, <2>6, <2>7 DEF RecordInv
    <2> QED
      BY <1>1, <1>2, <1>5, <2>2, <2>8 DEF Inv, SummaryInv
  <1> QED
    BY <1>3, <1>4, <1>5

(* One block is written behind the others, or its hash fails.              *)
LEMMA FillStep ==
  ASSUME Inv, Fill
  PROVE  Inv'
  <1> DEFINE b == BlockOf(Head(todo), use_bit_stream(req))
             L == Len(Order(req))
  <1>1. /\ pc = "fill" /\ UNCHANGED <<req, size, count, cached, read, summary, data_size>>
        /\ \/ /\ buf' = [o \in DOMAIN buf \cup {at} |-> IF o = at THEN b ELSE buf[o]]
              /\ at' = at + b.full /\ todo' = Tail(todo)
              /\ \/ Tail(todo) # <<>> /\ pc' = pc
                 \/ Tail(todo) = <<>> /\ req.kind = "summary" /\ pc' = "summary"
                 \/ Tail(todo) = <<>> /\ req.sign /\ pc' = "key"
                 \/ Tail(todo) = <<>> /\ req.kind = "get" /\ ~req.sign /\ pc' = "idle"
           \/ pc' = "idle" /\ status' = "internal error" /\ UNCHANGED at
    BY DEF Fill, hashed, NextAt
  <1>2. /\ req \in Requests /\ req.index # TOTAL_NUMBER /\ Known(req.index)
        /\ count = L /\ size = Total(req) /\ size <= req.room
        /\ todo \in Seq(Nat) /\ Len(todo) <= L /\ todo # <<>>
        /\ \A i \in 1 .. Len(todo) : todo[i] = Order(req)[Written + i]
        /\ Laid(req, Written, at, buf)
        /\ cached = 0 /\ read = 0 /\ summary = <<>> /\ data_size = 0
    BY <1>1 DEF Inv, Shape, RecordInv, SummaryInv
  <1>3. L \in Nat /\ Len(todo) \in Nat /\ Len(todo) > 0
    BY <1>2, OrderFacts, LenProperties, EmptySeq
  <1>4. CASE pc' = "idle" /\ status' = "internal error" /\ at' = at
    <2>1. Shape'
      BY <1>1, <1>4 DEF Inv, Shape
    <2> QED
      BY <1>4, <2>1 DEF Inv, RecordInv, SummaryInv, Complete
  <1>5. CASE /\ buf' = [o \in DOMAIN buf \cup {at} |-> IF o = at THEN b ELSE buf[o]]
             /\ at' = at + b.full /\ todo' = Tail(todo)
             /\ \/ Tail(todo) # <<>> /\ pc' = pc
                \/ Tail(todo) = <<>> /\ req.kind = "summary" /\ pc' = "summary"
                \/ Tail(todo) = <<>> /\ req.sign /\ pc' = "key"
                \/ Tail(todo) = <<>> /\ req.kind = "get" /\ ~req.sign /\ pc' = "idle"
    <2>1. PICK n \in Nat : n = Written /\ n < L /\ L = n + Len(todo)
      <3>1. Written \in Nat /\ Written < L /\ L = Written + Len(todo)
        BY <1>2, <1>3 DEF Written
      <3> QED
        BY <3>1
    <2>2. /\ todo' \in Seq(Nat) /\ Len(todo') = Len(todo) - 1
          /\ \A i \in 1 .. Len(todo') : todo'[i] = todo[i + 1]
      BY <1>2, <1>5, HeadTailProperties
    <2>3. Len(todo') \in Nat /\ Len(todo') <= L
      BY <1>3, <2>1, <2>2
    <2>4. Written' = n + 1
      <3>1. Written' = L - Len(todo')
        BY <1>1 DEF Written
      <3> QED
        BY <1>3, <2>1, <2>2, <3>1
    <2>5. \A i \in 1 .. Len(todo') : todo'[i] = Order(req)[(n + 1) + i]
      <3> SUFFICES ASSUME NEW i \in 1 .. Len(todo') PROVE todo'[i] = Order(req)[(n + 1) + i]
        OBVIOUS
      <3>1. i + 1 \in 1 .. Len(todo) /\ n + (i + 1) = (n + 1) + i
        BY <1>3, <2>2, <2>3
      <3>2. todo[i + 1] = Order(req)[n + (i + 1)]
        BY <1>2, <2>1, <3>1
      <3> QED
        BY <2>2, <3>1, <3>2
    <2>6. Head(todo) = Order(req)[n + 1]
      <3>1. Head(todo) = todo[1] /\ 1 \in 1 .. Len(todo)
        BY <1>2, <1>3
      <3> QED
        BY <1>2, <2>1, <3>1
    <2>7. b = BlockAt(req, n + 1)
      BY <2>6 DEF BlockAt
    <2> HIDE DEF b
    <2>8. Laid(req, n + 1, at', buf')
      <3>1. Laid(req, n, at, buf)
        BY <1>2, <2>1
      <3>2. buf' = [o \in DOMAIN buf \cup {at} |-> IF o = at THEN BlockAt(req, n + 1) ELSE buf[o]]
        BY <1>5, <2>7
      <3>3. at' = at + BlockAt(req, n + 1).full
        BY <1>5, <2>7
      <3>4. Laid(req, n + 1, at + BlockAt(req, n + 1).full, buf')
        BY <1>2, <2>1, <3>1, <3>2, LaidOne
      <3> QED
        BY <3>3, <3>4
    <2>9. at' \in Nat /\ at' <= req.room
      <3>1. at' = Place(req, (n + 1) + 1) /\ (n + 1) + 1 \in 1 .. L + 1
        BY <1>3, <2>1, <2>8 DEF Laid
      <3>2. (n + 1) + 1 \in 1 .. L \/ (n + 1) + 1 = L + 1
        BY <1>3, <3>1
      <3>3. at' \in Nat /\ at' <= Total(req)
        BY <1>2, <3>1, <3>2, PlaceFacts
      <3>4. req.room \in Nat /\ Total(req) \in Nat
        BY <1>2, PlaceFacts DEF Requests
      <3> QED
        BY <1>2, <3>3, <3>4
    <2>10. Shape'
      BY <1>1, <1>5, <2>9 DEF Inv, Shape
    <2>11. pc' = "fill" <=> todo' # <<>>
      BY <1>1, <1>5
    <2>12. RecordInv'
      BY <1>1, <1>2, <2>2, <2>3, <2>4, <2>5, <2>8, <2>11 DEF RecordInv
    <2>13. req.kind = "summary" => ~req.sign
      BY DEF Inv, Shape
    <2>14. SummaryInv'
      <3>1. pc' \in {"fill", "summary", "key", "idle"} /\ (pc' = "idle" => req.kind = "get")
        BY <1>1, <1>5
      <3>2. Place(req, 0 + 1) = 0 /\ 0 \in 0 .. count /\ 0 * COMMON_HEADER = 0
        BY <1>2, <1>3, PlaceFacts, Constants
      <3>3. <<>> \in Seq(Nat) /\ Len(<<>>) = 0 /\ 0 + 0 = 0
        OBVIOUS
      <3>4. /\ req' = req /\ count' = count /\ cached' = 0 /\ read' = 0 /\ summary' = <<>>
            /\ data_size' = 0
        BY <1>1, <1>2
      <3>5. cached' = Place(req', read' + 1) /\ read' \in 0 .. count'
        BY <3>2, <3>4
      <3>6. /\ summary' \in Seq(Nat) /\ Len(summary') = read' /\ \A k \in 1 .. read' : FALSE
            /\ data_size' + (IF req'.v12 THEN 0 ELSE read' * COMMON_HEADER) = cached'
        BY <3>2, <3>3, <3>4
      <3>7. pc' # "idle" \/ req'.kind # "summary"
        BY <3>1, <3>4
      <3> QED
        BY <1>2, <3>4, <3>5, <3>6, <3>7 DEF SummaryInv
    <2> QED
      BY <2>10, <2>12, <2>14 DEF Inv
  <1> QED
    BY <1>1, <1>4, <1>5

(* The reader finds the block it looks for, as it has found the others.    *)
LEMMA ReadBlockStep ==
  ASSUME Inv, ReadBlock
  PROVE  Inv'
  <1> DEFINE b == BlockAt(req, read + 1)
             L == Len(Order(req))
  <1>1. /\ req \in Requests /\ pc = "summary" /\ read < count /\ Complete
        /\ req.kind = "summary" /\ req.index = ALL /\ req.room = MAX_RECORD
        /\ req.type \in {"TCB", "ALL"} /\ req.index # TOTAL_NUMBER
        /\ UNCHANGED <<pc, status, req, todo, at, buf, size, count>> /\ read' = read + 1
    BY DEF Inv, Shape, ReadBlock, Complete, answer, ALL, TOTAL_NUMBER
  <1>2. /\ Known(req.index) /\ count = L /\ size = Total(req) /\ size <= req.room
        /\ todo = <<>> /\ Laid(req, Written, at, buf)
    BY <1>1 DEF Inv, RecordInv
  <1>3. L = HASH_NUMBER + 3 /\ L \in Nat /\ Written = L
    BY <1>1, <1>2, OrderAll, Constants DEF Order, Written
  <1>4. read \in 0 .. L /\ read \in Nat /\ read + 1 \in 1 .. L /\ cached = Place(req, read + 1)
    BY <1>1, <1>2, <1>3 DEF Inv, SummaryInv
  <1>5. cached \in DOMAIN buf /\ buf[cached] = b
    BY <1>2, <1>3, <1>4 DEF Laid
  <1>6. /\ cached \in Nat /\ b.full \in Nat /\ b.msize \in Nat /\ b.full = b.msize + COMMON_HEADER
        /\ BlockSize(b) = b.full /\ b.index = Order(req)[read + 1]
        /\ b.type = IMMUTABLE_ROM <=> Order(req)[read + 1] = 1
    <2> DEFINE n == SizeOf(Order(req)[read + 1], use_bit_stream(req))
    <2>1. n \in Nat /\ BlockTells(b, Order(req)[read + 1], n)
      BY <1>1, <1>2, <1>4, BlockAtFacts
    <2> HIDE DEF n, b
    <2>2. /\ b.index = Order(req)[read + 1] /\ b.msize = DMTF_HEADER + n /\ b.full = HEADER + n
          /\ BlockSize(b) = HEADER + n /\ (b.type = IMMUTABLE_ROM <=> Order(req)[read + 1] = 1)
      BY <2>1 DEF BlockTells
    <2>3. cached \in Nat
      BY <1>1, <1>2, <1>4, PlaceFacts
    <2> QED
      BY <2>1, <2>2, <2>3, Constants
  <1>7. cached + b.full = Place(req, (read + 1) + 1) /\ cached + b.full <= MAX_RECORD
    <2>1. cached + b.full = Place(req, (read + 1) + 1)
      BY <1>1, <1>2, <1>4, PlaceFacts
    <2>2. (read + 1) + 1 \in 1 .. L \/ (read + 1) + 1 = L + 1
      BY <1>3, <1>4
    <2>3. Place(req, (read + 1) + 1) <= Total(req)
      BY <1>1, <1>2, <2>2, PlaceFacts
    <2> QED
      BY <1>1, <1>2, <1>6, <2>1, <2>3, PlaceFacts, Constants, SMTT(30)
  <1>8. cached' = cached + b.full
    BY <1>5, <1>6 DEF ReadBlock
  <1>9. \/ Wanted(b) /\ summary' = Append(summary, b.index) /\ data_size' = data_size + Hashed(b)
        \/ ~Wanted(b) /\ summary' = summary /\ data_size' = data_size
    BY <1>5 DEF ReadBlock
  <1>10. Hashed(b) \in Nat /\ Hashed(b) <= b.full
         /\ Hashed(b) + (IF req.v12 THEN 0 ELSE COMMON_HEADER) = b.full
    BY <1>6, Constants DEF Hashed
  <1> HIDE DEF b
  <1>11. CASE req.type = "ALL"
    <2>1. /\ summary \in Seq(Nat) /\ Len(summary) = read
          /\ \A k \in 1 .. read : summary[k] = Order(req)[k]
          /\ data_size + (IF req.v12 THEN 0 ELSE read * COMMON_HEADER) = cached
      BY <1>1, <1>11 DEF Inv, SummaryInv
    <2>2. data_size \in Nat
      BY DEF Inv, Shape
    <2>3. summary' = Append(summary, Order(req)[read + 1]) /\ data_size' = data_size + Hashed(b)
      BY <1>6, <1>9, <1>11 DEF Wanted
    <2>4. Order(req)[read + 1] \in Nat
      BY <1>1, <1>2, <1>4, OrderFacts, ElementOfSeq
    <2>5. /\ summary' \in Seq(Nat) /\ Len(summary') = read + 1
          /\ \A k \in 1 .. read + 1 : summary'[k] = Order(req)[k]
      BY <1>4, <2>1, <2>3, <2>4
    <2>6. data_size' \in Nat
          /\ data_size' + (IF req.v12 THEN 0 ELSE (read + 1) * COMMON_HEADER) = cached + b.full
      <3>1. PICK c \in Nat : c = read * COMMON_HEADER /\ (read + 1) * COMMON_HEADER = c + COMMON_HEADER
        BY <1>4, Constants
      <3>2. PICK h \in Nat : h = Hashed(b)
        BY <1>10
      <3>3. CASE req.v12
        BY <1>6, <1>10, <2>1, <2>2, <2>3, <3>2, <3>3
      <3>4. CASE ~req.v12
        <4>1. h + COMMON_HEADER = b.full /\ data_size + c = cached /\ data_size' = data_size + h
          BY <1>10, <2>1, <2>3, <3>1, <3>2, <3>4
        <4>2. data_size' \in Nat /\ data_size' + (c + COMMON_HEADER) = cached + b.full
          BY <1>6, <2>2, <4>1, Constants
        <4> QED
          BY <3>1, <3>4, <4>2
      <3> QED
        BY <3>3, <3>4
    <2>7. data_size' <= MAX_RECORD
      <3>1. PICK x \in Nat : x = IF req.v12 THEN 0 ELSE (read + 1) * COMMON_HEADER
        <4>1. (read + 1) * COMMON_HEADER \in Nat
          BY <1>4, Constants
        <4> QED
          BY <4>1
      <3>2. data_size' + x = cached + b.full
        BY <2>6, <3>1
      <3>3. data_size' <= cached + b.full
        BY <1>6, <2>6, <3>2
      <3> QED
        BY <1>6, <1>7, <2>6, <3>3, Constants
    <2>8. Shape'
      BY <1>1, <2>6, <2>7 DEF Inv, Shape
    <2>9. SummaryInv'
      BY <1>1, <1>2, <1>4, <1>7, <1>8, <1>11, <2>5, <2>6 DEF SummaryInv
    <2>10. RecordInv'
      BY <1>1 DEF Inv, RecordInv, Complete, Written
    <2> QED
      BY <2>8, <2>9, <2>10 DEF Inv
  <1>12. CASE req.type = "TCB"
    <2>1. /\ summary = IF read = 0 THEN <<>> ELSE <<1>>
          /\ data_size = IF read = 0 THEN 0 ELSE Hashed(BlockAt(req, 1))
          /\ data_size \in Nat /\ data_size <= MAX_RECORD
      BY <1>1, <1>12 DEF Inv, SummaryInv, Shape
    <2>2. Wanted(b) <=> read = 0
      <3>1. Order(req)[1] = 1 /\ 1 \in 1 .. L
        BY <1>1, <1>3, OrderAll, Constants DEF Order
      <3>2. Order(req)[read + 1] = 1 <=> read + 1 = 1
        BY <1>1, <1>2, <1>4, <3>1, OrderFacts
      <3> QED
        BY <1>4, <1>6, <1>12, <3>2 DEF Wanted
    <2>3. /\ summary' = <<1>> /\ data_size' = Hashed(BlockAt(req, 1)) /\ data_size' \in Nat
          /\ data_size' <= MAX_RECORD
      <3>1. CASE read = 0
        <4>1. b = BlockAt(req, 1) /\ b.index = 1
          BY <1>1, <1>6, <3>1, OrderAll, Constants DEF b, Order
        <4>2. summary' = Append(<<>>, 1) /\ data_size' = 0 + Hashed(b)
          BY <1>9, <2>1, <2>2, <3>1, <4>1
        <4>3. Hashed(b) <= MAX_RECORD
          BY <1>6, <1>7, <1>10, Constants
        <4> QED
          BY <1>10, <4>1, <4>2, <4>3
      <3>2. CASE read # 0
        BY <1>9, <2>1, <2>2, <3>2
      <3> QED
        BY <3>1, <3>2
    <2>4. Shape'
      BY <1>1, <2>3 DEF Inv, Shape
    <2>5. Hashed(BlockAt(req, 1))' = Hashed(BlockAt(req, 1)) /\ read' # 0
      BY <1>1, <1>4 DEF Hashed
    <2>6. SummaryInv'
      BY <1>1, <1>2, <1>4, <1>7, <1>8, <1>12, <2>3, <2>5 DEF SummaryInv
    <2>7. RecordInv'
      BY <1>1 DEF Inv, RecordInv, Complete, Written
    <2> QED
      BY <2>4, <2>6, <2>7 DEF Inv
  <1> QED
    BY <1>1, <1>11, <1>12

(* The hash of the summary and the signature leave the record alone.       *)
LEMMA AfterRecordStep ==
  ASSUME Inv, Summarise \/ SetKey \/ Sign
  PROVE  Inv'
  <1>1. /\ UNCHANGED <<req, todo, at, buf, size, count, cached, read, summary, data_size>>
        /\ pc \in {"summary", "key", "sign"} /\ pc' \in {"idle", "key", "sign"}
        /\ pc = "summary" => pc' = "idle" /\ read = count
        /\ pc' \in {"key", "sign"} => pc \in {"key", "sign"}
    BY DEF Summarise, SetKey, Sign, SignReturns, answer, hashed
  <1>2. Shape'
    BY <1>1 DEF Inv, Shape
  <1>3. RecordInv'
    BY <1>1 DEF Inv, RecordInv, Complete, Written
  <1>4. SummaryInv'
    <2>1. CASE pc = "summary"
      BY <1>1, <2>1 DEF Inv, SummaryInv, Hashed
    <2>2. CASE pc # "summary"
      <3>1. req'.kind # "summary" /\ pc' # "fill"
        BY <1>1, <2>2 DEF Inv, Shape
      <3> QED
        BY <3>1 DEF SummaryInv
    <2> QED
      BY <2>1, <2>2
  <1> QED
    BY <1>2, <1>3, <1>4 DEF Inv

(* Every step keeps Inv.                                                   *)
LEMMA InvStep ==
  ASSUME Inv, [Next]_vars
  PROVE  Inv'
  <1>1. CASE GetMeasurements
    <2>1. PICK index \in 0 .. HASH_NUMBER + 1 \cup {SVN, MANIFEST, DEVICE_MODE, ALL},
               raw_only \in BOOLEAN, raw \in BOOLEAN, sign \in BOOLEAN, v12 \in BOOLEAN,
               room \in Capacities :
            Begin([kind |-> "get", index |-> index, raw_only |-> raw_only, raw |-> raw,
                   sign |-> sign, v12 |-> v12, room |-> room, type |-> "none"])
      BY <1>1 DEF GetMeasurements
    <2> DEFINE r == [kind |-> "get", index |-> index, raw_only |-> raw_only, raw |-> raw,
                     sign |-> sign, v12 |-> v12, room |-> room, type |-> "none"]
    <2>2. index \in Nat /\ room \in Nat
      BY Constants, MeasurementAssumption DEF SVN, MANIFEST, DEVICE_MODE, ALL
    <2>3. r \in Requests /\ r.kind # "summary"
      BY <2>2 DEF Requests
    <2> QED
      BY <2>1, <2>3, BeginStep
  <1>2. CASE GenerateSummary
    <2>1. PICK raw_only \in BOOLEAN, v12 \in BOOLEAN, type \in {"TCB", "ALL"} :
            Begin([kind |-> "summary", index |-> ALL, raw_only |-> raw_only, raw |-> FALSE,
                   sign |-> FALSE, v12 |-> v12, room |-> MAX_RECORD, type |-> type])
      BY <1>2 DEF GenerateSummary
    <2> DEFINE r == [kind |-> "summary", index |-> ALL, raw_only |-> raw_only, raw |-> FALSE,
                     sign |-> FALSE, v12 |-> v12, room |-> MAX_RECORD, type |-> type]
    <2>2. r \in Requests
      BY Constants DEF Requests, ALL
    <2>3. r.index = ALL /\ ~r.sign /\ r.room = MAX_RECORD /\ r.type \in {"TCB", "ALL"}
      OBVIOUS
    <2> QED
      BY <2>1, <2>2, <2>3, BeginStep
  <1>3. CASE UNCHANGED vars
    BY <1>3 DEF vars, Inv, Shape, RecordInv, SummaryInv, Complete, Written, Hashed
  <1> QED
    BY <1>1, <1>2, <1>3, FillStep, ReadBlockStep, AfterRecordStep DEF Next

(* Inv is an invariant of the collection.                                  *)
LEMMA Invariant == Spec => []Inv
  BY InitInv, InvStep, PTL DEF Spec

(* The room for the record is kept to, and whatever is signed, hashed or   *)
(* sent is complete and can be read back block by block: the size          *)
(* libspdm_measurement_collection works out beforehand is the size of what *)
(* it then writes, for any sizes the 16-bit fields can hold.               *)
THEOREM RecordsAreComplete == Spec => []RecordComplete
  <1>1. Inv => RecordComplete
    <2> SUFFICES ASSUME Inv, Complete, req.index # TOTAL_NUMBER
                 PROVE  LET order == Indices(req.index)
                        IN  /\ count = Len(order) /\ Holds(0, order[1])
                            /\ \A o \in DOMAIN buf, k \in 1 .. count :
                                 Holds(o, order[k]) =>
                                   LET next == o + BlockSize(buf[o])
                                   IN  IF k = count THEN next = size ELSE Holds(next, order[k + 1])
                            /\ \A o \in DOMAIN buf : buf[o].msize = DMTF_HEADER + buf[o].dsize
      BY DEF RecordComplete, Inv, Shape
    <2> DEFINE L == Len(Order(req))
    <2>1. /\ req \in Requests /\ Known(req.index) /\ count = L /\ size = Total(req) /\ todo = <<>>
          /\ Laid(req, Written, at, buf)
      BY DEF Inv, Shape, RecordInv, Complete
    <2>2. L \in Nat /\ L >= 1 /\ Written = L
      BY <2>1, OrderFacts, LenProperties DEF Written
    <2>3. /\ \A k \in 1 .. L : Place(req, k) \in DOMAIN buf /\ buf[Place(req, k)] = BlockAt(req, k)
          /\ \A o \in DOMAIN buf : \E k \in 1 .. L : o = Place(req, k)
      BY <2>1, <2>2 DEF Laid
    <2>4. \A k \in 1 .. L : /\ BlockAt(req, k).index = Order(req)[k]
                            /\ BlockSize(BlockAt(req, k)) = BlockAt(req, k).full
                            /\ BlockAt(req, k).msize = DMTF_HEADER + BlockAt(req, k).dsize
      BY <2>1, BlockAtFacts DEF BlockTells
    <2>5. Holds(0, Order(req)[1])
      <3>1. 1 \in 1 .. L /\ Place(req, 1) = 0
        BY <2>1, <2>2, PlaceFacts
      <3> QED
        BY <2>3, <2>4, <3>1 DEF Holds
    <2>6. ASSUME NEW o \in DOMAIN buf, NEW k \in 1 .. L, Holds(o, Order(req)[k])
          PROVE  IF k = L THEN o + BlockSize(buf[o]) = size
                 ELSE Holds(o + BlockSize(buf[o]), Order(req)[k + 1])
      <3>1. PICK j \in 1 .. L : o = Place(req, j)
        BY <2>3
      <3>2. j = k
        <4>1. Order(req)[j] = Order(req)[k]
          BY <2>3, <2>4, <2>6, <3>1 DEF Holds
        <4> QED
          BY <2>1, <4>1, OrderFacts
      <3>3. o + BlockSize(buf[o]) = Place(req, k + 1)
        BY <2>1, <2>3, <2>4, <3>1, <3>2, PlaceFacts
      <3>4. CASE k = L
        BY <2>1, <3>3, <3>4, PlaceFacts
      <3>5. CASE k # L
        <4>1. k + 1 \in 1 .. L
          BY <2>2, <3>5
        <4> QED
          BY <2>3, <2>4, <3>3, <3>5, <4>1 DEF Holds
      <3> QED
        BY <3>4, <3>5
    <2>7. \A o \in DOMAIN buf : buf[o].msize = DMTF_HEADER + buf[o].dsize
      BY <2>3, <2>4
    <2> QED
      BY <2>1, <2>5, <2>6, <2>7 DEF Order
  <1> QED
    BY Invariant, <1>1, PTL

(* The summary hash is over exactly the blocks it should cover, and        *)
(* measurement_data is never written past its end.                         *)
THEOREM SummariesCover == Spec => []SummaryCovers
  <1>1. Inv => SummaryCovers
    <2> SUFFICES ASSUME Inv, pc = "idle", req.kind = "summary", status = "success"
                 PROVE  /\ summary = IF req.type = "TCB" THEN <<1>> ELSE Indices(ALL)
                        /\ req.type = "ALL" =>
                             data_size + (IF req.v12 THEN 0 ELSE count * COMMON_HEADER) = size
      BY DEF SummaryCovers, Inv, Shape
    <2>1. /\ req \in Requests /\ req.index = ALL /\ req.index # TOTAL_NUMBER /\ Complete
          /\ req.type \in {"TCB", "ALL"}
      BY DEF Inv, Shape, Complete, ALL, TOTAL_NUMBER
    <2>2. Known(req.index) /\ count = Len(Order(req)) /\ size = Total(req)
      BY <2>1 DEF Inv, RecordInv
    <2>3. read = count /\ cached = Place(req, count + 1)
      BY DEF Inv, SummaryInv
    <2>4. cached = size
      BY <2>1, <2>2, <2>3, PlaceFacts
    <2>5. CASE req.type = "ALL"
      <3>1. /\ summary \in Seq(Nat) /\ Len(summary) = count
            /\ \A k \in 1 .. count : summary[k] = Order(req)[k]
            /\ data_size + (IF req.v12 THEN 0 ELSE count * COMMON_HEADER) = cached
        BY <2>3, <2>5 DEF Inv, SummaryInv
      <3>2. summary = Order(req)
        BY <2>1, <2>2, <3>1, OrderFacts, SeqEqual
      <3> QED
        BY <2>1, <2>4, <2>5, <3>1, <3>2 DEF Order
    <2>6. CASE req.type = "TCB"
      <3>1. read # 0
        BY <2>1, <2>2, <2>3, OrderFacts
      <3> QED
        BY <2>6, <3>1 DEF Inv, SummaryInv
    <2> QED
      BY <2>1, <2>5, <2>6
  <1> QED
    BY Invariant, <1>1, PTL

(* The context of the private key lives only while a signature is made:    *)
(* every path out of libspdm_responder_data_sign frees it.                 *)
THEOREM KeysAreFreed == Spec => []KeyFreed
  <1>1. Init => KeyFreed
    BY DEF Init, KeyFreed
  <1>2. KeyFreed /\ [Next]_vars => KeyFreed'
    <2> SUFFICES ASSUME KeyFreed, [Next]_vars PROVE KeyFreed'
      OBVIOUS
    <2>1. CASE GetMeasurements \/ GenerateSummary
      <3>1. pc = "idle" /\ key' = key
        <4>1. PICK r : Begin(r)
          BY <2>1, Zenon DEF GetMeasurements, GenerateSummary
        <4> QED
          BY <4>1 DEF Begin
      <3> QED
        BY <3>1 DEF KeyFreed
    <2>2. CASE Fill \/ ReadBlock \/ Summarise
      <3>1. pc \notin {"key", "sign"} /\ key' = key
        BY <2>2 DEF Fill, ReadBlock, Summarise
      <3> QED
        BY <3>1 DEF KeyFreed
    <2>3. CASE SetKey
      BY <2>3 DEF KeyFreed, SetKey, SignReturns
    <2>4. CASE Sign
      BY <2>4 DEF KeyFreed, Sign, SignReturns
    <2>5. CASE UNCHANGED vars
      BY <2>5 DEF vars, KeyFreed
    <2> QED
      BY <2>1, <2>2, <2>3, <2>4, <2>5 DEF Next
  <1> QED
    BY <1>1, <1>2, PTL DEF Spec
===============================================================================

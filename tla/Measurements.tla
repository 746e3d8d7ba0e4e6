---------------------------- MODULE Measurements ----------------------------
(***************************************************************************)
(* Measurement collection and signing of the Microblaze firmware           *)
(* (measurement_functions.c, signature_functions.c), called by libspdm's   *)
(* responder for GET_MEASUREMENTS and for the measurement summary hash of  *)
(* CHALLENGE and KEY_EXCHANGE.  The buffer is a function from byte offsets *)
(* to the block that was written there; a reader finds the next block by   *)
(* the size field of the last, as requester and summary hash do.  Values   *)
(* are abstracted to what they are a value of.                             *)
(***************************************************************************)
EXTENDS Integers, Sequences

CONSTANTS HASH_NUMBER,      \* LIBSPDM_MEASUREMENT_BLOCK_HASH_NUMBER
          HASH_SIZE,        \* of the measurement hash
          RAW_DATA_SIZE, MANIFEST_SIZE, SVN_SIZE, DEVICE_MODE_SIZE,
          COMMON_HEADER, DMTF_HEADER,    \* bytes of the two headers
          MAX_RECORD,       \* LIBSPDM_MAX_MEASUREMENT_RECORD_SIZE
          Capacities        \* room libspdm has for the record

ASSUME MeasurementAssumption ==
  /\ HASH_NUMBER \in 1 .. 15
  /\ {HASH_SIZE, RAW_DATA_SIZE, MANIFEST_SIZE, SVN_SIZE, DEVICE_MODE_SIZE,
      COMMON_HEADER, DMTF_HEADER, MAX_RECORD} \subseteq Nat \ {0}
  /\ \A n \in {HASH_SIZE, RAW_DATA_SIZE, MANIFEST_SIZE, SVN_SIZE, DEVICE_MODE_SIZE} :
       DMTF_HEADER + n < 2^16        \* what the size fields can hold
  /\ Capacities \subseteq Nat

TOTAL_NUMBER == 0
SVN == 16
MANIFEST == 253
DEVICE_MODE == 254
ALL == 255
BLOCK_NUMBER == HASH_NUMBER + 3
HEADER == COMMON_HEADER + DMTF_HEADER        \* sizeof(spdm_measurement_block_dmtf_t)
IMMUTABLE_ROM == 0
NO_KEY == -1

VARIABLES pc,        \* "idle", "fill", "summary", "key", "sign"
          req,       \* the request being answered
          todo,      \* indices of the blocks still to be written
          at,        \* measurement_block, as an offset
          buf,       \* [offset -> block]
          size, count, changed,    \* the caller's out parameters
          status,    \* of the last call that returned
          key,       \* the RSA context: NO_KEY, or how many of N, E, D it was given
          cached, read,    \* cached_measurment_block, and the loop's index
          summary, data_size    \* measurement_data: the blocks in it, its bytes

vars == <<pc, req, todo, at, buf, size, count, changed, status, key,
          cached, read, summary, data_size>>
answer == <<size, count, changed>>
hashed == <<cached, read, summary, data_size>>

NoRequest == [kind |-> "none", index |-> TOTAL_NUMBER, raw_only |-> FALSE, raw |-> FALSE,
              sign |-> FALSE, v12 |-> FALSE, room |-> 0, type |-> "none"]

Init ==
  /\ pc = "idle" /\ req = NoRequest /\ todo = <<>> /\ at = 0 /\ buf = <<>>
  /\ size = 0 /\ count = 0 /\ changed = "unset" /\ status = "none"
  /\ key = NO_KEY /\ cached = 0 /\ read = 0 /\ summary = <<>> /\ data_size = 0

(* The raw bit stream is used if there is no hash or the request asks.     *)
use_bit_stream(r) == r.raw_only \/ r.raw
-----------------------------------------------------------------------------
(* The blocks.  dsize and msize are the two size fields.                   *)

Block(index, type, raw, n) ==
  [index |-> index, type |-> type, raw |-> raw, dsize |-> n % 2^16,
   msize |-> (DMTF_HEADER + n) % 2^16, full |-> HEADER + n]

fill_measurement_image_hash_block(index, raw) ==
  IF raw THEN Block(index, index - 1, TRUE, RAW_DATA_SIZE)
  ELSE Block(index, index - 1, FALSE, HASH_SIZE)
fill_measurement_svn_block == Block(SVN, 7, TRUE, SVN_SIZE)
fill_measurement_manifest_block == Block(MANIFEST, 4, TRUE, MANIFEST_SIZE)
fill_measurement_device_mode_block == Block(DEVICE_MODE, 5, TRUE, DEVICE_MODE_SIZE)

BlockOf(index, raw) ==
  CASE index = SVN -> fill_measurement_svn_block
    [] index = MANIFEST -> fill_measurement_manifest_block
    [] index = DEVICE_MODE -> fill_measurement_device_mode_block
    [] OTHER -> fill_measurement_image_hash_block(index, raw)

(* total_size_needed, worked out before anything is written.               *)
total_size_needed(index, raw) ==
  LET image == HEADER + (IF raw THEN RAW_DATA_SIZE ELSE HASH_SIZE)
  IN  CASE index = ALL -> HASH_NUMBER * image + (HEADER + SVN_SIZE)
                            + (HEADER + MANIFEST_SIZE) + (HEADER + DEVICE_MODE_SIZE)
        [] index = SVN -> HEADER + SVN_SIZE
        [] index = MANIFEST -> HEADER + MANIFEST_SIZE
        [] index = DEVICE_MODE -> HEADER + DEVICE_MODE_SIZE
        [] OTHER -> image

Known(index) == index \in (1 .. HASH_NUMBER) \cup {SVN, MANIFEST, DEVICE_MODE, ALL}

Indices(index) ==
  IF index = ALL THEN [k \in 1 .. HASH_NUMBER |-> k] \o <<SVN, MANIFEST, DEVICE_MODE>>
  ELSE <<index>>
-----------------------------------------------------------------------------
(* The last lines of a successful collection for request r.              *)
Collected(r) ==
  changed' = IF r.kind = "get" /\ r.v12
             THEN IF r.sign THEN "no change" ELSE "no detection"
             ELSE "unset"

(* libspdm_measurement_collection up to the first block.  The out          *)
(* parameters are set before the blocks are there.                         *)
Begin(r) ==
  /\ pc = "idle"
  /\ req' = r /\ at' = 0 /\ buf' = <<>> /\ UNCHANGED key
  /\ cached' = 0 /\ read' = 0 /\ summary' = <<>> /\ data_size' = 0
  /\ LET needed == total_size_needed(r.index, use_bit_stream(r))
     IN  \/ /\ r.index = TOTAL_NUMBER
            /\ pc' = IF r.sign THEN "key" ELSE "idle"
            /\ status' = IF r.sign THEN "none" ELSE "success"
            /\ count' = BLOCK_NUMBER /\ size' = r.room
            /\ todo' = <<>> /\ Collected(r)
         \/ /\ r.index # TOTAL_NUMBER /\ ~Known(r.index)
            /\ pc' = "idle" /\ status' = "invalid index" /\ count' = 0 /\ size' = r.room
            /\ todo' = <<>> /\ changed' = "unset"
         \/ /\ Known(r.index) /\ needed > r.room
            /\ pc' = "idle" /\ status' = "too small" /\ size' = r.room
            /\ todo' = <<>> /\ changed' = "unset" /\ UNCHANGED count
         \/ /\ Known(r.index) /\ needed <= r.room
            /\ pc' = "fill" /\ status' = "none" /\ size' = needed
            /\ count' = IF r.index = ALL THEN BLOCK_NUMBER ELSE 1
            /\ todo' = Indices(r.index) /\ changed' = "unset"

(* libspdm asks for the measurements the requester wants; raw_only is the  *)
(* negotiated algorithm RAW_BIT_STREAM_ONLY.                               *)
GetMeasurements ==
  \E index \in 0 .. HASH_NUMBER + 1 \cup {SVN, MANIFEST, DEVICE_MODE, ALL},
     raw_only \in BOOLEAN, raw \in BOOLEAN, sign \in BOOLEAN, v12 \in BOOLEAN, room \in Capacities :
    Begin([kind |-> "get", index |-> index, raw_only |-> raw_only, raw |-> raw,
           sign |-> sign, v12 |-> v12, room |-> room, type |-> "none"])

(* libspdm_generate_measurement_summary_hash collects all of them without  *)
(* a request attribute into a buffer of its own.                           *)
GenerateSummary ==
  \E raw_only \in BOOLEAN, v12 \in BOOLEAN, type \in {"TCB", "ALL"} :
    Begin([kind |-> "summary", index |-> ALL, raw_only |-> raw_only, raw |-> FALSE,
           sign |-> FALSE, v12 |-> v12, room |-> MAX_RECORD, type |-> type])

MutNextAt(b) == at + b.msize    \* the common header is not counted

NextAt(b) == at + b.full

(* One block; only a hash can fail.  What was set before stays set.        *)
Fill ==
  /\ pc = "fill"
  /\ LET b == BlockOf(Head(todo), use_bit_stream(req))
     IN  \/ /\ buf' = [o \in DOMAIN buf \cup {at} |-> IF o = at THEN b ELSE buf[o]]
            /\ at' = NextAt(b)
            /\ todo' = Tail(todo)
            /\ \/ Tail(todo) # <<>> /\ UNCHANGED <<pc, status, changed>>
               \/ /\ Tail(todo) = <<>> /\ Collected(req)
                  /\ \/ req.kind = "summary" /\ pc' = "summary" /\ UNCHANGED status
                     \/ req.sign /\ pc' = "key" /\ UNCHANGED status
                     \/ req.kind = "get" /\ ~req.sign /\ pc' = "idle" /\ status' = "success"
         \/ /\ ~b.raw
            /\ pc' = "idle" /\ status' = "internal error" /\ todo' = <<>>
            /\ UNCHANGED <<buf, at, changed>>
  /\ UNCHANGED <<req, size, count, key, hashed>>

(* measurment_block_size: how a reader gets from a block to the next.      *)
BlockSize(b) == COMMON_HEADER + b.msize

MutWanted(b) == req.type = "ALL" \/ b.type % 4 = IMMUTABLE_ROM    \* the mask is too narrow

(* The mask takes the raw bit off the type.                                *)
Wanted(b) == req.type = "ALL" \/ b.type = IMMUTABLE_ROM

(* What of a block is hashed: from 1.2 on the common header too.           *)
Hashed(b) == b.msize + (IF req.v12 THEN COMMON_HEADER ELSE 0)

(* libspdm_generate_measurement_summary_hash, a block.                     *)
Missing == [index |-> -1, type |-> -1, raw |-> TRUE, dsize |-> 0, msize |-> 0, full |-> 0]
ReadBlock ==
  /\ pc = "summary" /\ read < count
  /\ LET b == IF cached \in DOMAIN buf THEN buf[cached] ELSE Missing
     IN  /\ \/ Wanted(b) /\ summary' = Append(summary, b.index) /\ data_size' = data_size + Hashed(b)
            \/ ~Wanted(b) /\ UNCHANGED <<summary, data_size>>
         /\ cached' = cached + BlockSize(b)
  /\ read' = read + 1
  /\ UNCHANGED <<pc, status, req, todo, at, buf, answer, key>>

Summarise ==
  /\ pc = "summary" /\ read = count
  /\ pc' = "idle"
  /\ status' \in {"success", "internal error"}
  /\ UNCHANGED <<req, todo, at, buf, answer, key, hashed>>
-----------------------------------------------------------------------------
(* libspdm_responder_data_sign with the key in private_key.h.              *)

SignReturns(result) ==
  /\ pc' = "idle"
  /\ status' = result

MutSetKey ==                    \* the context is not freed after an error
  /\ pc = "key"
  /\ \/ key < 3 /\ key' = key + 1 /\ UNCHANGED <<pc, status>>
     \/ key < 3 /\ SignReturns("sign error") /\ UNCHANGED key
  /\ UNCHANGED <<req, todo, at, buf, answer, hashed>>

(* rsa_new, then rsa_set_key for N, E and D: a failure frees the context   *)
(* if there is one.  What setting P and Q returns is not looked at.        *)
SetKey ==
  /\ pc = "key"
  /\ \/ key < 3 /\ key' = key + 1 /\ UNCHANGED <<pc, status>>
     \/ key < 3 /\ key' = NO_KEY /\ SignReturns("sign error")
     \/ key = 3 /\ pc' = "sign" /\ UNCHANGED <<key, status>>
  /\ UNCHANGED <<req, todo, at, buf, answer, hashed>>

Sign ==
  /\ pc = "sign"
  /\ SignReturns("success") \/ SignReturns("sign error")
  /\ key' = NO_KEY
  /\ UNCHANGED <<req, todo, at, buf, answer, hashed>>

Next == GetMeasurements \/ GenerateSummary \/ Fill \/ ReadBlock \/ Summarise \/ SetKey \/ Sign

Spec == Init /\ [][Next]_vars
-----------------------------------------------------------------------------
(* The room libspdm gave is never exceeded, though the size is worked out  *)
(* apart from the code that writes.  And before anything is signed, hashed *)
(* or sent, the record is complete: as many blocks as *measurements_count  *)
(* says, found one after the other by their size fields, in the order of   *)
(* their indices, end exactly at *measurements_size; and the two size      *)
(* fields of each agree, as the loop of assertions wants them.             *)
Complete == pc \in {"summary", "key", "sign"} \/ (pc = "idle" /\ status = "success")
Holds(o, index) == o \in DOMAIN buf /\ buf[o].index = index
RecordComplete ==
  /\ at <= req.room
  /\ Complete /\ req.index # TOTAL_NUMBER =>
       LET order == Indices(req.index)
       IN  /\ count = Len(order) /\ Holds(0, order[1])
           /\ \A o \in DOMAIN buf, k \in 1 .. count :
                Holds(o, order[k]) => LET next == o + BlockSize(buf[o])
                                      IN  IF k = count THEN next = size ELSE Holds(next, order[k + 1])
           /\ \A o \in DOMAIN buf : buf[o].msize = DMTF_HEADER + buf[o].dsize

(* The summary is over the immutable ROM only, or over everything, read    *)
(* back from the record; in the second case not a byte of the record is    *)
(* missing but, before 1.2, the common headers.  It never outgrows the     *)
(* buffer it is put together in.                                           *)
SummaryCovers ==
  /\ data_size <= MAX_RECORD
  /\ pc = "idle" /\ req.kind = "summary" /\ status = "success" =>
       /\ summary = IF req.type = "TCB" THEN <<1>> ELSE Indices(ALL)
       /\ req.type = "ALL" =>
            data_size + (IF req.v12 THEN 0 ELSE count * COMMON_HEADER) = size

(* The private key's context lives only while a signature is made, on      *)
(* every path out of it.                                                   *)
KeyFreed == pc \notin {"key", "sign"} => key = NO_KEY
=============================================================================

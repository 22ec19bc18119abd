----------------------------- MODULE RingProofs -----------------------------
(***************************************************************************)
(* Proof that the ring buffer of module RingBuffer implements ByteQueue,   *)
(* for any threads, bytes, capacity and width of the heads the capacity    *)
(* divides.                                                                *)
(*                                                                         *)
(* First the arithmetic of heads that wrap around, then the inductive      *)
(* invariant, then the refinement step by step.                            *)
(***************************************************************************)
EXTENDS RingBuffer, SequenceTheorems, TLAPS

(* First-order steps are left to Zenon; a step that needs arithmetic or    *)
(* function updates cites SMT.                                             *)
USE Zenon

(* Quotient and remainder, as the % of a head and of an index.             *)
LEMMA DivMod ==
    ASSUME NEW a \in Int, NEW b \in Nat \ {0}
    PROVE  a % b \in 0 .. b - 1 /\ a \div b \in Int /\ a = b * (a \div b) + (a % b)
BY SMT

(* A multiple of b is at least b.                                          *)
LEMMA ProductAtLeast ==
    ASSUME NEW b \in Nat \ {0}, NEW q \in Nat \ {0}
    PROVE  b * q >= b /\ b * q \in Nat
BY SMT

(* The remainder is determined by any representation b * q + r.            *)
LEMMA Remainder ==
    ASSUME NEW a \in Int, NEW b \in Nat \ {0}, NEW q \in Int, NEW r \in 0 .. b - 1,
           a = b * q + r
    PROVE  a % b = r
<1> DEFINE p == a \div b
           s == a % b
<1>1. s \in 0 .. b - 1 /\ p \in Int /\ a = b * p + s
  BY DivMod
<1> HIDE DEF p, s
<1>2. b * (p - q) = r - s /\ b * (q - p) = s - r
  BY <1>1, SMT
<1>3. p - q \notin Nat \ {0}
  BY <1>1, <1>2, ProductAtLeast, SMT
<1>4. q - p \notin Nat \ {0}
  BY <1>1, <1>2, ProductAtLeast, SMT
<1>5. p = q
  BY <1>1, <1>3, <1>4, SMT
<1> QED
  BY <1>1, <1>5, SMT DEF s

(* Adding a multiple of the capacity does not move an index: this is why a *)
(* head may wrap around at 2^64.                                           *)
LEMMA ModShift ==
    ASSUME NEW a \in Int, NEW b \in Nat \ {0}, NEW m \in Int, m % b = 0
    PROVE  (a + m) % b = a % b
<1> DEFINE q == a \div b
           r == a % b
           k == m \div b
           x == a + m
           y == q + k
<1>1. /\ r \in 0 .. b - 1 /\ q \in Int /\ a = b * q + r
      /\ k \in Int /\ m = b * k
  BY DivMod, SMT
<1>2. x \in Int /\ y \in Int
  BY <1>1, SMT
<1> HIDE DEF q, r, k
<1>3. x = b * y + r
  BY <1>1, SMT
<1> HIDE DEF x, y
<1>4. x % b = r
  BY <1>1, <1>2, <1>3, Remainder
<1> QED
  BY <1>4 DEF x, r

(* Positions closer than the capacity are in different slots.              *)
LEMMA ModApart ==
    ASSUME NEW a \in Int, NEW b \in Nat \ {0}, NEW d \in 1 .. b - 1
    PROVE  (a + d) % b # a % b
<1> DEFINE q == a \div b
           r == a % b
           x == a + d
           y == IF r + d < b THEN q ELSE q + 1
           s == IF r + d < b THEN r + d ELSE r + d - b
<1>1. r \in 0 .. b - 1 /\ q \in Int /\ a = b * q + r
  BY DivMod
<1> HIDE DEF q, r
<1>2. s \in 0 .. b - 1 /\ y \in Int /\ s # r /\ x \in Int
  BY <1>1, SMT
<1>3. x = b * y + s
  BY <1>1, SMT
<1> HIDE DEF x, y, s
<1>4. x % b = s
  BY <1>2, <1>3, Remainder
<1> QED
  BY <1>2, <1>4 DEF x, r

(* The heads differ by less than twice their range: one wrap.              *)
LEMMA WrapOnce ==
    ASSUME NEW h \in Nat \ {0}, NEW x \in -h .. 2 * h - 1
    PROVE  x % h = IF x < 0 THEN x + h ELSE IF x < h THEN x ELSE x - h
<1>1. CASE x < 0
  <2>1. x = h * (-1) + (x + h) /\ x + h \in 0 .. h - 1
    BY <1>1, SMT
  <2> QED
    BY <1>1, <2>1, Remainder, SMT
<1>2. CASE x \in 0 .. h - 1
  BY <1>2, SMT
<1>3. CASE x >= h
  <2>1. x = h * 1 + (x - h) /\ x - h \in 0 .. h - 1
    BY <1>3, SMT
  <2> QED
    BY <1>3, <2>1, Remainder, SMT
<1> QED
  BY <1>1, <1>2, <1>3, SMT

(* The distance of two heads, and a head advanced by at most its range.    *)
LEMMA Distance ==
    ASSUME NEW h \in Nat \ {0}, NEW r \in 0 .. h - 1, NEW w \in 0 .. h - 1
    PROVE  (w - r) % h = IF w >= r THEN w - r ELSE w - r + h
<1>1. PICK x \in -h .. 2 * h - 1 : x = w - r
  BY SMT
<1>2. x % h = IF x < 0 THEN x + h ELSE IF x < h THEN x ELSE x - h
  BY WrapOnce
<1>3. (w - r) % h = x % h
  BY <1>1
<1> QED
  BY <1>1, <1>2, <1>3, SMT

(* An index advanced by k and wrapped at h.                                *)
LEMMA Advance ==
    ASSUME NEW h \in Nat \ {0}, NEW r \in 0 .. h - 1, NEW k \in 0 .. h
    PROVE  (r + k) % h = IF r + k < h THEN r + k ELSE r + k - h
<1>1. PICK x \in -h .. 2 * h - 1 : x = r + k
  BY SMT
<1>2. x % h = IF x < 0 THEN x + h ELSE IF x < h THEN x ELSE x - h
  BY WrapOnce
<1>3. (r + k) % h = x % h
  BY <1>1
<1> QED
  BY <1>1, <1>2, <1>3, SMT

-----------------------------------------------------------------------------
(***************************************************************************)
(* The inductive invariant.                                                *)
(***************************************************************************)

(* At[j]: the byte j positions behind read_head.                           *)
At == [j \in Int |-> buff[(read_head + j) % Capacity]]

(* The heads are in range and no further apart than the capacity.          *)
HeadInv ==
    /\ read_head \in 0 .. HeadMod - 1
    /\ write_head \in 0 .. HeadMod - 1
    /\ Used \in 0 .. Capacity
    /\ buff \in [0 .. Capacity - 1 -> Byte]

CallTypeOK ==
    /\ lock \in Thread \cup {NULL}
    /\ op \in [Thread -> {"none", "read", "write"}]
    /\ len \in [Thread -> 0 .. MaxLen]
    /\ data \in [Thread -> Seq(Byte)]
    /\ done \in [Thread -> 0 .. MaxLen]
    /\ DOMAIN result = Thread

(* What thread t, in the loop of a read or write, has moved so far: a      *)
(* reader has its bytes in data, a writer the last bytes of the ring.      *)
CallInv(t) ==
    /\ (op[t] # "none") <=> (lock = t)
    /\ op[t] = "none" => done[t] = 0 /\ data[t] = <<>>
    /\ done[t] <= len[t]
    /\ op[t] = "read" => /\ len[t] > 0
                         /\ Len(data[t]) = done[t]
                         /\ done[t] + Used <= Capacity
    /\ op[t] = "write" => /\ len[t] > 0
                          /\ Len(data[t]) = len[t]
                          /\ done[t] <= Used
                          /\ \A k \in 1 .. done[t] :
                                data[t][k] = At[Used - done[t] + k - 1]

RInv == HeadInv /\ CallTypeOK /\ \A t \in Thread : CallInv(t)

(* How far apart the heads are, and when the ring is empty or full.        *)
LEMMA UsedIs ==
    ASSUME HeadInv
    PROVE  /\ Used = IF write_head >= read_head THEN write_head - read_head
                     ELSE write_head - read_head + HeadMod
           /\ Empty <=> Used = 0
           /\ Full <=> Used = Capacity
<1>1. /\ HeadMod \in Nat \ {0} /\ Capacity \in 0 .. HeadMod
      /\ read_head \in 0 .. HeadMod - 1 /\ write_head \in 0 .. HeadMod - 1
      /\ Used \in 0 .. Capacity
  BY RingAssumption, SMT DEF HeadInv
<1>2. Used = IF write_head >= read_head THEN write_head - read_head
             ELSE write_head - read_head + HeadMod
  BY <1>1, Distance DEF Used
<1>3. (read_head + Capacity) % HeadMod =
         IF read_head + Capacity < HeadMod THEN read_head + Capacity
         ELSE read_head + Capacity - HeadMod
  BY <1>1, Advance
<1>4. Capacity < HeadMod
  BY RingAssumption
<1> QED
  BY <1>1, <1>2, <1>3, <1>4, SMT DEF Empty, Full

(* An index wraps around with a head.                                      *)
LEMMA IndexWraps ==
    ASSUME NEW j \in Int
    PROVE  (j + HeadMod) % Capacity = j % Capacity
<1>1. HeadMod % Capacity = 0 /\ HeadMod \in Int /\ Capacity \in Nat \ {0}
  BY RingAssumption, SMT
<1> QED
  BY <1>1, ModShift

(* The slot write_byte fills is the one behind the bytes in the ring.      *)
LEMMA WriteSlot ==
    ASSUME HeadInv
    PROVE  write_head % Capacity = (read_head + Used) % Capacity
<1>1. read_head + Used = write_head \/ read_head + Used = write_head + HeadMod
  BY RingAssumption, UsedIs, SMT DEF HeadInv
<1>2. write_head \in Int
  BY RingAssumption, SMT DEF HeadInv
<1> QED
  BY <1>1, <1>2, IndexWraps

(* One byte read: the positions move up by one.                            *)
LEMMA ReadMoves ==
    ASSUME HeadInv, ~ Empty, read_head' = (read_head + 1) % HeadMod,
           UNCHANGED <<write_head, buff>>
    PROVE  /\ HeadInv'
           /\ Used' = Used - 1
           /\ \A j \in Nat : At'[j] = At[j + 1]
<1>1. /\ HeadMod \in Nat \ {0} /\ Capacity \in 1 .. HeadMod
      /\ read_head \in 0 .. HeadMod - 1 /\ write_head \in 0 .. HeadMod - 1
      /\ Used \in 1 .. Capacity
  BY RingAssumption, UsedIs, SMT DEF HeadInv
<1>2. read_head' = IF read_head + 1 < HeadMod THEN read_head + 1 ELSE 0
  <2>1. 1 \in 0 .. HeadMod
    BY <1>1, SMT
  <2>2. (read_head + 1) % HeadMod = IF read_head + 1 < HeadMod THEN read_head + 1
                                  ELSE read_head + 1 - HeadMod
    BY <1>1, <2>1, Advance
  <2> QED
    BY <1>1, <2>2, SMT
<1>3. read_head' \in 0 .. HeadMod - 1 /\ write_head' = write_head /\ buff' = buff
  BY <1>1, <1>2, SMT
<1>4. Used' = IF write_head >= read_head' THEN write_head - read_head'
              ELSE write_head - read_head' + HeadMod
  BY <1>1, <1>3, Distance, SMTT(30) DEF Used
<1>5. Used' = Used - 1
  BY <1>1, <1>2, <1>4, UsedIs, SMT
<1>6. ASSUME NEW j \in Nat
      PROVE  (read_head' + j) % Capacity = (read_head + (j + 1)) % Capacity
  <2>1. CASE read_head + 1 < HeadMod
    <3>1. read_head' + j = read_head + (j + 1)
      BY <1>1, <1>2, <2>1, SMT
    <3> QED
      BY <3>1
  <2>2. CASE ~ (read_head + 1 < HeadMod)
    <3>1. read_head + (j + 1) = j + HeadMod /\ read_head' + j = j
      BY <1>1, <1>2, <2>2, SMT
    <3> QED
      BY <3>1, IndexWraps, SMT
  <2> QED
    BY <2>1, <2>2
<1>7. \A j \in Nat : At'[j] = At[j + 1]
  BY <1>3, <1>6, SMT DEF At
<1> QED
  BY <1>1, <1>3, <1>5, <1>7, SMT DEF HeadInv

(* One byte written: it is behind the others, which stay.                  *)
LEMMA WriteMoves ==
    ASSUME HeadInv, ~ Full, NEW b \in Byte,
           buff' = [buff EXCEPT ![write_head % Capacity] = b],
           write_head' = (write_head + 1) % HeadMod,
           UNCHANGED read_head
    PROVE  /\ HeadInv'
           /\ Used' = Used + 1
           /\ \A j \in 0 .. Used - 1 : At'[j] = At[j]
           /\ \A j \in Nat : j = Used => At'[j] = b
<1>1. /\ HeadMod \in Nat \ {0} /\ Capacity \in 1 .. HeadMod - 1
      /\ read_head \in 0 .. HeadMod - 1 /\ write_head \in 0 .. HeadMod - 1
      /\ Used \in 0 .. Capacity - 1 /\ read_head' = read_head
  BY RingAssumption, UsedIs, SMT DEF HeadInv
<1>2. write_head' = IF write_head + 1 < HeadMod THEN write_head + 1 ELSE 0
  <2>1. 1 \in 0 .. HeadMod
    BY <1>1, SMT
  <2>2. (write_head + 1) % HeadMod = IF write_head + 1 < HeadMod THEN write_head + 1
                                  ELSE write_head + 1 - HeadMod
    BY <1>1, <2>1, Advance
  <2> QED
    BY <1>1, <2>2, SMT
<1>3. write_head' \in 0 .. HeadMod - 1
  BY <1>1, <1>2, SMT
<1>4. Used' = IF write_head' >= read_head THEN write_head' - read_head
              ELSE write_head' - read_head + HeadMod
  BY <1>1, <1>3, Distance, ZenonT(40) DEF Used
<1>5. Used' = Used + 1
  BY <1>1, <1>2, <1>4, UsedIs, SMT
<1>6. /\ \A j \in Nat : (read_head + j) % Capacity \in 0 .. Capacity - 1
      /\ write_head % Capacity = (read_head + Used) % Capacity
  BY <1>1, WriteSlot, SMT
<1>7. ASSUME NEW j \in 0 .. Used - 1
      PROVE  (read_head + j) % Capacity # (read_head + Used) % Capacity
  <2>1. PICK d \in 1 .. Capacity - 1, a \in Int :
           a = read_head + j /\ a + d = read_head + Used
    <3>1. Used - j \in 1 .. Capacity - 1 /\ read_head + j \in Int
          /\ (read_head + j) + (Used - j) = read_head + Used
      BY <1>1, SMT
    <3> QED
      BY <3>1
  <2>2. (a + d) % Capacity # a % Capacity
    BY <1>1, ModApart, SMT
  <2> QED
    BY <2>1, <2>2
<1>8. /\ buff' \in [0 .. Capacity - 1 -> Byte]
      /\ buff'[(read_head + Used) % Capacity] = b
      /\ \A j \in 0 .. Used - 1 : At'[j] = At[j]
  BY <1>1, <1>6, <1>7, SMTT(30) DEF HeadInv, At
<1>9. \A j \in Nat : j = Used => At'[j] = b
  BY <1>1, <1>8, SMT DEF At
<1> QED
  BY <1>1, <1>3, <1>5, <1>8, <1>9, SMT DEF HeadInv

-----------------------------------------------------------------------------
(* The ring as a sequence.                                                 *)
LEMMA ContentIs ==
    HeadInv => /\ Content \in Seq(Byte)
               /\ Len(Content) = Used
               /\ \A k \in 1 .. Used : Content[k] = At[k - 1]
<1> SUFFICES ASSUME HeadInv
             PROVE  /\ Content \in Seq(Byte)
                    /\ Len(Content) = Used
                    /\ \A k \in 1 .. Used : Content[k] = At[k - 1]
  OBVIOUS
<1>1. /\ Capacity \in Nat \ {0} /\ read_head \in Nat /\ Used \in Nat
      /\ buff \in [0 .. Capacity - 1 -> Byte]
  BY RingAssumption, SMT DEF HeadInv
<1>2. \A k \in 1 .. Used : buff[(read_head + k - 1) % Capacity] \in Byte
  <2> TAKE k \in 1 .. Used
  <2>1. (read_head + k - 1) % Capacity \in 0 .. Capacity - 1
    BY <1>1, SMT
  <2> QED
    BY <1>1, <2>1
<1>3. \A k \in 1 .. Used : read_head + k - 1 = read_head + (k - 1)
  BY <1>1
<1> HIDE DEF Used
<1> QED
  BY <1>1, <1>2, <1>3, SMT DEF Content, At

(* The initial state.                                                      *)
LEMMA InitRInv == Init => RInv
<1> SUFFICES ASSUME Init PROVE RInv
  OBVIOUS
<1> USE RingAssumption
<1>1. HeadInv
  BY SMT DEF Init, HeadInv, Used
<1>2. CallTypeOK
  BY SMT DEF Init, CallTypeOK
<1>3. ASSUME NEW t \in Thread
      PROVE  CallInv(t)
  <2>1. op[t] = "none" /\ lock # t /\ done[t] = 0 /\ len[t] = 0 /\ data[t] = <<>>
    BY DEF Init
  <2> QED
    BY <2>1, SMT DEF CallInv
<1> QED
  BY <1>1, <1>2, <1>3 DEF RInv

(* A call begins.                                                          *)
LEMMA EnterRInv ==
    ASSUME RInv, NEW t \in Thread, NEW name \in {"read", "write"},
           NEW n \in 1 .. MaxLen, NEW bytes \in Seq(Byte),
           Len(bytes) = IF name = "read" THEN 0 ELSE n,
           Enter(t, name, n, bytes)
    PROVE  RInv'
<1> USE RingAssumption DEF RInv
<1>1. /\ HeadInv' /\ Used' = Used
      /\ \A j \in Int : At'[j] = At[j]
  BY DEF Enter, ring, HeadInv, Used, At
<1>2. CallTypeOK'
  BY SMT DEF Enter, CallTypeOK
<1>3. /\ lock' = t /\ op'[t] = name /\ len'[t] = n /\ data'[t] = bytes /\ done'[t] = 0
      /\ op[t] = "none" /\ lock = NULL
      /\ \A u \in Thread \ {t} : /\ op'[u] = op[u] /\ len'[u] = len[u]
                                 /\ data'[u] = data[u] /\ done'[u] = done[u]
  BY DEF Enter, CallTypeOK, CallInv
<1>4. Used \in 0 .. Capacity
  BY DEF HeadInv
<1>5. CallInv(t)'
  BY <1>1, <1>3, <1>4, SMT DEF CallInv
<1>6. ASSUME NEW u \in Thread \ {t}
      PROVE  CallInv(u)'
  BY <1>1, <1>3 DEF CallInv
<1> QED
  BY <1>1, <1>2, <1>5, <1>6

(* A call returns.                                                         *)
LEMMA LeaveRInv ==
    ASSUME RInv, NEW t \in Thread, NEW bytes, Leave(t, bytes), op[t] # "none"
    PROVE  RInv'
<1> USE RingAssumption DEF RInv
<1>1. HeadInv' /\ Used' = Used
  BY DEF Leave, ring, HeadInv, Used
<1>2. CallTypeOK'
  BY SMT DEF Leave, CallTypeOK
<1>3. /\ lock' = NULL /\ lock = t
      /\ op'[t] = "none" /\ len'[t] = 0 /\ done'[t] = 0 /\ data'[t] = <<>>
      /\ \A u \in Thread \ {t} : /\ op'[u] = op[u] /\ len'[u] = len[u]
                                 /\ data'[u] = data[u] /\ done'[u] = done[u]
  BY DEF Leave, CallTypeOK, CallInv
<1>4. CallInv(t)'
  BY <1>3, SMT DEF CallInv
<1>5. ASSUME NEW u \in Thread \ {t}
      PROVE  CallInv(u)'
  BY <1>1, <1>3 DEF CallInv
<1> QED
  BY <1>1, <1>2, <1>4, <1>5

(* One byte is read.                                                       *)
LEMMA ReadByteRInv ==
    ASSUME RInv, NEW t \in Thread, read_byte(t)
    PROVE  RInv'
<1> USE DEF RInv
<1>1. /\ HeadInv' /\ Used' = Used - 1 /\ At[0] \in Byte
      /\ buff[read_head % Capacity] = At[0]
  <2>1. HeadInv' /\ Used' = Used - 1
    BY ReadMoves DEF read_byte
  <2>2. read_head + 0 = read_head /\ read_head % Capacity \in 0 .. Capacity - 1
    BY RingAssumption, SMT DEF HeadInv
  <2>3. At[0] = buff[read_head % Capacity]
    BY <2>2, SMT DEF At
  <2> QED
    BY <2>1, <2>2, <2>3 DEF HeadInv
<1>2. CallTypeOK'
  <2>1. done[t] + 1 \in 0 .. MaxLen
    BY RingAssumption, SMTT(30) DEF read_byte, CallTypeOK
  <2>2. Append(data[t], At[0]) \in Seq(Byte)
    BY <1>1, AppendProperties DEF CallTypeOK
  <2> QED
    BY <1>1, <2>1, <2>2 DEF read_byte, CallTypeOK
<1>3. /\ lock' = lock /\ lock = t /\ op' = op /\ len' = len
      /\ done'[t] = done[t] + 1 /\ done[t] < len[t]
      /\ data'[t] = Append(data[t], At[0])
      /\ \A u \in Thread \ {t} : data'[u] = data[u] /\ done'[u] = done[u] /\ op[u] = "none"
  BY <1>1 DEF read_byte, CallTypeOK, CallInv
<1>4. CallInv(t)'
  <2>1. Len(data'[t]) = done[t] + 1
    BY <1>1, <1>3, AppendProperties, SMT DEF read_byte, CallTypeOK, CallInv
  <2>2. op[t] = "read" /\ done[t] \in Nat /\ len[t] \in Nat /\ Used \in Int
    BY SMT DEF read_byte, CallTypeOK, HeadInv
  <2> QED
    BY <1>1, <1>3, <2>1, <2>2, SMTT(30) DEF CallInv
<1>5. ASSUME NEW u \in Thread \ {t}
      PROVE  CallInv(u)'
  BY <1>3 DEF CallInv
<1> QED
  BY <1>1, <1>2, <1>4, <1>5

(* One byte is written.                                                    *)
LEMMA WriteByteRInv ==
    ASSUME RInv, NEW t \in Thread, write_byte(t)
    PROVE  RInv'
<1> USE DEF RInv
<1> DEFINE b == data[t][done[t] + 1]
<1>1. /\ op[t] = "write" /\ lock = t /\ done[t] \in Nat /\ len[t] \in 1 .. MaxLen
      /\ done[t] < len[t] /\ data[t] \in Seq(Byte) /\ Len(data[t]) = len[t]
      /\ done[t] <= Used /\ Used \in Nat
  BY SMT DEF write_byte, CallTypeOK, CallInv, HeadInv
<1>2. b \in Byte
  BY <1>1, SMT
<1>3. /\ HeadInv' /\ Used' = Used + 1
      /\ \A j \in 0 .. Used - 1 : At'[j] = At[j]
      /\ \A j \in Nat : j = Used => At'[j] = b
  BY <1>2, WriteMoves DEF write_byte
<1>4. CallTypeOK'
  <2>1. done[t] + 1 \in 0 .. MaxLen
    BY RingAssumption, SMTT(30) DEF write_byte, CallTypeOK
  <2> QED
    BY <2>1 DEF write_byte, CallTypeOK
<1>5. /\ lock' = lock /\ op' = op /\ len' = len /\ data' = data
      /\ done'[t] = done[t] + 1
      /\ \A u \in Thread \ {t} : done'[u] = done[u] /\ op[u] = "none"
  BY <1>1 DEF write_byte, CallTypeOK, CallInv
<1> HIDE DEF b
<1>6. ASSUME NEW k \in 1 .. done[t] + 1
      PROVE  data[t][k] = At'[Used - done[t] + k - 1]
  <2>1. CASE k = done[t] + 1
    <3>1. Used - done[t] + k - 1 = Used
      BY <1>1, <2>1, SMTT(30)
    <3> QED
      BY <1>1, <1>3, <2>1, <3>1 DEF b
  <2>2. CASE k \in 1 .. done[t]
    <3>1. Used - done[t] + k - 1 \in 0 .. Used - 1
      BY <1>1, <2>2, SMTT(30)
    <3>2. data[t][k] = At[Used - done[t] + k - 1]
      BY <1>1, <2>2 DEF CallInv
    <3> QED
      BY <1>3, <3>1, <3>2
  <2>3. done[t] \in Nat
    BY <1>1, SMT
  <2>4. k = done[t] + 1 \/ k \in 1 .. done[t]
    BY <2>3, SMT
  <2> QED
    BY <2>1, <2>2, <2>4
<1>7. CallInv(t)'
  <2>1. \A k \in 1 .. done'[t] : data'[t][k] = At'[Used' - done'[t] + k - 1]
    <3>1. Used' - done'[t] = Used - done[t]
      BY <1>1, <1>3, <1>5, SMTT(30)
    <3> QED
      BY <1>5, <1>6, <3>1
  <2>2. /\ op'[t] = "write" /\ lock' = t /\ len'[t] > 0 /\ Len(data'[t]) = len'[t]
        /\ done'[t] <= len'[t] /\ done'[t] <= Used'
    BY <1>1, <1>3, <1>5, SMT
  <2> QED
    BY <2>1, <2>2 DEF CallInv
<1>8. ASSUME NEW u \in Thread \ {t}
      PROVE  CallInv(u)'
  BY <1>1, <1>5 DEF CallInv
<1> QED
  BY <1>3, <1>4, <1>7, <1>8

(* Every step keeps the invariant.                                         *)
LEMMA NextRInv == RInv /\ [Next]_vars => RInv'
<1> SUFFICES ASSUME RInv, [Next]_vars PROVE RInv'
  OBVIOUS
<1>1. ASSUME NEW t \in Thread, NEW n \in 1 .. MaxLen, ringbuffer_read(t, n)
      PROVE  RInv'
  <2>1. <<>> \in Seq(Byte) /\ Len(<<>>) = IF "read" = "read" THEN 0 ELSE n
    BY SMT
  <2> QED
    BY <1>1, <2>1, EnterRInv DEF ringbuffer_read
<1>2. ASSUME NEW t \in Thread, NEW bytes \in Message, ringbuffer_write(t, bytes)
      PROVE  RInv'
  <2>1. bytes \in Seq(Byte) /\ Len(bytes) \in 1 .. MaxLen
    BY RingAssumption, SMT DEF Message
  <2> QED
    BY <1>2, <2>1, EnterRInv DEF ringbuffer_write
<1>3. ASSUME NEW t \in Thread, Step(t)
      PROVE  RInv'
  <2>1. CASE read_return(t)
    BY <2>1, LeaveRInv DEF read_return
  <2>2. CASE write_return(t)
    BY <2>2, LeaveRInv DEF write_return
  <2> QED
    BY <1>3, <2>1, <2>2, ReadByteRInv, WriteByteRInv DEF Step
<1>4. ASSUME UNCHANGED <<ring, lock, op, len, data, done>>, DOMAIN result' = Thread
      PROVE  RInv'
  <2>1. HeadInv' /\ Used' = Used /\ At' = At
    BY <1>4 DEF RInv, HeadInv, ring, Used, At
  <2>2. CallTypeOK'
    BY <1>4 DEF RInv, CallTypeOK
  <2>3. ASSUME NEW t \in Thread
        PROVE  CallInv(t)'
    BY <1>4, <2>1 DEF RInv, CallInv
  <2> QED
    BY <2>1, <2>2, <2>3 DEF RInv
<1>5. ASSUME NEW t \in Thread, NEW n, Query(t, n)
      PROVE  RInv'
  <2>1. DOMAIN result' = Thread
    BY <1>5 DEF Query, RInv, CallTypeOK
  <2> QED
    BY <1>4, <1>5, <2>1 DEF Query
<1>6. ASSUME UNCHANGED vars
      PROVE  RInv'
  BY <1>4, <1>6 DEF vars, ring, RInv, CallTypeOK
<1> QED
  BY <1>1, <1>2, <1>3, <1>5, <1>6 DEF Next, ringbuffer_size, ringbuffer_capacity

(* RInv holds of every behaviour of the ring buffer.                       *)
LEMMA Invariant == Spec => []RInv
BY InitRInv, NextRInv, PTL DEF Spec

(* The heads, the lock and the calls of the threads keep their types, and  *)
(* the ring never holds more bytes than its capacity, also when one head   *)
(* has wrapped around and the other has not (ringbuffer_read and           *)
(* ringbuffer_write).                                                      *)
THEOREM TypeCorrect == Spec => []TypeOK
<1>1. RInv => TypeOK
  <2> SUFFICES ASSUME RInv PROVE TypeOK
    OBVIOUS
  <2>1. ASSUME NEW t \in Thread
        PROVE  data[t] \in {<<>>} \cup Message
    <3>1. /\ data[t] \in Seq(Byte) /\ Len(data[t]) \in Nat
          /\ data[t] \in [1 .. Len(data[t]) -> Byte]
          /\ Len(data[t]) = 0 => data[t] = <<>>
      BY LenProperties, SMT DEF RInv, CallTypeOK
    <3>2. Len(data[t]) \in 0 .. MaxLen
      BY RingAssumption, SMT DEF RInv, CallTypeOK, CallInv
    <3> QED
      BY <3>1, <3>2, SMT DEF Message
  <2> QED
    BY <2>1 DEF RInv, HeadInv, CallTypeOK, TypeOK
<1> QED
  BY <1>1, Invariant, PTL

-----------------------------------------------------------------------------
(***************************************************************************)
(* The refinement.                                                         *)
(***************************************************************************)

(* The abstract queue when no call is in progress, while a writer stores   *)
(* and while a reader takes bytes.                                         *)
LEMMA PendingIdle ==
    RInv /\ lock = NULL => /\ Pending \in Seq(Byte)
                           /\ Len(Pending) = Used
                           /\ \A k \in 1 .. Used : Pending[k] = At[k - 1]
BY ContentIs DEF RInv, Pending

(* While t writes, the queue is the buffer without the bytes t has stored. *)
LEMMA PendingWriting ==
    ASSUME NEW t \in Thread
    PROVE  RInv /\ op[t] = "write" =>
              /\ Pending \in Seq(Byte)
              /\ Len(Pending) = Used - done[t]
              /\ \A k \in 1 .. Used - done[t] : Pending[k] = At[k - 1]
<1> SUFFICES ASSUME RInv, op[t] = "write"
             PROVE  /\ Pending \in Seq(Byte)
                    /\ Len(Pending) = Used - done[t]
                    /\ \A k \in 1 .. Used - done[t] : Pending[k] = At[k - 1]
  OBVIOUS
<1>1. /\ Content \in Seq(Byte) /\ Len(Content) = Used
      /\ \A k \in 1 .. Used : Content[k] = At[k - 1] /\ Content[k] \in Byte
  BY ContentIs, SMT DEF RInv
<1>2. Used \in Nat /\ done[t] \in 0 .. Used
  BY RingAssumption, SMT DEF RInv, HeadInv, CallTypeOK, CallInv
<1>3. PICK n \in 0 .. Used : n = Used - done[t]
  BY <1>2, SMT
<1>4. /\ SubSeq(Content, 1, n) \in Seq(Byte) /\ Len(SubSeq(Content, 1, n)) = n
      /\ \A k \in 1 .. n : SubSeq(Content, 1, n)[k] = Content[k]
  BY <1>1, <1>2, <1>3, SubSeqProperties, SMT
<1>5. Pending = SubSeq(Content, 1, n)
  BY <1>3, RingAssumption DEF Pending, RInv, CallInv
<1>6. \A k \in 1 .. n : k \in 1 .. Used
  BY <1>2, SMT
<1> QED
  BY <1>1, <1>3, <1>4, <1>5, <1>6

(* While t reads, it is the bytes t has taken followed by the buffer.      *)
LEMMA PendingReading ==
    ASSUME NEW t \in Thread
    PROVE  RInv /\ op[t] = "read" =>
              /\ Pending \in Seq(Byte)
              /\ Len(Pending) = done[t] + Used
              /\ \A k \in 1 .. done[t] + Used :
                    Pending[k] = IF k <= done[t] THEN data[t][k] ELSE At[k - done[t] - 1]
<1> SUFFICES ASSUME RInv, op[t] = "read"
             PROVE  /\ Pending \in Seq(Byte)
                    /\ Len(Pending) = done[t] + Used
                    /\ \A k \in 1 .. done[t] + Used :
                          Pending[k] = IF k <= done[t] THEN data[t][k]
                                       ELSE At[k - done[t] - 1]
  OBVIOUS
<1>1. /\ Content \in Seq(Byte) /\ Len(Content) = Used
      /\ \A k \in 1 .. Used : Content[k] = At[k - 1]
  BY ContentIs DEF RInv
<1>2. /\ Used \in Nat /\ done[t] \in Nat
      /\ data[t] \in Seq(Byte) /\ Len(data[t]) = done[t]
  BY RingAssumption, SMT DEF RInv, HeadInv, CallTypeOK, CallInv
<1>3. Pending = data[t] \o Content
  BY RingAssumption DEF Pending, RInv, CallInv
<1>4. /\ Pending \in Seq(Byte) /\ Len(Pending) = Len(data[t]) + Len(Content)
      /\ \A k \in 1 .. Len(data[t]) + Len(Content) :
            Pending[k] = IF k <= Len(data[t]) THEN data[t][k] ELSE Content[k - Len(data[t])]
  BY <1>1, <1>2, <1>3, ConcatProperties
<1>5. ASSUME NEW k \in 1 .. done[t] + Used, ~ (k <= done[t])
      PROVE  Content[k - done[t]] = At[k - done[t] - 1]
  <2>1. k - done[t] \in 1 .. Used
    BY <1>2, <1>5, SMTT(30)
  <2> QED
    BY <1>1, <2>1
<1> QED
  BY <1>1, <1>2, <1>4, <1>5

(* The initial state is an empty queue.                                    *)
LEMMA InitRefines == Init => Queue!Init
<1> SUFFICES ASSUME Init PROVE Queue!Init
  OBVIOUS
<1>1. Pending \in Seq(Byte) /\ Len(Pending) = Used
  BY InitRInv, PendingIdle DEF Init
<1>2. Used = 0
  BY RingAssumption, SMT DEF Init, Used
<1>3. Pending = <<>>
  BY <1>1, <1>2, SMT
<1> QED
  BY <1>3 DEF Init, Queue!Init, Returned, Queue!Returned

(* Two sequences of bytes with the same elements are equal.                *)
LEMMA SameBytes ==
    ASSUME NEW s \in Seq(Byte), NEW r \in Seq(Byte), Len(s) = Len(r),
           \A k \in 1 .. Len(s) : s[k] = r[k]
    PROVE  s = r
BY SeqEqual

(* A call begins: the queue is as it was.                                  *)
LEMMA EnterStutters ==
    ASSUME RInv, RInv', NEW t \in Thread, NEW name \in {"read", "write"}, NEW n,
           NEW bytes, Enter(t, name, n, bytes)
    PROVE  Pending' = Pending
<1>1. /\ lock = NULL /\ op'[t] = name /\ done'[t] = 0 /\ Used' = Used /\ Used \in Nat
      /\ \A j \in Int : At'[j] = At[j]
  BY RingAssumption, SMT DEF Enter, ring, RInv, HeadInv, CallTypeOK, CallInv, Used, At
<1>2. /\ Pending \in Seq(Byte) /\ Len(Pending) = Used
      /\ \A k \in 1 .. Used : Pending[k] = At[k - 1]
  BY <1>1, PendingIdle
<1>3. /\ Pending' \in Seq(Byte) /\ Len(Pending') = Used
      /\ \A k \in 1 .. Used : Pending'[k] = At'[k - 1]
  <2>1. CASE name = "read"
    <3>1. (RInv /\ op[t] = "read" =>
              /\ Pending \in Seq(Byte)
              /\ Len(Pending) = done[t] + Used
              /\ \A k \in 1 .. done[t] + Used :
                    Pending[k] = IF k <= done[t] THEN data[t][k]
                                 ELSE At[k - done[t] - 1])'
      BY PendingReading, PTL
    <3> QED
      BY <1>1, <2>1, <3>1, SMT
  <2>2. CASE name = "write"
    <3>1. (RInv /\ op[t] = "write" =>
              /\ Pending \in Seq(Byte)
              /\ Len(Pending) = Used - done[t]
              /\ \A k \in 1 .. Used - done[t] : Pending[k] = At[k - 1])'
      BY PendingWriting, PTL
    <3> QED
      BY <1>1, <2>2, <3>1, SMT
  <2> QED
    BY <2>1, <2>2
<1>4. \A k \in 1 .. Used : Pending'[k] = Pending[k]
  BY <1>1, <1>2, <1>3, SMT
<1> QED
  BY <1>2, <1>3, <1>4, SameBytes, ZenonT(40)

(* A reader takes one byte: the queue still has it.                        *)
LEMMA ReadByteStutters ==
    ASSUME RInv, RInv', NEW t \in Thread, read_byte(t)
    PROVE  Pending' = Pending
<1>1. /\ HeadInv /\ op[t] = "read" /\ op'[t] = "read"
      /\ done'[t] = done[t] + 1 /\ done[t] \in Nat
      /\ data[t] \in Seq(Byte) /\ Len(data[t]) = done[t]
      /\ data'[t] = Append(data[t], buff[read_head % Capacity])
  BY RingAssumption, SMT DEF read_byte, RInv, CallTypeOK, CallInv
<1>2. Used' = Used - 1 /\ \A j \in Nat : At'[j] = At[j + 1]
  BY <1>1, ReadMoves DEF read_byte
<1>3. buff[read_head % Capacity] = At[0] /\ At[0] \in Byte
  BY <1>1, RingAssumption, SMT DEF HeadInv, At
<1>4. /\ Pending \in Seq(Byte) /\ Len(Pending) = done[t] + Used
      /\ \A k \in 1 .. done[t] + Used :
            Pending[k] = IF k <= done[t] THEN data[t][k] ELSE At[k - done[t] - 1]
  BY <1>1, PendingReading
<1>5. /\ Pending' \in Seq(Byte) /\ Len(Pending') = done'[t] + Used'
      /\ \A k \in 1 .. done'[t] + Used' :
            Pending'[k] = IF k <= done'[t] THEN data'[t][k] ELSE At'[k - done'[t] - 1]
  <2>1. (RInv /\ op[t] = "read" =>
            /\ Pending \in Seq(Byte)
            /\ Len(Pending) = done[t] + Used
            /\ \A k \in 1 .. done[t] + Used :
                  Pending[k] = IF k <= done[t] THEN data[t][k]
                               ELSE At[k - done[t] - 1])'
    BY PendingReading, PTL
  <2> QED
    BY <1>1, <2>1
<1>6. /\ \A k \in 1 .. done[t] : data'[t][k] = data[t][k]
      /\ data'[t][done[t] + 1] = At[0]
  BY <1>1, <1>3, AppendProperties, SMT
<1>7. PICK d \in Nat, u \in Nat : d = done[t] /\ u = Used
  BY <1>1, RingAssumption, SMT DEF HeadInv
<1>8. done'[t] = d + 1 /\ done'[t] + Used' = d + u
  <2>1. Used' = Used - 1
    BY <1>2
  <2>2. done'[t] = done[t] + 1
    BY <1>1
  <2> QED
    BY <1>7, <2>1, <2>2, SMT
<1>9. ASSUME NEW k \in 1 .. d + u
      PROVE  Pending'[k] = Pending[k]
  <2>1. /\ Pending'[k] = IF k <= d + 1 THEN data'[t][k] ELSE At'[k - (d + 1) - 1]
        /\ Pending[k] = IF k <= d THEN data[t][k] ELSE At[k - d - 1]
    BY <1>4, <1>5, <1>7, <1>8
  <2>2. CASE k <= d
    BY <1>6, <1>7, <2>1, <2>2, SMT
  <2>3. CASE k = d + 1
    <3>1. k - d - 1 = 0 /\ k <= d + 1 /\ ~ (k <= d)
      BY <2>3, SMT
    <3> QED
      BY <1>6, <1>7, <2>1, <2>3, <3>1
  <2>4. CASE k > d + 1
    <3>1. PICK j \in Nat : k - (d + 1) - 1 = j /\ k - d - 1 = j + 1
      BY <2>4, SMT
    <3>2. ~ (k <= d + 1) /\ ~ (k <= d)
      BY <2>4, SMT
    <3> QED
      BY <1>2, <2>1, <3>1, <3>2
  <2> QED
    BY <2>2, <2>3, <2>4, SMT
<1> QED
  BY <1>4, <1>5, <1>7, <1>8, <1>9, SameBytes

(* A writer stores one byte: the queue lacks it still.                     *)
LEMMA WriteByteStutters ==
    ASSUME RInv, RInv', NEW t \in Thread, write_byte(t)
    PROVE  Pending' = Pending
<1>1. /\ HeadInv /\ op[t] = "write" /\ op'[t] = "write"
      /\ done'[t] = done[t] + 1 /\ done[t] \in 0 .. Used
      /\ data[t][done[t] + 1] \in Byte
  BY RingAssumption, SMT DEF write_byte, RInv, HeadInv, CallTypeOK, CallInv
<1>2. /\ Used' = Used + 1 /\ Used \in Nat
      /\ \A j \in 0 .. Used - 1 : At'[j] = At[j]
  <2>1. Used \in Nat
    BY <1>1, RingAssumption, SMT DEF HeadInv
  <2> QED
    BY <1>1, <2>1, WriteMoves DEF write_byte
<1>3. /\ Pending \in Seq(Byte) /\ Len(Pending) = Used - done[t]
      /\ \A k \in 1 .. Used - done[t] : Pending[k] = At[k - 1]
  BY <1>1, PendingWriting
<1>4. /\ Pending' \in Seq(Byte) /\ Len(Pending') = Used' - done'[t]
      /\ \A k \in 1 .. Used' - done'[t] : Pending'[k] = At'[k - 1]
  <2>1. (RInv /\ op[t] = "write" =>
            /\ Pending \in Seq(Byte)
            /\ Len(Pending) = Used - done[t]
            /\ \A k \in 1 .. Used - done[t] : Pending[k] = At[k - 1])'
    BY PendingWriting, PTL
  <2> QED
    BY <1>1, <2>1
<1>5. Used' - done'[t] = Used - done[t]
  BY <1>1, <1>2, SMT
<1>6. ASSUME NEW k \in 1 .. Used - done[t]
      PROVE  Pending'[k] = Pending[k]
  <2>1. k - 1 \in 0 .. Used - 1
    BY <1>1, <1>2, SMT
  <2> QED
    BY <1>2, <1>3, <1>4, <1>5, <2>1
<1> QED
  BY <1>3, <1>4, <1>5, <1>6, SameBytes

(* A read releases the lock: the bytes it took leave the queue at once.    *)
LEMMA ReadReturns ==
    ASSUME RInv, RInv', NEW t \in Thread, read_return(t)
    PROVE  Queue!Read(t, len[t])
<1>1. /\ op[t] = "read" /\ lock' = NULL /\ HeadInv
      /\ data[t] \in Seq(Byte) /\ Len(data[t]) = done[t]
      /\ Used' = Used /\ \A j \in Int : At'[j] = At[j]
  BY SMTT(30) DEF read_return, Leave, RInv, CallTypeOK, CallInv, ring, Used, At
<1>2. PICK d \in Nat, u \in Nat : d = done[t] /\ u = Used
  BY <1>1, RingAssumption, SMT DEF HeadInv, RInv, CallTypeOK
<1>3. /\ Pending \in Seq(Byte) /\ Len(Pending) = d + u
      /\ \A k \in 1 .. d + u :
            Pending[k] = IF k <= d THEN data[t][k] ELSE At[k - d - 1]
  BY <1>1, <1>2, PendingReading
<1>4. /\ Pending' \in Seq(Byte) /\ Len(Pending') = u
      /\ \A k \in 1 .. u : Pending'[k] = At'[k - 1]
  <2>1. (RInv /\ lock = NULL =>
            /\ Pending \in Seq(Byte)
            /\ Len(Pending) = Used
            /\ \A k \in 1 .. Used : Pending[k] = At[k - 1])'
    BY PendingIdle, PTL
  <2> QED
    BY <1>1, <1>2, <2>1
<1>5. Queue!Lesser(len[t], Len(Pending)) = d
  <2>1. len[t] \in Nat /\ d <= len[t]
    BY <1>2, RingAssumption, SMT DEF RInv, CallTypeOK, CallInv
  <2>2. d = len[t] \/ u = 0
    BY <1>1, <1>2, UsedIs DEF read_return
  <2> QED
    BY <1>2, <1>3, <2>1, <2>2, SMTT(30) DEF Queue!Lesser
<1>6. SubSeq(Pending, 1, d) = data[t]
  <2>1. \A k \in 1 .. d : Pending[k] \in Byte /\ Pending[k] = data[t][k]
    BY <1>1, <1>2, <1>3, SMTT(30)
  <2>2. /\ SubSeq(Pending, 1, d) \in Seq(Byte)
        /\ Len(SubSeq(Pending, 1, d)) = d
        /\ \A k \in 1 .. d : SubSeq(Pending, 1, d)[k] = Pending[k]
    BY <2>1, SubSeqProperties, SMT
  <2> QED
    BY <1>1, <1>2, <2>1, <2>2, SameBytes, SMT
<1>7. SubSeq(Pending, d + 1, Len(Pending)) = Pending'
  <2>1. PICK r \in Seq(Byte) : /\ r = SubSeq(Pending, d + 1, d + u)
                               /\ Len(r) = u
                               /\ \A k \in 1 .. u : r[k] = Pending[d + k]
    <3>1. \A k \in d + 1 .. d + u : Pending[k] \in Byte
      BY <1>3, SMT
    <3>2. /\ SubSeq(Pending, d + 1, d + u) \in Seq(Byte)
          /\ Len(SubSeq(Pending, d + 1, d + u)) = u
          /\ \A k \in 1 .. u : SubSeq(Pending, d + 1, d + u)[k] = Pending[d + k]
      BY <3>1, SubSeqProperties, SMT
    <3> QED
      BY <3>2
  <2>2. ASSUME NEW k \in 1 .. u
        PROVE  r[k] = Pending'[k]
    <3>1. /\ d + k \in 1 .. d + u /\ ~ (d + k <= d)
          /\ d + k - d - 1 = k - 1 /\ k - 1 \in Int
      BY SMT
    <3>2. Pending[d + k] = At[k - 1]
      BY <1>3, <3>1, SMT
    <3> QED
      BY <1>1, <1>4, <2>1, <3>1, <3>2
  <2>3. r = Pending'
    BY <1>4, <2>1, <2>2, SameBytes
  <2> QED
    BY <1>3, <2>1, <2>3
<1>8. result' = [result EXCEPT ![t] = Queue!Returned(d, data[t])]
  BY <1>2 DEF read_return, Leave, Returned, Queue!Returned
<1> QED
  BY <1>5, <1>6, <1>7, <1>8 DEF Queue!Read

(* A write releases the lock: the bytes it stored enter the queue at once. *)
LEMMA WriteReturns ==
    ASSUME RInv, RInv', NEW t \in Thread, write_return(t)
    PROVE  Queue!Write(t, data[t])
<1>1. /\ op[t] = "write" /\ lock' = NULL /\ HeadInv /\ data[t] \in Seq(Byte)
      /\ Used' = Used /\ \A j \in Int : At'[j] = At[j]
  BY SMT DEF write_return, Leave, RInv, CallTypeOK, CallInv, ring, Used, At
<1>2. PICK u \in 0 .. Capacity, d \in Nat, l \in Nat :
         u = Used /\ d = done[t] /\ l = Len(data[t]) /\ d <= u /\ d <= l /\ len[t] = l
  <2>1. Used \in 0 .. Capacity
    BY DEF RInv, HeadInv
  <2>2. done[t] \in 0 .. Used /\ Len(data[t]) \in Nat /\ done[t] <= len[t]
        /\ Len(data[t]) = len[t]
    BY <1>1, RingAssumption, SMT DEF RInv, HeadInv, CallTypeOK, CallInv
  <2> QED
    BY <2>1, <2>2, SMT
<1>3. Capacity \in Nat /\ u \in Nat /\ d \in 0 .. u
  BY <1>2, RingAssumption, SMT
<1>4. /\ Pending \in Seq(Byte) /\ Len(Pending) = u - d
      /\ \A k \in 1 .. u - d : Pending[k] = At[k - 1]
  BY <1>1, <1>2, PendingWriting
<1>5. /\ Pending' \in Seq(Byte) /\ Len(Pending') = u
      /\ \A k \in 1 .. u : Pending'[k] = At[k - 1]
  <2>1. (RInv /\ lock = NULL =>
            /\ Pending \in Seq(Byte)
            /\ Len(Pending) = Used
            /\ \A k \in 1 .. Used : Pending[k] = At[k - 1])'
    BY PendingIdle, PTL
  <2> QED
    BY <1>1, <1>2, <1>3, <2>1, SMT
<1>6. Queue!Lesser(Len(data[t]), Capacity - Len(Pending)) = d
  <2>1. d = l \/ u = Capacity
    BY <1>1, <1>2, UsedIs DEF write_return
  <2> QED
    BY <1>2, <1>3, <1>4, <2>1, SMTT(30) DEF Queue!Lesser
<1>7. PICK r \in Seq(Byte) : /\ r = SubSeq(data[t], 1, d)
                             /\ Len(r) = d
                             /\ \A k \in 1 .. d : r[k] = data[t][k]
  <2>1. \A k \in 1 .. d : data[t][k] \in Byte
    BY <1>1, <1>2, <1>3, SMT
  <2>2. /\ SubSeq(data[t], 1, d) \in Seq(Byte)
        /\ Len(SubSeq(data[t], 1, d)) = d
        /\ \A k \in 1 .. d : SubSeq(data[t], 1, d)[k] = data[t][k]
    BY <1>3, <2>1, SubSeqProperties, SMT
  <2> QED
    BY <2>2
<1>8. PICK q \in Seq(Byte) :
         /\ q = Pending \o r
         /\ Len(q) = u
         /\ \A k \in 1 .. u : q[k] = IF k <= u - d THEN Pending[k] ELSE r[k - (u - d)]
  <2>1. /\ Pending \o r \in Seq(Byte) /\ Len(Pending \o r) = Len(Pending) + Len(r)
        /\ \A k \in 1 .. Len(Pending) + Len(r) :
              (Pending \o r)[k] = IF k <= Len(Pending) THEN Pending[k]
                                  ELSE r[k - Len(Pending)]
    BY <1>4, ConcatProperties
  <2>2. Len(Pending) + Len(r) = u
    BY <1>3, <1>4, <1>7, SMT
  <2>3. Len(Pending) = u - d
    BY <1>4
  <2> QED
    BY <2>1, <2>2, <2>3, ZenonT(40)
<1>9. ASSUME NEW k \in 1 .. u
      PROVE  q[k] = Pending'[k]
  <2>1. CASE k <= u - d
    <3>1. k \in 1 .. u - d
      BY <1>3, <2>1, SMT
    <3>2. q[k] = Pending[k]
      BY <1>8, <2>1
    <3>3. Pending[k] = At[k - 1]
      BY <1>4, <3>1
    <3> QED
      BY <1>5, <3>2, <3>3
  <2>2. CASE ~ (k <= u - d)
    <3>1. PICK i \in 1 .. d : i = k - (u - d) /\ u - d + i - 1 = k - 1
      BY <1>3, <2>2, SMT
    <3>2. data[t][i] = At[u - d + i - 1]
      BY <1>1, <1>2, ZenonT(40) DEF RInv, CallInv
    <3> QED
      BY <1>5, <1>7, <1>8, <2>2, <3>1, <3>2
  <2> QED
    BY <2>1, <2>2
<1>10. Pending' = Pending \o SubSeq(data[t], 1, d)
  BY <1>5, <1>7, <1>8, <1>9, SameBytes
<1>11. result' = [result EXCEPT ![t] = Queue!Returned(d, <<>>)]
  BY <1>2 DEF write_return, Leave, Returned, Queue!Returned
<1> QED
  BY <1>6, <1>10, <1>11 DEF Queue!Write

(* A query: the ring and its lock stay as they are.                        *)
LEMMA QueryKeeps ==
    ASSUME RInv, UNCHANGED <<ring, lock, op, data, done>>
    PROVE  Pending' = Pending
BY DEF ring, Pending, Content, Used

(* Every step is a step of the abstract queue or leaves it unchanged.      *)
LEMMA NextRefines ==
    RInv /\ RInv' /\ [Next]_vars => [Queue!Next]_<<Pending, result>>
<1> SUFFICES ASSUME RInv, RInv', [Next]_vars
             PROVE  [Queue!Next]_<<Pending, result>>
  OBVIOUS
<1>1. ASSUME NEW t \in Thread, NEW n \in 1 .. MaxLen, ringbuffer_read(t, n)
      PROVE  UNCHANGED <<Pending, result>>
  BY <1>1, EnterStutters DEF ringbuffer_read, Enter
<1>2. ASSUME NEW t \in Thread, NEW bytes \in Message, ringbuffer_write(t, bytes)
      PROVE  UNCHANGED <<Pending, result>>
  BY <1>2, EnterStutters DEF ringbuffer_write, Enter
<1>3. ASSUME NEW t \in Thread, read_byte(t) \/ write_byte(t)
      PROVE  UNCHANGED <<Pending, result>>
  BY <1>3, ReadByteStutters, WriteByteStutters DEF read_byte, write_byte
<1>4. ASSUME NEW t \in Thread, read_return(t)
      PROVE  Queue!Next
  <2>1. len[t] \in 1 .. MaxLen
    BY <1>4, RingAssumption, SMT DEF read_return, RInv, CallTypeOK, CallInv
  <2> QED
    BY <1>4, <2>1, ReadReturns DEF Queue!Next
<1>5. ASSUME NEW t \in Thread, write_return(t)
      PROVE  Queue!Next
  <2>1. /\ data[t] \in [1 .. Len(data[t]) -> Byte]
        /\ Len(data[t]) \in 1 .. MaxLen
    <3>1. data[t] \in Seq(Byte) /\ Len(data[t]) \in 1 .. MaxLen
      BY <1>5, RingAssumption, SMT DEF write_return, RInv, CallTypeOK, CallInv
    <3> QED
      BY <3>1, LenProperties
  <2>2. data[t] \in Queue!Message
    BY <2>1 DEF Queue!Message
  <2> QED
    BY <1>5, <2>2, WriteReturns DEF Queue!Next
<1>6. ASSUME NEW t \in Thread, ringbuffer_size(t)
      PROVE  Queue!Next
  <2>1. Pending' = Pending /\ Len(Pending) = Used
    BY <1>6, QueryKeeps, PendingIdle DEF ringbuffer_size, Query
  <2>2. Queue!Size(t)
    BY <1>6, <2>1 DEF ringbuffer_size, Query, Queue!Size, Returned, Queue!Returned
  <2> QED
    BY <2>2 DEF Queue!Next
<1>7. ASSUME NEW t \in Thread, ringbuffer_capacity(t)
      PROVE  Queue!Next
  <2>1. Pending' = Pending
    BY <1>7, QueryKeeps DEF ringbuffer_capacity, Query
  <2>2. Queue!FullSize(t)
    BY <1>7, <2>1 DEF ringbuffer_capacity, Query, Queue!FullSize, Returned, Queue!Returned
  <2> QED
    BY <2>2 DEF Queue!Next
<1>8. ASSUME UNCHANGED vars
      PROVE  UNCHANGED <<Pending, result>>
  BY <1>8, QueryKeeps DEF vars, ring
<1> QED
  BY <1>1, <1>2, <1>3, <1>4, <1>5, <1>6, <1>7, <1>8 DEF Next, Step

(* Whatever the threads interleave, ringbuffer_read, ringbuffer_write,     *)
(* ringbuffer_size and ringbuffer_capacity act as atomic operations of a   *)
(* bounded first-in first-out queue: for any number of threads, any        *)
(* capacity, and heads of any width the capacity divides.                  *)
THEOREM Refines == Spec => IsByteQueue
<1>1. Spec => []RInv
  BY Invariant
<1> QED
  BY <1>1, InitRefines, NextRefines, PTL DEF Spec, IsByteQueue, Queue!Spec
=============================================================================

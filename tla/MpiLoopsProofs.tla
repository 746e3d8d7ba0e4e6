--------------------------- MODULE MpiLoopsProofs ---------------------------
(***************************************************************************)
(* The limb loops of bignum.c are exact for every limb width, every number *)
(* of limbs and every overlap of the arrays.                               *)
(***************************************************************************)
EXTENDS MpiLoops, WellFoundedInduction, TLAPS

(* Division with remainder by Base.                                        *)
LEMMA DivMod ==
  ASSUME NEW a \in Int
  PROVE  /\ a \div Base \in Int
         /\ a % Base \in Limb
         /\ a = Base * (a \div Base) + (a % Base)
<1>1. Base \in Int /\ Base > 0
  BY BaseAssumption
<1>2. a \div Base \in Int /\ a % Base \in 0 .. Base - 1 /\ a = Base * (a \div Base) + (a % Base)
  BY <1>1, Z3
<1>. QED  BY <1>2 DEF Limb

(* A sum that exceeds a limb by less than Base wraps once.                 *)
LEMMA WrapOnce ==
  ASSUME NEW a \in 0 .. 2 * Base - 1
  PROVE  a % Base = IF a < Base THEN a ELSE a - Base
<1>1. /\ Base \in Nat /\ Base >= 2
      /\ a \div Base \in Int /\ a % Base \in Limb
      /\ a = Base * (a \div Base) + (a % Base)
  BY BaseAssumption, DivMod
<1> DEFINE q == a \div Base
           r == a % Base
<1>2. q \in Int /\ r \in 0 .. Base - 1 /\ a = Base * q + r
  BY <1>1 DEF Limb
<1> HIDE DEF q, r
<1>3. q \in {0, 1}
  <2>1. q > -1
    <3>1. SUFFICES ASSUME q <= -1 PROVE FALSE  BY <1>2
    <3>2. Base * q <= -Base  BY <3>1, <1>1, <1>2
    <3>. QED  BY <3>2, <1>1, <1>2
  <2>2. q < 2
    <3>1. SUFFICES ASSUME q >= 2 PROVE FALSE  BY <1>2
    <3>2. Base * q >= 2 * Base  BY <3>1, <1>1, <1>2
    <3>. QED  BY <3>2, <1>1, <1>2
  <2>. QED  BY <2>1, <2>2, <1>2
<1>4. r = IF a < Base THEN a ELSE a - Base
  BY <1>1, <1>2, <1>3
<1>. QED  BY <1>4 DEF r

(* A difference that is below zero by at most Base wraps once.             *)
LEMMA WrapBelow ==
  ASSUME NEW a \in -Base .. Base - 1
  PROVE  a % Base = IF a < 0 THEN a + Base ELSE a
<1>1. /\ Base \in Nat /\ Base >= 2
      /\ a \div Base \in Int /\ a % Base \in Limb
      /\ a = Base * (a \div Base) + (a % Base)
  BY BaseAssumption, DivMod
<1> DEFINE q == a \div Base
           r == a % Base
<1>2. q \in Int /\ r \in 0 .. Base - 1 /\ a = Base * q + r
  BY <1>1 DEF Limb
<1> HIDE DEF q, r
<1>3. q \in {-1, 0}
  <2>1. q > -2
    <3>1. SUFFICES ASSUME q <= -2 PROVE FALSE  BY <1>2
    <3>2. Base * q <= -2 * Base  BY <3>1, <1>1, <1>2
    <3>. QED  BY <3>2, <1>1, <1>2
  <2>2. q < 1
    <3>1. SUFFICES ASSUME q >= 1 PROVE FALSE  BY <1>2
    <3>2. Base * q >= Base  BY <3>1, <1>1, <1>2
    <3>. QED  BY <3>2, <1>1, <1>2
  <2>. QED  BY <2>1, <2>2, <1>2
<1>4. r = IF a < 0 THEN a + Base ELSE a
  BY <1>1, <1>2, <1>3
<1>. QED  BY <1>4 DEF r
-----------------------------------------------------------------------------
(* The comparisons find the carry: a limb of the sum and its carry are     *)
(* exactly what was added.                                                 *)
LEMMA AddStepExact ==
  ASSUME NEW p \in Limb, NEW o \in Limb, NEW k \in {0, 1}
  PROVE  /\ AddStep(p, o, k).d \in Limb /\ AddStep(p, o, k).c \in {0, 1}
         /\ AddStep(p, o, k).d + AddStep(p, o, k).c * Base = p + o + k
<1> DEFINE p1 == (p + k) % Base
           p2 == (p1 + o) % Base
<1>1. Base \in Nat /\ Base >= 2 /\ p \in 0 .. Base - 1 /\ o \in 0 .. Base - 1
  BY BaseAssumption DEF Limb
<1>2. p1 = IF p + k < Base THEN p + k ELSE p + k - Base
  <2>1. p + k \in 0 .. 2 * Base - 1  BY <1>1
  <2>. QED  BY <2>1, WrapOnce, <1>1
<1>3. p2 = IF p1 + o < Base THEN p1 + o ELSE p1 + o - Base
  <2>1. p1 + o \in 0 .. 2 * Base - 1  BY <1>1, <1>2
  <2>. QED  BY <2>1, WrapOnce, <1>1
<1>4. AddStep(p, o, k).d = p2 /\ AddStep(p, o, k).c = Truth(p1 < k) + Truth(p2 < o)
  BY DEF AddStep
<1> HIDE DEF p1, p2
<1>5. /\ p2 \in 0 .. Base - 1 /\ Truth(p1 < k) + Truth(p2 < o) \in {0, 1}
      /\ p2 + (Truth(p1 < k) + Truth(p2 < o)) * Base = p + o + k
  BY <1>1, <1>2, <1>3 DEF Truth
<1>. QED  BY <1>4, <1>5 DEF Limb

(* The carry loop adds the carry to a limb and keeps what does not fit.    *)
LEMMA CarryStepExact ==
  ASSUME NEW p \in Limb, NEW k \in Limb
  PROVE  /\ CarryStep(p, k).d \in Limb /\ CarryStep(p, k).c \in {0, 1}
         /\ CarryStep(p, k).d + CarryStep(p, k).c * Base = p + k
<1> DEFINE p1 == (p + k) % Base
<1>1. Base \in Nat /\ Base >= 2 /\ p \in 0 .. Base - 1 /\ k \in 0 .. Base - 1
  BY BaseAssumption DEF Limb
<1>2. p1 = IF p + k < Base THEN p + k ELSE p + k - Base
  <2>1. p + k \in 0 .. 2 * Base - 1  BY <1>1
  <2>. QED  BY <2>1, WrapOnce, <1>1
<1>3. CarryStep(p, k).d = p1 /\ CarryStep(p, k).c = Truth(p1 < k)
  BY DEF CarryStep
<1> HIDE DEF p1
<1>4. p1 \in 0 .. Base - 1 /\ Truth(p1 < k) \in {0, 1} /\ p1 + Truth(p1 < k) * Base = p + k
  BY <1>1, <1>2 DEF Truth
<1>. QED  BY <1>3, <1>4 DEF Limb

(* The comparisons find the borrow.                                        *)
LEMMA SubStepExact ==
  ASSUME NEW l \in Limb, NEW r \in Limb, NEW k \in {0, 1}
  PROVE  /\ SubStep(l, r, k).d \in Limb /\ SubStep(l, r, k).c \in {0, 1}
         /\ SubStep(l, r, k).d + r + k = l + SubStep(l, r, k).c * Base
<1> DEFINE t == (l - k) % Base
           d == (t - r) % Base
<1>1. Base \in Nat /\ Base >= 2 /\ l \in 0 .. Base - 1 /\ r \in 0 .. Base - 1
  BY BaseAssumption DEF Limb
<1>2. t = IF l - k < 0 THEN l - k + Base ELSE l - k
  <2>1. l - k \in -Base .. Base - 1  BY <1>1
  <2>. QED  BY <2>1, WrapBelow, <1>1
<1>3. d = IF t - r < 0 THEN t - r + Base ELSE t - r
  <2>1. t - r \in -Base .. Base - 1  BY <1>1, <1>2
  <2>. QED  BY <2>1, WrapBelow, <1>1
<1>4. SubStep(l, r, k).d = d /\ SubStep(l, r, k).c = Truth(t < r) + Truth(l < k)
  BY DEF SubStep
<1> HIDE DEF t, d
<1>5. /\ d \in 0 .. Base - 1 /\ Truth(t < r) + Truth(l < k) \in {0, 1}
      /\ d + r + k = l + (Truth(t < r) + Truth(l < k)) * Base
  BY <1>1, <1>2, <1>3 DEF Truth
<1>. QED  BY <1>4, <1>5 DEF Limb

(* The product of two limbs, a limb and a carry fit two limbs.             *)
LEMMA MulAddStepExact ==
  ASSUME NEW s \in Limb, NEW d \in Limb, NEW f \in Limb, NEW k \in Limb
  PROVE  /\ MulAddStep(s, d, f, k).d \in Limb /\ MulAddStep(s, d, f, k).c \in Limb
         /\ MulAddStep(s, d, f, k).d + MulAddStep(s, d, f, k).c * Base = d + f * s + k
<1>1. /\ Base \in Nat /\ Base >= 2
      /\ s \in 0 .. Base - 1 /\ d \in 0 .. Base - 1 /\ f \in 0 .. Base - 1 /\ k \in 0 .. Base - 1
  BY BaseAssumption DEF Limb
<1> DEFINE t == s * f + d + k
           q == t \div Base
           r == t % Base
<1>2. t \in Int /\ 0 <= t /\ t < Base * Base
  <2>1. 0 <= s * f /\ s * f <= (Base - 1) * (Base - 1)
    <3>1. 0 <= s * f  BY <1>1
    <3>2. s * f <= s * (Base - 1)  BY <1>1
    <3>3. s * (Base - 1) <= (Base - 1) * (Base - 1)  BY <1>1
    <3>. QED  BY <3>1, <3>2, <3>3, <1>1
  <2>2. (Base - 1) * (Base - 1) = Base * Base - 2 * Base + 1  BY <1>1
  <2>. QED  BY <2>1, <2>2, <1>1
<1>3. q \in Int /\ r \in 0 .. Base - 1 /\ t = Base * q + r
  BY <1>2, DivMod DEF Limb
<1>4. MulAddStep(s, d, f, k).d = r /\ MulAddStep(s, d, f, k).c = q
  BY DEF MulAddStep
<1> DEFINE T == t
<1>5. T = s * f + d + k /\ T = Base * q + r /\ T \in Int /\ 0 <= T /\ T < Base * Base
  BY <1>2, <1>3
<1> HIDE DEF t, q, r, T
<1>6. q >= 0
  <2>1. SUFFICES ASSUME q <= -1 PROVE FALSE  BY <1>3
  <2>2. Base * q <= -Base  BY <2>1, <1>1, <1>3
  <2>. QED  BY <2>2, <1>1, <1>3, <1>5
<1>7. q < Base
  <2>1. SUFFICES ASSUME q >= Base PROVE FALSE  BY <1>1, <1>3
  <2>2. Base * q >= Base * Base  BY <2>1, <1>1, <1>3
  <2>. QED  BY <2>2, <1>1, <1>3, <1>5
<1>8. r + q * Base = d + f * s + k
  BY <1>1, <1>3, <1>5
<1>. QED  BY <1>1, <1>3, <1>4, <1>6, <1>7, <1>8 DEF Limb
-----------------------------------------------------------------------------
(* i + 1 limbs stay below Base^(i + 1).                                    *)
LEMMA StaysBelow ==
  ASSUME NEW x \in Nat, NEW u \in Nat, NEW d \in Limb, x < u
  PROVE  x + d * u < u * Base
<1>1. Base \in Nat /\ d \in 0 .. Base - 1  BY BaseAssumption DEF Limb
<1>2. d * u <= (Base - 1) * u  BY <1>1
<1>3. (Base - 1) * u = u * Base - u  BY <1>1
<1> DEFINE a == d * u
           e == u * Base
<1>4. a \in Nat /\ e \in Nat /\ a <= e - u  BY <1>1, <1>2, <1>3
<1> HIDE DEF a, e
<1>5. x + a < e  BY <1>4
<1>. QED  BY <1>5 DEF a, e
-----------------------------------------------------------------------------
(* A call starts with nothing read and nothing written.                    *)
LEMMA InitInd == Init => IndInv
<1>1. SUFFICES ASSUME Init PROVE IndInv  OBVIOUS
<1>2. Base \in Nat /\ Base >= 2 /\ Size \in Nat  BY BaseAssumption, SizeAssumption
<1>3. TypeOK
  BY <1>1, <1>2 DEF Init, TypeOK, CallOK, IndexOK, CarryOK, ValuesOK, Limb, Arrays
<1>4. ReadBeforeWrite  BY <1>1, <1>2 DEF Init, ReadBeforeWrite, Index, Arrays
<1>5. Sum /\ Difference /\ Bounded
  <2>1. b \in Nat  BY <1>1, <1>2 DEF Init, Limb
  <2>. QED  BY <1>1, <2>1 DEF Init, Sum, Difference, Bounded
<1>. QED  BY <1>3, <1>4, <1>5 DEF IndInv

(* What a step that writes r.d to X[i] needs: r is a limb and a carry, and *)
(* it makes up the two limbs that were there and the old carry.            *)
Fits(r, l, s) ==
  /\ r.d \in Limb /\ r.c \in Limb /\ (op # "mul" => r.c \in {0, 1})
  /\ l \in Limb /\ s \in Limb
  /\ op # "sub" => r.d + r.c * Base = l + b * s + c
  /\ op = "sub" => r.d + s + c = l + r.c * Base

(* A round that writes the limb its operands make keeps the invariant.     *)
LEMMA WriteInd ==
  ASSUME IndInv, NEW r, NEW l, NEW s, Fits(r, l, s), Write(r, l, s), i < Size,
         pc' = pc, pc \in {"limbs", "carry"}, pc = "limbs" => i < n
  PROVE  IndInv'
<1>. DEFINE rd == r.d
            rc == r.c
<1>1. Base \in Nat /\ Base >= 2 /\ Size \in Nat /\ Limb = 0 .. Base - 1
  BY BaseAssumption, SizeAssumption DEF Limb
<1>i. CallOK /\ IndexOK /\ CarryOK /\ ValuesOK /\ heap \in [Arrays -> [Index -> Limb]]
  BY DEF IndInv, TypeOK
<1>f. /\ rd \in Limb /\ rc \in Limb /\ (op # "mul" => rc \in {0, 1}) /\ l \in Limb /\ s \in Limb
      /\ op # "sub" => rd + rc * Base = l + b * s + c
      /\ op = "sub" => rd + s + c = l + rc * Base
  BY DEF Fits
<1>x. Size \in Nat /\ i \in Int /\ n \in Int /\ i \in 0 .. Size + 1 /\ n \in 0 .. Size
  <2>1. i \in 0 .. Size + 1  BY <1>i DEF IndexOK
  <2>2. n \in 0 .. Size  BY <1>i DEF CallOK
  <2>. QED  BY ONLY <2>1, <2>2, SizeAssumption
<1>t. /\ rd \in Nat /\ rc \in Nat /\ l \in Nat /\ s \in Nat /\ b \in Nat /\ c \in Nat
      /\ w \in Nat /\ w # 0 /\ vl \in Nat /\ vr \in Nat /\ vx \in Nat
  <2>1. rd \in Limb /\ rc \in Limb /\ l \in Limb /\ s \in Limb /\ b \in Limb /\ c \in Limb
    BY <1>f, <1>i DEF CallOK, CarryOK
  <2>2. w \in Nat /\ w # 0 /\ vl \in Nat /\ vr \in Nat /\ vx \in Nat
    BY <1>i DEF ValuesOK
  <2>3. \A x \in Limb : x \in Nat  BY <1>1
  <2>. QED  BY <2>1, <2>2, <2>3, Zenon
<1>2. /\ op' = op /\ left' = left /\ right' = right /\ n' = n /\ b' = b /\ before' = before
      /\ ext' = ext /\ i' = i + 1 /\ c' = rc
  BY DEF Write, call
<1>3. w' = w * Base /\ vl' = vl + l * w /\ vr' = vr + s * w /\ vx' = vx + rd * w
  BY DEF Write
<1>4. heap' = [heap EXCEPT !["X"] = [@ EXCEPT ![i] = rd]]
  BY DEF Write
<1>. HIDE DEF rd, rc
<1>5. TypeOK'
  <2>1. heap' \in [Arrays -> [Index -> Limb]]
    BY <1>4, <1>f, <1>i
  <2>2. ValuesOK'
    <3>1. w * Base \in Nat /\ w * Base # 0 /\ l * w \in Nat /\ s * w \in Nat /\ rd * w \in Nat
      BY <1>1, <1>t
    <3>. QED  BY <1>t, <1>3, <3>1 DEF ValuesOK
  <2>3. IndexOK'
    <3>1. i' \in 0 .. Size + 1 /\ i' <= Size  BY ONLY <1>x, <1>2, i < Size
    <3>2. pc' = "limbs" => i' <= n'  BY ONLY <1>x, <1>2, pc' = pc, pc = "limbs" => i < n
    <3>3. pc' # "limbs" => i' >= n'
      <4>1. pc # "limbs" => i >= n  BY <1>i DEF IndexOK
      <4>. QED  BY ONLY <1>x, <1>2, <4>1, pc' = pc
    <3>. QED  BY ONLY <3>1, <3>2, <3>3, pc' = pc, pc \in {"limbs", "carry"} DEF IndexOK
  <2>4. CarryOK'
    <3>1. i' <= Size  BY ONLY <1>x, <1>2, i < Size
    <3>. QED  BY <3>1, <1>1, <1>2, <1>f, <1>i DEF CarryOK
  <2>5. CallOK'
    BY <1>2, <1>i DEF CallOK
  <2>. QED  BY <2>1, <2>2, <2>3, <2>4, <2>5 DEF TypeOK
<1>6. ReadBeforeWrite'
  <2>1. SUFFICES ASSUME NEW j \in Index, j >= i'
                 PROVE  /\ \A x \in Arrays : heap'[x][j] = before'[x][j]
                        /\ j >= n' => heap'["X"][j] = before'[left'][j]
    BY <1>2 DEF ReadBeforeWrite
  <2>2. j # i /\ j >= i
    <3>1. i \in Int /\ j \in Int  BY ONLY <1>x, j \in Index DEF Index
    <3>. QED  BY <3>1, <2>1, <1>2
  <2>3. \A x \in Arrays : heap'[x][j] = heap[x][j]
    BY <1>4, <1>i, <2>2
  <2>4. "X" \in Arrays  BY DEF Arrays
  <2>. QED  BY <2>2, <2>3, <2>4, <1>2 DEF IndInv, ReadBeforeWrite
<1>7. Sum'
  <2>1. SUFFICES ASSUME op # "sub" PROVE vx' + c' * w' = vl' + b * vr'
    BY <1>2 DEF Sum
  <2>2. vx + c * w = vl + b * vr /\ rd + rc * Base = l + b * s + c
    BY <2>1, <1>f DEF IndInv, Sum
  <2>3. (vx + rd * w) + rc * (w * Base) = (vl + l * w) + b * (vr + s * w)
    <3>1. (rd + rc * Base) * w = (l + b * s + c) * w  BY <2>2
    <3>2. (rd + rc * Base) * w = rd * w + rc * (w * Base)  BY <1>1, <1>t
    <3>3. (l + b * s + c) * w = l * w + b * (s * w) + c * w  BY <1>1, <1>t
    <3>4. b * (vr + s * w) = b * vr + b * (s * w)  BY <1>1, <1>t
    <3> DEFINE a1 == rd * w
               a2 == rc * (w * Base)
               a3 == l * w
               a4 == b * (s * w)
               a5 == c * w
               a6 == b * vr
    <3>5. a1 \in Nat /\ a2 \in Nat /\ a3 \in Nat /\ a4 \in Nat /\ a5 \in Nat /\ a6 \in Nat
      BY <1>1, <1>t
    <3>6. vx + a5 = vl + a6 /\ a1 + a2 = a3 + a4 + a5
      BY <2>2, <3>1, <3>2, <3>3
    <3> HIDE DEF a1, a2, a3, a4, a5, a6
    <3>7. (vx + a1) + a2 = (vl + a3) + (a6 + a4)  BY <3>5, <3>6, <1>t
    <3>. QED  BY <3>4, <3>7 DEF a1, a2, a3, a4, a6
  <2>. QED  BY <2>3, <1>2, <1>3
<1>8. Difference'
  <2>1. SUFFICES ASSUME op = "sub" PROVE vx' + vr' = vl' + c' * w'
    BY <1>2 DEF Difference
  <2>2. vx + vr = vl + c * w /\ rd + s + c = l + rc * Base
    BY <2>1, <1>f DEF IndInv, Difference
  <2>3. (vx + rd * w) + (vr + s * w) = (vl + l * w) + rc * (w * Base)
    <3>1. (rd + s + c) * w = (l + rc * Base) * w  BY <2>2
    <3>2. (l + rc * Base) * w = l * w + rc * (w * Base)  BY <1>1, <1>t
    <3>3. (rd + s + c) * w = rd * w + s * w + c * w  BY <1>1, <1>t
    <3> DEFINE a1 == rd * w
               a2 == rc * (w * Base)
               a3 == l * w
               a4 == s * w
               a5 == c * w
    <3>4. a1 \in Nat /\ a2 \in Nat /\ a3 \in Nat /\ a4 \in Nat /\ a5 \in Nat
      BY <1>1, <1>t
    <3>5. vx + vr = vl + a5 /\ a1 + a4 + a5 = a3 + a2
      BY <2>2, <3>1, <3>2, <3>3
    <3> HIDE DEF a1, a2, a3, a4, a5
    <3>6. (vx + a1) + (vr + a4) = (vl + a3) + a2  BY <3>4, <3>5, <1>t
    <3>. QED  BY <3>6 DEF a1, a2, a3, a4
  <2>. QED  BY <2>3, <1>2, <1>3
<1>9. Bounded'
  <2>1. vx + rd * w < w * Base  BY <1>t, <1>f, StaysBelow DEF IndInv, Bounded
  <2>. QED  BY <2>1, <1>3 DEF Bounded
<1>. QED  BY <1>5, <1>6, <1>7, <1>8, <1>9 DEF IndInv
-----------------------------------------------------------------------------
(* The limbs a step at i reads are those the call was made with.           *)
LEMMA LimbsRead ==
  ASSUME IndInv, i \in Index
  PROVE  /\ heap[left][i] = before[left][i] /\ heap[right][i] = before[right][i]
         /\ i >= n => heap["X"][i] = before[left][i]
         /\ before[left][i] \in Limb /\ before[right][i] \in Limb
<1>1. left \in Arrays /\ right \in Arrays /\ before \in [Arrays -> [Index -> Limb]]
  BY DEF IndInv, TypeOK, CallOK
<1>2. i >= i
  <2>1. i \in Int  BY ONLY i \in Index, SizeAssumption DEF Index
  <2>. QED  BY ONLY <2>1
<1>3. \A x \in Arrays : heap[x][i] = before[x][i]
  BY <1>2 DEF IndInv, ReadBeforeWrite
<1>4. i >= n => heap["X"][i] = before[left][i]
  BY <1>2 DEF IndInv, ReadBeforeWrite
<1>. QED  BY <1>1, <1>3, <1>4

(* A round of the main loop of any of the three functions.                 *)
LEMMA OneLimbInd == IndInv /\ OneLimb => IndInv'
<1>1. SUFFICES ASSUME IndInv, OneLimb PROVE IndInv'  OBVIOUS
<1>2. i < n /\ pc = "limbs" /\ pc' = pc  BY <1>1 DEF OneLimb
<1>3. i < Size /\ i \in Index
  <2>1. n \in 0 .. Size  BY <1>1 DEF IndInv, TypeOK, CallOK
  <2>2. i \in 0 .. Size + 1  BY <1>1 DEF IndInv, TypeOK, IndexOK
  <2>. QED  BY ONLY <2>1, <2>2, <1>2, SizeAssumption DEF Index
<1> DEFINE l == before[left][i]
           s == before[right][i]
           r == LimbStep(l, s)
<1>4. l \in Limb /\ s \in Limb /\ heap[left][i] = l /\ heap[right][i] = s
  BY <1>1, <1>3, LimbsRead
<1>5. Write(r, l, s)  BY <1>1, <1>4 DEF OneLimb
<1>6. op \in {"add", "sub", "mul"} /\ b \in Limb /\ c \in Limb /\ (op # "mul" => c \in {0, 1})
  BY <1>1 DEF IndInv, TypeOK, CallOK, CarryOK
<1>7. op = "add" => b = 1  BY <1>1 DEF IndInv, TypeOK, CallOK
<1> HIDE DEF l, s
<1>8. Fits(r, l, s)
  <2>0. Base \in Nat /\ Base >= 2 /\ 0 \in Limb /\ 1 \in Limb  BY BaseAssumption DEF Limb
  <2>1. CASE op = "add"
    <3>1. r = AddStep(l, s, c)  BY <2>1 DEF LimbStep
    <3>2. /\ r.d \in Limb /\ r.c \in {0, 1} /\ r.d + r.c * Base = l + s + c
      BY <3>1, <1>4, <1>6, <2>1, AddStepExact
    <3>3. b * s = s
      <4>1. s \in Int  BY <1>4, <2>0 DEF Limb
      <4>. QED  BY ONLY <4>1, <1>7, <2>1
    <3>. QED  BY <2>0, <2>1, <3>2, <3>3, <1>4 DEF Fits
  <2>2. CASE op = "sub"
    <3>1. r = SubStep(l, s, c)  BY <2>2 DEF LimbStep
    <3>2. /\ r.d \in Limb /\ r.c \in {0, 1} /\ r.d + s + c = l + r.c * Base
      BY <3>1, <1>4, <1>6, <2>2, SubStepExact
    <3>. QED  BY <2>0, <2>2, <3>2, <1>4 DEF Fits
  <2>3. CASE op = "mul"
    <3>1. r = MulAddStep(s, l, b, c)  BY <2>3 DEF LimbStep
    <3>2. r.d \in Limb /\ r.c \in Limb /\ r.d + r.c * Base = l + b * s + c
      BY <3>1, <1>4, <1>6, MulAddStepExact
    <3>. QED  BY <2>3, <3>2, <1>4 DEF Fits
  <2>. QED  BY <2>1, <2>2, <2>3, <1>6
<1> HIDE DEF r
<1>. QED  BY <1>1, <1>2, <1>3, <1>5, <1>8, WriteInd

(* A round of the carry loops of add_abs and mul_hlp.                      *)
LEMMA CarryInd == IndInv /\ Carry => IndInv'
<1>1. SUFFICES ASSUME IndInv, Carry PROVE IndInv'  OBVIOUS
<1>2. i < Size /\ pc = "carry" /\ pc' = pc /\ op # "sub"  BY <1>1 DEF Carry
<1>3. i \in Index /\ i >= n
  <2>1. i \in 0 .. Size + 1 /\ i >= n  BY <1>1, <1>2 DEF IndInv, TypeOK, IndexOK
  <2>. QED  BY ONLY <2>1, <1>2, SizeAssumption DEF Index
<1> DEFINE l == before[left][i]
           r == CarryStep(l, c)
<1>4. l \in Limb /\ heap["X"][i] = l
  BY <1>1, <1>3, LimbsRead
<1>5. Write(r, l, 0)  BY <1>1, <1>4 DEF Carry
<1>6. b \in Limb /\ c \in Limb  BY <1>1 DEF IndInv, TypeOK, CallOK, CarryOK
<1> HIDE DEF l
<1>7. Fits(r, l, 0)
  <2>0. Base \in Nat /\ Base >= 2 /\ 0 \in Limb /\ 1 \in Limb  BY BaseAssumption DEF Limb
  <2>1. r.d \in Limb /\ r.c \in {0, 1} /\ r.d + r.c * Base = l + c
    BY <1>4, <1>6, CarryStepExact
  <2>2. l + b * 0 + c = l + c
    <3>1. l \in Int /\ b \in Int /\ c \in Int  BY <1>4, <1>6, <2>0 DEF Limb
    <3>. QED  BY ONLY <3>1
  <2>. QED  BY <2>0, <2>1, <2>2, <1>2, <1>4 DEF Fits
<1> HIDE DEF r
<1>. QED  BY <1>1, <1>2, <1>5, <1>7, WriteInd

(* A round of the borrow loop of sub_abs.                                  *)
LEMMA BorrowInd == IndInv /\ Borrow => IndInv'
<1>1. SUFFICES ASSUME IndInv, Borrow PROVE IndInv'  OBVIOUS
<1>2. i < Size /\ pc = "carry" /\ pc' = pc /\ op = "sub" /\ c # 0  BY <1>1 DEF Borrow
<1>3. i \in Index /\ i >= n
  <2>1. i \in 0 .. Size + 1 /\ i >= n  BY <1>1, <1>2 DEF IndInv, TypeOK, IndexOK
  <2>. QED  BY ONLY <2>1, <1>2, SizeAssumption DEF Index
<1> DEFINE l == before[left][i]
           r == [d |-> (l - 1) % Base, c |-> Truth(l = 0)]
<1>4. l \in Limb /\ heap["X"][i] = l
  BY <1>1, <1>3, LimbsRead
<1>5. Write(r, l, 0)  BY <1>1, <1>4 DEF Borrow
<1>6. c = 1  BY <1>1, <1>2 DEF IndInv, TypeOK, CarryOK
<1> HIDE DEF l
<1>7. Fits(r, l, 0)
  <2>0. Base \in Nat /\ Base >= 2 /\ 0 \in Limb /\ 1 \in Limb  BY BaseAssumption DEF Limb
  <2>1. l \in 0 .. Base - 1  BY <1>4 DEF Limb
  <2>2. (l - 1) % Base = IF l - 1 < 0 THEN l - 1 + Base ELSE l - 1
    <3>1. l - 1 \in -Base .. Base - 1  BY <2>0, <2>1
    <3>. QED  BY <3>1, <2>0, WrapBelow
  <2>3. r.d = IF l = 0 THEN Base - 1 ELSE l - 1  BY <2>0, <2>1, <2>2
  <2>4. r.c = IF l = 0 THEN 1 ELSE 0  BY DEF Truth
  <2> HIDE DEF r
  <2>5. r.d \in Limb /\ r.c \in {0, 1} /\ r.d + 0 + 1 = l + r.c * Base
    BY <2>0, <2>1, <2>3, <2>4 DEF Limb
  <2>. QED  BY <2>0, <2>5, <1>2, <1>4, <1>6 DEF Fits
<1> HIDE DEF r
<1>. QED  BY <1>1, <1>2, <1>5, <1>7, WriteInd

(* The appended limb holds the carry, which add_abs knows to be 1.         *)
LEMMA GrowInd == IndInv /\ Grow => IndInv'
<1>1. SUFFICES ASSUME IndInv, Grow PROVE IndInv'  OBVIOUS
<1>2. /\ pc = "carry" /\ op = "add" /\ c # 0 /\ i = Size
      /\ ext' = c /\ c' = 0 /\ i' = i + 1 /\ w' = w * Base /\ vx' = vx + c * w
      /\ op' = op /\ left' = left /\ right' = right /\ n' = n /\ b' = b /\ before' = before
      /\ heap' = heap /\ vl' = vl /\ vr' = vr /\ pc' = pc
  BY <1>1 DEF Grow, call
<1>3. CallOK /\ IndexOK /\ CarryOK /\ ValuesOK /\ heap \in [Arrays -> [Index -> Limb]]
  BY <1>1 DEF IndInv, TypeOK
<1>4. Base \in Nat /\ Base >= 2 /\ Size \in Nat /\ 0 \in Limb /\ 1 \in Limb
  BY BaseAssumption, SizeAssumption DEF Limb
<1>5. c = 1 /\ w \in Nat /\ w # 0 /\ vl \in Nat /\ vr \in Nat /\ vx \in Nat
  BY <1>2, <1>3 DEF CarryOK, ValuesOK
<1>6. TypeOK'
  <2>1. w * Base \in Nat /\ w * Base # 0 /\ c * w = w  BY ONLY <1>4, <1>5
  <2>2. ValuesOK'
    <3>1. vx + w \in Nat  BY ONLY <1>5
    <3>. QED  BY <1>2, <1>5, <2>1, <3>1 DEF ValuesOK
  <2>3. n \in 0 .. Size  BY <1>3 DEF CallOK
  <2>4. i' \in 0 .. Size + 1 /\ i' >= n'  BY ONLY <1>2, <1>4, <2>3
  <2>5. IndexOK'  BY ONLY <2>4, <1>2 DEF IndexOK
  <2>6. CarryOK'  BY ONLY <1>2, <1>3, <1>4 DEF CarryOK
  <2>7. CallOK'  BY <1>2, <1>3 DEF CallOK
  <2>. QED  BY <2>2, <2>5, <2>6, <2>7, <1>2, <1>3 DEF TypeOK
<1>7. ReadBeforeWrite'
  <2>1. \A j \in Index : ~(j >= i')  BY ONLY <1>2, <1>4 DEF Index
  <2>. QED  BY <2>1, <1>2 DEF ReadBeforeWrite
<1>8. Sum' /\ Difference'
  <2>1. vx + c * w = vl + b * vr  BY <1>1, <1>2 DEF IndInv, Sum
  <2>2. c' * w' = 0 /\ b * vr \in Int
    <3>1. b \in Int  BY <1>3, <1>2 DEF CallOK
    <3>2. w * Base \in Int  BY ONLY <1>4, <1>5
    <3>. QED  BY ONLY <3>1, <3>2, <1>2, <1>5
  <2>3. vx' + c' * w' = vl' + b' * vr'
    <3>1. vx + c * w \in Int  BY ONLY <1>5
    <3>. QED  BY ONLY <2>1, <2>2, <3>1, <1>2
  <2>. QED  BY ONLY <2>3, <1>2 DEF Sum, Difference
<1>9. Bounded'
  <2>1. vx < w  BY <1>1 DEF IndInv, Bounded
  <2>2. vx + 1 * w < w * Base  BY <2>1, <1>4, <1>5, StaysBelow
  <2>. QED  BY <2>2, <1>2, <1>5 DEF Bounded
<1>. QED  BY <1>6, <1>7, <1>8, <1>9 DEF IndInv

(* The steps that only move the program counter.                           *)
LEMMA LeaveInd ==
  ASSUME IndInv, EndOfLimbs \/ GrowFails \/ Negative \/ Overrun \/ Return
  PROVE  IndInv'
<1>1. /\ op' = op /\ left' = left /\ right' = right /\ n' = n /\ b' = b /\ before' = before
      /\ heap' = heap /\ i' = i /\ c' = c /\ ext' = ext /\ w' = w
      /\ vl' = vl /\ vr' = vr /\ vx' = vx
  BY DEF EndOfLimbs, GrowFails, Negative, Overrun, Return, Leave, call
<1>2. \/ pc = "limbs" /\ i = n /\ pc' = "carry"
      \/ pc = "carry" /\ i = Size /\ op = "add" /\ pc' = "no memory"
      \/ pc = "carry" /\ i = Size /\ c # 0 /\ op = "sub" /\ pc' = "negative"
      \/ pc = "carry" /\ i = Size /\ c # 0 /\ op = "mul" /\ pc' = "over"
      \/ pc = "carry" /\ c = 0 /\ pc' = "done"
  BY DEF EndOfLimbs, GrowFails, Negative, Overrun, Return, Leave
<1>3. CallOK /\ IndexOK /\ CarryOK /\ ValuesOK /\ heap \in [Arrays -> [Index -> Limb]]
  BY DEF IndInv, TypeOK
<1>4. CallOK' /\ ValuesOK' /\ heap' \in [Arrays -> [Index -> Limb]]
  BY <1>1, <1>3 DEF CallOK, ValuesOK
<1>5. IndexOK'
  <2>1. n \in 0 .. Size  BY <1>3 DEF CallOK
  <2>2. /\ i \in 0 .. Size + 1 /\ (pc = "limbs" => i <= n) /\ (pc # "limbs" => i >= n)
    BY <1>3 DEF IndexOK
  <2>3. i \in Int /\ n \in Int /\ Size \in Int /\ Size <= Size /\ n <= n
    BY ONLY <2>1, <2>2, SizeAssumption
  <2>4. i >= n /\ (pc' # "carry" /\ pc' # "done" => i = Size)
    BY ONLY <1>2, <2>2, <2>3
  <2>5. pc' \in {"carry", "no memory", "negative", "over", "done"}  BY ONLY <1>2
  <2>. QED  BY ONLY <1>1, <2>2, <2>4, <2>5 DEF IndexOK
<1>6. CarryOK'
  BY ONLY <1>1, <1>2, <1>3 DEF CarryOK
<1>7. ReadBeforeWrite' /\ Sum' /\ Difference' /\ Bounded'
  BY <1>1 DEF IndInv, ReadBeforeWrite, Sum, Difference, Bounded
<1>. QED  BY <1>3, <1>4, <1>5, <1>6, <1>7 DEF IndInv, TypeOK

(* A step that changes no variable.                                        *)
LEMMA StutterInd == IndInv /\ UNCHANGED vars => IndInv'
  BY DEF vars, IndInv, TypeOK, CallOK, IndexOK, CarryOK, ValuesOK, ReadBeforeWrite, Sum,
         Difference, Bounded
-----------------------------------------------------------------------------
(* The account of limbs written and carry left is kept by every step of    *)
(* add_abs, sub_abs and mul_hlp, for every Base, Size and aliasing.        *)
THEOREM Inductive == Spec => []IndInv
<1>1. Init => IndInv  BY InitInd
<1>2. IndInv /\ [Next]_vars => IndInv'
  <2>1. SUFFICES ASSUME IndInv, [Next]_vars PROVE IndInv'  OBVIOUS
  <2>2. CASE OneLimb  BY <2>1, <2>2, OneLimbInd
  <2>3. CASE Carry  BY <2>1, <2>3, CarryInd
  <2>4. CASE Borrow  BY <2>1, <2>4, BorrowInd
  <2>5. CASE Grow  BY <2>1, <2>5, GrowInd
  <2>6. CASE EndOfLimbs \/ GrowFails \/ Negative \/ Overrun \/ Return  BY <2>1, <2>6, LeaveInd
  <2>7. CASE Ended \/ UNCHANGED vars  BY <2>1, <2>7, StutterInd DEF Ended
  <2>. QED  BY <2>1, <2>2, <2>3, <2>4, <2>5, <2>6, <2>7 DEF Next
<1>. QED  BY <1>1, <1>2, PTL DEF Spec

(* At a normal end the result is exact.                                    *)
LEMMA DoneLemma == IndInv => DoneExact
<1>1. SUFFICES ASSUME IndInv, pc = "done" PROVE IF op = "sub" THEN vx = vl - vr ELSE vx = vl + b * vr
  BY DEF DoneExact
<1>2. c = 0 /\ op \in {"add", "sub", "mul"}  BY <1>1 DEF IndInv, TypeOK, CarryOK, CallOK
<1>3. w \in Nat /\ vl \in Nat /\ vr \in Nat /\ vx \in Nat  BY <1>1 DEF IndInv, TypeOK, ValuesOK
<1>4. c * w = 0  BY ONLY <1>2, <1>3
<1>5. CASE op = "sub"
  <2>1. vx + vr = vl + c * w  BY <1>1, <1>5 DEF IndInv, Difference
  <2>. QED  BY ONLY <1>3, <1>4, <1>5, <2>1
<1>6. CASE op # "sub"
  <2>1. vx + c * w = vl + b * vr  BY <1>1, <1>6 DEF IndInv, Sum
  <2>. QED  BY ONLY <1>3, <1>4, <1>6, <2>1
<1>. QED  BY <1>5, <1>6

(* sub_abs reports a negative result only for a smaller left operand.      *)
LEMMA NegativeLemma == IndInv => NegativeOnlyIfSmaller
<1>1. SUFFICES ASSUME IndInv, pc = "negative" PROVE vl < vr
  BY DEF NegativeOnlyIfSmaller
<1>2. op = "sub" /\ c = 1  BY <1>1 DEF IndInv, TypeOK, CarryOK
<1>3. w \in Nat /\ vl \in Nat /\ vr \in Nat /\ vx \in Nat  BY <1>1 DEF IndInv, TypeOK, ValuesOK
<1>4. vx < w /\ vx + vr = vl + c * w  BY <1>1, <1>2 DEF IndInv, Bounded, Difference
<1>. QED  BY ONLY <1>2, <1>3, <1>4

(* mul_hlp leaves the array only if the result does not fit.               *)
LEMMA OverrunLemma == IndInv => OverrunOnlyIfTooLarge
<1>1. SUFFICES ASSUME IndInv, pc = "over" PROVE vl + b * vr >= w
  BY DEF OverrunOnlyIfTooLarge
<1>2. op = "mul" /\ c # 0 /\ c \in Limb  BY <1>1 DEF IndInv, TypeOK, CarryOK
<1>3. w \in Nat /\ vl \in Nat /\ vr \in Nat /\ vx \in Nat  BY <1>1 DEF IndInv, TypeOK, ValuesOK
<1>4. vx + c * w = vl + b * vr  BY <1>1, <1>2 DEF IndInv, Sum
<1>5. c * w >= w
  <2>1. c \in Nat /\ c >= 1  BY <1>2, BaseAssumption DEF Limb
  <2>. QED  BY ONLY <2>1, <1>3
<1>6. c * w \in Int  BY <1>2, <1>3, BaseAssumption DEF Limb
<1>. QED  BY ONLY <1>3, <1>4, <1>5, <1>6

(* Whatever Base, Size, the limbs and the aliasing are, a call leaves the  *)
(* exact result in X, or reports a negative one only for a smaller left    *)
(* operand, and mul_hlp leaves its array only if the result does not fit   *)
(* into it, so a caller that made enough room is safe.                     *)
THEOREM ExactTheorem == Spec => []ResultExact
<1>1. IndInv => ResultExact  BY DoneLemma, NegativeLemma, OverrunLemma DEF ResultExact
<1>. QED  BY <1>1, Inductive, PTL
-----------------------------------------------------------------------------
(* The naturals are well-founded; the relation is a set of pairs, and what *)
(* is shown by induction is a set too, because no backend instantiates a   *)
(* predicate.                                                              *)
Less == {ss \in Nat \X Nat : ss[1] < ss[2]}

(* A set of naturals has a least one.                                      *)
LEMMA LeastNatural ==
  ASSUME NEW S, S \subseteq Nat, S # {}
  PROVE  \E x \in S : \A y \in S : x <= y
<1>1. IsWellFoundedOn(Less, Nat)
  BY NatLessThanWellFounded DEF OpToRel, Less
<1>2. PICK x \in S : \A y \in S : ~ (<<y, x>> \in Less)
  BY <1>1, WFMin
<1>3. ASSUME NEW y \in S PROVE x <= y
  <2>1. x \in Nat /\ y \in Nat  BY <1>2
  <2>2. ~(y < x)  BY <2>1, <1>2 DEF Less
  <2>. QED  BY ONLY <2>1, <2>2
<1>. QED  BY <1>2, <1>3

(* A set that has 0, and n + 1 with every n, has every natural.            *)
LEMMA Induction ==
  ASSUME NEW S, 0 \in S, \A m \in Nat : m \in S => m + 1 \in S
  PROVE  \A m \in Nat : m \in S
<1> DEFINE T == {m \in Nat : m \notin S}
<1>1. SUFFICES ASSUME T # {} PROVE FALSE  OBVIOUS
<1>2. PICK x \in T : \A y \in T : x <= y
  BY <1>1, LeastNatural
<1>3. x # 0 /\ x \in Nat  BY <1>2
<1>4. PICK y \in Nat : x = y + 1
  <2>1. x - 1 \in Nat /\ x = (x - 1) + 1  BY ONLY <1>3
  <2>. QED  BY <2>1
<1>5. ~(x <= y)  BY ONLY <1>4
<1>6. y \in S  BY <1>2, <1>5
<1>. QED  BY <1>2, <1>4, <1>6

(* There is a function defined by recursion on the limbs.                  *)
LEMMA Recursion ==
  ASSUME NEW x0 \in Nat, NEW q \in Nat, NEW g \in [Index -> Nat]
  PROVE  \E f \in [0 .. Size -> Nat] : f[0] = x0 /\ \A k \in Index : f[k + 1] = f[k] * q + g[k]
<1> DEFINE Rec(f, m) == f[0] = x0 /\ \A k \in 0 .. m - 1 : f[k + 1] = f[k] * q + g[k]
           S == {m \in Nat : m <= Size => \E f \in [0 .. m -> Nat] : Rec(f, m)}
<1>1. 0 \in S
  <2>1. [k \in 0 .. 0 |-> x0] \in [0 .. 0 -> Nat] /\ Rec([k \in 0 .. 0 |-> x0], 0)  OBVIOUS
  <2> HIDE DEF Rec
  <2>. QED  BY <2>1
<1>2. ASSUME NEW m \in Nat, m \in S PROVE m + 1 \in S
  <2>1. SUFFICES ASSUME m + 1 <= Size PROVE \E f \in [0 .. m + 1 -> Nat] : Rec(f, m + 1)
    <3> HIDE DEF Rec
    <3>. QED  OBVIOUS
  <2>2. m <= Size /\ m \in Index  BY ONLY <2>1, SizeAssumption, m \in Nat DEF Index
  <2>3. PICK f \in [0 .. m -> Nat] : Rec(f, m)
    <3> HIDE DEF Rec
    <3>. QED  BY <1>2, <2>2
  <2> DEFINE v == f[m] * q + g[m]
             h == [k \in 0 .. m + 1 |-> IF k = m + 1 THEN v ELSE f[k]]
  <2>4. v \in Nat
    <3>1. f[m] \in Nat /\ g[m] \in Nat  BY <2>2
    <3>. QED  BY ONLY <3>1, q \in Nat
  <2> HIDE DEF v
  <2>5. h \in [0 .. m + 1 -> Nat]  BY <2>4
  <2>6. h[0] = x0  BY <2>3
  <2>7. ASSUME NEW k \in 0 .. (m + 1) - 1 PROVE h[k + 1] = h[k] * q + g[k]
    <3>1. CASE k = m
      <4>1. h[k + 1] = v /\ h[k] = f[m]  BY <3>1
      <4>. QED  BY ONLY <3>1, <4>1 DEF v
    <3>2. CASE k # m
      <4>1. k \in 0 .. m - 1  BY ONLY <3>2, k \in 0 .. (m + 1) - 1, m \in Nat
      <4>2. h[k + 1] = f[k + 1] /\ h[k] = f[k]  BY ONLY <4>1, m \in Nat DEF h
      <4>. QED  BY <2>3, <4>1, <4>2
    <3>. QED  BY <3>1, <3>2
  <2> HIDE DEF h
  <2>8. Rec(h, m + 1)  BY <2>6, <2>7
  <2> HIDE DEF Rec
  <2>. QED  BY <2>5, <2>8
<1> HIDE DEF Rec
<1>3. \A m \in Nat : m \in S
  <2> HIDE DEF S
  <2>. QED  BY <1>1, <1>2, Induction
<1>4. \E f \in [0 .. Size -> Nat] : Rec(f, Size)
  <2>1. Size \in S /\ Size <= Size  BY <1>3, SizeAssumption
  <2>. QED  BY <2>1
<1>. QED  BY <1>4 DEF Rec, Index

(* A function given by such a recursion is the one its definition chooses. *)
LEMMA AsDefined ==
  ASSUME NEW x0 \in Nat, NEW q \in Nat, NEW g \in [Index -> Nat], NEW f \in [0 .. Size -> Nat],
         f[0] = x0, \A k \in Index : f[k + 1] = f[k] * q + g[k]
  PROVE  f = [m \in 0 .. Size |-> IF m = 0 THEN x0 ELSE f[m - 1] * q + g[m - 1]]
<1> DEFINE h == [m \in 0 .. Size |-> IF m = 0 THEN x0 ELSE f[m - 1] * q + g[m - 1]]
<1>1. ASSUME NEW m \in 0 .. Size PROVE f[m] = h[m]
  <2>1. CASE m = 0  BY <2>1
  <2>2. CASE m # 0
    <3>1. PICK k \in Index : m = k + 1
      <4>1. m - 1 \in Index /\ m = (m - 1) + 1  BY ONLY <2>2, m \in 0 .. Size, SizeAssumption DEF Index
      <4>. QED  BY <4>1
    <3>2. m - 1 = k  BY ONLY <3>1, SizeAssumption DEF Index
    <3>3. f[k + 1] = f[k] * q + g[k]  OBVIOUS
    <3>4. h[m] = f[m - 1] * q + g[m - 1]  BY <2>2
    <3>. QED  BY ONLY <3>1, <3>2, <3>3, <3>4
  <2>. QED  BY <2>1, <2>2
<1>2. f = h
  <2>1. h = [m \in 0 .. Size |-> h[m]]  OBVIOUS
  <2> HIDE DEF h
  <2>. QED  BY <1>1, <2>1
<1>. QED  BY <1>2

(* Such a function is natural everywhere.                                  *)
LEMMA NaturalValues ==
  ASSUME NEW f, f[0] \in Nat, \A k \in Index : f[k] \in Nat => f[k + 1] \in Nat
  PROVE  \A m \in 0 .. Size : f[m] \in Nat
<1> DEFINE S == {m \in Nat : m <= Size => f[m] \in Nat}
<1>1. 0 \in S  OBVIOUS
<1>2. ASSUME NEW m \in Nat, m \in S PROVE m + 1 \in S
  <2>1. SUFFICES ASSUME m + 1 <= Size PROVE f[m + 1] \in Nat  OBVIOUS
  <2>2. m <= Size /\ m \in Index  BY ONLY <2>1, SizeAssumption, m \in Nat DEF Index
  <2>. QED  BY <1>2, <2>2
<1>3. \A m \in Nat : m \in S
  <2> HIDE DEF S
  <2>. QED  BY <1>1, <1>2, Induction
<1>4. ASSUME NEW m \in 0 .. Size PROVE m \in Nat /\ m <= Size
  BY ONLY m \in 0 .. Size, SizeAssumption
<1>. QED  BY <1>3, <1>4

(* The weights of the limbs, by their recursion.                           *)
LEMMA WeightRec ==
  /\ Weight \in [0 .. Size -> Nat] /\ Weight[0] = 1
  /\ \A k \in Index : Weight[k + 1] = Weight[k] * Base
<1> DEFINE g == [k \in Index |-> 0]
           D(f) == f = [m \in 0 .. Size |-> IF m = 0 THEN 1 ELSE f[m - 1] * Base]
<1>0. g \in [Index -> Nat] /\ 1 \in Nat /\ Base \in Nat  BY BaseAssumption
<1>1. PICK f \in [0 .. Size -> Nat] : f[0] = 1 /\ \A k \in Index : f[k + 1] = f[k] * Base + g[k]
  <2> HIDE DEF g
  <2>. QED  BY <1>0, Recursion
<1>2. f = [m \in 0 .. Size |-> IF m = 0 THEN 1 ELSE f[m - 1] * Base + g[m - 1]]
  <2> HIDE DEF g
  <2>. QED  BY <1>0, <1>1, AsDefined
<1>3. D(f)
  <2>1. ASSUME NEW m \in 0 .. Size, m # 0 PROVE f[m - 1] * Base + g[m - 1] = f[m - 1] * Base
    <3>1. m - 1 \in Index /\ m - 1 \in 0 .. Size  BY ONLY <2>1, m \in 0 .. Size, SizeAssumption DEF Index
    <3>2. f[m - 1] \in Nat /\ g[m - 1] = 0  BY <3>1
    <3>. QED  BY ONLY <3>2, BaseAssumption
  <2> HIDE DEF g
  <2>2. [m \in 0 .. Size |-> IF m = 0 THEN 1 ELSE f[m - 1] * Base + g[m - 1]]
          = [m \in 0 .. Size |-> IF m = 0 THEN 1 ELSE f[m - 1] * Base]
    BY <2>1
  <2>. QED  BY <1>2, <2>2
<1>4. D(Weight)
  BY <1>3, Zenon DEF Weight
<1>5. Weight[0] = 1
  <2>1. 0 \in 0 .. Size  BY SizeAssumption
  <2>. QED  BY <1>4, <2>1
<1>6. ASSUME NEW k \in Index PROVE Weight[k + 1] = Weight[k] * Base
  <2>1. k + 1 \in 0 .. Size /\ k + 1 # 0 /\ (k + 1) - 1 = k
    BY ONLY k \in Index, SizeAssumption DEF Index
  <2>2. Weight[k + 1] = Weight[(k + 1) - 1] * Base  BY ONLY <1>4, <2>1
  <2>. QED  BY <2>1, <2>2
<1>7. \A m \in 0 .. Size : Weight[m] \in Nat
  <2>1. ASSUME NEW k \in Index, Weight[k] \in Nat PROVE Weight[k + 1] \in Nat
    <3>1. Weight[k] * Base \in Nat  BY ONLY <2>1, BaseAssumption
    <3>. QED  BY ONLY <3>1, <1>6
  <2>. QED  BY <2>1, <1>5, NaturalValues
<1>. QED  BY <1>4, <1>5, <1>6, <1>7

(* One more limb adds the limb times its weight.                           *)
LEMMA ValueRec ==
  ASSUME NEW a \in [Index -> Limb]
  PROVE  /\ Value(a) \in [0 .. Size -> Nat] /\ Value(a)[0] = 0
         /\ \A k \in Index : Value(a)[k + 1] = Value(a)[k] + a[k] * Weight[k]
<1> DEFINE g == [k \in Index |-> a[k] * Weight[k]]
           D(f) == f = [m \in 0 .. Size |-> IF m = 0 THEN 0 ELSE f[m - 1] + a[m - 1] * Weight[m - 1]]
<1>a. ASSUME NEW k \in Index PROVE a[k] * Weight[k] \in Nat
  <2>1. a[k] \in Nat  BY BaseAssumption DEF Limb
  <2>2. k \in 0 .. Size  BY ONLY k \in Index, SizeAssumption DEF Index
  <2>3. Weight[k] \in Nat  BY <2>2, WeightRec
  <2>. QED  BY ONLY <2>1, <2>3
<1>0. g \in [Index -> Nat] /\ 0 \in Nat /\ 1 \in Nat  BY <1>a
<1>1. PICK f \in [0 .. Size -> Nat] : f[0] = 0 /\ \A k \in Index : f[k + 1] = f[k] * 1 + g[k]
  <2> HIDE DEF g
  <2>. QED  BY ONLY <1>0, Recursion, ZenonT(40)
<1>2. f = [m \in 0 .. Size |-> IF m = 0 THEN 0 ELSE f[m - 1] * 1 + g[m - 1]]
  <2> HIDE DEF g
  <2> DEFINE one == 1
             none == 0
  <2>1. one \in Nat /\ none \in Nat /\ f[0] = none  BY <1>0, <1>1
  <2>2. \A k \in Index : f[k + 1] = f[k] * one + g[k]  BY <1>1
  <2> HIDE DEF one, none
  <2>3. f = [m \in 0 .. Size |-> IF m = 0 THEN none ELSE f[m - 1] * one + g[m - 1]]
    BY ONLY <1>0, <2>1, <2>2, f \in [0 .. Size -> Nat], AsDefined, ZenonT(40)
  <2>. QED  BY ONLY <2>3 DEF one, none
<1>3. D(f)
  <2>1. ASSUME NEW m \in 0 .. Size, m # 0
        PROVE  f[m - 1] * 1 + g[m - 1] = f[m - 1] + a[m - 1] * Weight[m - 1]
    <3>1. m - 1 \in Index /\ m - 1 \in 0 .. Size  BY ONLY <2>1, m \in 0 .. Size, SizeAssumption DEF Index
    <3>2. f[m - 1] \in Nat /\ g[m - 1] = a[m - 1] * Weight[m - 1]  BY <3>1
    <3>3. f[m - 1] * 1 = f[m - 1]  BY ONLY <3>2
    <3>. QED  BY ONLY <3>2, <3>3
  <2> HIDE DEF g
  <2>2. [m \in 0 .. Size |-> IF m = 0 THEN 0 ELSE f[m - 1] * 1 + g[m - 1]]
          = [m \in 0 .. Size |-> IF m = 0 THEN 0 ELSE f[m - 1] + a[m - 1] * Weight[m - 1]]
    BY <2>1
  <2>. QED  BY <1>2, <2>2
<1> DEFINE p == Value(a)
<1>4. D(p)
  BY <1>3, Zenon DEF Value
<1> HIDE DEF p
<1>5. p[0] = 0
  <2>1. 0 \in 0 .. Size  BY SizeAssumption
  <2>. QED  BY <1>4, <2>1
<1>6. ASSUME NEW k \in Index PROVE p[k + 1] = p[k] + a[k] * Weight[k]
  <2>1. k + 1 \in 0 .. Size /\ k + 1 # 0 /\ (k + 1) - 1 = k
    BY ONLY k \in Index, SizeAssumption DEF Index
  <2>2. p[k + 1] = p[(k + 1) - 1] + a[(k + 1) - 1] * Weight[(k + 1) - 1]  BY ONLY <1>4, <2>1
  <2>. QED  BY <2>1, <2>2
<1>7. \A m \in 0 .. Size : p[m] \in Nat
  <2>1. ASSUME NEW k \in Index, p[k] \in Nat PROVE p[k + 1] \in Nat
    <3>1. a[k] * Weight[k] \in Nat  BY <1>a
    <3>2. p[k] + a[k] * Weight[k] \in Nat  BY ONLY <2>1, <3>1
    <3>. QED  BY ONLY <3>2, <1>6
  <2>. QED  BY <2>1, <1>5, NaturalValues
<1>8. p \in [0 .. Size -> Nat]  BY <1>4, <1>7
<1>. QED  BY <1>5, <1>6, <1>8 DEF p

(* Arrays that agree below m have the same integer there.                  *)
LEMMA AgreeBelow ==
  ASSUME NEW a1 \in [Index -> Limb], NEW a2 \in [Index -> Limb], NEW m \in 0 .. Size,
         \A j \in Index : j < m => a1[j] = a2[j]
  PROVE  Value(a1)[m] = Value(a2)[m]
<1> DEFINE S == {k \in Nat : k <= m => Value(a1)[k] = Value(a2)[k]}
<1>1. 0 \in S  BY ValueRec
<1>2. ASSUME NEW k \in Nat, k \in S PROVE k + 1 \in S
  <2>1. SUFFICES ASSUME k + 1 <= m PROVE Value(a1)[k + 1] = Value(a2)[k + 1]  OBVIOUS
  <2>2. k <= m /\ k < m /\ k \in Index
    BY ONLY <2>1, SizeAssumption, k \in Nat, m \in 0 .. Size DEF Index
  <2>3. Value(a1)[k] = Value(a2)[k] /\ a1[k] = a2[k]  BY <1>2, <2>2
  <2>. QED  BY <2>2, <2>3, ValueRec
<1>3. \A k \in Nat : k \in S
  <2> HIDE DEF S
  <2>. QED  BY <1>1, <1>2, Induction
<1>4. m \in Nat /\ m <= m  BY ONLY m \in 0 .. Size, SizeAssumption
<1>. QED  BY <1>3, <1>4

(* Arrays that agree from m on differ by what is below m.                  *)
LEMMA AgreeAbove ==
  ASSUME NEW a1 \in [Index -> Limb], NEW a2 \in [Index -> Limb], NEW m \in 0 .. Size,
         \A j \in Index : j >= m => a1[j] = a2[j]
  PROVE  Value(a1)[Size] + Value(a2)[m] = Value(a2)[Size] + Value(a1)[m]
<1> DEFINE v1 == Value(a1)
           v2 == Value(a2)
           S == {k \in Nat : m <= k /\ k <= Size => v1[k] + v2[m] = v2[k] + v1[m]}
<1>0. /\ v1 \in [0 .. Size -> Nat] /\ v2 \in [0 .. Size -> Nat]
      /\ \A k \in Index : v1[k + 1] = v1[k] + a1[k] * Weight[k]
      /\ \A k \in Index : v2[k + 1] = v2[k] + a2[k] * Weight[k]
  BY ValueRec
<1> HIDE DEF v1, v2
<1>m. m \in Nat /\ m <= Size /\ v1[m] \in Nat /\ v2[m] \in Nat
  <2>1. m \in Nat /\ m <= Size  BY ONLY m \in 0 .. Size, SizeAssumption
  <2>. QED  BY <2>1, <1>0
<1>b. ASSUME NEW k \in Nat, k = m PROVE v1[k] + v2[m] = v2[k] + v1[m]
  BY ONLY <1>m, <1>b
<1>1. 0 \in S
  <2>1. SUFFICES ASSUME m <= 0 PROVE v1[0] + v2[m] = v2[0] + v1[m]  OBVIOUS
  <2>2. 0 = m  BY ONLY <2>1, <1>m
  <2>. QED  BY <1>b, <2>2
<1>2. ASSUME NEW k \in Nat, k \in S PROVE k + 1 \in S
  <2>1. SUFFICES ASSUME m <= k + 1, k + 1 <= Size
                 PROVE  v1[k + 1] + v2[m] = v2[k + 1] + v1[m]
    OBVIOUS
  <2>2. CASE k + 1 = m  BY <1>b, <2>2
  <2>3. CASE k + 1 # m
    <3>1. m <= k /\ k >= m /\ k <= Size /\ k \in Index /\ k \in 0 .. Size
      BY ONLY <2>1, <2>3, SizeAssumption, k \in Nat, <1>m DEF Index
    <3>2. v1[k] + v2[m] = v2[k] + v1[m] /\ a1[k] = a2[k]  BY <1>2, <3>1
    <3> DEFINE e == a2[k] * Weight[k]
    <3>3. v1[k + 1] = v1[k] + e /\ v2[k + 1] = v2[k] + e  BY <1>0, <3>1, <3>2
    <3>4. v1[k] \in Nat /\ v2[k] \in Nat  BY <1>0, <3>1
    <3>5. e \in Nat
      <4>1. a2[k] \in Nat  BY <3>1, BaseAssumption DEF Limb
      <4>2. Weight[k] \in Nat  BY <3>1, WeightRec
      <4>. QED  BY ONLY <4>1, <4>2
    <3> HIDE DEF e
    <3>6. (v1[k] + e) + v2[m] = (v2[k] + e) + v1[m]  BY ONLY <1>m, <3>2, <3>4, <3>5
    <3>. QED  BY ONLY <3>3, <3>6
  <2>. QED  BY <2>2, <2>3
<1>3. \A k \in Nat : k \in S
  <2> HIDE DEF S
  <2>. QED  BY <1>1, <1>2, Induction
<1>4. Size \in Nat /\ Size <= Size  BY SizeAssumption
<1>5. v1[Size] + v2[m] = v2[Size] + v1[m]  BY <1>3, <1>4, <1>m
<1>. QED  BY <1>5 DEF v1, v2

(* Limbs that are zero add nothing.                                        *)
LEMMA ZeroAbove ==
  ASSUME NEW a \in [Index -> Limb], NEW m \in 0 .. Size, \A j \in Index : j >= m => a[j] = 0
  PROVE  Value(a)[Size] = Value(a)[m]
<1> DEFINE v == Value(a)
           S == {k \in Nat : m <= k /\ k <= Size => v[k] = v[m]}
<1>0. v \in [0 .. Size -> Nat] /\ \A k \in Index : v[k + 1] = v[k] + a[k] * Weight[k]
  BY ValueRec
<1> HIDE DEF v
<1>m. m \in Nat /\ m <= Size  BY ONLY m \in 0 .. Size, SizeAssumption
<1>1. 0 \in S
  <2>1. m <= 0 => m = 0  BY ONLY <1>m
  <2>. QED  BY <2>1
<1>2. ASSUME NEW k \in Nat, k \in S PROVE k + 1 \in S
  <2>1. SUFFICES ASSUME m <= k + 1, k + 1 <= Size PROVE v[k + 1] = v[m]  OBVIOUS
  <2>2. CASE k + 1 = m  BY <2>2
  <2>3. CASE k + 1 # m
    <3>1. m <= k /\ k >= m /\ k <= Size /\ k \in Index /\ k \in 0 .. Size
      BY ONLY <2>1, <2>3, SizeAssumption, k \in Nat, <1>m DEF Index
    <3>2. v[k] = v[m] /\ a[k] = 0 /\ v[k + 1] = v[k] + a[k] * Weight[k]  BY <1>0, <1>2, <3>1
    <3>3. v[k] \in Nat  BY <1>0, <3>1
    <3>4. Weight[k] \in Nat  BY <3>1, WeightRec
    <3>5. v[k] + 0 * Weight[k] = v[k]  BY ONLY <3>3, <3>4
    <3>. QED  BY ONLY <3>2, <3>5
  <2>. QED  BY <2>2, <2>3
<1>3. \A k \in Nat : k \in S
  <2> HIDE DEF S
  <2>. QED  BY <1>1, <1>2, Induction
<1>4. Size \in Nat /\ Size <= Size  BY SizeAssumption
<1>5. v[Size] = v[m]  BY <1>3, <1>4, <1>m
<1>. QED  BY <1>5 DEF v
-----------------------------------------------------------------------------
(* The arrays the account is about are arrays of limbs.                    *)
LEMMA ArraysTyped ==
  ASSUME IndInv
  PROVE  /\ before[left] \in [Index -> Limb] /\ heap["X"] \in [Index -> Limb]
         /\ Cut(before[right]) \in [Index -> Limb]
         /\ \A j \in Index : j >= n => Cut(before[right])[j] = 0
         /\ \A j \in Index : j < n => Cut(before[right])[j] = before[right][j]
<1>1. /\ left \in Arrays /\ right \in Arrays /\ "X" \in Arrays
      /\ before \in [Arrays -> [Index -> Limb]] /\ heap \in [Arrays -> [Index -> Limb]]
  BY DEF IndInv, TypeOK, CallOK, Arrays
<1>2. 0 \in Limb  BY BaseAssumption DEF Limb
<1>3. before[right] \in [Index -> Limb]  BY <1>1
<1>4. Cut(before[right]) \in [Index -> Limb]  BY <1>2, <1>3 DEF Cut
<1>5. ASSUME NEW j \in Index, j >= n PROVE Cut(before[right])[j] = 0
  <2>1. n \in Int  BY SizeAssumption DEF IndInv, TypeOK, CallOK
  <2>2. ~(j < n)  BY ONLY <2>1, <1>5, j \in Index, SizeAssumption DEF Index
  <2>. QED  BY <2>2 DEF Cut
<1>. QED  BY <1>1, <1>4, <1>5 DEF Cut

(* Nothing was read and nothing written.                                   *)
LEMMA InitAccount == Init => Account
<1>1. SUFFICES ASSUME Init PROVE Account  OBVIOUS
<1>2. i = 0 /\ ext = 0 /\ w = 1 /\ vl = 0 /\ vr = 0 /\ vx = 0  BY <1>1 DEF Init
<1>3. Low = 0 /\ i <= Size  BY ONLY <1>2, SizeAssumption DEF Low
<1>4. IndInv  BY <1>1, InitInd
<1>5. /\ Value(before[left])[0] = 0 /\ Value(heap["X"])[0] = 0
      /\ Value(Cut(before[right]))[0] = 0
  BY <1>4, ArraysTyped, ValueRec
<1>6. Weight[0] = 1 /\ Weight[Size] \in Nat
  <2>1. Size \in 0 .. Size  BY SizeAssumption
  <2>. QED  BY <2>1, WeightRec
<1>7. 0 + 0 * Weight[Size] = 0  BY ONLY <1>6
<1>. QED  BY ONLY <1>2, <1>3, <1>5, <1>6, <1>7 DEF Account

(* A round adds the limbs it read and the limb it wrote to the account.    *)
LEMMA WriteAccount ==
  ASSUME IndInv, IndInv', Account, i \in Index,
         NEW r, Write(r, before[left][i], Cut(before[right])[i])
  PROVE  Account'
<1> DEFINE A == before[left]
           C == Cut(before[right])
           X == heap["X"]
           Y == heap'["X"]
           d == r.d
<1>1. /\ op' = op /\ left' = left /\ right' = right /\ n' = n /\ b' = b /\ before' = before
      /\ ext' = ext /\ i' = i + 1 /\ w' = w * Base
      /\ vl' = vl + A[i] * w /\ vr' = vr + C[i] * w /\ vx' = vx + d * w
  BY DEF Write, call
<1>2. heap' = [heap EXCEPT !["X"] = [@ EXCEPT ![i] = d]]  BY DEF Write
<1>3. A \in [Index -> Limb] /\ X \in [Index -> Limb] /\ C \in [Index -> Limb]
  BY ArraysTyped
<1>4. Y \in [Index -> Limb]
  BY DEF IndInv, TypeOK, Arrays
<1>5. Y[i] = d /\ \A j \in Index : j < i => Y[j] = X[j]
  <2>1. heap \in [Arrays -> [Index -> Limb]] /\ "X" \in Arrays
    BY DEF IndInv, TypeOK, Arrays
  <2>2. Y = [X EXCEPT ![i] = d]  BY <1>2, <2>1
  <2>3. \A j \in Index : j < i => j # i
    BY ONLY i \in Index, SizeAssumption DEF Index
  <2>. QED  BY <2>2, <2>3, <1>3
<1>6. Cut(before[right])' = C  BY <1>1 DEF Cut
<1>7. /\ i \in 0 .. Size /\ i + 1 \in 0 .. Size /\ i <= Size /\ i + 1 <= Size
  BY ONLY i \in Index, SizeAssumption DEF Index
<1>8. Low = i /\ Low' = i + 1  BY <1>1, <1>7 DEF Low
<1>9. w = Weight[i] /\ ext = 0 /\ vl = Value(A)[i] /\ vr = Value(C)[i]
      /\ vx = Value(X)[i] + 0 * Weight[Size]
  BY <1>7, <1>8 DEF Account
<1> HIDE DEF A, C, X, Y, d
<1>10. /\ Weight[i + 1] = Weight[i] * Base
       /\ Value(A)[i + 1] = Value(A)[i] + A[i] * Weight[i]
       /\ Value(C)[i + 1] = Value(C)[i] + C[i] * Weight[i]
       /\ Value(Y)[i + 1] = Value(Y)[i] + Y[i] * Weight[i]
  BY <1>3, <1>4, ValueRec, WeightRec
<1>11. Value(Y)[i] = Value(X)[i]  BY <1>3, <1>4, <1>5, <1>7, AgreeBelow
<1>12. Value(X)[i] \in Nat /\ Value(Y)[i + 1] \in Nat /\ Weight[Size] \in Nat
  <2>1. Size \in 0 .. Size  BY SizeAssumption
  <2>. QED  BY <1>3, <1>4, <1>7, <2>1, ValueRec, WeightRec
<1>13. vx = Value(X)[i] /\ Value(Y)[i + 1] + 0 * Weight[Size] = Value(Y)[i + 1]
  BY ONLY <1>9, <1>12
<1>14. /\ w' = Weight[i + 1] /\ ext' = 0 /\ vl' = Value(A)[i + 1] /\ vr' = Value(C)[i + 1]
       /\ vx' = Value(Y)[i + 1] + 0 * Weight[Size]
  BY ONLY <1>1, <1>5, <1>9, <1>10, <1>11, <1>13
<1>15. before'[left'] = A /\ heap'["X"] = Y  BY <1>1 DEF A, Y
<1>. QED  BY ONLY <1>1, <1>6, <1>8, <1>14, <1>15 DEF Account

(* The account after a round of the main, the carry or the borrow loop.    *)
LEMMA RoundAccount ==
  ASSUME IndInv, IndInv', Account, OneLimb \/ Carry \/ Borrow
  PROVE  Account'
<1>x. n \in 0 .. Size /\ i \in 0 .. Size + 1 /\ (pc # "limbs" => i >= n)
  BY DEF IndInv, TypeOK, CallOK, IndexOK
<1>1. CASE OneLimb
  <2>1. i < n  BY <1>1 DEF OneLimb
  <2>2. i \in Index  BY ONLY <1>x, <2>1, SizeAssumption DEF Index
  <2>3. Cut(before[right])[i] = before[right][i]  BY <2>1, <2>2, ArraysTyped
  <2>4. PICK r : Write(r, before[left][i], Cut(before[right])[i])  BY <1>1, <2>3 DEF OneLimb
  <2>. QED  BY <2>2, <2>4, WriteAccount
<1>2. CASE Carry \/ Borrow
  <2>1. i < Size /\ pc = "carry"  BY <1>2 DEF Carry, Borrow
  <2>2. i \in Index /\ i >= n  BY ONLY <1>x, <2>1, SizeAssumption DEF Index
  <2>3. Cut(before[right])[i] = 0  BY <2>2, ArraysTyped
  <2>4. PICK r : Write(r, before[left][i], Cut(before[right])[i])
    BY <1>2, <2>3 DEF Carry, Borrow
  <2>. QED  BY <2>2, <2>4, WriteAccount
<1>. QED  BY <1>1, <1>2

(* The appended limb has the weight behind the array.                      *)
LEMMA GrowAccount ==
  ASSUME IndInv, Account, Grow
  PROVE  Account'
<1>1. /\ c # 0 /\ i = Size /\ ext' = c /\ i' = i + 1 /\ vx' = vx + c * w
      /\ left' = left /\ right' = right /\ n' = n /\ before' = before
      /\ heap' = heap /\ vl' = vl /\ vr' = vr
  BY DEF Grow, call
<1>2. Low = Size /\ Low' = Size /\ i <= Size /\ ~(i' <= Size)
  BY ONLY <1>1, SizeAssumption DEF Low
<1>3. /\ w = Weight[Size] /\ ext = 0 /\ vl = Value(before[left])[Size]
      /\ vr = Value(Cut(before[right]))[Size] /\ vx = Value(heap["X"])[Size] + 0 * Weight[Size]
  BY <1>1, <1>2 DEF Account
<1>4. Weight[Size] \in Nat /\ Value(heap["X"])[Size] \in Nat
  <2>1. Size \in 0 .. Size  BY SizeAssumption
  <2>. QED  BY <2>1, ArraysTyped, ValueRec, WeightRec
<1>5. vx = Value(heap["X"])[Size]  BY ONLY <1>3, <1>4
<1>6. Cut(before[right])' = Cut(before[right])  BY <1>1 DEF Cut
<1>. QED  BY ONLY <1>1, <1>2, <1>3, <1>5, <1>6 DEF Account

(* The other steps leave what the account is about alone.                  *)
LEMMA LeaveAccount ==
  ASSUME Account,
         EndOfLimbs \/ GrowFails \/ Negative \/ Overrun \/ Return \/ Ended \/ UNCHANGED vars
  PROVE  Account'
<1>1. /\ left' = left /\ right' = right /\ n' = n /\ before' = before /\ heap' = heap
      /\ i' = i /\ ext' = ext /\ w' = w /\ vl' = vl /\ vr' = vr /\ vx' = vx
  BY DEF EndOfLimbs, GrowFails, Negative, Overrun, Return, Ended, Leave, call, vars
<1>2. Low' = Low /\ Cut(before[right])' = Cut(before[right])  BY <1>1 DEF Low, Cut
<1>. QED  BY <1>1, <1>2 DEF Account
-----------------------------------------------------------------------------
(* The integers the proof adds up are those in the arrays, at every step.  *)
THEOREM AccountKept == Spec => []Account
<1>1. Init => IndInv /\ Account  BY InitInd, InitAccount
<1>2. IndInv /\ IndInv' /\ Account /\ [Next]_vars => Account'
  <2>1. SUFFICES ASSUME IndInv, IndInv', Account, [Next]_vars PROVE Account'  OBVIOUS
  <2>2. CASE OneLimb \/ Carry \/ Borrow  BY <2>1, <2>2, RoundAccount
  <2>3. CASE Grow  BY <2>1, <2>3, GrowAccount
  <2>4. CASE EndOfLimbs \/ GrowFails \/ Negative \/ Overrun \/ Return \/ Ended \/ UNCHANGED vars
    BY <2>1, <2>4, LeaveAccount
  <2>. QED  BY <2>1, <2>2, <2>3, <2>4 DEF Next
<1>. QED  BY <1>1, <1>2, Inductive, PTL DEF Spec

(* Behind the last limb that was written, X has the limbs of the left      *)
(* operand and the right one has none.                                     *)
LEMMA WholeArrays ==
  ASSUME IndInv, Account, pc # "limbs"
  PROVE  /\ Value(heap["X"])[Size] + ext * Weight[Size] + vl = Value(before[left])[Size] + vx
         /\ Value(Cut(before[right]))[Size] = vr
         /\ i >= Size => vl = Value(before[left])[Size]
<1> DEFINE A == before[left]
           C == Cut(before[right])
           X == heap["X"]
           xs == Value(X)[Size]
           ls == Value(A)[Size]
           e == ext * Weight[Size]
<1>0. Size \in Nat /\ Size \in 0 .. Size  BY SizeAssumption
<1>1. /\ A \in [Index -> Limb] /\ X \in [Index -> Limb] /\ C \in [Index -> Limb]
      /\ \A j \in Index : j >= n => C[j] = 0
  BY ArraysTyped
<1>2. n \in 0 .. Size /\ i \in 0 .. Size + 1 /\ i >= n /\ ext \in Limb
  BY DEF IndInv, TypeOK, CallOK, IndexOK, CarryOK
<1>3. \A j \in Index : j >= i /\ j >= n => X[j] = A[j]
  BY DEF IndInv, ReadBeforeWrite
<1>4. vl = Value(A)[Low] /\ vr = Value(C)[Low] /\ vx = Value(X)[Low] + e
  BY DEF Account
<1>5. Low \in 0 .. Size /\ Low >= n /\ (i >= Size => Low = Size)
      /\ \A j \in Index : j >= Low => j >= i /\ j >= n
  BY ONLY <1>0, <1>2 DEF Low, Index
<1> HIDE DEF A, C, X
<1>6. xs + Value(A)[Low] = ls + Value(X)[Low]
  <2>1. \A j \in Index : j >= Low => X[j] = A[j]  BY <1>3, <1>5
  <2>2. PICK m \in 0 .. Size : m = Low  BY <1>5
  <2>3. Value(X)[Size] + Value(A)[m] = Value(A)[Size] + Value(X)[m]
    BY <1>1, <2>1, <2>2, AgreeAbove
  <2>. QED  BY <2>2, <2>3
<1>7. Value(C)[Size] = Value(C)[Low]
  <2>1. \A j \in Index : j >= Low => C[j] = 0  BY <1>1, <1>5
  <2>2. PICK m \in 0 .. Size : m = Low  BY <1>5
  <2>3. Value(C)[Size] = Value(C)[m]  BY <1>1, <2>1, <2>2, ZeroAbove
  <2>. QED  BY <2>2, <2>3
<1>8. /\ xs \in Nat /\ ls \in Nat /\ Value(A)[Low] \in Nat /\ Value(X)[Low] \in Nat
  BY <1>0, <1>1, <1>5, ValueRec
<1>9. e \in Nat
  <2>1. ext \in Nat  BY <1>2, BaseAssumption DEF Limb
  <2>2. Weight[Size] \in Nat  BY <1>0, WeightRec
  <2>. QED  BY ONLY <2>1, <2>2
<1> HIDE DEF xs, ls, e
<1>10. xs + e + vl = ls + vx
  <2> DEFINE u == Value(A)[Low]
             v == Value(X)[Low]
  <2>1. u \in Nat /\ v \in Nat /\ vl = u /\ vx = v + e /\ xs + u = ls + v
    BY ONLY <1>4, <1>6, <1>8
  <2> HIDE DEF u, v
  <2>. QED  BY ONLY <2>1, <1>8, <1>9
<1>11. i >= Size => vl = ls  BY <1>4, <1>5 DEF ls
<1>. QED  BY <1>4, <1>7, <1>10, <1>11 DEF xs, ls, e, A, C, X

(* The account carries the result over to whole arrays.                    *)
LEMMA ArrayLemma == IndInv /\ Account => ArrayExact
<1>1. SUFFICES ASSUME IndInv, Account PROVE ArrayExact  OBVIOUS
<1> DEFINE x == Value(heap["X"])[Size] + ext * Weight[Size]
           l == Value(before[left])[Size]
           r == Value(Cut(before[right]))[Size]
<1>2. op \in {"add", "sub", "mul"} /\ b \in Limb /\ b \in Nat
  <2>1. op \in {"add", "sub", "mul"} /\ b \in Limb  BY <1>1 DEF IndInv, TypeOK, CallOK
  <2>. QED  BY <2>1, BaseAssumption DEF Limb
<1>3. w \in Nat /\ vl \in Nat /\ vr \in Nat /\ vx \in Nat  BY <1>1 DEF IndInv, TypeOK, ValuesOK
<1>4. x \in Nat /\ l \in Nat
  <2>1. Size \in 0 .. Size  BY SizeAssumption
  <2>2. Value(heap["X"])[Size] \in Nat /\ l \in Nat /\ Weight[Size] \in Nat
    BY <1>1, <2>1, ArraysTyped, ValueRec, WeightRec
  <2>3. ext \in Nat
    <3>1. ext \in Limb  BY <1>1 DEF IndInv, TypeOK, CarryOK
    <3>. QED  BY <3>1, BaseAssumption DEF Limb
  <2>4. ext * Weight[Size] \in Nat  BY ONLY <2>2, <2>3
  <2>. QED  BY ONLY <2>2, <2>4
<1>5. pc # "limbs" => x + vl = l + vx /\ r = vr /\ (i >= Size => vl = l)
  BY <1>1, WholeArrays
<1>6. DoneExact /\ NegativeOnlyIfSmaller /\ OverrunOnlyIfTooLarge
  BY <1>1, DoneLemma, NegativeLemma, OverrunLemma
<1> HIDE DEF x, l, r
<1>7. ASSUME pc = "done" PROVE IF op = "sub" THEN x = l - r ELSE x = l + b * r
  <2>1. x + vl = l + vx /\ r = vr  BY <1>5, <1>7
  <2>2. CASE op = "sub"
    <3>1. vx = vl - vr  BY <1>6, <1>7, <2>2 DEF DoneExact
    <3>2. x = l - r  BY ONLY <1>3, <1>4, <2>1, <3>1
    <3>. QED  BY <2>2, <3>2
  <2>3. CASE op # "sub"
    <3> DEFINE p == b * vr
    <3>1. vx = vl + p  BY <1>6, <1>7, <2>3 DEF DoneExact
    <3>2. p \in Nat  BY ONLY <1>2, <1>3
    <3> HIDE DEF p
    <3>3. x = l + p  BY ONLY <1>3, <1>4, <2>1, <3>1, <3>2
    <3>. QED  BY <2>1, <2>3, <3>3 DEF p
  <2>. QED  BY <2>2, <2>3
<1>8. ASSUME pc \in {"negative", "over"} PROVE vl = l /\ vr = r /\ w = Weight[Size]
  <2>1. i = Size  BY <1>1, <1>8 DEF IndInv, TypeOK, IndexOK
  <2>2. i >= Size /\ i <= Size  BY <2>1, SizeAssumption
  <2>. QED  BY <1>1, <1>5, <1>8, <2>1, <2>2 DEF Account
<1>9. pc = "negative" => l < r
  BY <1>6, <1>8 DEF NegativeOnlyIfSmaller
<1>10. pc = "over" => l + b * r >= Weight[Size]
  BY <1>6, <1>8 DEF OverrunOnlyIfTooLarge
<1>. QED  BY <1>7, <1>9, <1>10 DEF ArrayExact, x, l, r

(* For every limb width, every number of limbs and every overlap of the    *)
(* arrays, the integer that add_abs, sub_abs or mul_hlp leaves in X is the *)
(* one the integers in its operands make, and they fail or leave X only if *)
(* those integers demand it.                                               *)
THEOREM ArraysExact == Spec => []ArrayExact
<1>. QED  BY Inductive, AccountKept, ArrayLemma, PTL
=============================================================================

------------------------------ MODULE MpiLoops ------------------------------
(***************************************************************************)
(* The loops over limbs of bignum.c, one limb per step: add_abs, sub_hlp   *)
(* with the borrow loop of sub_abs, and mul_hlp.  The destination is the   *)
(* array "X", and the operands may be any arrays, "X" too: the code relies *)
(* on reading a limb before it overwrites it.  Arrays have Size limbs.     *)
(* The code has no integer for a whole array; vl, vr and vx are added up   *)
(* beside it, from the limbs the operands had when the call was made and   *)
(* from the limbs it wrote.                                                *)
(***************************************************************************)
EXTENDS MpiLimb

CONSTANT Size

ASSUME SizeAssumption == Size \in Nat

VARIABLES op,       \* "add": X + right, "sub": left - right, "mul": X + b * right
          left, right, n, b,
          heap,     \* the arrays
          before,   \* what they were when the call was made
          i, c,     \* index and carry or borrow
          ext,      \* the limb add_abs appends to X, 0 if none
          w,        \* Base^i
          vl, vr,   \* the operands' limbs below i, as integers
          vx,       \* the limbs below i that were written to X, as an integer
          pc        \* "limbs", "carry", "done", "no memory", "negative" or "over"

call == <<op, left, right, n, b, before>>
vars == <<op, left, right, n, b, heap, before, i, c, ext, w, vl, vr, vx, pc>>

Arrays == {"X", "A", "B"}
Index == 0 .. Size - 1
IsUnused(x) == x \notin {"X", left, right}

(* add_abs copied its operand to X; sub_abs set the limbs of X from n on   *)
(* to those of the left operand.                                           *)
Init ==
  /\ op \in {"add", "sub", "mul"} /\ left \in {"X", "A"} /\ right \in Arrays
  /\ op # "sub" => left = "X"
  /\ n \in 0 .. Size
  /\ b \in Limb /\ (op # "mul" => b = 1)
  /\ heap \in [Arrays -> [Index -> Limb]]
  /\ \A x \in Arrays : IsUnused(x) => heap[x] = [j \in Index |-> 0]
  /\ \A j \in n .. Size - 1 : heap["X"][j] = heap[left][j]
  /\ before = heap
  /\ i = 0 /\ c = 0 /\ ext = 0 /\ w = 1 /\ vl = 0 /\ vr = 0 /\ vx = 0
  /\ pc = "limbs"

(* X[i] := r.d with the carry r.c; the operands' limbs there were l and s. *)
Write(r, l, s) ==
  /\ heap' = [heap EXCEPT !["X"] = [@ EXCEPT ![i] = r.d]]
  /\ c' = r.c /\ i' = i + 1 /\ w' = w * Base
  /\ vl' = vl + l * w /\ vr' = vr + s * w /\ vx' = vx + r.d * w
  /\ UNCHANGED <<call, ext>>

MutLimbStep(l, s) ==
  IF op = "add" THEN AddStep(l, s, c) ELSE IF op = "sub" THEN SubStep(l, s, c)
  ELSE [MulAddStep(s, l, b, c) EXCEPT !.c = @ % 2]  \* the carry as one bit

LimbStep(l, s) ==
  IF op = "add" THEN AddStep(l, s, c) ELSE IF op = "sub" THEN SubStep(l, s, c)
  ELSE MulAddStep(s, l, b, c)

(* One round of the loop over the right operand.                           *)
OneLimb ==
  /\ pc = "limbs" /\ i < n
  /\ Write(LimbStep(heap[left][i], heap[right][i]), before[left][i], before[right][i])
  /\ UNCHANGED pc

EndOfLimbs ==
  /\ pc = "limbs" /\ i = n
  /\ pc' = "carry"
  /\ UNCHANGED <<call, heap, i, c, ext, w, vl, vr, vx>>

(* A round of add_abs's and mul_hlp's last loop.                           *)
Carry ==
  /\ pc = "carry" /\ op # "sub" /\ c # 0 /\ i < Size
  /\ Write(CarryStep(heap["X"][i], c), before[left][i], 0)
  /\ UNCHANGED pc

(* sub_abs: limbs that are zero become Base - 1, the first other one is    *)
(* decremented.                                                            *)
Borrow ==
  /\ pc = "carry" /\ op = "sub" /\ c # 0 /\ i < Size
  /\ Write([d |-> (heap["X"][i] - 1) % Base, c |-> Truth(heap["X"][i] = 0)], before[left][i], 0)
  /\ UNCHANGED pc

(* The carry leaves X: add_abs grows it by a limb, or there is no memory;  *)
(* for sub_abs the result is negative; mul_hlp writes behind the array.    *)
Grow ==
  /\ pc = "carry" /\ op = "add" /\ c # 0 /\ i = Size
  /\ ext' = c /\ c' = 0 /\ i' = i + 1 /\ w' = w * Base /\ vx' = vx + c * w
  /\ UNCHANGED <<call, heap, vl, vr, pc>>

Leave(p) ==
  /\ pc' = p
  /\ UNCHANGED <<call, heap, i, c, ext, w, vl, vr, vx>>

GrowFails == pc = "carry" /\ op = "add" /\ c # 0 /\ i = Size /\ Leave("no memory")
Negative == pc = "carry" /\ op = "sub" /\ c # 0 /\ i = Size /\ Leave("negative")
Overrun == pc = "carry" /\ op = "mul" /\ c # 0 /\ i = Size /\ Leave("over")
Return == pc = "carry" /\ c = 0 /\ Leave("done")
Ended == pc \in {"done", "no memory", "negative", "over"} /\ UNCHANGED vars

Next == \/ OneLimb \/ EndOfLimbs \/ Carry \/ Borrow \/ Grow
        \/ GrowFails \/ Negative \/ Overrun \/ Return \/ Ended

Spec == Init /\ [][Next]_vars
-----------------------------------------------------------------------------
CallOK ==
  /\ op \in {"add", "sub", "mul"} /\ left \in Arrays /\ right \in Arrays
  /\ op # "sub" => left = "X"
  /\ n \in 0 .. Size /\ b \in Limb /\ (op # "mul" => b = 1)
  /\ before \in [Arrays -> [Index -> Limb]]
IndexOK ==
  /\ pc \in {"limbs", "carry", "done", "no memory", "negative", "over"}
  /\ i \in 0 .. Size + 1
  /\ pc = "limbs" => i <= n
  /\ pc # "limbs" => i >= n
  /\ pc \in {"no memory", "negative", "over"} => i = Size
CarryOK ==
  /\ c \in Limb /\ ext \in Limb
  /\ op # "mul" => c \in {0, 1}
  /\ c # 0 => i <= Size
  /\ pc = "done" => c = 0
  /\ pc \in {"negative", "over"} => c # 0
  /\ pc = "negative" => op = "sub"
  /\ pc = "over" => op = "mul"
ValuesOK == w \in Nat \ {0} /\ vl \in Nat /\ vr \in Nat /\ vx \in Nat

(* Everything has its type, and the program counter tells where the index  *)
(* and the carry are.                                                      *)
TypeOK == CallOK /\ heap \in [Arrays -> [Index -> Limb]] /\ IndexOK /\ CarryOK /\ ValuesOK

(* A limb is read before it is overwritten, however the arrays overlap:    *)
(* from i on everything is as it was, except that sub_abs has already put  *)
(* the left operand's high limbs into X.                                   *)
ReadBeforeWrite ==
  \A j \in Index : j >= i =>
    /\ \A x \in Arrays : heap[x][j] = before[x][j]
    /\ j >= n => heap["X"][j] = before[left][j]

(* What was written, with the carry or borrow that is left, is exactly the *)
(* sum, difference or product of the limbs read so far.                    *)
Sum == op # "sub" => vx + c * w = vl + b * vr
Difference == op = "sub" => vx + vr = vl + c * w

(* The limbs below i and no more.                                          *)
Bounded == vx < w

IndInv == TypeOK /\ ReadBeforeWrite /\ Sum /\ Difference /\ Bounded

(* A call that ends normally left the exact result in X: no carry or       *)
(* borrow is lost, for any overlap of the arrays.                          *)
DoneExact ==
  pc = "done" => IF op = "sub" THEN vx = vl - vr ELSE vx = vl + b * vr

(* sub_abs fails only if the left operand is the smaller one.              *)
NegativeOnlyIfSmaller == pc = "negative" => vl < vr

(* mul_hlp, which never looks where X ends, writes behind it only if the   *)
(* result does not fit into X.                                             *)
OverrunOnlyIfTooLarge == pc = "over" => vl + b * vr >= w

(* However a loop of add_abs, sub_abs or mul_hlp ends and whatever arrays  *)
(* overlap, that is right: the exact result, or one that is negative or    *)
(* does not fit.                                                           *)
ResultExact == DoneExact /\ NegativeOnlyIfSmaller /\ OverrunOnlyIfTooLarge
-----------------------------------------------------------------------------
(* Whole arrays as integers: Weight[m] is Base^m, and Value(a)[m] the      *)
(* integer in the m lowest limbs of a.                                     *)
Weight[m \in 0 .. Size] == IF m = 0 THEN 1 ELSE Weight[m - 1] * Base
Value(a) ==
  LET f[m \in 0 .. Size] == IF m = 0 THEN 0 ELSE f[m - 1] + a[m - 1] * Weight[m - 1]
  IN  f

(* The right operand counts up to its n limbs.                             *)
Cut(a) == [j \in Index |-> IF j < n THEN a[j] ELSE 0]

(* vl, vr and vx are the integers in the limbs below i of the arrays; the  *)
(* limb that add_abs appends is the only one behind Size.                  *)
Low == IF i <= Size THEN i ELSE Size
Account ==
  /\ i <= Size => w = Weight[i] /\ ext = 0
  /\ vl = Value(before[left])[Low]
  /\ vr = Value(Cut(before[right]))[Low]
  /\ vx = Value(heap["X"])[Low] + ext * Weight[Size]

(* The integer in X after add_abs, sub_abs or mul_hlp is exactly the one   *)
(* the whole operands stand for, also where the loop stopped early and     *)
(* left the limbs above alone, and where an operand was X itself; sub_abs  *)
(* fails only if the whole left operand is smaller, and mul_hlp leaves its *)
(* array only if the whole result does not fit into it.                    *)
ArrayExact ==
  LET x == Value(heap["X"])[Size] + ext * Weight[Size]
      l == Value(before[left])[Size]
      r == Value(Cut(before[right]))[Size]
  IN  /\ pc = "done" => IF op = "sub" THEN x = l - r ELSE x = l + b * r
      /\ pc = "negative" => l < r
      /\ pc = "over" => l + b * r >= Weight[Size]
=============================================================================

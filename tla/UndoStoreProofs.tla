--------------------------- MODULE UndoStoreProofs --------------------------
(***************************************************************************)
(* The undo history of one document, for any limits and sizes of edits:    *)
(* what every operation of the store does to the stacks, the counters and  *)
(* the timeline of texts they stand for.                                   *)
(***************************************************************************)
EXTENDS UndoStore, SequenceTheorems, WellFoundedInduction, TLAPS

(* Time limits; SMT has further tries. *)
USE SMTT(20), ZenonT(20), SMTT(30), SMTT(40)

(* A property that fails for a length fails for a least one.               *)
LEMMA LeastLength ==
  ASSUME NEW T, T \subseteq Nat, T # {}
  PROVE  \E m \in T : \A k \in T : m <= k
<1>1. PICK m \in T : \A k \in T : ~(<<k, m>> \in OpToRel(<, Nat))
  BY NatLessThanWellFounded, WFMin, ZenonT(20)
<1>2. \A k \in T : ~(k < m)
  BY <1>1, ZenonT(20) DEF OpToRel
<1>3. \A k \in T : k \in Nat /\ m \in Nat  OBVIOUS
<1>. QED  BY <1>2, <1>3

-----------------------------------------------------------------------------
(* Sums.                                                                   *)

SumStep(nums, g, k) == IF k = 0 THEN 0 ELSE g[k - 1] + nums[k]

(* The recursive function of Sums exists.                                  *)
LEMMA SumsExist ==
  ASSUME NEW nums, NEW n \in Nat
  PROVE  \E g : g = [k \in 0..n |-> SumStep(nums, g, k)]
<1> DEFINE P(k) == \E g : g = [i \in 0..k |-> SumStep(nums, g, i)]
<1> DEFINE T == {k \in Nat : ~P(k)}
<1> SUFFICES ASSUME T # {} PROVE FALSE
  OBVIOUS
<1>1. PICK m \in T : \A k \in T : m <= k
  <2>1. T \subseteq Nat  OBVIOUS
  <2> HIDE DEF T
  <2>. QED  BY <2>1, LeastLength, ZenonT(20)
<1>2. m # 0
  <2> DEFINE g == [i \in 0..0 |-> 0]
  <2>1. g = [i \in 0..0 |-> SumStep(nums, g, i)]  BY DEF SumStep
  <2>. QED  BY <1>1, <2>1, ZenonT(20)
<1>3. m \in Nat /\ m - 1 \in Nat /\ P(m - 1)  BY <1>1, <1>2
<1>4. PICK g : g = [i \in 0..(m - 1) |-> SumStep(nums, g, i)]  BY <1>3
<1> DEFINE h == [i \in 0..m |-> IF i = m THEN SumStep(nums, g, m) ELSE g[i]]
<1>5. \A i \in 0..m : h[i] = SumStep(nums, h, i)
  <2> SUFFICES ASSUME NEW i \in 0..m PROVE h[i] = SumStep(nums, h, i)
    OBVIOUS
  <2>1. \A j \in 0..(m - 1) : g[j] = SumStep(nums, g, j)  BY <1>4
  <2>2. CASE i = m
    <3>1. h[i] = SumStep(nums, g, m) /\ h[m - 1] = g[m - 1]  BY <1>3, <2>2
    <3> HIDE DEF h
    <3>. QED  BY <1>2, <2>2, <3>1 DEF SumStep
  <2>3. CASE i # m /\ i # 0
    <3>1. h[i - 1] = g[i - 1] /\ h[i] = g[i] /\ i \in 0..(m - 1)  BY <1>3, <2>3
    <3> HIDE DEF h
    <3>. QED  BY <2>1, <2>3, <3>1 DEF SumStep
  <2>4. CASE i = 0
    <3>1. h[0] = g[0] /\ 0 \in 0..(m - 1)  BY <1>2, <1>3
    <3> HIDE DEF h
    <3>. QED  BY <2>1, <2>4, <3>1 DEF SumStep
  <2>. QED  BY <2>2, <2>3, <2>4
<1>6. h = [i \in 0..m |-> SumStep(nums, h, i)]
  <2>1. h = [i \in 0..m |-> h[i]]  OBVIOUS
  <2> HIDE DEF h
  <2>. QED  BY <1>5, <2>1
<1>. QED  BY <1>1, <1>6, ZenonT(20)

(* What the sums of n numbers are.                                         *)
SumsOk(sum, nums, n) ==
  /\ sum[0] = 0
  /\ \A k \in 1..n : sum[k] = sum[k - 1] + nums[k]
  /\ \A k \in 0..n : sum[k] \in Nat /\ \A i \in 0..k : sum[i] <= sum[k]

LEMMA SumsAre ==
  ASSUME NEW nums \in Seq(Nat)
  PROVE  SumsOk(Sums(nums), nums, Len(nums))
<1> DEFINE n == Len(nums)
<1>1. n \in Nat /\ \A i \in 1..n : nums[i] \in Nat  BY LenProperties, ElementOfSeq
<1>2. PICK g : g = [i \in 0..n |-> SumStep(nums, g, i)] /\ Sums(nums) = g
  <2>1. \E g : g = [i \in 0..n |-> SumStep(nums, g, i)]  BY <1>1, SumsExist, ZenonT(20)
  <2>. QED  BY <2>1, ZenonT(20) DEF Sums, SumStep
<1>3. \A i \in 0..n : g[i] = SumStep(nums, g, i)
  <2>1. g = [i \in 0..n |-> SumStep(nums, g, i)]  BY <1>2
  <2>. QED  BY <2>1, ZenonT(20)
<1>4. g[0] = 0 /\ \A k \in 1..n : g[k] = g[k - 1] + nums[k]
  BY <1>1, <1>3 DEF SumStep
<1> DEFINE Up(k) == g[k] \in Nat /\ \A i \in 0..k : g[i] \in Nat /\ g[i] <= g[k]
<1> DEFINE T == {k \in Nat : k <= n /\ ~Up(k)}
<1>5. T = {}
  <2> SUFFICES ASSUME T # {} PROVE FALSE
    OBVIOUS
  <2>1. PICK m \in T : \A k \in T : m <= k
    <3>1. T \subseteq Nat  OBVIOUS
    <3> HIDE DEF T
    <3>. QED  BY <3>1, LeastLength, ZenonT(20)
  <2>2. m \in Nat /\ m <= n /\ ~Up(m)  BY <2>1
  <2>3. m # 0
    <3>1. ASSUME m = 0 PROVE Up(m)  BY <1>4, <3>1
    <3>. QED  BY <2>2, <3>1
  <2>4. m - 1 \in Nat /\ m - 1 <= n /\ ~(m <= m - 1) /\ m \in 1..n  BY <1>1, <2>2, <2>3
  <2>5. Up(m - 1)
    <3>1. m - 1 \notin T
      <4> HIDE DEF T
      <4>. QED  BY <2>1, <2>4, ZenonT(20)
    <3> HIDE DEF Up
    <3>. QED  BY <2>4, <3>1
  <2>6. g[m] = g[m - 1] + nums[m] /\ nums[m] \in Nat  BY <1>1, <1>4, <2>4, ZenonT(20)
  <2>7. \A i \in 0..m : i = m \/ i \in 0..(m - 1)  BY <2>2, <2>3
  <2>8. Up(m)  BY <2>5, <2>6, <2>7
  <2>. QED  BY <2>2, <2>8
<1>6. \A k \in 0..n : Up(k)  BY <1>1, <1>5
<1>. QED  BY <1>2, <1>4, <1>6, ZenonT(20) DEF SumsOk

(* Numbers that agree with n others from the one after the k-th on have    *)
(* the differences of their sums for sums.                                 *)
LEMMA SumsAgree ==
  ASSUME NEW nums \in Seq(Nat), NEW part \in Seq(Nat), NEW k \in Nat, NEW n \in Nat,
         k + n <= Len(nums), n <= Len(part), \A i \in 1..n : part[i] = nums[k + i]
  PROVE  \A i \in 0..n : Sums(part)[i] = Sums(nums)[k + i] - Sums(nums)[k]
<1> DEFINE f == Sums(nums)
<1> DEFINE g == Sums(part)
<1>1. SumsOk(f, nums, Len(nums)) /\ SumsOk(g, part, Len(part))  BY SumsAre
<1>2. Len(nums) \in Nat /\ Len(part) \in Nat  BY LenProperties
<1> HIDE DEF f, g
<1> DEFINE Same(i) == g[i] = f[k + i] - f[k]
<1> DEFINE T == {i \in Nat : i <= n /\ ~Same(i)}
<1>3. T = {}
  <2> SUFFICES ASSUME T # {} PROVE FALSE
    OBVIOUS
  <2>1. PICK m \in T : \A i \in T : m <= i
    <3>1. T \subseteq Nat  OBVIOUS
    <3> HIDE DEF T
    <3>. QED  BY <3>1, LeastLength, ZenonT(20)
  <2>2. m \in Nat /\ m <= n /\ ~Same(m)  BY <2>1
  <2>3. f[k] \in Nat /\ f[k + m] \in Nat /\ g[0] = 0  BY <1>1, <1>2, <2>2 DEF SumsOk
  <2>4. m # 0
    <3>1. ASSUME m = 0 PROVE FALSE
      <4>1. k + m = k /\ g[m] = 0  BY <2>3, <3>1
      <4>2. f[k] - f[k] = 0  BY <2>3
      <4>3. g[m] = f[k + m] - f[k]  BY <4>1, <4>2, ZenonT(20)
      <4>. QED  BY <2>2, <4>3, ZenonT(20)
    <3>. QED  BY <3>1
  <2>5. m - 1 \in Nat /\ m - 1 <= n /\ m - 1 \notin T  BY <2>1, <2>2, <2>4
  <2>6. Same(m - 1)  BY <2>5
  <2>7. g[m] = g[m - 1] + part[m]  BY <1>1, <1>2, <2>2, <2>4 DEF SumsOk
  <2>8. f[k + m] = f[k + m - 1] + nums[k + m] /\ f[k + m - 1] \in Nat
    <3>0. Len(nums) \in Nat /\ m \in Nat \ {0} /\ m <= n  BY <1>2, <2>2, <2>4
    <3>1. k + m \in 1..Len(nums) /\ k + m - 1 \in 0..Len(nums)  BY <3>0
    <3> DEFINE q == k + m
    <3>2. SumsOk(f, nums, Len(nums))  BY <1>1
    <3>3. f[q] = f[q - 1] + nums[q]  BY <3>1, <3>2 DEF SumsOk
    <3>4. f[q - 1] \in Nat  BY <3>1, <3>2 DEF SumsOk
    <3>. QED  BY <3>3, <3>4
  <2>9. part[m] = nums[k + m] /\ nums[k + m] \in Nat /\ k + (m - 1) = k + m - 1
    <3>1. \A i \in 1..Len(nums) : nums[i] \in Nat  BY ElementOfSeq
    <3>. QED  BY <1>2, <2>2, <2>4, <3>1
  <2>10. g[m] = f[k + m] - f[k]
    <3> DEFINE x == f[k + m]
    <3> DEFINE y == f[k + m - 1]
    <3> DEFINE z == f[k]
    <3> DEFINE w == nums[k + m]
    <3>1. x \in Nat /\ y \in Nat /\ z \in Nat /\ w \in Nat /\ x = y + w  BY <2>3, <2>8, <2>9
    <3>2. f[k + (m - 1)] = y  BY <2>9
    <3>3. g[m - 1] = y - z  BY <2>6, <3>2, ZenonT(20)
    <3>4. g[m] = g[m - 1] + w  BY <2>7, <2>9, ZenonT(20)
    <3> HIDE DEF x, y, z, w
    <3>5. g[m] = x - z  BY <3>1, <3>3, <3>4
    <3>. QED  BY <3>5 DEF x, z
  <2>. QED  BY <2>2, <2>10, ZenonT(20)
<1>4. \A i \in 0..n : Same(i)
  <2>1. \A i \in 0..n : i \in Nat /\ i <= n  OBVIOUS
  <2>. QED  BY <1>3, <2>1, ZenonT(20)
<1>. QED  BY <1>4, ZenonT(20) DEF f, g

-----------------------------------------------------------------------------
(* Stacks.                                                                 *)

Txs == [from : Nat, to : Nat, weight : Nat]
Steps == Seq(Txs) \ {<<>>}

Lens(stack) == [i \in DOMAIN stack |-> Len(stack[i])]
StepWeights(step) == [i \in DOMAIN step |-> step[i].weight]
StackWeights(stack) == [i \in DOMAIN stack |-> StepBytes(stack[i])]

(* The transactions and the bytes of the first i steps.                    *)
TxsTo(stack, i) == Sums(Lens(stack))[i]
BytesTo(stack, i) == Sums(StackWeights(stack))[i]

LEMMA StepBytesNat ==
  ASSUME NEW step \in Seq(Txs)
  PROVE  StepWeights(step) \in Seq(Nat) /\ StepBytes(step) \in Nat /\ Len(StepWeights(step)) = Len(step)
<1> DEFINE nums == StepWeights(step)
<1>1. Len(step) \in Nat /\ DOMAIN step = 1..Len(step) /\ \A i \in 1..Len(step) : step[i] \in Txs
  BY LenProperties, ElementOfSeq
<1>2. nums = [i \in 1..Len(step) |-> step[i].weight]  BY <1>1 DEF StepWeights
<1>3. \A i \in 1..Len(step) : step[i].weight \in Nat  BY <1>1 DEF Txs
<1>4. nums \in Seq(Nat) /\ Len(nums) = Len(step)
  <2>1. nums \in [1..Len(step) -> Nat]  BY <1>2, <1>3
  <2> HIDE DEF nums
  <2>. QED  BY <1>1, <2>1, IsASeq, LenProperties
<1>5. StepBytes(step) = Sums(nums)[Len(nums)]  BY DEF StepBytes, Total, StepWeights
<1> HIDE DEF nums
<1>6. SumsOk(Sums(nums), nums, Len(nums))  BY <1>4, SumsAre
<1>7. Sums(nums)[Len(nums)] \in Nat  BY <1>1, <1>4, <1>6 DEF SumsOk
<1>. QED  BY <1>4, <1>5, <1>7 DEF nums

(* A step one transaction longer.                                          *)
LEMMA StepBytesAppend ==
  ASSUME NEW step \in Seq(Txs), NEW tx \in Txs
  PROVE  StepBytes(Append(step, tx)) = StepBytes(step) + tx.weight
<1> DEFINE longer == Append(step, tx)
<1> DEFINE n == Len(step)
<1>1. /\ longer \in Seq(Txs) /\ Len(longer) = n + 1 /\ n \in Nat
      /\ \A i \in 1..n : longer[i] = step[i]
      /\ longer[n + 1] = tx
  BY AppendProperties, LenProperties
<1> HIDE DEF longer
<1> DEFINE a == StepWeights(step)
<1> DEFINE b == StepWeights(longer)
<1>2. a \in Seq(Nat) /\ Len(a) = n /\ b \in Seq(Nat) /\ Len(b) = n + 1  BY <1>1, StepBytesNat
<1>3. \A i \in 1..n : a[i] = b[0 + i]
  BY <1>1, LenProperties DEF StepWeights
<1>4. b[n + 1] = tx.weight  BY <1>1, LenProperties DEF StepWeights
<1>5. StepBytes(step) = Sums(a)[n] /\ StepBytes(longer) = Sums(b)[n + 1]
  BY <1>2 DEF StepBytes, Total, StepWeights
<1> HIDE DEF a, b
<1>6. Sums(a)[n] = Sums(b)[0 + n] - Sums(b)[0]
  <2>1. \A i \in 0..n : Sums(a)[i] = Sums(b)[0 + i] - Sums(b)[0]
    <3>1. 0 \in Nat /\ n \in Nat /\ 0 + n <= Len(b) /\ n <= Len(a)  BY <1>1, <1>2
    <3>. QED  BY <1>2, <1>3, <3>1, SumsAgree, ZenonT(20)
  <2>. QED  BY <1>1, <2>1
<1>7. Sums(b)[0] = 0 /\ Sums(b)[n + 1] = Sums(b)[n] + b[n + 1] /\ Sums(b)[n] \in Nat
  <2>1. SumsOk(Sums(b), b, n + 1)  BY <1>2, SumsAre
  <2>. QED  BY <1>1, <2>1 DEF SumsOk
<1>8. 0 + n = n  BY <1>1
<1>. QED  BY <1>4, <1>5, <1>6, <1>7, <1>8 DEF longer

(* What the running sums of a stack are.                                   *)
StackOk(stack) ==
  /\ stack \in Seq(Steps) /\ Len(stack) \in Nat
  /\ \A i \in 1..Len(stack) : stack[i] \in Seq(Txs) /\ Len(stack[i]) \in Nat \ {0}
  /\ TxsTo(stack, 0) = 0 /\ BytesTo(stack, 0) = 0
  /\ \A i \in 1..Len(stack) : /\ TxsTo(stack, i) = TxsTo(stack, i - 1) + Len(stack[i])
                              /\ BytesTo(stack, i) = BytesTo(stack, i - 1) + StepBytes(stack[i])
                              /\ StepBytes(stack[i]) \in Nat
  /\ \A i \in 0..Len(stack) : /\ TxsTo(stack, i) \in Nat /\ TxsTo(stack, i) <= StackTxs(stack)
                              /\ BytesTo(stack, i) \in Nat /\ BytesTo(stack, i) <= StackBytes(stack)
  /\ StackTxs(stack) = TxsTo(stack, Len(stack)) /\ StackBytes(stack) = BytesTo(stack, Len(stack))
  /\ StackTxs(stack) \in Nat /\ StackBytes(stack) \in Nat

LEMMA StackNums ==
  ASSUME NEW stack \in Seq(Steps)
  PROVE  /\ Len(stack) \in Nat /\ \A i \in 1..Len(stack) : stack[i] \in Seq(Txs) /\ Len(stack[i]) \in Nat \ {0}
         /\ Lens(stack) \in Seq(Nat) /\ Len(Lens(stack)) = Len(stack)
         /\ StackWeights(stack) \in Seq(Nat) /\ Len(StackWeights(stack)) = Len(stack)
         /\ \A i \in 1..Len(stack) : /\ Lens(stack)[i] = Len(stack[i])
                                     /\ StackWeights(stack)[i] = StepBytes(stack[i])
                                     /\ StepBytes(stack[i]) \in Nat
<1> DEFINE n == Len(stack)
<1>1. n \in Nat /\ DOMAIN stack = 1..n /\ \A i \in 1..n : stack[i] \in Steps
  BY LenProperties, ElementOfSeq
<1>2. \A i \in 1..n : stack[i] \in Seq(Txs) /\ Len(stack[i]) \in Nat \ {0}
  <2> SUFFICES ASSUME NEW i \in 1..n PROVE stack[i] \in Seq(Txs) /\ Len(stack[i]) \in Nat \ {0}
    OBVIOUS
  <2> DEFINE step == stack[i]
  <2>1. step \in Seq(Txs) /\ step # <<>>  BY <1>1 DEF Steps
  <2> HIDE DEF step
  <2>2. Len(step) \in Nat /\ Len(step) # 0  BY <2>1, LenProperties, EmptySeq
  <2>. QED  BY <2>1, <2>2 DEF step
<1>3. \A i \in 1..n : StepBytes(stack[i]) \in Nat  BY <1>2, StepBytesNat
<1>4. Lens(stack) = [i \in 1..n |-> Len(stack[i])] /\ StackWeights(stack) = [i \in 1..n |-> StepBytes(stack[i])]
  BY <1>1 DEF Lens, StackWeights
<1>5. Lens(stack) \in [1..n -> Nat] /\ StackWeights(stack) \in [1..n -> Nat]  BY <1>2, <1>3, <1>4
<1> DEFINE a == Lens(stack)
<1> DEFINE b == StackWeights(stack)
<1>6. \A i \in 1..n : a[i] = Len(stack[i]) /\ b[i] = StepBytes(stack[i])  BY <1>4
<1> HIDE DEF a, b
<1>7. a \in Seq(Nat) /\ Len(a) = n /\ b \in Seq(Nat) /\ Len(b) = n
  BY <1>1, <1>5, IsASeq, LenProperties DEF a, b
<1>. QED  BY <1>1, <1>2, <1>3, <1>6, <1>7 DEF a, b

LEMMA StackIs ==
  ASSUME NEW stack \in Seq(Steps)
  PROVE  StackOk(stack)
<1> DEFINE n == Len(stack)
<1> DEFINE a == Lens(stack)
<1> DEFINE b == StackWeights(stack)
<1>1. /\ n \in Nat /\ \A i \in 1..n : stack[i] \in Seq(Txs) /\ Len(stack[i]) \in Nat \ {0}
      /\ a \in Seq(Nat) /\ Len(a) = n /\ b \in Seq(Nat) /\ Len(b) = n
      /\ \A i \in 1..n : a[i] = Len(stack[i]) /\ b[i] = StepBytes(stack[i]) /\ StepBytes(stack[i]) \in Nat
  BY StackNums
<1>2. /\ StackTxs(stack) = Sums(a)[n] /\ StackBytes(stack) = Sums(b)[n]
      /\ \A i : TxsTo(stack, i) = Sums(a)[i] /\ BytesTo(stack, i) = Sums(b)[i]
  BY <1>1 DEF StackTxs, StackBytes, Total, Lens, StackWeights, TxsTo, BytesTo
<1> HIDE DEF a, b
<1>3. SumsOk(Sums(a), a, n) /\ SumsOk(Sums(b), b, n)  BY <1>1, SumsAre
<1>4. /\ TxsTo(stack, 0) = 0 /\ BytesTo(stack, 0) = 0
      /\ \A i \in 1..n : /\ TxsTo(stack, i) = TxsTo(stack, i - 1) + Len(stack[i])
                         /\ BytesTo(stack, i) = BytesTo(stack, i - 1) + StepBytes(stack[i])
  <2> DEFINE f == Sums(a)
  <2> DEFINE g == Sums(b)
  <2>1. f[0] = 0 /\ g[0] = 0  BY <1>3 DEF SumsOk
  <2>2. \A i \in 1..n : f[i] = f[i - 1] + a[i] /\ g[i] = g[i - 1] + b[i]  BY <1>3 DEF SumsOk
  <2>3. \A i : TxsTo(stack, i) = f[i] /\ BytesTo(stack, i) = g[i]  BY <1>2
  <2> HIDE DEF f, g
  <2>. QED  BY <1>1, <2>1, <2>2, <2>3, ZenonT(20)
<1>5. /\ \A i \in 0..n : /\ TxsTo(stack, i) \in Nat /\ TxsTo(stack, i) <= StackTxs(stack)
                         /\ BytesTo(stack, i) \in Nat /\ BytesTo(stack, i) <= StackBytes(stack)
      /\ StackTxs(stack) \in Nat /\ StackBytes(stack) \in Nat
  <2> DEFINE f == Sums(a)
  <2> DEFINE g == Sums(b)
  <2>1. \A i \in 0..n : f[i] \in Nat /\ f[i] <= f[n] /\ g[i] \in Nat /\ g[i] <= g[n]
    <3>1. n \in 0..n  BY <1>1
    <3> HIDE DEF f, g
    <3>. QED  BY <1>3, <3>1 DEF SumsOk, f, g
  <2>2. f[n] \in Nat /\ g[n] \in Nat  BY <1>1, <2>1
  <2> HIDE DEF f, g
  <2>3. StackTxs(stack) = f[n] /\ StackBytes(stack) = g[n]  BY <1>2 DEF f, g
  <2>4. \A i : TxsTo(stack, i) = f[i] /\ BytesTo(stack, i) = g[i]  BY <1>2 DEF f, g
  <2>. QED  BY <2>1, <2>2, <2>3, <2>4
<1>6. StackTxs(stack) = TxsTo(stack, n) /\ StackBytes(stack) = BytesTo(stack, n)  BY <1>2
<1>. QED  BY <1>1, <1>4, <1>5, <1>6, ZenonT(20) DEF StackOk

(* A stack that agrees with n steps of another, those after the k-th.      *)
LEMMA StackAgree ==
  ASSUME NEW stack \in Seq(Steps), NEW part \in Seq(Steps), NEW k \in Nat, NEW n \in Nat,
         k + n <= Len(stack), n <= Len(part), \A i \in 1..n : part[i] = stack[k + i]
  PROVE  \A i \in 0..n : /\ TxsTo(part, i) = TxsTo(stack, k + i) - TxsTo(stack, k)
                         /\ BytesTo(part, i) = BytesTo(stack, k + i) - BytesTo(stack, k)
<1> DEFINE a == Lens(stack)
<1> DEFINE b == StackWeights(stack)
<1> DEFINE c == Lens(part)
<1> DEFINE d == StackWeights(part)
<1>1. /\ Len(stack) \in Nat /\ a \in Seq(Nat) /\ Len(a) = Len(stack) /\ b \in Seq(Nat) /\ Len(b) = Len(stack)
      /\ \A i \in 1..Len(stack) : a[i] = Len(stack[i]) /\ b[i] = StepBytes(stack[i])
  BY StackNums
<1>2. /\ Len(part) \in Nat /\ c \in Seq(Nat) /\ Len(c) = Len(part) /\ d \in Seq(Nat) /\ Len(d) = Len(part)
      /\ \A i \in 1..Len(part) : c[i] = Len(part[i]) /\ d[i] = StepBytes(part[i])
  BY StackNums
<1>3. \A i \in 1..n : i \in 1..Len(part) /\ k + i \in 1..Len(stack)  BY <1>1, <1>2
<1> HIDE DEF a, b, c, d
<1>4. (\A i \in 1..n : c[i] = a[k + i]) /\ (\A i \in 1..n : d[i] = b[k + i])  BY <1>1, <1>2, <1>3, ZenonT(20)
<1>5. \A i \in 0..n : Sums(c)[i] = Sums(a)[k + i] - Sums(a)[k]
  <2>1. a \in Seq(Nat) /\ c \in Seq(Nat) /\ k + n <= Len(a) /\ n <= Len(c)  BY <1>1, <1>2
  <2>2. \A i \in 1..n : c[i] = a[k + i]  BY <1>4
  <2>. QED  BY <2>1, <2>2, SumsAgree, ZenonT(20)
<1>6. \A i \in 0..n : Sums(d)[i] = Sums(b)[k + i] - Sums(b)[k]
  <2>1. b \in Seq(Nat) /\ d \in Seq(Nat) /\ k + n <= Len(b) /\ n <= Len(d)  BY <1>1, <1>2
  <2>2. \A i \in 1..n : d[i] = b[k + i]  BY <1>4
  <2>. QED  BY <2>1, <2>2, SumsAgree, ZenonT(20)
<1>. QED  BY <1>5, <1>6, ZenonT(20) DEF TxsTo, BytesTo, a, b, c, d

(* The first n steps of a stack, or of one that begins like it.            *)
LEMMA StackBegins ==
  ASSUME NEW stack \in Seq(Steps), NEW part \in Seq(Steps), NEW n \in Nat,
         n <= Len(stack), n <= Len(part), \A i \in 1..n : part[i] = stack[i]
  PROVE  \A i \in 0..n : TxsTo(part, i) = TxsTo(stack, i) /\ BytesTo(part, i) = BytesTo(stack, i)
<1>1. 0 + n <= Len(stack) /\ (\A i \in 1..n : part[i] = stack[0 + i]) /\ 0 \in Nat
  <2>1. \A i \in 1..n : 0 + i = i  OBVIOUS
  <2>. QED  BY <2>1
<1>2. \A i \in 0..n : /\ TxsTo(part, i) = TxsTo(stack, 0 + i) - TxsTo(stack, 0)
                      /\ BytesTo(part, i) = BytesTo(stack, 0 + i) - BytesTo(stack, 0)
  BY <1>1, StackAgree, ZenonT(20)
<1>3. StackOk(stack)  BY StackIs
<1>4. \A i \in 0..n : /\ 0 + i = i
                      /\ TxsTo(stack, i) - TxsTo(stack, 0) = TxsTo(stack, i)
                      /\ BytesTo(stack, i) - BytesTo(stack, 0) = BytesTo(stack, i)
  <2> SUFFICES ASSUME NEW i \in 0..n
               PROVE  /\ 0 + i = i
                      /\ TxsTo(stack, i) - TxsTo(stack, 0) = TxsTo(stack, i)
                      /\ BytesTo(stack, i) - BytesTo(stack, 0) = BytesTo(stack, i)
    OBVIOUS
  <2>1. i \in 0..Len(stack)  BY <1>3 DEF StackOk
  <2>2. /\ TxsTo(stack, i) \in Nat /\ TxsTo(stack, 0) = 0
        /\ BytesTo(stack, i) \in Nat /\ BytesTo(stack, 0) = 0
    BY <1>3, <2>1, ZenonT(20) DEF StackOk
  <2>. QED  BY <2>2
<1>. QED  BY <1>2, <1>4, ZenonT(20)

(* One step more, whole or as a transaction of the last step.              *)
PushedOk(stack, step, more) ==
  /\ more \in Seq(Steps) /\ Len(more) = Len(stack) + 1 /\ more[Len(stack) + 1] = step
  /\ \A i \in 1..Len(stack) : more[i] = stack[i]
  /\ \A i \in 0..Len(stack) : TxsTo(more, i) = TxsTo(stack, i)
  /\ StackTxs(more) = StackTxs(stack) + Len(step)
  /\ StackBytes(more) = StackBytes(stack) + StepBytes(step)

LEMMA Pushed ==
  ASSUME NEW stack \in Seq(Steps), NEW step \in Steps
  PROVE  PushedOk(stack, step, Append(stack, step))
<1> DEFINE more == Append(stack, step)
<1> DEFINE n == Len(stack)
<1>1. /\ more \in Seq(Steps) /\ Len(more) = n + 1 /\ more[n + 1] = step /\ n \in Nat
      /\ \A i \in 1..n : more[i] = stack[i]
  BY AppendProperties, LenProperties
<1> HIDE DEF more
<1>2. StackOk(stack) /\ StackOk(more)  BY <1>1, StackIs
<1>3. \A i \in 0..n : TxsTo(more, i) = TxsTo(stack, i) /\ BytesTo(more, i) = BytesTo(stack, i)
  BY <1>1, StackBegins
<1>4. /\ StackTxs(more) = TxsTo(more, n) + Len(step)
      /\ StackBytes(more) = BytesTo(more, n) + StepBytes(step)
  BY <1>1, <1>2 DEF StackOk
<1>5. StackTxs(stack) = TxsTo(stack, n) /\ StackBytes(stack) = BytesTo(stack, n)  BY <1>2 DEF StackOk
<1>6. n \in 0..n  BY <1>1
<1>. QED  BY <1>1, <1>3, <1>4, <1>5, <1>6 DEF PushedOk, more

MergedOk(stack, tx, more) ==
  LET n == Len(stack)
  IN  /\ more \in Seq(Steps) /\ Len(more) = n /\ more[n] = Append(stack[n], tx)
      /\ \A i \in 1..(n - 1) : more[i] = stack[i]
      /\ \A i \in 0..(n - 1) : TxsTo(more, i) = TxsTo(stack, i)
      /\ StackTxs(more) = StackTxs(stack) + 1
      /\ StackBytes(more) = StackBytes(stack) + tx.weight

LEMMA Merged ==
  ASSUME NEW stack \in Seq(Steps), stack # <<>>, NEW tx \in Txs
  PROVE  MergedOk(stack, tx, [stack EXCEPT ![Len(stack)] = Append(stack[Len(stack)], tx)])
<1> DEFINE n == Len(stack)
<1> DEFINE old == stack[n]
<1> DEFINE new == Append(old, tx)
<1> DEFINE more == [stack EXCEPT ![n] = new]
<1>1. StackOk(stack) /\ n \in Nat \ {0}
  BY StackIs, LenProperties, EmptySeq
<1>2. old \in Seq(Txs) /\ Len(old) \in Nat \ {0}  BY <1>1 DEF StackOk
<1> HIDE DEF old
<1>3. new \in Steps /\ Len(new) = Len(old) + 1
  BY <1>2, AppendProperties DEF Steps
<1>4. StepBytes(new) = StepBytes(old) + tx.weight /\ StepBytes(old) \in Nat /\ tx.weight \in Nat
  BY <1>2, StepBytesAppend, StepBytesNat DEF Txs
<1> HIDE DEF new
<1>5. more \in Seq(Steps) /\ Len(more) = n /\ more[n] = new /\ \A i \in 1..(n - 1) : more[i] = stack[i]
  BY <1>1, <1>3, ExceptSeq, LenProperties
<1> HIDE DEF more
<1>6. StackOk(more)  BY <1>5, StackIs
<1>7. \A i \in 0..(n - 1) : TxsTo(more, i) = TxsTo(stack, i) /\ BytesTo(more, i) = BytesTo(stack, i)
  <2>1. n - 1 \in Nat /\ n - 1 <= Len(stack) /\ n - 1 <= Len(more)  BY <1>1, <1>5
  <2>. QED  BY <1>5, <2>1, StackBegins, ZenonT(20)
<1>8. /\ StackTxs(more) = TxsTo(more, n - 1) + Len(new) /\ StackTxs(stack) = TxsTo(stack, n - 1) + Len(old)
      /\ StackBytes(more) = BytesTo(more, n - 1) + StepBytes(new)
      /\ StackBytes(stack) = BytesTo(stack, n - 1) + StepBytes(old)
  BY <1>1, <1>5, <1>6 DEF StackOk, old
<1>9. TxsTo(stack, n - 1) \in Nat /\ BytesTo(stack, n - 1) \in Nat  BY <1>1 DEF StackOk
<1>10. StackTxs(more) = StackTxs(stack) + 1 /\ StackBytes(more) = StackBytes(stack) + tx.weight
  <2>1. TxsTo(more, n - 1) = TxsTo(stack, n - 1) /\ BytesTo(more, n - 1) = BytesTo(stack, n - 1)  BY <1>1, <1>7
  <2>. QED  BY <1>2, <1>3, <1>4, <1>8, <1>9, <2>1
<1>. QED  BY <1>5, <1>7, <1>10, ZenonT(20) DEF MergedOk, more, new, old

(* One step less, at the top.                                              *)
PoppedOk(stack, less) ==
  LET n == Len(stack)
  IN  /\ less \in Seq(Steps) /\ Len(less) = n - 1 /\ n \in Nat \ {0}
      /\ \A i \in 1..(n - 1) : less[i] = stack[i]
      /\ \A i \in 0..(n - 1) : TxsTo(less, i) = TxsTo(stack, i)
      /\ StackTxs(less) = TxsTo(stack, n - 1)
      /\ StackTxs(less) = StackTxs(stack) - Len(Last(stack))
      /\ StackBytes(less) = StackBytes(stack) - StepBytes(Last(stack))
      /\ Last(stack) \in Steps /\ Len(Last(stack)) \in Nat \ {0} /\ StepBytes(Last(stack)) \in Nat

LEMMA Popped ==
  ASSUME NEW stack \in Seq(Steps), stack # <<>>
  PROVE  PoppedOk(stack, Front(stack))
<1> DEFINE n == Len(stack)
<1> DEFINE less == SubSeq(stack, 1, n - 1)
<1>1. StackOk(stack) /\ n \in Nat \ {0} /\ Front(stack) = less /\ Last(stack) = stack[n]
  BY StackIs, LenProperties, EmptySeq DEF Front, Last
<1>2. less \in Seq(Steps) /\ Len(less) = n - 1 /\ \A i \in 1..(n - 1) : less[i] = stack[i]
  <2> DEFINE m == n - 1
  <2>1. m \in 0..n  BY <1>1
  <2> HIDE DEF m
  <2>2. SubSeq(stack, 1, m) \in Seq(Steps) /\ Len(SubSeq(stack, 1, m)) = m
        /\ \A i \in 1..m : SubSeq(stack, 1, m)[i] = stack[i]
    BY <1>1, <2>1, SubSeqProperties
  <2>. QED  BY <2>2 DEF m
<1> HIDE DEF less
<1>3. StackOk(less)  BY <1>2, StackIs
<1>4. \A i \in 0..(n - 1) : TxsTo(less, i) = TxsTo(stack, i) /\ BytesTo(less, i) = BytesTo(stack, i)
  <2>1. n - 1 \in Nat /\ n - 1 <= Len(stack) /\ n - 1 <= Len(less)  BY <1>1, <1>2
  <2>. QED  BY <1>2, <2>1, StackBegins, ZenonT(20)
<1>5. /\ StackTxs(less) = TxsTo(less, n - 1) /\ StackTxs(stack) = TxsTo(stack, n - 1) + Len(stack[n])
      /\ StackBytes(less) = BytesTo(less, n - 1) /\ StackBytes(stack) = BytesTo(stack, n - 1) + StepBytes(stack[n])
  BY <1>1, <1>2, <1>3 DEF StackOk
<1>6. TxsTo(less, n - 1) = TxsTo(stack, n - 1) /\ BytesTo(less, n - 1) = BytesTo(stack, n - 1)  BY <1>1, <1>4
<1>7. /\ TxsTo(stack, n - 1) \in Nat /\ BytesTo(stack, n - 1) \in Nat
      /\ Len(stack[n]) \in Nat \ {0} /\ StepBytes(stack[n]) \in Nat
  BY <1>1 DEF StackOk
<1>8. stack[n] \in Steps  BY <1>1, ElementOfSeq
<1>9. StackTxs(less) = StackTxs(stack) - Len(stack[n]) /\ StackBytes(less) = StackBytes(stack) - StepBytes(stack[n])
  BY <1>5, <1>6, <1>7
<1>. QED  BY <1>1, <1>2, <1>4, <1>5, <1>6, <1>7, <1>8, <1>9 DEF PoppedOk

(* k steps less, at the bottom.                                            *)
DroppedOk(stack, k, less) ==
  /\ less \in Seq(Steps) /\ Len(less) = Len(stack) - k
  /\ \A i \in 1..(Len(stack) - k) : less[i] = stack[k + i]
  /\ \A i \in 0..(Len(stack) - k) : TxsTo(less, i) = TxsTo(stack, k + i) - TxsTo(stack, k)
  /\ StackTxs(SubSeq(stack, 1, k)) = TxsTo(stack, k)
  /\ StackBytes(SubSeq(stack, 1, k)) = BytesTo(stack, k)
  /\ StackTxs(less) = StackTxs(stack) - TxsTo(stack, k)
  /\ StackBytes(less) = StackBytes(stack) - BytesTo(stack, k)

LEMMA Dropped ==
  ASSUME NEW stack \in Seq(Steps), NEW k \in 0..Len(stack)
  PROVE  DroppedOk(stack, k, SubSeq(stack, k + 1, Len(stack)))
<1> DEFINE n == Len(stack)
<1> DEFINE gone == SubSeq(stack, 1, k)
<1> DEFINE less == SubSeq(stack, k + 1, n)
<1>1. StackOk(stack) /\ n \in Nat  BY StackIs, LenProperties
<1>2. gone \in Seq(Steps) /\ Len(gone) = k /\ \A i \in 1..k : gone[i] = stack[i]
  BY <1>1, SubSeqProperties
<1>3. less \in Seq(Steps) /\ Len(less) = n - k /\ \A i \in 1..(n - k) : less[i] = stack[k + i]
  <2>1. \A i \in 1..(n - k) : (k + 1) + i - 1 = k + i  BY <1>1
  <2>. QED  BY <1>1, <2>1, SubSeqProperties
<1> HIDE DEF gone, less
<1>4. StackOk(gone) /\ StackOk(less)  BY <1>2, <1>3, StackIs
<1>5. TxsTo(gone, k) = TxsTo(stack, k) /\ BytesTo(gone, k) = BytesTo(stack, k)
  <2>1. k \in Nat /\ k <= n /\ k <= Len(gone) /\ k \in 0..k  BY <1>1, <1>2
  <2>. QED  BY <1>2, <2>1, StackBegins, ZenonT(20)
<1>6. \A i \in 0..(n - k) : /\ TxsTo(less, i) = TxsTo(stack, k + i) - TxsTo(stack, k)
                            /\ BytesTo(less, i) = BytesTo(stack, k + i) - BytesTo(stack, k)
  <2> DEFINE m == n - k
  <2>1. m \in Nat /\ k \in Nat /\ k + m <= n /\ m <= Len(less)  BY <1>1, <1>3
  <2>2. \A i \in 1..m : less[i] = stack[k + i]  BY <1>3, ZenonT(20)
  <2> HIDE DEF m
  <2>3. \A i \in 0..m : /\ TxsTo(less, i) = TxsTo(stack, k + i) - TxsTo(stack, k)
                        /\ BytesTo(less, i) = BytesTo(stack, k + i) - BytesTo(stack, k)
    BY <1>3, <2>1, <2>2, StackAgree, ZenonT(20)
  <2>. QED  BY <2>3 DEF m
<1>7. /\ TxsTo(less, n - k) = TxsTo(stack, n) - TxsTo(stack, k)
      /\ BytesTo(less, n - k) = BytesTo(stack, n) - BytesTo(stack, k)
  <2>1. n - k \in 0..(n - k) /\ k + (n - k) = n  BY <1>1
  <2>. QED  BY <1>6, <2>1
<1>8. /\ StackTxs(gone) = TxsTo(gone, k) /\ StackBytes(gone) = BytesTo(gone, k)
      /\ StackTxs(less) = TxsTo(less, n - k) /\ StackBytes(less) = BytesTo(less, n - k)
      /\ StackTxs(stack) = TxsTo(stack, n) /\ StackBytes(stack) = BytesTo(stack, n)
  BY <1>1, <1>2, <1>3, <1>4 DEF StackOk
<1>. QED  BY <1>3, <1>5, <1>6, <1>7, <1>8 DEF DroppedOk, gone, less

-----------------------------------------------------------------------------
(* The timeline of a document: the text at each position of its history.   *)

(* The transactions of a step lead from position p onwards.                *)
StepAt(step, p, tl) ==
  \A j \in 1..Len(step) : step[j].from = tl[p + j - 1] /\ step[j].to = tl[p + j]

(* Undo steps lie upwards from a position, redo steps downwards.           *)
Laid(stack, start, tl) == \A i \in 1..Len(stack) : StepAt(stack[i], start + TxsTo(stack, i - 1), tl)
LaidDown(stack, end, tl) == \A i \in 1..Len(stack) : StepAt(stack[i], end - TxsTo(stack, i), tl)

LEMMA LaidPushed ==
  ASSUME NEW stack, NEW step, NEW more, PushedOk(stack, step, more), NEW start \in Int, NEW tl,
         StackOk(stack), Laid(stack, start, tl), StepAt(step, start + StackTxs(stack), tl)
  PROVE  Laid(more, start, tl)
<1> DEFINE n == Len(stack)
<1> SUFFICES ASSUME NEW i \in 1..(n + 1) PROVE StepAt(more[i], start + TxsTo(more, i - 1), tl)
  BY DEF Laid, PushedOk
<1>1. n \in Nat /\ StackTxs(stack) = TxsTo(stack, n)  BY DEF StackOk
<1>2. CASE i = n + 1
  <2>1. more[i] = step /\ TxsTo(more, i - 1) = StackTxs(stack)
    <3>1. i - 1 = n /\ n \in 0..n  BY <1>1, <1>2
    <3>. QED  BY <1>1, <1>2, <3>1 DEF PushedOk
  <2>. QED  BY <2>1
<1>3. CASE i # n + 1
  <2>1. i \in 1..n /\ i - 1 \in 0..n  BY <1>1, <1>3
  <2>2. more[i] = stack[i] /\ TxsTo(more, i - 1) = TxsTo(stack, i - 1)  BY <2>1 DEF PushedOk
  <2>. QED  BY <2>1, <2>2 DEF Laid
<1>. QED  BY <1>2, <1>3

LEMMA LaidDownPushed ==
  ASSUME NEW stack, NEW step, NEW more, PushedOk(stack, step, more), NEW end \in Int, NEW tl,
         StackOk(stack), StackOk(more), LaidDown(stack, end, tl), StepAt(step, end - StackTxs(more), tl)
  PROVE  LaidDown(more, end, tl)
<1> DEFINE n == Len(stack)
<1> SUFFICES ASSUME NEW i \in 1..(n + 1) PROVE StepAt(more[i], end - TxsTo(more, i), tl)
  BY DEF LaidDown, PushedOk
<1>1. n \in Nat /\ StackTxs(more) = TxsTo(more, n + 1)  BY DEF StackOk, PushedOk
<1>2. CASE i = n + 1
  BY <1>1, <1>2 DEF PushedOk
<1>3. CASE i # n + 1
  <2>1. i \in 1..n /\ i \in 0..n  BY <1>1, <1>3
  <2>2. more[i] = stack[i] /\ TxsTo(more, i) = TxsTo(stack, i)  BY <2>1 DEF PushedOk
  <2>. QED  BY <2>1, <2>2 DEF LaidDown
<1>. QED  BY <1>2, <1>3

LEMMA LaidMerged ==
  ASSUME NEW stack, NEW tx, NEW more, MergedOk(stack, tx, more), NEW start \in Int, NEW tl,
         StackOk(stack), stack # <<>>, Laid(stack, start, tl),
         tx.from = tl[start + StackTxs(stack)], tx.to = tl[start + StackTxs(stack) + 1]
  PROVE  Laid(more, start, tl)
<1> DEFINE n == Len(stack)
<1> SUFFICES ASSUME NEW i \in 1..n PROVE StepAt(more[i], start + TxsTo(more, i - 1), tl)
  BY DEF Laid, MergedOk
<1>1. n \in Nat \ {0} /\ StackTxs(stack) = TxsTo(stack, n - 1) + Len(stack[n])
  <2>1. n # 0 /\ n \in Nat  BY EmptySeq DEF StackOk
  <2>2. n \in 1..n  BY <2>1
  <2>3. TxsTo(stack, n) = TxsTo(stack, n - 1) + Len(stack[n]) /\ StackTxs(stack) = TxsTo(stack, n)
    BY <2>2, ZenonT(20) DEF StackOk
  <2>. QED  BY <2>1, <2>3
<1>2. CASE i = n
  <2> DEFINE old == stack[n]
  <2> DEFINE p == start + TxsTo(stack, n - 1)
  <2>1. /\ old \in Seq(Txs) /\ Len(old) \in Nat /\ TxsTo(stack, n - 1) \in Nat
        /\ n - 1 \in 0..(n - 1) /\ more[n] = Append(old, tx) /\ TxsTo(more, n - 1) = TxsTo(stack, n - 1)
    BY <1>1 DEF StackOk, MergedOk
  <2>2. StepAt(old, p, tl)  BY <1>1 DEF Laid
  <2>3. start + StackTxs(stack) = p + Len(old) /\ p \in Int  BY <1>1, <2>1
  <2> HIDE DEF old, p
  <2>4. tx.from = tl[p + Len(old)] /\ tx.to = tl[p + Len(old) + 1]  BY <2>3
  <2>5. StepAt(Append(old, tx), p, tl)
    <3>1. Len(Append(old, tx)) = Len(old) + 1 /\ \A j \in 1..Len(old) : Append(old, tx)[j] = old[j]
      BY <2>1
    <3>2. Append(old, tx)[Len(old) + 1] = tx  BY <2>1
    <3> SUFFICES ASSUME NEW j \in 1..(Len(old) + 1)
                 PROVE  /\ Append(old, tx)[j].from = tl[p + j - 1]
                        /\ Append(old, tx)[j].to = tl[p + j]
      BY <3>1 DEF StepAt
    <3>3. CASE j = Len(old) + 1
      <4>1. p + j - 1 = p + Len(old) /\ p + j = p + Len(old) + 1  BY <2>1, <2>3, <3>3
      <4>. QED  BY <2>4, <3>2, <3>3, <4>1
    <3>4. CASE j # Len(old) + 1
      <4>1. j \in 1..Len(old)  BY <2>1, <3>4
      <4>. QED  BY <2>2, <3>1, <4>1 DEF StepAt
    <3>. QED  BY <3>3, <3>4
  <2>. QED  BY <1>2, <2>1, <2>5 DEF p
<1>3. CASE i # n
  <2>1. i \in 1..(n - 1) /\ i - 1 \in 0..(n - 1)  BY <1>1, <1>3
  <2>2. more[i] = stack[i] /\ TxsTo(more, i - 1) = TxsTo(stack, i - 1)  BY <2>1 DEF MergedOk
  <2>. QED  BY <2>2 DEF Laid
<1>. QED  BY <1>2, <1>3

LEMMA LaidPopped ==
  ASSUME NEW stack, NEW less, PoppedOk(stack, less), NEW p \in Int, NEW tl
  PROVE  Laid(stack, p, tl) => Laid(less, p, tl)
<1> SUFFICES ASSUME Laid(stack, p, tl) PROVE Laid(less, p, tl)
  OBVIOUS
<1> DEFINE n == Len(stack)
<1> SUFFICES ASSUME NEW i \in 1..(n - 1) PROVE StepAt(less[i], p + TxsTo(less, i - 1), tl)
  BY DEF Laid, PoppedOk
<1>1. i \in 1..n /\ i - 1 \in 0..(n - 1)  BY DEF PoppedOk
<1>2. less[i] = stack[i] /\ TxsTo(less, i - 1) = TxsTo(stack, i - 1)  BY <1>1 DEF PoppedOk
<1>. QED  BY <1>1, <1>2 DEF Laid

LEMMA LaidDownPopped ==
  ASSUME NEW stack, NEW less, PoppedOk(stack, less), NEW p \in Int, NEW tl
  PROVE  LaidDown(stack, p, tl) => LaidDown(less, p, tl)
<1> SUFFICES ASSUME LaidDown(stack, p, tl) PROVE LaidDown(less, p, tl)
  OBVIOUS
<1> DEFINE n == Len(stack)
<1> SUFFICES ASSUME NEW i \in 1..(n - 1) PROVE StepAt(less[i], p - TxsTo(less, i), tl)
  BY DEF LaidDown, PoppedOk
<1>1. i \in 1..n /\ i \in 0..(n - 1)  BY DEF PoppedOk
<1>2. less[i] = stack[i] /\ TxsTo(less, i) = TxsTo(stack, i)  BY <1>1 DEF PoppedOk
<1>. QED  BY <1>1, <1>2 DEF LaidDown

LEMMA LaidDropped ==
  ASSUME NEW stack, NEW k \in 0..Len(stack), NEW less, DroppedOk(stack, k, less), StackOk(stack),
         NEW p \in Int, NEW tl
  PROVE  /\ Laid(stack, p, tl) => Laid(less, p + TxsTo(stack, k), tl)
         /\ LaidDown(stack, p, tl) => LaidDown(less, p - TxsTo(stack, k), tl)
<1> DEFINE n == Len(stack)
<1> DEFINE t == TxsTo(stack, k)
<1>1. n \in Nat /\ t \in Nat /\ Len(less) = n - k  BY DEF StackOk, DroppedOk
<1>2. \A i \in 1..(n - k) : /\ i \in 0..(n - k) /\ i - 1 \in 0..(n - k)
                            /\ k + i \in 1..n /\ k + i \in 0..n /\ k + (i - 1) \in 0..n /\ k + (i - 1) = k + i - 1
  BY <1>1
<1>3. \A i \in 1..(n - k) : /\ less[i] = stack[k + i]
                            /\ TxsTo(less, i - 1) = TxsTo(stack, k + i - 1) - t
                            /\ TxsTo(less, i) = TxsTo(stack, k + i) - t
  <2> SUFFICES ASSUME NEW i \in 1..(n - k)
               PROVE  /\ less[i] = stack[k + i]
                      /\ TxsTo(less, i - 1) = TxsTo(stack, k + i - 1) - t
                      /\ TxsTo(less, i) = TxsTo(stack, k + i) - t
    OBVIOUS
  <2>1. TxsTo(less, i - 1) = TxsTo(stack, k + (i - 1)) - t  BY <1>2, ZenonT(20) DEF DroppedOk
  <2>2. TxsTo(less, i) = TxsTo(stack, k + i) - t /\ less[i] = stack[k + i]  BY <1>2, ZenonT(20) DEF DroppedOk
  <2>. QED  BY <1>2, <2>1, <2>2
<1>4. \A i \in 1..(n - k) : TxsTo(stack, k + i - 1) \in Nat /\ TxsTo(stack, k + i) \in Nat
  BY <1>2 DEF StackOk
<1> HIDE DEF t
<1>5. \A i \in 1..(n - k) : /\ (p + t) + TxsTo(less, i - 1) = p + TxsTo(stack, k + i - 1)
                            /\ (p - t) - TxsTo(less, i) = p - TxsTo(stack, k + i)
  BY <1>1, <1>3, <1>4
<1>6. ASSUME Laid(stack, p, tl) PROVE Laid(less, p + t, tl)
  <2> SUFFICES ASSUME NEW i \in 1..(n - k) PROVE StepAt(less[i], (p + t) + TxsTo(less, i - 1), tl)
    BY <1>1 DEF Laid
  <2>1. k + i \in 1..n /\ less[i] = stack[k + i]  BY <1>2, <1>3
  <2>2. StepAt(stack[k + i], p + TxsTo(stack, k + i - 1), tl)  BY <1>6, <2>1 DEF Laid
  <2>. QED  BY <1>5, <2>1, <2>2
<1>7. ASSUME LaidDown(stack, p, tl) PROVE LaidDown(less, p - t, tl)
  <2> SUFFICES ASSUME NEW i \in 1..(n - k) PROVE StepAt(less[i], (p - t) - TxsTo(less, i), tl)
    BY <1>1 DEF LaidDown
  <2>1. k + i \in 1..n /\ less[i] = stack[k + i]  BY <1>2, <1>3
  <2>2. StepAt(stack[k + i], p - TxsTo(stack, k + i), tl)  BY <1>7, <2>1 DEF LaidDown
  <2>. QED  BY <1>5, <2>1, <2>2
<1>. QED  BY <1>6, <1>7 DEF t

(* Undo steps only tell of the positions they span.                        *)
LEMMA LaidSpan ==
  ASSUME NEW stack, StackOk(stack), NEW start \in Int, NEW tl, NEW tm, Laid(stack, start, tl),
         \A p \in start..(start + StackTxs(stack)) : tm[p] = tl[p]
  PROVE  Laid(stack, start, tm)
<1> SUFFICES ASSUME NEW i \in 1..Len(stack), NEW j \in 1..Len(stack[i])
             PROVE  /\ stack[i][j].from = tm[start + TxsTo(stack, i - 1) + j - 1]
                    /\ stack[i][j].to = tm[start + TxsTo(stack, i - 1) + j]
  BY DEF Laid, StepAt
<1> DEFINE a == TxsTo(stack, i - 1)
<1>1. /\ Len(stack) \in Nat /\ Len(stack[i]) \in Nat /\ TxsTo(stack, i) = a + Len(stack[i])
      /\ TxsTo(stack, i) <= StackTxs(stack) /\ StackTxs(stack) \in Nat
  <2>1. i \in 0..Len(stack)  BY DEF StackOk
  <2>. QED  BY <2>1 DEF StackOk
<1>2. a \in Nat
  <2>1. i - 1 \in 0..Len(stack)  BY <1>1
  <2>. QED  BY <2>1 DEF StackOk
<1>3. stack[i][j].from = tl[start + a + j - 1] /\ stack[i][j].to = tl[start + a + j]  BY DEF Laid, StepAt
<1> HIDE DEF a
<1>4. /\ start + a + j - 1 \in start..(start + StackTxs(stack))
      /\ start + a + j \in start..(start + StackTxs(stack))
  BY <1>1, <1>2
<1>5. tm[start + a + j - 1] = tl[start + a + j - 1] /\ tm[start + a + j] = tl[start + a + j]  BY <1>4
<1>. QED  BY <1>3, <1>5 DEF a

(* A history with exact counters, and what it holds.                       *)
StoreFields == {"undo", "redo", "undoBytes", "redoBytes", "undoTx", "redoTx", "head", "clean", "owner"}

Counted(s) ==
  /\ DOMAIN s = StoreFields
  /\ s.undo \in Seq(Steps) /\ s.redo \in Seq(Steps)
  /\ s.undoBytes = StackBytes(s.undo) /\ s.redoBytes = StackBytes(s.redo)
  /\ s.undoTx = StackTxs(s.undo) /\ s.redoTx = StackTxs(s.redo)
  /\ s.head \in Nat /\ s.undoTx <= s.head

(* The positions that undo and redo can reach.                             *)
Lo(s) == s.head - s.undoTx
Hi(s) == s.head + s.redoTx
Span(s) == Lo(s)..Hi(s)

(* The history is laid out on a timeline of texts, each newer than the     *)
(* one before; the document shows the text at the head.                    *)
Timeline(s, tl, text, top) ==
  /\ tl \in [Nat -> Nat]
  /\ \A p, q \in Span(s) : p < q => tl[p] < tl[q]
  /\ \A p \in Span(s) : tl[p] <= top
  /\ tl[s.head] = text
  /\ Laid(s.undo, Lo(s), tl) /\ LaidDown(s.redo, Hi(s), tl)

(* The saved text is where the clean position says, or out of reach.       *)
Saved(s, tl, file) ==
  IF s.clean = None THEN \A p \in Span(s) : tl[p] # file
                    ELSE s.clean \in Span(s) /\ tl[s.clean] = file

Good(s, tl, text, top, file) ==
  Counted(s) /\ Timeline(s, tl, text, top) /\ Saved(s, tl, file) /\ top \in Nat /\ file \in 0..top

Limited(s) ==
  /\ Len(s.undo) <= MAX_UNDO /\ Len(s.redo) <= MAX_UNDO
  /\ s.undoBytes + s.redoBytes <= MAX_UNDO_BYTES

DocOk(s, text, top, file) == Limited(s) /\ \E tl : Good(s, tl, text, top, file)

LEMMA CountedIs ==
  ASSUME NEW s, Counted(s)
  PROVE  /\ StackOk(s.undo) /\ StackOk(s.redo)
         /\ s.undoTx \in Nat /\ s.redoTx \in Nat /\ s.undoBytes \in Nat /\ s.redoBytes \in Nat /\ s.head \in Nat
         /\ Len(s.undo) \in Nat /\ Len(s.redo) \in Nat
         /\ Lo(s) \in Nat /\ Hi(s) \in Nat /\ s.head \in Span(s) /\ Span(s) \subseteq Nat
<1>1. StackOk(s.undo) /\ StackOk(s.redo)  BY StackIs DEF Counted
<1>2. /\ s.undoTx \in Nat /\ s.redoTx \in Nat /\ s.undoBytes \in Nat /\ s.redoBytes \in Nat /\ s.head \in Nat
      /\ Len(s.undo) \in Nat /\ Len(s.redo) \in Nat /\ s.undoTx <= s.head
  BY <1>1 DEF StackOk, Counted
<1>3. Lo(s) \in Nat /\ Hi(s) \in Nat /\ s.head \in Span(s) /\ Span(s) \subseteq Nat
  BY <1>2 DEF Lo, Hi, Span
<1>. QED  BY <1>1, <1>2, <1>3

-----------------------------------------------------------------------------
(* Eviction.                                                               *)

(* A history of which the oldest steps of a stack or both are gone.        *)
Narrowed(s, t) ==
  /\ Counted(t) /\ t.head = s.head /\ t.clean = s.clean
  /\ Lo(s) <= Lo(t) /\ Hi(t) <= Hi(s)
  /\ Len(t.undo) <= Len(s.undo) /\ Len(t.redo) <= Len(s.redo)
  /\ t.undoBytes <= s.undoBytes /\ t.redoBytes <= s.redoBytes
  /\ \A tl : Laid(s.undo, Lo(s), tl) => Laid(t.undo, Lo(t), tl)
  /\ \A tl : LaidDown(s.redo, Hi(s), tl) => LaidDown(t.redo, Hi(t), tl)

LEMMA NarrowedTwice ==
  ASSUME NEW s, NEW t, NEW u, Counted(s), Narrowed(s, t), Narrowed(t, u)
  PROVE  Narrowed(s, u)
<1>1. /\ Lo(s) \in Nat /\ Hi(s) \in Nat /\ Len(s.undo) \in Nat /\ Len(s.redo) \in Nat
      /\ s.undoBytes \in Nat /\ s.redoBytes \in Nat
  BY CountedIs
<1>2. /\ Lo(t) \in Nat /\ Hi(t) \in Nat /\ Len(t.undo) \in Nat /\ Len(t.redo) \in Nat
      /\ t.undoBytes \in Nat /\ t.redoBytes \in Nat
  BY CountedIs DEF Narrowed
<1>3. /\ Lo(u) \in Nat /\ Hi(u) \in Nat /\ Len(u.undo) \in Nat /\ Len(u.redo) \in Nat
      /\ u.undoBytes \in Nat /\ u.redoBytes \in Nat
  BY CountedIs DEF Narrowed
<1>4. /\ Lo(s) <= Lo(u) /\ Hi(u) <= Hi(s) /\ Len(u.undo) <= Len(s.undo) /\ Len(u.redo) <= Len(s.redo)
      /\ u.undoBytes <= s.undoBytes /\ u.redoBytes <= s.redoBytes
  <2>1. /\ Lo(s) <= Lo(t) /\ Hi(t) <= Hi(s) /\ Len(t.undo) <= Len(s.undo) /\ Len(t.redo) <= Len(s.redo)
        /\ t.undoBytes <= s.undoBytes /\ t.redoBytes <= s.redoBytes
    BY DEF Narrowed
  <2>2. /\ Lo(t) <= Lo(u) /\ Hi(u) <= Hi(t) /\ Len(u.undo) <= Len(t.undo) /\ Len(u.redo) <= Len(t.redo)
        /\ u.undoBytes <= t.undoBytes /\ u.redoBytes <= t.redoBytes
    BY DEF Narrowed
  <2>3. \A a, b, c \in Nat : a <= b /\ b <= c => a <= c  OBVIOUS
  <2>. QED  BY <1>1, <1>2, <1>3, <2>1, <2>2, <2>3, ZenonT(20)
<1>. QED  BY <1>4 DEF Narrowed

LEMMA DropUndoOk ==
  ASSUME NEW s, Counted(s), NEW k \in 0..Len(s.undo)
  PROVE  LET t == DropUndo(s, k)
         IN  /\ Narrowed(s, t) /\ Len(t.undo) = Len(s.undo) - k
             /\ t.redo = s.redo /\ t.redoBytes = s.redoBytes
             /\ k = Len(s.undo) => t.undoBytes = 0
<1> DEFINE t == DropUndo(s, k)
<1> DEFINE stack == s.undo
<1> DEFINE less == SubSeq(stack, k + 1, Len(stack))
<1>1. /\ t.undo = less /\ t.redo = s.redo /\ t.head = s.head /\ t.clean = s.clean
      /\ t.redoBytes = s.redoBytes /\ t.redoTx = s.redoTx /\ DOMAIN t = StoreFields
      /\ t.undoBytes = SaturatingSub(s.undoBytes, StackBytes(SubSeq(stack, 1, k)))
      /\ t.undoTx = s.undoTx - StackTxs(SubSeq(stack, 1, k))
  BY DEF Counted, StoreFields, DropUndo
<1>2. stack \in Seq(Steps) /\ StackOk(stack)  BY StackIs DEF Counted
<1>3. DroppedOk(stack, k, less)  BY <1>2, Dropped
<1> HIDE DEF t, less
<1>4. /\ s.undoTx = StackTxs(stack) /\ s.undoBytes = StackBytes(stack)
      /\ s.undoTx \in Nat /\ s.undoBytes \in Nat /\ s.head \in Nat /\ s.undoTx <= s.head
      /\ s.redoTx \in Nat /\ s.redoBytes \in Nat /\ Len(stack) \in Nat
  BY CountedIs DEF Counted
<1>5. /\ TxsTo(stack, k) \in Nat /\ TxsTo(stack, k) <= s.undoTx
      /\ BytesTo(stack, k) \in Nat /\ BytesTo(stack, k) <= s.undoBytes
  BY <1>2, <1>4 DEF StackOk
<1>6. t.undoTx = s.undoTx - TxsTo(stack, k) /\ t.undoBytes = s.undoBytes - BytesTo(stack, k)
  <2>1. t.undoTx = s.undoTx - TxsTo(stack, k)  BY <1>1, <1>3 DEF DroppedOk
  <2>2. t.undoBytes = SaturatingSub(s.undoBytes, BytesTo(stack, k))  BY <1>1, <1>3 DEF DroppedOk
  <2>3. SaturatingSub(s.undoBytes, BytesTo(stack, k)) = s.undoBytes - BytesTo(stack, k)
    BY <1>4, <1>5 DEF SaturatingSub
  <2>. QED  BY <2>1, <2>2, <2>3
<1>7. Counted(t)
  <2>1. t.undo \in Seq(Steps) /\ t.undoTx = StackTxs(t.undo) /\ t.undoBytes = StackBytes(t.undo)
    BY <1>1, <1>3, <1>4, <1>6 DEF DroppedOk
  <2>2. t.undoTx <= t.head /\ t.head \in Nat  BY <1>1, <1>4, <1>5, <1>6
  <2>. QED  BY <1>1, <2>1, <2>2 DEF Counted
<1>8. Lo(t) = Lo(s) + TxsTo(stack, k) /\ Hi(t) = Hi(s) /\ Lo(s) \in Int /\ Hi(s) \in Int /\ Lo(s) <= Lo(t)
  BY <1>1, <1>4, <1>5, <1>6 DEF Lo, Hi
<1>9. /\ Len(t.undo) = Len(s.undo) - k /\ Len(t.undo) <= Len(s.undo)
      /\ t.undoBytes <= s.undoBytes
  <2>1. Len(t.undo) = Len(s.undo) - k  BY <1>1, <1>3 DEF DroppedOk
  <2>. QED  BY <1>4, <1>5, <1>6, <2>1
<1>10. ASSUME NEW tl, Laid(s.undo, Lo(s), tl) PROVE Laid(t.undo, Lo(t), tl)
  <2> DEFINE p == Lo(s)
  <2>1. p \in Int  BY <1>8
  <2>2. Laid(stack, p, tl)  BY <1>10
  <2> HIDE DEF p
  <2>3. Laid(less, p + TxsTo(stack, k), tl)  BY <1>2, <1>3, <2>1, <2>2, LaidDropped
  <2>. QED  BY <1>1, <1>8, <2>3 DEF p
<1>11. k = Len(s.undo) => t.undoBytes = 0
  <2>1. BytesTo(stack, Len(stack)) = s.undoBytes  BY <1>2, <1>4 DEF StackOk
  <2>. QED  BY <1>4, <1>6, <2>1
<1>12. /\ Hi(t) <= Hi(s) /\ Len(t.redo) <= Len(s.redo) /\ t.redoBytes <= s.redoBytes
  BY <1>1, <1>4, <1>8, CountedIs
<1>13. Narrowed(s, t)
  <2>1. \A tl : LaidDown(s.redo, Hi(s), tl) => LaidDown(t.redo, Hi(t), tl)  BY <1>1, <1>8
  <2>. QED  BY <1>1, <1>7, <1>8, <1>9, <1>10, <1>12, <2>1 DEF Narrowed
<1>. QED  BY <1>1, <1>9, <1>11, <1>13 DEF t

LEMMA DropRedoOk ==
  ASSUME NEW s, Counted(s), NEW k \in 0..Len(s.redo)
  PROVE  LET t == DropRedo(s, k)
         IN  /\ Narrowed(s, t) /\ Len(t.redo) = Len(s.redo) - k
             /\ t.undo = s.undo /\ t.undoBytes = s.undoBytes
             /\ k = Len(s.redo) => t.redoBytes = 0
<1> DEFINE t == DropRedo(s, k)
<1> DEFINE stack == s.redo
<1> DEFINE less == SubSeq(stack, k + 1, Len(stack))
<1>1. /\ t.redo = less /\ t.undo = s.undo /\ t.head = s.head /\ t.clean = s.clean
      /\ t.undoBytes = s.undoBytes /\ t.undoTx = s.undoTx /\ DOMAIN t = StoreFields
      /\ t.redoBytes = SaturatingSub(s.redoBytes, StackBytes(SubSeq(stack, 1, k)))
      /\ t.redoTx = s.redoTx - StackTxs(SubSeq(stack, 1, k))
  BY DEF Counted, StoreFields, DropRedo
<1>2. stack \in Seq(Steps) /\ StackOk(stack)  BY StackIs DEF Counted
<1>3. DroppedOk(stack, k, less)  BY <1>2, Dropped
<1> HIDE DEF t, less
<1>4. /\ s.redoTx = StackTxs(stack) /\ s.redoBytes = StackBytes(stack)
      /\ s.redoTx \in Nat /\ s.redoBytes \in Nat /\ s.head \in Nat /\ s.undoTx <= s.head
      /\ s.undoTx \in Nat /\ s.undoBytes \in Nat /\ Len(stack) \in Nat
  BY CountedIs DEF Counted
<1>5. /\ TxsTo(stack, k) \in Nat /\ TxsTo(stack, k) <= s.redoTx
      /\ BytesTo(stack, k) \in Nat /\ BytesTo(stack, k) <= s.redoBytes
  BY <1>2, <1>4 DEF StackOk
<1>6. t.redoTx = s.redoTx - TxsTo(stack, k) /\ t.redoBytes = s.redoBytes - BytesTo(stack, k)
  <2>1. t.redoTx = s.redoTx - TxsTo(stack, k)  BY <1>1, <1>3 DEF DroppedOk
  <2>2. t.redoBytes = SaturatingSub(s.redoBytes, BytesTo(stack, k))  BY <1>1, <1>3 DEF DroppedOk
  <2>3. SaturatingSub(s.redoBytes, BytesTo(stack, k)) = s.redoBytes - BytesTo(stack, k)
    BY <1>4, <1>5 DEF SaturatingSub
  <2>. QED  BY <2>1, <2>2, <2>3
<1>7. Counted(t)
  <2>1. t.redo \in Seq(Steps) /\ t.redoTx = StackTxs(t.redo) /\ t.redoBytes = StackBytes(t.redo)
    BY <1>1, <1>3, <1>4, <1>6 DEF DroppedOk
  <2>. QED  BY <1>1, <2>1 DEF Counted
<1>8. Hi(t) = Hi(s) - TxsTo(stack, k) /\ Lo(t) = Lo(s) /\ Lo(s) \in Int /\ Hi(s) \in Int /\ Hi(t) <= Hi(s)
  BY <1>1, <1>4, <1>5, <1>6 DEF Lo, Hi
<1>9. /\ Len(t.redo) = Len(s.redo) - k /\ Len(t.redo) <= Len(s.redo)
      /\ t.redoBytes <= s.redoBytes
  <2>1. Len(t.redo) = Len(s.redo) - k  BY <1>1, <1>3 DEF DroppedOk
  <2>. QED  BY <1>4, <1>5, <1>6, <2>1
<1>10. ASSUME NEW tl, LaidDown(s.redo, Hi(s), tl) PROVE LaidDown(t.redo, Hi(t), tl)
  <2> DEFINE p == Hi(s)
  <2>1. p \in Int  BY <1>8
  <2>2. LaidDown(stack, p, tl)  BY <1>10
  <2> HIDE DEF p
  <2>3. LaidDown(less, p - TxsTo(stack, k), tl)  BY <1>2, <1>3, <2>1, <2>2, LaidDropped
  <2>. QED  BY <1>1, <1>8, <2>3 DEF p
<1>11. k = Len(s.redo) => t.redoBytes = 0
  <2>1. BytesTo(stack, Len(stack)) = s.redoBytes  BY <1>2, <1>4 DEF StackOk
  <2>. QED  BY <1>4, <1>6, <2>1
<1>12. /\ Lo(s) <= Lo(t) /\ Len(t.undo) <= Len(s.undo) /\ t.undoBytes <= s.undoBytes
  BY <1>1, <1>4, <1>8, CountedIs
<1>13. Narrowed(s, t)
  <2>1. \A tl : Laid(s.undo, Lo(s), tl) => Laid(t.undo, Lo(t), tl)  BY <1>1, <1>8
  <2>. QED  BY <1>1, <1>7, <1>8, <1>9, <1>10, <1>12, <2>1 DEF Narrowed
<1>. QED  BY <1>1, <1>9, <1>11, <1>13 DEF t

(* The least of a non-empty set of numbers is one of them.                 *)
LEMMA LeastIsIn ==
  ASSUME NEW S, S \subseteq Nat, S # {}
  PROVE  (CHOOSE k \in S : \A j \in S : k <= j) \in S
<1>1. \E m \in S : \A k \in S : m <= k  BY LeastLength, ZenonT(20)
<1>. QED  BY <1>1, ZenonT(20)

LEMMA EnforceDepthOk ==
  ASSUME NEW s, Counted(s)
  PROVE  LET t == EnforceDepth(s)
         IN  Narrowed(s, t) /\ Len(t.undo) <= MAX_UNDO /\ Len(t.redo) <= MAX_UNDO
<1> DEFINE a == SaturatingSub(Len(s.undo), MAX_UNDO)
<1> DEFINE b == SaturatingSub(Len(s.redo), MAX_UNDO)
<1> DEFINE t == DropUndo(s, a)
<1> DEFINE u == DropRedo(t, b)
<1>1. Len(s.undo) \in Nat /\ Len(s.redo) \in Nat /\ MAX_UNDO \in Nat  BY CountedIs, UndoLimits
<1>2. /\ a \in 0..Len(s.undo) /\ Len(s.undo) - a <= MAX_UNDO
      /\ b \in 0..Len(s.redo) /\ Len(s.redo) - b <= MAX_UNDO
  BY <1>1 DEF SaturatingSub
<1>3. EnforceDepth(s) = u  BY DEF EnforceDepth
<1> HIDE DEF a, b
<1>4. Narrowed(s, t) /\ Len(t.undo) = Len(s.undo) - a /\ t.redo = s.redo  BY <1>2, DropUndoOk
<1> HIDE DEF t
<1>5. Counted(t) /\ b \in 0..Len(t.redo)  BY <1>2, <1>4 DEF Narrowed
<1>6. Narrowed(t, u) /\ Len(u.redo) = Len(t.redo) - b /\ u.undo = t.undo  BY <1>5, DropRedoOk
<1> HIDE DEF u
<1>7. Narrowed(s, u)  BY <1>4, <1>6, NarrowedTwice
<1>. QED  BY <1>2, <1>3, <1>4, <1>6, <1>7

LEMMA EnforceBytesOk ==
  ASSUME NEW s, Counted(s)
  PROVE  LET t == EnforceBytes(s)
         IN  Narrowed(s, t) /\ t.undoBytes + t.redoBytes <= MAX_UNDO_BYTES
<1> DEFINE Over(t) == t.undoBytes + t.redoBytes > MAX_UNDO_BYTES
<1> DEFINE R == {k \in 0 .. Len(s.redo) : ~Over(DropRedo(s, k)) \/ k = Len(s.redo)}
<1> DEFINE r == CHOOSE k \in R : \A j \in R : k <= j
<1> DEFINE t == DropRedo(s, r)
<1> DEFINE U == {k \in 0 .. Len(t.undo) : ~Over(DropUndo(t, k)) \/ k = Len(t.undo)}
<1> DEFINE u == CHOOSE k \in U : \A j \in U : k <= j
<1> DEFINE v == DropUndo(t, u)
<1>1. EnforceBytes(s) = v  BY ZenonT(20) DEF EnforceBytes
<1>2. Len(s.redo) \in Nat /\ Len(s.undo) \in Nat /\ MAX_UNDO_BYTES \in Nat  BY CountedIs, UndoLimits
<1>3. r \in R
  <2>1. R \subseteq Nat /\ Len(s.redo) \in R  BY <1>2
  <2>2. R # {}  BY <2>1
  <2> HIDE DEF R
  <2>. QED  BY <2>1, <2>2, LeastIsIn, ZenonT(20)
<1>4. r \in 0..Len(s.redo) /\ (~Over(DropRedo(s, r)) \/ r = Len(s.redo))
  <2> HIDE DEF r
  <2>. QED  BY <1>3
<1> HIDE DEF r, R
<1>5. Narrowed(s, t) /\ t.undo = s.undo /\ (r = Len(s.redo) => t.redoBytes = 0)
  BY <1>4, DropRedoOk
<1>6. ~Over(t) \/ t.redoBytes = 0  BY <1>4, <1>5
<1> HIDE DEF t
<1>7. Counted(t) /\ Len(t.undo) \in Nat /\ t.undoBytes \in Nat /\ t.redoBytes \in Nat
  BY <1>5, CountedIs DEF Narrowed
<1>8. u \in U
  <2>1. U \subseteq Nat /\ Len(t.undo) \in U  BY <1>7
  <2>2. U # {}  BY <2>1
  <2> HIDE DEF U
  <2>. QED  BY <2>1, <2>2, LeastIsIn, ZenonT(20)
<1>9. u \in 0..Len(t.undo) /\ (~Over(DropUndo(t, u)) \/ u = Len(t.undo))
  <2> HIDE DEF u
  <2>. QED  BY <1>8
<1> HIDE DEF u, U
<1>10. Narrowed(t, v) /\ v.redoBytes = t.redoBytes /\ (u = Len(t.undo) => v.undoBytes = 0)
  BY <1>7, <1>9, DropUndoOk
<1>11. ~Over(v) \/ v.undoBytes = 0  BY <1>9, <1>10
<1> HIDE DEF v
<1>12. v.undoBytes \in Nat  BY <1>10, CountedIs DEF Narrowed
<1>13. v.undoBytes + v.redoBytes <= MAX_UNDO_BYTES  BY <1>2, <1>6, <1>7, <1>10, <1>11, <1>12
<1>14. Narrowed(s, v)  BY <1>5, <1>10, NarrowedTwice
<1>. QED  BY <1>1, <1>13, <1>14

(* The clean position and the owner are no part of the layout.             *)
SameStacks(s, t) ==
  /\ DOMAIN t = StoreFields /\ t.undo = s.undo /\ t.redo = s.redo /\ t.head = s.head
  /\ t.undoBytes = s.undoBytes /\ t.redoBytes = s.redoBytes /\ t.undoTx = s.undoTx /\ t.redoTx = s.redoTx

LEMMA SameLayout ==
  ASSUME NEW s, NEW t, SameStacks(s, t), Counted(s)
  PROVE  /\ Counted(t) /\ Span(t) = Span(s) /\ (Limited(s) => Limited(t))
         /\ \A tl, text, top : Timeline(s, tl, text, top) => Timeline(t, tl, text, top)
<1>1. Lo(t) = Lo(s) /\ Hi(t) = Hi(s)  BY DEF SameStacks, Lo, Hi
<1>2. Span(t) = Span(s)  BY <1>1 DEF Span
<1>3. Counted(t) /\ (Limited(s) => Limited(t))  BY DEF SameStacks, Counted, Limited
<1>4. ASSUME NEW tl, NEW text, NEW top, Timeline(s, tl, text, top) PROVE Timeline(t, tl, text, top)
  BY <1>1, <1>2, <1>4 DEF Timeline, SameStacks
<1>. QED  BY <1>2, <1>3, <1>4

LEMMA EnforceLimitsOk ==
  ASSUME NEW s, NEW tl, NEW text, NEW top, NEW file, Good(s, tl, text, top, file)
  PROVE  DocOk(EnforceLimits(s), text, top, file)
<1> DEFINE t == EnforceDepth(s)
<1> DEFINE u == EnforceBytes(t)
<1> DEFINE v == InvalidateCleanPosAfterEviction(u)
<1>1. EnforceLimits(s) = v  BY DEF EnforceLimits
<1>2. Counted(s) /\ Timeline(s, tl, text, top) /\ Saved(s, tl, file) /\ top \in Nat /\ file \in 0..top
  BY DEF Good
<1>3. Narrowed(s, t) /\ Len(t.undo) <= MAX_UNDO /\ Len(t.redo) <= MAX_UNDO  BY <1>2, EnforceDepthOk
<1> HIDE DEF t
<1>4. Narrowed(t, u) /\ u.undoBytes + u.redoBytes <= MAX_UNDO_BYTES  BY <1>3, EnforceBytesOk, ZenonT(20) DEF Narrowed
<1> HIDE DEF u
<1>5. Narrowed(s, u) /\ Counted(u)  BY <1>2, <1>3, <1>4, NarrowedTwice DEF Narrowed
<1>6. Limited(u)
  <2>1. /\ Len(t.undo) \in Nat /\ Len(t.redo) \in Nat /\ Len(u.undo) \in Nat /\ Len(u.redo) \in Nat
        /\ MAX_UNDO \in Nat
    BY <1>3, <1>4, CountedIs, UndoLimits DEF Narrowed
  <2>2. Len(u.undo) <= Len(t.undo) /\ Len(u.redo) <= Len(t.redo)  BY <1>4 DEF Narrowed
  <2>. QED  BY <1>3, <1>4, <2>1, <2>2 DEF Limited
<1>7. /\ Lo(s) \in Nat /\ Hi(s) \in Nat /\ Lo(u) \in Nat /\ Hi(u) \in Nat
      /\ u.head \in Nat /\ u.undoTx \in Nat /\ u.redoTx \in Nat
  BY <1>2, <1>5, CountedIs
<1>8. Span(u) \subseteq Span(s) /\ u.clean = s.clean
  <2>1. Lo(s) <= Lo(u) /\ Hi(u) <= Hi(s) /\ u.clean = s.clean  BY <1>5 DEF Narrowed
  <2>. QED  BY <1>7, <2>1 DEF Span
<1>9. Timeline(u, tl, text, top)
  <2>1. u.head = s.head  BY <1>5 DEF Narrowed
  <2>2. Laid(u.undo, Lo(u), tl) /\ LaidDown(u.redo, Hi(u), tl)  BY <1>2, <1>5 DEF Narrowed, Timeline
  <2>. QED  BY <1>2, <1>8, <2>1, <2>2 DEF Timeline
<1> DEFINE out == u.clean # None /\ (u.clean < SaturatingSub(u.head, u.undoTx) \/ u.clean > u.head + u.redoTx)
<1>10. v = IF out THEN [u EXCEPT !.clean = None] ELSE u
  BY DEF InvalidateCleanPosAfterEviction
<1>11. SaturatingSub(u.head, u.undoTx) = Lo(u) /\ u.head + u.redoTx = Hi(u)
  <2>1. u.undoTx <= u.head  BY <1>5 DEF Counted
  <2>. QED  BY <1>7, <2>1 DEF SaturatingSub, Lo, Hi
<1>12. s.clean # None => s.clean \in Nat /\ s.clean \in Span(s) /\ tl[s.clean] = file
  BY <1>2, <1>7 DEF Saved, Span
<1> HIDE DEF v
<1>13. CASE out
  <2>1. v = [u EXCEPT !.clean = None]  BY <1>10, <1>13
  <2>2. SameStacks(u, v) /\ v.clean = None  BY <1>5, <2>1 DEF Counted, StoreFields, SameStacks
  <2>3. Counted(v) /\ Limited(v) /\ Timeline(v, tl, text, top) /\ Span(v) = Span(u)
    BY <1>5, <1>6, <1>9, <2>2, SameLayout
  <2>4. ASSUME NEW p \in Span(v) PROVE tl[p] # file
    <3>1. p \in Span(u) /\ p \in Span(s)  BY <1>8, <2>3
    <3>2. s.clean \in Nat /\ s.clean \in Span(s) /\ tl[s.clean] = file  BY <1>8, <1>12, <1>13
    <3>3. s.clean < Lo(u) \/ s.clean > Hi(u)  BY <1>8, <1>11, <1>13
    <3>4. p \in Nat /\ Lo(u) <= p /\ p <= Hi(u)  BY <1>7, <3>1 DEF Span
    <3>5. p < s.clean \/ s.clean < p  BY <1>7, <3>2, <3>3, <3>4
    <3>6. tl[p] < tl[s.clean] \/ tl[s.clean] < tl[p]  BY <1>2, <3>1, <3>2, <3>5 DEF Timeline
    <3>7. tl[p] \in Nat /\ tl[s.clean] \in Nat  BY <1>2, <3>2, <3>4 DEF Timeline
    <3>. QED  BY <3>2, <3>6, <3>7
  <2>5. Saved(v, tl, file)  BY <2>2, <2>4 DEF Saved
  <2>. QED  BY <1>1, <1>2, <2>3, <2>5 DEF DocOk, Good
<1>14. CASE ~out
  <2>1. v = u  BY <1>10, <1>14
  <2>2. Saved(u, tl, file)
    <3>1. CASE u.clean = None
      BY <1>2, <1>8, <3>1 DEF Saved
    <3>2. CASE u.clean # None
      <4>1. s.clean \in Nat /\ tl[s.clean] = file  BY <1>8, <1>12, <3>2
      <4>2. ~(s.clean < Lo(u)) /\ ~(s.clean > Hi(u))  BY <1>8, <1>11, <1>14, <3>2
      <4>3. s.clean \in Span(u)  BY <1>7, <4>1, <4>2 DEF Span
      <4>. QED  BY <1>8, <3>2, <4>1, <4>3 DEF Saved
    <3>. QED  BY <3>1, <3>2
  <2>. QED  BY <1>1, <1>2, <1>5, <1>6, <1>9, <2>1, <2>2 DEF DocOk, Good
<1>. QED  BY <1>13, <1>14

-----------------------------------------------------------------------------
(* The operations of a history.                                            *)

LEMMA EmptyStack ==
  /\ <<>> \in Seq(Steps) /\ Len(<<>>) = 0 /\ StackTxs(<<>>) = 0 /\ StackBytes(<<>>) = 0
  /\ \A p, tl : Laid(<<>>, p, tl) /\ LaidDown(<<>>, p, tl)
<1>1. <<>> \in Seq(Steps) /\ Len(<<>>) = 0  BY EmptySeq
<1> DEFINE e == <<>>
<1>2. e \in Seq(Steps) /\ Len(e) = 0  BY <1>1
<1> HIDE DEF e
<1>3. StackOk(e)  BY <1>2, StackIs, ZenonT(20)
<1>4. StackTxs(e) = 0 /\ StackBytes(e) = 0  BY <1>2, <1>3 DEF StackOk
<1>5. \A p, tl : Laid(e, p, tl) /\ LaidDown(e, p, tl)  BY <1>2 DEF Laid, LaidDown
<1>. QED  BY <1>2, <1>4, <1>5 DEF e

LEMMA OneTx ==
  ASSUME NEW tx \in Txs
  PROVE  <<tx>> \in Steps /\ Len(<<tx>>) = 1 /\ StepBytes(<<tx>>) = tx.weight
<1>1. <<tx>> \in Steps /\ Len(<<tx>>) = 1  BY DEF Steps
<1> DEFINE e == <<>>
<1>2. e \in Seq(Txs) /\ Len(e) = 0  BY EmptySeq
<1>3. Append(e, tx) = <<tx>>  OBVIOUS
<1> HIDE DEF e
<1> DEFINE w == StepWeights(e)
<1>4. w \in Seq(Nat) /\ Len(w) = 0  BY <1>2, StepBytesNat, ZenonT(20)
<1>5. StepBytes(e) = Sums(w)[Len(w)]  BY DEF StepBytes, Total, StepWeights
<1> HIDE DEF w
<1>6. SumsOk(Sums(w), w, Len(w))  BY <1>4, SumsAre, ZenonT(20)
<1>7. StepBytes(e) = 0  BY <1>4, <1>5, <1>6 DEF SumsOk
<1>8. StepBytes(Append(e, tx)) = StepBytes(e) + tx.weight  BY <1>2, StepBytesAppend, ZenonT(20)
<1>9. tx.weight \in Nat  BY DEF Txs
<1>. QED  BY <1>1, <1>3, <1>7, <1>8, <1>9

(* The undo stack one transaction longer, in a step of its own or merged.  *)
LongerOk(stack, tx, more, start) ==
  /\ more \in Seq(Steps)
  /\ StackTxs(more) = StackTxs(stack) + 1 /\ StackBytes(more) = StackBytes(stack) + tx.weight
  /\ \A tm : /\ Laid(stack, start, tm)
             /\ tx.from = tm[start + StackTxs(stack)] /\ tx.to = tm[start + StackTxs(stack) + 1]
             => Laid(more, start, tm)

LEMMA Longer ==
  ASSUME NEW stack \in Seq(Steps), NEW tx \in Txs, NEW merge, NEW start \in Int
  PROVE  LongerOk(stack, tx, PushTx(stack, tx, merge /\ stack # <<>>), start)
<1>1. StackOk(stack) /\ StackTxs(stack) \in Nat  BY StackIs DEF StackOk
<1>2. CASE merge /\ stack # <<>>
  <2> DEFINE more == [stack EXCEPT ![Len(stack)] = Append(stack[Len(stack)], tx)]
  <2>1. MergedOk(stack, tx, more)  BY <1>2, Merged
  <2> HIDE DEF more
  <2>2. ASSUME NEW tm, Laid(stack, start, tm),
               tx.from = tm[start + StackTxs(stack)], tx.to = tm[start + StackTxs(stack) + 1]
        PROVE  Laid(more, start, tm)
    BY <1>1, <1>2, <2>1, <2>2, LaidMerged
  <2>3. LongerOk(stack, tx, more, start)  BY <2>1, <2>2 DEF LongerOk, MergedOk
  <2>. QED  BY <1>2, <2>3 DEF more, PushTx
<1>3. CASE ~(merge /\ stack # <<>>)
  <2> DEFINE step == <<tx>>
  <2> DEFINE more == Append(stack, step)
  <2>1. step \in Steps /\ Len(step) = 1 /\ StepBytes(step) = tx.weight /\ step[1] = tx  BY OneTx
  <2>2. PushedOk(stack, step, more)  BY <2>1, Pushed
  <2> HIDE DEF more, step
  <2>3. ASSUME NEW tm, Laid(stack, start, tm),
               tx.from = tm[start + StackTxs(stack)], tx.to = tm[start + StackTxs(stack) + 1]
        PROVE  Laid(more, start, tm)
    <3> DEFINE q == start + StackTxs(stack)
    <3>1. q + 1 - 1 = q  BY <1>1
    <3>2. tx.from = tm[q] /\ tx.to = tm[q + 1]  BY <2>3
    <3> HIDE DEF q
    <3>3. StepAt(step, q, tm)  BY <2>1, <3>1, <3>2 DEF StepAt
    <3>. QED  BY <1>1, <2>2, <2>3, <3>3, LaidPushed DEF q
  <2>4. LongerOk(stack, tx, more, start)  BY <2>1, <2>2, <2>3 DEF LongerOk, PushedOk
  <2>. QED  BY <1>3, <2>4 DEF more, step, PushTx
<1>. QED  BY <1>2, <1>3

(* record_transaction of a new text.                                       *)
LEMMA RecordOk ==
  ASSUME NEW s, NEW tl, NEW text, NEW top, NEW file, Good(s, tl, text, top, file),
         NEW w \in Nat, NEW merge
  PROVE  DocOk(RecordTransaction(s, Tx(text, top + 1, w), merge), top + 1, top + 1, file)
<1> DEFINE new == top + 1
<1> DEFINE tx == Tx(text, new, w)
<1> DEFINE b == LeaveBranch(s)
<1> DEFINE more == PushTx(b.undo, tx, merge /\ b.undo # <<>>)
<1> DEFINE d == ClearRedo([b EXCEPT !.undo = more, !.undoBytes = @ + tx.weight, !.head = @ + 1, !.undoTx = @ + 1])
<1>1. RecordTransaction(s, tx, merge) = EnforceLimits(d)
  BY DEF RecordTransaction, Merges
<1>2. Counted(s) /\ Timeline(s, tl, text, top) /\ Saved(s, tl, file) /\ top \in Nat /\ file \in 0..top
  BY DEF Good
<1>3. /\ s.undoTx \in Nat /\ s.redoTx \in Nat /\ s.undoBytes \in Nat /\ s.redoBytes \in Nat /\ s.head \in Nat
      /\ Lo(s) \in Nat /\ Hi(s) \in Nat /\ s.head \in Span(s) /\ Span(s) \subseteq Nat
      /\ StackOk(s.undo) /\ s.undo \in Seq(Steps)
  BY <1>2, CountedIs DEF Counted
<1>4. tl[s.head] = text /\ text \in Nat /\ text <= top  BY <1>2, <1>3, ZenonT(20) DEF Timeline
<1>5. tx \in Txs /\ tx.from = text /\ tx.to = new /\ tx.weight = w /\ new \in Nat
  BY <1>2, <1>4 DEF Tx, Txs
<1> HIDE DEF tx
<1>6. SameStacks(s, b) /\ b.clean = (IF s.redo # <<>> /\ s.clean # None /\ s.clean > s.head THEN None ELSE s.clean)
  BY <1>2 DEF LeaveBranch, SameStacks, Counted, StoreFields
<1> HIDE DEF b
<1>7. LongerOk(s.undo, tx, more, Lo(s))
  <2> DEFINE stack == b.undo
  <2> DEFINE start == Lo(s)
  <2>1. stack \in Seq(Steps) /\ start \in Int /\ stack = s.undo  BY <1>3, <1>6 DEF SameStacks
  <2> HIDE DEF stack, start
  <2>2. LongerOk(stack, tx, PushTx(stack, tx, merge /\ stack # <<>>), start)
    BY <1>5, <2>1, Longer, ZenonT(20)
  <2>. QED  BY <2>1, <2>2 DEF stack, start
<1> HIDE DEF more
<1>8. /\ DOMAIN d = StoreFields /\ d.undo = more /\ d.redo = <<>> /\ d.redoBytes = 0 /\ d.redoTx = 0
      /\ d.undoBytes = s.undoBytes + w /\ d.head = s.head + 1 /\ d.undoTx = s.undoTx + 1 /\ d.clean = b.clean
  BY <1>5, <1>6 DEF SameStacks, StoreFields, ClearRedo
<1> HIDE DEF d
<1>9. Counted(d)
  <2>1. d.undo \in Seq(Steps) /\ d.undoTx = StackTxs(d.undo) /\ d.undoBytes = StackBytes(d.undo)
    BY <1>2, <1>5, <1>7, <1>8 DEF LongerOk, Counted
  <2>2. d.redo \in Seq(Steps) /\ d.redoTx = StackTxs(d.redo) /\ d.redoBytes = StackBytes(d.redo)
    BY <1>8, EmptyStack
  <2>3. d.head \in Nat /\ d.undoTx <= d.head
    <3>1. s.undoTx <= s.head /\ s.undoTx \in Nat /\ s.head \in Nat  BY <1>2, <1>3 DEF Counted
    <3>2. d.head = s.head + 1 /\ d.undoTx = s.undoTx + 1  BY <1>8
    <3>. QED  BY <3>1, <3>2
  <2>. QED  BY <1>8, <2>1, <2>2, <2>3 DEF Counted
<1> DEFINE h == s.head
<1>10. Lo(d) = Lo(s) /\ Hi(d) = h + 1 /\ Lo(s) + StackTxs(s.undo) = h /\ Lo(s) <= h /\ h <= Hi(s)
  <2>1. s.undoTx = StackTxs(s.undo) /\ s.undoTx <= s.head  BY <1>2 DEF Counted
  <2>2. s.undoTx \in Nat /\ s.redoTx \in Nat /\ s.head \in Nat  BY <1>3
  <2>3. d.head = s.head + 1 /\ d.undoTx = s.undoTx + 1 /\ d.redoTx = 0  BY <1>8
  <2>. QED  BY <2>1, <2>2, <2>3 DEF Lo, Hi
<1>11. \A p \in Span(d) : p = h + 1 \/ (p \in Span(s) /\ p <= h /\ p \in Nat /\ p # h + 1)
  BY <1>3, <1>10 DEF Span
<1> DEFINE tm == [tl EXCEPT ![h + 1] = new]
<1>12. /\ tl \in [Nat -> Nat] /\ tm \in [Nat -> Nat] /\ tm[h + 1] = new
       /\ \A p \in Nat : p # h + 1 => tm[p] = tl[p]
  <2>1. tl \in [Nat -> Nat]  BY <1>2 DEF Timeline
  <2>2. h + 1 \in Nat  BY <1>3
  <2>. QED  BY <1>5, <2>1, <2>2
<1> HIDE DEF tm
<1>13. \A p \in Span(s) : tl[p] \in Nat /\ tl[p] <= top  BY <1>2, <1>3, <1>12 DEF Timeline
<1>14. Laid(d.undo, Lo(d), tm)
  <2>1. Laid(s.undo, Lo(s), tm)
    <3> DEFINE start == Lo(s)
    <3> DEFINE stack == s.undo
    <3>1. start \in Int /\ StackOk(stack) /\ Laid(stack, start, tl)  BY <1>2, <1>3 DEF Timeline
    <3>2. \A p \in start..(start + StackTxs(stack)) : tm[p] = tl[p]
      <4>1. start + StackTxs(stack) = h /\ start \in Nat /\ h \in Nat  BY <1>3, <1>10
      <4>2. \A p \in start..h : p \in Nat /\ p # h + 1  BY <4>1
      <4>3. \A p \in Nat : p # h + 1 => tm[p] = tl[p]  BY <1>12
      <4>. QED  BY <4>1, <4>2, <4>3, ZenonT(20)
    <3> HIDE DEF start, stack
    <3>3. Laid(stack, start, tm)  BY <3>1, <3>2, LaidSpan
    <3>. QED  BY <3>3 DEF start, stack
  <2>2. tm[h] = text
    <3>1. h \in Nat /\ h # h + 1  BY <1>3
    <3>2. tm[h] = tl[h]  BY <1>12, <3>1, ZenonT(20)
    <3>. QED  BY <1>4, <3>2
  <2>3. tx.from = tm[Lo(s) + StackTxs(s.undo)] /\ tx.to = tm[Lo(s) + StackTxs(s.undo) + 1]
    BY <1>5, <1>10, <1>12, <2>2
  <2>. QED  BY <1>7, <1>8, <1>10, <2>1, <2>3 DEF LongerOk
<1>15. Timeline(d, tm, new, new)
  <2>1. \A p \in Span(d) : tm[p] \in Nat /\ tm[p] <= new /\ (p # h + 1 => tm[p] = tl[p] /\ tl[p] < new)
    BY <1>2, <1>5, <1>11, <1>12, <1>13
  <2>2. ASSUME NEW p \in Span(d), NEW q \in Span(d), p < q PROVE tm[p] < tm[q]
    <3>1. p \in Span(s) /\ p # h + 1  BY <1>3, <1>11, <2>2
    <3>2. CASE q = h + 1
      BY <1>12, <2>1, <3>1, <3>2
    <3>3. CASE q # h + 1
      <4>1. q \in Span(s)  BY <1>11, <3>3
      <4>2. tl[p] < tl[q]  BY <1>2, <2>2, <3>1, <4>1 DEF Timeline
      <4>. QED  BY <2>1, <3>1, <3>3, <4>2
    <3>. QED  BY <3>2, <3>3
  <2>3. LaidDown(d.redo, Hi(d), tm)  BY <1>8, EmptyStack
  <2>. QED  BY <1>8, <1>12, <1>14, <2>1, <2>2, <2>3, ZenonT(20) DEF Timeline
<1>16. Saved(d, tm, file)
  <2>1. file \in Nat /\ new # file  BY <1>2
  <2>2. CASE b.clean = None
    <3>1. ASSUME NEW p \in Span(d) PROVE tm[p] # file
      <4>1. CASE p = h + 1
        BY <1>12, <2>1, <4>1
      <4>2. CASE p # h + 1
        <5>1. p \in Span(s) /\ p <= h /\ p \in Nat /\ tm[p] = tl[p]  BY <1>11, <1>12, <4>2
        <5>2. CASE s.clean = None
          BY <1>2, <5>1, <5>2 DEF Saved
        <5>3. CASE s.clean # None
          <6>1. s.clean \in Span(s) /\ tl[s.clean] = file /\ s.clean > h  BY <1>2, <1>6, <2>2, <5>3 DEF Saved
          <6>2. p < s.clean  BY <1>3, <5>1, <6>1
          <6>3. tl[p] < tl[s.clean]  BY <1>2, <5>1, <6>1, <6>2, ZenonT(20) DEF Timeline
          <6>. QED  BY <1>13, <2>1, <5>1, <6>1, <6>3
        <5>. QED  BY <5>2, <5>3
      <4>. QED  BY <4>1, <4>2
    <3>. QED  BY <1>8, <2>2, <3>1 DEF Saved
  <2>3. CASE b.clean # None
    <3>1. b.clean = s.clean /\ s.clean \in Span(s) /\ tl[s.clean] = file
      BY <1>2, <1>6, <2>3 DEF Saved
    <3>2. s.clean \in Nat /\ s.clean <= h
      <4>1. CASE s.redo = <<>>
        <5>1. s.redoTx = 0  BY <1>2, <4>1, EmptyStack DEF Counted
        <5>. QED  BY <1>3, <3>1, <5>1 DEF Span, Hi
      <4>2. CASE s.redo # <<>>
        <5>1. ~(s.clean > h)  BY <1>6, <2>3, <3>1, <4>2
        <5>. QED  BY <1>3, <3>1, <5>1
      <4>. QED  BY <4>1, <4>2
    <3>3. s.clean \in Span(d) /\ s.clean # h + 1  BY <1>3, <1>10, <3>1, <3>2 DEF Span
    <3>4. tm[s.clean] = file  BY <1>12, <3>1, <3>2, <3>3
    <3>. QED  BY <1>8, <2>3, <3>1, <3>3, <3>4 DEF Saved
  <2>. QED  BY <2>2, <2>3
<1>17. Good(d, tm, new, new, file)
  <2>1. file \in 0..new  BY <1>2
  <2>. QED  BY <1>5, <1>9, <1>15, <1>16, <2>1 DEF Good
<1>18. DocOk(EnforceLimits(d), new, new, file)  BY <1>17, EnforceLimitsOk
<1>. QED  BY <1>1, <1>18 DEF tx

(* Applying transactions, one after the other.                             *)
TextStep(text, txs, g, k) == IF k = 0 THEN text ELSE Apply(g[k - 1], txs[k])

(* The recursive function of ApplyAll exists.                              *)
LEMMA TextsExist ==
  ASSUME NEW text, NEW txs, NEW n \in Nat
  PROVE  \E g : g = [k \in 0..n |-> TextStep(text, txs, g, k)]
<1> DEFINE P(k) == \E g : g = [i \in 0..k |-> TextStep(text, txs, g, i)]
<1> DEFINE T == {k \in Nat : ~P(k)}
<1> SUFFICES ASSUME T # {} PROVE FALSE
  OBVIOUS
<1>1. PICK m \in T : \A k \in T : m <= k
  <2>1. T \subseteq Nat  OBVIOUS
  <2> HIDE DEF T
  <2>. QED  BY <2>1, LeastLength, ZenonT(20)
<1>2. m # 0
  <2> DEFINE g == [i \in 0..0 |-> text]
  <2>1. g = [i \in 0..0 |-> TextStep(text, txs, g, i)]  BY DEF TextStep
  <2>. QED  BY <1>1, <2>1, ZenonT(20)
<1>3. m \in Nat /\ m - 1 \in Nat /\ P(m - 1)  BY <1>1, <1>2
<1>4. PICK g : g = [i \in 0..(m - 1) |-> TextStep(text, txs, g, i)]  BY <1>3
<1> DEFINE h == [i \in 0..m |-> IF i = m THEN TextStep(text, txs, g, m) ELSE g[i]]
<1>5. \A i \in 0..m : h[i] = TextStep(text, txs, h, i)
  <2> SUFFICES ASSUME NEW i \in 0..m PROVE h[i] = TextStep(text, txs, h, i)
    OBVIOUS
  <2>1. \A j \in 0..(m - 1) : g[j] = TextStep(text, txs, g, j)  BY <1>4
  <2>2. CASE i = m
    <3>1. h[i] = TextStep(text, txs, g, m) /\ h[m - 1] = g[m - 1]  BY <1>3, <2>2
    <3> HIDE DEF h
    <3>. QED  BY <1>2, <2>2, <3>1 DEF TextStep
  <2>3. CASE i # m /\ i # 0
    <3>1. h[i - 1] = g[i - 1] /\ h[i] = g[i] /\ i \in 0..(m - 1)  BY <1>3, <2>3
    <3> HIDE DEF h
    <3>. QED  BY <2>1, <2>3, <3>1 DEF TextStep
  <2>4. CASE i = 0
    <3>1. h[0] = g[0] /\ 0 \in 0..(m - 1)  BY <1>2, <1>3
    <3> HIDE DEF h
    <3>. QED  BY <2>1, <2>4, <3>1 DEF TextStep
  <2>. QED  BY <2>2, <2>3, <2>4
<1>6. h = [i \in 0..m |-> TextStep(text, txs, h, i)]
  <2>1. h = [i \in 0..m |-> h[i]]  OBVIOUS
  <2> HIDE DEF h
  <2>. QED  BY <1>5, <2>1
<1>. QED  BY <1>1, <1>6, ZenonT(20)

(* Transactions each made on the text the one before gives lead through    *)
(* those texts.                                                            *)
LEMMA ApplyAllOk ==
  ASSUME NEW txs, Len(txs) \in Nat, NEW at,
         \A k \in 1..Len(txs) : txs[k].from = at[k - 1] /\ txs[k].to = at[k]
  PROVE  ApplyAll(at[0], txs) = at[Len(txs)]
<1> DEFINE n == Len(txs)
<1> DEFINE text == at[0]
<1>1. PICK g : g = [i \in 0..n |-> TextStep(text, txs, g, i)] /\ ApplyAll(text, txs) = g[n]
  <2>1. \E g : g = [i \in 0..n |-> TextStep(text, txs, g, i)]  BY TextsExist, ZenonT(20)
  <2>. QED  BY <2>1, ZenonT(20) DEF ApplyAll, TextStep
<1>2. \A i \in 0..n : g[i] = TextStep(text, txs, g, i)  BY <1>1
<1> DEFINE T == {k \in Nat : k <= n /\ g[k] # at[k]}
<1>3. T = {}
  <2> SUFFICES ASSUME T # {} PROVE FALSE
    OBVIOUS
  <2>1. PICK m \in T : \A k \in T : m <= k
    <3>1. T \subseteq Nat  OBVIOUS
    <3> HIDE DEF T
    <3>. QED  BY <3>1, LeastLength, ZenonT(20)
  <2>2. m \in Nat /\ m <= n /\ g[m] # at[m] /\ g[m] = TextStep(text, txs, g, m)  BY <1>2, <2>1
  <2>3. m # 0  BY <2>2 DEF TextStep
  <2>4. m - 1 \in Nat /\ m - 1 <= n /\ m - 1 \notin T /\ m \in 1..n  BY <2>1, <2>2, <2>3
  <2>5. g[m - 1] = at[m - 1]  BY <2>4
  <2>6. txs[m].from = at[m - 1] /\ txs[m].to = at[m]  BY <2>4
  <2>7. g[m] = Apply(g[m - 1], txs[m])  BY <2>2, <2>3 DEF TextStep
  <2>. QED  BY <2>2, <2>5, <2>6, <2>7 DEF Apply
<1>4. g[n] = at[n]  BY <1>3
<1>. QED  BY <1>1, <1>4

(* The text after a step is undone, and after it is redone.                *)
LEMMA StepTexts ==
  ASSUME NEW step \in Seq(Txs), NEW p \in Int, NEW tl, StepAt(step, p, tl)
  PROVE  /\ ApplyAll(tl[p + Len(step)], Inverses(step)) = tl[p]
         /\ ApplyAll(tl[p], step) = tl[p + Len(step)]
<1> DEFINE n == Len(step)
<1>1. n \in Nat /\ DOMAIN step = 1..n /\ \A k \in 1..n : step[k] \in Txs
  BY LenProperties, ElementOfSeq
<1>2. ApplyAll(tl[p], step) = tl[p + n]
  <2> DEFINE at == [k \in 0..n |-> tl[p + k]]
  <2>1. \A k \in 1..n : step[k].from = at[k - 1] /\ step[k].to = at[k]
    <3> SUFFICES ASSUME NEW k \in 1..n PROVE step[k].from = at[k - 1] /\ step[k].to = at[k]
      BY ZenonT(20)
    <3>1. k \in 0..n /\ k - 1 \in 0..n /\ p + (k - 1) = p + k - 1  BY <1>1
    <3>2. step[k].from = tl[p + k - 1] /\ step[k].to = tl[p + k]  BY DEF StepAt
    <3>. QED  BY <3>1, <3>2
  <2>2. at[0] = tl[p] /\ at[n] = tl[p + n]
    <3>1. 0 \in 0..n /\ n \in 0..n /\ p + 0 = p  BY <1>1
    <3>. QED  BY <3>1
  <2> HIDE DEF at
  <2>3. ApplyAll(at[0], step) = at[n]  BY <1>1, <2>1, ApplyAllOk
  <2>. QED  BY <2>2, <2>3
<1>3. ApplyAll(tl[p + n], Inverses(step)) = tl[p]
  <2> DEFINE inv == Inverses(step)
  <2> DEFINE at == [k \in 0..n |-> tl[p + n - k]]
  <2>1. inv = [k \in 1..n |-> Tx(step[n + 1 - k].to, step[n + 1 - k].from, step[n + 1 - k].weight)]
    BY <1>1 DEF Inverses
  <2>2. \A k \in 1..n : n + 1 - k \in 1..n  BY <1>1
  <2>3. inv \in Seq(Txs) /\ Len(inv) = n
    <3>1. \A k \in 1..n : Tx(step[n + 1 - k].to, step[n + 1 - k].from, step[n + 1 - k].weight) \in Txs
      BY <1>1, <2>2, ZenonT(20) DEF Txs, Tx
    <3>2. inv \in [1..n -> Txs]  BY <2>1, <3>1
    <3> HIDE DEF inv
    <3>. QED  BY <1>1, <3>2, IsASeq, LenProperties
  <2>4. \A k \in 1..n : inv[k].from = at[k - 1] /\ inv[k].to = at[k]
    <3> SUFFICES ASSUME NEW k \in 1..n PROVE inv[k].from = at[k - 1] /\ inv[k].to = at[k]
      BY ZenonT(20)
    <3> DEFINE j == n + 1 - k
    <3>1. /\ k \in 0..n /\ k - 1 \in 0..n /\ j \in 1..n
          /\ p + j = p + n - (k - 1) /\ p + j - 1 = p + n - k
      BY <1>1
    <3>2. inv[k].from = step[j].to /\ inv[k].to = step[j].from  BY <2>1 DEF Tx
    <3> HIDE DEF j, inv
    <3>3. step[j].from = tl[p + j - 1] /\ step[j].to = tl[p + j]  BY <3>1 DEF StepAt
    <3>4. at[k - 1] = tl[p + n - (k - 1)] /\ at[k] = tl[p + n - k]  BY <3>1
    <3>. QED  BY <3>1, <3>2, <3>3, <3>4
  <2>5. at[0] = tl[p + n] /\ at[n] = tl[p]
    <3>1. 0 \in 0..n /\ n \in 0..n /\ p + n - 0 = p + n /\ p + n - n = p  BY <1>1
    <3>. QED  BY <3>1
  <2> HIDE DEF at, inv
  <2>6. ApplyAll(at[0], inv) = at[n]  BY <1>1, <2>3, <2>4, ApplyAllOk
  <2>. QED  BY <2>5, <2>6 DEF inv
<1>. QED  BY <1>2, <1>3

(* The last step of a stack.                                               *)
LEMMA LastStep ==
  ASSUME NEW stack \in Seq(Steps), stack # <<>>
  PROVE  /\ Len(stack) \in 1..Len(stack) /\ Len(stack) \in Nat /\ Last(stack) = stack[Len(stack)]
         /\ Last(stack) \in Steps /\ Last(stack) \in Seq(Txs) /\ Len(Last(stack)) \in Nat
         /\ StepBytes(Last(stack)) \in Nat
         /\ StackTxs(stack) = StackTxs(Front(stack)) + Len(Last(stack))
         /\ StackBytes(stack) = StackBytes(Front(stack)) + StepBytes(Last(stack))
         /\ StackTxs(Front(stack)) \in Nat /\ StackBytes(Front(stack)) \in Nat
         /\ TxsTo(stack, Len(stack) - 1) = StackTxs(Front(stack))
         /\ TxsTo(stack, Len(stack)) = StackTxs(stack)
<1>1. Len(stack) \in 1..Len(stack) /\ Len(stack) \in Nat /\ Last(stack) = stack[Len(stack)]
  BY EmptySeq, LenProperties DEF Last
<1>2. Last(stack) \in Steps  BY <1>1, ElementOfSeq
<1>3. Last(stack) \in Seq(Txs) /\ Len(Last(stack)) \in Nat  BY <1>2, LenProperties DEF Steps
<1>4. StepBytes(Last(stack)) \in Nat  BY <1>3, StepBytesNat
<1>5. StackOk(stack) /\ PoppedOk(stack, Front(stack))  BY StackIs, Popped
<1>6. StackOk(Front(stack))
  <2> DEFINE less == Front(stack)
  <2>1. less \in Seq(Steps)  BY <1>5 DEF PoppedOk
  <2> HIDE DEF less
  <2>2. StackOk(less)  BY <2>1, StackIs
  <2>. QED  BY <2>2 DEF less
<1>. QED  BY <1>1, <1>2, <1>3, <1>4, <1>5, <1>6 DEF StackOk, PoppedOk

(* The head moves along the timeline.                                      *)
LEMMA Moved ==
  ASSUME NEW s, NEW tl, NEW text, NEW top, NEW file, Good(s, tl, text, top, file),
         NEW d, Counted(d), Lo(d) = Lo(s), Hi(d) = Hi(s), d.clean = s.clean,
         Laid(d.undo, Lo(s), tl), LaidDown(d.redo, Hi(s), tl)
  PROVE  Good(d, tl, tl[d.head], top, file)
<1>1. Span(d) = Span(s)  BY DEF Span
<1>2. Timeline(d, tl, tl[d.head], top)  BY <1>1 DEF Good, Timeline
<1>3. Saved(d, tl, file)  BY <1>1 DEF Good, Saved
<1>. QED  BY <1>2, <1>3 DEF Good

(* TxnUndoStore::undo keeps a good history and shows the text before the   *)
(* step.                                                                   *)
LEMMA UndoOk ==
  ASSUME NEW s, NEW tl, NEW text, NEW top, NEW file, Good(s, tl, text, top, file), s.undo # <<>>
  PROVE  DocOk(UndoStep(s), UndoText(s, text), top, file)
<1> DEFINE step == Last(s.undo)
<1> DEFINE less == Front(s.undo)
<1> DEFINE more == Append(s.redo, step)
<1> DEFINE n == Len(step)
<1> DEFINE d == [s EXCEPT !.owner = None, !.undo = less, !.undoBytes = SaturatingSub(@, StepBytes(step)),
                          !.undoTx = @ - n, !.head = @ - n, !.redoBytes = @ + StepBytes(step),
                          !.redoTx = @ + n, !.redo = more]
<1>1. UndoStep(s) = EnforceLimits(d)  BY DEF UndoStep
<1>2. Counted(s) /\ Timeline(s, tl, text, top)  BY DEF Good
<1>3. /\ s.undoTx \in Nat /\ s.redoTx \in Nat /\ s.undoBytes \in Nat /\ s.redoBytes \in Nat /\ s.head \in Nat
      /\ Lo(s) \in Nat /\ Hi(s) \in Nat /\ StackOk(s.undo) /\ StackOk(s.redo)
  BY <1>2, CountedIs
<1>4. /\ DOMAIN s = StoreFields /\ s.undo \in Seq(Steps) /\ s.redo \in Seq(Steps)
      /\ s.undoBytes = StackBytes(s.undo) /\ s.redoBytes = StackBytes(s.redo)
      /\ s.undoTx = StackTxs(s.undo) /\ s.redoTx = StackTxs(s.redo) /\ s.undoTx <= s.head
  BY <1>2 DEF Counted
<1>5. /\ DOMAIN d = StoreFields /\ d.undo = less /\ d.redo = more /\ d.clean = s.clean
      /\ d.undoBytes = SaturatingSub(s.undoBytes, StepBytes(step)) /\ d.redoBytes = s.redoBytes + StepBytes(step)
      /\ d.undoTx = s.undoTx - n /\ d.redoTx = s.redoTx + n /\ d.head = s.head - n
  BY <1>4 DEF StoreFields
<1> HIDE DEF d
<1>6. /\ step \in Steps /\ step \in Seq(Txs) /\ n \in Nat /\ StepBytes(step) \in Nat
      /\ s.undoTx = StackTxs(less) + n /\ s.undoBytes = StackBytes(less) + StepBytes(step)
      /\ StackTxs(less) \in Nat /\ StackBytes(less) \in Nat
      /\ TxsTo(s.undo, Len(s.undo) - 1) = StackTxs(less)
      /\ Len(s.undo) \in 1..Len(s.undo) /\ step = s.undo[Len(s.undo)]
  BY <1>4, LastStep
<1>7. PoppedOk(s.undo, less)  BY <1>4, Popped
<1>8. PushedOk(s.redo, step, more)  BY <1>4, <1>6, Pushed
<1> HIDE DEF less, more, step
<1>9. Counted(d)
  <2>1. less \in Seq(Steps) /\ more \in Seq(Steps)  BY <1>7, <1>8 DEF PoppedOk, PushedOk
  <2>2. d.undoBytes = StackBytes(d.undo) /\ d.undoTx = StackTxs(d.undo)  BY <1>5, <1>6 DEF SaturatingSub
  <2>3. d.redoBytes = StackBytes(d.redo) /\ d.redoTx = StackTxs(d.redo)  BY <1>4, <1>5, <1>8 DEF PushedOk
  <2>4. d.head \in Nat /\ d.undoTx <= d.head
    <3>1. \A a, b, c, m \in Nat : b = c + m /\ b <= a => a - m \in Nat /\ b - m <= a - m  OBVIOUS
    <3>2. s.undoTx = StackTxs(less) + n /\ s.undoTx <= s.head  BY <1>4, <1>6
    <3>3. s.head - n \in Nat /\ s.undoTx - n <= s.head - n  BY <1>3, <1>6, <3>1, <3>2, ZenonT(20)
    <3>4. d.head = s.head - n /\ d.undoTx = s.undoTx - n  BY <1>5
    <3>. QED  BY <3>3, <3>4, ZenonT(20)
  <2>. QED  BY <1>5, <2>1, <2>2, <2>3, <2>4 DEF Counted
<1>10. Lo(d) = Lo(s) /\ Hi(d) = Hi(s) /\ Lo(s) + StackTxs(less) = s.head - n /\ Hi(s) - StackTxs(more) = s.head - n
  <2>1. StackTxs(more) = s.redoTx + n  BY <1>4, <1>8 DEF PushedOk
  <2>2. /\ s.undoTx = StackTxs(less) + n /\ s.undoTx \in Nat /\ s.redoTx \in Nat /\ s.head \in Nat
        /\ n \in Nat /\ StackTxs(less) \in Nat
    BY <1>3, <1>6
  <2>3. d.head = s.head - n /\ d.undoTx = s.undoTx - n /\ d.redoTx = s.redoTx + n  BY <1>5
  <2>. QED  BY <2>1, <2>2, <2>3 DEF Lo, Hi
<1>11. Laid(s.undo, Lo(s), tl) /\ LaidDown(s.redo, Hi(s), tl)  BY <1>2 DEF Timeline
<1>12. StepAt(step, s.head - n, tl)  BY <1>6, <1>10, <1>11 DEF Laid
<1>13. Laid(less, Lo(s), tl)  BY <1>3, <1>7, <1>11, LaidPopped
<1>14. LaidDown(more, Hi(s), tl)
  <2>1. StackOk(more)
    <3>1. more \in Seq(Steps)  BY <1>8 DEF PushedOk
    <3>. QED  BY <3>1, StackIs
  <2>2. StepAt(step, Hi(s) - StackTxs(more), tl)  BY <1>10, <1>12
  <2> DEFINE end == Hi(s)
  <2> DEFINE stack == s.redo
  <2>3. /\ end \in Int /\ StackOk(stack) /\ LaidDown(stack, end, tl) /\ StepAt(step, end - StackTxs(more), tl)
        /\ PushedOk(stack, step, more)
    BY <1>3, <1>8, <1>11, <2>2
  <2> HIDE DEF end, stack
  <2>4. LaidDown(more, end, tl)  BY <2>1, <2>3, LaidDownPushed
  <2>. QED  BY <2>4 DEF end
<1>15. Good(d, tl, tl[d.head], top, file)
  <2>1. Laid(d.undo, Lo(s), tl) /\ LaidDown(d.redo, Hi(s), tl)  BY <1>5, <1>13, <1>14
  <2>. QED  BY <1>5, <1>9, <1>10, <2>1, Moved
<1>16. UndoText(s, text) = tl[d.head]
  <2> DEFINE p == s.head - n
  <2>1. p \in Int /\ StepAt(step, p, tl) /\ p + n = s.head /\ tl[s.head] = text /\ d.head = p
    <3>1. s.head \in Nat /\ n \in Nat  BY <1>3, <1>6
    <3>2. tl[s.head] = text  BY <1>2 DEF Timeline
    <3>3. d.head = s.head - n  BY <1>5
    <3>. QED  BY <1>12, <3>1, <3>2, <3>3
  <2> HIDE DEF p
  <2>2. ApplyAll(tl[p + n], Inverses(step)) = tl[p]  BY <1>6, <2>1, StepTexts, ZenonT(20)
  <2>. QED  BY <2>1, <2>2 DEF UndoText, step
<1>. QED
  <2> DEFINE now == tl[d.head]
  <2>1. Good(d, tl, now, top, file)  BY <1>15
  <2> HIDE DEF now
  <2>2. DocOk(EnforceLimits(d), now, top, file)  BY <2>1, EnforceLimitsOk
  <2>. QED  BY <1>1, <1>16, <2>2 DEF now

(* TxnUndoStore::redo, likewise.                                           *)
LEMMA RedoOk ==
  ASSUME NEW s, NEW tl, NEW text, NEW top, NEW file, Good(s, tl, text, top, file), s.redo # <<>>
  PROVE  DocOk(RedoStep(s), RedoText(s, text), top, file)
<1> DEFINE step == Last(s.redo)
<1> DEFINE less == Front(s.redo)
<1> DEFINE more == Append(s.undo, step)
<1> DEFINE n == Len(step)
<1> DEFINE d == [s EXCEPT !.owner = None, !.redo = less, !.redoBytes = SaturatingSub(@, StepBytes(step)),
                          !.redoTx = @ - n, !.head = @ + n, !.undoBytes = @ + StepBytes(step),
                          !.undoTx = @ + n, !.undo = more]
<1>1. RedoStep(s) = EnforceLimits(d)  BY DEF RedoStep
<1>2. Counted(s) /\ Timeline(s, tl, text, top)  BY DEF Good
<1>3. /\ s.undoTx \in Nat /\ s.redoTx \in Nat /\ s.undoBytes \in Nat /\ s.redoBytes \in Nat /\ s.head \in Nat
      /\ Lo(s) \in Nat /\ Hi(s) \in Nat /\ StackOk(s.undo) /\ StackOk(s.redo)
  BY <1>2, CountedIs
<1>4. /\ DOMAIN s = StoreFields /\ s.undo \in Seq(Steps) /\ s.redo \in Seq(Steps)
      /\ s.undoBytes = StackBytes(s.undo) /\ s.redoBytes = StackBytes(s.redo)
      /\ s.undoTx = StackTxs(s.undo) /\ s.redoTx = StackTxs(s.redo) /\ s.undoTx <= s.head
  BY <1>2 DEF Counted
<1>5. /\ DOMAIN d = StoreFields /\ d.redo = less /\ d.undo = more /\ d.clean = s.clean
      /\ d.redoBytes = SaturatingSub(s.redoBytes, StepBytes(step)) /\ d.undoBytes = s.undoBytes + StepBytes(step)
      /\ d.redoTx = s.redoTx - n /\ d.undoTx = s.undoTx + n /\ d.head = s.head + n
  BY <1>4 DEF StoreFields
<1> HIDE DEF d
<1>6. /\ step \in Steps /\ step \in Seq(Txs) /\ n \in Nat /\ StepBytes(step) \in Nat
      /\ s.redoTx = StackTxs(less) + n /\ s.redoBytes = StackBytes(less) + StepBytes(step)
      /\ StackTxs(less) \in Nat /\ StackBytes(less) \in Nat
      /\ TxsTo(s.redo, Len(s.redo)) = s.redoTx
      /\ Len(s.redo) \in 1..Len(s.redo) /\ step = s.redo[Len(s.redo)]
  BY <1>4, LastStep
<1>7. PoppedOk(s.redo, less)  BY <1>4, Popped
<1>8. PushedOk(s.undo, step, more)  BY <1>4, <1>6, Pushed
<1> HIDE DEF less, more, step
<1>9. Counted(d)
  <2>1. less \in Seq(Steps) /\ more \in Seq(Steps)  BY <1>7, <1>8 DEF PoppedOk, PushedOk
  <2>2. d.redoBytes = StackBytes(d.redo) /\ d.redoTx = StackTxs(d.redo)  BY <1>5, <1>6 DEF SaturatingSub
  <2>3. d.undoBytes = StackBytes(d.undo) /\ d.undoTx = StackTxs(d.undo)  BY <1>4, <1>5, <1>8 DEF PushedOk
  <2>4. d.head \in Nat /\ d.undoTx <= d.head
    <3>1. s.head \in Nat /\ s.undoTx \in Nat /\ s.undoTx <= s.head /\ n \in Nat  BY <1>3, <1>4, <1>6, ZenonT(20)
    <3>2. d.head = s.head + n /\ d.undoTx = s.undoTx + n  BY <1>5, ZenonT(20)
    <3>. QED  BY <3>1, <3>2
  <2>. QED  BY <1>5, <2>1, <2>2, <2>3, <2>4 DEF Counted
<1>10. Lo(d) = Lo(s) /\ Hi(d) = Hi(s) /\ Lo(s) + StackTxs(s.undo) = s.head /\ Hi(s) - s.redoTx = s.head
  <2>1. /\ s.undoTx = StackTxs(s.undo) /\ s.undoTx \in Nat /\ s.redoTx \in Nat /\ s.head \in Nat /\ n \in Nat
    BY <1>3, <1>4, <1>6
  <2>2. d.head = s.head + n /\ d.undoTx = s.undoTx + n /\ d.redoTx = s.redoTx - n  BY <1>5
  <2>. QED  BY <2>1, <2>2 DEF Lo, Hi
<1>11. Laid(s.undo, Lo(s), tl) /\ LaidDown(s.redo, Hi(s), tl)  BY <1>2 DEF Timeline
<1>12. StepAt(step, s.head, tl)  BY <1>6, <1>10, <1>11 DEF LaidDown
<1>13. LaidDown(less, Hi(s), tl)  BY <1>3, <1>7, <1>11, LaidDownPopped
<1>14. Laid(more, Lo(s), tl)
  <2> DEFINE start == Lo(s)
  <2> DEFINE stack == s.undo
  <2>1. /\ start \in Int /\ StackOk(stack) /\ Laid(stack, start, tl) /\ StepAt(step, start + StackTxs(stack), tl)
        /\ PushedOk(stack, step, more)
    BY <1>3, <1>8, <1>10, <1>11, <1>12
  <2> HIDE DEF start, stack
  <2>2. Laid(more, start, tl)  BY <2>1, LaidPushed
  <2>. QED  BY <2>2 DEF start
<1>15. Good(d, tl, tl[d.head], top, file)
  <2>1. Laid(d.undo, Lo(s), tl) /\ LaidDown(d.redo, Hi(s), tl)  BY <1>5, <1>13, <1>14
  <2>. QED  BY <1>5, <1>9, <1>10, <2>1, Moved
<1>16. RedoText(s, text) = tl[d.head]
  <2> DEFINE p == s.head
  <2>1. p \in Int /\ StepAt(step, p, tl) /\ tl[p] = text /\ d.head = p + n
    BY <1>2, <1>3, <1>5, <1>12 DEF Timeline
  <2> HIDE DEF p
  <2>2. ApplyAll(tl[p], step) = tl[p + n]  BY <1>6, <2>1, StepTexts, ZenonT(20)
  <2>. QED  BY <2>1, <2>2 DEF RedoText, step
<1>. QED
  <2> DEFINE now == tl[d.head]
  <2>1. Good(d, tl, now, top, file)  BY <1>15
  <2> HIDE DEF now
  <2>2. DocOk(EnforceLimits(d), now, top, file)  BY <2>1, EnforceLimitsOk
  <2>. QED  BY <1>1, <1>16, <2>2 DEF now

-----------------------------------------------------------------------------
(* The other operations on a history.                                      *)

(* A change of the group's owner.                                          *)
LEMMA OwnerOk ==
  ASSUME NEW s, NEW t, NEW text, NEW top, NEW file, DocOk(s, text, top, file),
         SameStacks(s, t), t.clean = s.clean
  PROVE  DocOk(t, text, top, file)
<1>1. PICK tl : Good(s, tl, text, top, file)  BY DEF DocOk
<1>2. Counted(s) /\ Timeline(s, tl, text, top) /\ Saved(s, tl, file) /\ top \in Nat /\ file \in 0..top
  BY <1>1 DEF Good
<1>3. Counted(t) /\ Span(t) = Span(s) /\ (Limited(s) => Limited(t)) /\ Timeline(t, tl, text, top)
  BY <1>2, SameLayout
<1>4. Saved(t, tl, file)  BY <1>2, <1>3 DEF Saved
<1>5. Good(t, tl, text, top, file)  BY <1>2, <1>3, <1>4 DEF Good
<1>6. Limited(t)  BY <1>3 DEF DocOk
<1>. QED  BY <1>5, <1>6 DEF DocOk

(* A good history has the record's fields, and tells of texts known.       *)
LEMMA DocIs ==
  ASSUME NEW s, NEW text, NEW top, NEW file, DocOk(s, text, top, file)
  PROVE  /\ DOMAIN s = StoreFields /\ s.head \in Nat /\ Counted(s)
         /\ text \in Nat /\ top \in Nat /\ file \in Nat /\ text <= top /\ file <= top
<1>1. PICK tl : Good(s, tl, text, top, file)  BY DEF DocOk
<1>2. Counted(s) /\ Timeline(s, tl, text, top) /\ top \in Nat /\ file \in 0..top  BY <1>1 DEF Good
<1>3. s.head \in Span(s) /\ s.head \in Nat  BY <1>2, CountedIs
<1>4. tl[s.head] = text /\ text \in Nat /\ text <= top  BY <1>2, <1>3 DEF Timeline
<1>. QED  BY <1>2, <1>3, <1>4 DEF Counted

(* Undo and redo, whether there is a step or not.                          *)
LEMMA TryUndoOk ==
  ASSUME NEW s, NEW text, NEW top, NEW file, DocOk(s, text, top, file)
  PROVE  DocOk(UndoStep(s), UndoText(s, text), top, file)
<1>1. CASE s.undo = <<>>
  <2> DEFINE t == [s EXCEPT !.owner = None]
  <2>1. DOMAIN s = StoreFields  BY DocIs
  <2>2. SameStacks(s, t) /\ t.clean = s.clean  BY <2>1 DEF SameStacks, StoreFields
  <2>3. UndoStep(s) = t /\ UndoText(s, text) = text  BY <1>1 DEF UndoStep, UndoText
  <2> HIDE DEF t
  <2>4. DocOk(t, text, top, file)  BY <2>2, OwnerOk
  <2>. QED  BY <2>3, <2>4
<1>2. CASE s.undo # <<>>
  <2>1. PICK tl : Good(s, tl, text, top, file)  BY DEF DocOk
  <2>. QED  BY <1>2, <2>1, UndoOk
<1>. QED  BY <1>1, <1>2

LEMMA TryRedoOk ==
  ASSUME NEW s, NEW text, NEW top, NEW file, DocOk(s, text, top, file)
  PROVE  DocOk(RedoStep(s), RedoText(s, text), top, file)
<1>1. CASE s.redo = <<>>
  <2> DEFINE t == [s EXCEPT !.owner = None]
  <2>1. DOMAIN s = StoreFields  BY DocIs
  <2>2. SameStacks(s, t) /\ t.clean = s.clean  BY <2>1 DEF SameStacks, StoreFields
  <2>3. RedoStep(s) = t /\ RedoText(s, text) = text  BY <1>1 DEF RedoStep, RedoText
  <2> HIDE DEF t
  <2>4. DocOk(t, text, top, file)  BY <2>2, OwnerOk
  <2>. QED  BY <2>3, <2>4
<1>2. CASE s.redo # <<>>
  <2>1. PICK tl : Good(s, tl, text, top, file)  BY DEF DocOk
  <2>. QED  BY <1>2, <2>1, RedoOk
<1>. QED  BY <1>1, <1>2

(* UndoBackend::record_commit.                                             *)
LEMMA CommitOk ==
  ASSUME NEW s, NEW text, NEW top, NEW file, DocOk(s, text, top, file), NEW w \in Nat, NEW policy, NEW v
  PROVE  DocOk(RecordCommit(s, Tx(text, top + 1, w), policy, v), top + 1, top + 1, file)
<1> DEFINE new == top + 1
<1> DEFINE merge == MergesGroup(s, policy, v)
<1> DEFINE r == RecordTransaction(s, Tx(text, new, w), merge)
<1> DEFINE o == IF policy = "MergeWithCurrentGroup" THEN v ELSE None
<1>1. PICK tl : Good(s, tl, text, top, file)  BY DEF DocOk
<1>2. DocOk(r, new, new, file)
  <2> HIDE DEF merge
  <2>. QED  BY <1>1, RecordOk
<1>3. RecordCommit(s, Tx(text, new, w), policy, v) = [r EXCEPT !.owner = o]  BY DEF RecordCommit
<1> HIDE DEF r, o, merge, new
<1>4. DOMAIN r = StoreFields  BY <1>2, DocIs
<1> DEFINE t == [r EXCEPT !.owner = o]
<1>5. SameStacks(r, t) /\ t.clean = r.clean  BY <1>4 DEF SameStacks, StoreFields
<1> HIDE DEF t
<1>6. DocOk(t, new, new, file)  BY <1>2, <1>5, OwnerOk
<1>. QED  BY <1>3, <1>6 DEF t, new

(* Document::set_modified(false) makes the text the saved one.             *)
LEMMA SetCleanOk ==
  ASSUME NEW s, NEW text, NEW top, NEW file, DocOk(s, text, top, file)
  PROVE  DocOk(SetClean(s), text, top, text)
<1> DEFINE t == SetClean(s)
<1>1. PICK tl : Good(s, tl, text, top, file)  BY DEF DocOk
<1>2. Counted(s) /\ Timeline(s, tl, text, top) /\ top \in Nat  BY <1>1 DEF Good
<1>3. s.head \in Span(s) /\ s.head \in Nat /\ text \in 0..top  BY <1>2, CountedIs, DocIs
<1>4. SameStacks(s, t) /\ t.clean = s.head  BY <1>2 DEF SetClean, SameStacks, StoreFields, Counted
<1> HIDE DEF t
<1>5. Counted(t) /\ Span(t) = Span(s) /\ (Limited(s) => Limited(t)) /\ Timeline(t, tl, text, top)
  BY <1>2, <1>4, SameLayout
<1>6. Saved(t, tl, text)
  <2>1. t.clean # None  BY <1>3, <1>4, UndoLimits
  <2>2. tl[s.head] = text  BY <1>2 DEF Timeline
  <2>. QED  BY <1>3, <1>4, <1>5, <2>1, <2>2 DEF Saved
<1>7. Good(t, tl, text, top, text)  BY <1>2, <1>3, <1>5, <1>6 DEF Good
<1>8. Limited(t)  BY <1>5 DEF DocOk
<1>9. DocOk(t, text, top, text)  BY <1>7, <1>8 DEF DocOk
<1>. QED  BY <1>9 DEF t

(* An empty history, marked clean.                                         *)
LEMMA NewOk ==
  ASSUME NEW top \in Nat, NEW text \in 0..top
  PROVE  DocOk(SetClean(NewStore), text, top, text)
<1> DEFINE s == SetClean(NewStore)
<1> DEFINE tl == [p \in Nat |-> text]
<1>1. /\ DOMAIN s = StoreFields /\ s.undo = <<>> /\ s.redo = <<>> /\ s.undoBytes = 0 /\ s.redoBytes = 0
      /\ s.undoTx = 0 /\ s.redoTx = 0 /\ s.head = 0 /\ s.clean = 0
  BY DEF SetClean, NewStore, StoreFields
<1> HIDE DEF s
<1>2. Counted(s)  BY <1>1, EmptyStack DEF Counted
<1>3. Lo(s) = 0 /\ Hi(s) = 0 /\ Span(s) = {0}  BY <1>1 DEF Lo, Hi, Span
<1>4. tl \in [Nat -> Nat] /\ tl[0] = text  OBVIOUS
<1> HIDE DEF tl
<1>5. Timeline(s, tl, text, top)
  <2>1. Laid(s.undo, Lo(s), tl) /\ LaidDown(s.redo, Hi(s), tl)  BY <1>1, EmptyStack
  <2>2. \A p, q \in Span(s) : p < q => tl[p] < tl[q]  BY <1>3
  <2>3. \A p \in Span(s) : tl[p] <= top  BY <1>3, <1>4
  <2>. QED  BY <1>1, <1>4, <2>1, <2>2, <2>3 DEF Timeline
<1>6. Saved(s, tl, text)
  <2>1. s.clean # None  BY <1>1, UndoLimits
  <2>. QED  BY <1>1, <1>3, <1>4, <2>1 DEF Saved
<1>7. Good(s, tl, text, top, text)  BY <1>2, <1>5, <1>6 DEF Good
<1>8. Limited(s)  BY <1>1, UndoLimits, EmptyStack DEF Limited
<1>9. DocOk(s, text, top, text)  BY <1>7, <1>8 DEF DocOk
<1>. QED  BY <1>9 DEF s

(* Text identities given out elsewhere.                                    *)
LEMMA TopOk ==
  ASSUME NEW s, NEW text, NEW top, NEW file, DocOk(s, text, top, file)
  PROVE  DocOk(s, text, top + 1, file)
<1>1. PICK tl : Good(s, tl, text, top, file)  BY DEF DocOk
<1>2. Counted(s) /\ Timeline(s, tl, text, top) /\ Saved(s, tl, file) /\ top \in Nat /\ file \in 0..top
  BY <1>1 DEF Good
<1>3. Span(s) \subseteq Nat  BY <1>2, CountedIs
<1>4. \A p \in Span(s) : tl[p] <= top + 1  BY <1>2, <1>3 DEF Timeline
<1>5. Timeline(s, tl, text, top + 1)  BY <1>2, <1>4 DEF Timeline
<1>6. Good(s, tl, text, top + 1, file)  BY <1>2, <1>5 DEF Good
<1>. QED  BY <1>6 DEF DocOk

(* The ends of a step that lies on the timeline.                           *)
LEMMA StepChain ==
  ASSUME NEW step \in Steps, NEW p \in Int, NEW tl, StepAt(step, p, tl)
  PROVE  /\ step # <<>> /\ \A i \in 1..(Len(step) - 1) : step[i].to = step[i + 1].from
         /\ step[1].from = tl[p] /\ Last(step).to = tl[p + Len(step)]
<1> DEFINE n == Len(step)
<1>1. step \in Seq(Txs) /\ step # <<>> /\ n \in Nat /\ n # 0  BY EmptySeq, LenProperties DEF Steps
<1>2. 1 \in 1..n /\ n \in 1..n /\ p + 1 - 1 = p  BY <1>1
<1>3. step[1].from = tl[p]  BY <1>2, ZenonT(20) DEF StepAt
<1>4. Last(step).to = tl[p + n]  BY <1>2 DEF StepAt, Last
<1>5. ASSUME NEW i \in 1..(n - 1) PROVE step[i].to = step[i + 1].from
  <2>1. i \in 1..n /\ i + 1 \in 1..n /\ p + (i + 1) - 1 = p + i  BY <1>1
  <2>2. step[i].to = tl[p + i]  BY <2>1 DEF StepAt
  <2>3. step[i + 1].from = tl[p + (i + 1) - 1]  BY <2>1 DEF StepAt
  <2>. QED  BY <2>1, <2>2, <2>3
<1>. QED  BY <1>1, <1>3, <1>4, <1>5

(* The transactions of one document's history meet the texts they were     *)
(* made on.                                                                *)
Chained(undo, redo, text) ==
  /\ \A step \in Range(undo) \cup Range(redo) :
       step # <<>> /\ \A i \in 1..(Len(step) - 1) : step[i].to = step[i + 1].from
  /\ \A i \in 1..(Len(undo) - 1) : Last(undo[i]).to = undo[i + 1][1].from
  /\ undo # <<>> => Last(Last(undo)).to = text
  /\ redo # <<>> => Last(redo)[1].from = text
  /\ \A i \in 1..(Len(redo) - 1) : Last(redo[i + 1]).to = redo[i][1].from

LEMMA GoodChained ==
  ASSUME NEW s, NEW tl, NEW text, NEW top, NEW file, Good(s, tl, text, top, file)
  PROVE  Chained(s.undo, s.redo, text)
<1> DEFINE undo == s.undo
<1> DEFINE redo == s.redo
<1> DEFINE lo == Lo(s)
<1> DEFINE hi == Hi(s)
<1>1. Counted(s) /\ Timeline(s, tl, text, top)  BY DEF Good
<1>2. StackOk(undo) /\ StackOk(redo) /\ lo \in Int /\ hi \in Int /\ s.head \in Nat  BY <1>1, CountedIs
<1>3. undo \in Seq(Steps) /\ redo \in Seq(Steps)  BY <1>1 DEF Counted
<1>4. Laid(undo, lo, tl) /\ LaidDown(redo, hi, tl) /\ tl[s.head] = text  BY <1>1 DEF Timeline
<1>5. lo + StackTxs(undo) = s.head /\ hi - StackTxs(redo) = s.head
  <2>1. /\ s.undoTx = StackTxs(undo) /\ s.redoTx = StackTxs(redo)
        /\ StackTxs(undo) \in Nat /\ StackTxs(redo) \in Nat
    BY <1>1, <1>2, ZenonT(20) DEF Counted, StackOk
  <2>. QED  BY <1>2, <2>1 DEF Lo, Hi
<1> HIDE DEF undo, redo, lo, hi
<1>6. /\ Len(undo) \in Nat /\ DOMAIN undo = 1..Len(undo) /\ Len(redo) \in Nat /\ DOMAIN redo = 1..Len(redo)
  BY <1>3, LenProperties
<1>7. ASSUME NEW i \in 1..Len(undo)
      PROVE  /\ undo[i] # <<>> /\ \A j \in 1..(Len(undo[i]) - 1) : undo[i][j].to = undo[i][j + 1].from
             /\ undo[i][1].from = tl[lo + TxsTo(undo, i - 1)] /\ Last(undo[i]).to = tl[lo + TxsTo(undo, i)]
  <2> DEFINE p == lo + TxsTo(undo, i - 1)
  <2> DEFINE step == undo[i]
  <2>1. /\ TxsTo(undo, i) = TxsTo(undo, i - 1) + Len(step) /\ TxsTo(undo, i - 1) \in Nat /\ Len(step) \in Nat
    <3>1. i - 1 \in 0..Len(undo)  BY <1>6
    <3>. QED  BY <1>2, <3>1 DEF StackOk
  <2>2. step \in Steps  BY <1>3, ElementOfSeq
  <2>3. p \in Int /\ p + Len(step) = lo + TxsTo(undo, i)  BY <1>2, <2>1
  <2>4. StepAt(step, p, tl)  BY <1>4 DEF Laid
  <2> HIDE DEF p, step
  <2>5. /\ step # <<>> /\ \A j \in 1..(Len(step) - 1) : step[j].to = step[j + 1].from
        /\ step[1].from = tl[p] /\ Last(step).to = tl[p + Len(step)]
    BY <2>2, <2>3, <2>4, StepChain
  <2>. QED  BY <2>3, <2>5 DEF step, p
<1>8. ASSUME NEW i \in 1..Len(redo)
      PROVE  /\ redo[i] # <<>> /\ \A j \in 1..(Len(redo[i]) - 1) : redo[i][j].to = redo[i][j + 1].from
             /\ redo[i][1].from = tl[hi - TxsTo(redo, i)] /\ Last(redo[i]).to = tl[hi - TxsTo(redo, i - 1)]
  <2> DEFINE p == hi - TxsTo(redo, i)
  <2> DEFINE step == redo[i]
  <2>1. /\ TxsTo(redo, i) = TxsTo(redo, i - 1) + Len(step) /\ TxsTo(redo, i - 1) \in Nat /\ Len(step) \in Nat
    <3>1. i - 1 \in 0..Len(redo)  BY <1>6
    <3>. QED  BY <1>2, <3>1 DEF StackOk
  <2>2. step \in Steps  BY <1>3, ElementOfSeq
  <2>3. p \in Int /\ p + Len(step) = hi - TxsTo(redo, i - 1)  BY <1>2, <2>1
  <2>4. StepAt(step, p, tl)  BY <1>4 DEF LaidDown
  <2> HIDE DEF p, step
  <2>5. /\ step # <<>> /\ \A j \in 1..(Len(step) - 1) : step[j].to = step[j + 1].from
        /\ step[1].from = tl[p] /\ Last(step).to = tl[p + Len(step)]
    BY <2>2, <2>3, <2>4, StepChain
  <2>. QED  BY <2>3, <2>5 DEF step, p
<1>9. ASSUME NEW step \in Range(undo) \cup Range(redo)
      PROVE  step # <<>> /\ \A i \in 1..(Len(step) - 1) : step[i].to = step[i + 1].from
  <2>1. CASE step \in Range(undo)
    <3>1. PICK i \in 1..Len(undo) : step = undo[i]  BY <1>6, <2>1 DEF Range
    <3>. QED  BY <1>7, <3>1, ZenonT(20)
  <2>2. CASE step \in Range(redo)
    <3>1. PICK i \in 1..Len(redo) : step = redo[i]  BY <1>6, <2>2 DEF Range
    <3>. QED  BY <1>8, <3>1
  <2>. QED  BY <2>1, <2>2
<1>10. ASSUME NEW i \in 1..(Len(undo) - 1) PROVE Last(undo[i]).to = undo[i + 1][1].from
  <2>1. i \in 1..Len(undo) /\ i + 1 \in 1..Len(undo) /\ (i + 1) - 1 = i  BY <1>6
  <2>2. Last(undo[i]).to = tl[lo + TxsTo(undo, i)]  BY <1>7, <2>1
  <2>3. undo[i + 1][1].from = tl[lo + TxsTo(undo, (i + 1) - 1)]  BY <1>7, <2>1
  <2>. QED  BY <2>1, <2>2, <2>3
<1>11. ASSUME NEW i \in 1..(Len(redo) - 1) PROVE Last(redo[i + 1]).to = redo[i][1].from
  <2>1. i \in 1..Len(redo) /\ i + 1 \in 1..Len(redo) /\ (i + 1) - 1 = i  BY <1>6
  <2>2. redo[i][1].from = tl[hi - TxsTo(redo, i)]  BY <1>8, <2>1
  <2>3. Last(redo[i + 1]).to = tl[hi - TxsTo(redo, (i + 1) - 1)]  BY <1>8, <2>1
  <2>. QED  BY <2>1, <2>2, <2>3
<1>12. undo # <<>> => Last(Last(undo)).to = text
  <2> SUFFICES ASSUME undo # <<>> PROVE Last(Last(undo)).to = text
    OBVIOUS
  <2> DEFINE n == Len(undo)
  <2>1. n \in 1..n /\ TxsTo(undo, n) = StackTxs(undo) /\ Last(undo) = undo[n]  BY <1>3, LastStep
  <2>2. Last(undo[n]).to = tl[lo + TxsTo(undo, n)]  BY <1>7, <2>1
  <2>. QED  BY <1>4, <1>5, <2>1, <2>2
<1>13. redo # <<>> => Last(redo)[1].from = text
  <2> SUFFICES ASSUME redo # <<>> PROVE Last(redo)[1].from = text
    OBVIOUS
  <2> DEFINE n == Len(redo)
  <2>1. n \in 1..n /\ TxsTo(redo, n) = StackTxs(redo) /\ Last(redo) = redo[n]  BY <1>3, LastStep
  <2>2. redo[n][1].from = tl[hi - TxsTo(redo, n)]  BY <1>8, <2>1
  <2>. QED  BY <1>4, <1>5, <2>1, <2>2
<1>14. Chained(undo, redo, text)  BY <1>9, <1>10, <1>11, <1>12, <1>13, ZenonT(20) DEF Chained
<1>. QED  BY <1>14 DEF undo, redo

-----------------------------------------------------------------------------
(* What the operations leave of the stacks.                                *)

(* The elements of a are the last ones of b.                               *)
Tails(a, b) == Len(a) <= Len(b) /\ Agree(a, b)

Shaped(s) == DOMAIN s = StoreFields /\ s.undo \in Seq(Steps) /\ s.redo \in Seq(Steps)
Shorter(s, t) == Shaped(t) /\ Tails(t.undo, s.undo) /\ Tails(t.redo, s.redo)

LEMMA TailsItself ==
  ASSUME NEW S, NEW a \in Seq(S)
  PROVE  Tails(a, a)
<1>1. Len(a) \in Nat  BY LenProperties
<1>. QED  BY <1>1 DEF Tails, Agree

LEMMA TailsTwice ==
  ASSUME NEW S, NEW a \in Seq(S), NEW b \in Seq(S), NEW c \in Seq(S), Tails(a, b), Tails(b, c)
  PROVE  Tails(a, c)
<1>1. Len(a) \in Nat /\ Len(b) \in Nat /\ Len(c) \in Nat /\ Len(a) <= Len(b) /\ Len(b) <= Len(c)
  BY LenProperties DEF Tails
<1>2. ASSUME NEW i \in 0..(Len(a) - 1), i < Len(c) PROVE a[Len(a) - i] = c[Len(c) - i]
  <2>1. i < Len(b) /\ i \in 0..(Len(b) - 1)  BY <1>1
  <2>2. a[Len(a) - i] = b[Len(b) - i]  BY <2>1 DEF Tails, Agree
  <2>3. b[Len(b) - i] = c[Len(c) - i]  BY <1>2, <2>1 DEF Tails, Agree
  <2>. QED  BY <2>2, <2>3
<1>. QED  BY <1>1, <1>2 DEF Tails, Agree

(* A stack without its k oldest elements.                                  *)
LEMMA TailsDropped ==
  ASSUME NEW S, NEW a \in Seq(S), NEW k \in 0..Len(a)
  PROVE  SubSeq(a, k + 1, Len(a)) \in Seq(S) /\ Tails(SubSeq(a, k + 1, Len(a)), a)
<1> DEFINE n == Len(a)
<1> DEFINE b == SubSeq(a, k + 1, n)
<1>1. n \in Nat  BY LenProperties
<1>2. b \in Seq(S) /\ Len(b) = n - k
  <2>1. \A i \in (k + 1)..n : a[i] \in S  BY <1>1, ElementOfSeq
  <2>2. k + 1 \in Nat /\ k + 1 <= n + 1  BY <1>1
  <2>. QED  BY <1>1, <2>1, <2>2, SubSeqProperties
<1>3. \A j \in 1..(n - k) : b[j] = a[k + 1 + j - 1]  BY <1>1, SubSeqProperties
<1> HIDE DEF b
<1>4. ASSUME NEW i \in 0..(Len(b) - 1), i < n PROVE b[Len(b) - i] = a[n - i]
  <2> DEFINE j == Len(b) - i
  <2>1. j \in 1..(n - k) /\ k + 1 + j - 1 = n - i  BY <1>1, <1>2
  <2> HIDE DEF j
  <2>2. b[j] = a[n - i]  BY <1>3, <2>1
  <2>. QED  BY <2>2 DEF j
<1>5. Tails(b, a)  BY <1>1, <1>2, <1>4 DEF Tails, Agree
<1>. QED  BY <1>2, <1>5 DEF b

LEMMA ShorterTwice ==
  ASSUME NEW s, NEW t, NEW u, Shaped(s), Shorter(s, t), Shorter(t, u)
  PROVE  Shorter(s, u)
<1>1. /\ s.undo \in Seq(Steps) /\ t.undo \in Seq(Steps) /\ u.undo \in Seq(Steps)
      /\ s.redo \in Seq(Steps) /\ t.redo \in Seq(Steps) /\ u.redo \in Seq(Steps)
  BY DEF Shaped, Shorter
<1>2. Tails(u.undo, s.undo)
  <2>1. Tails(u.undo, t.undo) /\ Tails(t.undo, s.undo)  BY DEF Shorter
  <2>. QED  BY <1>1, <2>1, TailsTwice
<1>3. Tails(u.redo, s.redo)
  <2>1. Tails(u.redo, t.redo) /\ Tails(t.redo, s.redo)  BY DEF Shorter
  <2>. QED  BY <1>1, <2>1, TailsTwice
<1>. QED  BY <1>2, <1>3 DEF Shorter

LEMMA DropUndoShortens ==
  ASSUME NEW s, Shaped(s), NEW k \in 0..Len(s.undo)
  PROVE  Shorter(s, DropUndo(s, k)) /\ DropUndo(s, k).redo = s.redo
<1> DEFINE t == DropUndo(s, k)
<1>1. t.undo = SubSeq(s.undo, k + 1, Len(s.undo)) /\ t.redo = s.redo /\ DOMAIN t = StoreFields
  BY DEF Shaped, StoreFields, DropUndo
<1> HIDE DEF t
<1>2. t.undo \in Seq(Steps) /\ Tails(t.undo, s.undo)  BY <1>1, TailsDropped DEF Shaped
<1>3. Tails(s.redo, s.redo)  BY TailsItself DEF Shaped
<1>4. Shorter(s, t)  BY <1>1, <1>2, <1>3 DEF Shorter, Shaped
<1>. QED  BY <1>1, <1>4 DEF t

LEMMA DropRedoShortens ==
  ASSUME NEW s, Shaped(s), NEW k \in 0..Len(s.redo)
  PROVE  Shorter(s, DropRedo(s, k)) /\ DropRedo(s, k).undo = s.undo
<1> DEFINE t == DropRedo(s, k)
<1>1. t.redo = SubSeq(s.redo, k + 1, Len(s.redo)) /\ t.undo = s.undo /\ DOMAIN t = StoreFields
  BY DEF Shaped, StoreFields, DropRedo
<1> HIDE DEF t
<1>2. t.redo \in Seq(Steps) /\ Tails(t.redo, s.redo)  BY <1>1, TailsDropped DEF Shaped
<1>3. Tails(s.undo, s.undo)  BY TailsItself DEF Shaped
<1>4. Shorter(s, t)  BY <1>1, <1>2, <1>3 DEF Shorter, Shaped
<1>. QED  BY <1>1, <1>4 DEF t

(* Eviction only takes the oldest steps.                                   *)
LEMMA EnforceLimitsShortens ==
  ASSUME NEW s, Shaped(s)
  PROVE  Shorter(s, EnforceLimits(s))
<1> DEFINE a == SaturatingSub(Len(s.undo), MAX_UNDO)
<1> DEFINE b == SaturatingSub(Len(s.redo), MAX_UNDO)
<1> DEFINE c == DropUndo(s, a)
<1> DEFINE d == DropRedo(c, b)
<1>1. Len(s.undo) \in Nat /\ Len(s.redo) \in Nat  BY LenProperties DEF Shaped
<1>2. a \in 0..Len(s.undo) /\ b \in 0..Len(s.redo)  BY <1>1, UndoLimits DEF SaturatingSub
<1>3. EnforceDepth(s) = d  BY DEF EnforceDepth
<1> HIDE DEF a, b
<1>4. Shorter(s, c) /\ c.redo = s.redo  BY <1>2, DropUndoShortens
<1> HIDE DEF c
<1>5. Shaped(c) /\ b \in 0..Len(c.redo)  BY <1>2, <1>4 DEF Shorter
<1>6. Shorter(c, d)  BY <1>5, DropRedoShortens
<1> HIDE DEF d
<1>7. Shorter(s, d) /\ Shaped(d)  BY <1>4, <1>6, ShorterTwice DEF Shorter
<1> DEFINE Over(t) == t.undoBytes + t.redoBytes > MAX_UNDO_BYTES
<1> DEFINE R == {k \in 0 .. Len(d.redo) : ~Over(DropRedo(d, k)) \/ k = Len(d.redo)}
<1> DEFINE r == CHOOSE k \in R : \A j \in R : k <= j
<1> DEFINE t == DropRedo(d, r)
<1> DEFINE U == {k \in 0 .. Len(t.undo) : ~Over(DropUndo(t, k)) \/ k = Len(t.undo)}
<1> DEFINE u == CHOOSE k \in U : \A j \in U : k <= j
<1> DEFINE v == DropUndo(t, u)
<1>8. EnforceBytes(d) = v  BY ZenonT(20) DEF EnforceBytes
<1>9. r \in 0..Len(d.redo)
  <2>1. Len(d.redo) \in Nat  BY <1>7, LenProperties DEF Shaped
  <2>2. R \subseteq Nat /\ Len(d.redo) \in R /\ R \subseteq 0..Len(d.redo)  BY <2>1
  <2>3. R # {}  BY <2>2
  <2> HIDE DEF R
  <2>4. r \in R  BY <2>2, <2>3, LeastIsIn, ZenonT(20)
  <2>. QED  BY <2>2, <2>4, ZenonT(20)
<1> HIDE DEF r, R
<1>10. Shorter(d, t) /\ Shaped(t)  BY <1>7, <1>9, DropRedoShortens DEF Shorter
<1> HIDE DEF t
<1>11. u \in 0..Len(t.undo)
  <2>1. Len(t.undo) \in Nat  BY <1>10, LenProperties DEF Shaped
  <2>2. U \subseteq Nat /\ Len(t.undo) \in U /\ U \subseteq 0..Len(t.undo)  BY <2>1
  <2>3. U # {}  BY <2>2
  <2> HIDE DEF U
  <2>4. u \in U  BY <2>2, <2>3, LeastIsIn, ZenonT(20)
  <2>. QED  BY <2>2, <2>4, ZenonT(20)
<1> HIDE DEF u, U
<1>12. Shorter(t, v)  BY <1>10, <1>11, DropUndoShortens
<1> HIDE DEF v
<1>13. Shorter(s, v) /\ Shaped(v)  BY <1>7, <1>10, <1>12, ShorterTwice DEF Shorter
<1>14. EnforceLimits(s) = InvalidateCleanPosAfterEviction(v)  BY <1>3, <1>8 DEF EnforceLimits
<1>15. /\ DOMAIN InvalidateCleanPosAfterEviction(v) = StoreFields
       /\ InvalidateCleanPosAfterEviction(v).undo = v.undo /\ InvalidateCleanPosAfterEviction(v).redo = v.redo
  BY <1>13 DEF InvalidateCleanPosAfterEviction, Shaped, StoreFields
<1>. QED  BY <1>13, <1>14, <1>15 DEF Shorter, Shaped

(* What the operations do to the stacks, but for evictions.                *)
LEMMA UndoStacks ==
  ASSUME NEW s, Shaped(s), s.undo # <<>>
  PROVE  /\ Tails(UndoStep(s).undo, Front(s.undo)) /\ Tails(UndoStep(s).redo, Append(s.redo, Last(s.undo)))
         /\ UndoStep(s).undo \in Seq(Steps) /\ UndoStep(s).redo \in Seq(Steps)
<1> DEFINE step == Last(s.undo)
<1> DEFINE less == Front(s.undo)
<1> DEFINE more == Append(s.redo, step)
<1> DEFINE d == [s EXCEPT !.owner = None, !.undo = less, !.undoBytes = SaturatingSub(@, StepBytes(step)),
                          !.undoTx = @ - Len(step), !.head = @ - Len(step), !.redoBytes = @ + StepBytes(step),
                          !.redoTx = @ + Len(step), !.redo = more]
<1>1. UndoStep(s) = EnforceLimits(d)  BY DEF UndoStep
<1>2. less \in Seq(Steps) /\ more \in Seq(Steps)
  <2>1. step \in Steps  BY LastStep DEF Shaped
  <2>2. PoppedOk(s.undo, less)  BY Popped DEF Shaped
  <2>. QED  BY <2>1, <2>2, AppendProperties DEF PoppedOk, Shaped
<1> HIDE DEF less, more, step
<1>3. DOMAIN d = StoreFields /\ d.undo = less /\ d.redo = more  BY DEF Shaped, StoreFields
<1> HIDE DEF d
<1>4. Shaped(d)  BY <1>2, <1>3 DEF Shaped
<1>5. Shorter(d, UndoStep(s))  BY <1>1, <1>4, EnforceLimitsShortens
<1>. QED  BY <1>3, <1>5 DEF Shorter, Shaped, less, more, step

LEMMA RedoStacks ==
  ASSUME NEW s, Shaped(s), s.redo # <<>>
  PROVE  /\ Tails(RedoStep(s).redo, Front(s.redo)) /\ Tails(RedoStep(s).undo, Append(s.undo, Last(s.redo)))
         /\ RedoStep(s).undo \in Seq(Steps) /\ RedoStep(s).redo \in Seq(Steps)
<1> DEFINE step == Last(s.redo)
<1> DEFINE less == Front(s.redo)
<1> DEFINE more == Append(s.undo, step)
<1> DEFINE d == [s EXCEPT !.owner = None, !.redo = less, !.redoBytes = SaturatingSub(@, StepBytes(step)),
                          !.redoTx = @ - Len(step), !.head = @ + Len(step), !.undoBytes = @ + StepBytes(step),
                          !.undoTx = @ + Len(step), !.undo = more]
<1>1. RedoStep(s) = EnforceLimits(d)  BY DEF RedoStep
<1>2. less \in Seq(Steps) /\ more \in Seq(Steps)
  <2>1. step \in Steps  BY LastStep DEF Shaped
  <2>2. PoppedOk(s.redo, less)  BY Popped DEF Shaped
  <2>. QED  BY <2>1, <2>2, AppendProperties DEF PoppedOk, Shaped
<1> HIDE DEF less, more, step
<1>3. DOMAIN d = StoreFields /\ d.undo = more /\ d.redo = less  BY DEF Shaped, StoreFields
<1> HIDE DEF d
<1>4. Shaped(d)  BY <1>2, <1>3 DEF Shaped
<1>5. Shorter(d, RedoStep(s))  BY <1>1, <1>4, EnforceLimitsShortens
<1>. QED  BY <1>3, <1>5 DEF Shorter, Shaped, less, more, step

LEMMA CommitStacks ==
  ASSUME NEW s, Shaped(s), NEW tx \in Txs, NEW policy, NEW v
  PROVE  LET r == RecordCommit(s, tx, policy, v)
         IN  /\ Tails(r.undo, PushTx(s.undo, tx, ~StepCreated(s, policy, v))) /\ r.redo = <<>>
             /\ r.undo \in Seq(Steps) /\ PushTx(s.undo, tx, ~StepCreated(s, policy, v)) \in Seq(Steps)
<1> DEFINE merge == MergesGroup(s, policy, v)
<1> DEFINE b == LeaveBranch(s)
<1> DEFINE more == PushTx(b.undo, tx, merge /\ b.undo # <<>>)
<1> DEFINE d == ClearRedo([b EXCEPT !.undo = more, !.undoBytes = @ + tx.weight, !.head = @ + 1, !.undoTx = @ + 1])
<1> DEFINE r == RecordCommit(s, tx, policy, v)
<1>1. r = [EnforceLimits(d) EXCEPT !.owner = IF policy = "MergeWithCurrentGroup" THEN v ELSE None]
  BY DEF RecordCommit, RecordTransaction, Merges
<1>2. DOMAIN b = StoreFields /\ b.undo = s.undo /\ b.redo = s.redo
  BY DEF LeaveBranch, Shaped, StoreFields
<1>3. more = PushTx(s.undo, tx, ~StepCreated(s, policy, v))  BY <1>2 DEF StepCreated, Merges
<1> HIDE DEF b
<1>4. more \in Seq(Steps)
  <2> DEFINE stack == b.undo
  <2>1. stack \in Seq(Steps) /\ 0 \in Int  BY <1>2 DEF Shaped
  <2> HIDE DEF stack, merge
  <2>2. LongerOk(stack, tx, PushTx(stack, tx, merge /\ stack # <<>>), 0)  BY <2>1, Longer, ZenonT(20)
  <2>. QED  BY <2>2 DEF LongerOk, stack
<1> HIDE DEF more
<1>5. DOMAIN d = StoreFields /\ d.undo = more /\ d.redo = <<>>  BY <1>2 DEF StoreFields, ClearRedo
<1> HIDE DEF d
<1>6. Shaped(d)  BY <1>4, <1>5, EmptyStack DEF Shaped
<1> DEFINE e == EnforceLimits(d)
<1>7. Shorter(d, e)  BY <1>6, EnforceLimitsShortens
<1>8. r = [e EXCEPT !.owner = IF policy = "MergeWithCurrentGroup" THEN v ELSE None]  BY <1>1
<1> HIDE DEF e, r
<1>9. r.undo = e.undo /\ r.redo = e.redo  BY <1>7, <1>8 DEF Shorter, Shaped, StoreFields
<1>10. e.redo = <<>>
  <2>1. e.redo \in Seq(Steps) /\ Len(e.redo) <= Len(<<>>)  BY <1>5, <1>7 DEF Shorter, Shaped, Tails
  <2>. QED  BY <2>1, EmptySeq, LenProperties
<1>11. Tails(r.undo, more) /\ r.redo = <<>> /\ r.undo \in Seq(Steps)
  BY <1>5, <1>7, <1>9, <1>10 DEF Shorter, Shaped
<1>. QED  BY <1>3, <1>4, <1>11 DEF r

LEMMA FrontIs ==
  ASSUME NEW S, NEW s \in Seq(S), s # <<>>
  PROVE  /\ Len(s) \in Nat /\ Len(s) # 0 /\ Last(s) \in S /\ Last(s) = s[Len(s)]
         /\ Front(s) \in Seq(S) /\ Len(Front(s)) = Len(s) - 1
         /\ \A i \in 1..(Len(s) - 1) : Front(s)[i] = s[i]
<1> DEFINE m == Len(s) - 1
<1>1. Len(s) \in Nat /\ Len(s) # 0 /\ Len(s) \in 1..Len(s)  BY EmptySeq, LenProperties
<1>2. Last(s) \in S /\ Last(s) = s[Len(s)]  BY <1>1, ElementOfSeq DEF Last
<1>3. m \in 0..Len(s) /\ \A i \in 1..m : s[i] \in S  BY <1>1, ElementOfSeq
<1>4. Front(s) = SubSeq(s, 1, m)  BY DEF Front
<1> HIDE DEF m
<1>5. SubSeq(s, 1, m) \in Seq(S) /\ Len(SubSeq(s, 1, m)) = m /\ \A i \in 1..m : SubSeq(s, 1, m)[i] = s[i]
  BY <1>1, <1>3, SubSeqProperties
<1>. QED  BY <1>1, <1>2, <1>4, <1>5 DEF m

-----------------------------------------------------------------------------
(* Sequences that agree from their ends on.                                *)

LEMMA AgreeAppend ==
  ASSUME NEW S, NEW s \in Seq(S), NEW t \in Seq(S), NEW x \in S, Agree(s, t)
  PROVE  Agree(Append(s, x), Append(t, x))
<1> DEFINE a == Append(s, x)
<1> DEFINE b == Append(t, x)
<1> DEFINE n == Len(s)
<1> DEFINE m == Len(t)
<1>1. n \in Nat /\ m \in Nat  BY LenProperties
<1>2. Len(a) = n + 1 /\ a[n + 1] = x /\ \A i \in 1..n : a[i] = s[i]  BY AppendProperties
<1>3. Len(b) = m + 1 /\ b[m + 1] = x /\ \A i \in 1..m : b[i] = t[i]  BY AppendProperties
<1>4. \A i \in 0..(n - 1) : i < m => s[n - i] = t[m - i]  BY DEF Agree
<1> HIDE DEF a, b, n, m
<1>5. ASSUME NEW i \in 0..n, i < m + 1 PROVE a[n + 1 - i] = b[m + 1 - i]
  <2>1. CASE i = 0
    <3>1. n + 1 - i = n + 1 /\ m + 1 - i = m + 1  BY <1>1, <2>1
    <3>. QED  BY <1>2, <1>3, <3>1
  <2>2. CASE i # 0
    <3> DEFINE j == i - 1
    <3>1. j \in 0..(n - 1) /\ j < m /\ n - j = n + 1 - i /\ m - j = m + 1 - i
      BY <1>1, <1>5, <2>2
    <3>2. n - j \in 1..n /\ m - j \in 1..m  BY <1>1, <3>1
    <3> HIDE DEF j
    <3>3. s[n - j] = t[m - j]  BY <1>4, <3>1
    <3>4. a[n - j] = s[n - j] /\ b[m - j] = t[m - j]  BY <1>2, <1>3, <3>2
    <3>. QED  BY <3>1, <3>3, <3>4
  <2>. QED  BY <2>1, <2>2
<1>6. Agree(a, b)
  <2>1. Len(a) - 1 = n /\ Len(a) = n + 1 /\ Len(b) = m + 1  BY <1>1, <1>2, <1>3
  <2>2. \A i \in 0..n : i < m + 1 => a[n + 1 - i] = b[m + 1 - i]  BY <1>5
  <2>3. ASSUME NEW i \in 0..(Len(a) - 1), i < Len(b) PROVE a[Len(a) - i] = b[Len(b) - i]
    <3>1. i \in 0..n /\ i < m + 1  BY <2>1, <2>3
    <3>2. a[n + 1 - i] = b[m + 1 - i]  BY <2>2, <3>1
    <3>3. Len(a) - i = n + 1 - i /\ Len(b) - i = m + 1 - i  BY <1>1, <2>1, <3>1
    <3>. QED  BY <3>2, <3>3
  <2>. QED  BY <2>3 DEF Agree
<1>. QED  BY <1>6 DEF a, b

LEMMA AgreeFront ==
  ASSUME NEW S, NEW s \in Seq(S), s # <<>>, NEW t \in Seq(S), NEW x \in S, Agree(s, Append(t, x))
  PROVE  Agree(Front(s), t)
<1> DEFINE a == Front(s)
<1> DEFINE b == Append(t, x)
<1> DEFINE n == Len(s)
<1> DEFINE m == Len(t)
<1>1. n \in Nat /\ n # 0 /\ m \in Nat  BY LenProperties, FrontIs
<1>2. Len(a) = n - 1 /\ \A i \in 1..(n - 1) : a[i] = s[i]  BY FrontIs
<1>3. Len(b) = m + 1 /\ \A i \in 1..m : b[i] = t[i]  BY AppendProperties
<1>4. \A i \in 0..(n - 1) : i < m + 1 => s[n - i] = b[m + 1 - i]  BY <1>3 DEF Agree
<1> HIDE DEF a, b, n, m
<1>5. ASSUME NEW i \in 0..(n - 1 - 1), i < m PROVE a[n - 1 - i] = t[m - i]
  <2> DEFINE j == i + 1
  <2>1. j \in 0..(n - 1) /\ j < m + 1 /\ n - j = n - 1 - i /\ m + 1 - j = m - i
    BY <1>1, <1>5
  <2>2. n - 1 - i \in 1..(n - 1) /\ m - i \in 1..m  BY <1>1, <1>5
  <2> HIDE DEF j
  <2>3. s[n - j] = b[m + 1 - j]  BY <1>4, <2>1
  <2>4. a[n - 1 - i] = s[n - 1 - i] /\ b[m - i] = t[m - i]  BY <1>2, <1>3, <2>2
  <2>. QED  BY <2>1, <2>3, <2>4
<1>6. Agree(a, t)
  <2>1. Len(t) = m  BY DEF m
  <2>. QED  BY <1>2, <1>5, <2>1 DEF Agree
<1>. QED  BY <1>6 DEF a

LEMMA AgreeTails ==
  ASSUME NEW S, NEW r \in Seq(S), NEW s \in Seq(S), NEW t \in Seq(S), Tails(r, s), Agree(s, t)
  PROVE  Agree(r, t)
<1>1. Len(r) \in Nat /\ Len(s) \in Nat /\ Len(t) \in Nat /\ Len(r) <= Len(s)  BY LenProperties DEF Tails
<1>2. ASSUME NEW i \in 0..(Len(r) - 1), i < Len(t) PROVE r[Len(r) - i] = t[Len(t) - i]
  <2>1. i < Len(s) /\ i \in 0..(Len(s) - 1)  BY <1>1
  <2>2. r[Len(r) - i] = s[Len(s) - i]  BY <2>1 DEF Tails, Agree
  <2>3. s[Len(s) - i] = t[Len(t) - i]  BY <1>2, <2>1, ZenonT(20) DEF Agree
  <2>. QED  BY <2>2, <2>3
<1>. QED  BY <1>2 DEF Agree

(* The texts before and after the steps of a stack.                        *)
LEMMA MarksAre ==
  ASSUME NEW stack \in Seq(Steps)
  PROVE  /\ Len(stack) \in Nat
         /\ Firsts(stack) \in Seq(Nat) /\ Len(Firsts(stack)) = Len(stack)
         /\ Lasts(stack) \in Seq(Nat) /\ Len(Lasts(stack)) = Len(stack)
         /\ \A i \in 1..Len(stack) : Firsts(stack)[i] = stack[i][1].from /\ Lasts(stack)[i] = Last(stack[i]).to
<1> DEFINE n == Len(stack)
<1>1. n \in Nat /\ DOMAIN stack = 1..n  BY LenProperties
<1>2. \A step \in Steps : step[1].from \in Nat /\ Last(step).to \in Nat
  <2> SUFFICES ASSUME NEW step \in Steps PROVE step[1].from \in Nat /\ Last(step).to \in Nat
    OBVIOUS
  <2>1. step \in Seq(Txs) /\ step # <<>>  BY DEF Steps
  <2>2. Len(step) \in Nat /\ Len(step) # 0 /\ Last(step) \in Txs  BY <2>1, FrontIs
  <2>3. 1 \in 1..Len(step)  BY <2>2
  <2>4. step[1] \in Txs  BY <2>1, <2>3, ElementOfSeq
  <2>. QED  BY <2>2, <2>4 DEF Txs
<1>3. \A i \in 1..n : stack[i] \in Steps  BY ElementOfSeq
<1>4. Firsts(stack) = [i \in 1..n |-> stack[i][1].from] /\ Lasts(stack) = [i \in 1..n |-> Last(stack[i]).to]
  BY <1>1 DEF Firsts, Lasts
<1>5. Firsts(stack) \in Seq(Nat) /\ Len(Firsts(stack)) = n
  <2>1. \A i \in 1..n : stack[i][1].from \in Nat  BY <1>2, <1>3
  <2>2. Firsts(stack) \in [1..n -> Nat]  BY <1>4, <2>1
  <2>. QED  BY <1>1, <2>2, SeqDef, LenProperties
<1>6. Lasts(stack) \in Seq(Nat) /\ Len(Lasts(stack)) = n
  <2>1. \A i \in 1..n : Last(stack[i]).to \in Nat  BY <1>2, <1>3
  <2>2. Lasts(stack) \in [1..n -> Nat]  BY <1>4, <2>1
  <2>. QED  BY <1>1, <2>2, SeqDef, LenProperties
<1>. QED  BY <1>1, <1>4, <1>5, <1>6

LEMMA MarksTails ==
  ASSUME NEW a \in Seq(Steps), NEW b \in Seq(Steps), Tails(a, b)
  PROVE  Tails(Firsts(a), Firsts(b)) /\ Tails(Lasts(a), Lasts(b))
<1> DEFINE n == Len(a)
<1> DEFINE m == Len(b)
<1>1. /\ n \in Nat /\ Len(Firsts(a)) = n /\ Len(Lasts(a)) = n
      /\ \A i \in 1..n : Firsts(a)[i] = a[i][1].from /\ Lasts(a)[i] = Last(a[i]).to
  BY MarksAre
<1>2. /\ m \in Nat /\ Len(Firsts(b)) = m /\ Len(Lasts(b)) = m
      /\ \A i \in 1..m : Firsts(b)[i] = b[i][1].from /\ Lasts(b)[i] = Last(b[i]).to
  BY MarksAre
<1>3. n <= m /\ \A i \in 0..(n - 1) : i < m => a[n - i] = b[m - i]  BY DEF Tails, Agree
<1> HIDE DEF n, m
<1>4. ASSUME NEW i \in 0..(n - 1) PROVE Firsts(a)[n - i] = Firsts(b)[m - i] /\ Lasts(a)[n - i] = Lasts(b)[m - i]
  <2>1. n - i \in 1..n /\ m - i \in 1..m /\ i < m  BY <1>1, <1>2, <1>3
  <2>2. a[n - i] = b[m - i]  BY <1>3, <2>1
  <2>. QED  BY <1>1, <1>2, <2>1, <2>2
<1>5. Agree(Firsts(a), Firsts(b)) /\ Agree(Lasts(a), Lasts(b))  BY <1>1, <1>2, <1>4 DEF Agree
<1>. QED  BY <1>1, <1>2, <1>3, <1>5 DEF Tails

LEMMA MarksAppend ==
  ASSUME NEW stack \in Seq(Steps), NEW step \in Steps
  PROVE  /\ Firsts(Append(stack, step)) = Append(Firsts(stack), step[1].from)
         /\ Lasts(Append(stack, step)) = Append(Lasts(stack), Last(step).to)
         /\ step[1].from \in Nat /\ Last(step).to \in Nat
<1> DEFINE more == Append(stack, step)
<1> DEFINE n == Len(stack)
<1>1. /\ n \in Nat /\ Firsts(stack) \in Seq(Nat) /\ Lasts(stack) \in Seq(Nat)
      /\ Len(Firsts(stack)) = n /\ Len(Lasts(stack)) = n
      /\ \A i \in 1..n : Firsts(stack)[i] = stack[i][1].from /\ Lasts(stack)[i] = Last(stack[i]).to
  BY MarksAre
<1>2. more \in Seq(Steps) /\ Len(more) = n + 1 /\ more[n + 1] = step /\ \A i \in 1..n : more[i] = stack[i]
  BY AppendProperties
<1> HIDE DEF more
<1>3. /\ Firsts(more) \in Seq(Nat) /\ Lasts(more) \in Seq(Nat)
      /\ Len(Firsts(more)) = n + 1 /\ Len(Lasts(more)) = n + 1
      /\ \A i \in 1..(n + 1) : Firsts(more)[i] = more[i][1].from /\ Lasts(more)[i] = Last(more[i]).to
  BY <1>2, MarksAre
<1> DEFINE x == step[1].from
<1> DEFINE y == Last(step).to
<1>4. x \in Nat /\ y \in Nat
  <2>1. n + 1 \in 1..(n + 1)  BY <1>1
  <2>2. Firsts(more)[n + 1] = x /\ Lasts(more)[n + 1] = y  BY <1>2, <1>3, <2>1
  <2>. QED  BY <1>3, <2>1, <2>2, ElementOfSeq
<1> HIDE DEF n
<1>5. \A i \in 1..(n + 1) : i = n + 1 \/ i \in 1..n  BY <1>1
<1>6. Firsts(more) = Append(Firsts(stack), x)
  <2> DEFINE a == Append(Firsts(stack), x)
  <2>1. a \in Seq(Nat) /\ Len(a) = n + 1 /\ a[n + 1] = x /\ \A i \in 1..n : a[i] = Firsts(stack)[i]
    BY <1>1, <1>4, AppendProperties
  <2> HIDE DEF a
  <2>2. \A i \in 1..(n + 1) : Firsts(more)[i] = a[i]  BY <1>1, <1>2, <1>3, <1>5, <2>1, ZenonT(20)
  <2>3. Len(Firsts(more)) = Len(a) /\ \A i \in 1..Len(Firsts(more)) : Firsts(more)[i] = a[i]  BY <1>3, <2>1, <2>2
  <2>4. Firsts(more) = a  BY <1>3, <2>1, <2>3, SeqEqual, ZenonT(20)
  <2>. QED  BY <2>4 DEF a
<1>7. Lasts(more) = Append(Lasts(stack), y)
  <2> DEFINE a == Append(Lasts(stack), y)
  <2>1. a \in Seq(Nat) /\ Len(a) = n + 1 /\ a[n + 1] = y /\ \A i \in 1..n : a[i] = Lasts(stack)[i]
    BY <1>1, <1>4, AppendProperties
  <2> HIDE DEF a
  <2>2. \A i \in 1..(n + 1) : Lasts(more)[i] = a[i]  BY <1>1, <1>2, <1>3, <1>5, <2>1, ZenonT(20)
  <2>3. Len(Lasts(more)) = Len(a) /\ \A i \in 1..Len(Lasts(more)) : Lasts(more)[i] = a[i]  BY <1>3, <2>1, <2>2
  <2>4. Lasts(more) = a  BY <1>3, <2>1, <2>3, SeqEqual, ZenonT(20)
  <2>. QED  BY <2>4 DEF a
<1>. QED  BY <1>4, <1>6, <1>7 DEF more

LEMMA MarksFront ==
  ASSUME NEW stack \in Seq(Steps), stack # <<>>
  PROVE  /\ Front(stack) \in Seq(Steps) /\ Len(Front(stack)) = Len(stack) - 1
         /\ Firsts(stack) # <<>> /\ Firsts(Front(stack)) = Front(Firsts(stack))
         /\ Lasts(stack) # <<>> /\ Lasts(Front(stack)) = Front(Lasts(stack))
<1> DEFINE less == Front(stack)
<1> DEFINE n == Len(stack)
<1>1. n \in Nat /\ n # 0 /\ less \in Seq(Steps) /\ Len(less) = n - 1 /\ \A i \in 1..(n - 1) : less[i] = stack[i]
  BY FrontIs
<1>2. /\ Firsts(stack) \in Seq(Nat) /\ Lasts(stack) \in Seq(Nat)
      /\ Len(Firsts(stack)) = n /\ Len(Lasts(stack)) = n
      /\ \A i \in 1..n : Firsts(stack)[i] = stack[i][1].from /\ Lasts(stack)[i] = Last(stack[i]).to
  BY MarksAre
<1> HIDE DEF less, n
<1>3. /\ Firsts(less) \in Seq(Nat) /\ Lasts(less) \in Seq(Nat)
      /\ Len(Firsts(less)) = n - 1 /\ Len(Lasts(less)) = n - 1
      /\ \A i \in 1..(n - 1) : Firsts(less)[i] = less[i][1].from /\ Lasts(less)[i] = Last(less[i]).to
  BY <1>1, MarksAre
<1>4. Firsts(stack) # <<>> /\ Lasts(stack) # <<>>  BY <1>1, <1>2, EmptySeq
<1>5. \A i \in 1..(n - 1) : i \in 1..n  BY <1>1
<1>6. Firsts(less) = Front(Firsts(stack))
  <2> DEFINE s == Firsts(stack)
  <2> DEFINE a == Front(s)
  <2>1. a \in Seq(Nat) /\ Len(a) = n - 1 /\ \A i \in 1..(n - 1) : a[i] = s[i]
    <3>1. s \in Seq(Nat) /\ s # <<>> /\ Len(s) = n  BY <1>2, <1>4
    <3> HIDE DEF s
    <3>. QED  BY <3>1, FrontIs, ZenonT(20)
  <2> HIDE DEF a
  <2>2. \A i \in 1..(n - 1) : Firsts(less)[i] = a[i]  BY <1>1, <1>2, <1>3, <1>5, <2>1, ZenonT(20)
  <2>3. Len(Firsts(less)) = Len(a) /\ \A i \in 1..Len(Firsts(less)) : Firsts(less)[i] = a[i]  BY <1>3, <2>1, <2>2
  <2>4. Firsts(less) = a  BY <1>3, <2>1, <2>3, SeqEqual, ZenonT(20)
  <2>. QED  BY <2>4 DEF a
<1>7. Lasts(less) = Front(Lasts(stack))
  <2> DEFINE s == Lasts(stack)
  <2> DEFINE a == Front(s)
  <2>1. a \in Seq(Nat) /\ Len(a) = n - 1 /\ \A i \in 1..(n - 1) : a[i] = s[i]
    <3>1. s \in Seq(Nat) /\ s # <<>> /\ Len(s) = n  BY <1>2, <1>4
    <3> HIDE DEF s
    <3>. QED  BY <3>1, FrontIs, ZenonT(20)
  <2> HIDE DEF a
  <2>2. \A i \in 1..(n - 1) : Lasts(less)[i] = a[i]  BY <1>1, <1>2, <1>3, <1>5, <2>1, ZenonT(20)
  <2>3. Len(Lasts(less)) = Len(a) /\ \A i \in 1..Len(Lasts(less)) : Lasts(less)[i] = a[i]  BY <1>3, <2>1, <2>2
  <2>4. Lasts(less) = a  BY <1>3, <2>1, <2>3, SeqEqual, ZenonT(20)
  <2>. QED  BY <2>4 DEF a
<1>. QED  BY <1>1, <1>4, <1>6, <1>7 DEF less, n

(* A transaction merged into the newest step leaves where the steps begin. *)
LEMMA FirstsMerged ==
  ASSUME NEW stack \in Seq(Steps), stack # <<>>, NEW tx \in Txs, NEW more, MergedOk(stack, tx, more)
  PROVE  Firsts(more) = Firsts(stack)
<1> DEFINE n == Len(stack)
<1> DEFINE old == stack[n]
<1>1. /\ more \in Seq(Steps) /\ Len(more) = n /\ more[n] = Append(old, tx)
      /\ \A i \in 1..(n - 1) : more[i] = stack[i]
  BY DEF MergedOk
<1>2. n \in Nat /\ n # 0  BY FrontIs
<1>3. old \in Seq(Txs) /\ old # <<>>
  <2>1. n \in 1..n  BY <1>2
  <2>. QED  BY <2>1, ElementOfSeq DEF Steps
<1> HIDE DEF old
<1>4. more[n][1] = old[1]
  <2>1. Len(old) \in Nat /\ Len(old) # 0  BY <1>3, FrontIs
  <2>2. 1 \in 1..Len(old)  BY <2>1
  <2>3. Append(old, tx)[1] = old[1]  BY <1>3, <2>2, AppendProperties
  <2>. QED  BY <1>1, <2>3
<1>5. /\ Firsts(stack) \in Seq(Nat) /\ Len(Firsts(stack)) = n
      /\ \A i \in 1..n : Firsts(stack)[i] = stack[i][1].from
  BY MarksAre
<1> HIDE DEF n
<1>6. /\ Firsts(more) \in Seq(Nat) /\ Len(Firsts(more)) = n
      /\ \A i \in 1..n : Firsts(more)[i] = more[i][1].from
  BY <1>1, MarksAre
<1>7. \A i \in 1..n : i = n \/ i \in 1..(n - 1)  BY <1>2
<1>8. \A i \in 1..n : more[i][1] = stack[i][1]  BY <1>1, <1>4, <1>7, ZenonT(20) DEF old
<1>9. \A i \in 1..n : Firsts(more)[i] = Firsts(stack)[i]  BY <1>5, <1>6, <1>8, ZenonT(20)
<1>10. Len(Firsts(more)) = Len(Firsts(stack)) /\ \A i \in 1..Len(Firsts(more)) : Firsts(more)[i] = Firsts(stack)[i]
  BY <1>5, <1>6, <1>9
<1>. QED  BY <1>5, <1>6, <1>10, SeqEqual, ZenonT(20)

LEMMA Wider ==
  ASSUME NEW A, NEW B, A \subseteq B, NEW s \in Seq(A)
  PROVE  s \in Seq(B)
<1>1. Len(s) \in Nat /\ s \in [1..Len(s) -> A]  BY LenProperties
<1>2. s \in [1..Len(s) -> B]  BY <1>1
<1>. QED  BY <1>1, <1>2, SeqDef

-----------------------------------------------------------------------------
(* The histories of a document and the snapshots its groups hold: the      *)
(* texts before its undo steps are the newest snapshots of the undo        *)
(* groups, and the texts after its redo steps those of the redo groups.    *)
Matches(s, us, rs) ==
  /\ Len(s.undo) <= Len(us)
  /\ Agree(Firsts(s.undo), us)
  /\ Agree(Lasts(s.redo), rs)

LEMMA AgreeNone ==
  ASSUME NEW S, NEW a \in Seq(S)
  PROVE  Agree(a, <<>>) /\ Agree(Firsts(<<>>), a) /\ Agree(Lasts(<<>>), a)
<1> DEFINE e == <<>>
<1>1. e \in Seq(Steps) /\ Len(e) = 0  BY EmptySeq
<1>2. Agree(a, e)
  <2>1. \A i \in 0..(Len(a) - 1) : ~(i < Len(e))
    <3> HIDE DEF e
    <3>. QED  BY <1>1
  <2>. QED  BY <2>1 DEF Agree
<1> HIDE DEF e
<1>3. Len(Firsts(e)) = 0 /\ Len(Lasts(e)) = 0  BY <1>1, MarksAre, ZenonT(20)
<1>4. \A i \in 0..(0 - 1) : FALSE  OBVIOUS
<1>5. Agree(Firsts(e), a) /\ Agree(Lasts(e), a)  BY <1>3, <1>4 DEF Agree
<1>. QED  BY <1>2, <1>5 DEF e

LEMMA MatchesNew ==
  ASSUME NEW s, s.undo = <<>>, s.redo = <<>>, NEW A, NEW us \in Seq(A), NEW B, NEW rs \in Seq(B)
  PROVE  Matches(s, us, rs)
<1>1. Len(s.undo) = 0 /\ Len(us) \in Nat  BY LenProperties, EmptySeq
<1>2. Len(s.undo) <= Len(us)  BY <1>1
<1>3. Agree(Firsts(<<>>), us) /\ Agree(Lasts(<<>>), rs)  BY AgreeNone
<1>. QED  BY <1>2, <1>3 DEF Matches

(* A recorded commit: its own step comes with its own group, and a merged  *)
(* one with none.                                                          *)
LEMMA MatchesCommit ==
  ASSUME NEW s, Shaped(s), NEW tx \in Txs, NEW policy, NEW v,
         NEW S, Nat \subseteq S, NEW us \in Seq(S), NEW rs, Matches(s, us, rs)
  PROVE  Matches(RecordCommit(s, tx, policy, v),
                 IF StepCreated(s, policy, v) THEN Append(us, tx.from) ELSE us, <<>>)
<1> DEFINE created == StepCreated(s, policy, v)
<1> DEFINE r == RecordCommit(s, tx, policy, v)
<1> DEFINE stack == s.undo
<1> DEFINE more == PushTx(stack, tx, ~created)
<1> DEFINE now == IF created THEN Append(us, tx.from) ELSE us
<1>1. Tails(r.undo, more) /\ r.redo = <<>> /\ r.undo \in Seq(Steps) /\ more \in Seq(Steps)  BY CommitStacks, ZenonT(20)
<1>2. ~created => stack # <<>>  BY DEF StepCreated, Merges
<1>3. stack \in Seq(Steps) /\ Len(stack) <= Len(us) /\ Agree(Firsts(stack), us)  BY DEF Shaped, Matches
<1>4. tx.from \in Nat /\ tx.from \in S  BY DEF Txs
<1>5. Len(stack) \in Nat /\ Len(us) \in Nat /\ Firsts(stack) \in Seq(Nat)  BY <1>3, MarksAre, LenProperties, ZenonT(20)
<1>6. Firsts(stack) \in Seq(S)  BY <1>5, Wider
<1> HIDE DEF r, created, stack
<1>7. now \in Seq(S) /\ Len(more) <= Len(now) /\ Agree(Firsts(more), now)
  <2>1. CASE created
    <3> DEFINE step == <<tx>>
    <3>1. more = Append(stack, step) /\ now = Append(us, tx.from)  BY <2>1 DEF PushTx
    <3>2. step \in Steps  BY OneTx
    <3>6. step[1] = tx  OBVIOUS
    <3> HIDE DEF step, more, now
    <3>3. Firsts(more) = Append(Firsts(stack), tx.from)  BY <1>3, <3>1, <3>2, <3>6, MarksAppend
    <3>4. Agree(Firsts(more), now)  BY <1>3, <1>4, <1>6, <3>1, <3>3, AgreeAppend
    <3>5. now \in Seq(S) /\ Len(now) = Len(us) + 1 /\ Len(more) = Len(stack) + 1
      BY <1>3, <1>4, <3>1, <3>2, AppendProperties
    <3>. QED  BY <1>3, <1>5, <3>4, <3>5
  <2>2. CASE ~created
    <3>1. more = [stack EXCEPT ![Len(stack)] = Append(stack[Len(stack)], tx)] /\ now = us  BY <2>2 DEF PushTx
    <3> HIDE DEF more, now
    <3>2. MergedOk(stack, tx, more)  BY <1>2, <1>3, <2>2, <3>1, Merged, ZenonT(20)
    <3>3. Firsts(more) = Firsts(stack)  BY <1>2, <1>3, <2>2, <3>2, FirstsMerged
    <3>4. Len(more) = Len(stack)  BY <3>2 DEF MergedOk
    <3>. QED  BY <1>3, <3>1, <3>3, <3>4
  <2>. QED  BY <2>1, <2>2
<1> HIDE DEF more, now
<1>8. Tails(Firsts(r.undo), Firsts(more))  BY <1>1, MarksTails
<1>9. Firsts(r.undo) \in Seq(S) /\ Firsts(more) \in Seq(S)
  <2>1. Firsts(r.undo) \in Seq(Nat) /\ Firsts(more) \in Seq(Nat)  BY <1>1, MarksAre
  <2>. QED  BY <2>1, Wider
<1>10. Agree(Firsts(r.undo), now)  BY <1>7, <1>8, <1>9, AgreeTails
<1>11. Len(r.undo) <= Len(now)
  <2>1. Len(r.undo) \in Nat /\ Len(more) \in Nat /\ Len(now) \in Nat  BY <1>1, <1>7, LenProperties
  <2>2. Len(r.undo) <= Len(more) /\ Len(more) <= Len(now)  BY <1>1, <1>7 DEF Tails
  <2>. QED  BY <2>1, <2>2
<1>12. Agree(Lasts(r.redo), <<>>)
  <2>1. <<>> \in Seq(S)  BY EmptySeq
  <2>2. Agree(Lasts(<<>>), <<>>)  BY <2>1, AgreeNone, ZenonT(20)
  <2>. QED  BY <1>1, <2>2
<1>13. Matches(r, now, <<>>)  BY <1>10, <1>11, <1>12 DEF Matches
<1>. QED  BY <1>13 DEF r, now, created

(* An undo: the newest snapshot of the undo groups goes, and the text      *)
(* before the undo is the newest one of the redo groups.                   *)
LEMMA MatchesUndo ==
  ASSUME NEW s, Shaped(s), s.undo # <<>>, NEW text \in Nat, Last(Last(s.undo)).to = text,
         NEW S, Nat \subseteq S, NEW us \in Seq(S), NEW rs \in Seq(S), NEW x \in S,
         Matches(s, Append(us, x), rs)
  PROVE  Matches(UndoStep(s), us, Append(rs, text))
<1> DEFINE t == UndoStep(s)
<1> DEFINE step == Last(s.undo)
<1> DEFINE less == Front(s.undo)
<1> DEFINE more == Append(s.redo, step)
<1>1. s.undo \in Seq(Steps) /\ s.redo \in Seq(Steps)  BY DEF Shaped
<1>2. /\ Tails(t.undo, less) /\ Tails(t.redo, more)
      /\ t.undo \in Seq(Steps) /\ t.redo \in Seq(Steps)
  BY UndoStacks
<1>3. step \in Steps  BY <1>1, FrontIs
<1>4. less \in Seq(Steps) /\ Len(less) = Len(s.undo) - 1 /\ Firsts(s.undo) # <<>> /\ Firsts(less) = Front(Firsts(s.undo))
  BY <1>1, MarksFront
<1>5. Lasts(more) = Append(Lasts(s.redo), text)  BY <1>1, <1>3, MarksAppend
<1>6. more \in Seq(Steps)  BY <1>1, <1>3, AppendProperties
<1> HIDE DEF t, step, less, more
<1>7. /\ Firsts(s.undo) \in Seq(S) /\ Lasts(s.redo) \in Seq(S) /\ Firsts(less) \in Seq(S) /\ Lasts(more) \in Seq(S)
      /\ Firsts(t.undo) \in Seq(S) /\ Lasts(t.redo) \in Seq(S)
  <2>1. \A stack \in Seq(Steps) : Firsts(stack) \in Seq(Nat) /\ Lasts(stack) \in Seq(Nat)  BY MarksAre
  <2>2. \A a \in Seq(Nat) : a \in Seq(S)  BY Wider
  <2>. QED  BY <1>1, <1>2, <1>4, <1>6, <2>1, <2>2, ZenonT(20)
<1>8. Agree(Firsts(t.undo), us)
  <2>1. Agree(Firsts(s.undo), Append(us, x))  BY DEF Matches
  <2>2. Agree(Firsts(less), us)  BY <1>4, <1>7, <2>1, AgreeFront
  <2>3. Tails(Firsts(t.undo), Firsts(less))  BY <1>2, <1>4, MarksTails
  <2>. QED  BY <1>7, <2>2, <2>3, AgreeTails
<1>9. Agree(Lasts(t.redo), Append(rs, text))
  <2>1. Agree(Lasts(s.redo), rs) /\ text \in S  BY DEF Matches
  <2>2. Agree(Lasts(more), Append(rs, text))  BY <1>5, <1>7, <2>1, AgreeAppend
  <2>3. Tails(Lasts(t.redo), Lasts(more))  BY <1>2, <1>6, MarksTails
  <2>4. Append(rs, text) \in Seq(S)  BY <2>1, AppendProperties
  <2>. QED  BY <1>7, <2>2, <2>3, <2>4, AgreeTails, ZenonT(20)
<1>10. Len(t.undo) <= Len(us)
  <2>1. Len(t.undo) \in Nat /\ Len(less) \in Nat /\ Len(us) \in Nat /\ Len(s.undo) \in Nat
    BY <1>1, <1>2, <1>4, LenProperties
  <2>2. Len(t.undo) <= Len(less)  BY <1>2 DEF Tails
  <2>3. Len(s.undo) <= Len(us) + 1
    <3>1. Len(Append(us, x)) = Len(us) + 1  BY AppendProperties
    <3>. QED  BY <3>1 DEF Matches
  <2>. QED  BY <1>4, <2>1, <2>2, <2>3
<1>11. Matches(t, us, Append(rs, text))  BY <1>8, <1>9, <1>10 DEF Matches
<1>. QED  BY <1>11 DEF t

(* A redo: the other way round.                                            *)
LEMMA MatchesRedo ==
  ASSUME NEW s, Shaped(s), s.redo # <<>>, NEW text \in Nat, Last(s.redo)[1].from = text,
         NEW S, Nat \subseteq S, NEW us \in Seq(S), NEW rs \in Seq(S), NEW x \in S,
         Matches(s, us, Append(rs, x))
  PROVE  Matches(RedoStep(s), Append(us, text), rs)
<1> DEFINE t == RedoStep(s)
<1> DEFINE step == Last(s.redo)
<1> DEFINE less == Front(s.redo)
<1> DEFINE more == Append(s.undo, step)
<1>1. s.undo \in Seq(Steps) /\ s.redo \in Seq(Steps)  BY DEF Shaped
<1>2. /\ Tails(t.redo, less) /\ Tails(t.undo, more)
      /\ t.undo \in Seq(Steps) /\ t.redo \in Seq(Steps)
  BY RedoStacks
<1>3. step \in Steps  BY <1>1, FrontIs
<1>4. less \in Seq(Steps) /\ Lasts(s.redo) # <<>> /\ Lasts(less) = Front(Lasts(s.redo))  BY <1>1, MarksFront
<1>5. Firsts(more) = Append(Firsts(s.undo), text)  BY <1>1, <1>3, MarksAppend
<1>6. more \in Seq(Steps) /\ Len(more) = Len(s.undo) + 1  BY <1>1, <1>3, AppendProperties
<1> HIDE DEF t, step, less, more
<1>7. /\ Firsts(s.undo) \in Seq(S) /\ Lasts(s.redo) \in Seq(S) /\ Lasts(less) \in Seq(S) /\ Firsts(more) \in Seq(S)
      /\ Firsts(t.undo) \in Seq(S) /\ Lasts(t.redo) \in Seq(S)
  <2>1. \A stack \in Seq(Steps) : Firsts(stack) \in Seq(Nat) /\ Lasts(stack) \in Seq(Nat)  BY MarksAre
  <2>2. \A a \in Seq(Nat) : a \in Seq(S)  BY Wider
  <2>. QED  BY <1>1, <1>2, <1>4, <1>6, <2>1, <2>2, ZenonT(20)
<1>8. Agree(Lasts(t.redo), rs)
  <2>1. Agree(Lasts(s.redo), Append(rs, x))  BY DEF Matches
  <2>2. Agree(Lasts(less), rs)  BY <1>4, <1>7, <2>1, AgreeFront
  <2>3. Tails(Lasts(t.redo), Lasts(less))  BY <1>2, <1>4, MarksTails
  <2>. QED  BY <1>7, <2>2, <2>3, AgreeTails
<1>9. text \in S /\ Append(us, text) \in Seq(S) /\ Len(Append(us, text)) = Len(us) + 1  BY AppendProperties
<1>10. Agree(Firsts(t.undo), Append(us, text))
  <2>1. Agree(Firsts(s.undo), us)  BY DEF Matches
  <2>2. Agree(Firsts(more), Append(us, text))  BY <1>5, <1>7, <1>9, <2>1, AgreeAppend
  <2>3. Tails(Firsts(t.undo), Firsts(more))  BY <1>2, <1>6, MarksTails
  <2>. QED  BY <1>7, <1>9, <2>2, <2>3, AgreeTails, ZenonT(20)
<1>11. Len(t.undo) <= Len(Append(us, text))
  <2>1. Len(t.undo) \in Nat /\ Len(us) \in Nat /\ Len(s.undo) \in Nat  BY <1>1, <1>2, LenProperties
  <2>2. Len(t.undo) <= Len(more) /\ Len(s.undo) <= Len(us)  BY <1>2 DEF Tails, Matches
  <2>. QED  BY <1>6, <1>9, <2>1, <2>2
<1>12. Matches(t, Append(us, text), rs)  BY <1>8, <1>10, <1>11 DEF Matches
<1>. QED  BY <1>12 DEF t
=============================================================================

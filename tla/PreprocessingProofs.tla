------------------------ MODULE PreprocessingProofs ------------------------
(***************************************************************************)
(* Theorems about Preprocessing, for all numbers of samples, sizes and     *)
(* ratios: an epoch hands out every sample once, a split is a partition,   *)
(* and the windows fit.                                                    *)
(***************************************************************************)
EXTENDS Preprocessing, FiniteSetTheorems, SequenceTheorems, TLAPS

-----------------------------------------------------------------------------
(* Arithmetic                                                              *)

\* The floor of a quotient, also of a negative number.
LEMMA FloorOf ==
    ASSUME NEW a \in Int, NEW d \in Nat \ {0}
    PROVE  a \div d \in Int /\ (a \div d) * d <= a /\ a < (a \div d) * d + d
  OBVIOUS

\* What lies between two multiples of d is known by them.
LEMMA QuotientIs ==
    ASSUME NEW a \in Int, NEW d \in Nat \ {0}, NEW q \in Int, q * d <= a, a < q * d + d
    PROVE  a \div d = q
  OBVIOUS

\* A product grows with its first factor.
LEMMA ProductGrows ==
    ASSUME NEW i \in Int, NEW j \in Int, NEW d \in Nat, i <= j
    PROVE  i * d <= j * d
  OBVIOUS

LEMMA OneMore ==
    ASSUME NEW q \in Int, NEW d \in Nat
    PROVE  (q + 1) * d = q * d + d
  OBVIOUS

\* A share in tenths.
LEMMA Tenths ==
    ASSUME NEW n \in Nat, NEW r \in 0 .. 10
    PROVE  n * r \in Nat /\ n * r <= 10 * n
  OBVIOUS

LEMMA TenthsOf ==
    ASSUME NEW p \in Nat, NEW n \in Nat, p <= 10 * n
    PROVE  p \div 10 \in 0 .. n
  OBVIOUS

-----------------------------------------------------------------------------
(* The windows                                                             *)

\* Window sizes and steps are positive.
LEMMA SizesArePositive == \A size \in BatchSizes : size \in Nat \ {0}
  BY SizesAssumption

\* num_windows is right for every number of samples, also if it is negative.
LEMMA WindowsOfAny == num_samples \in Nat => WindowsFit
<1> SUFFICES ASSUME num_samples \in Nat, NEW size \in BatchSizes, NEW step \in BatchSizes
             PROVE  LET n == num_windows(size, step) IN
                    /\ \A i \in 0 .. n - 1 : i * step + size <= num_samples
                    /\ n * step + size > num_samples
                    /\ num_samples < size <=> n <= 0
  BY DEF WindowsFit
<1> DEFINE a == num_samples - size
           q == a \div step
<1>1. size \in Nat /\ step \in Nat \ {0} /\ a \in Int
  BY SizesArePositive
<1>2. q \in Int /\ q * step <= a /\ a < q * step + step
  BY <1>1, FloorOf
<1>3. num_windows(size, step) = q + 1
  BY DEF num_windows
<1>4. a = num_samples - size
  OBVIOUS
<1> HIDE DEF a, q
<1>5. ASSUME NEW i \in 0 .. q PROVE i * step + size <= num_samples
  <2>1. i * step <= q * step /\ i * step \in Int /\ q * step \in Int
    BY <1>1, <1>2, ProductGrows
  <2> QED BY <1>1, <1>2, <1>4, <2>1
<1>6. (q + 1) * step + size > num_samples
  <2>1. (q + 1) * step = q * step + step /\ q * step \in Int
    BY <1>1, <1>2, OneMore
  <2> QED BY <1>1, <1>2, <1>4, <2>1
<1>7. ASSUME a < 0 PROVE q < 0
  <2>1. q >= 0 => 0 * step <= q * step /\ 0 * step = 0 /\ q * step \in Int
    BY <1>1, <1>2, ProductGrows
  <2> QED BY <1>1, <1>2, <1>7, <2>1
<1>8. ASSUME q < 0 PROVE a < 0
  <2>1. (q + 1) * step = q * step + step /\ q * step \in Int
    BY <1>1, <1>2, OneMore
  <2>2. (q + 1) * step <= 0 * step /\ 0 * step = 0
    BY <1>1, <1>2, <1>8, ProductGrows
  <2> QED BY <1>1, <1>2, <2>1, <2>2
<1>9. num_samples < size <=> q + 1 <= 0
  BY <1>1, <1>2, <1>4, <1>7, <1>8
<1> QED BY <1>2, <1>3, <1>5, <1>6, <1>9

-----------------------------------------------------------------------------
(* The order of the samples                                                *)

\* An order is a sequence of all samples.
LEMMA OrderIsOnto ==
    ASSUME num_samples \in Nat, NEW f \in Orders
    PROVE  /\ f \in Seq(Samples)
           /\ Len(f) = num_samples
           /\ \A s \in Samples : \E i \in 1 .. num_samples : f[i] = s
<1>1. f \in [1 .. num_samples -> Samples] /\ f \in Injection(1 .. num_samples, Samples)
  BY DEF Orders, Injection, IsInjective
<1>2. IsFiniteSet(Samples) /\ Cardinality(Samples) = num_samples
  BY FS_Interval DEF Samples
<1>3. Cardinality(1 .. num_samples) = num_samples
  BY FS_Interval
<1>4. f \in Surjection(1 .. num_samples, Samples)
  BY <1>1, <1>2, <1>3, FS_Injection
<1> QED BY <1>1, <1>4 DEF Surjection

LEMMA InOrderIsOne ==
    ASSUME num_samples \in Nat
    PROVE  InOrder \in Orders
  BY DEF InOrder, Orders, Samples

LEMMA ShuffledIsOne ==
    ASSUME NEW order \in Orders, NEW f \in Shuffled(order)
    PROVE  f \in Orders
  BY DEF Shuffled

-----------------------------------------------------------------------------
(* The epoch                                                               *)

\* After so many batches either all were full, or the last one reached the
\* end of the samples before it was.
Progress(upTo) ==
    \/ current_idx = upTo
    \/ current_idx = num_samples /\ num_samples < upTo /\ upTo < num_samples + batch_size

\* What has been handed out is what stands before the position.
EpochInv ==
    /\ num_samples \in Nat
    /\ batch_size \in Nat \ {0}
    /\ indices \in Orders
    /\ current_idx \in 0 .. num_samples
    /\ handed \in [Samples -> Nat]
    /\ \A i \in 1 .. num_samples : handed[indices[i]] = IF i <= current_idx THEN 1 ELSE 0
    /\ batches \in Nat
    /\ Progress(batches * batch_size)

LEMMA BatchInitInv == BatchInit => EpochInv
<1> SUFFICES ASSUME BatchInit PROVE EpochInv
  OBVIOUS
<1>1. num_samples \in Nat /\ batch_size \in Nat \ {0}
  BY SizesAssumption DEF BatchInit
<1>2. indices \in Orders
  BY <1>1, InOrderIsOne, ShuffledIsOne DEF BatchInit
<1>3. handed = [s \in Samples |-> 0]
  BY DEF BatchInit, NothingHanded
<1>4. \A i \in 1 .. num_samples : indices[i] \in Samples
  BY <1>2 DEF Orders
<1>5. 0 * batch_size = 0
  BY <1>1
<1> QED BY <1>1, <1>2, <1>3, <1>4, <1>5 DEF BatchInit, EpochInv, Progress

\* The end of the next batch, and what stands on its places.
LEMMA BatchIs ==
    ASSUME EpochInv, current_idx < num_samples
    PROVE  /\ End = IF current_idx + batch_size <= num_samples
                    THEN current_idx + batch_size ELSE num_samples
           /\ DOMAIN Batch = 1 .. End - current_idx
           /\ \A j \in 1 .. End - current_idx : Batch[j] = indices[current_idx + j]
<1> USE DEF EpochInv
<1>1. End = IF current_idx + batch_size <= num_samples
            THEN current_idx + batch_size ELSE num_samples
  <2> DEFINE sum == current_idx + batch_size
  <2>1. sum \in Int /\ num_samples \in Int
    OBVIOUS
  <2> HIDE DEF sum
  <2>2. Min({sum, num_samples}) = IF sum <= num_samples THEN sum ELSE num_samples
    <3> DEFINE least(x) == x \in {sum, num_samples} /\ \A y \in {sum, num_samples} : x <= y
    <3>1. least(IF sum <= num_samples THEN sum ELSE num_samples)
      BY <2>1
    <3>2. \A x : least(x) => x = IF sum <= num_samples THEN sum ELSE num_samples
      BY <2>1
    <3>3. Min({sum, num_samples}) = CHOOSE x : least(x)
      BY DEF Min
    <3> HIDE DEF least
    <3> QED BY <3>1, <3>2, <3>3
  <2> QED BY <2>2 DEF End, sum
<1>2. End \in Int /\ current_idx < End /\ End <= num_samples
  BY <1>1
<1>3. indices \in Seq(Samples) /\ Len(indices) = num_samples
  BY OrderIsOnto
<1>4. Batch = SubSeq(indices, current_idx + 1, End)
  BY <1>2, <1>3 DEF Batch, Slice
<1>5. \A i \in current_idx + 1 .. End : indices[i] \in Samples
  BY <1>2, <1>3, ElementOfSeq
<1>6. /\ Batch \in Seq(Samples)
      /\ Len(Batch) = End - current_idx
      /\ \A j \in 1 .. End - current_idx : Batch[j] = indices[current_idx + j]
  <2>1. current_idx + 1 \in Int /\ End - (current_idx + 1) + 1 = End - current_idx
    BY <1>2
  <2>2. \A j \in 1 .. End - current_idx : current_idx + 1 + j - 1 = current_idx + j
    BY <1>2
  <2> QED BY <1>2, <1>4, <1>5, <2>1, <2>2, SubSeqProperties
<1> QED BY <1>1, <1>6, LenProperties

\* A sample is on one place of the next batch or on none.
LEMMA BatchCounts ==
    ASSUME EpochInv, current_idx < num_samples, NEW i \in 1 .. num_samples
    PROVE  Cardinality({j \in DOMAIN Batch : Batch[j] = indices[i]})
             = IF current_idx < i /\ i <= End THEN 1 ELSE 0
<1> DEFINE places == {j \in DOMAIN Batch : Batch[j] = indices[i]}
<1>1. /\ End \in Int
      /\ End <= num_samples
      /\ current_idx \in Nat
      /\ num_samples \in Nat
  BY BatchIs DEF EpochInv
<1>2. \A k \in 1 .. num_samples : indices[k] = indices[i] => k = i
  BY DEF EpochInv, Orders
<1>3. \A j \in 1 .. End - current_idx : current_idx + j \in 1 .. num_samples
  BY <1>1
<1>4. places = {j \in 1 .. End - current_idx : current_idx + j = i}
  BY <1>2, <1>3, BatchIs
<1> HIDE DEF places
<1>5. CASE current_idx < i /\ i <= End
  <2>1. places = {i - current_idx}
    BY <1>1, <1>4, <1>5
  <2> QED BY <1>5, <2>1, FS_Singleton DEF places
<1>6. CASE ~(current_idx < i /\ i <= End)
  <2>1. places = {}
    BY <1>1, <1>4, <1>6
  <2> QED BY <1>6, <2>1, FS_EmptySet DEF places
<1> QED BY <1>5, <1>6

LEMMA BatchNextInv ==
    ASSUME EpochInv, [BatchNext]_batchVars
    PROVE  EpochInv'
<1>1. CASE NextBatch
  <2>1. /\ num_samples' = num_samples /\ batch_size' = batch_size /\ indices' = indices
        /\ current_idx' = End /\ batches' = batches + 1 /\ current_idx < num_samples
    BY <1>1 DEF NextBatch
  <2>2. End = IF current_idx + batch_size <= num_samples
              THEN current_idx + batch_size ELSE num_samples
    BY <2>1, BatchIs
  <2>3. current_idx \in Nat /\ End \in current_idx .. num_samples
    BY <2>1, <2>2 DEF EpochInv
  <2>4. handed' = [s \in Samples |->
                     handed[s] + Cardinality({j \in DOMAIN Batch : Batch[j] = s})]
    BY <1>1 DEF NextBatch
  <2>5. \A i \in 1 .. num_samples :
          /\ indices[i] \in Samples
          /\ handed'[indices[i]] = IF i <= End THEN 1 ELSE 0
    <3> SUFFICES ASSUME NEW i \in 1 .. num_samples
                 PROVE  /\ indices[i] \in Samples
                        /\ handed'[indices[i]] = IF i <= End THEN 1 ELSE 0
      OBVIOUS
    <3>1. indices[i] \in Samples
      BY DEF EpochInv, Orders
    <3>2. handed'[indices[i]]
            = handed[indices[i]] + Cardinality({j \in DOMAIN Batch : Batch[j] = indices[i]})
      BY <2>4, <3>1
    <3>3. handed[indices[i]] = IF i <= current_idx THEN 1 ELSE 0
      BY DEF EpochInv
    <3>4. Cardinality({j \in DOMAIN Batch : Batch[j] = indices[i]})
            = IF current_idx < i /\ i <= End THEN 1 ELSE 0
      BY <2>1, BatchCounts
    <3> QED BY <2>3, <3>1, <3>2, <3>3, <3>4
  <2>6. handed' \in [Samples -> Nat]
    <3>1. \A s \in Samples : handed'[s] \in Nat
      <4> TAKE s \in Samples
      <4>1. PICK i \in 1 .. num_samples : indices[i] = s
        BY OrderIsOnto DEF EpochInv
      <4> QED BY <2>5, <4>1
    <3> QED BY <2>4, <3>1
  <2>7. Progress(batches * batch_size)'
    <3> DEFINE x == batches * batch_size
    <3>1. x \in Nat /\ (batches + 1) * batch_size = x + batch_size
      BY OneMore DEF EpochInv
    <3>2. Progress(x)
      BY DEF EpochInv
    <3>3. (batches * batch_size)' = x + batch_size
      BY <2>1, <3>1
    <3> HIDE DEF x
    <3>4. batch_size \in Nat \ {0} /\ num_samples \in Nat
      BY DEF EpochInv
    <3>5. x = current_idx
      BY <2>1, <3>2, <2>3 DEF Progress
    <3> QED BY <2>1, <2>2, <2>3, <3>1, <3>3, <3>4, <3>5 DEF Progress
  <2> QED BY <2>1, <2>3, <2>5, <2>6, <2>7 DEF EpochInv, Orders, Samples
<1>2. CASE StopIteration
  <2>1. /\ num_samples' = num_samples /\ batch_size' = batch_size
        /\ current_idx' = 0 /\ batches' = 0 /\ indices' \in Shuffled(indices)
        /\ handed' = [s \in Samples |-> 0]
    BY <1>2 DEF StopIteration, NothingHanded
  <2>2. indices' \in Orders
    BY <2>1, ShuffledIsOne DEF EpochInv
  <2>3. \A i \in 1 .. num_samples : indices'[i] \in Samples
    BY <2>2 DEF Orders
  <2>4. 0 * batch_size = 0 /\ num_samples \in Nat /\ batch_size \in Nat \ {0}
    BY DEF EpochInv
  <2> QED BY <2>1, <2>2, <2>3, <2>4 DEF EpochInv, Orders, Samples, Progress
<1>3. CASE Iterate \/ Break \/ UNCHANGED batchVars
  BY <1>3 DEF Iterate, Break, batchVars, EpochInv, Orders, Samples, Progress
<1> QED BY <1>1, <1>2, <1>3 DEF BatchNext

LEMMA EpochFollows == EpochInv => EpochIsWhole
<1> SUFFICES ASSUME EpochInv PROVE EpochIsWhole
  OBVIOUS
<1>1. \A s \in Samples : \E i \in 1 .. num_samples :
        indices[i] = s /\ handed[s] = IF i <= current_idx THEN 1 ELSE 0
  BY OrderIsOnto DEF EpochInv
<1>2. current_idx \in Nat
  BY DEF EpochInv
<1>3. ASSUME current_idx = num_samples PROVE batches = NumberOfBatches
  <2> DEFINE x == batches * batch_size
             a == num_samples + batch_size - 1
  <2>1. x \in Nat /\ a \in Int /\ num_samples \in Nat /\ batch_size \in Nat \ {0} /\ batches \in Int
    BY DEF EpochInv
  <2>2. Progress(x)
    BY DEF EpochInv
  <2>3. a = num_samples + batch_size - 1 /\ x = batches * batch_size
    OBVIOUS
  <2> HIDE DEF x, a
  <2>4. x <= a /\ a < x + batch_size
    BY <1>3, <2>1, <2>2, <2>3 DEF Progress
  <2>5. a \div batch_size = batches
    BY <2>1, <2>3, <2>4, QuotientIs
  <2> QED BY <2>5 DEF NumberOfBatches, a
<1> QED BY <1>1, <1>2, <1>3 DEF EpochIsWhole

\* Between one StopIteration and the next, BatchGenerator hands out every sample
\* once, in as many batches as __len__ says, for any number of samples, size
\* of a batch and shuffling, and wherever loops over it are left.
THEOREM EpochCorrect == BatchSpec => []EpochIsWhole
<1> QED BY BatchInitInv, BatchNextInv, EpochFollows, PTL DEF BatchSpec

\* create_sliding_window makes as many windows as fit, and no more.
THEOREM WindowsCorrect == BatchSpec => []WindowsFit
<1>1. EpochInv => WindowsFit
  BY WindowsOfAny DEF EpochInv
<1> QED BY <1>1, BatchInitInv, BatchNextInv, PTL DEF BatchSpec

-----------------------------------------------------------------------------
(* The split                                                               *)

\* The size of a part is that of no more than the whole.
LEMMA SizeOfIs ==
    ASSUME num_samples \in Nat, NEW ratio \in Ratios
    PROVE  SizeOf(ratio) \in 0 .. num_samples
<1>1. ratio \in 0 .. 10
  BY SizesAssumption
<1>2. num_samples * ratio \in Nat /\ num_samples * ratio <= 10 * num_samples
  BY <1>1, Tenths
<1> QED BY <1>2, TenthsOf DEF SizeOf

\* The three parts of split_data, one after the other, are the samples in their order.
LEMMA PartsAreWhole ==
    ASSUME EpochInv, NEW train \in Ratios, NEW val \in Ratios
    PROVE  train_idx(train) \o val_idx(train, val) \o test_idx(train, val) = indices
<1> DEFINE first == SizeOf(train)
           second == SizeOf(train) + SizeOf(val)
           cut == IF second < num_samples THEN second ELSE num_samples
<1>1. num_samples \in Nat /\ indices \in Seq(Samples) /\ Len(indices) = num_samples
  BY OrderIsOnto DEF EpochInv
<1>2. first \in 0 .. num_samples /\ second \in Nat /\ first <= second
  BY <1>1, SizeOfIs
<1>3. /\ train_idx(train) = Slice(indices, 0, first)
      /\ val_idx(train, val) = Slice(indices, first, second)
      /\ test_idx(train, val) = Slice(indices, second, num_samples)
  BY DEF train_idx, val_idx, test_idx
<1> HIDE DEF first, second
<1>4. first <= cut /\ cut \in 0 .. num_samples
  BY <1>1, <1>2
<1>5. train_idx(train) = SubSeq(indices, 1, first)
  BY <1>1, <1>2, <1>3 DEF Slice
<1>6. val_idx(train, val) = SubSeq(indices, first + 1, cut)
  BY <1>1, <1>2, <1>3 DEF Slice
<1>7. test_idx(train, val) = SubSeq(indices, cut + 1, num_samples)
  <2>1. test_idx(train, val) = SubSeq(indices, second + 1, num_samples)
    BY <1>1, <1>3 DEF Slice
  <2>2. CASE second < num_samples
    BY <2>1, <2>2
  <2>3. CASE ~(second < num_samples)
    <3>1. num_samples < second + 1 /\ cut = num_samples /\ num_samples < num_samples + 1
      BY <1>1, <1>2, <2>3
    <3> QED BY <1>1, <1>2, <2>1, <3>1, SubSeqEmpty
  <2> QED BY <2>2, <2>3
<1> HIDE DEF cut
<1>8. SubSeq(indices, 1, first) \o SubSeq(indices, first + 1, cut) = SubSeq(indices, 1, cut)
  BY <1>1, <1>2, <1>4, ConcatAdjacentSubSeq
<1>9. SubSeq(indices, 1, cut) \o SubSeq(indices, cut + 1, num_samples)
        = SubSeq(indices, 1, num_samples)
  <2>1. /\ 1 \in 1 .. Len(indices) + 1
        /\ cut \in 1 - 1 .. Len(indices)
        /\ num_samples \in cut .. Len(indices)
    BY <1>1, <1>4
  <2> QED BY <1>1, <2>1, ConcatAdjacentSubSeq
<1> QED BY <1>1, <1>5, <1>6, <1>7, <1>8, <1>9, SubSeqFull

\* split_data puts every sample into exactly one of its three sets, for any
\* number of samples, ratios and order.
THEOREM SplitCorrect == BatchSpec => []SplitIsPartition
<1>1. EpochInv => SplitIsPartition
  <2> SUFFICES ASSUME EpochInv, NEW train \in Ratios, NEW val \in Ratios
               PROVE  LET parts == train_idx(train) \o val_idx(train, val) \o test_idx(train, val)
                      IN  Len(parts) = num_samples /\ {parts[i] : i \in DOMAIN parts} = Samples
    BY DEF SplitIsPartition
  <2>1. /\ indices \in [1 .. num_samples -> Samples]
        /\ Len(indices) = num_samples
        /\ \A s \in Samples : \E i \in 1 .. num_samples : indices[i] = s
    BY OrderIsOnto DEF EpochInv, Orders
  <2>2. {indices[i] : i \in DOMAIN indices} = Samples
    BY <2>1
  <2> QED BY <2>1, <2>2, PartsAreWhole
<1> QED BY <1>1, BatchInitInv, BatchNextInv, PTL DEF BatchSpec

=============================================================================

--------------------------- MODULE Preprocessing ---------------------------
(***************************************************************************)
(* Batches, splits and windows of a set of samples                         *)
(* (src/data/preprocessing.py).  The samples are 0 .. num_samples - 1.     *)
(***************************************************************************)
EXTENDS Integers, Sequences, FiniteSets, FiniteSetsExt

CONSTANTS
    SampleCounts,   \* values of num_samples
    BatchSizes,     \* values of batch_size
    Ratios          \* tenths: values of train_ratio and val_ratio

ASSUME SizesAssumption ==
    SampleCounts \subseteq Nat /\ BatchSizes \subseteq Nat \ {0} /\ Ratios \subseteq 0 .. 10

VARIABLES
    num_samples, batch_size, shuffle,   \* the arguments, which do not change
    indices,       \* the samples in the order in which they are handed out
    current_idx,   \* how many have been handed out
    looping,       \* somebody is in a loop over the generator
    handed,        \* history: how often a sample was handed out since the generator
                   \* last stopped
    batches        \* history: the batches since then

batchVars == <<num_samples, batch_size, shuffle, indices, current_idx, looping, handed, batches>>

Samples == 0 .. num_samples - 1
NothingHanded == [s \in Samples |-> 0]

InOrder == [i \in 1 .. num_samples |-> i - 1]
Orders == {f \in [1 .. num_samples -> Samples] :
                \A i, j \in DOMAIN f : f[i] = f[j] => i = j}

\* np.random.shuffle of what is in some order already
Shuffled(order) == IF shuffle THEN Orders ELSE {order}

BatchInit ==
    /\ num_samples \in SampleCounts
    /\ batch_size \in BatchSizes
    /\ shuffle \in BOOLEAN
    /\ indices \in Shuffled(InOrder)
    /\ current_idx = 0
    /\ looping = FALSE
    /\ handed = NothingHanded
    /\ batches = 0

\* sequence[from:to], which ends with the sequence
Slice(sequence, from, to) ==
    SubSeq(sequence, from + 1, IF to < Len(sequence) THEN to ELSE Len(sequence))

\* __iter__ returns the generator as it is.
Iterate ==
    /\ ~looping
    /\ looping' = TRUE
    /\ UNCHANGED <<num_samples, batch_size, shuffle, indices, current_idx, handed, batches>>

End == Min({current_idx + batch_size, num_samples})

\* Faulty variant of Batch: the sample at the end is part of it.
BatchWithEnd == Slice(indices, current_idx, End + 1)

Batch == Slice(indices, current_idx, End)

\* __next__
NextBatch ==
    /\ looping
    /\ current_idx < num_samples
    /\ current_idx' = End
    /\ handed' = [s \in Samples |-> handed[s] + Cardinality({i \in DOMAIN Batch : Batch[i] = s})]
    /\ batches' = batches + 1
    /\ UNCHANGED <<num_samples, batch_size, shuffle, indices, looping>>

StopIteration ==
    /\ looping
    /\ current_idx >= num_samples
    /\ indices' \in Shuffled(indices)
    /\ current_idx' = 0
    /\ looping' = FALSE
    /\ handed' = NothingHanded
    /\ batches' = 0
    /\ UNCHANGED <<num_samples, batch_size, shuffle>>

\* The loop is left before the generator stops, which is not told of it.
Break ==
    /\ looping
    /\ looping' = FALSE
    /\ UNCHANGED <<num_samples, batch_size, shuffle, indices, current_idx, handed, batches>>

BatchNext == Iterate \/ NextBatch \/ StopIteration \/ Break

BatchSpec == BatchInit /\ [][BatchNext]_batchVars

-----------------------------------------------------------------------------
(* split_data and create_sliding_window                                    *)

SizeOf(ratio) == (num_samples * ratio) \div 10

train_idx(train) == Slice(indices, 0, SizeOf(train))

\* Faulty variant of val_idx: the offset is missing at the end.
ValUpToSize(train, val) == Slice(indices, SizeOf(train), SizeOf(val))

val_idx(train, val) == Slice(indices, SizeOf(train), SizeOf(train) + SizeOf(val))

test_idx(train, val) == Slice(indices, SizeOf(train) + SizeOf(val), num_samples)

\* Faulty variant of num_windows: the window at the end is forgotten.
DistancesOnly(size, step) == (num_samples - size) \div step

num_windows(size, step) == (num_samples - size) \div step + 1

-----------------------------------------------------------------------------

\* "Number of batches" (__len__), rounded up
NumberOfBatches == (num_samples + batch_size - 1) \div batch_size

\* Between one StopIteration and the next, every sample is handed out exactly once and in
\* as many batches as __len__ says, however many loops it takes and whatever
\* the shuffling.
EpochIsWhole ==
    /\ \A s \in Samples : handed[s] <= 1
    /\ current_idx = num_samples =>
            batches = NumberOfBatches /\ \A s \in Samples : handed[s] = 1

\* "Split data into train/validation/test sets": every sample is in exactly one
\* of the three, whatever the ratios: if their sum exceeds one, the second set is
\* cut off and the third is empty.
SplitIsPartition ==
    \A train, val \in Ratios :
        LET parts == train_idx(train) \o val_idx(train, val) \o test_idx(train, val)
        IN  Len(parts) = num_samples /\ {parts[i] : i \in DOMAIN parts} = Samples

\* The windows lie within the sequence and none is left out at its end.  A
\* sequence shorter than a window has none; far shorter, the number is
\* negative and the call raises.
WindowsFit ==
    \A size, step \in BatchSizes :
        LET n == num_windows(size, step) IN
        /\ \A i \in 0 .. n - 1 : i * step + size <= num_samples
        /\ n * step + size > num_samples
        /\ num_samples < size <=> n <= 0

=============================================================================

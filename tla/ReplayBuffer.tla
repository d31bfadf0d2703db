--------------------------- MODULE ReplayBuffer ---------------------------
(***************************************************************************)
(* ExperienceReplay (src/models/neural_network.py): a list that grows to   *)
(* max_size and is then overwritten in a circle.  add and sample hold the  *)
(* lock throughout, so each is one step, and sample changes nothing.       *)
(***************************************************************************)
EXTENDS Naturals, Sequences

CONSTANTS
    Experiences,   \* what may be stored
    MaxSize        \* max_size

ASSUME MaxSizeAssumption == MaxSize \in Nat \ {0}

VARIABLES
    buffer,     \* self.buffer
    position    \* self.position, the index add writes to once the list is full

bufferVars == <<buffer, position>>

BufferInit ==
    /\ buffer = <<>>
    /\ position = 0

\* Faulty variant of Advance: the circle is one slot short.
AdvanceTooEarly(p) == (p + 1) % (MaxSize - 1)

Advance(p) == (p + 1) % MaxSize

Add(e) ==
    /\ buffer' = IF Len(buffer) < MaxSize
                 THEN Append(buffer, e)
                 ELSE [buffer EXCEPT ![position + 1] = e]
    /\ position' = Advance(position)

BufferNext == \E e \in Experiences : Add(e)

BufferSpec == BufferInit /\ [][BufferNext]_bufferVars

-----------------------------------------------------------------------------

\* The position stays on the list, and before the list is full at its end.
PositionOK ==
    /\ buffer \in Seq(Experiences)
    /\ Len(buffer) <= MaxSize
    /\ position \in 0..MaxSize - 1
    /\ Len(buffer) < MaxSize => position = Len(buffer)

\* The experiences by age: the oldest is the next one to be overwritten.
Oldest == IF Len(buffer) < MaxSize THEN 0 ELSE position
Window ==
    [i \in 1..Len(buffer) |->
        buffer[IF Oldest + i <= Len(buffer) THEN Oldest + i ELSE Oldest + i - Len(buffer)]]

\* The circle of slots is the window of the latest max_size experiences: none
\* is lost early, kept too long, or stored out of turn.
Latest == INSTANCE ReplayWindow WITH window <- Window
ImplementsWindow == Latest!Spec

=============================================================================

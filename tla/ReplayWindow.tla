--------------------------- MODULE ReplayWindow ---------------------------
(***************************************************************************)
(* What a replay buffer is for: the latest MaxSize experiences, in order.  *)
(***************************************************************************)
EXTENDS Naturals, Sequences

CONSTANTS Experiences, MaxSize

VARIABLE window   \* the oldest experience kept comes first

Init == window = <<>>

Add(e) ==
    window' = Append(IF Len(window) < MaxSize THEN window ELSE Tail(window), e)

Next == \E e \in Experiences : Add(e)

Spec == Init /\ [][Next]_window

=============================================================================

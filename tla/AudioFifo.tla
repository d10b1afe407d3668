----------------------------- MODULE AudioFifo -----------------------------
(***************************************************************************)
(* What a queue between two audio clocks promises, whoever fills and       *)
(* empties it: the frames handed over leave it in the order they came, as  *)
(* unbroken runs, each at most once, and whatever has to be given up is    *)
(* given up from the oldest end.  PlayQueue implements it.                 *)
(***************************************************************************)
EXTENDS Naturals, Sequences

CONSTANT Bursts     \* the sizes a delivery can have, in frames

VARIABLES handed,   \* how many frames have been handed over
          held,     \* the frames handed over and not yet given out or given up
          given     \* the newest frame given to the reader (0: none yet)
vars == <<handed, held, given>>

(* The n frames that follow frame k. *)
Run(k, n) == [i \in 1..n |-> k + i]

(* The queue without its k oldest frames. *)
From(q, k) == SubSeq(q, k + 1, Len(q))

Init == /\ handed = 0
        /\ held = <<>>
        /\ given = 0

Write(n) == /\ held' = held \o Run(handed, n)
            /\ handed' = handed + n
            /\ UNCHANGED given

Lose(k) == /\ held' = From(held, k)
           /\ UNCHANGED <<handed, given>>

Read(k) == /\ given' = held[k]
           /\ held' = From(held, k)
           /\ UNCHANGED handed

Next == \/ \E n \in Bursts : Write(n)
        \/ \E k \in 1..Len(held) : Lose(k) \/ Read(k)

Spec == Init /\ [][Next]_vars
=============================================================================

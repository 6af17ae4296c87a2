------------------------------ MODULE MCWorker ------------------------------
EXTENDS Worker, TLC

CONSTANTS a, b, B,  \* users; b and B differ by case
          o         \* an odd address, read as a's

MCReadAs == o :> a

MCLower == a :> "a" @@ b :> "b" @@ B :> "b"

\* Of a run that is over only whose it was still matters: no step and no
\* property looks at the rest.
Over(h) == [step |-> "done", op |-> handler[h].op, user |-> handler[h].user]
WorkerView ==
    <<db, free, uncleared,
      [h \in Request |-> IF At(h, "done") THEN Over(h) ELSE handler[h]],
      [h \in Request |-> Busy(h) /\ moved[h]]>>

RequestSymmetry == Permutations(Request)
=============================================================================

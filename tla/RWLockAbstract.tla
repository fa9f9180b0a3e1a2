--------------------------- MODULE RWLockAbstract ---------------------------
(***************************************************************************)
(* What the readers/writer lock of IN_TD_POSIX/ex3.c promises: any number  *)
(* of readers, or one writer; and a writer that asks for the lock keeps    *)
(* new readers out.                                                        *)
(***************************************************************************)
CONSTANTS Readers, Writers

VARIABLES
  inside,   \* the threads that hold the lock
  wanting   \* the writers that have asked for it and do not hold it yet

Init == inside = {} /\ wanting = {}

ReaderEnters(r) == /\ r \notin inside
                   /\ inside \subseteq Readers
                   /\ wanting = {}
                   /\ inside' = inside \cup {r}
                   /\ UNCHANGED wanting

WriterWants(w) == /\ w \notin inside \cup wanting
                  /\ wanting' = wanting \cup {w}
                  /\ UNCHANGED inside

WriterEnters(w) == /\ w \in wanting
                   /\ inside = {}
                   /\ inside' = {w}
                   /\ wanting' = wanting \ {w}

Leaves(th) == /\ th \in inside
              /\ inside' = inside \ {th}
              /\ UNCHANGED wanting

Next == \/ \E r \in Readers : ReaderEnters(r)
        \/ \E w \in Writers : WriterWants(w) \/ WriterEnters(w)
        \/ \E th \in Readers \cup Writers : Leaves(th)

Spec == Init /\ [][Next]_<<inside, wanting>>

=============================================================================

----------------------------- MODULE ModelSlot -----------------------------
(***************************************************************************)
(* What promotion and rollback promise about the production model file: a  *)
(* model that is in use is copied aside before another file takes its      *)
(* place, so that an interrupted replacement leaves it in one of the two.  *)
(* Only training puts a model, always a new one, into the slot directly.   *)
(***************************************************************************)
EXTENDS Naturals

CONSTANTS MaxModels, Torn, None

VARIABLES
  slot,    \* content of the production file
  spare,   \* content of its backup
  trained  \* models trained so far, numbered in this order

vars == <<slot, spare, trained>>

Content == 1..MaxModels \cup {None, Torn}

Init == slot = None /\ spare = None /\ trained = 0

\* The model in use is copied aside; interrupted, the copy is torn.
Save == slot # None /\ spare' \in {slot, Torn} /\ UNCHANGED <<slot, trained>>

\* A file takes the place of a model that was copied aside.
Replace ==
  /\ spare = slot
  /\ slot' \in (1..trained) \cup {Torn}
  /\ UNCHANGED <<spare, trained>>

\* The first file to be installed has nothing to be copied.
Fill == slot = None /\ slot' \in (1..trained) \cup {Torn} /\ UNCHANGED <<spare, trained>>

\* A new model is trained: into the slot, or elsewhere.
Train ==
  /\ trained < MaxModels /\ trained' = trained + 1
  /\ slot' \in {slot, trained', Torn}
  /\ UNCHANGED spare

Next == Save \/ Replace \/ Fill \/ Train

Spec == Init /\ [][Next]_vars
=============================================================================

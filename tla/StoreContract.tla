--------------------------- MODULE StoreContract ---------------------------
(***************************************************************************)
(* What store::Store (src/store/store.h) promises whichever backend is     *)
(* behind it: messages come back in insertion order, a file saved again    *)
(* under its id keeps its session and its place, has its content replaced  *)
(* and its version raised by one.  The interface is silent on a message    *)
(* saved twice under one id, so both answers are allowed.  A backend may   *)
(* lose everything when the process ends.                                  *)
(***************************************************************************)
EXTENDS Naturals, Sequences, SequencesExt

CONSTANT Sessions

VARIABLES msgs, files

Init == msgs = [s \in Sessions |-> << >>] /\ files = [s \in Sessions |-> << >>]

\* One more message, after those that are there.
MessageSave(s) ==
    /\ msgs'[s] # << >> /\ Last(msgs'[s]).session = s
    /\ msgs' = [msgs EXCEPT ![s] = Append(@, Last(msgs'[s]))]
    /\ UNCHANGED files

\* One message goes, the others keep their order.
MessageDelete(s) ==
    /\ \E i \in DOMAIN msgs[s] : msgs' = [msgs EXCEPT ![s] = RemoveAt(@, i)]
    /\ UNCHANGED files

Held(f) == \E s \in Sessions : \E i \in DOMAIN files[s] : files[s][i].id = f

FileNew(s) ==
    /\ files'[s] # << >> /\ ~Held(Last(files'[s]).id) /\ Last(files'[s]).version = 1
    /\ files' = [files EXCEPT ![s] = Append(@, Last(files'[s]))]
    /\ UNCHANGED msgs

FileVersion(s) ==
    /\ \E i \in DOMAIN files[s] :
           /\ i \in DOMAIN files'[s]
           /\ files' = [files EXCEPT ![s][i].content = files'[s][i].content,
                                     ![s][i].version = @ + 1]
    /\ UNCHANGED msgs

Lose == msgs' = [s \in Sessions |-> << >>] /\ files' = [s \in Sessions |-> << >>]

Next ==
    \/ \E s \in Sessions : MessageSave(s) \/ MessageDelete(s) \/ FileNew(s) \/ FileVersion(s)
    \/ Lose

Spec == Init /\ [][Next]_<<msgs, files>>

=============================================================================

----------------------------- MODULE SourceList -----------------------------
(***************************************************************************)
(* What `source add | remove | update` promise: a source is only ever      *)
(* registered when its catalog is on disk and usable, and it stays so for  *)
(* as long as it is registered.  The list changes one source at a time,    *)
(* when it is saved, except that a kill in the middle of saving it may     *)
(* lose all of it.                                                         *)
(***************************************************************************)
CONSTANT Sources

VARIABLES registered,   \* the sources `source list` shows
          saving,       \* a command is rewriting the list
          usable        \* the sources whose catalog opens and answers queries

lvars == <<registered, saving, usable>>

Init == registered \subseteq usable /\ usable \subseteq Sources /\ saving = FALSE

Refresh(n) == usable' = usable \cup {n} /\ UNCHANGED <<registered, saving>>
Discard(n) == n \notin registered /\ usable' = usable \ {n} /\ UNCHANGED <<registered, saving>>

BeginSave     == ~saving /\ saving' = TRUE /\ UNCHANGED <<registered, usable>>
Saved(list)   == saving /\ saving' = FALSE /\ registered' = list /\ UNCHANGED usable
Register(n)   == n \in usable /\ Saved(registered \cup {n})
Unregister(n) == Saved(registered \ {n})
Lose          == Saved({})

Next == \/ BeginSave \/ Lose
        \/ \E n \in Sources :
              Refresh(n) \/ Register(n) \/ Unregister(n) \/ Discard(n)

Spec == Init /\ [][Next]_lvars
=============================================================================

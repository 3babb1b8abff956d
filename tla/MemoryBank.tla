----------------------------- MODULE MemoryBank -----------------------------
(***************************************************************************)
(* What the memory tools promise, without tables, decay, clocks or         *)
(* embeddings: a set of texts under identifiers that are never used twice, *)
(* each current or replaced by another one that is there as long as it is. *)
(***************************************************************************)
EXTENDS Tables

CONSTANTS Ids, Texts, None

VARIABLES bank,  \* identifier -> its text and the memory that replaces it
          used   \* identifiers ever given out

vars == <<bank, used>>

Save(id, text) == /\ id \notin used
                  /\ bank' = Put(bank, id, [text |-> text, by |-> None])
                  /\ used' = used \cup {id}

Edit(id, text) == /\ bank' = Put(bank, id, [bank[id] EXCEPT !.text = text])
                  /\ UNCHANGED used

Replace(id, by) == /\ by \in DOMAIN bank \ {id}
                   /\ bank' = Put(bank, id, [bank[id] EXCEPT !.by = by])
                   /\ UNCHANGED used

\* Nothing that stays may have been replaced by something that goes.
Remove(ids) == /\ \A id \in DOMAIN bank \ ids : bank[id].by \notin ids
               /\ bank' = Without(bank, ids)
               /\ UNCHANGED used

Init == bank = [id \in {} |-> id] /\ used = {}

Next ==
  \/ \E id \in Ids, text \in Texts : Save(id, text)
  \/ \E id \in DOMAIN bank : \/ \E text \in Texts : Edit(id, text)
                             \/ \E by \in DOMAIN bank : Replace(id, by)
  \/ \E ids \in SUBSET DOMAIN bank : Remove(ids)

Spec == Init /\ [][Next]_vars
=============================================================================

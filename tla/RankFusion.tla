----------------------------- MODULE RankFusion -----------------------------
(***************************************************************************)
(* internal/search/rrf.go: reciprocal rank fusion of the list of lexical   *)
(* and the list of vector results, as operators on lists of memory ids.    *)
(*                                                                         *)
(* A score is a sum of fractions 1/(rrf_k + rank); it is kept as a multiple *)
(* of 1/Scale, a common denominator of all of them.                        *)
(***************************************************************************)
EXTENDS Integers, SequencesExt

CONSTANTS RRFK,           \* rrf_k
          MaxPerSession,  \* max_per_session
          MaxRank         \* bound on the length of the lists

ASSUME RankFusionAssumption == {RRFK, MaxPerSession, MaxRank} \subseteq Nat \ {0}

NoSession == "none"  \* session_id IS NULL

Product[rank \in 0..MaxRank] ==
  IF rank = 0 THEN 1 ELSE Product[rank - 1] * (RRFK + rank)

Scale == Product[MaxRank]

Share(list, id) ==
  IF Contains(list, id)
    THEN Scale \div (RRFK + CHOOSE rank \in DOMAIN list : list[rank] = id)
    ELSE 0

Score(bm25, vector, id) == Share(bm25, id) + Share(vector, id)

\* The order of the merged items: equal scores by id.
Better(bm25, vector, a, b) ==
  \/ Score(bm25, vector, a) > Score(bm25, vector, b)
  \/ Score(bm25, vector, a) = Score(bm25, vector, b) /\ a < b

\* The members of S in an order, which may leave some open.
Sorted(S, before(_, _)) ==
  {list \in SetToSeqs(S) :
     \A i, j \in DOMAIN list : i < j => before(list[i], list[j])}

\* Mutant: the items of one list only are not merged.
MergedBoth(bm25, vector) ==
  CHOOSE list \in Sorted(ToSet(bm25) \cap ToSet(vector),
                         LAMBDA a, b : Better(bm25, vector, a, b)) : TRUE

Merged(bm25, vector) ==
  CHOOSE list \in Sorted(ToSet(bm25) \cup ToSet(vector),
                         LAMBDA a, b : Better(bm25, vector, a, b)) : TRUE

InSession(ids, session, id) == {x \in ids : session[x] = session[id]}

\* Mutant: a session gets one more.
CappedLate(results, session, id) ==
  /\ session[id] # NoSession
  /\ Cardinality(InSession(ToSet(results), session, id)) > MaxPerSession

\* perSession: memories without a session are not limited.
Capped(results, session, id) ==
  /\ session[id] # NoSession
  /\ Cardinality(InSession(ToSet(results), session, id)) >= MaxPerSession

\* FuseRRF: the loop over the merged items; session gives each its session.
FuseRRF(bm25, vector, session, finalK) ==
  LET items == Merged(bm25, vector)
      results[n \in 0..Len(items)] ==
        IF n = 0 THEN <<>>
        ELSE IF \/ Len(results[n - 1]) >= finalK
                \/ Capped(results[n - 1], session, items[n])
          THEN results[n - 1]
          ELSE Append(results[n - 1], items[n])
  IN results[Len(items)]

\* What the loop computes: the best items in order, up to finalK, of which a
\* session has at most MaxPerSession; an item is left out only for that many
\* better results, of all or of its session.
IsFusion(list, bm25, vector, session, finalK) ==
  LET found == ToSet(list)
      ahead(id) == {x \in found : Better(bm25, vector, x, id)}
      mates(id) == InSession(found, session, id)
  IN /\ Len(list) <= finalK
     /\ \A i, j \in DOMAIN list :
          i < j => Better(bm25, vector, list[i], list[j])
     /\ \A id \in found :
          session[id] # NoSession => Cardinality(mates(id)) <= MaxPerSession
     /\ found \subseteq ToSet(bm25) \cup ToSet(vector)
     /\ \A id \in (ToSet(bm25) \cup ToSet(vector)) \ found :
          \/ Cardinality(ahead(id)) = finalK
          \/ /\ session[id] # NoSession
             /\ Cardinality(ahead(id) \cap mates(id)) = MaxPerSession
=============================================================================

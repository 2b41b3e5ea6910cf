-------------------------- MODULE RepositoryProofs ---------------------------
(***************************************************************************)
(* What the update operations of AbstractRepository do when they are       *)
(* called again with the same arguments, as a caller does that has had no  *)
(* answer.  It depends on whether the document written still matches the   *)
(* filter, that is on whether update and filter agree on the fields both   *)
(* name.                                                                   *)
(***************************************************************************)
EXTENDS Repository, TLAPS

Agree(filter, update) ==
  \A field \in DOMAIN filter \cap DOMAIN update : filter[field] = update[field]

\* What is written over a matching document, or over the filter, matches the filter
\* exactly if the two agree.
LEMMA OverlayMatches ==
  ASSUME NEW filter, NEW update, NEW document, Matches(document, filter)
  PROVE  Matches(Overlay(update, document), filter) <=> Agree(filter, update)
BY DEF Matches, Agree, Overlay

\* Setting the same fields a second time changes nothing.
LEMMA OverlayTwice ==
  ASSUME NEW update, NEW document
  PROVE  Overlay(update, Overlay(update, document)) = Overlay(update, document)
BY DEF Overlay

\* The document of an update is in the collection, at its _id; all others are as before.
LEMMA AfterUpdate ==
  ASSUME NEW coll, IsCollection(coll), NEW filter, NEW update, NEW id, NEW after,
         FindOneAndUpdate(coll, filter, update, id, after)
  PROVE  /\ IsCollection(after)
         /\ DOMAIN after = DOMAIN coll /\ id \in DOMAIN coll
         /\ after[id] = Overlay(update, coll[id])
         /\ \A other \in DOMAIN coll \ {id} : after[other] = coll[other]
         /\ Matches(coll[id], filter)
<1>1. id \in DOMAIN coll /\ Matches(coll[id], filter)
  BY DEF FindOneAndUpdate, Matching
<1>2. after = [other \in DOMAIN coll |->
                 IF other = id THEN Overlay(update, coll[id]) ELSE coll[other]]
  BY DEF FindOneAndUpdate, IsCollection, IsFunction
<1>3. IsFunction(Overlay(update, coll[id]))
  BY DEF IsFunction, Overlay
<1> HIDE DEF Overlay
<1> QED
  BY <1>1, <1>2, <1>3 DEF IsCollection, IsFunction

\* What an upsert leaves: a document that has the fields of the one passed to it, and
\* matches the filter exactly if the two agree; all others are as they were.
Upserted(coll, filter, document, id, after) ==
  /\ IsCollection(after)
  /\ DOMAIN after = DOMAIN coll \cup {id}
  /\ \A other \in DOMAIN coll \ {id} : after[other] = coll[other]
  /\ Overlay(document, after[id]) = after[id]
  /\ id \in Matching(after, filter) <=> Agree(filter, document)

LEMMA AfterUpsert ==
  ASSUME NEW coll, IsCollection(coll), NEW filter, NEW document, NEW id, NEW after,
         Upsert(coll, filter, document, id, after)
  PROVE  Upserted(coll, filter, document, id, after)
<1>1. CASE FindOneAndUpdate(coll, filter, document, id, after)
  <2>1. /\ IsCollection(after)
        /\ DOMAIN after = DOMAIN coll /\ id \in DOMAIN coll
        /\ after[id] = Overlay(document, coll[id])
        /\ \A other \in DOMAIN coll \ {id} : after[other] = coll[other]
        /\ Matches(coll[id], filter)
    BY <1>1, AfterUpdate
  <2> QED
    BY <2>1, OverlayMatches, OverlayTwice DEF Matching, Upserted
<1>2. CASE /\ id \notin DOMAIN coll
           /\ after = [other \in DOMAIN coll \cup {id} |->
                         IF other = id THEN Overlay(document, filter) ELSE coll[other]]
  <2>1. Matches(filter, filter)
    BY DEF Matches
  <2>2. IsFunction(Overlay(document, filter))
    BY DEF IsFunction, Overlay
  <2>3. IsCollection(after)
    BY <1>2, <2>2 DEF IsCollection, IsFunction
  <2>4. after[id] = Overlay(document, filter)
    BY <1>2
  <2> QED
    BY <1>2, <2>1, <2>3, <2>4, OverlayMatches, OverlayTwice DEF Matching, Upserted
<1> QED
  BY <1>1, <1>2 DEF Upsert

-----------------------------------------------------------------------------

\* An upsert that agrees with its filter may be repeated: the second call inserts
\* nothing, and where the filter names one document at most it finds what the first has
\* written and changes nothing.
THEOREM UpsertIsRepeatable ==
  ASSUME NEW coll, IsCollection(coll), NEW filter, NEW document, Agree(filter, document),
         NEW first, NEW between, Upsert(coll, filter, document, first, between),
         NEW second, NEW after, Upsert(between, filter, document, second, after)
  PROVE  /\ DOMAIN after = DOMAIN between
         /\ (\A i, j \in Matching(coll, filter) : i = j) =>
               second = first /\ after = between
<1>1. Upserted(coll, filter, document, first, between)
  BY AfterUpsert
<1>2. /\ IsCollection(between) /\ DOMAIN between = DOMAIN coll \cup {first}
      /\ \A other \in DOMAIN coll \ {first} : between[other] = coll[other]
      /\ Overlay(document, between[first]) = between[first]
  BY <1>1 DEF Upserted
<1>3. first \in Matching(between, filter)
  BY <1>1 DEF Upserted
<1>4. FindOneAndUpdate(between, filter, document, second, after)
  BY <1>3 DEF Upsert
<1>5. /\ IsCollection(after) /\ DOMAIN after = DOMAIN between
      /\ after[second] = Overlay(document, between[second])
      /\ \A other \in DOMAIN between \ {second} : after[other] = between[other]
      /\ second \in Matching(between, filter)
  BY <1>2, <1>4, AfterUpdate DEF FindOneAndUpdate
<1>6. ASSUME \A i, j \in Matching(coll, filter) : i = j
      PROVE  second = first /\ after = between
  <2>1. second = first
    <3>1. SUFFICES ASSUME second # first PROVE FALSE
      OBVIOUS
    <3>2. second \in DOMAIN coll \ {first} /\ between[second] = coll[second]
      BY <1>2, <1>5, <3>1 DEF Matching
    <3>3. second \in Matching(coll, filter)
      BY <1>5, <3>2 DEF Matching
    <3>4. FindOneAndUpdate(coll, filter, document, first, between)
      BY <3>3 DEF Upsert
    <3> QED
      BY <1>6, <3>1, <3>3, <3>4 DEF FindOneAndUpdate
  <2>2. after[first] = between[first]
    BY <1>2, <1>5, <2>1
  <2>3. \A id \in DOMAIN between : after[id] = between[id]
    BY <1>5, <2>1, <2>2
  <2> QED
    BY <1>2, <1>5, <2>1, <2>3 DEF IsCollection, IsFunction
<1> QED
  BY <1>5, <1>6

\* An upsert that contradicts its filter may not: where nothing matched, each repetition
\* inserts one more document.
THEOREM ContradictingUpsertInsertsAgain ==
  ASSUME NEW coll, IsCollection(coll), NEW filter, NEW document, ~Agree(filter, document),
         Matching(coll, filter) = {},
         NEW first, NEW between, Upsert(coll, filter, document, first, between),
         NEW second, NEW after, Upsert(between, filter, document, second, after)
  PROVE  /\ second \notin DOMAIN between
         /\ DOMAIN after = DOMAIN coll \cup {first, second}
<1>1. Upserted(coll, filter, document, first, between)
  BY AfterUpsert
<1>2. /\ IsCollection(between) /\ DOMAIN between = DOMAIN coll \cup {first}
      /\ \A other \in DOMAIN coll \ {first} : between[other] = coll[other]
      /\ first \notin Matching(between, filter)
  BY <1>1 DEF Upserted
<1>3. Matching(between, filter) = {}
  BY <1>2 DEF Matching
<1>4. second \notin DOMAIN between
  BY <1>3 DEF Upsert, FindOneAndUpdate
<1>5. DOMAIN after = DOMAIN between \cup {second}
  <2>1. Upserted(between, filter, document, second, after)
    BY <1>2, AfterUpsert
  <2> QED
    BY <2>1 DEF Upserted
<1> QED
  BY <1>2, <1>4, <1>5

\* findOneAndUpdate repeated on the only match of its filter: it finds the same document
\* and changes nothing if the update agrees with the filter, and throws
\* NotFoundException, although it has done its work, if it does not.
THEOREM UpdateRepeated ==
  ASSUME NEW coll, IsCollection(coll), NEW filter, NEW update,
         \A i, j \in Matching(coll, filter) : i = j,
         NEW id, NEW after, FindOneAndUpdate(coll, filter, update, id, after)
  PROVE  /\ Agree(filter, update) => FindOneAndUpdate(after, filter, update, id, after)
         /\ ~Agree(filter, update) => Matching(after, filter) = {}
<1>1. id \in Matching(after, filter) <=> Agree(filter, update)
  BY AfterUpsert DEF Upsert, Upserted
<1>2. /\ IsCollection(after) /\ DOMAIN after = DOMAIN coll /\ id \in DOMAIN coll
      /\ after[id] = Overlay(update, coll[id])
      /\ \A other \in DOMAIN coll \ {id} : after[other] = coll[other]
      /\ id \in Matching(coll, filter)
  BY AfterUpdate DEF FindOneAndUpdate
<1>3. ASSUME Agree(filter, update) PROVE FindOneAndUpdate(after, filter, update, id, after)
  <2>1. id \in Matching(after, filter)
    BY <1>1, <1>3
  <2>2. Overlay(update, after[id]) = after[id]
    BY <1>2, OverlayTwice
  <2>3. after = [after EXCEPT ![id] = Overlay(update, @)]
    BY <1>2, <2>2 DEF IsCollection, IsFunction
  <2> QED
    BY <2>1, <2>3 DEF FindOneAndUpdate
<1>4. ASSUME ~Agree(filter, update) PROVE Matching(after, filter) = {}
  <2>1. id \notin Matching(after, filter)
    BY <1>1, <1>4
  <2>2. \A other \in DOMAIN coll \ {id} : other \notin Matching(coll, filter)
    BY <1>2
  <2> QED
    BY <1>2, <2>1, <2>2 DEF Matching
<1> QED
  BY <1>3, <1>4
=============================================================================

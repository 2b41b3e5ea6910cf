----------------------------- MODULE Repository ------------------------------
(***************************************************************************)
(* AbstractRepository: what its operations on one collection find and      *)
(* leave behind when nothing runs beside them.  A collection is a function *)
(* from the _ids of its documents to the documents, a document a function  *)
(* from the fields its schema declares to their values.  UsersService      *)
(* finds users with findOne.  findOneAndUpdate and upsert are offered by   *)
(* the library and no service calls them yet.                              *)
(***************************************************************************)
IsFunction(f) == f = [x \in DOMAIN f |-> f[x]]

\* Every document has an _id, its key here, which no operation changes.
IsCollection(coll) ==
  IsFunction(coll) /\ \A id \in DOMAIN coll : IsFunction(coll[id])

\* The filters of this code ask for equal fields.
Matches(document, filter) ==
  \A field \in DOMAIN filter :
    field \in DOMAIN document /\ document[field] = filter[field]

\* The documents findOne may return, which of them is MongoDB's choice; when there
\* is none it throws NotFoundException, and so does findOneAndUpdate.
Matching(coll, filter) == {id \in DOMAIN coll : Matches(coll[id], filter)}

\* Mongoose sets the fields an update names and leaves all others alone.
Overlay(update, document) ==
  [field \in DOMAIN update \cup DOMAIN document |->
     IF field \in DOMAIN update THEN update[field] ELSE document[field]]

\* findOneAndUpdate has found id and leaves after.
FindOneAndUpdate(coll, filter, update, id, after) ==
  /\ id \in Matching(coll, filter)
  /\ after = [coll EXCEPT ![id] = Overlay(update, @)]

\* upsert has updated id, or inserted it with the fields of the filter where the
\* document gives no others.
Upsert(coll, filter, document, id, after) ==
  \/ FindOneAndUpdate(coll, filter, document, id, after)
  \/ /\ Matching(coll, filter) = {}
     /\ id \notin DOMAIN coll
     /\ after = [other \in DOMAIN coll \cup {id} |->
                    IF other = id THEN Overlay(document, filter) ELSE coll[other]]
=============================================================================

------------------------ MODULE WorkspaceRecordsProofs ------------------------
(***************************************************************************)
(* The backup of a workspace, the knowledge records of its pages and the   *)
(* packs of its pages for agents.                                          *)
(*                                                                         *)
(* A backup of a workspace without damage is accepted and rebuilds it, and *)
(* no import leaves a reference that dangles, for any records.  What ties  *)
(* the two together is that a workspace that has lost no save refers only  *)
(* to what it has; this is inductive.                                      *)
(*                                                                         *)
(* A page that is deleted leaves no property and no relation, a record is  *)
(* listed as it was saved last, and a new page shows the properties of its *)
(* kind, for any number of records, properties and errors.  The turns of   *)
(* SeedDefaultPropertiesForNewDocument are followed by an induction over   *)
(* their number, for which a set of numbers has a least one.               *)
(*                                                                         *)
(* A pack is rendered into the texts of its pages, in their order, for any *)
(* number of items.                                                        *)
(***************************************************************************)
EXTENDS WorkspaceArchive, Knowledge, ContextPacks, FiniteSetTheorems, FunctionTheorems, SequenceTheorems,
        WellFoundedInduction, TLAPS

-----------------------------------------------------------------------------
(* The archive.                                                             *)


Offers == SUBSET (Definitions \X Options)
Chosen == SUBSET (Definitions \X Docs \X Options)
Ends == SUBSET Relation

\* What the repository may hold: well-typed, and only of pages that are there.
Sound(r) == r \in Held /\ r.trashed \cup r.corrupted \subseteq r.docs

LEMMA HeldShape ==
  Held = [root : BOOLEAN, docs : SUBSET Docs, trashed : SUBSET Docs, corrupted : SUBSET Docs,
          conflicts : SUBSET Docs, attachments : SUBSET Attachments, definitions : Offers,
          types : SUBSET Types, values : Chosen, relations : Ends]
  BY Zenon DEF Held, Offers, Chosen, Ends

LEMMA SameHeld ==
  ASSUME NEW x \in Held, NEW y \in Held,
         x.root = y.root, x.docs = y.docs, x.trashed = y.trashed, x.corrupted = y.corrupted,
         x.conflicts = y.conflicts, x.attachments = y.attachments,
         x.definitions = y.definitions, x.types = y.types, x.values = y.values,
         x.relations = y.relations
  PROVE  x = y
  BY HeldShape

LEMMA Subsets ==
  /\ {} \in Offers /\ {} \in Chosen /\ {} \in Ends
  /\ \A X \in Offers : \A Y : Y \subseteq X => Y \in Offers
  /\ \A X \in Chosen : \A Y : Y \subseteq X => Y \in Chosen
  /\ \A X \in Ends : \A Y : Y \subseteq X => Y \in Ends
  /\ \A X, Y \in Offers : X \cup Y \in Offers
  /\ \A X, Y \in Chosen : X \cup Y \in Chosen
  /\ \A X, Y \in Ends : X \cup Y \in Ends
  /\ \A p \in Definitions, o \in Options : {<<p, o>>} \in Offers
  /\ \A p \in Definitions, d \in Docs, o \in Options : {<<p, d, o>>} \in Chosen
  /\ \A r \in Relation : {r} \in Ends
  BY DEF Offers, Chosen, Ends

LEMMA EmptyHeld == Sound(Empty)
<1>1. Empty \in Held
  BY HeldShape, Subsets DEF Empty
<1> QED
  BY <1>1 DEF Sound, Empty

LEMMA TypeInit == Init => TypeOK
<1> SUFFICES ASSUME Init PROVE TypeOK
  OBVIOUS
<1> DEFINE r == [Empty EXCEPT !.root = TRUE, !.docs = Docs]
<1>1. r \in Held
  BY EmptyHeld, HeldShape DEF Sound
<1>2. r.trashed \cup r.corrupted \subseteq r.docs
  BY DEF Empty
<1>3. archive = NoArchive /\ restored \in {"none", "ok", "refused", "error"}
  BY DEF Init
<1>4. edits \in 0..MaxEdits /\ faults \in 0..MaxFaults
  BY ArchiveAssumption DEF Init
<1> QED
  BY <1>1, <1>2, <1>3, <1>4, Zenon DEF Init, TypeOK

\* References that hold go on holding when the ends grow.
LEMMA Grown ==
  ASSUME NEW r, References(r), NEW q,
         r.docs \subseteq q.docs, r.types \subseteq q.types,
         Ids(r.definitions) \subseteq Ids(q.definitions),
         q.values \subseteq r.values, q.relations \subseteq r.relations
  PROVE  References(q)
  BY DEF References

-----------------------------------------------------------------------------
(* Edits.                                                                   *)

\* What an edit may make of the repository.
Good(r) == Sound(r) /\ (References(repo) => References(r))

LEMMA PageEditsAreGood ==
  ASSUME TypeOK, NEW d \in Docs
  PROVE  /\ Good([repo EXCEPT !.docs = @ \cup {d}, !.trashed = @ \ {d}])
         /\ d \in repo.docs => Good([repo EXCEPT !.trashed = @ \cup {d}])
         /\ d \in repo.docs => Good([repo EXCEPT !.corrupted = @ \cup {d}])
         /\ d \in repo.docs => Good([repo EXCEPT !.conflicts = @ \cup {d}])
<1> DEFINE r1 == [repo EXCEPT !.docs = @ \cup {d}, !.trashed = @ \ {d}]
           r2 == [repo EXCEPT !.trashed = @ \cup {d}]
           r3 == [repo EXCEPT !.corrupted = @ \cup {d}]
           r4 == [repo EXCEPT !.conflicts = @ \cup {d}]
<1>1. repo \in Held /\ repo.trashed \cup repo.corrupted \subseteq repo.docs
  BY DEF TypeOK
<1>2. r1 \in Held /\ r1.docs = repo.docs \cup {d} /\ r1.trashed \cup r1.corrupted \subseteq r1.docs
      /\ r1.types = repo.types /\ r1.definitions = repo.definitions
      /\ r1.values = repo.values /\ r1.relations = repo.relations
  BY <1>1, HeldShape
<1>3. r2 \in Held /\ r2.docs = repo.docs /\ (d \in repo.docs => r2.trashed \cup r2.corrupted \subseteq r2.docs)
      /\ r2.types = repo.types /\ r2.definitions = repo.definitions
      /\ r2.values = repo.values /\ r2.relations = repo.relations
  BY <1>1, HeldShape
<1>4. r3 \in Held /\ r3.docs = repo.docs /\ (d \in repo.docs => r3.trashed \cup r3.corrupted \subseteq r3.docs)
      /\ r3.types = repo.types /\ r3.definitions = repo.definitions
      /\ r3.values = repo.values /\ r3.relations = repo.relations
  BY <1>1, HeldShape
<1>5. r4 \in Held /\ r4.docs = repo.docs /\ r4.trashed \cup r4.corrupted \subseteq r4.docs
      /\ r4.types = repo.types /\ r4.definitions = repo.definitions
      /\ r4.values = repo.values /\ r4.relations = repo.relations
  BY <1>1, HeldShape
<1> HIDE DEF r1, r2, r3, r4
<1>6. \A r \in {r1, r2, r3, r4} : References(repo) => References(r)
  BY <1>2, <1>3, <1>4, <1>5 DEF References
<1>7. Good(r1) /\ (d \in repo.docs => Good(r2) /\ Good(r3) /\ Good(r4))
  BY <1>2, <1>3, <1>4, <1>5, <1>6 DEF Good, Sound
<1> QED
  BY <1>7 DEF r1, r2, r3, r4

LEMMA DeleteIsGood ==
  ASSUME TypeOK, NEW d \in Docs, d \in repo.docs \ repo.corrupted
  PROVE  Good([repo EXCEPT !.docs = @ \ {d}, !.trashed = @ \ {d}, !.conflicts = @ \ {d},
                           !.values = {v \in @ : v[2] # d},
                           !.relations = {r \in @ : d \notin {r[2], r[3]}}])
<1> DEFINE q == [repo EXCEPT !.docs = @ \ {d}, !.trashed = @ \ {d}, !.conflicts = @ \ {d},
                             !.values = {v \in @ : v[2] # d},
                             !.relations = {r \in @ : d \notin {r[2], r[3]}}]
           V == {v \in repo.values : v[2] # d}
           E == {r \in repo.relations : d \notin {r[2], r[3]}}
<1>1. repo \in Held /\ repo.trashed \cup repo.corrupted \subseteq repo.docs
  BY DEF TypeOK
<1>2. V \in Chosen /\ E \in Ends
  <2>1. repo.values \in Chosen /\ repo.relations \in Ends /\ V \subseteq repo.values /\ E \subseteq repo.relations
    BY <1>1, HeldShape
  <2> HIDE DEF V, E
  <2> QED
    BY <2>1, Subsets
<1>3. q = [repo EXCEPT !.docs = @ \ {d}, !.trashed = @ \ {d}, !.conflicts = @ \ {d},
                       !.values = V, !.relations = E]
  BY Zenon
<1> HIDE DEF q, V, E
<1>4. q \in Held
  BY <1>1, <1>2, <1>3, HeldShape
<1>5. q.docs = repo.docs \ {d} /\ q.trashed = repo.trashed \ {d} /\ q.corrupted = repo.corrupted
      /\ q.types = repo.types /\ q.definitions = repo.definitions
      /\ q.values = V /\ q.relations = E
  BY <1>1, <1>3, HeldShape
<1>6. References(repo) => References(q)
  BY <1>5 DEF References, V, E
<1>7. q.trashed \cup q.corrupted \subseteq q.docs
  BY <1>1, <1>5
<1>8. Good(q)
  BY <1>4, <1>6, <1>7, Zenon DEF Good, Sound
<1> QED
  BY <1>8 DEF q

LEMMA RecordEditsAreGood ==
  ASSUME TypeOK
  PROVE  /\ \A a \in Attachments : Good([repo EXCEPT !.attachments = @ \cup {a}])
         /\ \A t \in Types : Good([repo EXCEPT !.types = @ \cup {t}])
         /\ Good(Empty)
<1>1. repo \in Held /\ repo.trashed \cup repo.corrupted \subseteq repo.docs
  BY DEF TypeOK
<1>2. ASSUME NEW a \in Attachments
      PROVE  Good([repo EXCEPT !.attachments = @ \cup {a}])
  <2> DEFINE q == [repo EXCEPT !.attachments = @ \cup {a}]
  <2>1. q \in Held /\ q.docs = repo.docs /\ q.trashed = repo.trashed /\ q.corrupted = repo.corrupted
        /\ q.types = repo.types /\ q.definitions = repo.definitions
        /\ q.values = repo.values /\ q.relations = repo.relations
    BY <1>1, HeldShape
  <2> HIDE DEF q
  <2>2. Good(q)
    BY <1>1, <2>1 DEF Good, Sound, References
  <2> QED
    BY <2>2 DEF q
<1>3. ASSUME NEW t \in Types
      PROVE  Good([repo EXCEPT !.types = @ \cup {t}])
  <2> DEFINE q == [repo EXCEPT !.types = @ \cup {t}]
  <2>1. q \in Held /\ q.docs = repo.docs /\ q.trashed = repo.trashed /\ q.corrupted = repo.corrupted
        /\ q.types = repo.types \cup {t} /\ q.definitions = repo.definitions
        /\ q.values = repo.values /\ q.relations = repo.relations
    BY <1>1, HeldShape
  <2> HIDE DEF q
  <2>2. Good(q)
    BY <1>1, <2>1 DEF Good, Sound, References
  <2> QED
    BY <2>2 DEF q
<1>4. References(Empty)
  BY DEF References, Empty
<1> QED
  BY <1>2, <1>3, <1>4, EmptyHeld DEF Good

LEMMA DefinitionEditIsGood ==
  ASSUME TypeOK, NEW p \in Definitions, NEW o \in Options
  PROVE  Good([repo EXCEPT !.definitions = {x \in @ : x[1] # p} \cup {<<p, o>>}])
<1> DEFINE D == {x \in repo.definitions : x[1] # p} \cup {<<p, o>>}
           q == [repo EXCEPT !.definitions = {x \in @ : x[1] # p} \cup {<<p, o>>}]
<1>1. repo \in Held /\ repo.trashed \cup repo.corrupted \subseteq repo.docs
  BY DEF TypeOK
<1>2. D \in Offers
  <2> DEFINE W == {x \in repo.definitions : x[1] # p}
  <2>1. repo.definitions \in Offers /\ W \subseteq repo.definitions
    BY <1>1, HeldShape
  <2>2. D = W \cup {<<p, o>>}
    OBVIOUS
  <2> HIDE DEF W, D
  <2>3. W \in Offers /\ {<<p, o>>} \in Offers
    BY <2>1, Subsets
  <2> QED
    BY <2>2, <2>3, Subsets
<1>3. Ids(repo.definitions) \subseteq Ids(D)
  <2> SUFFICES ASSUME NEW x \in repo.definitions PROVE x[1] \in Ids(D)
    BY DEF Ids
  <2>1. CASE x[1] = p
    BY <2>1 DEF Ids
  <2>2. CASE x[1] # p
    BY <2>2 DEF Ids
  <2> QED
    BY <2>1, <2>2
<1>4. q = [repo EXCEPT !.definitions = D]
  BY Zenon
<1> HIDE DEF D, q
<1>5. q \in Held /\ q.docs = repo.docs /\ q.trashed = repo.trashed /\ q.corrupted = repo.corrupted
      /\ q.types = repo.types /\ q.definitions = D
      /\ q.values = repo.values /\ q.relations = repo.relations
  BY <1>1, <1>2, <1>4, HeldShape
<1>6. References(repo) => References(q)
  BY <1>3, <1>5, Grown
<1>7. Good(q)
  BY <1>1, <1>5, <1>6 DEF Good, Sound
<1> QED
  BY <1>7 DEF q

LEMMA ValueEditIsGood ==
  ASSUME TypeOK, NEW p \in Definitions, NEW d \in Docs, NEW o \in Options,
         <<p, o>> \in repo.definitions, d \in repo.docs
  PROVE  Good([repo EXCEPT !.values = {v \in @ : <<v[1], v[2]>> # <<p, d>>} \cup {<<p, d, o>>}])
<1> DEFINE V == {v \in repo.values : <<v[1], v[2]>> # <<p, d>>} \cup {<<p, d, o>>}
           q == [repo EXCEPT !.values = {v \in @ : <<v[1], v[2]>> # <<p, d>>} \cup {<<p, d, o>>}]
<1>1. repo \in Held /\ repo.trashed \cup repo.corrupted \subseteq repo.docs
  BY DEF TypeOK
<1>2. V \in Chosen
  <2> DEFINE W == {v \in repo.values : <<v[1], v[2]>> # <<p, d>>}
  <2>1. repo.values \in Chosen /\ W \subseteq repo.values
    BY <1>1, HeldShape
  <2>2. V = W \cup {<<p, d, o>>}
    OBVIOUS
  <2> HIDE DEF W, V
  <2>3. W \in Chosen /\ {<<p, d, o>>} \in Chosen
    BY <2>1, Subsets
  <2> QED
    BY <2>2, <2>3, Subsets
<1>3. p \in Ids(repo.definitions)
  BY DEF Ids
<1>4. \A v \in V : v \in repo.values \/ (v[1] = p /\ v[2] = d)
  OBVIOUS
<1>5. q = [repo EXCEPT !.values = V]
  BY Zenon
<1> HIDE DEF V, q
<1>6. q \in Held /\ q.docs = repo.docs /\ q.trashed = repo.trashed /\ q.corrupted = repo.corrupted
      /\ q.types = repo.types /\ q.definitions = repo.definitions
      /\ q.values = V /\ q.relations = repo.relations
  BY <1>1, <1>2, <1>5, HeldShape
<1>7. References(repo) => References(q)
  BY <1>3, <1>4, <1>6 DEF References
<1>8. Good(q)
  BY <1>1, <1>6, <1>7 DEF Good, Sound
<1> QED
  BY <1>8 DEF q

LEMMA RelationEditIsGood ==
  ASSUME TypeOK, NEW e \in Relation, e[1] \in repo.types, {e[2], e[3]} \subseteq repo.docs
  PROVE  Good([repo EXCEPT !.relations = @ \cup {e}])
<1> DEFINE q == [repo EXCEPT !.relations = @ \cup {e}]
<1>1. repo \in Held /\ repo.trashed \cup repo.corrupted \subseteq repo.docs
  BY DEF TypeOK
<1>2. repo.relations \cup {e} \in Ends
  BY <1>1, HeldShape, Subsets
<1>3. q \in Held /\ q.docs = repo.docs /\ q.trashed = repo.trashed /\ q.corrupted = repo.corrupted
      /\ q.types = repo.types /\ q.definitions = repo.definitions
      /\ q.values = repo.values /\ q.relations = repo.relations \cup {e}
  BY <1>1, <1>2, HeldShape
<1> HIDE DEF q
<1>4. References(repo) => References(q)
  BY <1>3 DEF References
<1>5. Good(q)
  BY <1>1, <1>3, <1>4 DEF Good, Sound
<1> QED
  BY <1>5 DEF q

-----------------------------------------------------------------------------
(* Export and import.                                                       *)

\* An archive there may be.
Sealed(a) == a \in Held /\ a.trashed \cup a.corrupted = {}

LEMMA ExportedSealed ==
  ASSUME TypeOK
  PROVE  LET a == Exported(repo)
         IN /\ Sealed(a)
            /\ a.root = repo.root /\ a.docs = repo.docs \ repo.corrupted
            /\ a.types = repo.types /\ a.definitions = repo.definitions
            /\ a.values \subseteq repo.values /\ a.relations \subseteq repo.relations
<1> DEFINE L == repo.docs \ repo.corrupted
           V == {v \in repo.values : v[2] \in L}
           E == {e \in repo.relations : {e[2], e[3]} \cap L # {}}
           c == [repo EXCEPT !.trashed = {}, !.corrupted = {}]
           a == [c EXCEPT !.docs = L, !.values = V, !.relations = E]
<1>1. repo \in Held
  BY DEF TypeOK
<1>2. V \subseteq repo.values /\ E \subseteq repo.relations
  OBVIOUS
<1>3. V \in Chosen /\ E \in Ends
  <2> HIDE DEF V, E
  <2>1. repo.values \in Chosen /\ repo.relations \in Ends
    BY <1>1, HeldShape
  <2> QED
    BY <1>2, <2>1, Subsets
<1>4. c \in Held /\ c.trashed \cup c.corrupted = {} /\ c.docs = repo.docs /\ c.root = repo.root
      /\ c.types = repo.types /\ c.definitions = repo.definitions
      /\ c.values = repo.values /\ c.relations = repo.relations
  BY <1>1, HeldShape
<1>5. Exported(repo) = a
  BY <1>4, Zenon DEF Exported, Carried
<1> HIDE DEF V, E, c
<1>6. L \in SUBSET Docs
  BY <1>1, HeldShape
<1> HIDE DEF L
<1>7. Sealed(a) /\ a.root = repo.root /\ a.docs = L
      /\ a.types = repo.types /\ a.definitions = repo.definitions
      /\ a.values = V /\ a.relations = E
  BY <1>3, <1>4, <1>6, HeldShape DEF Sealed
<1> QED
  BY <1>2, <1>5, <1>7 DEF L

LEMMA WithPagesSound ==
  ASSUME TypeOK, NEW a \in Held, NEW F
  PROVE  LET r == WithPages(a, F)
         IN /\ Sound(r)
            /\ r.root = (repo.root \/ a.root) /\ r.docs = repo.docs \cup (a.docs \ F)
            /\ r.trashed = repo.trashed \ (a.docs \ F) /\ r.corrupted = repo.corrupted \ (a.docs \ F)
            /\ r.conflicts = repo.conflicts \cup a.conflicts /\ r.attachments = repo.attachments
            /\ r.types = repo.types /\ r.definitions = repo.definitions
            /\ r.values = repo.values /\ r.relations = repo.relations
<1>1. repo \in Held /\ repo.trashed \cup repo.corrupted \subseteq repo.docs
  BY DEF TypeOK
<1> DEFINE r == WithPages(a, F)
<1>2. /\ r.root = (repo.root \/ a.root) /\ r.docs = repo.docs \cup (a.docs \ F)
      /\ r.trashed = repo.trashed \ (a.docs \ F) /\ r.corrupted = repo.corrupted \ (a.docs \ F)
      /\ r.conflicts = repo.conflicts \cup a.conflicts /\ r.attachments = repo.attachments
      /\ r.types = repo.types /\ r.definitions = repo.definitions
      /\ r.values = repo.values /\ r.relations = repo.relations
  BY <1>1, HeldShape DEF WithPages
<1>3. r \in Held
  BY <1>1, HeldShape DEF WithPages
<1>4. r.trashed \cup r.corrupted \subseteq r.docs
  BY <1>1, <1>2
<1> QED
  BY <1>2, <1>3, <1>4 DEF Sound

LEMMA WithAttachmentsSound ==
  ASSUME NEW r, Sound(r), NEW a, NEW S \in SUBSET Attachments
  PROVE  LET q == WithAttachments(r, a, S)
         IN /\ Sound(q) /\ q.attachments = r.attachments \cup S
            /\ q.root = r.root /\ q.docs = r.docs /\ q.trashed = r.trashed
            /\ q.corrupted = r.corrupted /\ q.conflicts = r.conflicts
            /\ q.types = r.types /\ q.definitions = r.definitions
            /\ q.values = r.values /\ q.relations = r.relations
  BY HeldShape DEF Sound, WithAttachments

\* What is written of the knowledge of an archive.
PartOf(k, a) ==
  /\ k.d \subseteq a.definitions /\ k.t \subseteq a.types
  /\ k.v \subseteq a.values /\ k.e \subseteq a.relations

\* q is r with k written over it.
Written(q, r, k) ==
  /\ q.attachments = r.attachments /\ q.root = r.root /\ q.docs = r.docs
  /\ q.trashed = r.trashed /\ q.corrupted = r.corrupted /\ q.conflicts = r.conflicts
  /\ q.types = r.types \cup k.t
  /\ q.definitions = {x \in r.definitions : x[1] \notin Ids(k.d)} \cup k.d
  /\ q.values = {v \in r.values : \A x \in k.v : <<v[1], v[2]>> # <<x[1], x[2]>>} \cup k.v
  /\ q.relations = r.relations \cup k.e

LEMMA WithKnowledgeSound ==
  ASSUME NEW r, Sound(r), NEW a \in Held, NEW k, PartOf(k, a)
  PROVE  Sound(WithKnowledge(r, k)) /\ Written(WithKnowledge(r, k), r, k)
<1> DEFINE D0 == {x \in r.definitions : x[1] \notin Ids(k.d)}
           V0 == {v \in r.values : \A x \in k.v : <<v[1], v[2]>> # <<x[1], x[2]>>}
           D == D0 \cup k.d
           V == V0 \cup k.v
           q == [r EXCEPT !.definitions = D, !.types = @ \cup k.t,
                          !.values = V, !.relations = @ \cup k.e]
<1>1. WithKnowledge(r, k) = q
  BY Zenon DEF WithKnowledge
<1>2. r \in Held /\ r.trashed \cup r.corrupted \subseteq r.docs
  BY DEF Sound
<1>3. D0 \subseteq r.definitions /\ V0 \subseteq r.values
  OBVIOUS
<1>4. /\ r.definitions \in Offers /\ r.values \in Chosen /\ r.relations \in Ends
      /\ a.definitions \in Offers /\ a.values \in Chosen /\ a.relations \in Ends
      /\ r.types \in SUBSET Types /\ a.types \in SUBSET Types
  BY <1>2, HeldShape
<1> HIDE DEF D0, V0
<1>5. /\ D0 \in Offers /\ V0 \in Chosen
      /\ k.d \in Offers /\ k.v \in Chosen /\ k.e \in Ends /\ k.t \in SUBSET Types
  BY <1>3, <1>4, Subsets DEF PartOf
<1>6. D \in Offers /\ V \in Chosen /\ r.relations \cup k.e \in Ends /\ r.types \cup k.t \in SUBSET Types
  BY <1>4, <1>5, Subsets
<1> HIDE DEF D, V
<1>7. /\ q \in Held /\ q.attachments = r.attachments
      /\ q.root = r.root /\ q.docs = r.docs /\ q.trashed = r.trashed
      /\ q.corrupted = r.corrupted /\ q.conflicts = r.conflicts
      /\ q.types = r.types \cup k.t /\ q.definitions = D /\ q.values = V
      /\ q.relations = r.relations \cup k.e
  BY <1>2, <1>6, HeldShape
<1> HIDE DEF q
<1>8. Sound(q)
  BY <1>2, <1>7 DEF Sound
<1> QED
  BY <1>1, <1>7, <1>8, Zenon DEF D, V, D0, V0, Written

LEMMA OntoNothing ==
  ASSUME NEW r, Sound(r),
         r.definitions = {}, r.types = {}, r.values = {}, r.relations = {},
         NEW a \in Held, NEW k, PartOf(k, a)
  PROVE  LET q == WithKnowledge(r, k)
         IN /\ Sound(q) /\ q.attachments = r.attachments
            /\ q.root = r.root /\ q.docs = r.docs /\ q.trashed = r.trashed
            /\ q.corrupted = r.corrupted /\ q.conflicts = r.conflicts
            /\ q.definitions = k.d /\ q.types = k.t /\ q.values = k.v /\ q.relations = k.e
<1> DEFINE q == WithKnowledge(r, k)
<1>1. Sound(q) /\ Written(q, r, k)
  BY WithKnowledgeSound
<1> HIDE DEF q
<1>2. q.types = k.t /\ q.relations = k.e /\ q.definitions = k.d /\ q.values = k.v
  BY <1>1 DEF Written
<1> QED
  BY <1>1, <1>2 DEF q, Written

LEMMA PrefixLemma ==
  ASSUME NEW a
  PROVE  /\ \A k \in Endings(a) \cup KnowledgePrefixes(a) : PartOf(k, a)
         /\ \A k \in Endings(a) : InOrder(k, a)
         /\ Knowledge(a).d = a.definitions /\ Knowledge(a).t = a.types
         /\ Knowledge(a).v = a.values /\ Knowledge(a).e = a.relations
<1>1. Knowledge(a).d = a.definitions /\ Knowledge(a).t = a.types
      /\ Knowledge(a).v = a.values /\ Knowledge(a).e = a.relations
  BY DEF Knowledge
<1>2. \A k \in KnowledgePrefixes(a) : PartOf(k, a)
  BY DEF KnowledgePrefixes, PartOf
<1>3. PartOf(Knowledge(a), a) /\ InOrder(Knowledge(a), a)
  BY <1>1 DEF PartOf, InOrder
<1>4. \A k \in Endings(a) : (k = Knowledge(a) \/ k \in KnowledgePrefixes(a)) /\ InOrder(k, a)
  BY <1>3, Zenon DEF Endings
<1> QED
  BY <1>1, <1>2, <1>3, <1>4

\* An import that comes to its end, or stops at a record, leaves no reference
\* that dangles: what a record refers to is written before it.
LEMMA CompleteGood ==
  ASSUME TypeOK, NEW a \in Held, Closed(a), NEW k, PartOf(k, a), InOrder(k, a)
  PROVE  Good(WithKnowledge(WithAttachments(WithPages(a, {}), a, a.attachments), k))
<1> DEFINE p == WithPages(a, {})
           r == WithAttachments(p, a, a.attachments)
           q == WithKnowledge(r, k)
<1>1. Sound(p) /\ p.docs = repo.docs \cup a.docs /\ p.types = repo.types
      /\ p.definitions = repo.definitions /\ p.values = repo.values /\ p.relations = repo.relations
  BY WithPagesSound
<1>2. a.attachments \in SUBSET Attachments
  BY HeldShape
<1> HIDE DEF p
<1>3. Sound(r) /\ r.docs = repo.docs \cup a.docs /\ r.types = repo.types
      /\ r.definitions = repo.definitions /\ r.values = repo.values /\ r.relations = repo.relations
  BY <1>1, <1>2, WithAttachmentsSound
<1> HIDE DEF r
<1>4. /\ Sound(q) /\ q.docs = repo.docs \cup a.docs
      /\ q.types = repo.types \cup k.t
      /\ q.definitions = {x \in repo.definitions : x[1] \notin Ids(k.d)} \cup k.d
      /\ q.values = {v \in repo.values : \A x \in k.v : <<v[1], v[2]>> # <<x[1], x[2]>>} \cup k.v
      /\ q.relations = repo.relations \cup k.e
  <2>1. Sound(q) /\ Written(q, r, k)
    BY <1>3, WithKnowledgeSound
  <2> HIDE DEF q
  <2> QED
    BY <1>3, <2>1 DEF Written
<1>5. Ids(q.definitions) = Ids(repo.definitions) \cup Ids(k.d)
  BY <1>4 DEF Ids
<1>6. ASSUME References(repo) PROVE References(q)
  <2>1. ASSUME NEW v \in q.values PROVE v[1] \in Ids(q.definitions) /\ v[2] \in q.docs
    <3>1. CASE v \in repo.values
      BY <1>4, <1>5, <1>6, <3>1 DEF References
    <3>2. CASE v \in k.v
      BY <1>4, <1>5, <3>2 DEF InOrder, PartOf, Closed
    <3> QED
      BY <1>4, <2>1, <3>1, <3>2
  <2>2. ASSUME NEW e \in q.relations PROVE e[1] \in q.types /\ {e[2], e[3]} \subseteq q.docs
    <3>1. CASE e \in repo.relations
      BY <1>4, <1>6, <3>1 DEF References
    <3>2. CASE e \in k.e
      BY <1>4, <3>2 DEF InOrder, PartOf, Closed
    <3> QED
      BY <1>4, <2>2, <3>1, <3>2
  <2> QED
    BY <2>1, <2>2 DEF References
<1> HIDE DEF q
<1>7. Good(q)
  BY <1>4, <1>6 DEF Good
<1> QED
  BY <1>7 DEF p, q, r

\* One that stops at an attachment has not touched the knowledge records.
LEMMA AbortedGood ==
  ASSUME TypeOK, NEW a \in Held, NEW S \in SUBSET Attachments
  PROVE  LET q == WithAttachments(WithPages(a, {}), a, S)
         IN Good(q) /\ Knowledge(q) = Knowledge(repo)
<1> DEFINE p == WithPages(a, {})
           q == WithAttachments(p, a, S)
<1>1. Sound(p) /\ p.docs = repo.docs \cup a.docs /\ p.types = repo.types
      /\ p.definitions = repo.definitions /\ p.values = repo.values /\ p.relations = repo.relations
  BY WithPagesSound
<1> HIDE DEF p
<1>2. Sound(q) /\ q.docs = repo.docs \cup a.docs /\ q.types = repo.types
      /\ q.definitions = repo.definitions /\ q.values = repo.values /\ q.relations = repo.relations
  BY <1>1, WithAttachmentsSound
<1> HIDE DEF q
<1>3. Good(q) /\ Knowledge(q) = Knowledge(repo)
  BY <1>2 DEF Good, References, Knowledge
<1> QED
  BY <1>3 DEF p, q

-----------------------------------------------------------------------------
(* The steps.                                                               *)

\* A workspace that has lost no save refers only to what it has.
Whole == faults = 0 => References(repo)

LEMMA EditStep ==
  ASSUME TypeOK, Whole, NEW r, Good(r), Edit(r)
  PROVE  TypeOK' /\ Whole'
<1>1. repo' = r /\ repo' \in Held /\ repo'.trashed \cup repo'.corrupted \subseteq repo'.docs
  BY Zenon DEF Edit, Good, Sound
<1>2. edits' \in 0..MaxEdits /\ faults' \in 0..MaxFaults /\ faults' = faults
  BY ArchiveAssumption DEF TypeOK, Edit
<1>3. UNCHANGED <<archive, restored>>
  BY DEF Edit
<1>4. TypeOK'
  BY <1>1, <1>2, <1>3, Zenon DEF TypeOK
<1>5. Whole'
  BY <1>1, <1>2, Zenon DEF Whole, Good
<1> QED
  BY <1>4, <1>5

LEMMA ExportStep ==
  ASSUME TypeOK, Whole, Export
  PROVE  TypeOK' /\ Whole'
<1>1. UNCHANGED <<repo, restored, edits>>
  BY DEF Export
<1>2. faults' \in 0..MaxFaults /\ (faults' = 0 => faults = 0)
  BY ArchiveAssumption DEF TypeOK, Export
<1>3. archive' # NoArchive => Sealed(archive')
  BY ExportedSealed DEF Export
<1>4. TypeOK'
  BY <1>1, <1>2, <1>3, Zenon DEF TypeOK, Sealed
<1>5. Whole'
  BY <1>1, <1>2, Zenon DEF Whole
<1> QED
  BY <1>4, <1>5

LEMMA FaultySound ==
  ASSUME TypeOK, NEW a \in Held, Faulty(a)
  PROVE  Sound(repo') /\ restored' \in {"ok", "error"} /\ faults' \in 0..MaxFaults /\ faults' # 0
<1>1. faults' \in 0..MaxFaults /\ faults' # 0
  BY ArchiveAssumption DEF TypeOK, Faulty
<1>2. a.attachments \in SUBSET Attachments
  BY HeldShape
<1>3. ASSUME NEW F, NEW k, PartOf(k, a)
      PROVE  Sound(WithKnowledge(WithAttachments(WithPages(a, F), a, a.attachments), k))
  <2>1. Sound(WithPages(a, F))
    BY WithPagesSound
  <2>2. Sound(WithAttachments(WithPages(a, F), a, a.attachments))
    BY <1>2, <2>1, WithAttachmentsSound
  <2> QED
    BY <1>3, <2>2, WithKnowledgeSound
<1>4. \A k \in Endings(a) \cup KnowledgePrefixes(a) : PartOf(k, a)
  BY PrefixLemma
<1>5. Outcome(a) \in {"ok", "error"}
  BY DEF Outcome
<1>6. CASE /\ \E d \in a.docs, k \in Endings(a) :
                repo' = WithKnowledge(WithAttachments(WithPages(a, {d}), a, a.attachments), k)
           /\ restored' = Outcome(a)
  BY <1>1, <1>3, <1>4, <1>5, <1>6
<1>7. CASE /\ \E S \in (SUBSET a.attachments) \ {a.attachments} :
                repo' = WithAttachments(WithPages(a, {}), a, S)
           /\ restored' = "error"
  <2>1. PICK S \in SUBSET Attachments : repo' = WithAttachments(WithPages(a, {}), a, S)
    BY <1>2, <1>7
  <2>2. Sound(WithPages(a, {}))
    BY WithPagesSound
  <2>3. Sound(repo')
    BY <2>1, <2>2, WithAttachmentsSound
  <2> QED
    BY <1>1, <1>7, <2>3
<1>8. CASE /\ \E k \in KnowledgePrefixes(a) \ {Knowledge(a)} :
                /\ InOrder(k, a) /\ k.v \cap Broken(a) = {}
                /\ repo' = WithKnowledge(WithAttachments(WithPages(a, {}), a, a.attachments), k)
           /\ restored' = "error"
  BY <1>1, <1>3, <1>4, <1>8
<1> QED
  BY <1>6, <1>7, <1>8, Zenon DEF Faulty

LEMMA ImportStep ==
  ASSUME TypeOK, Whole, Import
  PROVE  TypeOK' /\ Whole'
<1>1. UNCHANGED <<archive, edits>>
  BY DEF Import
<1>2. ASSUME Sound(repo'), restored' \in {"none", "ok", "refused", "error"}, faults' \in 0..MaxFaults
      PROVE  TypeOK'
  BY <1>1, <1>2, Zenon DEF TypeOK, Sound
<1>3. Sound(repo) /\ restored \in {"none", "ok", "refused", "error"} /\ faults \in 0..MaxFaults
  BY DEF TypeOK, Sound
<1>4. CASE Refused
  <2>1. TypeOK'
    BY <1>2, <1>3, <1>4 DEF Refused
  <2>2. Whole'
    BY <1>4 DEF Refused, Whole
  <2> QED
    BY <2>1, <2>2
<1>5. CASE archive # NoArchive /\ Acceptable(archive) /\ ~Refused
  <2> DEFINE a == archive
  <2>1. a \in Held /\ Closed(a)
    BY <1>5 DEF TypeOK, Acceptable
  <2>2. a.attachments \in SUBSET Attachments
    BY <2>1, HeldShape
  <2>3. CASE Aborted(a)
    <3>1. PICK S \in SUBSET Attachments : repo' = WithAttachments(WithPages(a, {}), a, S)
      BY <2>2, <2>3 DEF Aborted
    <3>2. Good(repo')
      BY <2>1, <3>1, AbortedGood
    <3>3. restored' = "error" /\ faults' = faults
      BY <2>3 DEF Aborted
    <3>4. TypeOK'
      BY <1>2, <1>3, <3>2, <3>3 DEF Good
    <3> QED
      BY <3>2, <3>3, <3>4 DEF Good, Whole
  <2>4. CASE Completed(a)
    <3>1. PICK k \in Endings(a) :
             repo' = WithKnowledge(WithAttachments(WithPages(a, {}), a, a.attachments), k)
      BY <2>4 DEF Completed
    <3>2. PartOf(k, a) /\ InOrder(k, a)
      BY PrefixLemma
    <3>3. Good(repo')
      BY <2>1, <3>1, <3>2, CompleteGood
    <3>4. restored' \in {"ok", "error"} /\ faults' = faults
      BY <2>4 DEF Completed, Outcome
    <3>5. TypeOK'
      BY <1>2, <1>3, <3>3, <3>4 DEF Good
    <3> QED
      BY <3>3, <3>4, <3>5 DEF Good, Whole
  <2>5. CASE Faulty(a)
    <3>1. Sound(repo') /\ restored' \in {"ok", "error"} /\ faults' \in 0..MaxFaults /\ faults' # 0
      BY <2>1, <2>5, FaultySound
    <3>2. TypeOK'
      BY <1>2, <3>1
    <3> QED
      BY <3>1, <3>2 DEF Whole
  <2> QED
    BY <1>5, <2>3, <2>4, <2>5 DEF Import
<1> QED
  BY <1>4, <1>5, Zenon DEF Import

LEMMA WholeInit == Init => Whole
<1> SUFFICES ASSUME Init PROVE References(repo)
  BY DEF Whole
<1>1. repo.values = {} /\ repo.relations = {}
  BY DEF Init, Empty
<1> QED
  BY <1>1 DEF References

LEMMA ArchiveStep == TypeOK /\ Whole /\ [Next]_vars => TypeOK' /\ Whole'
<1> SUFFICES ASSUME TypeOK, Whole, [Next]_vars PROVE TypeOK' /\ Whole'
  OBVIOUS
<1>1. ASSUME NEW d \in Docs, SaveDocument(d) \/ TrashDocument(d) \/ CorruptDocument(d) \/ SaveConflict(d)
      PROVE  TypeOK' /\ Whole'
  <2>1. CASE SaveDocument(d)
    <3> DEFINE q == [repo EXCEPT !.docs = @ \cup {d}, !.trashed = @ \ {d}]
    <3>1. Edit(q)
      BY <2>1, Zenon DEF SaveDocument
    <3>2. Good(q)
      BY <3>1, PageEditsAreGood, Zenon
    <3> HIDE DEF q
    <3> QED
      BY <3>1, <3>2, EditStep
  <2>2. CASE TrashDocument(d)
    <3> DEFINE q == [repo EXCEPT !.trashed = @ \cup {d}]
    <3>1. d \in repo.docs /\ Edit(q)
      BY <2>2, Zenon DEF TrashDocument
    <3>2. Good(q)
      BY <3>1, PageEditsAreGood, Zenon
    <3> HIDE DEF q
    <3> QED
      BY <3>1, <3>2, EditStep
  <2>3. CASE CorruptDocument(d)
    <3> DEFINE q == [repo EXCEPT !.corrupted = @ \cup {d}]
    <3>1. d \in repo.docs /\ Edit(q)
      BY <2>3, Zenon DEF CorruptDocument
    <3>2. Good(q)
      BY <3>1, PageEditsAreGood, Zenon
    <3> HIDE DEF q
    <3> QED
      BY <3>1, <3>2, EditStep
  <2>4. CASE SaveConflict(d)
    <3> DEFINE q == [repo EXCEPT !.conflicts = @ \cup {d}]
    <3>1. d \in repo.docs /\ Edit(q)
      BY <2>4, Zenon DEF SaveConflict
    <3>2. Good(q)
      BY <3>1, PageEditsAreGood, Zenon
    <3> HIDE DEF q
    <3> QED
      BY <3>1, <3>2, EditStep
  <2> QED
    BY <1>1, <2>1, <2>2, <2>3, <2>4
<1>2. ASSUME NEW d \in Docs, DeleteDocument(d) PROVE TypeOK' /\ Whole'
  <2> DEFINE q == [repo EXCEPT !.docs = @ \ {d}, !.trashed = @ \ {d}, !.conflicts = @ \ {d},
                               !.values = {v \in @ : v[2] # d},
                               !.relations = {r \in @ : d \notin {r[2], r[3]}}]
  <2>1. d \in repo.docs \ repo.corrupted /\ Edit(q)
    BY <1>2, Zenon DEF DeleteDocument
  <2>2. Good(q)
    BY <2>1, DeleteIsGood, Zenon
  <2> HIDE DEF q
  <2> QED
    BY <2>1, <2>2, EditStep
<1>3. ASSUME NEW d \in Docs, NEW p \in Definitions, NEW o \in Options, SavePagePropertyValue(p, d, o)
      PROVE  TypeOK' /\ Whole'
  BY <1>3, ValueEditIsGood, EditStep DEF SavePagePropertyValue
<1>4. ASSUME NEW a \in Attachments, SaveAttachment(a) PROVE TypeOK' /\ Whole'
  BY <1>4, RecordEditsAreGood, EditStep DEF SaveAttachment
<1>5. ASSUME NEW p \in Definitions, NEW o \in Options, SavePropertyDefinition(p, o)
      PROVE  TypeOK' /\ Whole'
  BY <1>5, DefinitionEditIsGood, EditStep DEF SavePropertyDefinition
<1>6. ASSUME NEW t \in Types, SaveRelationType(t) PROVE TypeOK' /\ Whole'
  BY <1>6, RecordEditsAreGood, EditStep DEF SaveRelationType
<1>7. ASSUME NEW r \in Relation, SavePageRelation(r) PROVE TypeOK' /\ Whole'
  BY <1>7, RelationEditIsGood, EditStep DEF SavePageRelation
<1>8. CASE CleanInstall
  BY <1>8, RecordEditsAreGood, EditStep DEF CleanInstall
<1>9. CASE UNCHANGED vars
  BY <1>9 DEF vars, TypeOK, Whole
<1> QED
  BY <1>1, <1>2, <1>3, <1>4, <1>5, <1>6, <1>7, <1>8, <1>9, ExportStep, ImportStep, Zenon DEF Next

\* Types, and pages of which something is said are there.
THEOREM ArchiveTypeCorrect == Spec => []TypeOK
<1> QED
  BY TypeInit, WholeInit, ArchiveStep, PTL DEF Spec

\* The repository without a lost save is whole, and that is enough for the
\* archive to pass the check before the import; on an empty repository nothing
\* the archive has is there already.
THEOREM BackupCorrect == Spec => BackupRebuilds
<1> DEFINE Exports == Export /\ faults' = 0 /\ repo.corrupted = {} /\ (repo.root \/ repo.docs # {})
           Imports == /\ Import /\ repo = Empty /\ faults' = faults
                      /\ archive # NoArchive /\ Acceptable(archive) /\ Broken(archive) = {}
<1>1. ASSUME TypeOK, Whole, Exports PROVE Acceptable(archive')
  <2>1. archive' = Exported(repo) /\ faults = 0
    BY <1>1 DEF Export, TypeOK
  <2> DEFINE a == Exported(repo)
  <2>2. /\ a.root = repo.root /\ a.docs = repo.docs
        /\ a.types = repo.types /\ a.definitions = repo.definitions
        /\ a.values \subseteq repo.values /\ a.relations \subseteq repo.relations
    BY <1>1, ExportedSealed
  <2>3. References(repo)
    BY <1>1, <2>1 DEF Whole
  <2> HIDE DEF a
  <2>4. Closed(a) /\ (a.root \/ a.docs # {})
    BY <1>1, <2>2, <2>3 DEF References, Closed
  <2> QED
    BY <2>1, <2>4 DEF a, Acceptable
<1>2. ASSUME TypeOK, Imports PROVE restored' = "ok" /\ repo' = archive
  <2> DEFINE a == archive
             p == WithPages(a, {})
             r == WithAttachments(p, a, a.attachments)
             q == WithKnowledge(r, Knowledge(a))
  <2>1. a \in Held /\ a.trashed \cup a.corrupted = {}
    BY <1>2 DEF TypeOK
  <2>2. repo.attachments = {}
    BY <1>2 DEF Empty
  <2>3. Completed(a)
    <3>1. ~Faulty(a)
      BY <1>2 DEF Faulty, TypeOK
    <3>2. ~Aborted(a)
      BY <2>2 DEF Aborted
    <3> QED
      BY <1>2, <3>1, <3>2, Zenon DEF Import
  <2>4. repo' = q /\ restored' = "ok"
    BY <1>2, <2>3 DEF Completed, Endings, Outcome
  <2>5. /\ repo.root = FALSE /\ repo.docs = {} /\ repo.trashed = {} /\ repo.corrupted = {}
        /\ repo.conflicts = {} /\ repo.definitions = {} /\ repo.types = {}
        /\ repo.values = {} /\ repo.relations = {}
    BY <1>2 DEF Empty
  <2>6. /\ Sound(p) /\ p.root = a.root /\ p.docs = a.docs /\ p.trashed = {} /\ p.corrupted = {}
        /\ p.conflicts = a.conflicts /\ p.attachments = {}
        /\ p.types = {} /\ p.definitions = {} /\ p.values = {} /\ p.relations = {}
    <3>1. a.root \in BOOLEAN
      BY <2>1, HeldShape
    <3>2. /\ Sound(p)
          /\ p.root = (repo.root \/ a.root) /\ p.docs = repo.docs \cup (a.docs \ {})
          /\ p.trashed = repo.trashed \ (a.docs \ {}) /\ p.corrupted = repo.corrupted \ (a.docs \ {})
          /\ p.conflicts = repo.conflicts \cup a.conflicts /\ p.attachments = repo.attachments
          /\ p.types = repo.types /\ p.definitions = repo.definitions
          /\ p.values = repo.values /\ p.relations = repo.relations
      BY <1>2, <2>1, WithPagesSound, Zenon
    <3> HIDE DEF p
    <3> QED
      BY <2>2, <2>5, <3>1, <3>2
  <2>7. a.attachments \in SUBSET Attachments
    BY <2>1, HeldShape
  <2> HIDE DEF p
  <2>8. /\ Sound(r) /\ r.root = a.root /\ r.docs = a.docs /\ r.trashed = {} /\ r.corrupted = {}
        /\ r.conflicts = a.conflicts /\ r.attachments = a.attachments
        /\ r.types = {} /\ r.definitions = {} /\ r.values = {} /\ r.relations = {}
    BY <2>6, <2>7, WithAttachmentsSound
  <2>9. PartOf(Knowledge(a), a) /\ Knowledge(a).d = a.definitions /\ Knowledge(a).t = a.types
        /\ Knowledge(a).v = a.values /\ Knowledge(a).e = a.relations
    BY DEF PartOf, Knowledge
  <2> HIDE DEF r
  <2>10. /\ Sound(q) /\ q.root = a.root /\ q.docs = a.docs /\ q.trashed = {} /\ q.corrupted = {}
         /\ q.conflicts = a.conflicts /\ q.attachments = a.attachments
         /\ q.types = a.types /\ q.definitions = a.definitions
         /\ q.values = a.values /\ q.relations = a.relations
    BY <2>1, <2>8, <2>9, OntoNothing
  <2> HIDE DEF q
  <2>11. q = a
    <3>1. a.trashed = {} /\ a.corrupted = {} /\ q \in Held
      BY <2>1, <2>10 DEF Sound
    <3> HIDE DEF a
    <3> QED
      BY <2>1, <2>10, <3>1, SameHeld
  <2> QED
    BY <2>4, <2>11
<1>3. TypeOK /\ Whole /\ [Next]_vars =>
        [(Exports => Acceptable(archive')) /\ (Imports => restored' = "ok" /\ repo' = archive)]_vars
  BY <1>1, <1>2
<1> QED
  BY <1>3, TypeInit, WholeInit, ArchiveStep, PTL DEF Spec, BackupRebuilds

\* What a record refers to is checked before and written before the record; an
\* import that stops earlier has not come to the records.
THEOREM KnowledgeKeptCorrect == Spec => NoPartialKnowledge
<1> DEFINE Stopped == /\ Import /\ faults' = faults /\ restored' # "ok"
                      /\ (archive # NoArchive => Broken(archive) = {})
<1>1. ASSUME TypeOK, Stopped PROVE Knowledge(repo') = Knowledge(repo)
  <2>1. CASE Refused
    BY <2>1 DEF Refused
  <2>2. CASE ~Refused
    <3>1. archive # NoArchive /\ (Aborted(archive) \/ Completed(archive) \/ Faulty(archive))
      BY <1>1, <2>2, Zenon DEF Import
    <3>2. ~Faulty(archive)
      BY <1>1 DEF Faulty, TypeOK
    <3>3. ~Completed(archive)
      BY <1>1, <3>1 DEF Completed, Outcome
    <3>4. Aborted(archive) /\ archive \in Held
      BY <1>1, <3>1, <3>2, <3>3, Zenon DEF TypeOK
    <3>5. PICK S \in SUBSET (archive.attachments \ repo.attachments) :
             repo' = WithAttachments(WithPages(archive, {}), archive, S)
      BY <3>4 DEF Aborted
    <3>6. S \in SUBSET Attachments
      BY <3>4, HeldShape
    <3> QED
      BY <1>1, <3>4, <3>5, <3>6, AbortedGood
  <2> QED
    BY <2>1, <2>2
<1>2. TypeOK /\ Whole' /\ [Next]_vars =>
        [(faults' = 0 => References(repo')) /\ (Stopped => Knowledge(repo') = Knowledge(repo))]_vars
  BY <1>1 DEF Whole
<1> QED
  BY <1>2, TypeInit, WholeInit, ArchiveStep, PTL DEF Spec, NoPartialKnowledge

-----------------------------------------------------------------------------
(* Knowledge records: the two collections.                                  *)

StoredDefinition ==
  [id : AnyId("definition"), name : {p.name : p \in Properties},
   options : {p.options : p \in Properties}, active : BOOLEAN]
StoredValue ==
  [id : AnyId("value"), page : Pages, of : AnyId("definition"),
   val : Answers \cup {p.value : p \in Specs}]
StoredType == [id : AnyId("type"), direction : Directions]
StoredRelation == [id : AnyId("relation"), of : AnyId("type"), source : Pages, target : Pages]

\* Two collections whose records have ids the counter has given.
Typed(c, n) ==
  /\ c \in [synced : SUBSET StoredRecord, local : SUBSET StoredRecord]
  /\ \A r \in c.synced \cup c.local : r.id[2] < n

LEMMA StoredShape ==
  StoredRecord = StoredDefinition \cup StoredValue \cup StoredType \cup StoredRelation
  BY Zenon DEF StoredRecord, StoredDefinition, StoredValue, StoredType, StoredRelation

LEMMA StoredIds ==
  ASSUME NEW r \in StoredRecord
  PROVE  /\ r.id[1] \in RecordTypes /\ r.id[2] \in Nat /\ r.id = <<r.id[1], r.id[2]>>
         /\ r.id[1] = "definition" => r \in StoredDefinition
<1>1. CASE r \in StoredDefinition
  BY <1>1 DEF StoredDefinition, AnyId, RecordTypes
<1>2. CASE r \in StoredValue
  BY <1>2 DEF StoredValue, AnyId, RecordTypes
<1>3. CASE r \in StoredType
  BY <1>3 DEF StoredType, AnyId, RecordTypes
<1>4. CASE r \in StoredRelation
  BY <1>4 DEF StoredRelation, AnyId, RecordTypes
<1> QED
  BY <1>1, <1>2, <1>3, <1>4, StoredShape

\* With more ids given, and with records of its own.
LEMMA TypedParts ==
  ASSUME NEW n \in Nat, NEW c, Typed(c, n)
  PROVE  /\ c = [synced |-> c.synced, local |-> c.local]
         /\ c.synced \subseteq StoredRecord /\ c.local \subseteq StoredRecord
         /\ \A r \in c.synced \cup c.local : r.id[2] \in Nat /\ r.id[2] < n
         /\ \A m \in Nat : n <= m => Typed(c, m)
<1>1. c = [synced |-> c.synced, local |-> c.local]
      /\ c.synced \subseteq StoredRecord /\ c.local \subseteq StoredRecord
  BY DEF Typed
<1>2. \A r \in c.synced \cup c.local : r.id[2] \in Nat /\ r.id[2] < n
  BY <1>1, StoredIds DEF Typed
<1>3. \A m \in Nat : n <= m => Typed(c, m)
  BY <1>2 DEF Typed
<1> QED
  BY <1>1, <1>2, <1>3

LEMMA TypedOf ==
  ASSUME NEW n, NEW S, NEW L, S \subseteq StoredRecord, L \subseteq StoredRecord,
         \A r \in S \cup L : r.id[2] < n
  PROVE  Typed([synced |-> S, local |-> L], n)
  BY DEF Typed

LEMMA SaveTyped ==
  ASSUME NEW n \in Nat, NEW c, Typed(c, n), NEW r \in StoredRecord, r.id[2] < n
  PROVE  Typed(SaveKnowledgeRaw(c, r), n) /\ \A x \in FailedSaves(c, r) : Typed(x, n)
<1> DEFINE S == Without(c.synced, r.id) \cup {r}
           L == Without(c.local, r.id) \cup {r}
           R == Without(c.local, r.id)
<1>1. c = [synced |-> c.synced, local |-> c.local]
      /\ c.synced \subseteq StoredRecord /\ c.local \subseteq StoredRecord
      /\ \A x \in c.synced \cup c.local : x.id[2] \in Nat /\ x.id[2] < n
  BY TypedParts
<1>2. S \subseteq StoredRecord /\ L \subseteq StoredRecord /\ R \subseteq StoredRecord
      /\ \A x \in S \cup L \cup R : x.id[2] < n
  BY <1>1 DEF Without
<1> HIDE DEF S, L, R
<1>3. Typed([synced |-> S, local |-> R], n) /\ Typed([synced |-> c.synced, local |-> L], n)
      /\ Typed([synced |-> S, local |-> c.local], n)
  BY <1>1, <1>2, TypedOf
<1>4. SaveKnowledgeRaw(c, r) \in {[synced |-> S, local |-> R], [synced |-> c.synced, local |-> L]}
  BY <1>1 DEF SaveKnowledgeRaw, S, L, R
<1>5. \A x \in FailedSaves(c, r) : x = c \/ x = [synced |-> S, local |-> c.local]
  BY <1>1 DEF FailedSaves, S
<1> QED
  BY <1>3, <1>4, <1>5

LEMMA FewerTyped ==
  ASSUME NEW n \in Nat, NEW c, Typed(c, n), NEW S \in SUBSET c.synced, NEW L \in SUBSET c.local
  PROVE  Typed([synced |-> S, local |-> L], n)
<1>1. S \subseteq StoredRecord /\ L \subseteq StoredRecord /\ \A r \in S \cup L : r.id[2] < n
  BY TypedParts
<1> QED
  BY <1>1, TypedOf

LEMMA DeleteTyped ==
  ASSUME NEW n \in Nat, NEW c, Typed(c, n)
  PROVE  /\ \A i : Typed(DeleteKnowledgeRaw(c, i), n)
         /\ \A i : \A x \in FailedDeletes(c, i) : Typed(x, n)
         /\ \A S : Typed(AllBut(c, S), n)
<1>1. c = [synced |-> c.synced, local |-> c.local]
  BY TypedParts
<1>2. \A i : Without(c.synced, i) \subseteq c.synced /\ Without(c.local, i) \subseteq c.local
  BY DEF Without
<1>3. ASSUME NEW i PROVE Typed(DeleteKnowledgeRaw(c, i), n)
  BY <1>2, FewerTyped DEF DeleteKnowledgeRaw
<1>4. ASSUME NEW i, NEW x \in FailedDeletes(c, i) PROVE Typed(x, n)
  <2>1. x = c \/ x = [synced |-> Without(c.synced, i), local |-> c.local]
    BY <1>1 DEF FailedDeletes
  <2> QED
    BY <1>2, <2>1, FewerTyped
<1>5. ASSUME NEW S PROVE Typed(AllBut(c, S), n)
  BY FewerTyped DEF AllBut
<1> QED
  BY <1>3, <1>4, <1>5

\* A record that is saved under a new id is listed beside the others.
LEMMA SaveFresh ==
  ASSUME NEW n \in Nat, NEW c, Typed(c, n), NEW r \in StoredRecord, r.id[2] = n
  PROVE  LET s == SaveKnowledgeRaw(c, r)
         IN /\ Typed(s, n + 1)
            /\ \A t : ListKnowledgeRaw(s, t)
                        = ListKnowledgeRaw(c, t) \cup (IF r.id[1] = t THEN {r} ELSE {})
            /\ \A x \in s.local \ c.local : ~Has(s.synced, x.id)
            /\ \A x \in c.local : ~Has(c.synced, x.id) => ~Has(s.synced, x.id)
<1>1. c = [synced |-> c.synced, local |-> c.local]
      /\ c.synced \subseteq StoredRecord /\ c.local \subseteq StoredRecord
      /\ \A x \in c.synced \cup c.local : x.id[2] \in Nat /\ x.id[2] < n
  BY TypedParts
<1>2. ~Has(c.synced, r.id) /\ ~Has(c.local, r.id)
  BY <1>1 DEF Has
<1>3. Without(c.synced, r.id) = c.synced /\ Without(c.local, r.id) = c.local
  BY <1>2 DEF Without, Has
<1> DEFINE s == SaveKnowledgeRaw(c, r)
<1>4. s = IF mapped THEN [synced |-> c.synced \cup {r}, local |-> c.local]
          ELSE [synced |-> c.synced, local |-> c.local \cup {r}]
  <2>1. UseSynced(c, r.id) <=> mapped
    BY <1>2 DEF UseSynced
  <2>2. s = IF UseSynced(c, r.id) THEN [synced |-> c.synced \cup {r}, local |-> c.local]
            ELSE [c EXCEPT !.local = c.local \cup {r}]
    BY <1>3, Zenon DEF SaveKnowledgeRaw
  <2>3. [c EXCEPT !.local = c.local \cup {r}] = [synced |-> c.synced, local |-> c.local \cup {r}]
    BY <1>1
  <2> HIDE DEF s
  <2> QED
    BY <2>1, <2>2, <2>3
<1> HIDE DEF s
<1>5. \A x \in c.synced \cup c.local : x.id # r.id
  BY <1>2 DEF Has
<1>6. Typed(s, n + 1)
  <2>1. \A x \in c.synced \cup c.local \cup {r} : x.id[2] < n + 1
    BY <1>1
  <2> QED
    BY <1>1, <1>4, <2>1, TypedOf
<1>7. ASSUME NEW t
      PROVE  ListKnowledgeRaw(s, t) = ListKnowledgeRaw(c, t) \cup (IF r.id[1] = t THEN {r} ELSE {})
  <2>1. CASE mapped
    BY <1>4, <1>5, <2>1 DEF ListKnowledgeRaw, Has
  <2>2. CASE ~mapped
    BY <1>2, <1>4, <2>2 DEF ListKnowledgeRaw, Has
  <2> QED
    BY <2>1, <2>2
<1>8. \A x \in s.local \ c.local : ~Has(s.synced, x.id)
  BY <1>2, <1>4
<1>9. \A x \in c.local : ~Has(c.synced, x.id) => ~Has(s.synced, x.id)
  BY <1>4, <1>5 DEF Has
<1> QED
  BY <1>6, <1>7, <1>8, <1>9 DEF s

LEMMA ListedLemma ==
  ASSUME NEW n \in Nat, NEW c, Typed(c, n)
  PROVE  /\ \A t : \A r \in ListKnowledgeRaw(c, t) :
              r \in StoredRecord /\ r \in c.synced \cup c.local /\ r.id[1] = t
         /\ \A p \in DefinitionsIn(c) : p \in StoredDefinition
<1>1. c.synced \subseteq StoredRecord /\ c.local \subseteq StoredRecord
  BY TypedParts
<1>2. \A t : \A r \in ListKnowledgeRaw(c, t) :
        r \in StoredRecord /\ r \in c.synced \cup c.local /\ r.id[1] = t
  BY <1>1 DEF ListKnowledgeRaw
<1> QED
  BY <1>2, StoredIds DEF DefinitionsIn

-----------------------------------------------------------------------------
(* The turns of SeedDefaultPropertiesForNewDocument.                        *)

\* What is known of the repository after some turns, with and without an error.
Base(x) ==
  /\ x = [db |-> x.db, fresh |-> x.fresh, errors |-> x.errors]
  /\ x.fresh \in Nat /\ x.errors \in Nat /\ fresh <= x.fresh /\ errors <= x.errors
  /\ Typed(x.db, x.fresh)

\* Nothing new is hidden, and no property is lost.
Clean(x) ==
  /\ \A r \in x.db.local \ db.local : ~Has(x.db.synced, r.id)
  /\ DefinitionsIn(db) \subseteq DefinitionsIn(x.db)

Shows(c, d, spec) ==
  \E w \in Chips(c, d) :
    w[1].name = spec.name /\ w[1].options = spec.options /\ w[2].val = spec.value

\* From x to y: errors are counted, and without one nothing is lost.
Turned(x, y, d) ==
  /\ Base(y) /\ x.errors <= y.errors
  /\ y.errors = errors /\ Clean(x) => Clean(y) /\ \A spec : Shows(x.db, d, spec) => Shows(y.db, d, spec)

LEMMA TurnedTwice ==
  ASSUME NEW x, Base(x), NEW y, NEW z, NEW d, Turned(x, y, d), Turned(y, z, d)
  PROVE  Turned(x, z, d)
<1>1. z.errors = errors => y.errors = errors
  BY DEF Turned, Base
<1>2. x.errors <= z.errors
  BY DEF Turned, Base
<1> QED
  BY <1>1, <1>2, Zenon DEF Turned

\* A turn's save of a new record, and one that fails with c.
Saved(x, r) == [x EXCEPT !.db = SaveKnowledgeRaw(x.db, r), !.fresh = x.fresh + 1]
Failing(x, c) == [x EXCEPT !.db = c, !.errors = x.errors + 1]

\* A save under a new id.
LEMMA SavedTurn ==
  ASSUME KnowledgeTypeOK, NEW x, Base(x), NEW d, NEW r \in StoredRecord, r.id[2] = x.fresh,
         NEW y, y = Saved(x, r)
  PROVE  /\ Turned(x, y, d) /\ y.errors = x.errors /\ y.fresh = x.fresh + 1
         /\ \A t : ListKnowledgeRaw(y.db, t)
                     = ListKnowledgeRaw(x.db, t) \cup (IF r.id[1] = t THEN {r} ELSE {})
<1> DEFINE s == SaveKnowledgeRaw(x.db, r)
<1>1. x.fresh \in Nat /\ Typed(x.db, x.fresh) /\ fresh \in Nat
  BY KnowledgeAssumption DEF Base, KnowledgeTypeOK
<1>2. /\ Typed(s, x.fresh + 1)
      /\ \A t : ListKnowledgeRaw(s, t)
                  = ListKnowledgeRaw(x.db, t) \cup (IF r.id[1] = t THEN {r} ELSE {})
      /\ \A z \in s.local \ x.db.local : ~Has(s.synced, z.id)
      /\ \A z \in x.db.local : ~Has(x.db.synced, z.id) => ~Has(s.synced, z.id)
  BY <1>1, SaveFresh
<1> HIDE DEF s
<1>3. y = [db |-> s, fresh |-> x.fresh + 1, errors |-> x.errors]
  BY DEF Base, Saved, s
<1>4. y.db = s /\ y.fresh = x.fresh + 1 /\ y.errors = x.errors
  BY <1>3
<1>5. Base(y) /\ x.errors <= y.errors
  <2>1. y.fresh \in Nat /\ y.errors \in Nat /\ fresh <= y.fresh /\ errors <= y.errors /\ x.errors <= y.errors
    BY <1>1, <1>4 DEF Base
  <2> QED
    BY <1>2, <1>3, <1>4, <2>1 DEF Base
<1>6. \A t : ListKnowledgeRaw(x.db, t) \subseteq ListKnowledgeRaw(y.db, t)
  BY <1>2, <1>4
<1>7. ASSUME Clean(x) PROVE Clean(y)
  <2>1. ASSUME NEW z \in y.db.local \ db.local PROVE ~Has(y.db.synced, z.id)
    BY <1>2, <1>4, <1>7, <2>1 DEF Clean
  <2>2. DefinitionsIn(x.db) \subseteq DefinitionsIn(y.db)
    BY <1>6 DEF DefinitionsIn
  <2> QED
    BY <1>7, <2>1, <2>2 DEF Clean
<1>8. Chips(x.db, d) \subseteq Chips(y.db, d)
  <2>1. DefinitionsIn(x.db) \subseteq DefinitionsIn(y.db) /\ ValuesOf(x.db, d) \subseteq ValuesOf(y.db, d)
    BY <1>6 DEF DefinitionsIn, ValuesOf
  <2> QED
    BY <2>1 DEF Chips
<1>9. \A spec : Shows(x.db, d, spec) => Shows(y.db, d, spec)
  BY <1>8 DEF Shows
<1> QED
  BY <1>2, <1>4, <1>5, <1>7, <1>9 DEF Turned

\* A save under a new id that fails: there is no other copy to be left over.
LEMMA FailedTurn ==
  ASSUME KnowledgeTypeOK, NEW x, Base(x), NEW d, NEW r \in StoredRecord, r.id[2] = x.fresh,
         NEW c \in FailedSaves(x.db, r), NEW y, y = Failing(x, c)
  PROVE  Turned(x, y, d) /\ y.errors > errors
<1>1. x.fresh \in Nat /\ Typed(x.db, x.fresh) /\ errors \in Nat
  BY DEF Base, KnowledgeTypeOK
<1>2. \A z \in x.db.local : z.id # r.id
  BY <1>1, TypedParts
<1>3. c = x.db
  BY <1>2 DEF FailedSaves
<1>4. y = [db |-> x.db, fresh |-> x.fresh, errors |-> x.errors + 1]
  BY <1>3 DEF Base, Failing
<1>5. y.errors = x.errors + 1 /\ y.fresh = x.fresh /\ y.db = x.db
  BY <1>4
<1>6. y.errors \in Nat /\ x.errors <= y.errors /\ y.errors > errors /\ errors <= y.errors
  BY <1>1, <1>5 DEF Base
<1>7. Base(y)
  BY <1>1, <1>4, <1>5, <1>6 DEF Base
<1> QED
  BY <1>1, <1>6, <1>7 DEF Turned

\* The second half of a turn, for a property p.
LEMMA ValuedTurn ==
  ASSUME KnowledgeTypeOK, NEW x, Base(x), NEW d \in Pages, NEW spec \in Specs,
         NEW p, p.id \in AnyId("definition"), NEW v,
         v = [id |-> <<"value", x.fresh>>, page |-> d, of |-> p.id, val |-> spec.value],
         NEW y,
         \/ ~ValidValue(x.db, v) /\ y = x
         \/ ValidValue(x.db, v) /\ y = Saved(x, v)
         \/ \E c \in FailedSaves(x.db, v) : y = Failing(x, c)
  PROVE  /\ Turned(x, y, d)
         /\ y.errors = errors /\ Reads /\ p \in DefinitionsIn(x.db) /\ p.active
            /\ p.name = spec.name /\ p.options = spec.options => Shows(y.db, d, spec)
<1>1. v \in StoredRecord /\ v.id[1] = "value" /\ v.id[2] = x.fresh /\ v.page = d /\ v.of = p.id
      /\ v.val = spec.value
  <2>1. x.fresh \in Nat
    BY DEF Base
  <2>2. v \in StoredValue
    BY <2>1 DEF StoredValue, AnyId
  <2> QED
    BY <2>2, StoredShape
<1>2. CASE ~ValidValue(x.db, v) /\ y = x
  <2>1. Turned(x, y, d)
    BY <1>2 DEF Turned, Base
  <2>2. ~(Reads /\ p \in DefinitionsIn(x.db) /\ p.options = spec.options)
    BY <1>1, <1>2, KnowledgeAssumption DEF ValidValue, Reads
  <2> QED
    BY <2>1, <2>2
<1>3. CASE y = Saved(x, v)
  <2>1. /\ Turned(x, y, d)
        /\ \A t : ListKnowledgeRaw(y.db, t)
                    = ListKnowledgeRaw(x.db, t) \cup (IF v.id[1] = t THEN {v} ELSE {})
    BY <1>1, <1>3, SavedTurn
  <2>2. v \in ValuesOf(y.db, d) /\ DefinitionsIn(y.db) = DefinitionsIn(x.db)
    <3>1. /\ ListKnowledgeRaw(y.db, "value")
                = ListKnowledgeRaw(x.db, "value") \cup (IF v.id[1] = "value" THEN {v} ELSE {})
          /\ ListKnowledgeRaw(y.db, "definition")
                = ListKnowledgeRaw(x.db, "definition") \cup (IF v.id[1] = "definition" THEN {v} ELSE {})
      BY <2>1, Zenon
    <3>2. v.id[1] # "definition"
      BY <1>1
    <3>3. v \in ListKnowledgeRaw(y.db, "value")
          /\ ListKnowledgeRaw(y.db, "definition") = ListKnowledgeRaw(x.db, "definition")
      BY <1>1, <3>1, <3>2
    <3> QED
      BY <1>1, <3>3 DEF ValuesOf, DefinitionsIn
  <2>3. ASSUME Reads, p \in DefinitionsIn(x.db), p.active, p.name = spec.name, p.options = spec.options
        PROVE  Shows(y.db, d, spec)
    <3>1. <<p, v>> \in Chips(y.db, d)
      BY <1>1, <2>2, <2>3 DEF Chips, Reads
    <3> QED
      BY <1>1, <2>3, <3>1 DEF Shows
  <2> QED
    BY <2>1, <2>3
<1>4. CASE \E c \in FailedSaves(x.db, v) : y = Failing(x, c)
  <2>1. Turned(x, y, d) /\ y.errors > errors
    BY <1>1, <1>4, FailedTurn
  <2>2. y.errors # errors
    BY <2>1 DEF Turned, Base, KnowledgeTypeOK
  <2> QED
    BY <2>1, <2>2
<1> QED
  BY <1>2, <1>3, <1>4

\* A whole turn: after one without an error the page shows the property.
LEMMA SeedTurn ==
  ASSUME KnowledgeTypeOK, NEW x, Base(x), NEW d \in Pages, NEW spec \in Specs,
         NEW existing, existing = IF Lists("definition") THEN DefinitionsIn(db) ELSE {},
         NEW y \in Seed(x, d, spec, existing)
  PROVE  /\ Turned(x, y, d)
         /\ y.errors = errors /\ Reads /\ Clean(x) => Shows(y.db, d, spec)
<1> DEFINE new == [id |-> <<"definition", x.fresh>>, name |-> spec.name,
                   options |-> spec.options, active |-> TRUE]
           w == Saved(x, new)
           ValueOf(u, p) == [id |-> <<"value", u.fresh>>, page |-> d, of |-> p.id, val |-> spec.value]
           Valued(u, p, z) ==
             \/ ~ValidValue(u.db, ValueOf(u, p)) /\ z = u
             \/ ValidValue(u.db, ValueOf(u, p)) /\ z = Saved(u, ValueOf(u, p))
             \/ \E c \in FailedSaves(u.db, ValueOf(u, p)) : z = Failing(u, c)
<1>1. \/ \E p \in Reusable(existing, spec) : Valued(x, p, y)
      \/ Valued(w, new, y)
      \/ \E c \in FailedSaves(x.db, new) : y = Failing(x, c)
  <2> DEFINE Values(u, p) ==
               IF ~ValidValue(u.db, ValueOf(u, p)) THEN {u}
               ELSE {Saved(u, ValueOf(u, p))} \cup {Failing(u, c) : c \in FailedSaves(u.db, ValueOf(u, p))}
             With == IF Reusable(existing, spec) # {} THEN {<<x, p>> : p \in Reusable(existing, spec)}
                     ELSE {<<w, new>>}
             Unmade == IF Reusable(existing, spec) = {}
                         THEN {Failing(x, c) : c \in FailedSaves(x.db, new)} ELSE {}
  <2>1. Seed(x, d, spec, existing) = Unmade \cup UNION {Values(q[1], q[2]) : q \in With}
    BY Zenon DEF Seed, Saved, Failing
  <2>2. \A q \in With : q = <<w, new>> \/ \E p \in Reusable(existing, spec) : q = <<x, p>>
    <3> HIDE DEF w, new
    <3> QED
      BY Zenon
  <2>3. \A z \in Unmade : \E c \in FailedSaves(x.db, new) : z = Failing(x, c)
    <3> HIDE DEF new
    <3> QED
      OBVIOUS
  <2>4. \A u, p : \A z \in Values(u, p) : Valued(u, p, z)
    <3> HIDE DEF ValueOf
    <3> QED
      OBVIOUS
  <2> HIDE DEF Values, With, Unmade, Valued, w, new
  <2>5. CASE y \in Unmade
    BY <2>3, <2>5
  <2>6. CASE y \in UNION {Values(q[1], q[2]) : q \in With}
    <3>1. PICK q \in With : y \in Values(q[1], q[2])
      BY <2>6
    <3>2. CASE q = <<w, new>>
      BY <2>4, <3>1, <3>2
    <3>3. CASE \E p \in Reusable(existing, spec) : q = <<x, p>>
      BY <2>4, <3>1, <3>3
    <3> QED
      BY <2>2, <3>2, <3>3
  <2> QED
    BY <2>1, <2>5, <2>6
<1>2. new \in StoredRecord /\ new.id[1] = "definition" /\ new.id[2] = x.fresh
      /\ new.id \in AnyId("definition") /\ new.active
      /\ new.name = spec.name /\ new.options = spec.options
  <2>1. x.fresh \in Nat
    BY DEF Base
  <2>2. spec \in Properties
    BY DEF Properties
  <2>3. new \in StoredDefinition
    BY <2>1, <2>2 DEF StoredDefinition, AnyId
  <2> QED
    BY <2>3, StoredShape DEF StoredDefinition
<1>3. ASSUME NEW p \in Reusable(existing, spec), Valued(x, p, y)
      PROVE  /\ Turned(x, y, d)
             /\ y.errors = errors /\ Reads /\ Clean(x) => Shows(y.db, d, spec)
  <2>1. p \in DefinitionsIn(db) /\ p.active /\ p.name = spec.name /\ p.options = spec.options
    BY DEF Reusable
  <2>2. Typed(db, fresh) /\ fresh \in Nat
    BY KnowledgeAssumption DEF KnowledgeTypeOK, Typed
  <2>3. p.id \in AnyId("definition")
    BY <2>1, <2>2, ListedLemma DEF StoredDefinition
  <2>4. Clean(x) => p \in DefinitionsIn(x.db)
    BY <2>1 DEF Clean
  <2> QED
    BY <1>3, <2>1, <2>3, <2>4, ValuedTurn
<1> HIDE DEF new
<1>4. ASSUME Valued(w, new, y)
      PROVE  /\ Turned(x, y, d)
             /\ y.errors = errors /\ Reads /\ Clean(x) => Shows(y.db, d, spec)
  <2>1. /\ Turned(x, w, d)
        /\ \A t : ListKnowledgeRaw(w.db, t)
                    = ListKnowledgeRaw(x.db, t) \cup (IF new.id[1] = t THEN {new} ELSE {})
    BY <1>2, SavedTurn
  <2>2. new \in DefinitionsIn(w.db) /\ Base(w)
    BY <1>2, <2>1 DEF DefinitionsIn, Turned
  <2> HIDE DEF w
  <2>3. Turned(w, y, d) /\ (y.errors = errors /\ Reads => Shows(y.db, d, spec))
    BY <1>2, <1>4, <2>2, ValuedTurn
  <2> QED
    BY <2>1, <2>3, TurnedTwice
<1>5. ASSUME NEW c \in FailedSaves(x.db, new), y = Failing(x, c)
      PROVE  Turned(x, y, d) /\ y.errors # errors
  <2>1. Turned(x, y, d) /\ y.errors > errors
    BY <1>2, <1>5, FailedTurn
  <2> QED
    BY <2>1 DEF Turned, Base, KnowledgeTypeOK
<1> QED
  BY <1>1, <1>3, <1>4, <1>5

LEMMA LeastNumber ==
  ASSUME NEW T, T \subseteq Nat, T # {}
  PROVE  \E x \in T : \A y \in T : x <= y
<1> DEFINE R == OpToRel(<, Nat)
<1>1. IsWellFoundedOn(R, Nat)
  BY NatLessThanWellFounded, Zenon
<1>2. \A x, y \in Nat : y < x => <<y, x>> \in R
  BY DEF OpToRel
<1> HIDE DEF R
<1>3. PICK x \in T : \A y \in T : <<y, x>> \notin R
  BY <1>1, WFMin
<1>4. ASSUME NEW y \in T PROVE x <= y
  <2>1. x \in Nat /\ y \in Nat
    OBVIOUS
  <2>2. ~(y < x)
    BY <2>1, <1>2, <1>3, Zenon
  <2> QED
    BY <2>1, <2>2
<1> QED
  BY <1>4

\* What may be true after n turns, from start.
After(f, N, start, d, specs, existing) ==
  f = [n \in 0..N |-> IF n = 0 THEN start
                      ELSE UNION {Seed(x, d, specs[n], existing) : x \in f[n - 1]}]

LEMMA AfterExists ==
  ASSUME NEW N \in Nat, NEW start, NEW d, NEW specs, NEW existing
  PROVE  \E f : After(f, N, start, d, specs, existing)
<1> DEFINE Turn(n, S) == UNION {Seed(x, d, specs[n], existing) : x \in S}
           P(n) == \E f : After(f, n, start, d, specs, existing)
           T == {n \in Nat : ~P(n)}
<1>0. \A f : \A n \in Nat : After(f, n, start, d, specs, existing) <=>
               f = [m \in 0..n |-> IF m = 0 THEN start ELSE Turn(m, f[m - 1])]
  BY Zenon DEF After
<1> HIDE DEF Turn
<1>1. P(0)
  <2> DEFINE g == [m \in 0..0 |-> start]
  <2>1. g = [m \in 0..0 |-> IF m = 0 THEN start ELSE Turn(m, g[m - 1])]
    OBVIOUS
  <2> HIDE DEF g
  <2> QED
    BY <1>0, <2>1
<1>2. ASSUME NEW k \in Nat, P(k) PROVE P(k + 1)
  <2>1. PICK f : f = [m \in 0..k |-> IF m = 0 THEN start ELSE Turn(m, f[m - 1])]
    BY <1>0, <1>2
  <2>2. \A m \in 0..k : f[m] = IF m = 0 THEN start ELSE Turn(m, f[m - 1])
    BY <2>1
  <2> DEFINE g == [m \in 0..(k + 1) |-> IF m = k + 1 THEN Turn(m, f[k]) ELSE f[m]]
             h == [m \in 0..(k + 1) |-> IF m = 0 THEN start ELSE Turn(m, g[m - 1])]
  <2>3. ASSUME NEW m \in 0..(k + 1) PROVE g[m] = IF m = 0 THEN start ELSE Turn(m, g[m - 1])
    <3>1. CASE m = k + 1
      <4>1. m - 1 = k /\ k \in 0..(k + 1) /\ k # k + 1 /\ m # 0
        BY <3>1
      <4>2. g[k] = f[k] /\ g[m] = Turn(m, f[k])
        BY <3>1, <4>1
      <4> QED
        BY <4>1, <4>2
    <3>2. CASE m \in 0..k /\ m # 0
      <4>1. m - 1 \in 0..(k + 1) /\ m - 1 # k + 1 /\ m # k + 1
        BY <3>2
      <4>2. g[m] = f[m] /\ g[m - 1] = f[m - 1]
        BY <3>2, <4>1
      <4> QED
        BY <2>2, <3>2, <4>2
    <3>3. CASE m = 0
      <4>1. 0 \in 0..k /\ 0 # k + 1
        BY <1>2
      <4> QED
        BY <2>2, <3>3, <4>1
    <3> QED
      BY <3>1, <3>2, <3>3
  <2>4. g = h
    BY <2>3
  <2>5. k + 1 \in Nat
    BY <1>2
  <2>6. g = [m \in 0..(k + 1) |-> IF m = 0 THEN start ELSE Turn(m, g[m - 1])]
    BY <2>4
  <2> HIDE DEF g, h
  <2> QED
    BY <1>0, <2>5, <2>6, Zenon
<1>3. T = {}
  <2> SUFFICES ASSUME T # {} PROVE FALSE
    OBVIOUS
  <2> HIDE DEF P
  <2>1. PICK m \in T : \A y \in T : m <= y
    BY LeastNumber
  <2>2. m \in Nat \ {0} /\ ~P(m)
    BY <1>1
  <2>3. m - 1 \in Nat /\ m - 1 + 1 = m /\ ~(m <= m - 1)
    BY <2>2
  <2>4. P(m - 1)
    BY <2>1, <2>3
  <2> QED
    BY <1>2, <2>2, <2>3, <2>4
<1> QED
  BY <1>3

\* After n turns: nothing is lost, and the page shows what they were for.
Sown(x, d, specs, n) ==
  /\ Base(x)
  /\ x.errors = errors => Clean(x) /\ (Reads => \A m \in 1..n : Shows(x.db, d, specs[m]))

LEMMA SownTurn ==
  ASSUME KnowledgeTypeOK, NEW d \in Pages, NEW specs \in Seq(Specs), NEW n \in Nat, n + 1 \in 1..Len(specs),
         NEW existing, existing = IF Lists("definition") THEN DefinitionsIn(db) ELSE {},
         NEW x, Sown(x, d, specs, n), NEW y \in Seed(x, d, specs[n + 1], existing)
  PROVE  Sown(y, d, specs, n + 1)
<1>1. specs[n + 1] \in Specs /\ Base(x)
  BY DEF Sown
<1>2. /\ Turned(x, y, d)
      /\ y.errors = errors /\ Reads /\ Clean(x) => Shows(y.db, d, specs[n + 1])
  BY <1>1, SeedTurn
<1>3. y.errors = errors => x.errors = errors
  BY <1>1, <1>2 DEF Turned, Base, KnowledgeTypeOK
<1>4. ASSUME y.errors = errors
      PROVE  Clean(y) /\ (Reads => \A m \in 1..(n + 1) : Shows(y.db, d, specs[m]))
  <2>1. Clean(x) /\ (Reads => \A m \in 1..n : Shows(x.db, d, specs[m]))
    BY <1>3, <1>4 DEF Sown
  <2>2. Clean(y)
    BY <1>2, <1>4, <2>1 DEF Turned
  <2>3. \A m : Shows(x.db, d, specs[m]) => Shows(y.db, d, specs[m])
    BY <1>2, <1>4, <2>1 DEF Turned
  <2>4. ASSUME Reads, NEW m \in 1..(n + 1) PROVE Shows(y.db, d, specs[m])
    <3>1. CASE m \in 1..n
      BY <2>1, <2>3, <2>4, <3>1
    <3>2. CASE m = n + 1
      BY <1>2, <1>4, <2>1, <2>4, <3>2
    <3> QED
      BY <3>1, <3>2
  <2> QED
    BY <2>2, <2>4
<1> QED
  BY <1>2, <1>4 DEF Sown, Turned

LEMMA SeededLemma ==
  ASSUME KnowledgeTypeOK, NEW d \in Pages, NEW k \in PageKinds, NEW x \in Seeded(d, k)
  PROVE  /\ Sown(x, d, DefaultPropertySpecs[k], Len(DefaultPropertySpecs[k]))
         /\ x.errors <= MaxErrors /\ x.fresh <= MaxIds + 1
<1> DEFINE specs == DefaultPropertySpecs[k]
           N == Len(specs)
           existing == IF Lists("definition") THEN DefinitionsIn(db) ELSE {}
           first == [db |-> db, fresh |-> fresh, errors |-> errors]
           Is(f) == f = [n \in 0..N |-> IF n = 0 THEN {first}
                                        ELSE UNION {Seed(z, d, specs[n], existing) : z \in f[n - 1]}]
<1>1. specs \in Seq(Specs) /\ N \in Nat
  BY KnowledgeAssumption
<1>2. PICK f : Is(f) /\ x \in f[N] /\ x.errors <= MaxErrors /\ x.fresh <= MaxIds + 1
  <2>1. \E f : Is(f)
    <3> HIDE DEF specs, existing, first, N
    <3>1. \E f : After(f, N, {first}, d, specs, existing)
      BY <1>1, AfterExists, Zenon
    <3> QED
      BY <3>1, Zenon DEF After
  <2>2. Is(CHOOSE f : Is(f))
    <3> HIDE DEF Is
    <3> QED
      BY <2>1
  <2>3. Seeded(d, k) = {z \in (CHOOSE f : Is(f))[N] : z.errors <= MaxErrors /\ z.fresh <= MaxIds + 1}
    BY Zenon DEF Seeded
  <2> HIDE DEF Is
  <2> QED
    BY <2>2, <2>3
<1> DEFINE F(n, S) == UNION {Seed(z, d, specs[n], existing) : z \in S}
<1>3. f = [n \in 0..N |-> IF n = 0 THEN {first} ELSE F(n, f[n - 1])]
  BY <1>2
<1>4. \A n : \A S : \A y \in F(n, S) : \E z \in S : y \in Seed(z, d, specs[n], existing)
  <2> HIDE DEF specs, existing
  <2> QED
    OBVIOUS
<1> HIDE DEF F
<1>5. \A n \in 0..N : f[n] = IF n = 0 THEN {first} ELSE F(n, f[n - 1])
  BY <1>3
<1> DEFINE Holds(n) == \A y \in f[n] : Sown(y, d, specs, n)
           T == {n \in 0..N : ~Holds(n)}
<1>6. Holds(0)
  <2>1. f[0] = {first}
    BY <1>1, <1>5
  <2>2. Typed(db, fresh)
    BY DEF KnowledgeTypeOK, Typed
  <2>3. first.db = db /\ first.fresh = fresh /\ first.errors = errors
    OBVIOUS
  <2>4. Base(first)
    BY <2>2, <2>3, KnowledgeAssumption DEF Base, KnowledgeTypeOK
  <2>5. Clean(first)
    BY <2>3 DEF Clean
  <2>6. Sown(first, d, specs, 0)
    BY <2>4, <2>5 DEF Sown
  <2> QED
    BY <2>1, <2>6
<1>7. ASSUME NEW n \in Nat, n + 1 \in 0..N, Holds(n) PROVE Holds(n + 1)
  <2>1. n + 1 # 0 /\ n + 1 - 1 = n /\ n + 1 \in 1..N
    BY <1>7
  <2>2. f[n + 1] = F(n + 1, f[n])
    BY <1>5, <1>7, <2>1
  <2>3. ASSUME NEW y \in f[n + 1] PROVE Sown(y, d, specs, n + 1)
    <3>1. PICK z \in f[n] : y \in Seed(z, d, specs[n + 1], existing)
      BY <1>4, <2>2
    <3> HIDE DEF specs, existing
    <3>2. Sown(z, d, specs, n)
      BY <1>7
    <3> QED
      BY <1>1, <2>1, <3>1, <3>2, SownTurn DEF existing, N
  <2> QED
    BY <2>3
<1>8. T = {}
  <2> SUFFICES ASSUME T # {} PROVE FALSE
    OBVIOUS
  <2> HIDE DEF Holds
  <2>0. T \subseteq Nat
    BY <1>1
  <2>1. PICK m \in T : \A y \in T : m <= y
    BY <2>0, LeastNumber
  <2>2. m \in Nat \ {0} /\ m \in 0..N /\ ~Holds(m)
    BY <1>1, <1>6
  <2>3. m - 1 \in Nat /\ m - 1 \in 0..N /\ m - 1 + 1 = m /\ ~(m <= m - 1)
    BY <1>1, <2>2
  <2>4. Holds(m - 1)
    BY <2>1, <2>3
  <2> QED
    BY <1>7, <2>2, <2>3, <2>4
<1>9. Holds(N)
  BY <1>1, <1>8
<1> QED
  BY <1>2, <1>9

-----------------------------------------------------------------------------
(* Types.                                                                   *)

LEMMA KnowledgeTypeInit == KnowledgeInit => KnowledgeTypeOK
<1> SUFFICES ASSUME KnowledgeInit PROVE KnowledgeTypeOK
  OBVIOUS
<1>1. pages \in [Pages -> PageKinds \cup {NoKind}] /\ mapped \in BOOLEAN /\ unreadable \subseteq RecordTypes
  BY KnowledgeAssumption DEF KnowledgeInit, NoKnowledge
<1>2. db = [synced |-> {}, local |-> {}]
  BY DEF KnowledgeInit, NoKnowledge
<1>3. fresh \in 1..(MaxIds + 1) /\ errors \in 0..MaxErrors /\ changes \in 0..MaxChanges
  BY KnowledgeAssumption DEF KnowledgeInit, NoKnowledge
<1> QED
  BY <1>1, <1>2, <1>3 DEF KnowledgeTypeOK

\* The invariant in the terms of a step.
Numbers == fresh \in Nat /\ 1 <= fresh /\ fresh <= MaxIds + 1 /\ errors \in 0..MaxErrors

LEMMA TypeFacts ==
  ASSUME KnowledgeTypeOK
  PROVE  Typed(db, fresh) /\ Numbers /\ pages \in [Pages -> PageKinds \cup {NoKind}]
         /\ mapped \in BOOLEAN /\ unreadable \subseteq RecordTypes /\ changes \in 0..MaxChanges
<1>1. Typed(db, fresh)
  BY DEF KnowledgeTypeOK, Typed
<1>2. Numbers
  BY KnowledgeAssumption DEF KnowledgeTypeOK, Numbers
<1> QED
  BY <1>1, <1>2 DEF KnowledgeTypeOK

LEMMA TypeAfter ==
  ASSUME KnowledgeTypeOK, changes < MaxChanges, Step,
         Typed(db', fresh'), Numbers',
         pages' \in [Pages -> PageKinds \cup {NoKind}], mapped' \in BOOLEAN,
         unreadable' \subseteq RecordTypes
  PROVE  KnowledgeTypeOK'
<1>1. changes' \in 0..MaxChanges
  BY KnowledgeAssumption DEF KnowledgeTypeOK, Step
<1>2. fresh' \in 1..(MaxIds + 1) /\ errors' \in 0..MaxErrors
  BY KnowledgeAssumption DEF Numbers
<1>3. /\ db' \in [synced : SUBSET StoredRecord, local : SUBSET StoredRecord]
      /\ \A r \in db'.synced \cup db'.local : r.id[2] < fresh'
  BY DEF Typed
<1> QED
  BY <1>1, <1>2, <1>3, Zenon DEF KnowledgeTypeOK

LEMMA SaveStep ==
  ASSUME KnowledgeTypeOK, changes < MaxChanges, NEW t, NEW r \in StoredRecord, Save(t, r.id, r)
  PROVE  KnowledgeTypeOK'
<1>1. Typed(db, fresh) /\ Numbers /\ MaxIds \in Nat /\ MaxErrors \in Nat
  BY TypeFacts, KnowledgeAssumption
<1>2. r.id[2] \in Nat
  BY StoredIds
<1>3. fresh' \in Nat /\ fresh <= fresh' /\ r.id[2] < fresh' /\ 1 <= fresh' /\ fresh' <= MaxIds + 1
  <2>1. CASE r.id = Id(t) /\ Takes(1)
    <3>1. r.id[2] = fresh
      BY <2>1 DEF Id
    <3> QED
      BY <1>1, <2>1, <3>1 DEF Takes, Numbers
  <2>2. CASE r.id[2] < fresh /\ UNCHANGED fresh
    BY <1>1, <2>2 DEF Numbers
  <2> QED
    BY <2>1, <2>2, Zenon DEF Save
<1>4. Typed(db, fresh')
  BY <1>1, <1>3, TypedParts DEF Numbers
<1>5. Typed(SaveKnowledgeRaw(db, r), fresh') /\ \A x \in FailedSaves(db, r) : Typed(x, fresh')
  BY <1>3, <1>4, SaveTyped
<1>6. Typed(db', fresh') /\ errors' \in 0..MaxErrors
  BY <1>1, <1>5 DEF Save, Write, Numbers
<1>7. Step /\ UNCHANGED <<pages, mapped, unreadable>>
  BY DEF Save
<1> QED
  BY <1>3, <1>6, <1>7, TypeAfter, TypeFacts DEF Numbers

LEMMA SaveDefinitionType ==
  ASSUME KnowledgeTypeOK, changes < MaxChanges, NEW i \in RecordIds("definition"),
         NEW p \in Catalogue, NEW a \in BOOLEAN, SaveDefinition(i, p, a)
  PROVE  KnowledgeTypeOK'
<1> DEFINE r == [id |-> i, name |-> p.name, options |-> p.options, active |-> a]
<1>1. i \in AnyId("definition") /\ p \in Properties
  BY DEF RecordIds, AnyId, Properties
<1>2. r \in StoredDefinition
  BY <1>1 DEF StoredDefinition
<1>3. r \in StoredRecord /\ r.id = i
  BY <1>2, StoredShape
<1>4. Save("definition", i, r)
  BY Zenon DEF SaveDefinition
<1> HIDE DEF r
<1> QED
  BY <1>3, <1>4, SaveStep

LEMMA RetireType ==
  ASSUME KnowledgeTypeOK, changes < MaxChanges, NEW q \in DefinitionsIn(db),
         RetirePropertyDefinition(q)
  PROVE  KnowledgeTypeOK'
<1> DEFINE r == [q EXCEPT !.active = FALSE]
<1>1. q \in StoredDefinition
  BY TypeFacts, ListedLemma DEF Numbers
<1>2. r \in StoredDefinition /\ r.id = q.id
  BY <1>1 DEF StoredDefinition
<1>3. r \in StoredRecord
  BY <1>2, StoredShape
<1>4. Save("definition", q.id, r)
  BY Zenon DEF RetirePropertyDefinition
<1> HIDE DEF r
<1> QED
  BY <1>2, <1>3, <1>4, SaveStep

LEMMA SaveValueType ==
  ASSUME KnowledgeTypeOK, changes < MaxChanges, NEW i \in RecordIds("value"), NEW d \in Pages,
         NEW p \in RecordIds("definition"), NEW a \in Answers, SaveValue(i, d, p, a)
  PROVE  KnowledgeTypeOK'
<1> DEFINE r == [id |-> i, page |-> d, of |-> p, val |-> a]
<1>1. i \in AnyId("value") /\ p \in AnyId("definition")
  BY DEF RecordIds, AnyId
<1>2. r \in StoredValue
  BY <1>1 DEF StoredValue
<1>3. r \in StoredRecord /\ r.id = i
  BY <1>2, StoredShape
<1>4. Save("value", i, r)
  BY Zenon DEF SaveValue
<1> HIDE DEF r
<1> QED
  BY <1>3, <1>4, SaveStep

LEMMA SaveTypeType ==
  ASSUME KnowledgeTypeOK, changes < MaxChanges, NEW i \in RecordIds("type"),
         NEW direction \in Directions, SaveType(i, direction)
  PROVE  KnowledgeTypeOK'
<1> DEFINE r == [id |-> i, direction |-> direction]
<1>1. i \in AnyId("type")
  BY DEF RecordIds, AnyId
<1>2. r \in StoredType
  BY <1>1 DEF StoredType
<1>3. r \in StoredRecord /\ r.id = i
  BY <1>2, StoredShape
<1>4. Save("type", i, r)
  BY Zenon DEF SaveType
<1> HIDE DEF r
<1> QED
  BY <1>3, <1>4, SaveStep

LEMMA SavedEndsTyped ==
  ASSUME KnowledgeTypeOK, changes < MaxChanges, NEW i \in RecordIds("relation"),
         NEW t \in RecordIds("type"), NEW d \in Pages, NEW e \in Pages, SaveRelation(i, t, d, e)
  PROVE  KnowledgeTypeOK'
<1> DEFINE r == [id |-> i, of |-> t, source |-> d, target |-> e]
           n == Normalized(db, r)
<1>1. i \in AnyId("relation") /\ t \in AnyId("type")
  BY DEF RecordIds, AnyId
<1>2. r \in StoredRelation
  BY <1>1 DEF StoredRelation
<1>3. [r EXCEPT !.source = r.target, !.target = r.source] \in StoredRelation
      /\ [r EXCEPT !.source = r.target, !.target = r.source].id = i /\ r.id = i
  BY <1>1 DEF StoredRelation
<1> HIDE DEF r
<1>4. n \in StoredRelation /\ n.id = i
  <2>1. n = r \/ n = [r EXCEPT !.source = r.target, !.target = r.source]
    BY Zenon DEF Normalized
  <2> HIDE DEF n
  <2> QED
    BY <1>2, <1>3, <2>1
<1>5. Save("relation", i, n)
  BY Zenon DEF SaveRelation, r
<1>6. n \in StoredRecord
  BY <1>4, StoredShape
<1> HIDE DEF n
<1> QED
  BY <1>4, <1>5, <1>6, SaveStep

LEMMA DeleteRecordType ==
  ASSUME KnowledgeTypeOK, changes < MaxChanges, NEW i, DeleteRecord(i)
  PROVE  KnowledgeTypeOK'
<1>1. Typed(db, fresh) /\ Numbers /\ MaxErrors \in Nat
  BY TypeFacts, KnowledgeAssumption
<1>2. Typed(db', fresh)
  BY <1>1, DeleteTyped DEF DeleteRecord, Numbers
<1>3. Step /\ UNCHANGED <<pages, mapped, unreadable, fresh>> /\ errors' \in 0..MaxErrors
  BY <1>1 DEF DeleteRecord, Numbers
<1> QED
  BY <1>1, <1>2, <1>3, TypeAfter, TypeFacts DEF Numbers

LEMMA CreatePageType ==
  ASSUME KnowledgeTypeOK, changes < MaxChanges, NEW d \in Pages, NEW k \in PageKinds, CreatePage(d, k)
  PROVE  KnowledgeTypeOK'
<1>1. PICK x \in Seeded(d, k) : db' = x.db /\ fresh' = x.fresh /\ errors' = x.errors
  BY DEF CreatePage
<1>2. Base(x) /\ x.errors <= MaxErrors /\ x.fresh <= MaxIds + 1
  BY SeededLemma DEF Sown
<1>3. Typed(db', fresh') /\ Numbers'
  BY <1>1, <1>2, TypeFacts, KnowledgeAssumption DEF Base, Numbers
<1>4. Step /\ UNCHANGED <<mapped, unreadable>> /\ pages' = [pages EXCEPT ![d] = k]
  BY DEF CreatePage
<1>5. pages' \in [Pages -> PageKinds \cup {NoKind}]
  BY <1>4, TypeFacts
<1> QED
  BY <1>3, <1>4, <1>5, TypeAfter, TypeFacts

LEMMA DeletePageType ==
  ASSUME KnowledgeTypeOK, changes < MaxChanges, NEW d \in Pages, DeletePage(d)
  PROVE  KnowledgeTypeOK'
<1> DEFINE values == IdsOf(ValuesOf(db, d))
           relations == IdsOf(RelationsOf(db, d))
<1>1. Typed(db, fresh) /\ Numbers /\ MaxErrors \in Nat /\ pages \in [Pages -> PageKinds \cup {NoKind}]
  BY TypeFacts, KnowledgeAssumption
<1>2. \A S : Typed(AllBut(db, S), fresh) /\ \A i : \A x \in FailedDeletes(AllBut(db, S), i) : Typed(x, fresh)
  BY <1>1, DeleteTyped DEF Numbers
<1>3. Step /\ UNCHANGED <<mapped, unreadable, fresh>>
  BY DEF DeletePage
<1>4. /\ \/ db' = db \/ \E S : db' = AllBut(db, S)
         \/ \E S, i : db' \in FailedDeletes(AllBut(db, S), i)
      /\ errors' = errors \/ (errors < MaxErrors /\ errors' = errors + 1)
      /\ pages' = pages \/ pages' = [pages EXCEPT ![d] = NoKind]
  <2> HIDE DEF values, relations
  <2>1. /\ \/ ~Lists("value") /\ UNCHANGED <<db, pages, errors>>
           \/ /\ Lists("value") /\ ~Lists("relation")
              /\ db' = AllBut(db, values) /\ UNCHANGED <<pages, errors>>
           \/ /\ Lists("value") /\ Lists("relation")
              /\ db' = AllBut(db, values \cup relations)
              /\ pages' = [pages EXCEPT ![d] = NoKind] /\ UNCHANGED errors
           \/ /\ Lists("value") /\ errors < MaxErrors
              /\ \E S \in SUBSET (values \cup relations) :
                   /\ S \cap relations # {} => values \subseteq S /\ Lists("relation")
                   /\ db' \in {AllBut(db, S)} \cup
                        UNION {FailedDeletes(AllBut(db, S), id) : id \in (values \cup relations) \ S}
              /\ errors' = errors + 1 /\ UNCHANGED pages
    BY Zenon DEF DeletePage, values, relations
  <2>2. CASE ~Lists("value") /\ UNCHANGED <<db, pages, errors>>
    BY <2>2
  <2>3. CASE db' = AllBut(db, values) /\ UNCHANGED <<pages, errors>>
    BY <2>3
  <2>4. CASE /\ db' = AllBut(db, values \cup relations)
             /\ pages' = [pages EXCEPT ![d] = NoKind] /\ UNCHANGED errors
    BY <2>4
  <2>5. ASSUME errors < MaxErrors, NEW S \in SUBSET (values \cup relations),
               db' \in {AllBut(db, S)} \cup
                  UNION {FailedDeletes(AllBut(db, S), id) : id \in (values \cup relations) \ S},
               errors' = errors + 1 /\ UNCHANGED pages
        PROVE  /\ \/ db' = db \/ \E Q : db' = AllBut(db, Q)
                  \/ \E Q, i : db' \in FailedDeletes(AllBut(db, Q), i)
               /\ errors < MaxErrors /\ errors' = errors + 1
               /\ pages' = pages
    <3>1. db' = AllBut(db, S) \/ \E i : db' \in FailedDeletes(AllBut(db, S), i)
      BY <2>5
    <3> QED
      BY <2>5, <3>1, Zenon
  <2> QED
    BY <2>1, <2>2, <2>3, <2>4, <2>5, Zenon
<1>5. Typed(db', fresh') /\ Numbers' /\ pages' \in [Pages -> PageKinds \cup {NoKind}]
  <2>1. Typed(db', fresh')
    BY <1>1, <1>2, <1>3, <1>4, Zenon
  <2>2. Numbers'
    BY <1>1, <1>3, <1>4 DEF Numbers
  <2>3. pages' \in [Pages -> PageKinds \cup {NoKind}]
    BY <1>1, <1>4
  <2> QED
    BY <2>1, <2>2, <2>3
<1> QED
  BY <1>3, <1>5, TypeAfter, TypeFacts

LEMMA KnowledgeRecordStored ==
  ASSUME NEW r \in KnowledgeRecord
  PROVE  r \in StoredRecord
<1>1. \A t : RecordIds(t) \subseteq AnyId(t)
  BY KnowledgeAssumption DEF RecordIds, AnyId
<1>2. CASE r \in DefinitionRecord
  <2>1. PICK i \in RecordIds("definition") : \E p \in Catalogue, a \in BOOLEAN :
           r = [id |-> i, name |-> p.name, options |-> p.options, active |-> a]
    BY <1>2 DEF DefinitionRecord
  <2>2. PICK p \in Catalogue, a \in BOOLEAN :
           r = [id |-> i, name |-> p.name, options |-> p.options, active |-> a]
    BY <2>1
  <2>3. p \in Properties /\ i \in AnyId("definition")
    BY <1>1 DEF Properties
  <2>4. r \in StoredDefinition
    BY <2>2, <2>3 DEF StoredDefinition
  <2> QED
    BY <2>4, StoredShape
<1>3. CASE r \in ValueRecord
  <2>1. r \in StoredValue
    BY <1>1, <1>3 DEF ValueRecord, StoredValue
  <2> QED
    BY <2>1, StoredShape
<1>4. CASE r \in TypeRecord
  <2>1. r \in StoredType
    BY <1>1, <1>4 DEF TypeRecord, StoredType
  <2> QED
    BY <2>1, StoredShape
<1>5. CASE r \in RelationRecord
  <2>1. r \in StoredRelation
    BY <1>1, <1>5 DEF RelationRecord, StoredRelation
  <2> QED
    BY <2>1, StoredShape
<1> QED
  BY <1>2, <1>3, <1>4, <1>5 DEF KnowledgeRecord

\* A collection that is pulled.
LEMMA PulledType ==
  ASSUME KnowledgeTypeOK, changes < MaxChanges, NEW S, Pulled(S), S \subseteq StoredRecord,
         fresh' \in Nat, fresh <= fresh', fresh' <= MaxIds + 1, \A r \in S : r.id[2] < fresh',
         pages' \in [Pages -> PageKinds \cup {NoKind}]
  PROVE  KnowledgeTypeOK'
<1>1. Typed(db, fresh) /\ Numbers
  BY TypeFacts
<1>2. Step /\ UNCHANGED <<mapped, unreadable, errors>> /\ db' = [db EXCEPT !.synced = S]
  BY DEF Pulled
<1>3. db = [synced |-> db.synced, local |-> db.local] /\ db.local \subseteq StoredRecord
      /\ \A r \in db.local : r.id[2] \in Nat /\ r.id[2] < fresh
  BY <1>1, TypedParts DEF Numbers
<1>4. db' = [synced |-> S, local |-> db.local]
  BY <1>2, <1>3
<1>5. \A r \in S \cup db.local : r.id[2] < fresh'
  BY <1>1, <1>3 DEF Numbers
<1>6. Typed(db', fresh')
  BY <1>3, <1>4, <1>5, TypedOf
<1>7. Numbers'
  BY <1>1, <1>2 DEF Numbers
<1> QED
  BY <1>2, <1>6, <1>7, TypeAfter, TypeFacts

LEMMA RemoteType ==
  ASSUME KnowledgeTypeOK, changes < MaxChanges, RemoteKnowledge
  PROVE  KnowledgeTypeOK'
<1>1. Typed(db, fresh) /\ Numbers /\ pages \in [Pages -> PageKinds \cup {NoKind}]
      /\ mapped \in BOOLEAN /\ unreadable \subseteq RecordTypes /\ MaxIds \in Nat
  BY TypeFacts, KnowledgeAssumption
<1>2. db.synced \subseteq StoredRecord /\ db.local \subseteq StoredRecord
      /\ \A r \in db.synced \cup db.local : r.id[2] \in Nat /\ r.id[2] < fresh
  BY <1>1, TypedParts DEF Numbers
<1>3. CASE Bootstrap
  BY <1>1, <1>3, TypeAfter DEF Bootstrap, Numbers
<1>4. ASSUME NEW r \in KnowledgeRecord, ReplicatedPut(r) PROVE KnowledgeTypeOK'
  <2> DEFINE S == Without(db.synced, r.id) \cup {r}
  <2>1. r \in StoredRecord
    BY KnowledgeRecordStored
  <2>2. Pulled(S) /\ UNCHANGED pages
    BY <1>4, Zenon DEF ReplicatedPut
  <2>3. fresh' \in Nat /\ fresh <= fresh' /\ fresh' <= MaxIds + 1 /\ r.id[2] < fresh'
    <3>1. CASE r.id[2] = fresh /\ Takes(1)
      BY <1>1, <3>1 DEF Takes, Numbers
    <3>2. CASE Has(db.synced \cup db.local, r.id) /\ UNCHANGED fresh
      BY <1>1, <1>2, <3>2 DEF Has, Numbers
    <3> QED
      BY <1>4, <3>1, <3>2 DEF ReplicatedPut
  <2>4. S \subseteq StoredRecord /\ \A x \in S : x.id[2] < fresh'
    BY <1>1, <1>2, <2>1, <2>3 DEF Without, Numbers
  <2> HIDE DEF S
  <2> QED
    BY <1>1, <2>2, <2>3, <2>4, PulledType
<1>5. ASSUME NEW t \in RecordTypes, ReplicatedUnreadable(t) PROVE KnowledgeTypeOK'
  BY <1>1, <1>5, TypeAfter DEF ReplicatedUnreadable, Numbers
<1>6. ASSUME NEW i, ReplicatedRemoval(i) PROVE KnowledgeTypeOK'
  <2> DEFINE S == Without(db.synced, i)
  <2>1. Pulled(S) /\ UNCHANGED <<pages, fresh>>
    BY <1>6, Zenon DEF ReplicatedRemoval
  <2>2. S \subseteq StoredRecord /\ \A x \in S : x.id[2] < fresh
    BY <1>2 DEF Without
  <2> HIDE DEF S
  <2> QED
    BY <1>1, <2>1, <2>2, PulledType DEF Numbers
<1>7. ASSUME NEW d \in Pages, NEW k \in PageKinds \cup {NoKind}, ReplicatedPage(d, k)
      PROVE  KnowledgeTypeOK'
  <2>1. Pulled(db.synced) /\ UNCHANGED fresh /\ pages' = [pages EXCEPT ![d] = k]
    BY <1>7 DEF ReplicatedPage
  <2>2. pages' \in [Pages -> PageKinds \cup {NoKind}]
    BY <1>1, <2>1
  <2> QED
    BY <1>1, <1>2, <2>1, <2>2, PulledType DEF Numbers
<1> QED
  BY <1>3, <1>4, <1>5, <1>6, <1>7, Zenon DEF RemoteKnowledge

LEMMA KnowledgeStep == KnowledgeTypeOK /\ [KnowledgeNext]_knowledgeVars => KnowledgeTypeOK'
<1> SUFFICES ASSUME KnowledgeTypeOK, [KnowledgeNext]_knowledgeVars PROVE KnowledgeTypeOK'
  OBVIOUS
<1>1. CASE UNCHANGED knowledgeVars
  BY <1>1 DEF knowledgeVars, KnowledgeTypeOK
<1>2. ASSUME changes < MaxChanges, LocalKnowledge PROVE KnowledgeTypeOK'
  BY <1>2, SaveDefinitionType, RetireType, SaveValueType, SaveTypeType, SavedEndsTyped,
     DeleteRecordType, CreatePageType, DeletePageType, Zenon DEF LocalKnowledge
<1> QED
  BY <1>1, <1>2, RemoteType DEF KnowledgeNext

\* Types, and every id of a record was given by the counter.
THEOREM KnowledgeTypeCorrect == KnowledgeSpec => []KnowledgeTypeOK
<1> QED
  BY KnowledgeTypeInit, KnowledgeStep, PTL DEF KnowledgeSpec

-----------------------------------------------------------------------------
(* What the steps keep.                                                     *)

\* A record that is listed after the records of S are gone was listed before,
\* and is not one of them.
LEMMA AllButListed ==
  ASSUME NEW c, NEW S, NEW t, NEW r \in ListKnowledgeRaw(AllBut(c, S), t)
  PROVE  r \in ListKnowledgeRaw(c, t) /\ r.id \notin S
  BY DEF ListKnowledgeRaw, AllBut, Has

\* Deleting by the ids that are listed leaves no copy to come up again.
THEOREM PageCorrect == KnowledgeSpec => PageLeavesNothing
<1> DEFINE Leaves == \A d \in Pages : pages[d] # NoKind /\ pages'[d] = NoKind /\ DeletePage(d) =>
                       /\ \A v \in ListKnowledgeRaw(db', "value") : v.page # d
                       /\ \A e \in ListKnowledgeRaw(db', "relation") : d \notin {e.source, e.target}
<1>1. ASSUME NEW d \in Pages, pages[d] # NoKind, pages'[d] = NoKind, DeletePage(d)
      PROVE  /\ \A v \in ListKnowledgeRaw(db', "value") : v.page # d
             /\ \A e \in ListKnowledgeRaw(db', "relation") : d \notin {e.source, e.target}
  <2> DEFINE values == IdsOf(ValuesOf(db, d))
             relations == IdsOf(RelationsOf(db, d))
  <2>1. db' = AllBut(db, values \cup relations)
    <3>1. ~UNCHANGED pages
      BY <1>1
    <3> QED
      BY <1>1, <3>1, Zenon DEF DeletePage
  <2>2. \A v \in ListKnowledgeRaw(db, "value") : v.page = d => v.id \in values
    BY DEF ValuesOf, IdsOf
  <2>3. \A e \in ListKnowledgeRaw(db, "relation") : d \in {e.source, e.target} => e.id \in relations
    BY DEF RelationsOf, IdsOf
  <2> HIDE DEF values, relations
  <2>4. \A t : \A r \in ListKnowledgeRaw(db', t) :
          r \in ListKnowledgeRaw(db, t) /\ r.id \notin values /\ r.id \notin relations
    BY <2>1, AllButListed
  <2> QED
    BY <2>2, <2>3, <2>4
<1>2. [KnowledgeNext]_knowledgeVars => [Leaves]_knowledgeVars
  BY <1>1
<1> QED
  BY <1>2, PTL DEF KnowledgeSpec, PageLeavesNothing

\* A record is saved where its only or its replicated copy is, and deleted in
\* both places.
LEMMA OwnSaveListed ==
  ASSUME NEW r, db' = SaveKnowledgeRaw(db, r), Typed(db, fresh), fresh \in Nat
  PROVE  \A z \in db'.local \ db.local : ~Has(db'.synced, z.id)
<1>1. db = [synced |-> db.synced, local |-> db.local]
  BY TypedParts
<1>2. CASE UseSynced(db, r.id)
  <2>1. db'.local = Without(db.local, r.id)
    BY <1>2 DEF SaveKnowledgeRaw
  <2> QED
    BY <2>1 DEF Without
<1>3. CASE ~UseSynced(db, r.id)
  <2>1. db'.local = Without(db.local, r.id) \cup {r} /\ db'.synced = db.synced
    BY <1>1, <1>3 DEF SaveKnowledgeRaw
  <2>2. ~Has(db.synced, r.id)
    BY <1>3 DEF UseSynced
  <2> QED
    BY <2>1, <2>2 DEF Without
<1> QED
  BY <1>2, <1>3

LEMMA LocalLessListed ==
  ASSUME db'.local \subseteq db.local
  PROVE  \A z \in db'.local \ db.local : ~Has(db'.synced, z.id)
  OBVIOUS

LEMMA DeletesLocalLess ==
  ASSUME Typed(db, fresh), fresh \in Nat
  PROVE  /\ \A i : DeleteRecord(i) => db'.local \subseteq db.local
         /\ \A d : DeletePage(d) /\ errors' = errors /\ errors \in Nat => db'.local \subseteq db.local
<1>1. db = [synced |-> db.synced, local |-> db.local]
  BY TypedParts
<1>2. ASSUME NEW i, DeleteRecord(i) PROVE db'.local \subseteq db.local
  <2>1. CASE db' = DeleteKnowledgeRaw(db, i)
    BY <2>1 DEF DeleteKnowledgeRaw, Without
  <2>2. CASE db' \in FailedDeletes(db, i)
    BY <1>1, <2>2 DEF FailedDeletes
  <2> QED
    BY <1>2, <2>1, <2>2 DEF DeleteRecord
<1>3. ASSUME NEW d, DeletePage(d), errors' = errors, errors \in Nat PROVE db'.local \subseteq db.local
  <2>1. db' = db \/ \E S : db' = AllBut(db, S)
    <3>1. ~(errors' = errors + 1)
      BY <1>3
    <3> QED
      BY <1>3, <3>1, Zenon DEF DeletePage
  <2> QED
    BY <2>1 DEF AllBut
<1> QED
  BY <1>2, <1>3

LEMMA LocalListed ==
  ASSUME KnowledgeTypeOK, LocalKnowledge, errors' = errors
  PROVE  \A z \in db'.local \ db.local : ~Has(db'.synced, z.id)
<1>1. Typed(db, fresh) /\ fresh \in Nat /\ errors \in Nat /\ errors' # errors + 1
  BY TypeFacts, KnowledgeAssumption DEF Numbers
<1>2. ASSUME NEW t, NEW i, NEW r, Save(t, i, r)
      PROVE  \A z \in db'.local \ db.local : ~Has(db'.synced, z.id)
  <2>1. db' = SaveKnowledgeRaw(db, r)
    BY <1>1, <1>2, Zenon DEF Save, Write
  <2> QED
    BY <1>1, <2>1, OwnSaveListed
<1>3. ASSUME NEW d \in Pages, NEW k \in PageKinds, CreatePage(d, k)
      PROVE  \A z \in db'.local \ db.local : ~Has(db'.synced, z.id)
  <2>1. PICK x \in Seeded(d, k) : db' = x.db /\ errors' = x.errors
    BY <1>3 DEF CreatePage
  <2>2. Clean(x)
    BY <2>1, SeededLemma DEF Sown
  <2> QED
    BY <2>1, <2>2 DEF Clean
<1>4. ASSUME NEW i, DeleteRecord(i)
      PROVE  \A z \in db'.local \ db.local : ~Has(db'.synced, z.id)
  BY <1>1, <1>4, DeletesLocalLess, LocalLessListed
<1>5. ASSUME NEW d, DeletePage(d)
      PROVE  \A z \in db'.local \ db.local : ~Has(db'.synced, z.id)
  BY <1>1, <1>5, DeletesLocalLess, LocalLessListed
<1>6. CASE \E i \in RecordIds("definition"), p \in Catalogue, a \in BOOLEAN : SaveDefinition(i, p, a)
  BY <1>2, <1>6 DEF SaveDefinition
<1>7. CASE \E r \in DefinitionsIn(db) : RetirePropertyDefinition(r)
  BY <1>2, <1>7 DEF RetirePropertyDefinition
<1>8. CASE \E i \in RecordIds("value"), p \in RecordIds("definition"), d \in Pages, a \in Answers :
             SaveValue(i, d, p, a)
  BY <1>2, <1>8 DEF SaveValue
<1>9. CASE \E i \in RecordIds("type"), direction \in Directions : SaveType(i, direction)
  BY <1>2, <1>9 DEF SaveType
<1>10. CASE \E i \in RecordIds("relation"), t \in RecordIds("type"), d, e \in Pages : SaveRelation(i, t, d, e)
  BY <1>2, <1>10 DEF SaveRelation
<1> QED
  BY <1>3, <1>4, <1>5, <1>6, <1>7, <1>8, <1>9, <1>10, Zenon DEF LocalKnowledge

LEMMA RemoteListed ==
  ASSUME KnowledgeTypeOK, RemoteKnowledge
  PROVE  db'.local \subseteq db.local
<1>1. db = [synced |-> db.synced, local |-> db.local]
  BY TypeFacts, TypedParts DEF Numbers
<1>2. ASSUME NEW S, Pulled(S) PROVE db'.local \subseteq db.local
  BY <1>1, <1>2 DEF Pulled
<1>3. CASE Bootstrap
  BY <1>3 DEF Bootstrap
<1>4. ASSUME NEW r, ReplicatedPut(r) PROVE db'.local \subseteq db.local
  BY <1>2, <1>4 DEF ReplicatedPut
<1>5. ASSUME NEW t, ReplicatedUnreadable(t) PROVE db'.local \subseteq db.local
  BY <1>5 DEF ReplicatedUnreadable
<1>6. ASSUME NEW i, ReplicatedRemoval(i) PROVE db'.local \subseteq db.local
  BY <1>2, <1>6 DEF ReplicatedRemoval
<1>7. ASSUME NEW d, NEW k, ReplicatedPage(d, k) PROVE db'.local \subseteq db.local
  BY <1>2, <1>7 DEF ReplicatedPage
<1> QED
  BY <1>3, <1>4, <1>5, <1>6, <1>7, Zenon DEF RemoteKnowledge

\* A record that was saved is listed, one that was deleted is not.
THEOREM LastWordCorrect == KnowledgeSpec => LastWordIsListed
<1> DEFINE Last == errors' = errors =>
                     /\ \A r \in db'.local \ db.local : ~Has(db'.synced, r.id)
                     /\ \A i \in IdsOf(db.synced \cup db.local) :
                          DeleteRecord(i) => ~Has(ListKnowledgeRaw(db', i[1]), i)
<1>1. ASSUME KnowledgeTypeOK, KnowledgeNext, errors' = errors
      PROVE  \A r \in db'.local \ db.local : ~Has(db'.synced, r.id)
  <2>1. CASE LocalKnowledge
    BY <1>1, <2>1, LocalListed
  <2>2. CASE RemoteKnowledge
    BY <1>1, <2>2, RemoteListed, LocalLessListed
  <2> QED
    BY <1>1, <2>1, <2>2 DEF KnowledgeNext
<1>2. ASSUME KnowledgeTypeOK, errors' = errors, NEW i, DeleteRecord(i)
      PROVE  ~Has(ListKnowledgeRaw(db', i[1]), i)
  <2>1. errors' # errors + 1
    BY <1>2, TypeFacts, KnowledgeAssumption DEF Numbers
  <2>2. db' = DeleteKnowledgeRaw(db, i)
    BY <1>2, <2>1, Zenon DEF DeleteRecord
  <2>3. \A r \in db'.synced \cup db'.local : r.id # i
    BY <2>2 DEF DeleteKnowledgeRaw, Without
  <2> QED
    BY <2>3 DEF ListKnowledgeRaw, Has
<1>3. KnowledgeTypeOK /\ [KnowledgeNext]_knowledgeVars => [Last]_knowledgeVars
  BY <1>1, <1>2
<1> QED
  BY <1>3, KnowledgeTypeInit, KnowledgeStep, PTL DEF KnowledgeSpec, LastWordIsListed

\* Every turn without an error shows its property, and the later turns keep it.
THEOREM SeededCorrect == KnowledgeSpec => SeededIsShown
<1> DEFINE Shown ==
      \A d \in Pages, k \in PageKinds :
        pages[d] = NoKind /\ pages'[d] = k /\ errors' = errors /\ Reads /\ CreatePage(d, k) =>
          \A n \in DOMAIN DefaultPropertySpecs[k] :
            LET spec == DefaultPropertySpecs[k][n] IN
            \E w \in Chips(db', d) : /\ w[1].name = spec.name /\ w[1].options = spec.options
                                     /\ w[2].val = spec.value
<1>1. ASSUME KnowledgeTypeOK, NEW d \in Pages, NEW k \in PageKinds, errors' = errors, Reads,
             CreatePage(d, k), NEW n \in DOMAIN DefaultPropertySpecs[k]
      PROVE  \E w \in Chips(db', d) :
               /\ w[1].name = DefaultPropertySpecs[k][n].name
               /\ w[1].options = DefaultPropertySpecs[k][n].options
               /\ w[2].val = DefaultPropertySpecs[k][n].value
  <2>1. PICK x \in Seeded(d, k) : db' = x.db /\ errors' = x.errors
    BY <1>1 DEF CreatePage
  <2>2. \A m \in 1..Len(DefaultPropertySpecs[k]) : Shows(x.db, d, DefaultPropertySpecs[k][m])
    BY <1>1, <2>1, SeededLemma DEF Sown
  <2>3. n \in 1..Len(DefaultPropertySpecs[k])
    <3>1. DefaultPropertySpecs[k] \in Seq(Specs)
      BY KnowledgeAssumption
    <3> QED
      BY <3>1
  <2>4. Shows(db', d, DefaultPropertySpecs[k][n])
    BY <2>1, <2>2, <2>3
  <2> QED
    BY <2>4, Zenon DEF Shows
<1>2. KnowledgeTypeOK /\ [KnowledgeNext]_knowledgeVars => [Shown]_knowledgeVars
  BY <1>1, Zenon
<1> QED
  BY <1>2, KnowledgeTypeInit, KnowledgeStep, PTL DEF KnowledgeSpec, SeededIsShown

-----------------------------------------------------------------------------
(* Context packs.                                                           *)

\* The pack that is stored was saved by SaveContextPack.
PackInv == pack = Nothing \/ pack.items \in Selections

\* Each place is listed once, after those that stand before it.
LEMMA IncludedLemma ==
  ASSUME NEW items, NEW l \in Nat, DOMAIN items = 1..l
  PROVE  LET N == Cardinality(Places(items)) s == Included(items)
         IN  /\ N \in Nat /\ DOMAIN s = 1..N
             /\ \A n \in 1..N : s[n] \in Places(items) /\ Before(items, s[n]) + 1 = n
             /\ \A i \in Places(items) : /\ Before(items, i) \in Nat /\ Before(items, i) + 1 \in 1..N
                                         /\ s[Before(items, i) + 1] = i
<1> DEFINE P == Places(items)
           N == Cardinality(P)
           before(i) == {j \in P : j < i}
           place(i) == Before(items, i) + 1
<1>1. P \in SUBSET (1..l) /\ IsFiniteSet(P) /\ N \in Nat
  <2>1. P \in SUBSET (1..l)
    BY DEF Places
  <2>2. IsFiniteSet(1..l)
    BY FS_Interval
  <2> HIDE DEF P
  <2>3. IsFiniteSet(P)
    BY <2>1, <2>2, FS_Subset
  <2> QED BY <2>1, <2>3, FS_CardinalityType
<1>2. \A i : Before(items, i) = Cardinality(before(i)) /\ before(i) \in SUBSET P
  BY DEF Before
<1> HIDE DEF P
<1>3. \A i \in P : i \notin before(i)
  BY <1>1
<1>4. ASSUME NEW i \in P, NEW j \in P, i < j
      PROVE  before(i) \in SUBSET before(j) /\ i \in before(j)
  <2>1. \A k \in P : k < i => k < j
    BY <1>1, <1>4
  <2> QED BY <1>4, <2>1
<1> HIDE DEF before
<1>5. \A i : IsFiniteSet(before(i)) /\ Cardinality(before(i)) \in Nat
  BY <1>1, <1>2, FS_Subset, FS_CardinalityType
<1>6. \A i \in P : Cardinality(before(i)) < N
  <2> SUFFICES ASSUME NEW i \in P PROVE Cardinality(before(i)) < N
    OBVIOUS
  <2>1. Cardinality(before(i)) <= N /\ (N = Cardinality(before(i)) => P = before(i))
    BY <1>1, <1>2, FS_Subset
  <2> QED BY <1>1, <1>3, <1>5, <2>1
<1>7. ASSUME NEW i \in P, NEW j \in P, i < j PROVE place(i) < place(j)
  <2>1. before(i) \in SUBSET before(j) /\ i \in before(j) /\ i \notin before(i)
    BY <1>3, <1>4, <1>7
  <2>2. /\ Cardinality(before(i)) <= Cardinality(before(j))
        /\ Cardinality(before(j)) = Cardinality(before(i)) => before(j) = before(i)
    BY <1>5, <2>1, FS_Subset
  <2> QED BY <1>2, <1>5, <2>1, <2>2
<1>8. \A i \in P : place(i) \in 1..N
  <2> SUFFICES ASSUME NEW i \in P PROVE place(i) \in 1..N
    OBVIOUS
  <2>1. Before(items, i) \in Nat /\ Before(items, i) < N
    BY <1>2, <1>5, <1>6
  <2> QED BY <1>1, <2>1
<1> HIDE DEF place
<1>9. \A i, j \in P : place(i) = place(j) => i = j
  <2> SUFFICES ASSUME NEW i \in P, NEW j \in P, i # j PROVE place(i) # place(j)
    OBVIOUS
  <2>1. i < j \/ j < i
    BY <1>1
  <2>2. place(i) < place(j) \/ place(j) < place(i)
    BY <1>7, <2>1
  <2> QED BY <1>1, <1>8, <2>2
<1>10. \A n \in 1..N : \E i \in P : place(i) = n
  <2> DEFINE f == [i \in P |-> place(i)]
  <2>1. f \in Injection(P, 1..N)
    BY <1>8, <1>9 DEF Injection, IsInjective
  <2>2. IsFiniteSet(1..N) /\ Cardinality(1..N) = N
    BY <1>1, FS_Interval
  <2>3. f \in Surjection(P, 1..N)
    <3> HIDE DEF f
    <3> QED BY <1>1, <2>1, <2>2, FS_Injection
  <2> QED BY <2>3 DEF Surjection
<1>11. Included(items) = [n \in 1..N |-> CHOOSE i \in P : place(i) = n]
  BY DEF Included, P, place
<1>12. \A n \in 1..N : Included(items)[n] \in P /\ place(Included(items)[n]) = n
  BY <1>10, <1>11
<1>13. \A i \in P : place(i) \in 1..N /\ Included(items)[place(i)] = i
  BY <1>8, <1>9, <1>12
<1>14. DOMAIN Included(items) = 1..N
  BY <1>11
<1>15. \A i \in P : Before(items, i) \in Nat
  BY <1>2, <1>5
<1> QED BY <1>1, <1>12, <1>13, <1>14, <1>15 DEF P, place

\* The text between the frame is the list of what was found.
LEMMA FrameLemma ==
  ASSUME NEW N \in Nat, NEW s, DOMAIN s = 1..N, s = [n \in 1..N |-> s[n]],
         NEW r, r = <<"intent">> \o s \o <<"guidance">>
  PROVE  Len(r) = N + 2 /\ \A n \in 1..N : r[n + 1] = s[n]
<1> DEFINE V == {s[n] : n \in 1..N} \cup {"intent", "guidance"}
<1>1. s \in Seq(V) /\ Len(s) = N
  <2>1. s \in [1..N -> V]
    OBVIOUS
  <2> HIDE DEF V
  <2>2. s \in UNION {[1..n -> V] : n \in Nat}
    BY <2>1
  <2>3. s \in Seq(V)
    BY <2>2, SeqDef
  <2> QED BY <2>3, LenProperties
<1>2. <<"intent">> \in Seq(V) /\ <<"guidance">> \in Seq(V)
  OBVIOUS
<1> HIDE DEF V
<1>3. <<"intent">> \o s \in Seq(V) /\ Len(<<"intent">> \o s) = N + 1
      /\ \A n \in 1..N : (<<"intent">> \o s)[n + 1] = s[n]
  BY <1>1, <1>2
<1>4. Len(r) = N + 2 /\ \A n \in 1..(N + 1) : r[n] = (<<"intent">> \o s)[n]
  BY <1>2, <1>3
<1> QED BY <1>3, <1>4

\* Items with ids of their own find their own contents.
LEMMA FindsItsOwn ==
  ASSUME NEW items, NEW l \in Nat, DOMAIN items = 1..l,
         \A i, j \in DOMAIN items : i # j => items[i].id # items[j].id,
         NEW i \in Places(items), Resolved(items) # Nothing
  PROVE  FindContent(Resolved(items), items, i) = text[items[i].artifact]
<1> DEFINE s == Included(items)
           N == Cardinality(Places(items))
           c == Resolved(items)
           n == Before(items, i) + 1
<1>1. /\ N \in Nat /\ DOMAIN s = 1..N /\ n \in 1..N /\ s[n] = i
      /\ \A m \in 1..N : s[m] \in Places(items) /\ Before(items, s[m]) + 1 = m
  BY IncludedLemma
<1>2. c = [m \in DOMAIN s |-> [id |-> items[s[m]].id, text |-> text[items[s[m]].artifact]]]
  BY DEF Resolved
<1>3. \A m \in 1..N : c[m].id = items[i].id <=> m = n
  <2>1. \A m \in 1..N : c[m].id = items[s[m]].id
    BY <1>1, <1>2
  <2>2. \A m \in 1..N : s[m] \in DOMAIN items
    BY <1>1 DEF Places
  <2> QED BY <1>1, <2>1, <2>2
<1>4. DOMAIN c = 1..N /\ c[n].text = text[items[i].artifact]
  BY <1>1, <1>2
<1> HIDE DEF c, n, s, N
<1>5. \A k \in 1..(n - 1) : c[k].id # items[i].id
  BY <1>1, <1>3
<1>6. n = CHOOSE j \in DOMAIN c : c[j].id = items[i].id /\ \A k \in 1..(j - 1) : c[k].id # items[i].id
  BY <1>1, <1>3, <1>4, <1>5
<1> QED BY <1>4, <1>6 DEF FindContent, c

\* A render has what each included item stands for, at its place
\* (ResolveContextPackItemContents, ComposeContextPack), for any packs whose
\* items have ids of their own.
THEOREM RenderCorrect == PacksSpec => RenderIsExact
<1> DEFINE Exact ==
      RenderApprovedContextPack /\ rendered' # rendered =>
        LET items == pack.items
            OwnIds == \A i, j \in DOMAIN items : i # j => items[i].id # items[j].id
        IN OwnIds =>
             /\ Len(rendered') = Cardinality(Places(items)) + 2
             /\ \A i \in Places(items) : rendered'[Before(items, i) + 2] = text[items[i].artifact]
<1>1. PacksInit => PackInv
  BY DEF PacksInit, PackInv
<1>2. PackInv /\ [PacksNext]_packVars => PackInv'
  <2> SUFFICES ASSUME PackInv, [PacksNext]_packVars PROVE PackInv'
    OBVIOUS
  <2>1. CASE \E s \in Selections, approved \in BOOLEAN : SaveContextPack(s, approved)
    BY <2>1 DEF SaveContextPack, PackInv
  <2>2. CASE DeleteContextPack
    BY <2>2 DEF DeleteContextPack, PackInv
  <2>3. CASE UNCHANGED pack
    BY <2>3 DEF PackInv
  <2> QED BY <2>1, <2>2, <2>3 DEF PacksNext, packVars, RenderApprovedContextPack, SaveAgentRun,
             DeleteAgentRun, SaveResultReference, DeleteResultReference, EditPage, RemovePage
<1>3. ASSUME PackInv, RenderApprovedContextPack,
             \A i, j \in DOMAIN pack.items : i # j => pack.items[i].id # pack.items[j].id
      PROVE  /\ Len(rendered') = Cardinality(Places(pack.items)) + 2
             /\ \A i \in Places(pack.items) :
                  rendered'[Before(pack.items, i) + 2] = text[pack.items[i].artifact]
  <2> DEFINE items == pack.items
             N == Cardinality(Places(items))
             found == [n \in DOMAIN Included(items) |->
                         FindContent(Resolved(items), items, Included(items)[n])]
  <2>1. PICK l \in Nat : DOMAIN items = 1..l
    BY <1>3, PacksAssumption DEF PackInv, RenderApprovedContextPack
  <2>2. Resolved(items) # Nothing /\ rendered' = <<"intent">> \o found \o <<"guidance">>
    BY <1>3 DEF RenderApprovedContextPack, Composed
  <2>3. /\ N \in Nat /\ DOMAIN Included(items) = 1..N
        /\ \A i \in Places(items) : /\ Before(items, i) \in Nat /\ Before(items, i) + 1 \in 1..N
                                    /\ Included(items)[Before(items, i) + 1] = i
        /\ \A n \in 1..N : Included(items)[n] \in Places(items) /\ Before(items, Included(items)[n]) + 1 = n
    BY <2>1, IncludedLemma
  <2>4. DOMAIN found = 1..N /\ found = [n \in 1..N |-> found[n]]
    BY <2>3
  <2>5. ASSUME NEW i \in Places(items)
        PROVE  found[Before(items, i) + 1] = text[items[i].artifact]
    <3>1. found[Before(items, i) + 1] = FindContent(Resolved(items), items, i)
      BY <2>3
    <3> HIDE DEF items, found
    <3>2. FindContent(Resolved(items), items, i) = text[items[i].artifact]
      BY <1>3, <2>1, <2>2, FindsItsOwn DEF items
    <3> QED BY <3>1, <3>2
  <2> HIDE DEF found, items
  <2>6. Len(rendered') = N + 2 /\ \A n \in 1..N : rendered'[n + 1] = found[n]
    BY <2>2, <2>3, <2>4, FrameLemma
  <2>7. ASSUME NEW i \in Places(items) PROVE rendered'[Before(items, i) + 2] = text[items[i].artifact]
    <3> DEFINE n == Before(items, i) + 1
    <3>1. n \in 1..N /\ Before(items, i) \in Nat
      BY <2>3
    <3>2. rendered'[n + 1] = found[n]
      BY <2>6, <3>1
    <3>3. n + 1 = Before(items, i) + 2
      BY <3>1
    <3> QED BY <2>5, <3>2, <3>3
  <2> QED BY <2>6, <2>7 DEF items
<1>4. PackInv /\ [PacksNext]_packVars => [Exact]_packVars
  BY <1>3
<1> QED BY <1>1, <1>2, <1>4, PTL DEF PacksSpec, RenderIsExact
=============================================================================

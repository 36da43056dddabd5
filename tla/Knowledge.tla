------------------------------ MODULE Knowledge ------------------------------
(***************************************************************************)
(* Properties and relations of pages: the knowledge records of the         *)
(* repository (src/src/storage/cblite_document_repository.cc) with the     *)
(* rules of src/src/knowledge/knowledge_record.cc, the bridge's property   *)
(* slots and the properties a new page is given (editor_bridge.cc), and    *)
(* the strip that shows them (src/src/gui/properties_strip_widget.cc).     *)
(*                                                                         *)
(* A record is one document of Couchbase Lite, in the collection that is   *)
(* replicated or in the one that is not.  The repository is used by the    *)
(* GUI thread only, and a slot runs to its end: one step.  Any save or     *)
(* delete in it may meet an error (counted in faults).  Other desktops     *)
(* change the replicated collection between two steps.  One workspace;     *)
(* names, audit fields and the spelling of values are left out, and so are *)
(* checks that only they can fail.                                         *)
(***************************************************************************)
EXTENDS Naturals, Sequences, FiniteSets, Functions

CONSTANTS
  Pages,      \* ids of pages
  PageKinds,  \* kinds of pages
  DefaultPropertySpecs, \* kind -> <<[name, options, value]>>, what a new page gets
  Catalogue,  \* [name, options] a user gives a property; no options: a text
  Answers,    \* values of a property
  Directions, \* "directed", "symmetric"
  Later(_, _), \* the order of page ids
  OldPages,   \* the pages there may be before the first property
  NoKind,     \* the page does not exist
  MaxIds,     \* bound on records ever made
  MaxChanges, \* bound on steps
  MaxErrors   \* bound on storage errors

VARIABLES
  pages,      \* page -> its kind, or NoKind
  db,         \* [synced, local]: the records of the two collections
  mapped,     \* the workspace is in synced_workspace_ids_
  unreadable, \* record types one of whose records does not parse
  fresh,      \* the next id
  changes, errors

knowledgeVars == <<pages, db, mapped, unreadable, fresh, changes, errors>>

RecordTypes == {"definition", "value", "type", "relation"}

Specs == UNION {Range(DefaultPropertySpecs[k]) : k \in PageKinds}

\* The default of a property is one of its options.
ASSUME KnowledgeAssumption ==
  /\ OldPages \subseteq [Pages -> PageKinds \cup {NoKind}]
  /\ \A k \in PageKinds : DefaultPropertySpecs[k] \in Seq(Specs)
  /\ \A spec \in Specs : spec.options # {} => spec.value \in spec.options
  /\ MaxIds \in Nat /\ MaxErrors \in Nat /\ MaxChanges \in Nat

NoKnowledge ==
  /\ db = [synced |-> {}, local |-> {}]
  /\ unreadable = {} /\ fresh = 1 /\ changes = 0 /\ errors = 0
KnowledgeInit ==
  NoKnowledge /\ mapped \in BOOLEAN /\ pages \in OldPages

-----------------------------------------------------------------------------
(* The records of one workspace in the two collections.                     *)

Has(S, id) == \E r \in S : r.id = id
Without(S, id) == {r \in S : r.id # id}

\* Mutant: the collection follows from the workspace alone.
UseSynced_Mapped(c, id) == mapped

\* Where a record lives, or will: it stays local if it was saved before the
\* workspace was synchronised.  The promotion of pages leaves it alone.
UseSynced(c, id) == Has(c.synced, id) \/ (~Has(c.local, id) /\ mapped)

\* SaveKnowledgeRaw.
SaveKnowledgeRaw(c, r) ==
  IF UseSynced(c, r.id)
  THEN [synced |-> Without(c.synced, r.id) \cup {r}, local |-> Without(c.local, r.id)]
  ELSE [c EXCEPT !.local = Without(@, r.id) \cup {r}]

\* It fails: before the record is written, or before the other copy is gone.
FailedSaves(c, r) ==
  {c} \cup {[c EXCEPT !.synced = Without(@, r.id) \cup {r}] :
              x \in {x \in c.local : x.id = r.id /\ UseSynced(c, r.id)}}

\* DeleteKnowledgeRaw.
DeleteKnowledgeRaw(c, id) ==
  [synced |-> Without(c.synced, id), local |-> Without(c.local, id)]
FailedDeletes(c, id) == {c, [c EXCEPT !.synced = Without(@, id)]} \ {DeleteKnowledgeRaw(c, id)}

\* ListKnowledgeRaw: the replicated copy of a record hides the local one.
ListKnowledgeRaw(c, t) ==
  LET Of(S) == {r \in S : r.id[1] = t} IN
  Of(c.synced) \cup {r \in Of(c.local) : ~Has(c.synced, r.id)}

\* ParseKnowledgeRecords: one record that does not parse fails every listing of
\* its type, in all workspaces.
Lists(t) == t \notin unreadable

DefinitionsIn(c) == ListKnowledgeRaw(c, "definition")
ValuesOf(c, d) == {v \in ListKnowledgeRaw(c, "value") : v.page = d}

\* Mutant: only the relations a page is the source of.
RelationsOf_Outgoing(c, d) == {e \in ListKnowledgeRaw(c, "relation") : e.source = d}

RelationsOf(c, d) == {e \in ListKnowledgeRaw(c, "relation") : d \in {e.source, e.target}}

\* ValidatePagePropertyValue and the look-up before it.  A retired definition is
\* as good as an active one.
ValidValue(c, v) ==
  /\ Lists("definition")
  /\ \E p \in DefinitionsIn(c) : p.id = v.of /\ (p.options # {} => v.val \in p.options)

\* NormalizeAndValidatePageRelation.
Normalized(c, e) ==
  LET type == CHOOSE t \in ListKnowledgeRaw(c, "type") : t.id = e.of IN
  IF type.direction = "symmetric" /\ Later(e.source, e.target)
  THEN [e EXCEPT !.source = e.target, !.target = e.source] ELSE e
ValidRelation(c, e) ==
  Lists("type") /\ Has(ListKnowledgeRaw(c, "type"), e.of) /\ e.source # e.target

-----------------------------------------------------------------------------
(* Slots of the bridge and operations of the repository.                    *)

Step == changes' = changes + 1
Takes(n) == fresh + n - 1 <= MaxIds /\ fresh' = fresh + n
Id(t) == <<t, fresh>>

Write(r) ==
  \/ db' = SaveKnowledgeRaw(db, r) /\ UNCHANGED errors
  \/ errors < MaxErrors /\ errors' = errors + 1 /\ db' \in FailedSaves(db, r)

\* The id is given by the caller, who has seen the record, or a new one.
Save(t, id, r) ==
  /\ Step
  /\ \/ id = Id(t) /\ Takes(1)
     \/ id[2] < fresh /\ UNCHANGED fresh
  /\ Write(r)
  /\ UNCHANGED <<pages, mapped, unreadable>>

RecordIds(t) == {t} \X (1..MaxIds)

\* savePropertyDefinition; an id that is not listed any more is saved all the same.
SaveDefinition(id, p, active) ==
  /\ id # Id("definition") => Lists("definition")
  /\ Save("definition", id, [id |-> id, name |-> p.name, options |-> p.options, active |-> active])

RetirePropertyDefinition(r) ==
  /\ Lists("definition") /\ r \in DefinitionsIn(db)
  /\ Save("definition", r.id, [r EXCEPT !.active = FALSE])

\* savePagePropertyValue: nothing looks for the page, or for another value of
\* the same property.
SaveValue(id, d, p, val) ==
  LET v == [id |-> id, page |-> d, of |-> p, val |-> val] IN
  /\ id # Id("value") => Lists("value")
  /\ ValidValue(db, v) /\ Save("value", id, v)

SaveType(id, direction) ==
  Save("type", id, [id |-> id, direction |-> direction])

SaveRelation(id, t, d, e) ==
  LET r == [id |-> id, of |-> t, source |-> d, target |-> e] IN
  /\ ValidRelation(db, r) /\ Save("relation", id, Normalized(db, r))

\* deletePagePropertyValue and the deletes of the repository.
DeleteRecord(id) ==
  /\ Step
  /\ Has(db.synced, id) \/ Has(db.local, id)
  /\ \/ db' = DeleteKnowledgeRaw(db, id) /\ UNCHANGED errors
     \/ errors < MaxErrors /\ errors' = errors + 1 /\ db' \in FailedDeletes(db, id)
  /\ UNCHANGED <<pages, mapped, unreadable, fresh>>

-----------------------------------------------------------------------------
(* Pages.                                                                   *)

\* Mutant: a definition of the same name will do.
Reusable_ByName(existing, spec) == {p \in existing : p.active /\ p.name = spec.name}

Reusable(existing, spec) ==
  {p \in existing : p.active /\ p.name = spec.name /\ p.options = spec.options}

\* One turn of SeedDefaultPropertiesForNewDocument: a definition, listed before
\* the first turn or new, and a value of it.  Each error is logged and skips the rest of the turn.
Seed(x, d, spec, existing) ==
  LET new == [id |-> <<"definition", x.fresh>>, name |-> spec.name,
              options |-> spec.options, active |-> TRUE]
      ValueOf(y, p) == [id |-> <<"value", y.fresh>>, page |-> d, of |-> p.id, val |-> spec.value]
      Failed(y, r) == {[y EXCEPT !.db = c, !.errors = @ + 1] : c \in FailedSaves(y.db, r)}
      WithDefinition ==
        IF Reusable(existing, spec) # {} THEN {<<x, p>> : p \in Reusable(existing, spec)}
        ELSE {<<[x EXCEPT !.db = SaveKnowledgeRaw(@, new), !.fresh = @ + 1], new>>}
      Valued(y, p) ==
        IF ~ValidValue(y.db, ValueOf(y, p)) THEN {y}
        ELSE {[y EXCEPT !.db = SaveKnowledgeRaw(@, ValueOf(y, p)), !.fresh = @ + 1]}
             \cup Failed(y, ValueOf(y, p))
  IN (IF Reusable(existing, spec) = {} THEN Failed(x, new) ELSE {})
     \cup UNION {Valued(w[1], w[2]) : w \in WithDefinition}

\* Every turn, one after the other.
Seeded(d, k) ==
  LET specs == DefaultPropertySpecs[k]
      existing == IF Lists("definition") THEN DefinitionsIn(db) ELSE {}
      after[n \in 0..Len(specs)] ==
        IF n = 0 THEN {[db |-> db, fresh |-> fresh, errors |-> errors]}
        ELSE UNION {Seed(x, d, specs[n], existing) : x \in after[n - 1]}
  IN {x \in after[Len(specs)] : x.errors <= MaxErrors /\ x.fresh <= MaxIds + 1}

\* createDocument: the page, then its properties.
CreatePage(d, k) ==
  /\ Step /\ pages[d] = NoKind
  /\ pages' = [pages EXCEPT ![d] = k]
  /\ \E x \in Seeded(d, k) : db' = x.db /\ fresh' = x.fresh /\ errors' = x.errors
  /\ UNCHANGED <<mapped, unreadable>>

AllBut(c, S) ==
  [synced |-> {r \in c.synced : r.id \notin S}, local |-> {r \in c.local : r.id \notin S}]
IdsOf(S) == {r.id : r \in S}

\* DeleteKnowledgeForPage: the values, then the relations, until one is not deleted.
\* An error leaves the page where it is.
DeletePage(d) ==
  LET values == IdsOf(ValuesOf(db, d))
      relations == IdsOf(RelationsOf(db, d))
  IN
  /\ Step /\ pages[d] # NoKind
  /\ \/ /\ ~Lists("value") /\ UNCHANGED <<db, pages, errors>>
     \/ /\ Lists("value") /\ ~Lists("relation")
        /\ db' = AllBut(db, values) /\ UNCHANGED <<pages, errors>>
     \/ /\ Lists("value") /\ Lists("relation")
        /\ db' = AllBut(db, values \cup relations)
        /\ pages' = [pages EXCEPT ![d] = NoKind] /\ UNCHANGED errors
     \/ /\ Lists("value") /\ errors < MaxErrors
        /\ \E S \in SUBSET (values \cup relations) :
             /\ S \cap relations # {} => values \subseteq S /\ Lists("relation")
             /\ db' \in {AllBut(db, S)} \cup
                  UNION {FailedDeletes(AllBut(db, S), id) : id \in (values \cup relations) \ S}
        /\ errors' = errors + 1 /\ UNCHANGED pages
  /\ UNCHANGED <<mapped, unreadable, fresh>>

-----------------------------------------------------------------------------
(* Other desktops, and the bootstrap of the sync service.                   *)

Bootstrap ==
  /\ Step /\ mapped' = ~mapped
  /\ UNCHANGED <<pages, db, unreadable, fresh, errors>>

Pulled(S) == Step /\ db' = [db EXCEPT !.synced = S] /\ UNCHANGED <<mapped, unreadable, errors>>

\* A record made, or changed, elsewhere; also one this desktop holds locally,
\* where both have read the same backup.  Nothing orders it after what it
\* refers to.
ReplicatedPut(r) ==
  /\ r.id[1] \in {"value", "relation"} => r.of[2] <= fresh
  /\ Pulled(Without(db.synced, r.id) \cup {r})
  /\ \/ r.id[2] = fresh /\ Takes(1)
     \/ Has(db.synced \cup db.local, r.id) /\ UNCHANGED fresh
  /\ UNCHANGED pages

ReplicatedRemoval(id) ==
  Has(db.synced, id) /\ Pulled(Without(db.synced, id)) /\ UNCHANGED <<pages, fresh>>

\* A record of another version of the program.
ReplicatedUnreadable(t) ==
  /\ Step /\ unreadable' = {t} \ unreadable
  /\ UNCHANGED <<pages, db, mapped, fresh, errors>>

ReplicatedPage(d, k) ==
  Pulled(db.synced) /\ pages' = [pages EXCEPT ![d] = k] /\ pages' # pages /\ UNCHANGED fresh

DefinitionRecord ==
  {[id |-> i, name |-> p.name, options |-> p.options, active |-> a] :
     i \in RecordIds("definition"), p \in Catalogue, a \in BOOLEAN}
ValueRecord ==
  [id : RecordIds("value"), page : Pages, of : RecordIds("definition"), val : Answers]
RelationRecord ==
  {r \in [id : RecordIds("relation"), of : RecordIds("type"), source : Pages, target : Pages] :
     r.source # r.target}
TypeRecord == [id : RecordIds("type"), direction : Directions]
KnowledgeRecord == DefinitionRecord \cup ValueRecord \cup TypeRecord \cup RelationRecord

LocalKnowledge ==
  \/ \E i \in RecordIds("definition"), p \in Catalogue, a \in BOOLEAN : SaveDefinition(i, p, a)
  \/ \E r \in DefinitionsIn(db) : RetirePropertyDefinition(r)
  \/ \E i \in RecordIds("value"), p \in RecordIds("definition"), d \in Pages, a \in Answers : SaveValue(i, d, p, a)
  \/ \E i \in RecordIds("type"), direction \in Directions : SaveType(i, direction)
  \/ \E i \in RecordIds("relation"), t \in RecordIds("type"), d, e \in Pages : SaveRelation(i, t, d, e)
  \/ \E t \in RecordTypes : \E i \in RecordIds(t) : DeleteRecord(i)
  \/ \E d \in Pages : DeletePage(d) \/ \E k \in PageKinds : CreatePage(d, k)
RemoteKnowledge ==
  \/ Bootstrap
  \/ \E r \in KnowledgeRecord : ReplicatedPut(r)
  \/ \E t \in RecordTypes : ReplicatedUnreadable(t) \/ \E i \in RecordIds(t) : ReplicatedRemoval(i)
  \/ \E d \in Pages, k \in PageKinds \cup {NoKind} : ReplicatedPage(d, k)
KnowledgeNext == changes < MaxChanges /\ (LocalKnowledge \/ RemoteKnowledge)
KnowledgeSpec == KnowledgeInit /\ [][KnowledgeNext]_knowledgeVars

-----------------------------------------------------------------------------
(* What must hold.                                                          *)

AnyId(t) == {t} \X Nat
Properties == Catalogue \cup Specs
StoredRecord ==
  [id : AnyId("definition"), name : {p.name : p \in Properties},
   options : {p.options : p \in Properties}, active : BOOLEAN]
  \cup [id : AnyId("value"), page : Pages, of : AnyId("definition"),
        val : Answers \cup {p.value : p \in Specs}]
  \cup [id : AnyId("type"), direction : Directions]
  \cup [id : AnyId("relation"), of : AnyId("type"), source : Pages, target : Pages]

\* Types; every id was given by the counter.
KnowledgeTypeOK ==
  /\ pages \in [Pages -> PageKinds \cup {NoKind}]
  /\ db \in [synced : SUBSET StoredRecord, local : SUBSET StoredRecord]
  /\ mapped \in BOOLEAN /\ unreadable \subseteq RecordTypes
  /\ fresh \in 1..(MaxIds + 1) /\ errors \in 0..MaxErrors /\ changes \in 0..MaxChanges
  /\ \A r \in db.synced \cup db.local : r.id[2] < fresh

\* The properties the strip may show for a page (PropertiesStripWidget::Rebuild):
\* of several values of one property it shows one.
Chips(c, d) ==
  IF ~Lists("definition") \/ ~Lists("value") THEN {}
  ELSE {w \in {p \in DefinitionsIn(c) : p.active} \X ValuesOf(c, d) : w[2].of = w[1].id}

Reads == Lists("definition") /\ Lists("value")

\* A page that is created without an error shows all the properties of its kind
\* with their default values, whatever the users of this and of other desktops
\* have made of the definitions: one is reused only if it offers the same
\* options (SeedDefaultPropertiesForNewDocument).
SeededIsShown ==
  [][\A d \in Pages, k \in PageKinds :
       pages[d] = NoKind /\ pages'[d] = k /\ errors' = errors /\ Reads /\ CreatePage(d, k) =>
         \A n \in DOMAIN DefaultPropertySpecs[k] :
           LET spec == DefaultPropertySpecs[k][n] IN
           \E w \in Chips(db', d) : /\ w[1].name = spec.name /\ w[1].options = spec.options
                                    /\ w[2].val = spec.value]_knowledgeVars

\* A page that this desktop has deleted has left no value and no relation, at
\* either end, that anybody lists; a deletion that fails half-way keeps the page
\* (DeleteKnowledgeForPage, DeleteDocument).
PageLeavesNothing ==
  [][\A d \in Pages : pages[d] # NoKind /\ pages'[d] = NoKind /\ DeletePage(d) =>
       /\ \A v \in ListKnowledgeRaw(db', "value") : v.page # d
       /\ \A e \in ListKnowledgeRaw(db', "relation") : d \notin {e.source, e.target}]_knowledgeVars

\* Whatever other desktops have put over a record and wherever the workspace
\* belongs by then, what this desktop saves is what it lists from then on, and
\* what it deletes it lists no more (SaveKnowledgeRaw, DeleteKnowledgeRaw).
LastWordIsListed ==
  [][errors' = errors =>
       /\ \A r \in db'.local \ db.local : ~Has(db'.synced, r.id)
       /\ \A i \in IdsOf(db.synced \cup db.local) :
            DeleteRecord(i) => ~Has(ListKnowledgeRaw(db', i[1]), i)]_knowledgeVars

\* "Retired definitions cannot be newly assigned".  The code does not keep it.
RetiredIsNotAssigned ==
  [][\A i \in RecordIds("value"), p \in RecordIds("definition"), d \in Pages, a \in Answers :
       i = Id("value") /\ SaveValue(i, d, p, a) =>
         \E r \in DefinitionsIn(db) : r.id = p /\ r.active]_knowledgeVars

\* "There is at most one live value per (workspace_id, page_id,
\* property_definition_id)".  The code does not keep it.
OneValuePerProperty ==
  \A d \in Pages, v, x \in ListKnowledgeRaw(db, "value") :
    v.page = d /\ x.page = d /\ v.of = x.of => v = x

\* A value that is replicated has its definition replicated.  The code does not
\* keep it: a record saved before the workspace was synchronised stays local.
SharedIsClosed ==
  [][\A i \in RecordIds("value"), p \in RecordIds("definition"), d \in Pages, a \in Answers :
       SaveValue(i, d, p, a) /\ Has(db'.synced, i) => Has(db'.synced, p)]_knowledgeVars
=============================================================================

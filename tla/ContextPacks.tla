---------------------------- MODULE ContextPacks ----------------------------
(***************************************************************************)
(* The package of pages an agent run is given: a context pack, the text it *)
(* is rendered into and the runs that cite it                               *)
(* (src/src/knowledge/context_pack_{resolver,composer,render}.cc, the       *)
(* validators of knowledge_record.cc and the save and delete operations of  *)
(* cblite_document_repository.cc).                                          *)
(*                                                                         *)
(* One task with one pack, and one run.  A call runs to its end on the GUI  *)
(* thread; pages are edited between two calls, here or elsewhere.  The text *)
(* of a page is a version number.                                           *)
(***************************************************************************)
EXTENDS Naturals, FiniteSets, Sequences

CONSTANTS
  PackPages, \* pages
  Gone,      \* a page that does not load
  NoPage,    \* an artifact that is not a page
  Selections, \* sequences of items: [id, relation, artifact, included]
  Statuses,  \* of an agent run
  Nothing,   \* no pack, no text, no run
  MaxText    \* bound on edits of a page

ASSUME PacksAssumption == \A s \in Selections : Len(s) \in Nat /\ DOMAIN s = 1..Len(s)

VARIABLES
  text,     \* page -> the version of its text, or Gone
  pack,     \* the pack stored, or Nothing
  rendered, \* the last text it was rendered into, or Nothing
  run,      \* the agent run: the text its context_pack_ref stood for, its status
  result    \* a result reference of the run is stored

packVars == <<text, pack, rendered, run, result>>

PacksInit ==
  /\ text = [d \in PackPages |-> 1]
  /\ pack = Nothing /\ rendered = Nothing /\ run = Nothing /\ result = FALSE

-----------------------------------------------------------------------------
(* Packs.                                                                   *)

\* ValidateContextPack.  The ids of items need not differ.
ValidPack(items, approved) ==
  /\ items # <<>>
  /\ \A i, j \in DOMAIN items : i # j => items[i].relation # items[j].relation
  /\ approved => \E i \in DOMAIN items : items[i].included

\* Where the items that are included stand, and how many of them stand before i.
Places(items) == {i \in DOMAIN items : items[i].included}
Before(items, i) == Cardinality({j \in Places(items) : j < i})

\* The places in their order: n - 1 of them stand before the n-th.
Included(items) ==
  [n \in 1..Cardinality(Places(items)) |-> CHOOSE i \in Places(items) : Before(items, i) + 1 = n]

\* ResolveContextPackItemContents: the text of each item that is included, or
\* Nothing.
Resolved(items) ==
  LET item(n) == items[Included(items)[n]] IN
  IF \A i \in Places(items) : items[i].artifact \in PackPages /\ text[items[i].artifact] # Gone
  THEN [n \in DOMAIN Included(items) |-> [id |-> item(n).id, text |-> text[item(n).artifact]]]
  ELSE Nothing

\* Mutant: the content at the place the item has in the pack.
FindContent_ByPlace(contents, items, i) ==
  IF i \in DOMAIN contents THEN contents[i].text ELSE 0

\* The first content of that id.
FindContent(contents, items, i) ==
  contents[CHOOSE j \in DOMAIN contents :
             /\ contents[j].id = items[i].id
             /\ \A k \in 1..(j - 1) : contents[k].id # items[i].id].text

\* ComposeContextPack: task intent, contents in the order of the items, guidance.
\* The contents come from the items, so none is missing.
Composed(items, contents) ==
  LET found == [n \in DOMAIN Included(items) |-> FindContent(contents, items, Included(items)[n])]
  IN <<"intent">> \o found \o <<"guidance">>

\* SaveContextPack: whatever was stored, approved or not.
SaveContextPack(items, approved) ==
  /\ ValidPack(items, approved)
  /\ pack' = [items |-> items, approved |-> approved]
  /\ UNCHANGED <<text, rendered, run, result>>

DeleteContextPack ==
  /\ pack # Nothing /\ pack' = Nothing
  /\ UNCHANGED <<text, rendered, run, result>>

\* RenderApprovedContextPack; it changes no record.  The version of the
\* composition is always 1.0.
RenderApprovedContextPack ==
  /\ pack # Nothing /\ pack.approved
  /\ Resolved(pack.items) # Nothing
  /\ rendered' = Composed(pack.items, Resolved(pack.items))
  /\ UNCHANGED <<text, pack, run, result>>

-----------------------------------------------------------------------------
(* Runs, results, pages.                                                    *)

\* SaveAgentRun by a caller that has the reference the render has returned.  The
\* repository compares nothing with the run that is stored.
SaveAgentRun(status) ==
  /\ rendered # Nothing
  /\ run' = [cites |-> IF run = Nothing THEN rendered ELSE run.cites, status |-> status]
  /\ UNCHANGED <<text, pack, rendered, result>>

\* DeleteAgentRun leaves its results.
DeleteAgentRun ==
  /\ run # Nothing /\ run' = Nothing
  /\ UNCHANGED <<text, pack, rendered, result>>

SaveResultReference ==
  /\ run # Nothing /\ result' = TRUE
  /\ UNCHANGED <<text, pack, rendered, run>>

DeleteResultReference ==
  /\ result /\ result' = FALSE
  /\ UNCHANGED <<text, pack, rendered, run>>

EditPage(d) ==
  /\ text[d] # Gone /\ text[d] < MaxText
  /\ text' = [text EXCEPT ![d] = @ + 1]
  /\ UNCHANGED <<pack, rendered, run, result>>

RemovePage(d) ==
  /\ text[d] # Gone /\ text' = [text EXCEPT ![d] = Gone]
  /\ UNCHANGED <<pack, rendered, run, result>>

PacksNext ==
  \/ \E s \in Selections, approved \in BOOLEAN : SaveContextPack(s, approved)
  \/ DeleteContextPack \/ RenderApprovedContextPack
  \/ \E status \in Statuses : SaveAgentRun(status)
  \/ DeleteAgentRun \/ SaveResultReference \/ DeleteResultReference
  \/ \E d \in PackPages : EditPage(d) \/ RemovePage(d)

PacksSpec == PacksInit /\ [][PacksNext]_packVars

-----------------------------------------------------------------------------
(* What must hold.                                                          *)

\* A pack that is rendered has the text of every page it includes, in the order
\* of its items, and of no page it leaves out, whatever was saved over it and
\* edited in between - if its items have ids of their own, which nothing checks
\* ("each included item's resolved content (in pack.items order)",
\* ComposeContextPack).
RenderIsExact ==
  [][RenderApprovedContextPack /\ rendered' # rendered =>
       LET items == pack.items
           OwnIds == \A i, j \in DOMAIN items : i # j => items[i].id # items[j].id
       IN OwnIds =>
            /\ Len(rendered') = Cardinality(Places(items)) + 2
            /\ \A i \in Places(items) :
                 rendered'[Before(items, i) + 2] = text[items[i].artifact]]_packVars

\* "the exact, immutable composition version this render produced"
\* (context_pack_render.h): a reference always stands for one text.  The code
\* does not keep it: a pack is rendered from the pages as they are, and can be
\* saved again, under the same reference.
RefIsImmutable ==
  [][RenderApprovedContextPack => rendered \in {Nothing, rendered'}]_packVars
=============================================================================

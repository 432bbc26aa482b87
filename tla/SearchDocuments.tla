---------------------------- MODULE SearchDocuments ----------------------------
(***************************************************************************)
(* The search store (projections/search.py): one document for each text    *)
(* and scope an identity has, one for each active edge, one for each       *)
(* mention.  A run of the builder upserts the mentions of the events it     *)
(* applies, from its checkpoint or, wiping, from the first, and rewrites   *)
(* the other families from the identity rows and from the edge store; the  *)
(* runs here end without a pause or an error, which ProjectionReplay has.  *)
(* EntityReads reads the same identity rows.                               *)
(*                                                                         *)
(* The vector side (projections/vector.py) is the disclosure of the        *)
(* backend: an index that probes for its extension once and remembers.     *)
(***************************************************************************)
EXTENDS EntityReads

CONSTANTS
  Facts,        \* fact ids of the edge store
  SubjectOf,    \* fact -> the ref of its subject
  FactTexts,    \* texts of an edge
  MentionEvents,  \* EntityMentioned events: [ref, source, text, entity]; the ref
                  \* is the mention id, or the source if there is none
  Near          \* pairs of texts whose trigrams are similar

VARIABLES
  facts,        \* fact -> [text, utterance] while its edge is active
  mentions,     \* the EntityMentioned events of the ledger, in their order
  applied,      \* checkpoint: how many of them are applied
  docs,         \* documents [family, ref, text, scope, entity]
  docsCurrent,  \* the last run of the builder saw the present rows
  extension,    \* the vector extension: "none" | "old" | "usable"
  probed,       \* what the index remembers of its probe: "no" | "active" | "inactive"
  disclosed     \* the last hybrid answer: [backend, searched]

searchVars == <<readVars, facts, mentions, applied, docs, docsCurrent, extension, probed,
                disclosed>>
storeVars == <<facts, mentions, applied, docs, docsCurrent>>
vectorVars == <<extension, probed, disclosed>>

SearchInit ==
  /\ ReadInit
  /\ facts = <<>> /\ mentions = <<>> /\ applied = 0
  /\ docs = {} /\ docsCurrent = FALSE
  /\ extension = "none" /\ probed = "no"
  /\ disclosed = [backend |-> "unavailable", searched |-> "nothing"]

-----------------------------------------------------------------------------
(* Documents of an identity. *)

\* Every source with every work; a dimension without values stays unknown.
Product(sources, works) ==
  IF sources = {} THEN {<<>>}
  ELSE IF works = {} THEN {<<s>> : s \in sources}
  ELSE {<<s, w>> : s \in sources, w \in works}

\* Mutant: the product of the dimensions, correlated or not.
ProductAlways(meta) == Product(Owned(meta, "source_ids"), Owned(meta, "work_ids"))
\* _scope_combos.
ScopeCombos(meta) ==
  IF Owned(meta, "tuples") # {} THEN Owned(meta, "tuples")
  ELSE Product(Owned(meta, "source_ids"), Owned(meta, "work_ids"))

IdentityDocs(r) ==
  {[family |-> "canonical", ref |-> r, text |-> t, scope |-> c, entity |-> r] :
     t \in {identityRows[r].label} \cup identityRows[r].aliases,
     c \in ScopeCombos(identityRows[r])}

\* An entity row is a document only while the ref has no identity row.
EntityRowDocs ==
  {[family |-> "canonical", ref |-> r, text |-> "entity", scope |-> <<>>, entity |-> r] :
     r \in entityRows \ DOMAIN identityRows}

EdgeDocs ==
  {[family |-> IF facts[f].utterance THEN "assert" ELSE "edge",
    ref |-> f, text |-> facts[f].text, scope |-> <<>>, entity |-> SubjectOf[f]] :
     f \in DOMAIN facts}

\* What finalize writes.
RowDocs == (UNION {IdentityDocs(r) : r \in DOMAIN identityRows}) \cup EntityRowDocs \cup EdgeDocs

MentionDoc(e) ==
  [family |-> "mention", ref |-> e.ref, text |-> e.text, scope |-> <<e.source>>,
   entity |-> e.entity]

\* The upserts of the events from + 1 .. to, and of the last of each ref what is
\* there in the end; one without a text writes nothing.
Upserts(from, to) == {i \in from + 1..to : mentions[i].text # ""}
Written(from, to) ==
  {MentionDoc(mentions[i]) :
     i \in {i \in Upserts(from, to) :
             \A j \in Upserts(i, to) : mentions[j].ref # mentions[i].ref}}

\* A run of the builder.  Without an event behind its checkpoint a new driver
\* saves 0.
SearchRun(wipe) ==
  LET from == IF wipe THEN 0 ELSE applied
      tail == Len(mentions)
      kept == {d \in docs : /\ ~wipe /\ d.family = "mention"
                            /\ \A i \in Upserts(from, tail) : mentions[i].ref # d.ref}
  IN  /\ docs' = kept \cup Written(from, tail) \cup RowDocs
      /\ applied' \in {tail} \cup (IF from = tail THEN {0} ELSE {})
      /\ docsCurrent' = TRUE
      /\ UNCHANGED <<readVars, facts, mentions, vectorVars>>

-----------------------------------------------------------------------------
(* The rows the builder reads change under it. *)

RowsChange ==
  /\ \/ \E r \in EntityRefs, meta \in Metas : EstablishRow(r, meta)
     \/ \E r \in EntityRefs : InvalidateRow(r) \/ EntityRowWritten(r)
  /\ docsCurrent' = FALSE
  /\ UNCHANGED <<facts, mentions, applied, docs, vectorVars>>

\* A correction may turn an utterance into another fact, and back.
FactChanges(f) ==
  /\ RowsMay
  /\ \/ \E t \in FactTexts, u \in BOOLEAN :
          facts' = [x \in DOMAIN facts \cup {f} |->
                      IF x = f THEN [text |-> t, utterance |-> u] ELSE facts[x]]
     \/ /\ f \in DOMAIN facts
        /\ facts' = [x \in DOMAIN facts \ {f} |-> facts[x]]
  /\ docsCurrent' = FALSE
  /\ UNCHANGED <<identityRows, entityRows, walker, steady, came, went, mentions, applied,
                 docs, vectorVars>>

MentionRecorded(e) ==
  /\ RowsMay
  /\ mentions' = Append(mentions, e)
  /\ docsCurrent' = FALSE
  /\ UNCHANGED <<identityRows, entityRows, walker, steady, came, went, facts, applied,
                 docs, vectorVars>>

-----------------------------------------------------------------------------
(* Searching. *)

TextMatches(engine, query, text) ==
  query = text \/ (engine = "fuzzy" /\ <<query, text>> \in Near)

Found(engine, query, scope) ==
  {d \in docs : TextMatches(engine, query, d.text) /\ TupleMatches(d.scope, scope)}

\* PgHNSWIndex.active, which probes once.
ProbeResult == IF extension = "usable" THEN "active" ELSE "inactive"
Remembered == IF probed = "no" THEN ProbeResult ELSE probed

\* hybrid: the search itself probes again, and its failure is swallowed; the
\* name of the backend is that of the first probe.
HybridBackend ==
  IF ProbeResult = "inactive" THEN "unavailable"
  ELSE IF Remembered = "active" THEN "pgvector-hnsw-active" ELSE "exact-fallback-active"

HybridSearch ==
  /\ probed' = Remembered
  /\ disclosed' = [backend |-> HybridBackend,
                   searched |-> IF ProbeResult = "active" THEN "vectors" ELSE "nothing"]
  /\ UNCHANGED <<readVars, storeVars, extension>>

\* External: an operator installs, upgrades or drops the extension.
ExtensionChanges ==
  /\ \E e \in {"none", "old", "usable"} \ {extension} : extension' = e
  /\ UNCHANGED <<readVars, storeVars, probed, disclosed>>

StoreNext ==
  \/ RowsChange
  \/ \E wipe \in BOOLEAN : SearchRun(wipe)
  \/ \E f \in Facts : FactChanges(f)
  \/ \E e \in MentionEvents : MentionRecorded(e)

VectorNext == HybridSearch \/ ExtensionChanges

SearchNext == StoreNext \/ VectorNext

SearchSpec == SearchInit /\ [][SearchNext]_searchVars

-----------------------------------------------------------------------------
\* The rows a scoped read selects and a scoped search finds: SQL selects, but for
\* an empty list of tuples, where search falls back to the arrays as Python does.
SearchScope(meta, scope) ==
  IF NoTuplesListed(meta) THEN InMembershipScope(meta, scope) ELSE SqlScope(meta, scope)

\* A scoped search for the label of an identity and the scoped read of the
\* entities agree on whether it belongs there, once the builder has run: the
\* documents of a scope are written from the memberships the read selects by.
\* (An identity with works but no source has one document without a scope.)
ScopedSearchAgrees ==
  docsCurrent =>
    \A r \in DOMAIN identityRows, scope \in ReadScopes :
      LET row == identityRows[r]
      IN  row.active /\ (Owned(row, "tuples") # {} \/ Owned(row, "source_ids") # {}) =>
            ((\E d \in Found("exact", row.label, scope) : d.family = "canonical" /\ d.entity = r)
               <=> SearchScope(row, scope))

\* After a run no search, exact or fuzzy, returns a text that was corrected or
\* superseded: what it finds is on an identity row or on an active edge now, is
\* the value of an entity row whose ref has no identity row, or is what the last
\* event of a mention says, however the runs and their checkpoints were cut.
NothingStaleSearchable ==
  docsCurrent =>
    \A engine \in {"exact", "fuzzy"}, q \in FactTexts :
      \A d \in Found(engine, q, <<>>) :
        \/ /\ d.family \in {"edge", "assert"}
           /\ d.ref \in DOMAIN facts /\ facts[d.ref].text = d.text
        \/ /\ d.family = "canonical" /\ d.entity \in DOMAIN identityRows
           /\ d.text \in {identityRows[d.entity].label} \cup identityRows[d.entity].aliases
        \/ /\ d.family = "canonical" /\ d.text = "entity"
           /\ d.entity \in entityRows \ DOMAIN identityRows
        \/ /\ d.family = "mention"
           /\ \E i \in Upserts(0, Len(mentions)) :
                /\ d = MentionDoc(mentions[i])
                /\ \A j \in Upserts(i, Len(mentions)) : mentions[j].ref # d.ref

\* A hybrid answer names a vector backend exactly when vectors were searched.
\* Which one it names is what the index remembers of its first probe: pgvector
\* never answers under its name unless that probe passed, and is called the
\* fallback only if it did not.
BackendDisclosedHonestly ==
  /\ disclosed.backend # "unavailable" <=> disclosed.searched = "vectors"
  /\ disclosed.backend = "pgvector-hnsw-active" => probed = "active"
  /\ disclosed.backend = "exact-fallback-active" => probed = "inactive"

\* Search answers from the rows and the last mention events: in the scopes they
\* were seen in, without text that was replaced, and naming a vector backend
\* when one answered.
SearchFollowsRows ==
    /\ ScopedSearchAgrees
    /\ NothingStaleSearchable
    /\ BackendDisclosedHonestly
==============================================================================

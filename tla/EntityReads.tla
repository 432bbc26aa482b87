------------------------------ MODULE EntityReads ------------------------------
(***************************************************************************)
(* ENTITY reads (projections/query.py) behind GET /v1/entities: a client   *)
(* walks the pages by cursor while identities are established, invalidated *)
(* and merged.  A page is three transactions: the refs of the page, their  *)
(* rows, and the total the next cursor depends on.                         *)
(*                                                                         *)
(* Refs are numbers, in the order of entity_ref.  A scope names values of  *)
(* some dimensions (1 source, 2 work); a membership tuple has one of each. *)
(* The memberships of an identity are a dictionary of lists: its keys are   *)
(* the domain, and a list that is absent is not one that is empty.          *)
(***************************************************************************)
EXTENDS Integers, Sequences, FiniteSets, SequencesExt

CONSTANTS
  EntityRefs,     \* canonical refs, numbers
  Metas,          \* what an ESTABLISH may carry:
                  \* [label, aliases, memberships, active |-> TRUE]
  ReadScopes,     \* scopes a client may ask for: functions on a set of dims
  PageLimit,      \* limit of a page
  MaxReadChanges  \* bound: changes of the rows

ASSUME ScopesNameDims == \A scope \in ReadScopes : DOMAIN scope \subseteq {1, 2}
ASSUME RefsAreOrdered == EntityRefs \subseteq Nat /\ IsFiniteSet(EntityRefs)
ASSUME PagesHaveRoom == PageLimit \in Nat \ {0}

VARIABLES
  identityRows,   \* ref -> a meta; active: not invalidated
  entityRows,     \* refs with a CANONICAL_ENTITY row
  walker,         \* the client: [pc, scope, offset, refs, items, total]
  steady,         \* history: listed since the walk began
  came, went,     \* history: a ref entered / left the listing during the walk
  readChanges

readVars == <<identityRows, entityRows, walker, steady, came, went, readChanges>>

NoWalk == [pc |-> "idle", scope |-> <<>>, offset |-> 0, refs |-> <<>>,
           items |-> <<>>, total |-> 0]

ReadInit ==
  /\ identityRows = <<>> /\ entityRows = {} /\ walker = NoWalk
  /\ steady = {} /\ came = FALSE /\ went = FALSE /\ readChanges = 0

-----------------------------------------------------------------------------
(* Membership scopes. *)

ArrayOf == <<"source_ids", "work_ids">>

\* memberships.get(key) or [].
Owned(meta, key) == IF key \in DOMAIN meta.memberships THEN meta.memberships[key] ELSE {}

TupleMatches(t, scope) == \A d \in DOMAIN scope : d \in DOMAIN t /\ t[d] = scope[d]

\* A row without tuples: each dimension on its own.
ArraysMatch(meta, scope) == \A d \in DOMAIN scope : scope[d] \in Owned(meta, ArrayOf[d])

\* _in_membership_scope.
InMembershipScope(meta, scope) ==
  IF Owned(meta, "tuples") # {} THEN \E t \in Owned(meta, "tuples") : TupleMatches(t, scope)
  ELSE ArraysMatch(meta, scope)

\* _membership_scope_pred, in SQL: the key decides, so that an empty list of
\* tuples matches nothing.
SqlScope(meta, scope) ==
  \/ scope = <<>>
  \/ /\ "tuples" \in DOMAIN meta.memberships
     /\ \E t \in meta.memberships["tuples"] : TupleMatches(t, scope)
  \/ "tuples" \notin DOMAIN meta.memberships /\ ArraysMatch(meta, scope)

Live(r) == r \in DOMAIN identityRows /\ identityRows[r].active

\* The conditions of the general path: a scoped read sees identity rows only.
Listed(r, scope) ==
  \/ Live(r) /\ SqlScope(identityRows[r], scope)
  \/ scope = <<>> /\ r \in entityRows

\* ORDER BY entity_ref: the i-th ref has i - 1 of them below it.
Below(r, refs) == {x \in refs : x < r}
Ascending(refs) ==
  [i \in 1..Cardinality(refs) |-> CHOOSE r \in refs : Cardinality(Below(r, refs)) = i - 1]
Listing(scope) == Ascending({r \in EntityRefs : Listed(r, scope)})

Slice(s, offset, limit) == SubSeq(s, offset + 1, Min({offset + limit, Len(s)}))

-----------------------------------------------------------------------------
(* The rows change. *)

\* What the listing of a running walk gains and loses in a step.
Track ==
  IF walker.pc = "idle" THEN UNCHANGED <<steady, came, went>>
  ELSE LET before == {r \in EntityRefs : Listed(r, walker.scope)}
           after  == {r \in EntityRefs : Listed(r, walker.scope)'}
       IN  /\ steady' = steady \cap after
           /\ came' = (came \/ after \ before # {})
           /\ went' = (went \/ before \ after # {})

RowsMay == readChanges < MaxReadChanges /\ readChanges' = readChanges + 1

\* An ESTABLISH: the label and the aliases are replaced, memberships accumulate,
\* unless it has none, which replace those of the row.
EstablishRow(r, meta) ==
  LET kept == IF r \in DOMAIN identityRows THEN identityRows[r] ELSE meta
      both == DOMAIN kept.memberships \cup DOMAIN meta.memberships
      row  == [meta EXCEPT !.memberships =
                 IF DOMAIN @ = {} THEN @
                 ELSE [key \in both |-> Owned(kept, key) \cup Owned(meta, key)]]
  IN  /\ RowsMay
      /\ identityRows' = [x \in DOMAIN identityRows \cup {r} |->
                            IF x = r THEN row ELSE identityRows[x]]
      /\ UNCHANGED <<entityRows, walker>> /\ Track

InvalidateRow(r) ==
  /\ RowsMay /\ Live(r)
  /\ identityRows' = [identityRows EXCEPT ![r].active = FALSE]
  /\ UNCHANGED <<entityRows, walker>> /\ Track

\* A MERGE writes the CANONICAL_ENTITY row of the ref.
EntityRowWritten(r) ==
  /\ RowsMay /\ r \notin entityRows
  /\ entityRows' = entityRows \cup {r}
  /\ UNCHANGED <<identityRows, walker>> /\ Track

-----------------------------------------------------------------------------
(* The walk. *)

StartWalk(scope) ==
  /\ walker.pc = "idle"
  /\ walker' = [NoWalk EXCEPT !.pc = "refs", !.scope = scope]
  /\ steady' = {r \in EntityRefs : Listed(r, scope)}
  /\ came' = FALSE /\ went' = FALSE
  /\ UNCHANGED <<identityRows, entityRows, readChanges>>

\* Mutant: the page is cut from the rows before they are merged by ref.
RawPageRefs(scope, offset, limit) ==
  LET rows(r) == (IF Live(r) /\ SqlScope(identityRows[r], scope) THEN <<r>> ELSE <<>>)
                 \o (IF scope = <<>> /\ r \in entityRows THEN <<r>> ELSE <<>>)
      all == FlattenSeq([i \in DOMAIN Listing(scope) |-> rows(Listing(scope)[i])])
  IN  Ascending(Range(Slice(all, offset, limit)))

\* _entity_page_refs: SELECT DISTINCT ... ORDER BY ... OFFSET ... LIMIT.
EntityPageRefs(scope, offset, limit) == Slice(Listing(scope), offset, limit)

PageRefs ==
  /\ walker.pc = "refs"
  /\ walker' = [walker EXCEPT !.pc = "rows",
                  !.refs = EntityPageRefs(walker.scope, walker.offset, PageLimit)]
  /\ UNCHANGED <<identityRows, entityRows, steady, came, went, readChanges>>

\* _entity_winners_for_refs and the scope check in Python; the identity row
\* of a ref wins over its entity row.
Served(r, scope) ==
  Listed(r, scope) /\ (Live(r) /\ scope # <<>> => InMembershipScope(identityRows[r], scope))

\* The rows come back in the order of the refs.
PageRows ==
  /\ walker.pc = "rows"
  /\ walker' = [walker EXCEPT !.pc = "total",
                  !.items = @ \o Ascending({r \in Range(walker.refs) : Served(r, walker.scope)})]
  /\ UNCHANGED <<identityRows, entityRows, steady, came, went, readChanges>>

\* page_cursors: there is a next page while the total says so.
PageTotal ==
  /\ walker.pc = "total"
  /\ LET total == Len(Listing(walker.scope))
     IN  walker' = [walker EXCEPT !.total = total, !.refs = <<>>,
                      !.pc = IF walker.offset + PageLimit < total THEN "refs" ELSE "done",
                      !.offset = @ + PageLimit]
  /\ UNCHANGED <<identityRows, entityRows, steady, came, went, readChanges>>

EndWalk ==
  /\ walker.pc = "done"
  /\ walker' = NoWalk /\ steady' = {} /\ came' = FALSE /\ went' = FALSE
  /\ UNCHANGED <<identityRows, entityRows, readChanges>>

ReadNext ==
  \/ \E r \in EntityRefs, meta \in Metas : EstablishRow(r, meta)
  \/ \E r \in EntityRefs : InvalidateRow(r) \/ EntityRowWritten(r)
  \/ \E scope \in ReadScopes : StartWalk(scope)
  \/ PageRefs \/ PageRows \/ PageTotal \/ EndWalk

EntitySpec == ReadInit /\ [][ReadNext]_readVars

-----------------------------------------------------------------------------
(* The alias path does not ask for distinct refs: it fetches a window of   *)
(* raw rows, two for a ref that has both, and merges them itself.          *)

RowsOfRef(r) ==
  (IF Live(r) THEN <<r>> ELSE <<>>) \o (IF r \in entityRows THEN <<r>> ELSE <<>>)

RawRows == LET listing == Listing(<<>>)
           IN  FlattenSeq([i \in DOMAIN listing |-> RowsOfRef(listing[i])])

\* _entity_rows.
RawWindow(offset, limit) == 2 * (limit + offset) + 4

\* _entity_ordered and the slice; the second part is the total it reports.
AliasPage(offset, limit) ==
  LET merged == Ascending(Range(Slice(RawRows, 0, RawWindow(offset, limit))))
  IN  <<Slice(merged, offset, limit), Len(merged)>>

-----------------------------------------------------------------------------
\* A client that followed the cursors to the end has seen every entity that was
\* listed all the while, unless one was taken off the listing meanwhile, and
\* saw none twice, unless one was added meanwhile; the pages of a walk nothing
\* disturbed are exactly the listing, whatever rows a ref has.
WalkCoversSteady ==
  walker.pc = "done" =>
    /\ went \/ steady \subseteq Range(walker.items)
    /\ came \/ IsInjective(walker.items)
    /\ came \/ went \/ walker.items = Listing(walker.scope)

\* A list of tuples that is there and empty.
NoTuplesListed(meta) ==
  "tuples" \in DOMAIN meta.memberships /\ meta.memberships["tuples"] = {}

\* The two formulations of a scope: no row the SQL predicate counts into a page
\* and its total is dropped by the check in Python afterwards, and a row that
\* only Python would accept has a list of tuples that is empty.
ScopePredicatesAgree ==
  \A r \in DOMAIN identityRows, scope \in ReadScopes :
    LET row == identityRows[r]
    IN  /\ SqlScope(row, scope) => InMembershipScope(row, scope)
        /\ InMembershipScope(row, scope) => SqlScope(row, scope) \/ NoTuplesListed(row)

\* The window of raw rows of the alias path holds the page, and its total tells
\* rightly whether there is a next one, for every page.
AliasWindowSuffices ==
  LET listing == Listing(<<>>)
  IN  \A offset \in 0..Cardinality(EntityRefs), limit \in 1..2 :
        LET page == AliasPage(offset, limit)
        IN  /\ page[1] = Slice(listing, offset, limit)
            /\ offset + limit < page[2] <=> offset + limit < Len(listing)

\* Paging through entities is reading the listing: steady rows are met, Python
\* drops none that SQL counted, and the alias window is wide enough.
PagesAreTheListing ==
    /\ WalkCoversSteady
    /\ ScopePredicatesAgree
    /\ AliasWindowSuffices
================================================================================

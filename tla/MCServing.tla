------------------------------- MODULE MCServing -------------------------------
(***************************************************************************)
(* The read side, one component at a time: `part` says which one moves.    *)
(***************************************************************************)
EXTENDS ActiveEdges, ProjectionPublish, SearchDocuments, StructuredReads, OcflRoot,
        LocatorResolution, RateLimiter, RebuildRights

VARIABLE part
limitVars == <<bucketVars, rebuildVars>>
mcvars == <<part, edgeVars, pubVars, searchVars, queryVars, rootVars, locVars, limitVars>>

\* Correlated memberships, arrays alone, an empty list of tuples, none at all.
Meta(label, aliases, memberships) ==
  [label |-> label, aliases |-> aliases, memberships |-> memberships, active |-> TRUE]
MCMetas == {
  Meta("l", {"m"}, [source_ids |-> {"A"}, work_ids |-> {"x"}, tuples |-> {<<"A", "x">>}]),
  Meta("m", {}, [source_ids |-> {"B"}, work_ids |-> {"y"}]),
  Meta("m", {}, [source_ids |-> {"B"}, tuples |-> {}]),
  Meta("m", {}, <<>>)}
MCReadScopes == {<<>>, <<"A">>, <<"A", "y">>, <<"B">>}
MCSubjectOf == [f \in {9} |-> 1]

\* Mentions of a source that have no id, so that all go by that of the source: a
\* later one over an earlier, and one without a text.
Mention(text, entity) == [ref |-> 8, source |-> "A", text |-> text, entity |-> entity]
MCMentionEvents == {Mention("l", 1), Mention("t", 2), Mention("", 1)}

\* Up to two patterns in one question; every kind under each dimension alone and all.
Patterns == {"utterance", "contradiction", "unresolved", "evidence", "relation", "entity"}
MCQuestions == {[p \in Patterns |-> p \in found] : found \in {f \in SUBSET Patterns : Cardinality(f) <= 2}}
Kinds == {"SCENE", "RELATIONSHIP_EDGES", "EVIDENCE", "UNRESOLVED_ALIASES",
          "UTTERANCE", "CORRESPONDENCE", "ENTITY"}
MCPageShapes == {[offset |-> 0, limit |-> 10], [offset |-> 1, limit |-> 2]}
Within4(c, f, t, p) == [continuity |-> c, from |-> f, to |-> t, place |-> p]
MCRequests ==
  [kind : Kinds,
   scope : {Anywhere, Within4(1, Null, Null, Null), Within4(Null, 2, Null, Null),
            Within4(Null, 1, 2, Null), Within4(Null, Null, Null, 1), Within4(1, 2, 2, 1)}]
MCRows == {Within4(c, f, t, p) : c \in {1, 2}, p \in {Null, 1}, f \in {Null, 1, 3},
                                 t \in {Null, 1, 3}}
E3(s, p, o) == [subject |-> s, predicate |-> p, object |-> o]
\* A chain longer than the depth cap with a cycle, and a graph of double edges.
MCGraphs == {
  {E3(1, 1, 2), E3(2, 1, 1), E3(2, 2, 3), E3(3, 1, 4), E3(4, 1, 5), E3(5, 1, 6), E3(2, 3, Null)},
  {E3(1, 1, 2), E3(1, 2, 2), E3(2, 1, 3), E3(3, 1, 3), E3(3, 2, 1)},
  {}}

\* Texts with and without blank lines, two longer than the range, one of them
\* cut inside a character, and one that is not UTF-8 in its second paragraph.
MCTexts == {<<>>, <<"n", "n", "n", "n", "a">>, <<"a", "n", "n", "n", "b", "n", "n", "c">>,
            <<"L", "K", "n", "n", "L", "K", "L", "K">>,
            <<"a", "n", "n", "X", "n", "n", "K">>}
MCSegmentPaths == {<<>>, <<2>>, <<1, 2>>}

Parts == {"edges", "generations", "walk", "search", "vectors", "queries", "traversals", "root",
          "locators", "requests", "rebuilds"}

\* A component that does not move has one initial state.
MCInit ==
  /\ part \in Parts
  /\ EdgeInit /\ PubInit /\ SearchInit /\ QueryInit /\ RootInit
  /\ LocInit /\ BucketInit /\ RebuildInit
  /\ part = "traversals" \/ graph = {}
  /\ part # "locators" => fileText = <<>> /\ perVersion

\* The values are interchangeable: a ledger names one of them before the other.
NamesInOrder ==
  LET first == CHOOSE v \in Values : TRUE IN
  \A n \in DOMAIN history : \/ history[n].val \in {None, first}
                            \/ \E m \in 1..(n - 1) : history[m].val = first

\* The search looks at rows of two refs, the walk at all.
OnTwoRefs == (DOMAIN identityRows \cup entityRows)' \subseteq {1, 2}

ServingNext ==
  /\ IF part = "edges" THEN EdgeNext /\ NamesInOrder' ELSE UNCHANGED edgeVars
  /\ IF part = "generations" THEN PubNext ELSE UNCHANGED pubVars
  /\ IF part = "walk" THEN ReadNext /\ UNCHANGED <<storeVars, vectorVars>>
     ELSE IF part = "search" THEN StoreNext /\ OnTwoRefs
     ELSE IF part = "vectors" THEN VectorNext
     ELSE UNCHANGED searchVars
  /\ IF part = "queries" THEN RequestNext ELSE UNCHANGED requestVars
  /\ IF part = "traversals" THEN TraversalNext ELSE UNCHANGED traversalVars
  /\ IF part = "root" THEN RootNext ELSE UNCHANGED rootVars
  /\ IF part = "locators" THEN LocNext ELSE UNCHANGED locVars

MCNext ==
  /\ UNCHANGED part
  /\ ServingNext
  /\ IF part = "requests" THEN BucketNext ELSE UNCHANGED bucketVars
  /\ IF part = "rebuilds" THEN RebuildNext ELSE UNCHANGED rebuildVars

\* Processes that start and are not killed keep running; nothing else is fair.
MCSpec == MCInit /\ [][MCNext]_mcvars /\ RootFair
================================================================================

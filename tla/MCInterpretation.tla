---------------------------- MODULE MCInterpretation ----------------------------
(* The lifecycle of jobs, and what the interpreting stages and the command  *)
(* service write in it, one of them at a time: `part` says which one moves. *)
EXTENDS MCJobLifecycle, EntityResolution, IdentitySplit, Reconciliation

CONSTANTS x1, x2

VARIABLE part
interpVars == <<resVars, splitVars, reconVars>>
mcvars == <<part, lifecycleVars, interpVars>>

MCSplitters == {x1, x2}

Mention(s, n, l, c, a, amb) ==
  [src |-> s, name |-> n, loc |-> l, ctx |-> c, alias |-> a, ambiguous |-> amb]

\* A declared alias; one name in two sources; a repeated name without a shared
\* position; names without any position; two mentions at one position.
MCCorpora == {
  <<Mention("A", "mara", "p1", "x", "", FALSE), Mention("A", "mara", "p2", "y", "", FALSE),
    Mention("A", "cook", "p3", "z", "mara", FALSE)>>,
  <<Mention("A", "mara", "p1", "x", "", FALSE), Mention("A", "ash", "p2", "y", "", FALSE),
    Mention("B", "mara", "p1", "x", "", FALSE)>>,
  <<Mention("A", "mara", "p1", "x", "", FALSE), Mention("A", "mara", "p1", "", "", FALSE),
    Mention("B", "mara", "p1", "y", "", FALSE)>>,
  <<Mention("A", "mara", "", "", "", FALSE), Mention("A", "ash", "p2", "y", "", TRUE),
    Mention("B", "mara", "", "", "", FALSE)>>,
  <<Mention("A", "mara", "p1", "", "", FALSE), Mention("A", "mara", "p1", "", "", FALSE),
    Mention("A", "ash", "p2", "", "", TRUE)>>}

MCTargets == <<"t1", "t2">>
MCCandidates == [m1 |-> <<<<"t1", 5>>, <<"t2", 5>>, <<"t1", 6>>>>, m2 |-> <<<<"t2", 5>>>>]
MCAlignmentEnds == [al |-> {"e", "t1"}]

Noted(k, s, o, c, st, p, r) ==
  [kind |-> k, subject |-> s, object |-> o, conf |-> c, st |-> st, pred |-> p, rel |-> r]
MCAnalyses == {
  <<Noted("trait", "mara", "brave", 9, "CONFIRMED", "", ""),
    Noted("trait", "cook", "shy", 3, "CONFIRMED", "", ""),
    Noted("mention", "ash", "p1", 6, "AMBIGUOUS", "", "")>>,
  <<Noted("relation", "mara", "ash", 9, "CONFIRMED", "MENTOR_OF", ""),
    Noted("relation", "mara", "ash", 9, "CONFIRMED", "RELATED_TO", "RIVAL_OF"),
    Noted("relation", "mara", "ash", 9, "CONFIRMED", "SIBLING_OF", "RIVAL_OF"),
    Noted("relation", "mara", "ash", 9, "CONFIRMED", "HAS_EMOTION", "RIVAL_OF")>>,
  <<Noted("alias", "mara", "cook", 6, "PROBABLE", "", ""),
    Noted("speech", "", "p1", 9, "CONFIRMED", "", ""),
    Noted("speech", "mara", "p2", 9, "CONFIRMED", "", "")>>}
MCCanonicals == <<"c1", "c2">>
MCLabels == [c1 |-> "mara", c2 |-> "mara"]
MCAliasNames == [c1 |-> <<"cook">>, c2 |-> <<>>]

\* A component that does not move has one initial state.
MCInit ==
  /\ part \in {"lifecycle", "resolution", "split", "reconciliation"}
  /\ LifecycleInit /\ ResInit /\ SplitInit /\ ReconInit
  /\ part = "resolution" \/ profile = CHOOSE c \in MCCorpora : TRUE
  /\ part = "reconciliation" \/ observed = CHOOSE a \in MCAnalyses : TRUE

MCNext ==
  /\ UNCHANGED part
  /\ \/ part = "lifecycle" /\ LifecycleNext /\ UNCHANGED interpVars
     \/ /\ UNCHANGED lifecycleVars
        /\ \/ part = "resolution" /\ ResNext /\ UNCHANGED <<splitVars, reconVars>>
           \/ part = "split" /\ SplitNext /\ UNCHANGED <<resVars, reconVars>>
           \/ part = "reconciliation" /\ ReconNext /\ UNCHANGED <<resVars, splitVars>>

MCSpec == MCInit /\ [][MCNext]_mcvars

\* The two splitters take the same steps.
AllInterchangeable == Interchangeable \cup Permutations(MCSplitters)
================================================================================

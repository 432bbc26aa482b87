----------------------------- MODULE IdentitySplit -----------------------------
(***************************************************************************)
(* SPLIT of an entity (resolution/resolution.py): the references of every  *)
(* kind that hang on it are enumerated, in reads of their own, and each is *)
(* bound to one target or quarantined; the SPLIT event, one               *)
(* ReferenceRebound per binding and the updates of the typed mention rows  *)
(* commit together, while quarantine rows are written by a connection of   *)
(* their own.  Mentions, alignments and assertions keep arriving.          *)
(*                                                                         *)
(* The typed entity_id column takes UUIDs only: what a textual ref is      *)
(* attached to is said by ledger events alone.                             *)
(***************************************************************************)
EXTENDS Integers, Sequences, FiniteSets, SequencesExt

CONSTANTS
  Splitters,      \* processes that run a split
  SplitEnts,      \* entities that may be split
  SplitTargets,   \* the sorted targets of a split, a sequence of entities
  UuidRefs,       \* those of both that are UUIDs
  Candidates,     \* [mention -> sequence of <<candidate ref, confidence>>]
  AlignmentEnds,  \* [alignment -> {left_ref, right_ref}]
  Claims,         \* assertions about SplitEnts
  NoTarget,       \* no decision, no typed entity
  MaxSplits       \* bound: splits begun

\* Ids of mentions, alignments and assertions are distinct.
ASSUME SplitConstants ==
  LET kinds == <<DOMAIN Candidates, DOMAIN AlignmentEnds, Claims>>
  IN  /\ \A i \in 1..3 : IsFiniteSet(kinds[i])
      /\ \A i, j \in 1..3 : i # j => kinds[i] \cap kinds[j] = {}

VARIABLES
  mentioned,    \* <<mention, entity>> said by EntityMentioned or ALIAS events
  mentionEnt,   \* typed rows: mention -> entity_id
  aligned,      \* alignments recorded
  claimed,      \* <<assertion, entity>> rows of semantic_assertion
  splitter,     \* [Splitters -> control state and plan]
  rebounds,     \* ReferenceRebound events: <<ref, from, to>> in order
  splits,       \* SPLIT events: their plans
  quarantined,  \* refs in the quarantine table
  splitCrashes

attachVars == <<mentioned, mentionEnt, aligned, claimed>>
splitVars == <<attachVars, splitter, rebounds, splits, quarantined, splitCrashes>>

SplitMentions == DOMAIN Candidates
Targets == Range(SplitTargets)
NoPlan == [pc |-> "idle", ent |-> NoTarget, assign |-> <<>>, refused |-> {},
           hits |-> {}, owed |-> {}, held |-> {}]

Bind(f, S, t) == [x \in DOMAIN f \cup S |-> IF x \in S THEN t ELSE f[x]]

SplitInit ==
  /\ mentioned = {} /\ mentionEnt = <<>> /\ aligned = {} /\ claimed = {}
  /\ splitter = [p \in Splitters |-> NoPlan]
  /\ rebounds = <<>> /\ splits = <<>> /\ quarantined = {} /\ splitCrashes = 0

\* MentionService.record, or an ALIAS: the event and the typed row together.
AttachMention(m, ent) ==
  /\ m \notin DOMAIN mentionEnt
  /\ mentioned' = mentioned \cup {<<m, ent>>}
  /\ mentionEnt' = Bind(mentionEnt, {m}, IF ent \in UuidRefs THEN ent ELSE NoTarget)
  /\ UNCHANGED <<aligned, claimed, splitter, rebounds, splits, quarantined, splitCrashes>>

AttachAlignment(a) ==
  /\ a \notin aligned /\ aligned' = aligned \cup {a}
  /\ UNCHANGED <<mentioned, mentionEnt, claimed, splitter, rebounds, splits,
                 quarantined, splitCrashes>>

AttachClaim(c, ent) ==
  /\ <<c, ent>> \notin claimed /\ claimed' = claimed \cup {<<c, ent>>}
  /\ UNCHANGED <<mentioned, mentionEnt, aligned, splitter, rebounds, splits,
                 quarantined, splitCrashes>>

-----------------------------------------------------------------------------
(* What enumerate decides. *)

\* Mutant: only the typed rows are asked.
TypedMentionsOf(ent) == {m \in DOMAIN mentionEnt : mentionEnt[m] = ent}

\* mentions_for_entity and _event_resolved_mention_ids.
MentionsHeld(ent) ==
  {m \in DOMAIN mentionEnt : mentionEnt[m] = ent \/ <<m, ent>> \in mentioned}

AlignmentsHeld(ent) == {a \in aligned : ent \in AlignmentEnds[a]}
ClaimsHeld(ent) == {c \in Claims : <<c, ent>> \in claimed}

\* The candidate with the highest confidence, when it is alone; a ref named
\* twice counts with its last confidence.
DecideMention(m) ==
  LET last(t) == LET at == {i \in DOMAIN Candidates[m] : Candidates[m][i][1] = t}
                 IN  Candidates[m][CHOOSE i \in at : \A j \in at : j <= i][2]
      named == {Candidates[m][i][1] : i \in DOMAIN Candidates[m]} \cap Targets
      best  == {t \in named : \A u \in named : last(u) <= last(t)}
  IN  IF Cardinality(best) = 1 THEN CHOOSE t \in best : TRUE ELSE NoTarget

DecideAlignment(a) ==
  LET ends == AlignmentEnds[a] \cap Targets
  IN  IF Cardinality(ends) = 1 THEN CHOOSE t \in ends : TRUE ELSE NoTarget

\* The target most mentions went to, the first in order of a tie.
DominantTarget(hits) ==
  LET votes(t) == Cardinality({h \in hits : h[2] = t})
      best == {i \in DOMAIN SplitTargets :
                 \A j \in DOMAIN SplitTargets : votes(SplitTargets[j]) <= votes(SplitTargets[i])}
  IN  IF hits = {} THEN NoTarget
      ELSE SplitTargets[CHOOSE i \in best : \A j \in best : i <= j]

WithDecisions(plan, target) ==
  LET bound == {r \in DOMAIN target : target[r] # NoTarget}
  IN  [plan EXCEPT !.assign = [x \in DOMAIN @ \cup bound |->
                                 IF x \in bound THEN target[x] ELSE plan.assign[x]],
                   !.refused = @ \cup (DOMAIN target \ bound)]

\* History: what the ledger attaches to the entity.
AttachedTo(ent) == {m \in DOMAIN mentionEnt : <<m, ent>> \in mentioned}
                   \cup AlignmentsHeld(ent) \cup ClaimsHeld(ent)

BeginSplit(p, ent) ==
  /\ splitter[p].pc = "idle"
  /\ Len(splits) + Cardinality({q \in Splitters : splitter[q].pc # "idle"}) < MaxSplits
  /\ LET plan == WithDecisions(NoPlan, [m \in MentionsHeld(ent) |-> DecideMention(m)])
     IN  splitter' = [splitter EXCEPT ![p] =
           [plan EXCEPT !.pc = "mentions", !.ent = ent,
              !.hits = {<<m, plan.assign[m]>> : m \in DOMAIN plan.assign},
              !.owed = AttachedTo(ent)]]
  /\ UNCHANGED <<attachVars, rebounds, splits, quarantined, splitCrashes>>

EnumerateAlignments(p) ==
  /\ splitter[p].pc = "mentions"
  /\ splitter' = [splitter EXCEPT ![p] =
       [WithDecisions(@, [a \in AlignmentsHeld(@.ent) |-> DecideAlignment(a)])
          EXCEPT !.pc = "alignments"]]
  /\ UNCHANGED <<attachVars, rebounds, splits, quarantined, splitCrashes>>

EnumerateClaims(p) ==
  /\ splitter[p].pc = "alignments"
  /\ splitter' = [splitter EXCEPT ![p] =
       [WithDecisions(@, [c \in ClaimsHeld(@.ent) |-> DominantTarget(@.hits)])
          EXCEPT !.pc = "planned"]]
  /\ UNCHANGED <<attachVars, rebounds, splits, quarantined, splitCrashes>>

\* The side effects run before the commit: the quarantine rows commit first.
QuarantineRefs(p) ==
  /\ splitter[p].pc = "planned"
  /\ quarantined' = quarantined \cup splitter[p].refused
  /\ splitter' = [splitter EXCEPT ![p].pc = "quarantined"]
  /\ UNCHANGED <<attachVars, rebounds, splits, splitCrashes>>

RebindRow(m, plan) ==
  IF /\ m \in DOMAIN plan.assign /\ plan.ent \in UuidRefs
     /\ plan.assign[m] \in UuidRefs /\ mentionEnt[m] = plan.ent
  THEN plan.assign[m] ELSE mentionEnt[m]

CommitSplit(p) ==
  LET plan == splitter[p]
      order == SetToSeq(DOMAIN plan.assign)
  IN  /\ plan.pc = "quarantined"
      /\ splits' = Append(splits, [plan EXCEPT !.held = AttachedTo(plan.ent)])
      /\ rebounds' = rebounds \o [i \in DOMAIN order |->
                                    <<order[i], plan.ent, plan.assign[order[i]]>>]
      /\ mentionEnt' = [m \in DOMAIN mentionEnt |-> RebindRow(m, plan)]
      /\ splitter' = [splitter EXCEPT ![p] = NoPlan]
      /\ UNCHANGED <<mentioned, aligned, claimed, quarantined, splitCrashes>>

SplitDies(p) ==
  /\ splitter[p].pc # "idle" /\ splitCrashes = 0 /\ splitCrashes' = 1
  /\ splitter' = [splitter EXCEPT ![p] = NoPlan]
  /\ UNCHANGED <<attachVars, rebounds, splits, quarantined>>

SplitNext ==
  \/ \E m \in SplitMentions, ent \in SplitEnts : AttachMention(m, ent)
  \/ \E a \in DOMAIN AlignmentEnds : AttachAlignment(a)
  \/ \E c \in Claims, ent \in SplitEnts : AttachClaim(c, ent)
  \/ \E p \in Splitters, ent \in SplitEnts : BeginSplit(p, ent)
  \/ \E p \in Splitters : EnumerateAlignments(p) \/ EnumerateClaims(p)
  \/ \E p \in Splitters : QuarantineRefs(p) \/ CommitSplit(p) \/ SplitDies(p)

SplitSpec == SplitInit /\ [][SplitNext]_splitVars

-----------------------------------------------------------------------------
\* No reference is silently dropped: whatever hung on the entity when a split
\* of it began, by a typed row or by an event alone, is bound to one target by
\* it or is in the quarantine, and not both.
NothingDropped ==
  \A i \in DOMAIN splits : LET s == splits[i] IN
    /\ s.owed \subseteq DOMAIN s.assign \cup (s.refused \cap quarantined)
    /\ DOMAIN s.assign \cap s.refused = {}

\* The typed row of a mention never names an entity the ledger does not: it is
\* the one its event attached it to or one a committed rebinding names.
RowsFollowLedger ==
  \A m \in DOMAIN mentionEnt :
    \/ mentionEnt[m] = NoTarget
    \/ mentionEnt[m] \in UuidRefs /\
         (<<m, mentionEnt[m]>> \in mentioned
            \/ \E i \in DOMAIN rebounds : rebounds[i][1] = m /\ rebounds[i][3] = mentionEnt[m])

\* Two splits may overlap: what hung on the identity ends at a new one or in
\* quarantine, and the mention rows say what the ledger says.
SplitsComplete ==
    /\ NothingDropped
    /\ RowsFollowLedger
==============================================================================

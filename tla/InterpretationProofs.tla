------------------------- MODULE InterpretationProofs -------------------------
(***************************************************************************)
(* Proofs about IdentitySplit, for any number of splits, references and    *)
(* targets (what a split owes is bound or quarantined), about              *)
(* EntityResolution, for any corpus and number of runs (what the commands  *)
(* of a stage may never take from an identity, and what a batch leaves     *)
(* out: nothing), about Reconciliation (what a completed run has           *)
(* asserted), and about MediaExtraction, for any source, number of         *)
(* workers, uploads and engines (the evidence of a stage that commits      *)
(* without a swallowed error).                                             *)
(***************************************************************************)
EXTENDS IdentitySplit, EntityResolution, Reconciliation, MediaExtraction, FiniteSetTheorems, SequenceFacts

AlignmentRefs == DOMAIN AlignmentEnds

-----------------------------------------------------------------------------
(* Splits                                                                  *)

Busy == {"mentions", "alignments", "planned", "quarantined"}
Decided(plan) == DOMAIN plan.assign \cup plan.refused

IsPlan(plan) ==
  plan = [pc |-> plan.pc, ent |-> plan.ent, assign |-> plan.assign,
          refused |-> plan.refused, hits |-> plan.hits, owed |-> plan.owed,
          held |-> plan.held]

\* A plan between two reads: each kind of reference is decided by the read that
\* enumerates it, which still finds all that hung on the entity at the start.
PlanOK(plan, ends, rows, table) ==
  /\ IsPlan(plan) /\ plan.pc \in Busy \cup {"idle"}
  /\ plan.pc \in Busy =>
       /\ DOMAIN plan.assign \cap plan.refused = {}
       /\ plan.owed \subseteq SplitMentions \cup AlignmentRefs \cup Claims
       /\ plan.owed \cap SplitMentions \subseteq Decided(plan)
       /\ \A a \in plan.owed \cap AlignmentRefs : a \in ends /\ plan.ent \in AlignmentEnds[a]
       /\ \A c \in plan.owed \cap Claims : <<c, plan.ent>> \in rows
  /\ plan.pc = "mentions" => Decided(plan) \subseteq SplitMentions
  /\ plan.pc = "alignments" =>
       /\ Decided(plan) \subseteq SplitMentions \cup AlignmentRefs
       /\ plan.owed \cap AlignmentRefs \subseteq Decided(plan)
  /\ plan.pc \in {"planned", "quarantined"} =>
       /\ Decided(plan) \subseteq SplitMentions \cup AlignmentRefs \cup Claims
       /\ plan.owed \subseteq Decided(plan)
  /\ plan.pc = "quarantined" => plan.refused \subseteq table

IsSequence(s) == \E S : s \in Seq(S)

AttachedOK ==
  /\ DOMAIN mentionEnt \subseteq SplitMentions
  /\ aligned \subseteq AlignmentRefs

SplitInv ==
  /\ AttachedOK
  /\ splitter = [p \in Splitters |-> splitter[p]]
  /\ \A p \in Splitters : PlanOK(splitter[p], aligned, claimed, quarantined)
  /\ IsSequence(splits) /\ IsSequence(rebounds)
  /\ NothingDropped /\ RowsFollowLedger

LEMMA Kinds ==
  /\ IsFiniteSet(SplitMentions) /\ IsFiniteSet(AlignmentRefs) /\ IsFiniteSet(Claims)
  /\ SplitMentions \cap AlignmentRefs = {} /\ SplitMentions \cap Claims = {}
  /\ AlignmentRefs \cap Claims = {}
<1> DEFINE kinds == <<DOMAIN Candidates, DOMAIN AlignmentEnds, Claims>>
<1>1. /\ \A i \in 1..3 : IsFiniteSet(kinds[i])
      /\ \A i, j \in 1..3 : i # j => kinds[i] \cap kinds[j] = {}
  BY SplitConstants
<1>2. kinds[1] = SplitMentions /\ kinds[2] = AlignmentRefs /\ kinds[3] = Claims
  BY DEF SplitMentions, AlignmentRefs
<1> HIDE DEF kinds
<1>3. 1 \in 1..3 /\ 2 \in 1..3 /\ 3 \in 1..3 /\ 1 # 2 /\ 1 # 3 /\ 2 # 3
  OBVIOUS
<1> QED BY <1>1, <1>2, <1>3, Zenon

\* A read decides what it enumerates and leaves the rest of the plan.
LEMMA Decide ==
  ASSUME NEW plan, IsPlan(plan), NEW target, NEW w, w = WithDecisions(plan, target)
  PROVE  /\ IsPlan(w)
         /\ w.pc = plan.pc /\ w.ent = plan.ent /\ w.owed = plan.owed
         /\ w.hits = plan.hits /\ w.held = plan.held
         /\ Decided(w) = Decided(plan) \cup DOMAIN target
         /\ DOMAIN plan.assign \cap plan.refused = {} /\ Decided(plan) \cap DOMAIN target = {}
              => DOMAIN w.assign \cap w.refused = {}
<1> DEFINE bound == {r \in DOMAIN target : target[r] # NoTarget}
           assigned == [x \in DOMAIN plan.assign \cup bound |->
                          IF x \in bound THEN target[x] ELSE plan.assign[x]]
<1>1. w = [plan EXCEPT !.assign = assigned, !.refused = plan.refused \cup (DOMAIN target \ bound)]
  BY DEF WithDecisions, IsPlan
<1>2. DOMAIN assigned = DOMAIN plan.assign \cup bound
  OBVIOUS
<1>3. bound \subseteq DOMAIN target
  OBVIOUS
<1> HIDE DEF assigned, bound
<1>4. w = [pc |-> plan.pc, ent |-> plan.ent, assign |-> assigned,
           refused |-> plan.refused \cup (DOMAIN target \ bound), hits |-> plan.hits,
           owed |-> plan.owed, held |-> plan.held]
  BY <1>1 DEF IsPlan
<1>5. /\ IsPlan(w) /\ w.pc = plan.pc /\ w.ent = plan.ent /\ w.owed = plan.owed
      /\ w.hits = plan.hits /\ w.held = plan.held /\ w.assign = assigned
      /\ w.refused = plan.refused \cup (DOMAIN target \ bound)
  BY <1>4 DEF IsPlan
<1>6. Decided(w) = Decided(plan) \cup DOMAIN target
  BY <1>2, <1>3, <1>5 DEF Decided
<1> QED BY <1>2, <1>3, <1>5, <1>6 DEF Decided

LEMMA PlanStable ==
  ASSUME NEW plan, NEW ends, NEW rows, NEW table, PlanOK(plan, ends, rows, table),
         NEW ends2, NEW rows2, NEW table2,
         ends \subseteq ends2, rows \subseteq rows2, table \subseteq table2
  PROVE  PlanOK(plan, ends2, rows2, table2)
BY DEF PlanOK

\* A set in some order, each element once.
LEMMA SetInOrder ==
  ASSUME NEW S, IsFiniteSet(S), NEW order, order = SetToSeq(S)
  PROVE  /\ Cardinality(S) \in Nat /\ order \in [1..Cardinality(S) -> S]
         /\ \A x \in S : \E i \in 1..Cardinality(S) : order[i] = x
<1> DEFINE n == Cardinality(S)
<1>1. n \in Nat /\ ExistsBijection(1..n, S)
  BY FS_CardinalityType
<1>2. \E f \in [1..n -> S] : IsInjective(f)
  BY <1>1 DEF ExistsBijection, Bijection, Injection
<1>3. order \in [1..n -> S] /\ IsInjective(order)
  BY <1>2 DEF SetToSeq
<1>4. order \in Injection(1..n, S)
  BY <1>3 DEF Injection
<1>5. Cardinality(1..n) = n
  BY <1>1, FS_Interval
<1>6. order \in Surjection(1..n, S)
  BY <1>4, <1>5, FS_Injection
<1> QED BY <1>1, <1>3, <1>6 DEF Surjection

\* What arrives beside the splits: earlier attachments stay.
Arrivals ==
  /\ aligned \subseteq aligned' /\ claimed \subseteq claimed' /\ AttachedOK'
  /\ RowsFollowLedger'
  /\ UNCHANGED <<splitter, rebounds, splits, quarantined>>

LEMMA ArrivalsKeep ==
  ASSUME SplitInv, Arrivals
  PROVE  SplitInv'
<1>1. \A p \in Splitters : PlanOK(splitter[p], aligned', claimed', quarantined')
  BY PlanStable DEF SplitInv, Arrivals
<1>2. NothingDropped'
  BY DEF SplitInv, Arrivals, NothingDropped
<1> QED BY <1>1, <1>2 DEF SplitInv, Arrivals

LEMMA AttachStep ==
  ASSUME SplitInv,
         \/ \E m \in SplitMentions, ent \in SplitEnts : AttachMention(m, ent)
         \/ \E a \in DOMAIN AlignmentEnds : AttachAlignment(a)
         \/ \E c \in Claims, ent \in SplitEnts : AttachClaim(c, ent)
  PROVE  SplitInv'
<1> SUFFICES Arrivals
  BY ArrivalsKeep
<1> USE DEF SplitInv, Arrivals, AttachedOK
<1>1. CASE \E m \in SplitMentions, ent \in SplitEnts : AttachMention(m, ent)
  <2>1. PICK m \in SplitMentions, ent \in SplitEnts : AttachMention(m, ent)
    BY <1>1
  <2> DEFINE row == IF ent \in UuidRefs THEN ent ELSE NoTarget
  <2>2. /\ DOMAIN mentionEnt' = DOMAIN mentionEnt \cup {m} /\ mentionEnt'[m] = row
        /\ \A x \in DOMAIN mentionEnt : mentionEnt'[x] = mentionEnt[x]
        /\ mentioned' = mentioned \cup {<<m, ent>>}
        /\ UNCHANGED <<aligned, claimed, splitter, rebounds, splits, quarantined>>
    BY <2>1 DEF AttachMention, Bind
  <2>3. RowsFollowLedger'
    BY <2>2 DEF RowsFollowLedger
  <2> QED BY <2>2, <2>3
<1>2. CASE \E a \in DOMAIN AlignmentEnds : AttachAlignment(a)
  BY <1>2 DEF AttachAlignment, RowsFollowLedger, AlignmentRefs
<1>3. CASE \E c \in Claims, ent \in SplitEnts : AttachClaim(c, ent)
  BY <1>3 DEF AttachClaim, RowsFollowLedger
<1> QED BY <1>1, <1>2, <1>3

\* One splitter takes a step that commits nothing.
LEMMA Planning ==
  ASSUME SplitInv, NEW p \in Splitters, NEW plan,
         splitter' = [splitter EXCEPT ![p] = plan],
         UNCHANGED <<attachVars, rebounds, splits>>, quarantined \subseteq quarantined',
         PlanOK(plan, aligned, claimed, quarantined')
  PROVE  SplitInv'
<1>1. /\ splitter'[p] = plan /\ \A q \in Splitters \ {p} : splitter'[q] = splitter[q]
      /\ splitter' = [q \in Splitters |-> splitter'[q]]
  BY DEF SplitInv
<1>2. \A q \in Splitters : PlanOK(splitter'[q], aligned, claimed, quarantined')
  BY <1>1, PlanStable DEF SplitInv
<1>3. NothingDropped'
  BY DEF SplitInv, NothingDropped
<1>4. RowsFollowLedger'
  BY DEF SplitInv, RowsFollowLedger, attachVars
<1> QED BY <1>1, <1>2, <1>3, <1>4 DEF SplitInv, AttachedOK, attachVars

LEMMA IdlePlan == \A ends, rows, table : PlanOK(NoPlan, ends, rows, table)
BY DEF PlanOK, NoPlan, IsPlan, Busy

LEMMA BeginStep ==
  ASSUME SplitInv, NEW p \in Splitters, NEW ent \in SplitEnts, BeginSplit(p, ent)
  PROVE  SplitInv'
<1> DEFINE target == [m \in MentionsHeld(ent) |-> DecideMention(m)]
           decided == WithDecisions(NoPlan, target)
           hits == {<<m, decided.assign[m]>> : m \in DOMAIN decided.assign}
           plan == [decided EXCEPT !.pc = "mentions", !.ent = ent, !.hits = hits,
                                   !.owed = AttachedTo(ent)]
<1>1. /\ splitter' = [splitter EXCEPT ![p] = plan]
      /\ UNCHANGED <<attachVars, rebounds, splits, quarantined>>
  BY DEF BeginSplit
<1>2. DOMAIN target = MentionsHeld(ent)
  OBVIOUS
<1>3. IsPlan(NoPlan) /\ Decided(NoPlan) = {} /\ DOMAIN NoPlan.assign = {}
  BY DEF IsPlan, NoPlan, Decided
<1> HIDE DEF target
<1>4. /\ IsPlan(decided) /\ DOMAIN decided.assign \cap decided.refused = {}
      /\ Decided(decided) = MentionsHeld(ent)
  <2> HIDE DEF decided
  <2>1. decided = WithDecisions(NoPlan, target)
    BY DEF decided
  <2>2. /\ IsPlan(decided) /\ Decided(decided) = Decided(NoPlan) \cup DOMAIN target
        /\ DOMAIN NoPlan.assign \cap NoPlan.refused = {} /\ Decided(NoPlan) \cap DOMAIN target = {}
             => DOMAIN decided.assign \cap decided.refused = {}
    BY <1>3, <2>1, Decide
  <2> QED BY <1>2, <1>3, <2>2
<1> HIDE DEF decided, hits
<1>5. plan = [pc |-> "mentions", ent |-> ent, assign |-> decided.assign,
              refused |-> decided.refused, hits |-> hits, owed |-> AttachedTo(ent),
              held |-> decided.held]
  <2> DEFINE owed == AttachedTo(ent)
  <2> HIDE DEF owed, plan
  <2>1. plan = [decided EXCEPT !.pc = "mentions", !.ent = ent, !.hits = hits, !.owed = owed]
    BY DEF plan, owed
  <2>2. plan = [pc |-> "mentions", ent |-> ent, assign |-> decided.assign,
                refused |-> decided.refused, hits |-> hits, owed |-> owed,
                held |-> decided.held]
    BY <1>4, <2>1 DEF IsPlan
  <2> QED BY <2>2 DEF owed
<1>6. Decided(plan) = MentionsHeld(ent)
  BY <1>4, <1>5 DEF Decided
<1>7. /\ MentionsHeld(ent) \subseteq SplitMentions
      /\ AttachedTo(ent) \cap SplitMentions \subseteq MentionsHeld(ent)
      /\ AttachedTo(ent) \subseteq SplitMentions \cup AlignmentRefs \cup Claims
      /\ \A a \in AttachedTo(ent) \cap AlignmentRefs : a \in aligned /\ ent \in AlignmentEnds[a]
      /\ \A c \in AttachedTo(ent) \cap Claims : <<c, ent>> \in claimed
  BY Kinds DEF SplitInv, AttachedOK, AttachedTo, MentionsHeld, AlignmentsHeld, ClaimsHeld
<1> HIDE DEF plan
<1>8. PlanOK(plan, aligned, claimed, quarantined)
  BY <1>4, <1>5, <1>6, <1>7 DEF PlanOK, IsPlan, Busy
<1> QED BY <1>1, <1>8, Planning

\* What a read makes of the plan.
Enumerates(plan, target, pc) == [WithDecisions(plan, target) EXCEPT !.pc = pc]

LEMMA Enumerated ==
  ASSUME NEW plan, IsPlan(plan), NEW target, NEW pc, NEW w,
         w = Enumerates(plan, target, pc),
         DOMAIN plan.assign \cap plan.refused = {}, Decided(plan) \cap DOMAIN target = {}
  PROVE  /\ IsPlan(w) /\ w.pc = pc /\ w.ent = plan.ent /\ w.owed = plan.owed
         /\ DOMAIN w.assign \cap w.refused = {}
         /\ Decided(w) = Decided(plan) \cup DOMAIN target
<1>1. PICK d : d = WithDecisions(plan, target)
  OBVIOUS
<1>2. /\ IsPlan(d) /\ d.ent = plan.ent /\ d.owed = plan.owed
      /\ Decided(d) = Decided(plan) \cup DOMAIN target
      /\ DOMAIN d.assign \cap d.refused = {}
  BY <1>1, Decide
<1>3. w = [d EXCEPT !.pc = pc]
  BY <1>1 DEF Enumerates
<1>4. w = [pc |-> pc, ent |-> d.ent, assign |-> d.assign, refused |-> d.refused,
           hits |-> d.hits, owed |-> d.owed, held |-> d.held]
  BY <1>2, <1>3 DEF IsPlan
<1>5. /\ IsPlan(w) /\ w.pc = pc /\ w.ent = d.ent /\ w.owed = d.owed
      /\ w.assign = d.assign /\ w.refused = d.refused
  BY <1>4 DEF IsPlan
<1>6. Decided(w) = Decided(d)
  BY <1>5 DEF Decided
<1> QED BY <1>2, <1>5, <1>6

LEMMA AlignmentsStep ==
  ASSUME SplitInv, NEW p \in Splitters, EnumerateAlignments(p)
  PROVE  SplitInv'
<1> DEFINE plan == splitter[p]
           target == [a \in AlignmentsHeld(plan.ent) |-> DecideAlignment(a)]
           new == Enumerates(plan, target, "alignments")
<1>1. /\ plan.pc = "mentions" /\ splitter' = [splitter EXCEPT ![p] = new]
      /\ UNCHANGED <<attachVars, rebounds, splits, quarantined>>
  BY DEF EnumerateAlignments, Enumerates
<1>2. /\ PlanOK(plan, aligned, claimed, quarantined) /\ "mentions" \in Busy
      /\ aligned \subseteq AlignmentRefs
  BY DEF SplitInv, AttachedOK, Busy
<1>3. DOMAIN target = AlignmentsHeld(plan.ent)
  OBVIOUS
<1>4. /\ AlignmentsHeld(plan.ent) \subseteq AlignmentRefs
      /\ plan.owed \cap AlignmentRefs \subseteq AlignmentsHeld(plan.ent)
  BY <1>1, <1>2 DEF PlanOK, AlignmentsHeld
<1>5. /\ IsPlan(plan) /\ DOMAIN plan.assign \cap plan.refused = {}
      /\ Decided(plan) \subseteq SplitMentions
  BY <1>1, <1>2 DEF PlanOK
<1> HIDE DEF target
<1>6. Decided(plan) \cap DOMAIN target = {}
  BY <1>3, <1>4, <1>5, Kinds
<1>7. /\ IsPlan(new) /\ new.pc = "alignments" /\ new.ent = plan.ent /\ new.owed = plan.owed
      /\ DOMAIN new.assign \cap new.refused = {}
      /\ Decided(new) = Decided(plan) \cup DOMAIN target
  BY <1>5, <1>6, Enumerated
<1> HIDE DEF new, plan
<1>8. PlanOK(new, aligned, claimed, quarantined)
  BY <1>1, <1>2, <1>3, <1>4, <1>5, <1>7 DEF PlanOK, Busy
<1> QED BY <1>1, <1>8, Planning

LEMMA ClaimsStep ==
  ASSUME SplitInv, NEW p \in Splitters, EnumerateClaims(p)
  PROVE  SplitInv'
<1> DEFINE plan == splitter[p]
           target == [c \in ClaimsHeld(plan.ent) |-> DominantTarget(plan.hits)]
           new == Enumerates(plan, target, "planned")
<1>1. /\ plan.pc = "alignments" /\ splitter' = [splitter EXCEPT ![p] = new]
      /\ UNCHANGED <<attachVars, rebounds, splits, quarantined>>
  BY DEF EnumerateClaims, Enumerates
<1>2. PlanOK(plan, aligned, claimed, quarantined) /\ "alignments" \in Busy
  BY DEF SplitInv, Busy
<1>3. DOMAIN target = ClaimsHeld(plan.ent)
  OBVIOUS
<1>4. /\ ClaimsHeld(plan.ent) \subseteq Claims
      /\ plan.owed \cap Claims \subseteq ClaimsHeld(plan.ent)
  BY <1>1, <1>2 DEF PlanOK, ClaimsHeld
<1>5. /\ IsPlan(plan) /\ DOMAIN plan.assign \cap plan.refused = {}
      /\ Decided(plan) \subseteq SplitMentions \cup AlignmentRefs
  BY <1>1, <1>2 DEF PlanOK
<1> HIDE DEF target
<1>6. Decided(plan) \cap DOMAIN target = {}
  BY <1>3, <1>4, <1>5, Kinds
<1>7. /\ IsPlan(new) /\ new.pc = "planned" /\ new.ent = plan.ent /\ new.owed = plan.owed
      /\ DOMAIN new.assign \cap new.refused = {}
      /\ Decided(new) = Decided(plan) \cup DOMAIN target
  BY <1>5, <1>6, Enumerated
<1> HIDE DEF new, plan
<1>8. PlanOK(new, aligned, claimed, quarantined)
  BY <1>1, <1>2, <1>3, <1>4, <1>5, <1>7 DEF PlanOK, Busy
<1> QED BY <1>1, <1>8, Planning

LEMMA QuarantineStep ==
  ASSUME SplitInv, NEW p \in Splitters, QuarantineRefs(p)
  PROVE  SplitInv'
<1> DEFINE plan == splitter[p]
           new == [plan EXCEPT !.pc = "quarantined"]
<1>1. /\ plan.pc = "planned" /\ splitter' = [splitter EXCEPT ![p] = new]
      /\ quarantined' = quarantined \cup plan.refused
      /\ UNCHANGED <<attachVars, rebounds, splits>>
  BY DEF QuarantineRefs, SplitInv
<1>2. PlanOK(plan, aligned, claimed, quarantined) /\ "planned" \in Busy
  BY DEF SplitInv, Busy
<1> HIDE DEF plan
<1>3. PICK w : w = new
  OBVIOUS
<1>4. w = [pc |-> "quarantined", ent |-> plan.ent, assign |-> plan.assign,
           refused |-> plan.refused, hits |-> plan.hits, owed |-> plan.owed,
           held |-> plan.held]
  BY <1>2, <1>3 DEF PlanOK, IsPlan
<1>5. PlanOK(w, aligned, claimed, quarantined')
  <2>1. Decided(w) = Decided(plan)
    BY <1>4 DEF Decided
  <2> QED BY <1>1, <1>2, <1>4, <2>1 DEF PlanOK, IsPlan, Busy
<1>6. splitter' = [splitter EXCEPT ![p] = w]
  BY <1>1, <1>3
<1> QED BY <1>1, <1>5, <1>6, Planning

LEMMA DiesStep ==
  ASSUME SplitInv, NEW p \in Splitters, SplitDies(p)
  PROVE  SplitInv'
<1>1. /\ splitter' = [splitter EXCEPT ![p] = NoPlan]
      /\ UNCHANGED <<attachVars, rebounds, splits, quarantined>>
  BY DEF SplitDies
<1> QED BY <1>1, IdlePlan, Planning

LEMMA AppendAny ==
  ASSUME NEW s, NEW x, IsSequence(s)
  PROVE  /\ IsSequence(Append(s, x))
         /\ DOMAIN Append(s, x) = DOMAIN s \cup {Len(s) + 1} /\ Len(s) + 1 \notin DOMAIN s
         /\ Append(s, x)[Len(s) + 1] = x /\ \A i \in DOMAIN s : Append(s, x)[i] = s[i]
<1>1. PICK S : s \in Seq(S)
  BY DEF IsSequence
<1>2. s \in Seq(S \cup {x}) /\ x \in S \cup {x}
  BY <1>1
<1>3. Append(s, x) \in Seq(S \cup {x})
  BY <1>2
<1> QED BY <1>2, <1>3 DEF IsSequence

\* The rebindings of a commit come behind those there were, one for each
\* reference it bound.
LEMMA CommitSplitStep ==
  ASSUME SplitInv, NEW p \in Splitters, CommitSplit(p)
  PROVE  SplitInv'
<1> DEFINE plan == splitter[p]
           bound == DOMAIN plan.assign
           order == SetToSeq(bound)
           new == [plan EXCEPT !.held = AttachedTo(plan.ent)]
           t == [i \in DOMAIN order |-> <<order[i], plan.ent, plan.assign[order[i]]>>]
<1>1. /\ plan.pc = "quarantined" /\ splits' = Append(splits, new) /\ rebounds' = rebounds \o t
      /\ mentionEnt' = [m \in DOMAIN mentionEnt |-> RebindRow(m, plan)]
      /\ splitter' = [splitter EXCEPT ![p] = NoPlan]
      /\ UNCHANGED <<mentioned, aligned, claimed, quarantined>>
  BY DEF CommitSplit
<1>2. PlanOK(plan, aligned, claimed, quarantined) /\ "quarantined" \in Busy
  BY DEF SplitInv, Busy
<1>3. /\ IsPlan(plan) /\ bound \cap plan.refused = {} /\ plan.refused \subseteq quarantined
      /\ plan.owed \subseteq bound \cup plan.refused
      /\ bound \subseteq SplitMentions \cup AlignmentRefs \cup Claims
  BY <1>1, <1>2 DEF PlanOK, Decided
<1>4. IsFiniteSet(bound)
  <2>1. IsFiniteSet(SplitMentions \cup AlignmentRefs \cup Claims)
    BY Kinds, FS_Union
  <2> QED BY <1>3, <2>1, FS_Subset
<1> HIDE DEF plan
<1>5. /\ Cardinality(bound) \in Nat /\ order \in [1..Cardinality(bound) -> bound]
      /\ \A x \in bound : \E i \in 1..Cardinality(bound) : order[i] = x
  <2> HIDE DEF bound
  <2> QED BY <1>4, SetInOrder
<1> HIDE DEF order
<1> DEFINE T == {<<x, plan.ent, plan.assign[x]>> : x \in bound}
<1>6. /\ t \in [1..Cardinality(bound) -> T]
      /\ \A i \in 1..Cardinality(bound) : t[i] = <<order[i], plan.ent, plan.assign[order[i]]>>
  BY <1>5
<1>7. /\ IsSequence(rebounds')
      /\ \A i \in DOMAIN rebounds : i \in DOMAIN rebounds' /\ rebounds'[i] = rebounds[i]
      /\ \A i \in 1..Cardinality(bound) :
           Len(rebounds) + i \in DOMAIN rebounds' /\ rebounds'[Len(rebounds) + i] = t[i]
  <2>1. PICK n \in Nat : n = Cardinality(bound)
    BY <1>5
  <2>2. IsSequence(rebounds) /\ rebounds' = rebounds \o t
    BY <1>1 DEF SplitInv
  <2> HIDE DEF t, bound, T
  <2>3. IsSequence(t) /\ DOMAIN t = 1..n
    <3>1. t \in [1..n -> T]
      BY <1>6, <2>1
    <3>2. t \in Seq(T)
      BY <3>1
    <3> QED BY <3>1, <3>2 DEF IsSequence
  <2>4. /\ IsSequence(rebounds')
        /\ \A i \in DOMAIN rebounds : i \in DOMAIN rebounds' /\ rebounds'[i] = rebounds[i]
        /\ \A i \in DOMAIN t : /\ Len(rebounds) + i \in DOMAIN rebounds'
                               /\ rebounds'[Len(rebounds) + i] = t[i]
    <3>1. PICK S : rebounds \in Seq(S)
      BY <2>2 DEF IsSequence
    <3>2. PICK U : t \in Seq(U)
      BY <2>3 DEF IsSequence
    <3>3. rebounds \in Seq(S \cup U) /\ t \in Seq(S \cup U)
      BY <3>1, <3>2
    <3>4. rebounds \o t \in Seq(S \cup U)
      BY <3>3
    <3>5. \A i \in DOMAIN rebounds :
            i \in DOMAIN (rebounds \o t) /\ (rebounds \o t)[i] = rebounds[i]
      BY <3>3
    <3>6. \A i \in DOMAIN t :
            Len(rebounds) + i \in DOMAIN (rebounds \o t) /\ (rebounds \o t)[Len(rebounds) + i] = t[i]
      BY <3>3
    <3> QED BY <2>2, <3>4, <3>5, <3>6 DEF IsSequence
  <2> QED BY <2>1, <2>3, <2>4
<1>8. new.owed = plan.owed /\ new.assign = plan.assign /\ new.refused = plan.refused
  <2>1. PICK w : w = new
    OBVIOUS
  <2>2. w.owed = plan.owed /\ w.assign = plan.assign /\ w.refused = plan.refused
    BY <1>3, <2>1 DEF IsPlan
  <2> QED BY <2>1, <2>2
<1>9. \A m \in bound : \E i \in DOMAIN rebounds' :
        rebounds'[i][1] = m /\ rebounds'[i][3] = plan.assign[m]
  <2> TAKE m \in bound
  <2>1. PICK i \in 1..Cardinality(bound) : order[i] = m
    BY <1>5
  <2>2. t[i] = <<m, plan.ent, plan.assign[m]>>
    BY <1>6, <2>1
  <2>3. Len(rebounds) + i \in DOMAIN rebounds' /\ rebounds'[Len(rebounds) + i] = t[i]
    BY <1>7
  <2> HIDE DEF t, bound
  <2> QED BY <2>2, <2>3
<1> HIDE DEF t, new
<1>10. NothingDropped' /\ IsSequence(splits')
  <2>1. IsSequence(splits) /\ splits' = Append(splits, new)
    BY <1>1 DEF SplitInv
  <2>2. /\ IsSequence(splits')
        /\ DOMAIN splits' = DOMAIN splits \cup {Len(splits) + 1}
        /\ splits'[Len(splits) + 1] = new /\ \A i \in DOMAIN splits : splits'[i] = splits[i]
    BY <2>1, AppendAny
  <2> QED BY <1>1, <1>3, <1>8, <2>2 DEF SplitInv, NothingDropped
<1>11. RowsFollowLedger'
  <2> SUFFICES ASSUME NEW m \in DOMAIN mentionEnt', mentionEnt'[m] # NoTarget
               PROVE  /\ mentionEnt'[m] \in UuidRefs
                      /\ \/ <<m, mentionEnt'[m]>> \in mentioned'
                         \/ \E i \in DOMAIN rebounds' :
                              rebounds'[i][1] = m /\ rebounds'[i][3] = mentionEnt'[m]
    BY DEF RowsFollowLedger
  <2>1. m \in DOMAIN mentionEnt /\ mentionEnt'[m] = RebindRow(m, plan)
    BY <1>1
  <2>2. CASE mentionEnt'[m] = mentionEnt[m]
    <3>1. \/ <<m, mentionEnt[m]>> \in mentioned
          \/ \E i \in DOMAIN rebounds : rebounds[i][1] = m /\ rebounds[i][3] = mentionEnt[m]
      BY <2>1, <2>2 DEF SplitInv, RowsFollowLedger
    <3>2. mentionEnt[m] \in UuidRefs
      BY <2>1, <2>2 DEF SplitInv, RowsFollowLedger
    <3> QED BY <1>1, <1>7, <2>2, <3>1, <3>2
  <2>3. CASE mentionEnt'[m] # mentionEnt[m]
    <3>1. m \in bound /\ plan.assign[m] \in UuidRefs /\ mentionEnt'[m] = plan.assign[m]
      BY <2>1, <2>3 DEF RebindRow
    <3> QED BY <1>9, <3>1
  <2> QED BY <2>2, <2>3
<1>12. /\ splitter' = [q \in Splitters |-> splitter'[q]]
       /\ \A q \in Splitters : PlanOK(splitter'[q], aligned', claimed', quarantined')
  BY <1>1, IdlePlan DEF SplitInv
<1>13. AttachedOK'
  BY <1>1 DEF SplitInv, AttachedOK
<1> QED BY <1>7, <1>10, <1>11, <1>12, <1>13 DEF SplitInv

(* Every reference that hung on a split entity when its split began is     *)
(* bound to one target by it or lies in quarantine, whatever arrives, what *)
(* other splits do and which of them die between two reads; and a typed    *)
(* mention row names no entity that the ledger does not.                   *)
THEOREM SplitsLoseNothing == SplitSpec => []SplitsComplete
<1>1. SplitInit => SplitInv
  <2> SUFFICES ASSUME SplitInit PROVE SplitInv
    OBVIOUS
  <2>1. /\ AttachedOK /\ NothingDropped /\ RowsFollowLedger
        /\ IsSequence(splits) /\ IsSequence(rebounds)
    BY DEF SplitInit, IsSequence, AttachedOK, NothingDropped, RowsFollowLedger
  <2>2. splitter = [p \in Splitters |-> NoPlan]
    BY DEF SplitInit
  <2> HIDE DEF NoPlan
  <2> QED BY <2>1, <2>2, IdlePlan DEF SplitInv
<1>2. SplitInv /\ [SplitNext]_splitVars => SplitInv'
  <2> SUFFICES ASSUME SplitInv, [SplitNext]_splitVars PROVE SplitInv'
    OBVIOUS
  <2>1. CASE UNCHANGED splitVars
    BY <2>1 DEF splitVars, attachVars, SplitInv, AttachedOK, NothingDropped, RowsFollowLedger
  <2>2. CASE SplitNext
    BY <2>2, AttachStep, BeginStep, AlignmentsStep, ClaimsStep, QuarantineStep,
       CommitSplitStep, DiesStep DEF SplitNext
  <2> QED BY <2>1, <2>2
<1>3. SplitInv => SplitsComplete
  BY DEF SplitInv, SplitsComplete
<1> QED BY <1>1, <1>2, <1>3, PTL DEF SplitSpec

-----------------------------------------------------------------------------
(* Canonical identities                                                    *)

IsRow(row) ==
  row = [label |-> row.label, aliases |-> row.aliases, support |-> row.support,
         sources |-> row.sources, authority |-> row.authority,
         status |-> row.status, born |-> row.born]

\* A step leaves every identity there, its sources and, for a user's, all of it.
Rows == \A r \in DOMAIN identity : IsRow(identity[r])

RowsKept ==
  /\ Rows'
  /\ \A r \in DOMAIN identity :
       /\ r \in DOMAIN identity' /\ identity[r].sources \subseteq identity'[r].sources
       /\ UserHeld(r) \/ r \in locks => identity'[r] = identity[r]

LEMMA ReestablishKeeps ==
  ASSUME NEW row, IsRow(row), NEW cmd, NEW w, w = Reestablish(row, cmd)
  PROVE  IsRow(w) /\ row.sources \subseteq w.sources /\ w.born = row.born
<1>1. w = [label |-> cmd.meta.label, aliases |-> cmd.meta.aliases,
           support |-> cmd.meta.support, sources |-> row.sources \cup cmd.meta.sources,
           authority |-> row.authority, status |-> cmd.status, born |-> row.born]
  BY DEF Reestablish, IsRow
<1> QED BY <1>1 DEF IsRow

\* The fold of an establishment, on a row it may touch and beside it.
LEMMA FoldKeeps ==
  ASSUME Rows, NEW cmd, identity' = FoldEstablish(cmd)
  PROVE  RowsKept
<1>1. CASE cmd.ref \in locks
  BY <1>1 DEF FoldEstablish, RowsKept, Rows
<1>2. CASE cmd.ref \notin locks /\ cmd.ref \in DOMAIN identity /\ UserHeld(cmd.ref)
  BY <1>2 DEF FoldEstablish, RowsKept, Rows
<1>3. CASE cmd.ref \notin locks /\ cmd.ref \in DOMAIN identity /\ ~UserHeld(cmd.ref)
  <2>1. PICK w : w = Reestablish(identity[cmd.ref], cmd)
    OBVIOUS
  <2>2. identity' = [identity EXCEPT ![cmd.ref] = w]
    BY <1>3, <2>1 DEF FoldEstablish
  <2>3. IsRow(w) /\ identity[cmd.ref].sources \subseteq w.sources
    BY <1>3, <2>1, ReestablishKeeps DEF Rows
  <2> QED BY <1>3, <2>2, <2>3 DEF RowsKept, Rows
<1>4. CASE cmd.ref \notin locks /\ cmd.ref \notin DOMAIN identity
  <2>1. PICK w : w = NewIdentity(cmd)
    OBVIOUS
  <2>2. IsRow(w)
    BY <2>1 DEF NewIdentity, IsRow
  <2>3. identity' = [r \in DOMAIN identity \cup {cmd.ref} |->
                       IF r = cmd.ref THEN w ELSE identity[r]]
    BY <1>4, <2>1 DEF FoldEstablish
  <2> QED BY <1>4, <2>2, <2>3 DEF RowsKept, Rows
<1> QED BY <1>1, <1>2, <1>3, <1>4

LEMMA UserStepKeeps ==
  ASSUME Rows, NEW r \in DOMAIN identity, ConfirmIdentity(r) \/ InvalidateIdentity(r)
  PROVE  RowsKept
<1>1. ~UserHeld(r) /\ r \notin locks
  BY DEF ConfirmIdentity, InvalidateIdentity
<1>2. PICK w : /\ identity' = [identity EXCEPT ![r] = w]
               /\ \/ w = [identity[r] EXCEPT !.authority = "USER_OVERRIDE",
                                              !.status = "USER_CONFIRMED", !.label = "confirmed"]
                  \/ w = [identity[r] EXCEPT !.status = "INVALIDATED"]
  BY DEF ConfirmIdentity, InvalidateIdentity
<1>3. IsRow(w) /\ w.sources = identity[r].sources
  <2>1. PICK row : row = identity[r] /\ IsRow(row)
    BY DEF Rows
  <2> QED BY <1>2, <2>1 DEF IsRow
<1> QED BY <1>1, <1>2, <1>3 DEF RowsKept, Rows

LEMMA IdentityKept ==
  ASSUME Rows, [ResNext]_resVars
  PROVE  RowsKept
<1>1. CASE UNCHANGED identity
  BY <1>1 DEF RowsKept, Rows
<1>2. ASSUME NEW s \in ResSources, ApplyCommand(s), identity' # identity
      PROVE  RowsKept
  BY <1>2, FoldKeeps DEF ApplyCommand, CommitCommand
<1>3. ASSUME NEW r \in DOMAIN identity, ConfirmIdentity(r) \/ InvalidateIdentity(r)
      PROVE  RowsKept
  BY <1>3, UserStepKeeps
<1>4. CASE UNCHANGED resVars
  BY <1>1, <1>4 DEF resVars, identityVars
<1>5. CASE ResNext
  BY <1>1, <1>2, <1>3, <1>5 DEF ResNext, Extract, BeginResolution, CrashResolution,
     AlignIdentities, LockIdentity, RecordCorrespondence, identityVars
<1> QED BY <1>4, <1>5

(* No command of a stage, applied late, again after a death or beside those *)
(* of another source, changes an identity that a user confirmed or locked.  *)
THEOREM UserIdentitiesKept == ResSpec => UserIdentityKept
<1>1. ResInit => Rows
  BY DEF ResInit, Rows
<1>2. Rows /\ [ResNext]_resVars => Rows'
  BY IdentityKept DEF RowsKept
<1>3. Rows /\ [ResNext]_resVars =>
        [\A r \in DOMAIN identity :
           UserHeld(r) \/ r \in locks => identity'[r] = identity[r]]_resVars
  BY IdentityKept DEF RowsKept
<1> QED BY <1>1, <1>2, <1>3, PTL DEF ResSpec, UserIdentityKept

(* An identity keeps every source that ever fed it, whichever source's run  *)
(* establishes it again and whatever a user does to it.                     *)
THEOREM MembershipsKept == ResSpec => MembershipAccumulates
<1>1. ResInit => Rows
  BY DEF ResInit, Rows
<1>2. Rows /\ [ResNext]_resVars => Rows'
  BY IdentityKept DEF RowsKept
<1>3. Rows /\ [ResNext]_resVars =>
        [\A r \in DOMAIN identity : identity[r].sources \subseteq identity'[r].sources]_resVars
  BY IdentityKept DEF RowsKept
<1> QED BY <1>1, <1>2, <1>3, PTL DEF ResSpec, MembershipAccumulates

-----------------------------------------------------------------------------
(* Sets in order                                                           *)

\* What comes before what in a set: never itself, and all the way.
Precedes(before, S) ==
  /\ \A x \in S : <<x, x>> \notin before
  /\ \A x, y, z \in S : <<x, y>> \in before /\ <<y, z>> \in before => <<x, z>> \in before

IsOrdering(s, S, before) ==
  /\ s \in [1..Cardinality(S) -> S]
  /\ Range(s) = S
  /\ \A i, j \in DOMAIN s : i < j => <<s[j], s[i]>> \notin before

\* Among the members with the fewest others behind them, one is last.
LEMMA LastExists ==
  ASSUME NEW S, IsFiniteSet(S), S # {}, NEW before, Precedes(before, S)
  PROVE  \E x \in S : \A y \in S : <<x, y>> \notin before
<1> DEFINE Behind(x) == {y \in S : <<x, y>> \in before}
           Sizes == {Cardinality(Behind(x)) : x \in S}
<1>1. \A x \in S : IsFiniteSet(Behind(x)) /\ Cardinality(Behind(x)) \in Nat
  <2> TAKE x \in S
  <2>1. Behind(x) \in SUBSET S
    OBVIOUS
  <2> HIDE DEF Behind
  <2>2. IsFiniteSet(Behind(x))
    BY <2>1, FS_Subset
  <2> QED BY <2>2, FS_CardinalityType
<1>2. Sizes \in SUBSET Nat /\ Sizes # {}
  BY <1>1
<1>3. PICK n \in Sizes : \A m \in Sizes : n <= m
  BY <1>2, LeastExists
<1>4. PICK x \in S : n = Cardinality(Behind(x))
  BY <1>3
<1>5. SUFFICES ASSUME NEW y \in S, <<x, y>> \in before PROVE FALSE
  OBVIOUS
<1>6. Behind(y) \in SUBSET Behind(x) /\ y \in Behind(x) /\ y \notin Behind(y)
  BY <1>5 DEF Precedes
<1>7. Cardinality(Behind(x)) <= Cardinality(Behind(y))
  BY <1>3, <1>4
<1> HIDE DEF Behind
<1>8. Cardinality(Behind(y)) <= Cardinality(Behind(x))
      /\ (Cardinality(Behind(x)) = Cardinality(Behind(y)) => Behind(x) = Behind(y))
  BY <1>1, <1>6, FS_Subset
<1> QED BY <1>1, <1>6, <1>7, <1>8

LEMMA OneMoreInOrder ==
  ASSUME NEW S, IsFiniteSet(S), NEW x \in S, NEW before, \A y \in S : <<x, y>> \notin before,
         NEW t, IsOrdering(t, S \ {x}, before)
  PROVE  \E s : IsOrdering(s, S, before)
<1> DEFINE n == Cardinality(S)
<1>1. n \in Nat /\ Cardinality(S \ {x}) = n - 1 /\ n # 0
  BY FS_RemoveElement, FS_CardinalityType, FS_EmptySet
<1> HIDE DEF n
<1>2. /\ t \in [1..(n - 1) -> S \ {x}] /\ Range(t) = S \ {x}
      /\ \A i, j \in 1..(n - 1) : i < j => <<t[j], t[i]>> \notin before
  BY <1>1 DEF IsOrdering
<1>3. PICK s : s = [i \in 1..n |-> IF i = n THEN x ELSE t[i]]
  OBVIOUS
<1>4. n \in 1..n /\ s[n] = x /\ \A i \in 1..n : i # n => i \in 1..(n - 1)
  BY <1>1, <1>3
<1>5. \A i \in 1..(n - 1) : i \in 1..n /\ s[i] = t[i]
  BY <1>1, <1>3
<1>6. DOMAIN s = 1..n /\ s \in [1..n -> S]
  BY <1>2, <1>3, <1>4
<1>7. \A y \in S : \E i \in 1..n : s[i] = y
  <2> TAKE y \in S
  <2>1. CASE y = x
    BY <1>4, <2>1
  <2>2. CASE y # x
    <3>1. PICK i \in 1..(n - 1) : t[i] = y
      BY <1>2, <2>2 DEF Range
    <3> QED BY <1>5, <3>1
  <2> QED BY <2>1, <2>2
<1>8. Range(s) = S
  BY <1>6, <1>7 DEF Range
<1>9. \A i, j \in 1..n : i < j => <<s[j], s[i]>> \notin before
  <2> TAKE i, j \in 1..n
  <2> HAVE i < j
  <2>1. i # n /\ s[i] \in S
    BY <1>1, <1>6
  <2>2. CASE j = n
    BY <1>4, <2>1, <2>2
  <2>3. CASE j # n
    BY <1>2, <1>4, <1>5, <2>1, <2>3
  <2> QED BY <2>2, <2>3
<1> QED BY <1>6, <1>8, <1>9 DEF IsOrdering, n

LEMMA OrderingExists ==
  ASSUME NEW before, NEW U, IsFiniteSet(U), Precedes(before, U)
  PROVE  \E s : IsOrdering(s, U, before)
<1> DEFINE Unordered == {S \in SUBSET U : ~ \E s : IsOrdering(s, S, before)}
           Sizes == {Cardinality(S) : S \in Unordered}
<1>1. \A S \in SUBSET U : IsFiniteSet(S) /\ Cardinality(S) \in Nat
  BY FS_Subset, FS_CardinalityType
<1> SUFFICES ASSUME Unordered # {} PROVE FALSE
  OBVIOUS
<1>2. Sizes \in SUBSET Nat /\ Sizes # {}
  BY <1>1
<1>3. PICK n \in Sizes : \A m \in Sizes : n <= m
  BY <1>2, LeastExists
<1>4. PICK S \in Unordered : n = Cardinality(S)
  BY <1>3
<1>5. S \in SUBSET U /\ IsFiniteSet(S) /\ Precedes(before, S)
  BY <1>1 DEF Precedes
<1>6. CASE S = {}
  <2>1. Cardinality(S) = 0 /\ 1..0 = {}
    BY <1>6, FS_EmptySet
  <2>2. PICK s : s = [i \in 1..0 |-> 0]
    OBVIOUS
  <2>3. s \in [1..0 -> S] /\ DOMAIN s = {} /\ Range(s) = {}
    BY <2>1, <2>2 DEF Range
  <2>4. IsOrdering(s, S, before)
    BY <1>6, <2>1, <2>3 DEF IsOrdering
  <2> QED BY <1>4, <2>4
<1>7. CASE S # {}
  <2>1. PICK x \in S : \A y \in S : <<x, y>> \notin before
    BY <1>5, <1>7, LastExists
  <2>2. Cardinality(S \ {x}) = Cardinality(S) - 1 /\ S \ {x} \in SUBSET U
    BY <1>5, FS_RemoveElement
  <2>3. S \ {x} \notin Unordered
    <3>1. ~ (n <= Cardinality(S \ {x}))
      BY <1>1, <1>4, <1>5, <2>2
    <3> QED BY <1>3, <3>1
  <2>4. PICK t : IsOrdering(t, S \ {x}, before)
    BY <2>2, <2>3
  <2> QED BY <1>4, <1>5, <2>1, <2>4, OneMoreInOrder
<1> QED BY <1>6, <1>7

\* InOrder lists a finite set, whenever what it goes by is an order.
LEMMA InOrderIs ==
  ASSUME NEW S, IsFiniteSet(S), NEW before, Precedes(before, S)
  PROVE  /\ InOrder(S, before) \in Seq(S) /\ Range(InOrder(S, before)) = S
         /\ Cardinality(S) \in Nat /\ DOMAIN InOrder(S, before) = 1..Cardinality(S)
         /\ Len(InOrder(S, before)) = Cardinality(S)
         /\ \A i, j \in 1..Cardinality(S) :
              i # j => InOrder(S, before)[i] # InOrder(S, before)[j]
<1>1. \E s \in [1..Cardinality(S) -> S] : Range(s) = S
        /\ \A i, j \in DOMAIN s : i < j => <<s[j], s[i]>> \notin before
  BY OrderingExists DEF IsOrdering
<1>2. InOrder(S, before) \in [1..Cardinality(S) -> S] /\ Range(InOrder(S, before)) = S
  BY <1>1, Zenon DEF InOrder
<1>3. Cardinality(S) \in Nat
  BY FS_CardinalityType
<1> DEFINE n == Cardinality(S)
           s == InOrder(S, before)
<1>4. s \in Surjection(1..n, S)
  BY <1>2 DEF Surjection, Range
<1>5. IsFiniteSet(1..n) /\ Cardinality(1..n) = n
  BY <1>3, FS_Interval
<1> HIDE DEF s
<1>6. s \in Injection(1..n, S)
  BY <1>4, <1>5, FS_Surjection
<1>7. \A i, j \in 1..n : i # j => s[i] # s[j]
  BY <1>6 DEF Injection, IsInjective
<1> QED BY <1>2, <1>3, <1>7, MapIsSequence DEF s

LEMMA LeastIs ==
  ASSUME NEW S \in SUBSET Nat, S # {}
  PROVE  Min(S) \in S /\ Min(S) \in Nat /\ \A y \in S : Min(S) <= y
<1>1. \E x \in S : \A y \in S : x <= y
  BY LeastExists
<1>2. Min(S) \in S /\ \A y \in S : Min(S) <= y
  BY <1>1 DEF Min
<1> QED BY <1>2

LEMMA ByIdIs ==
  ASSUME NEW S \in SUBSET MentionIds
  PROVE  /\ IsFiniteSet(S) /\ ById(S) \in Seq(S) /\ Range(ById(S)) = S
         /\ DOMAIN ById(S) = 1..Len(ById(S))
<1> DEFINE before == {p \in S \X S : p[1] < p[2]}
<1>1. IsFiniteSet(S) /\ S \subseteq Nat
  BY ResConstants, FS_Subset
<1>2. \A x, y \in S : <<x, y>> \in before <=> x < y
  OBVIOUS
<1>3. Precedes(before, S)
  <2> HIDE DEF before
  <2> QED BY <1>1, <1>2 DEF Precedes
<1>4. ById(S) = InOrder(S, before)
  BY DEF ById
<1> QED BY <1>1, <1>3, <1>4, InOrderIs

-----------------------------------------------------------------------------
(* Links                                                                   *)

LEMMA ScoreIsInteger ==
  ASSUME NEW m, NEW n, NEW seed
  PROVE  LinkScore(m, n, seed) \in Int
<1>1. \A k : IsFiniteSet(FormSet(k)) /\ FormSet(k) # {}
  <2> TAKE k
  <2>1. IsFiniteSet({profile[k].alias}) /\ IsFiniteSet({profile[k].name})
    BY FS_Singleton
  <2>2. IsFiniteSet({profile[k].alias} \ {""})
    BY <2>1, FS_Difference
  <2>3. IsFiniteSet({profile[k].name} \cup ({profile[k].alias} \ {""}))
    BY <2>1, <2>2, FS_Union
  <2> QED BY <2>3 DEF FormSet
<1> DEFINE both == FormSet(m) \cap FormSet(n)
           all == FormSet(m) \cup FormSet(n)
<1>2. IsFiniteSet(both) /\ IsFiniteSet(all) /\ all # {}
  BY <1>1, FS_Intersection, FS_Union
<1>3. Cardinality(both) \in Nat /\ Cardinality(all) \in Nat /\ Cardinality(all) # 0
  BY <1>2, FS_CardinalityType, FS_EmptySet
<1>4. LinkScore(m, n, seed) = (70 * Cardinality(both)) \div Cardinality(all)
          + 5 + (IF seed[m] # NoCanon /\ seed[m] = seed[n] THEN 10 ELSE 0)
  BY DEF LinkScore
<1> HIDE DEF both, all
<1>5. \A a, b \in Nat : b # 0 => a \div b \in Int
  OBVIOUS
<1>6. 70 * Cardinality(both) \in Nat
  BY <1>3
<1>7. (70 * Cardinality(both)) \div Cardinality(all) \in Int
  BY <1>3, <1>5, <1>6
<1> QED BY <1>4, <1>7

LEMMA ByScoreIs ==
  ASSUME NEW m, NEW S \in SUBSET MentionIds, NEW seed
  PROVE  ByScore(m, S, seed) \in Seq(S)
<1> DEFINE before == {p \in S \X S : \/ LinkScore(m, p[1], seed) > LinkScore(m, p[2], seed)
                        \/ /\ LinkScore(m, p[1], seed) = LinkScore(m, p[2], seed)
                           /\ p[1] < p[2]}
<1>1. IsFiniteSet(S) /\ S \subseteq Nat
  BY ByIdIs, ResConstants
<1>2. PICK score : score = [n \in S |-> LinkScore(m, n, seed)]
  OBVIOUS
<1>3. \A n \in S : score[n] = LinkScore(m, n, seed) /\ score[n] \in Int
  BY <1>2, ScoreIsInteger
<1>4. \A x, y \in S : <<x, y>> \in before <=>
        score[x] > score[y] \/ (score[x] = score[y] /\ x < y)
  BY <1>3
<1>5. Precedes(before, S)
  <2> HIDE DEF before
  <2> QED BY <1>1, <1>3, <1>4 DEF Precedes
<1>6. ByScore(m, S, seed) = InOrder(S, before)
  BY DEF ByScore
<1> QED BY <1>1, <1>5, <1>6, InOrderIs

LEMMA TargetIsHere ==
  ASSUME NEW here \in SUBSET MentionIds, NEW n \in here, NEW seed
  PROVE  CandidateTarget(n, here, seed) \in here
<1> DEFINE same == {k \in here : seed[k] = seed[n]}
<1>1. same \in SUBSET Nat /\ same # {}
  BY ResConstants
<1>2. Min(same) \in same
  BY <1>1, LeastIs
<1> QED BY <1>2 DEF CandidateTarget

LEMMA StrongLinksAre ==
  ASSUME NEW here \in SUBSET MentionIds, NEW m \in here, NEW seed
  PROVE  StrongLinks(m, here, seed) \in Seq(here \X here)
<1> DEFINE hits == ByScore(m, StrongHits(m, here, seed), seed)
<1>1. StrongHits(m, here, seed) \in SUBSET here
  BY DEF StrongHits, HitsFor
<1>2. hits \in Seq(StrongHits(m, here, seed))
  BY <1>1, ByScoreIs
<1>3. StrongLinks(m, here, seed) = [i \in DOMAIN hits |-> <<m, CandidateTarget(hits[i], here, seed)>>]
  BY DEF StrongLinks
<1> HIDE DEF hits
<1>4. DOMAIN hits = 1..Len(hits) /\ Len(hits) \in Nat /\ \A i \in 1..Len(hits) : hits[i] \in here
  BY <1>1, <1>2
<1>5. \A i \in 1..Len(hits) : <<m, CandidateTarget(hits[i], here, seed)>> \in here \X here
  BY <1>4, TargetIsHere
<1>6. StrongLinks(m, here, seed) \in [1..Len(hits) -> here \X here]
  BY <1>3, <1>4, <1>5
<1> QED BY <1>4, <1>6, MapIsSequence

LEMMA AliasLinksAre ==
  ASSUME NEW here \in SUBSET MentionIds
  PROVE  AliasLinks(here) \in Seq(here \X here)
<1> DEFINE told == {m \in here : profile[m].alias # "" /\ RealMentions(m, here) # {}}
           aliases == ById(told)
<1>1. told \in SUBSET here /\ told \in SUBSET MentionIds /\ \A m \in told : RealMentions(m, here) # {}
  OBVIOUS
<1>2. AliasLinks(here) = [i \in DOMAIN aliases |-> <<aliases[i], Min(RealMentions(aliases[i], here))>>]
  BY DEF AliasLinks
<1> HIDE DEF told
<1>3. aliases \in Seq(told)
  BY <1>1, ByIdIs
<1> HIDE DEF aliases
<1>4. DOMAIN aliases = 1..Len(aliases) /\ Len(aliases) \in Nat
      /\ \A i \in 1..Len(aliases) : aliases[i] \in told
  BY <1>3
<1>5. \A m \in told : m \in here /\ Min(RealMentions(m, here)) \in here
  <2> TAKE m \in told
  <2>1. RealMentions(m, here) \in SUBSET here
    BY DEF RealMentions
  <2>2. RealMentions(m, here) \in SUBSET Nat /\ RealMentions(m, here) # {}
    BY <1>1, <2>1, ResConstants
  <2>3. Min(RealMentions(m, here)) \in RealMentions(m, here)
    BY <2>2, LeastIs
  <2> QED BY <1>1, <2>1, <2>3
<1>6. AliasLinks(here) \in [1..Len(aliases) -> here \X here]
  BY <1>2, <1>4, <1>5
<1> QED BY <1>4, <1>6, MapIsSequence

-----------------------------------------------------------------------------
(* Clusters                                                                *)

\* A mention is in its own component, which names at most one identity.
Clustered(part, here, seed) ==
  /\ part = [m \in here |-> part[m]]
  /\ \A m \in here : /\ m \in part[m] /\ part[m] \subseteq here
                     /\ \A r, q \in SeedsIn(part[m], seed) : r = q

LEMMA JoinKeeps ==
  ASSUME NEW here, NEW seed, NEW part, Clustered(part, here, seed), NEW a \in here, NEW b \in here
  PROVE  Clustered(Join(part, seed, a, b), here, seed)
<1> DEFINE both == part[a] \cup part[b]
<1>1. CASE \E r, q \in SeedsIn(both, seed) : r # q
  <2>1. Join(part, seed, a, b) = part
    BY <1>1 DEF Join
  <2> QED BY <2>1
<1>2. CASE ~ \E r, q \in SeedsIn(both, seed) : r # q
  <2>1. DOMAIN part = here
    BY DEF Clustered
  <2>2. PICK new : new = [m \in here |-> IF m \in both THEN both ELSE part[m]]
    OBVIOUS
  <2>3. Join(part, seed, a, b) = new
    BY <1>2, <2>1, <2>2 DEF Join
  <2>4. both \subseteq here
    BY DEF Clustered
  <2>5. \A m \in here : /\ m \in new[m] /\ new[m] \subseteq here
                        /\ \A r, q \in SeedsIn(new[m], seed) : r = q
    <3> TAKE m \in here
    <3> HIDE DEF both
    <3>1. CASE m \in both
      <4>1. new[m] = both
        BY <2>2, <3>1
      <4> QED BY <1>2, <2>4, <3>1, <4>1
    <3>2. CASE m \notin both
      <4>1. new[m] = part[m]
        BY <2>2, <3>2
      <4> QED BY <4>1 DEF Clustered
    <3> QED BY <3>1, <3>2
  <2> QED BY <2>2, <2>3, <2>5 DEF Clustered
<1> QED BY <1>1, <1>2

IsJoining(f, part, seed, pairs, N) ==
  f = [i \in 0..N |-> IF i = 0 THEN part
                      ELSE Join(f[i - 1], seed, pairs[i][1], pairs[i][2])]

LEMMA JoiningExists ==
  ASSUME NEW part, NEW seed, NEW pairs
  PROVE  \A N \in Nat : \E f : IsJoining(f, part, seed, pairs, N)
<1> DEFINE S == {N \in Nat : ~ \E f : IsJoining(f, part, seed, pairs, N)}
<1> SUFFICES ASSUME S # {} PROVE FALSE
  OBVIOUS
<1>1. PICK N \in S : \A M \in S : N <= M
  BY LeastExists
<1>2. CASE N = 0
  <2>1. PICK f : f = [n \in 0..N |-> part]
    OBVIOUS
  <2>2. \A n \in 0..N : n = 0
    BY <1>2
  <2>3. IsJoining(f, part, seed, pairs, N)
    BY <2>1, <2>2 DEF IsJoining
  <2> QED BY <1>1, <2>3
<1>3. CASE N # 0
  <2>1. N \in Nat /\ N - 1 \in Nat /\ N - 1 \notin S
    BY <1>1, <1>3
  <2>2. PICK f : IsJoining(f, part, seed, pairs, N - 1)
    BY <2>1
  <2>3. \A n \in 0..(N - 1) :
          f[n] = IF n = 0 THEN part ELSE Join(f[n - 1], seed, pairs[n][1], pairs[n][2])
    BY <2>2, Zenon DEF IsJoining
  <2>4. PICK g : g = [n \in 0..N |-> IF n = N THEN Join(f[N - 1], seed, pairs[N][1], pairs[N][2])
                                     ELSE f[n]]
    OBVIOUS
  <2>5. \A n \in 0..N : n # N => n \in 0..(N - 1) /\ g[n] = f[n]
    BY <2>1, <2>4
  <2>6. \A n \in 0..N : n # 0 => n - 1 \in 0..N /\ g[n - 1] = f[n - 1]
    BY <2>1, <2>5
  <2>7. \A n \in 0..N : g[n] = IF n = 0 THEN part
                               ELSE Join(g[n - 1], seed, pairs[n][1], pairs[n][2])
    <3> TAKE n \in 0..N
    <3>1. CASE n = N
      BY <1>3, <2>4, <2>6, <3>1
    <3>2. CASE n # N
      BY <2>3, <2>5, <2>6, <3>2
    <3> QED BY <3>1, <3>2
  <2>8. IsJoining(g, part, seed, pairs, N)
    BY <2>4, <2>7 DEF IsJoining
  <2> QED BY <1>1, <2>8
<1> QED BY <1>2, <1>3

LEMMA JoinAllKeeps ==
  ASSUME NEW here, NEW seed, NEW part, Clustered(part, here, seed),
         NEW pairs \in Seq(here \X here)
  PROVE  Clustered(JoinAll(part, seed, pairs), here, seed)
<1> DEFINE N == Len(pairs)
           f == CHOOSE g : IsJoining(g, part, seed, pairs, N)
<1>1. N \in Nat /\ \A i \in 1..N : pairs[i][1] \in here /\ pairs[i][2] \in here
  OBVIOUS
<1>2. JoinAll(part, seed, pairs) = f[N]
  BY Zenon DEF JoinAll, IsJoining
<1>3. IsJoining(f, part, seed, pairs, N)
  BY <1>1, JoiningExists, Zenon
<1> HIDE DEF f
<1>4. \A n \in 0..N : f[n] = IF n = 0 THEN part
                             ELSE Join(f[n - 1], seed, pairs[n][1], pairs[n][2])
  BY <1>3, Zenon DEF IsJoining
<1> HIDE DEF N
<1> DEFINE Bad == {n \in 0..N : ~ Clustered(f[n], here, seed)}
<1>5. Bad = {}
  <2> SUFFICES ASSUME Bad # {} PROVE FALSE
    OBVIOUS
  <2>1. Bad \in SUBSET Nat
    BY <1>1
  <2>2. PICK n \in Bad : \A m \in Bad : n <= m
    BY <2>1, LeastExists
  <2>3. n # 0
    BY <1>4, <2>2
  <2>4. n \in 1..N /\ n - 1 \in 0..N /\ ~ (n <= n - 1)
    BY <1>1, <2>2, <2>3
  <2>5. Clustered(f[n - 1], here, seed)
    BY <2>2, <2>4
  <2>6. pairs[n][1] \in here /\ pairs[n][2] \in here
    BY <1>1, <2>4
  <2>7. f[n] = Join(f[n - 1], seed, pairs[n][1], pairs[n][2])
    BY <1>4, <2>2, <2>3
  <2> QED BY <2>2, <2>5, <2>6, <2>7, JoinKeeps
<1>6. N \in 0..N
  BY <1>1
<1> QED BY <1>2, <1>5, <1>6

LEMMA ComponentsAre ==
  ASSUME NEW here \in SUBSET MentionIds, NEW seed
  PROVE  /\ \A comp \in Components(here, seed) :
              /\ comp \in SUBSET here /\ comp # {}
              /\ \A r, q \in SeedsIn(comp, seed) : r = q
         /\ IsFiniteSet(Components(here, seed))
<1> DEFINE ids == ById(here)
           each == [i \in DOMAIN ids |-> StrongLinks(ids[i], here, seed)]
           alone == [m \in here |-> {m}]
           pairs == FlattenSeq(each) \o AliasLinks(here)
           part == JoinAll(alone, seed, pairs)
<1>1. ids \in Seq(here) /\ DOMAIN ids = 1..Len(ids) /\ IsFiniteSet(here)
  BY ByIdIs
<1> HIDE DEF ids
<1>2. Len(ids) \in Nat /\ \A i \in 1..Len(ids) : StrongLinks(ids[i], here, seed) \in Seq(here \X here)
  BY <1>1, StrongLinksAre
<1>3. each \in [1..Len(ids) -> Seq(here \X here)]
  BY <1>1, <1>2
<1> HIDE DEF each
<1>4. each \in Seq(Seq(here \X here))
  BY <1>2, <1>3, MapIsSequence
<1>5. FlattenSeq(each) \in Seq(here \X here)
  BY <1>4, FlattenKeeps
<1>6. pairs \in Seq(here \X here)
  BY <1>5, AliasLinksAre
<1>7. \A m \in here : alone[m] = {m} /\ \A r, q \in SeedsIn(alone[m], seed) : r = q
  BY DEF SeedsIn
<1>8. Clustered(alone, here, seed)
  BY <1>7, Zenon DEF Clustered
<1> HIDE DEF pairs, alone
<1>9. Clustered(part, here, seed)
  BY <1>6, <1>8, JoinAllKeeps
<1>10. Components(here, seed) = {part[m] : m \in here}
  BY DEF Components, part, pairs, each, ids, alone
<1> HIDE DEF part
<1>11. IsFiniteSet({part[m] : m \in here})
  <2>1. {part[m] : m \in here} \in SUBSET (SUBSET here)
    BY <1>9 DEF Clustered
  <2>2. IsFiniteSet(SUBSET here)
    BY <1>1, FS_SUBSET
  <2> QED BY <2>1, <2>2, FS_Subset
<1> QED BY <1>9, <1>10, <1>11 DEF Clustered

-----------------------------------------------------------------------------
(* What a component becomes                                                *)

LEMMA EvidenceNames ==
  ASSUME NEW comp, comp # {}
  PROVE  EvidenceRef(comp) # NoCanon
<1>1. \A m : EvidenceTokens(m) # {}
  BY DEF EvidenceTokens
<1>2. PICK m : m \in comp
  OBVIOUS
<1>3. UNION {EvidenceTokens(k) : k \in comp} # {}
  BY <1>1, <1>2
<1>4. EvidenceRef(comp).tokens = UNION {EvidenceTokens(k) : k \in comp}
  BY DEF EvidenceRef
<1>5. NoCanon.tokens = {}
  BY DEF NoCanon
<1> QED BY <1>3, <1>4, <1>5

\* A component takes the identity one of its mentions has.
LEMMA RefIs ==
  ASSUME NEW comp, comp # {}, NEW seed, \A r, q \in SeedsIn(comp, seed) : r = q
  PROVE  /\ RefOf(comp, seed) # NoCanon
         /\ \A m \in comp : seed[m] # NoCanon => RefOf(comp, seed) = seed[m]
<1>1. CASE SeedsIn(comp, seed) = {}
  <2>1. SeedOf(comp, seed) = NoCanon
    BY <1>1 DEF SeedOf
  <2>2. RefOf(comp, seed) = EvidenceRef(comp)
    BY <2>1 DEF RefOf
  <2>3. \A m \in comp : seed[m] = NoCanon
    BY <1>1 DEF SeedsIn
  <2> QED BY <2>2, <2>3, EvidenceNames
<1>2. CASE SeedsIn(comp, seed) # {}
  <2>1. SeedOf(comp, seed) = CHOOSE r \in SeedsIn(comp, seed) : TRUE
    BY <1>2 DEF SeedOf
  <2>2. SeedOf(comp, seed) \in SeedsIn(comp, seed)
    BY <1>2, <2>1
  <2>3. SeedOf(comp, seed) # NoCanon
    BY <2>2 DEF SeedsIn
  <2>4. RefOf(comp, seed) = SeedOf(comp, seed)
    BY <2>3 DEF RefOf
  <2>5. \A m \in comp : seed[m] # NoCanon => seed[m] \in SeedsIn(comp, seed)
    BY DEF SeedsIn
  <2> QED BY <2>2, <2>3, <2>4, <2>5
<1> QED BY <1>1, <1>2

IsEstablishmentOf(cmd, comp, seed) ==
  /\ cmd.kind = "ESTABLISH" /\ cmd.ref = RefOf(comp, seed) /\ cmd.meta.support = comp
  /\ cmd.status = "PROBABLE" => SeedOf(comp, seed) = NoCanon

LEMMA OneOf ==
  ASSUME NEW S, NEW x \in S
  PROVE  <<x>> \in Seq(S) /\ Range(<<x>>) = {x}
<1>1. PICK s : s = <<x>>
  OBVIOUS
<1>2. s \in Seq(S) /\ DOMAIN s = {1} /\ s[1] = x
  BY <1>1
<1>3. Range(s) = {x}
  BY <1>2 DEF Range
<1> QED BY <1>1, <1>2, <1>3

Spoken(cmds, m) ==
  \E c \in Range(cmds) : c.kind \in {"REVIEW", "MENTION"} /\ c.mention = m

\* One establishment, then what is said of the mentions.
IsComponentBatch(cmds, comp, seed, est, rest, said) ==
  /\ cmds = <<est>> \o rest /\ rest \in Seq(said) /\ IsEstablishmentOf(est, comp, seed)
  /\ \A c \in said : c.kind # "ESTABLISH"
  /\ \A m \in comp : Spoken(rest, m)

LEMMA ComponentCommandsAre ==
  ASSUME NEW comp \in SUBSET MentionIds, NEW s, NEW seed
  PROVE  \E est, rest, said :
           IsComponentBatch(ComponentCommands(comp, s, seed), comp, seed, est, rest, said)
<1> DEFINE ref == RefOf(comp, seed)
           est == [kind |-> "ESTABLISH", ref |-> ref, meta |-> IdentityMeta(comp, s),
                   status |-> IF SeedOf(comp, seed) = NoCanon THEN "PROBABLE" ELSE "CONFIRMED"]
           mention(m) == [kind |-> "MENTION", mention |-> m, ref |-> ref]
           alias(m) == [kind |-> "ALIAS", mention |-> m, ref |-> ref]
           named(m) == IF m = Min(comp) \/ profile[m].name = CanonicalLabel(comp) THEN <<>>
                       ELSE <<alias(m)>>
           members == ById(comp)
           block(m) == <<mention(m)>> \o named(m)
           each == [i \in DOMAIN members |-> block(members[i])]
           said == {mention(m) : m \in comp} \cup {alias(m) : m \in comp}
<1>1. ComponentCommands(comp, s, seed) = <<est>> \o FlattenSeq(each)
  BY DEF ComponentCommands
<1>2. \A m \in comp : mention(m) \in said /\ alias(m) \in said
  OBVIOUS
<1>3. /\ est.kind = "ESTABLISH" /\ est.ref = ref /\ est.meta = IdentityMeta(comp, s)
      /\ est.status = "PROBABLE" => SeedOf(comp, seed) = NoCanon
  OBVIOUS
<1>4. IsEstablishmentOf(est, comp, seed)
  BY <1>3 DEF IsEstablishmentOf, IdentityMeta
<1>5. \A m : mention(m).kind = "MENTION" /\ mention(m).mention = m /\ alias(m).kind = "ALIAS"
  OBVIOUS
<1> HIDE DEF est, mention, alias
<1>6. \A c \in said : c.kind # "ESTABLISH"
  BY <1>5
<1> HIDE DEF said
<1>7. \A m \in comp : block(m) \in Seq(said) /\ mention(m) \in Range(block(m))
  <2> TAKE m \in comp
  <2>1. named(m) \in Seq(said)
    BY <1>2
  <2> HIDE DEF named
  <2>2. <<mention(m)>> \in Seq(said) /\ Range(<<mention(m)>>) = {mention(m)}
    BY <1>2, OneOf
  <2>3. block(m) \in Seq(said) /\ Range(block(m)) = Range(<<mention(m)>>) \cup Range(named(m))
    BY <2>1, <2>2, RangeOfConcat
  <2> QED BY <2>2, <2>3
<1> HIDE DEF block
<1>8. members \in Seq(comp) /\ DOMAIN members = 1..Len(members) /\ Range(members) = comp
  BY ByIdIs
<1> HIDE DEF members
<1>9. Len(members) \in Nat /\ each \in [1..Len(members) -> Seq(said)]
  BY <1>7, <1>8
<1>10. \A m \in comp : \E i \in 1..Len(members) : mention(m) \in Range(each[i])
  <2> TAKE m \in comp
  <2>1. PICK i \in 1..Len(members) : members[i] = m
    BY <1>8, RangeIs
  <2>2. each[i] = block(m)
    BY <1>8, <2>1
  <2> QED BY <1>7, <2>1, <2>2
<1> HIDE DEF each
<1>11. each \in Seq(Seq(said)) /\ Len(each) = Len(members)
  BY <1>9, MapIsSequence
<1>12. /\ FlattenSeq(each) \in Seq(said)
       /\ \A i \in 1..Len(members) : Range(each[i]) \subseteq Range(FlattenSeq(each))
  BY <1>11, FlattenKeeps
<1>13. \A m \in comp : Spoken(FlattenSeq(each), m)
  BY <1>5, <1>10, <1>12 DEF Spoken
<1>14. IsComponentBatch(ComponentCommands(comp, s, seed), comp, seed, est, FlattenSeq(each), said)
  BY <1>1, <1>4, <1>6, <1>12, <1>13 DEF IsComponentBatch
<1> QED BY <1>14

\* Establishments of new identities with one canonical ref each.
EstablishesOnce(cmds) ==
  \A i, j \in DOMAIN cmds :
    i # j /\ EstablishesNew(cmds[i]) /\ EstablishesNew(cmds[j]) => cmds[i].ref # cmds[j].ref

LEMMA ComponentBatchTells ==
  ASSUME NEW comp \in SUBSET MentionIds, NEW s, NEW seed,
         NEW cmds, cmds = ComponentCommands(comp, s, seed)
  PROVE  /\ \E C : cmds \in Seq(C)
         /\ \A c \in Range(cmds) : c.kind = "ESTABLISH" => IsEstablishmentOf(c, comp, seed)
         /\ \A m \in comp : Spoken(cmds, m)
         /\ EstablishesOnce(cmds)
<1>1. PICK est, rest, said : IsComponentBatch(cmds, comp, seed, est, rest, said)
  BY ComponentCommandsAre
<1> DEFINE C == said \cup {est}
<1>2. rest \in Seq(said) /\ cmds = <<est>> \o rest
  BY <1>1 DEF IsComponentBatch
<1>3. \A i \in 1..Len(rest) : rest[i] \in said
  BY <1>2
<1>a. said \subseteq C /\ est \in C
  OBVIOUS
<1>b. \A c \in C : c \in said \/ c = est
  OBVIOUS
<1> HIDE DEF C
<1>4. rest \in Seq(C) /\ <<est>> \in Seq(C)
  BY <1>2, <1>a
<1>5. cmds \in Seq(C) /\ Range(cmds) = Range(<<est>>) \cup Range(rest)
  <2>1. PICK one : one = <<est>>
    OBVIOUS
  <2>2. cmds = one \o rest /\ one \in Seq(C)
    BY <1>2, <1>4, <2>1
  <2>3. one \o rest \in Seq(C) /\ Range(one \o rest) = Range(one) \cup Range(rest)
    BY <1>4, <2>2, RangeOfConcat
  <2> QED BY <2>1, <2>2, <2>3
<1>6. \A c \in Range(cmds) : c.kind = "ESTABLISH" => IsEstablishmentOf(c, comp, seed)
  <2>1. Range(cmds) \subseteq C
    BY <1>5, RangeIs
  <2> QED BY <1>1, <1>b, <2>1 DEF IsComponentBatch
<1>7. \A m \in comp : Spoken(cmds, m)
  BY <1>1, <1>5 DEF IsComponentBatch, Spoken
<1>8. DOMAIN cmds = 1..(Len(rest) + 1) /\ Len(rest) \in Nat
      /\ \A i \in 2..(Len(rest) + 1) : cmds[i] = rest[i - 1]
  BY <1>2, <1>4
<1>9. \A i \in DOMAIN cmds : EstablishesNew(cmds[i]) => i = 1
  <2> SUFFICES ASSUME NEW i \in DOMAIN cmds, i # 1, EstablishesNew(cmds[i]) PROVE FALSE
    OBVIOUS
  <2>1. i - 1 \in 1..Len(rest) /\ cmds[i] = rest[i - 1]
    BY <1>8
  <2>2. cmds[i] \in said
    BY <1>3, <2>1
  <2> QED BY <1>1, <2>2 DEF IsComponentBatch, EstablishesNew
<1>10. EstablishesOnce(cmds)
  BY <1>9 DEF EstablishesOnce
<1> QED BY <1>5, <1>6, <1>7, <1>10

LEMMA ConcatOnce ==
  ASSUME NEW S, NEW s \in Seq(S), NEW t \in Seq(S), EstablishesOnce(s), EstablishesOnce(t),
         \A c \in Range(s), d \in Range(t) : EstablishesNew(c) /\ EstablishesNew(d) => c.ref # d.ref
  PROVE  EstablishesOnce(s \o t)
<1> DEFINE u == s \o t
<1>1. /\ Len(s) \in Nat /\ Len(t) \in Nat /\ DOMAIN u = 1..(Len(s) + Len(t))
      /\ DOMAIN s = 1..Len(s) /\ DOMAIN t = 1..Len(t)
      /\ \A i \in 1..Len(s) : u[i] = s[i]
      /\ \A i \in 1..Len(t) : u[Len(s) + i] = t[i]
  OBVIOUS
<1> HIDE DEF u
<1>2. \A i \in DOMAIN u : i \in DOMAIN s \/ (i \notin DOMAIN s /\ i - Len(s) \in DOMAIN t)
  BY <1>1
<1>3. \A i \in DOMAIN u : i \notin DOMAIN s => u[i] = t[i - Len(s)]
  BY <1>1, <1>2
<1>4. (\A i \in DOMAIN s : s[i] \in Range(s)) /\ (\A i \in DOMAIN t : t[i] \in Range(t))
  BY <1>1, RangeIs
<1>5. SUFFICES ASSUME NEW i \in DOMAIN u, NEW j \in DOMAIN u, i # j,
                      EstablishesNew(u[i]), EstablishesNew(u[j])
               PROVE  u[i].ref # u[j].ref
  BY DEF EstablishesOnce, u
<1>6. CASE i \in DOMAIN s /\ j \in DOMAIN s
  <2>1. u[i] = s[i] /\ u[j] = s[j]
    BY <1>1, <1>6
  <2> QED BY <1>5, <1>6, <2>1 DEF EstablishesOnce
<1>7. CASE i \in DOMAIN s /\ j \notin DOMAIN s
  <2>1. u[i] = s[i] /\ u[i] \in Range(s) /\ u[j] \in Range(t)
    BY <1>1, <1>2, <1>3, <1>4, <1>7
  <2> QED BY <1>5, <2>1
<1>8. CASE i \notin DOMAIN s /\ j \in DOMAIN s
  <2>1. u[j] = s[j] /\ u[j] \in Range(s) /\ u[i] \in Range(t)
    BY <1>1, <1>2, <1>3, <1>4, <1>8
  <2> QED BY <1>5, <2>1
<1>9. CASE i \notin DOMAIN s /\ j \notin DOMAIN s
  <2>1. PICK k, l \in DOMAIN t : k = i - Len(s) /\ l = j - Len(s)
    BY <1>2, <1>9
  <2>2. u[i] = t[k] /\ u[j] = t[l]
    BY <1>3, <1>9, <2>1
  <2>3. i \in Int /\ j \in Int /\ Len(s) \in Int
    BY <1>1
  <2>4. k # l
    BY <1>5, <2>1, <2>3
  <2> QED BY <1>5, <2>2, <2>4 DEF EstablishesOnce
<1> QED BY <1>6, <1>7, <1>8, <1>9

LEMMA FlattenOnce ==
  ASSUME NEW S, NEW seqs \in Seq(Seq(S)),
         \A i \in 1..Len(seqs) : EstablishesOnce(seqs[i]),
         \A i, j \in 1..Len(seqs) : i # j =>
           \A c \in Range(seqs[i]), d \in Range(seqs[j]) :
             EstablishesNew(c) /\ EstablishesNew(d) => c.ref # d.ref
  PROVE  EstablishesOnce(FlattenSeq(seqs))
<1> DEFINE N == Len(seqs)
<1>1. N \in Nat /\ \A i \in 1..N : seqs[i] \in Seq(S)
  OBVIOUS
<1>2. CASE N = 0
  <2>1. FlattenSeq(seqs) = seqs /\ DOMAIN seqs = {}
    BY <1>2 DEF FlattenSeq
  <2> QED BY <2>1 DEF EstablishesOnce
<1>3. CASE N # 0
  <2> DEFINE f == CHOOSE g : IsFlattening(g, seqs, N)
  <2>1. FlattenSeq(seqs) = f[N]
    BY <1>3, Zenon DEF FlattenSeq, IsFlattening
  <2>2. IsFlattening(f, seqs, N)
    BY <1>1, FlatteningExists, Zenon
  <2> HIDE DEF f
  <2>3. \A i \in 1..N : f[i] = IF i = 1 THEN seqs[i] ELSE f[i - 1] \o seqs[i]
    BY <2>2, Zenon DEF IsFlattening
  <2>a. \A i \in 1..N : EstablishesOnce(seqs[i])
    OBVIOUS
  <2>b. \A i, j \in 1..N : i # j =>
           \A c \in Range(seqs[i]), d \in Range(seqs[j]) :
             EstablishesNew(c) /\ EstablishesNew(d) => c.ref # d.ref
    OBVIOUS
  <2> HIDE DEF N
  <2> DEFINE Good(i) == /\ f[i] \in Seq(S) /\ EstablishesOnce(f[i])
                        /\ \A c \in Range(f[i]) : \E j \in 1..i : c \in Range(seqs[j])
             Bad == {i \in 1..N : ~ Good(i)}
  <2>4. Bad = {}
    <3> SUFFICES ASSUME Bad # {} PROVE FALSE
      OBVIOUS
    <3>1. Bad \in SUBSET Nat
      BY <1>1
    <3>2. PICK i \in Bad : \A m \in Bad : i <= m
      BY <3>1, LeastExists
    <3>3. i \in 1..N /\ seqs[i] \in Seq(S)
      BY <1>1, <3>2
    <3>4. CASE i = 1
      <4>1. f[i] = seqs[i] /\ i \in 1..i
        BY <2>3, <3>3, <3>4
      <4>2. Good(i)
        BY <2>a, <3>3, <4>1
      <4> QED BY <3>2, <4>2
    <3>5. CASE i # 1
      <4>0. i - 1 \in 1..N /\ ~ (i <= i - 1) /\ i \in Nat
        BY <1>1, <3>3, <3>5
      <4>1. i - 1 \notin Bad
        BY <3>2, <4>0, Zenon
      <4>2. f[i] = f[i - 1] \o seqs[i]
        BY <2>3, <3>3, <3>5
      <4>3. Good(i - 1)
        BY <4>0, <4>1
      <4>4. \A j \in 1..(i - 1) : j \in 1..N /\ j # i /\ j \in 1..i
        BY <1>1, <3>3, <4>0
      <4>5. \A c \in Range(f[i - 1]), d \in Range(seqs[i]) :
              EstablishesNew(c) /\ EstablishesNew(d) => c.ref # d.ref
        BY <2>b, <3>3, <4>3, <4>4
      <4>6. f[i] \in Seq(S) /\ Range(f[i]) = Range(f[i - 1]) \cup Range(seqs[i])
        BY <3>3, <4>2, <4>3, RangeOfConcat
      <4>7. EstablishesOnce(f[i])
        BY <2>a, <3>3, <4>2, <4>3, <4>5, ConcatOnce
      <4>8. i \in 1..i
        BY <3>3
      <4>9. \A c \in Range(f[i]) : \E j \in 1..i : c \in Range(seqs[j])
        BY <4>3, <4>4, <4>6, <4>8
      <4>10. Good(i)
        BY <4>6, <4>7, <4>9
      <4> QED BY <3>2, <4>10
    <3> QED BY <3>4, <3>5
  <2>5. N \in 1..N
    BY <1>1, <1>3
  <2>6. Good(N)
    BY <2>4, <2>5
  <2> QED BY <2>1, <2>6
<1> QED BY <1>2, <1>3

LEMMA ComponentsInOrder ==
  ASSUME NEW here \in SUBSET MentionIds, NEW seed,
         NEW before, before = {p \in ResolvedComponents(here, seed) \X ResolvedComponents(here, seed) :
                    \/ SeedOf(p[1], seed) = NoCanon /\ SeedOf(p[2], seed) # NoCanon
                    \/ /\ SeedOf(p[1], seed) = NoCanon <=> SeedOf(p[2], seed) = NoCanon
                       /\ Min(p[1]) < Min(p[2])}
  PROVE  /\ IsFiniteSet(ResolvedComponents(here, seed))
         /\ Precedes(before, ResolvedComponents(here, seed))
<1> DEFINE resolved == ResolvedComponents(here, seed)
           new(c) == SeedOf(c, seed) = NoCanon
<1>1. resolved \in SUBSET Components(here, seed) /\ IsFiniteSet(Components(here, seed))
  BY ComponentsAre DEF ResolvedComponents
<1>2. IsFiniteSet(resolved)
  BY <1>1, FS_Subset
<1>3. \A c \in resolved : Min(c) \in Nat
  <2> TAKE c \in resolved
  <2>1. c \in SUBSET Nat /\ c # {}
    BY <1>1, ComponentsAre, ResConstants
  <2> QED BY <2>1, LeastIs
<1>4. \A x, y \in resolved : <<x, y>> \in before <=>
         \/ new(x) /\ ~ new(y)
         \/ (new(x) <=> new(y)) /\ Min(x) < Min(y)
  OBVIOUS
<1> HIDE DEF resolved, new
<1>5. \A x \in resolved : <<x, x>> \notin before
  BY <1>3, <1>4
<1>6. \A x, y, z \in resolved : <<x, y>> \in before /\ <<y, z>> \in before => <<x, z>> \in before
  BY <1>3, <1>4
<1>7. Precedes(before, resolved)
  BY <1>5, <1>6 DEF Precedes
<1> QED BY <1>2, <1>7 DEF resolved

\* No two new components of a batch go by one reference.
LEMMA NewRefsDiffer ==
  ASSUME NEW here, NEW seed, NEW c \in ResolvedComponents(here, seed),
         NEW d \in ResolvedComponents(here, seed), c # d,
         SeedOf(c, seed) = NoCanon, SeedOf(d, seed) = NoCanon
  PROVE  RefOf(c, seed) # RefOf(d, seed)
<1>1. d \in Components(here, seed) /\ ~ Collided(c, Components(here, seed), seed)
  BY DEF ResolvedComponents
<1>2. EvidenceRef(d) # EvidenceRef(c)
  BY <1>1 DEF Collided
<1> QED BY <1>2 DEF RefOf

\* A batch establishes identities for components of the mentions and nothing
\* else, a new one once, and says something of every mention.
LEMMA BatchCommandsAre ==
  ASSUME NEW here \in SUBSET MentionIds, NEW s, NEW seed,
         NEW cmds, cmds = BatchCommands(s, here, seed)
  PROVE  /\ \E C : /\ cmds \in Seq(C)
                   /\ \A cmd \in C : cmd.kind = "ESTABLISH" =>
                        \E comp \in Components(here, seed) : IsEstablishmentOf(cmd, comp, seed)
         /\ EstablishesOnce(cmds)
         /\ \A m \in here : Spoken(cmds, m)
<1> DEFINE resolved == ResolvedComponents(here, seed)
           before == {p \in resolved \X resolved :
                    \/ SeedOf(p[1], seed) = NoCanon /\ SeedOf(p[2], seed) # NoCanon
                    \/ /\ SeedOf(p[1], seed) = NoCanon <=> SeedOf(p[2], seed) = NoCanon
                       /\ Min(p[1]) < Min(p[2])}
           review == ById(ReviewMentions(here, seed))
           ordered == InOrder(resolved, before)
           said(m) == [kind |-> "REVIEW", mention |-> m]
           reviews == [i \in DOMAIN review |-> said(review[i])]
           each == [i \in DOMAIN ordered |-> ComponentCommands(ordered[i], s, seed)]
           C == {said(m) : m \in here} \cup UNION {Range(ComponentCommands(c, s, seed)) : c \in resolved}
<1>1. cmds = reviews \o FlattenSeq(each)
  BY DEF BatchCommands
<1>2. resolved \in SUBSET Components(here, seed)
  BY DEF ResolvedComponents
<1>3. \A m : said(m).kind = "REVIEW" /\ said(m).mention = m
  OBVIOUS
<1>4. /\ ReviewMentions(here, seed) \in SUBSET here
      /\ here = ReviewMentions(here, seed) \cup (here \cap UNION resolved)
  BY DEF ReviewMentions
<1>a. \A c, d \in resolved : c # d /\ SeedOf(c, seed) = NoCanon /\ SeedOf(d, seed) = NoCanon
        => RefOf(c, seed) # RefOf(d, seed)
  BY NewRefsDiffer
<1>5. review \in Seq(here) /\ DOMAIN review = 1..Len(review) /\ Range(review) = ReviewMentions(here, seed)
  <2>1. ReviewMentions(here, seed) \in SUBSET MentionIds
    BY <1>4
  <2>2. review \in Seq(ReviewMentions(here, seed)) /\ DOMAIN review = 1..Len(review)
        /\ Range(review) = ReviewMentions(here, seed)
    BY <2>1, ByIdIs
  <2> QED BY <1>4, <2>2
<1>6. IsFiniteSet(resolved) /\ Precedes(before, resolved)
  BY ComponentsInOrder
<1> HIDE DEF resolved, before, said, review
<1>7. /\ ordered \in Seq(resolved) /\ DOMAIN ordered = 1..Len(ordered) /\ Range(ordered) = resolved
      /\ \A i, j \in 1..Len(ordered) : i # j => ordered[i] # ordered[j]
  BY <1>6, InOrderIs
<1> HIDE DEF ordered
<1>8. \A c \in resolved : c \in SUBSET MentionIds
  BY <1>2, ComponentsAre
<1>9. \A c \in resolved : ComponentCommands(c, s, seed) \in Seq(C)
  <2> TAKE c \in resolved
  <2>1. PICK D : ComponentCommands(c, s, seed) \in Seq(D)
    BY <1>8, ComponentBatchTells
  <2>2. Range(ComponentCommands(c, s, seed)) \subseteq C
    OBVIOUS
  <2> HIDE DEF C
  <2> QED BY <2>1, <2>2, SequenceOfItsRange
<1>10. \A cmd \in C : cmd.kind = "ESTABLISH" =>
         \E comp \in Components(here, seed) : IsEstablishmentOf(cmd, comp, seed)
  <2> SUFFICES ASSUME NEW cmd \in C, cmd.kind = "ESTABLISH"
               PROVE  \E comp \in Components(here, seed) : IsEstablishmentOf(cmd, comp, seed)
    OBVIOUS
  <2>1. PICK c \in resolved : cmd \in Range(ComponentCommands(c, s, seed))
    BY <1>3
  <2>2. IsEstablishmentOf(cmd, c, seed)
    BY <1>8, <2>1, ComponentBatchTells
  <2> QED BY <1>2, <2>2
<1>11. \A m \in here : said(m) \in C
  OBVIOUS
<1> HIDE DEF C
<1>12. Len(review) \in Nat /\ reviews \in [1..Len(review) -> C]
  BY <1>5, <1>11
<1>13. \A i \in 1..Len(review) : reviews[i] = said(review[i])
  BY <1>5
<1> HIDE DEF reviews
<1>14. reviews \in Seq(C) /\ Len(reviews) = Len(review) /\ DOMAIN reviews = 1..Len(review)
  BY <1>12, MapIsSequence
<1>15. \A c \in Range(reviews) : c.kind = "REVIEW"
  BY <1>3, <1>13, <1>14, RangeIs
<1>16. \A m \in ReviewMentions(here, seed) : Spoken(reviews, m)
  <2> TAKE m \in ReviewMentions(here, seed)
  <2>1. PICK i \in 1..Len(review) : review[i] = m
    BY <1>5, RangeIs
  <2>2. reviews[i] \in Range(reviews) /\ reviews[i] = said(m)
    BY <1>13, <1>14, <2>1, RangeIs
  <2> QED BY <1>3, <2>2 DEF Spoken
<1>17. /\ Len(ordered) \in Nat /\ each \in [1..Len(ordered) -> Seq(C)]
       /\ \A i \in 1..Len(ordered) : each[i] = ComponentCommands(ordered[i], s, seed)
                                     /\ ordered[i] \in resolved
  BY <1>7, <1>9
<1> HIDE DEF each
<1>18. each \in Seq(Seq(C)) /\ Len(each) = Len(ordered)
  BY <1>17, MapIsSequence
<1>19. /\ FlattenSeq(each) \in Seq(C)
       /\ \A i \in 1..Len(ordered) : Range(each[i]) \subseteq Range(FlattenSeq(each))
  BY <1>18, FlattenKeeps
<1>20. cmds \in Seq(C) /\ Range(cmds) = Range(reviews) \cup Range(FlattenSeq(each))
  BY <1>1, <1>14, <1>19, RangeOfConcat
<1>21. \A i \in 1..Len(ordered) :
         /\ \A c \in Range(each[i]) : c.kind = "ESTABLISH" => IsEstablishmentOf(c, ordered[i], seed)
         /\ \A m \in ordered[i] : Spoken(each[i], m)
         /\ EstablishesOnce(each[i])
  BY <1>8, <1>17, ComponentBatchTells
<1>22. \A i, j \in 1..Len(ordered) : i # j =>
         \A c \in Range(each[i]), d \in Range(each[j]) :
           EstablishesNew(c) /\ EstablishesNew(d) => c.ref # d.ref
  <2> TAKE i, j \in 1..Len(ordered)
  <2> HAVE i # j
  <2> TAKE c \in Range(each[i]), d \in Range(each[j])
  <2> HAVE EstablishesNew(c) /\ EstablishesNew(d)
  <2>1. IsEstablishmentOf(c, ordered[i], seed) /\ IsEstablishmentOf(d, ordered[j], seed)
    BY <1>21 DEF EstablishesNew
  <2>2. SeedOf(ordered[i], seed) = NoCanon /\ SeedOf(ordered[j], seed) = NoCanon
    BY <2>1 DEF IsEstablishmentOf, EstablishesNew
  <2>3. RefOf(ordered[i], seed) # RefOf(ordered[j], seed)
    BY <1>7, <1>17, <1>a, <2>2
  <2> QED BY <2>1, <2>3 DEF IsEstablishmentOf
<1>23. EstablishesOnce(FlattenSeq(each))
  BY <1>18, <1>21, <1>22, FlattenOnce
<1>24. \A c \in Range(reviews) : ~ EstablishesNew(c)
  BY <1>15 DEF EstablishesNew
<1>25. EstablishesOnce(reviews)
  BY <1>14, <1>24, RangeIs DEF EstablishesOnce
<1>26. EstablishesOnce(cmds)
  BY <1>1, <1>14, <1>19, <1>23, <1>24, <1>25, ConcatOnce
<1>27. \A m \in here : Spoken(cmds, m)
  <2> TAKE m \in here
  <2>1. CASE m \in ReviewMentions(here, seed)
    BY <1>16, <1>20, <2>1 DEF Spoken
  <2>2. CASE m \notin ReviewMentions(here, seed)
    <3>1. PICK c \in resolved : m \in c
      BY <1>4, <2>2
    <3>2. PICK i \in 1..Len(ordered) : ordered[i] = c
      BY <1>7, RangeIs
    <3> QED BY <1>19, <1>20, <1>21, <3>1, <3>2 DEF Spoken
  <2> QED BY <2>1, <2>2
<1> QED BY <1>10, <1>20, <1>26, <1>27

LEMMA BatchEstablishes ==
  ASSUME NEW here \in SUBSET MentionIds, NEW s, NEW seed,
         NEW cmd \in Range(BatchCommands(s, here, seed)), cmd.kind = "ESTABLISH"
  PROVE  \E comp \in Components(here, seed) : IsEstablishmentOf(cmd, comp, seed)
<1>1. PICK C : /\ BatchCommands(s, here, seed) \in Seq(C)
               /\ \A c \in C : c.kind = "ESTABLISH" =>
                    \E comp \in Components(here, seed) : IsEstablishmentOf(c, comp, seed)
  BY BatchCommandsAre
<1>2. cmd \in C
  BY <1>1, RangeIs
<1> QED BY <1>1, <1>2

-----------------------------------------------------------------------------
(* Seeds                                                                   *)

IsGrowing(f, r, N) ==
  f = [i \in 0..N |-> IF i = 0 THEN {r}
                      ELSE f[i - 1] \cup {q \in DOMAIN identity :
                                            \E x \in f[i - 1] : {x, q} \in equivalent}]

LEMMA GrowingExists ==
  ASSUME NEW r
  PROVE  \A N \in Nat : \E f : IsGrowing(f, r, N)
<1> DEFINE S == {N \in Nat : ~ \E f : IsGrowing(f, r, N)}
           Grown(x) == x \cup {q \in DOMAIN identity : \E y \in x : {y, q} \in equivalent}
<1> SUFFICES ASSUME S # {} PROVE FALSE
  OBVIOUS
<1>a. \A N, f : IsGrowing(f, r, N) <=> f = [i \in 0..N |-> IF i = 0 THEN {r} ELSE Grown(f[i - 1])]
  BY DEF IsGrowing
<1>1. PICK N \in S : \A M \in S : N <= M
  BY LeastExists
<1> HIDE DEF Grown
<1>2. CASE N = 0
  <2>1. PICK f : f = [n \in 0..N |-> {r}]
    OBVIOUS
  <2>2. \A n \in 0..N : n = 0
    BY <1>2
  <2>3. f = [i \in 0..N |-> IF i = 0 THEN {r} ELSE Grown(f[i - 1])]
    BY <2>1, <2>2
  <2> QED BY <1>1, <1>a, <2>3
<1>3. CASE N # 0
  <2>1. N \in Nat /\ N - 1 \in Nat /\ N - 1 \notin S
    BY <1>1, <1>3
  <2>2. PICK f : f = [n \in 0..(N - 1) |-> IF n = 0 THEN {r} ELSE Grown(f[n - 1])]
    BY <1>a, <2>1
  <2>3. \A n \in 0..(N - 1) : f[n] = IF n = 0 THEN {r} ELSE Grown(f[n - 1])
    BY <2>2, Zenon
  <2>4. PICK g : g = [n \in 0..N |-> IF n = N THEN Grown(f[N - 1]) ELSE f[n]]
    OBVIOUS
  <2>5. \A n \in 0..N : n # N => n \in 0..(N - 1) /\ g[n] = f[n]
    BY <2>1, <2>4
  <2>6. \A n \in 0..N : n # 0 => n - 1 \in 0..N /\ g[n - 1] = f[n - 1]
    BY <2>1, <2>5
  <2>7. \A n \in 0..N : g[n] = IF n = 0 THEN {r} ELSE Grown(g[n - 1])
    <3> TAKE n \in 0..N
    <3>1. CASE n = N
      BY <1>3, <2>4, <2>6, <3>1
    <3>2. CASE n # N
      BY <2>3, <2>5, <2>6, <3>2
    <3> QED BY <3>1, <3>2
  <2>8. g = [n \in 0..N |-> IF n = 0 THEN {r} ELSE Grown(g[n - 1])]
    BY <2>4, <2>7
  <2> QED BY <1>1, <1>a, <2>8
<1> QED BY <1>2, <1>3

\* Identities are finitely many, each with evidence and an age.
IdentitiesNamed ==
  /\ IsFiniteSet(DOMAIN identity) /\ NoCanon \notin DOMAIN identity
  /\ \A r \in DOMAIN identity : identity[r].born \in Nat

LEMMA ReachIs ==
  ASSUME IdentitiesNamed, NEW r \in DOMAIN identity
  PROVE  r \in Reach(r) /\ Reach(r) \subseteq DOMAIN identity
<1> DEFINE N == Cardinality(DOMAIN identity)
           f == CHOOSE g : IsGrowing(g, r, N)
           Bad == {n \in 0..N : ~ (r \in f[n] /\ f[n] \subseteq DOMAIN identity)}
<1>1. N \in Nat
  BY FS_CardinalityType DEF IdentitiesNamed
<1>2. Reach(r) = f[N]
  BY Zenon DEF Reach, IsGrowing
<1>3. IsGrowing(f, r, N)
  BY <1>1, GrowingExists, Zenon
<1> HIDE DEF f, N
<1>4. \A n \in 0..N : f[n] = IF n = 0 THEN {r}
         ELSE f[n - 1] \cup {q \in DOMAIN identity : \E x \in f[n - 1] : {x, q} \in equivalent}
  BY <1>3, Zenon DEF IsGrowing
<1>5. Bad = {}
  <2> SUFFICES ASSUME Bad # {} PROVE FALSE
    OBVIOUS
  <2>1. Bad \in SUBSET Nat
    BY <1>1
  <2>2. PICK n \in Bad : \A m \in Bad : n <= m
    BY <2>1, LeastExists
  <2>3. n # 0
    BY <1>4, <2>2
  <2>4. n \in 0..N /\ n - 1 \in 0..N /\ ~ (n <= n - 1)
    BY <1>1, <2>2, <2>3
  <2>5. r \in f[n - 1] /\ f[n - 1] \subseteq DOMAIN identity
    BY <2>2, <2>4
  <2>6. f[n] = f[n - 1] \cup {q \in DOMAIN identity : \E x \in f[n - 1] : {x, q} \in equivalent}
    BY <1>4, <2>3, <2>4
  <2> QED BY <2>2, <2>5, <2>6
<1>6. N \in 0..N
  BY <1>1
<1> QED BY <1>2, <1>5, <1>6

LEMMA AuthoritativeIs ==
  ASSUME IdentitiesNamed, NEW r \in DOMAIN identity
  PROVE  AuthoritativeRef(r) \in Reach(r)
<1> DEFINE ages == {identity[x].born : x \in Reach(r)}
<1>1. ages \in SUBSET Nat /\ ages # {}
  BY ReachIs DEF IdentitiesNamed
<1>2. PICK a \in ages : \A b \in ages : a <= b
  BY <1>1, LeastExists
<1>3. \E q \in Reach(r) : \A x \in Reach(r) : identity[q].born <= identity[x].born
  BY <1>2
<1> QED BY <1>3 DEF AuthoritativeRef

\* The seed of a supported mention is one of its identities, or one that an
\* accepted alignment connects with it.
LEMMA SeedStays ==
  ASSUME IdentitiesNamed, NEW here, NEW f \in CommittedSeeds(here), NEW m \in here,
         NEW owners, owners = {r \in ActiveRefs : m \in identity[r].support}, owners # {}
  PROVE  /\ f[m] \in owners /\ BuiltSeeds(f)[m] \in Reach(f[m])
         /\ BuiltSeeds(f)[m] # NoCanon
<1>1. f[m] \in owners /\ DOMAIN f = here
  BY DEF CommittedSeeds
<1>2. f[m] \in DOMAIN identity
  BY <1>1 DEF ActiveRefs
<1>3. /\ f[m] \in Reach(f[m]) /\ Reach(f[m]) \subseteq DOMAIN identity
      /\ AuthoritativeRef(f[m]) \in Reach(f[m])
  BY <1>2, ReachIs, AuthoritativeIs
<1>4. BuiltSeeds(f)[m] = f[m] \/ BuiltSeeds(f)[m] = AuthoritativeRef(f[m])
  BY <1>1 DEF BuiltSeeds
<1> QED BY <1>1, <1>3, <1>4 DEF IdentitiesNamed

LEMMA BatchGives ==
  ASSUME IdentitiesNamed, NEW here \in SUBSET MentionIds, NEW s, NEW f \in CommittedSeeds(here),
         NEW cmd \in Range(BatchCommands(s, here, BuiltSeeds(f))), cmd.kind = "ESTABLISH",
         NEW m \in cmd.meta.support,
         NEW owners, owners = {r \in ActiveRefs : m \in identity[r].support}, owners # {}
  PROVE  \E r \in owners : cmd.ref \in Reach(r)
<1>1. PICK seed : seed = BuiltSeeds(f) /\ cmd \in Range(BatchCommands(s, here, seed))
  OBVIOUS
<1>2. PICK comp \in Components(here, seed) : IsEstablishmentOf(cmd, comp, seed)
  BY <1>1, BatchEstablishes
<1>3. cmd.ref = RefOf(comp, seed) /\ m \in comp
  BY <1>2 DEF IsEstablishmentOf
<1>4. comp \in SUBSET here /\ comp # {} /\ \A r, q \in SeedsIn(comp, seed) : r = q
  BY ComponentsAre
<1>5. m \in here /\ (seed[m] # NoCanon => cmd.ref = seed[m])
  BY <1>3, <1>4, RefIs
<1>6. f[m] \in owners /\ seed[m] \in Reach(f[m]) /\ seed[m] # NoCanon
  BY <1>1, <1>5, SeedStays
<1> QED BY <1>5, <1>6

-----------------------------------------------------------------------------
(* What a batch names                                                      *)

\* The establishments among some commands all have evidence.
Named(cmds) ==
  \E C : cmds \in Seq(C) /\ \A c \in C : c.kind = "ESTABLISH" => c.ref # NoCanon

IsBatch(cmds) == Named(cmds) /\ EstablishesOnce(cmds)

BatchesSound == DOMAIN queue = ResSources /\ \A s \in ResSources : IsBatch(queue[s])

\* While nothing else happens to a source, each of its mentions has a row or is
\* still to be spoken of by the commands of its run.
MentionsAnswered ==
  /\ undisturbed \subseteq ResSources
  /\ \A s \in undisturbed : \A m \in MentionsOf(s) :
       m \in DOMAIN mentionRows \/ Spoken(queue[s], m)

ResInv == /\ Rows /\ IdentitiesNamed /\ extracted \subseteq MentionIds
          /\ BatchesSound /\ MentionsAnswered

LEMMA BatchIsNamed ==
  ASSUME NEW here \in SUBSET MentionIds, NEW s, NEW seed
  PROVE  IsBatch(BatchCommands(s, here, seed))
<1>1. PICK C : /\ BatchCommands(s, here, seed) \in Seq(C)
               /\ \A c \in C : c.kind = "ESTABLISH" =>
                    \E comp \in Components(here, seed) : IsEstablishmentOf(c, comp, seed)
  BY BatchCommandsAre
<1>2. \A comp \in Components(here, seed) : RefOf(comp, seed) # NoCanon
  <2> TAKE comp \in Components(here, seed)
  <2>1. comp # {} /\ \A r, q \in SeedsIn(comp, seed) : r = q
    BY ComponentsAre
  <2> QED BY <2>1, RefIs
<1>3. EstablishesOnce(BatchCommands(s, here, seed))
  BY BatchCommandsAre
<1> QED BY <1>1, <1>2, <1>3 DEF Named, IsEstablishmentOf, IsBatch

LEMMA BatchTail ==
  ASSUME NEW cmds, IsBatch(cmds), cmds # <<>>
  PROVE  /\ IsBatch(Tail(cmds))
         /\ Head(cmds).kind = "ESTABLISH" => Head(cmds).ref # NoCanon
         /\ \A c \in Range(cmds) : c = Head(cmds) \/ c \in Range(Tail(cmds))
<1>1. PICK C : cmds \in Seq(C) /\ \A c \in C : c.kind = "ESTABLISH" => c.ref # NoCanon
  BY DEF IsBatch, Named
<1>2. Tail(cmds) \in Seq(C) /\ Head(cmds) \in C
  BY <1>1
<1>3. PICK rest, n : rest = Tail(cmds) /\ n = Len(cmds)
  OBVIOUS
<1>4. /\ n \in Nat /\ rest \in Seq(C) /\ Len(rest) = n - 1 /\ DOMAIN cmds = 1..n
      /\ DOMAIN rest = 1..(n - 1) /\ Head(cmds) = cmds[1]
      /\ \A i \in 1..(n - 1) : rest[i] = cmds[i + 1]
  BY <1>1, <1>2, <1>3
<1>5. \A c \in Range(cmds) : c = Head(cmds) \/ c \in Range(rest)
  <2> TAKE c \in Range(cmds)
  <2>1. PICK i \in 1..n : c = cmds[i]
    BY <1>4 DEF Range
  <2>2. CASE i = 1
    BY <1>4, <2>1, <2>2
  <2>3. CASE i # 1
    <3>1. i - 1 \in 1..(n - 1) /\ c = rest[i - 1]
      BY <1>4, <2>1, <2>3
    <3> QED BY <1>4, <3>1, RangeIs
  <2> QED BY <2>2, <2>3
<1>6. EstablishesOnce(rest)
  <2>1. \A i, j \in DOMAIN rest : i # j => /\ i + 1 \in DOMAIN cmds /\ j + 1 \in DOMAIN cmds
                                           /\ i + 1 # j + 1
    BY <1>4
  <2> QED BY <1>4, <2>1 DEF IsBatch, EstablishesOnce
<1> QED BY <1>1, <1>2, <1>3, <1>5, <1>6 DEF Named, IsBatch

LEMMA NothingQueuedYet == IsBatch(<<>>)
<1>1. PICK C : C = {}
  OBVIOUS
<1>2. <<>> \in Seq(C)
  OBVIOUS
<1>3. \A c \in C : c.kind = "ESTABLISH" => c.ref # NoCanon
  BY <1>1
<1>4. PICK cmds : cmds = <<>>
  OBVIOUS
<1>5. Named(cmds)
  BY <1>2, <1>3, <1>4 DEF Named
<1>6. DOMAIN cmds = {}
  BY <1>4
<1>7. EstablishesOnce(cmds)
  BY <1>6 DEF EstablishesOnce
<1> QED BY <1>4, <1>5, <1>7 DEF IsBatch

LEMMA FoldNames ==
  ASSUME Rows, IdentitiesNamed, NEW cmd, cmd.ref # NoCanon, identity' = FoldEstablish(cmd)
  PROVE  IdentitiesNamed'
<1>1. CASE cmd.ref \in locks \/ (cmd.ref \in DOMAIN identity /\ UserHeld(cmd.ref))
  BY <1>1 DEF FoldEstablish, IdentitiesNamed
<1>2. CASE cmd.ref \notin locks /\ cmd.ref \in DOMAIN identity /\ ~UserHeld(cmd.ref)
  <2>1. PICK w : w = Reestablish(identity[cmd.ref], cmd)
    OBVIOUS
  <2>2. identity' = [identity EXCEPT ![cmd.ref] = w]
    BY <1>2, <2>1 DEF FoldEstablish
  <2>3. w.born = identity[cmd.ref].born
    BY <1>2, <2>1, ReestablishKeeps DEF Rows
  <2> QED BY <1>2, <2>2, <2>3 DEF IdentitiesNamed
<1>3. CASE cmd.ref \notin locks /\ cmd.ref \notin DOMAIN identity
  <2>1. PICK w : w = NewIdentity(cmd)
    OBVIOUS
  <2>2. w.born \in Nat
    BY <2>1, FS_CardinalityType DEF NewIdentity, IdentitiesNamed
  <2>3. identity' = [r \in DOMAIN identity \cup {cmd.ref} |->
                       IF r = cmd.ref THEN w ELSE identity[r]]
    BY <1>3, <2>1 DEF FoldEstablish
  <2>4. IsFiniteSet(DOMAIN identity \cup {cmd.ref})
    BY FS_AddElement DEF IdentitiesNamed
  <2> QED BY <2>2, <2>3, <2>4 DEF IdentitiesNamed
<1> QED BY <1>1, <1>2, <1>3

LEMMA UserStepNames ==
  ASSUME Rows, IdentitiesNamed, NEW r \in DOMAIN identity, ConfirmIdentity(r) \/ InvalidateIdentity(r)
  PROVE  IdentitiesNamed'
<1>1. PICK w : /\ identity' = [identity EXCEPT ![r] = w]
               /\ \/ w = [identity[r] EXCEPT !.authority = "USER_OVERRIDE",
                                              !.status = "USER_CONFIRMED", !.label = "confirmed"]
                  \/ w = [identity[r] EXCEPT !.status = "INVALIDATED"]
  BY DEF ConfirmIdentity, InvalidateIdentity
<1>2. w.born = identity[r].born
  <2>1. PICK row : row = identity[r] /\ IsRow(row)
    BY DEF Rows
  <2> QED BY <1>1, <2>1 DEF IsRow
<1> QED BY <1>1, <1>2 DEF IdentitiesNamed

LEMMA IdentitiesStayNamed ==
  ASSUME ResInv, [ResNext]_resVars
  PROVE  IdentitiesNamed'
<1>1. CASE UNCHANGED identity
  BY <1>1 DEF ResInv, IdentitiesNamed
<1>2. ASSUME NEW s \in ResSources, ApplyCommand(s), identity' # identity
      PROVE  IdentitiesNamed'
  <2>1. PICK cmd : cmd = Head(queue[s])
    OBVIOUS
  <2>2. queue[s] # <<>> /\ cmd.kind = "ESTABLISH" /\ identity' = FoldEstablish(cmd)
    BY <1>2, <2>1 DEF ApplyCommand, CommitCommand
  <2>3. cmd.ref # NoCanon
    BY <2>1, <2>2, BatchTail DEF ResInv, BatchesSound
  <2> QED BY <2>2, <2>3, FoldNames DEF ResInv
<1>3. ASSUME NEW r \in DOMAIN identity, ConfirmIdentity(r) \/ InvalidateIdentity(r)
      PROVE  IdentitiesNamed'
  BY <1>3, UserStepNames DEF ResInv
<1>4. CASE UNCHANGED resVars
  BY <1>1, <1>4 DEF resVars, identityVars
<1>5. CASE ResNext
  BY <1>1, <1>2, <1>3, <1>5 DEF ResNext, Extract, BeginResolution, CrashResolution,
     AlignIdentities, LockIdentity, RecordCorrespondence, identityVars
<1> QED BY <1>4, <1>5

LEMMA EvidenceStays ==
  ASSUME ResInv, [ResNext]_resVars
  PROVE  profile' = profile /\ (extracted \subseteq MentionIds)'
<1>1. CASE UNCHANGED resVars
  BY <1>1 DEF resVars, ResInv
<1>2. CASE ResNext
  BY <1>2 DEF ResNext, Extract, BeginResolution, ApplyCommand, CrashResolution,
     AlignIdentities, ConfirmIdentity, InvalidateIdentity, LockIdentity, RecordCorrespondence, ResInv
<1> QED BY <1>1, <1>2

\* A step writes the commands of one source at most.
LEMMA BatchesStaySound ==
  ASSUME ResInv, [ResNext]_resVars
  PROVE  BatchesSound'
<1>1. ResSources' = ResSources
  BY EvidenceStays DEF ResSources, SourcesOf
<1>2. CASE UNCHANGED queue
  BY <1>1, <1>2 DEF ResInv, BatchesSound
<1>3. ASSUME NEW s \in ResSources, NEW cmds, queue' = [queue EXCEPT ![s] = cmds], IsBatch(cmds)
      PROVE  BatchesSound'
  BY <1>1, <1>3 DEF ResInv, BatchesSound
<1>4. ASSUME NEW s \in ResSources, BeginResolution(s)
      PROVE  BatchesSound'
  <2>1. PICK f \in CommittedSeeds(MentionsOf(s)) :
          queue' = [queue EXCEPT ![s] = BatchCommands(s, MentionsOf(s), BuiltSeeds(f))]
    BY <1>4 DEF BeginResolution
  <2>2. MentionsOf(s) \in SUBSET MentionIds
    BY DEF MentionsOf, ResInv
  <2> QED BY <1>3, <2>1, <2>2, BatchIsNamed
<1>5. ASSUME NEW s \in ResSources, ApplyCommand(s)
      PROVE  BatchesSound'
  <2>1. queue[s] # <<>> /\ queue' = [queue EXCEPT ![s] = Tail(queue[s])]
    BY <1>5 DEF ApplyCommand
  <2> QED BY <1>3, <2>1, BatchTail DEF ResInv, BatchesSound
<1>6. ASSUME NEW s \in ResSources, CrashResolution(s)
      PROVE  BatchesSound'
  BY <1>3, <1>6, NothingQueuedYet DEF CrashResolution
<1>7. CASE UNCHANGED resVars
  BY <1>2, <1>7 DEF resVars
<1>8. CASE ResNext
  BY <1>2, <1>4, <1>5, <1>6, <1>8 DEF ResNext, Extract, AlignIdentities, ConfirmIdentity,
     InvalidateIdentity, LockIdentity, RecordCorrespondence
<1> QED BY <1>7, <1>8

LEMMA RowWritten ==
  ASSUME NEW s, ApplyCommand(s)
  PROVE  /\ DOMAIN mentionRows \subseteq DOMAIN mentionRows'
         /\ Head(queue[s]).kind \in {"REVIEW", "MENTION"} =>
              Head(queue[s]).mention \in DOMAIN mentionRows'
<1>1. PICK cmd : cmd = Head(queue[s])
  OBVIOUS
<1>2. \A k, v : /\ DOMAIN With(mentionRows, k, v) = DOMAIN mentionRows \cup {k}
                /\ DOMAIN RecordOnce(mentionRows, k, v) = DOMAIN mentionRows \cup {k}
  BY DEF With, RecordOnce
<1>3. CASE cmd.kind = "REVIEW"
  <2>1. mentionRows' = RecordOnce(mentionRows, cmd.mention, NoCanon)
    BY <1>1, <1>3 DEF ApplyCommand
  <2>2. DOMAIN mentionRows' = DOMAIN mentionRows \cup {cmd.mention}
    BY <1>2, <2>1, Zenon
  <2> QED BY <1>1, <2>2
<1>4. CASE cmd.kind = "MENTION"
  <2>1. \/ mentionRows' = With(mentionRows, cmd.mention, cmd.ref)
        \/ mentionRows' = RecordOnce(mentionRows, cmd.mention, cmd.ref)
    BY <1>1, <1>4 DEF ApplyCommand, CommitCommand
  <2>2. DOMAIN mentionRows' = DOMAIN mentionRows \cup {cmd.mention}
    BY <1>2, <2>1, Zenon
  <2> QED BY <1>1, <2>2
<1>5. CASE cmd.kind \notin {"REVIEW", "MENTION"}
  <2>1. mentionRows' = mentionRows
    BY <1>1, <1>5 DEF ApplyCommand, CommitCommand
  <2> QED BY <1>1, <1>5, <2>1
<1> QED BY <1>3, <1>4, <1>5

LEMMA MentionsStayAnswered ==
  ASSUME ResInv, [ResNext]_resVars
  PROVE  MentionsAnswered'
<1>1. ResSources' = ResSources
  BY EvidenceStays DEF ResSources, SourcesOf
<1>2. CASE UNCHANGED <<profile, extracted, queue, mentionRows>> /\ undisturbed' \subseteq undisturbed
  <2>1. \A s : MentionsOf(s)' = MentionsOf(s)
    BY <1>2 DEF MentionsOf
  <2> QED BY <1>1, <1>2, <2>1 DEF ResInv, MentionsAnswered, Spoken
<1>3. ASSUME NEW m \in MentionIds, Extract(m)
      PROVE  MentionsAnswered'
  <2>1. /\ undisturbed' = undisturbed \ {profile[m].src} /\ extracted' = extracted \cup {m}
        /\ profile' = profile /\ queue' = queue /\ mentionRows' = mentionRows
    BY <1>3 DEF Extract, identityVars
  <2>2. \A s \in undisturbed' : MentionsOf(s)' = MentionsOf(s)
    BY <2>1 DEF MentionsOf
  <2> QED BY <1>1, <2>1, <2>2 DEF ResInv, MentionsAnswered, Spoken
<1>4. ASSUME NEW s \in ResSources, BeginResolution(s)
      PROVE  MentionsAnswered'
  <2>1. PICK f \in CommittedSeeds(MentionsOf(s)) :
          queue' = [queue EXCEPT ![s] = BatchCommands(s, MentionsOf(s), BuiltSeeds(f))]
    BY <1>4 DEF BeginResolution
  <2>2. /\ undisturbed' = undisturbed \cup {s} /\ mentionRows' = mentionRows
        /\ \A t : MentionsOf(t)' = MentionsOf(t)
    BY <1>4 DEF BeginResolution, identityVars, MentionsOf
  <2>3. MentionsOf(s) \in SUBSET MentionIds
    BY DEF MentionsOf, ResInv
  <2>4. \A m \in MentionsOf(s) : Spoken(BatchCommands(s, MentionsOf(s), BuiltSeeds(f)), m)
    BY <2>3, BatchCommandsAre
  <2>5. /\ queue'[s] = BatchCommands(s, MentionsOf(s), BuiltSeeds(f))
        /\ \A t \in ResSources : t # s => queue'[t] = queue[t]
    BY <2>1 DEF ResInv, BatchesSound
  <2>6. \A t \in undisturbed' : \A m \in MentionsOf(t) :
          m \in DOMAIN mentionRows' \/ Spoken(queue'[t], m)
    <3> TAKE t \in undisturbed'
    <3>1. CASE t = s
      BY <2>4, <2>5, <3>1
    <3>2. CASE t # s
      BY <2>2, <2>5, <3>2 DEF ResInv, MentionsAnswered
    <3> QED BY <3>1, <3>2
  <2> QED BY <1>1, <2>2, <2>6 DEF ResInv, MentionsAnswered, Spoken
<1>5. ASSUME NEW s \in ResSources, ApplyCommand(s)
      PROVE  MentionsAnswered'
  <2>1. /\ queue[s] # <<>> /\ queue' = [queue EXCEPT ![s] = Tail(queue[s])]
        /\ undisturbed' = undisturbed \cap {s} /\ \A t : MentionsOf(t)' = MentionsOf(t)
    BY <1>5 DEF ApplyCommand, MentionsOf
  <2>2. IsBatch(queue[s]) /\ queue'[s] = Tail(queue[s])
    BY <2>1 DEF ResInv, BatchesSound
  <2>3. \A m \in MentionsOf(s) : s \in undisturbed =>
          m \in DOMAIN mentionRows' \/ Spoken(queue'[s], m)
    <3> SUFFICES ASSUME NEW m \in MentionsOf(s), s \in undisturbed, m \notin DOMAIN mentionRows'
                 PROVE  Spoken(queue'[s], m)
      OBVIOUS
    <3>1. m \notin DOMAIN mentionRows
      BY <1>5, RowWritten
    <3>2. PICK c \in Range(queue[s]) : c.kind \in {"REVIEW", "MENTION"} /\ c.mention = m
      BY <3>1 DEF ResInv, MentionsAnswered, Spoken
    <3>3. c # Head(queue[s])
      BY <1>5, <3>2, RowWritten
    <3>4. c \in Range(queue'[s])
      BY <2>1, <2>2, <3>3, BatchTail
    <3> QED BY <3>2, <3>4 DEF Spoken
  <2> QED BY <1>1, <2>1, <2>3 DEF ResInv, MentionsAnswered, Spoken
<1>6. ASSUME NEW s \in ResSources, CrashResolution(s)
      PROVE  MentionsAnswered'
  <2>1. /\ queue' = [queue EXCEPT ![s] = <<>>] /\ undisturbed' = undisturbed \ {s}
        /\ mentionRows' = mentionRows /\ \A t : MentionsOf(t)' = MentionsOf(t)
    BY <1>6 DEF CrashResolution, MentionsOf, identityVars
  <2>2. \A t \in undisturbed' : t \in undisturbed /\ queue'[t] = queue[t]
    BY <2>1 DEF ResInv, BatchesSound, MentionsAnswered
  <2> QED BY <1>1, <2>1, <2>2 DEF ResInv, MentionsAnswered, Spoken
<1>7. CASE UNCHANGED resVars
  BY <1>2, <1>7 DEF resVars, identityVars
<1>8. CASE ResNext
  BY <1>2, <1>3, <1>4, <1>5, <1>6, <1>8 DEF ResNext, AlignIdentities, ConfirmIdentity,
     InvalidateIdentity, LockIdentity, RecordCorrespondence, identityVars
<1> QED BY <1>7, <1>8

LEMMA ResStarts == ASSUME ResInit PROVE ResInv
<1>1. identity = <<>> /\ DOMAIN identity = {} /\ IsFiniteSet({})
  BY FS_EmptySet DEF ResInit
<1>2. Rows /\ IdentitiesNamed /\ extracted \subseteq MentionIds
  BY <1>1 DEF ResInit, Rows, IdentitiesNamed
<1>3. BatchesSound
  BY NothingQueuedYet DEF ResInit, BatchesSound, ResSources
<1>4. MentionsAnswered
  BY DEF ResInit, MentionsAnswered
<1> QED BY <1>2, <1>3, <1>4 DEF ResInv

LEMMA ResSteps == ASSUME ResInv, [ResNext]_resVars PROVE ResInv'
<1>1. Rows'
  BY IdentityKept DEF RowsKept, ResInv
<1>2. (extracted \subseteq MentionIds)'
  BY EvidenceStays
<1> QED BY <1>1, <1>2, IdentitiesStayNamed, BatchesStaySound, MentionsStayAnswered DEF ResInv

\* Only the start of a run gives a source commands.
LEMMA MentionsStay ==
  ASSUME ResInv, [ResNext]_resVars, NEW s \in ResSources, queue[s] = <<>>,
         NEW cmd \in Range(queue'[s]), cmd.kind = "ESTABLISH", NEW m \in cmd.meta.support,
         NEW owners, owners = {r \in ActiveRefs : m \in identity[r].support}, owners # {}
  PROVE  \E r \in owners : cmd.ref \in Reach(r)
<1>1. CASE BeginResolution(s)
  <2>1. PICK f \in CommittedSeeds(MentionsOf(s)) :
          queue' = [queue EXCEPT ![s] = BatchCommands(s, MentionsOf(s), BuiltSeeds(f))]
    BY <1>1 DEF BeginResolution
  <2>2. MentionsOf(s) \in SUBSET MentionIds
    BY DEF MentionsOf, ResInv
  <2>3. cmd \in Range(BatchCommands(s, MentionsOf(s), BuiltSeeds(f)))
    BY <2>1 DEF ResInv, BatchesSound
  <2> QED BY <2>2, <2>3, BatchGives DEF ResInv
<1>2. CASE ~ BeginResolution(s)
  <2>1. queue'[s] = <<>>
    <3>1. CASE UNCHANGED queue
      BY <3>1
    <3>2. ASSUME NEW t \in ResSources, NEW cmds, queue' = [queue EXCEPT ![t] = cmds],
                 t # s \/ cmds = <<>>
          PROVE  queue'[s] = <<>>
      BY <3>2 DEF ResInv, BatchesSound
    <3>3. ASSUME NEW t \in ResSources, BeginResolution(t)
          PROVE  queue'[s] = <<>>
      BY <1>2, <3>2, <3>3 DEF BeginResolution
    <3>4. ASSUME NEW t \in ResSources, ApplyCommand(t)
          PROVE  queue'[s] = <<>>
      <4>1. queue[t] # <<>> /\ queue' = [queue EXCEPT ![t] = Tail(queue[t])]
        BY <3>4 DEF ApplyCommand
      <4> QED BY <3>2, <4>1
    <3>5. ASSUME NEW t \in ResSources, CrashResolution(t)
          PROVE  queue'[s] = <<>>
      BY <3>2, <3>5 DEF CrashResolution
    <3>6. CASE UNCHANGED resVars
      BY <3>1, <3>6 DEF resVars
    <3>7. CASE ResNext
      BY <3>1, <3>3, <3>4, <3>5, <3>7 DEF ResNext, Extract, AlignIdentities, ConfirmIdentity,
         InvalidateIdentity, LockIdentity, RecordCorrespondence
    <3> QED BY <3>6, <3>7
  <2>2. Range(<<>>) = {}
    BY DEF Range
  <2> QED BY <2>1, <2>2
<1> QED BY <1>1, <1>2

LEMMA ResInvariant == ResSpec => []ResInv
<1>1. ResInit => ResInv
  BY ResStarts
<1>2. ResInv /\ [ResNext]_resVars => ResInv'
  BY ResSteps
<1> QED BY <1>1, <1>2, PTL DEF ResSpec

(* Two new components of a batch never establish one canonical reference,   *)
(* and a run that nothing overlapped leaves no mention of its source without *)
(* an identity or a row for review.                                         *)
THEOREM BatchesLoseNothing == ResSpec => [](EstablishedOncePerBatch /\ NoMentionLost)
<1>1. ResInv => EstablishedOncePerBatch
  BY DEF ResInv, BatchesSound, IsBatch, EstablishesOnce, EstablishedOncePerBatch
<1>2. \A m : ~ Spoken(<<>>, m)
  <2>1. Range(<<>>) = {}
    BY DEF Range
  <2> QED BY <2>1 DEF Spoken
<1>3. ResInv => NoMentionLost
  BY <1>2 DEF ResInv, MentionsAnswered, NoMentionLost, NothingQueued
<1> QED BY <1>1, <1>3, ResInvariant, PTL

(* A mention that identities support is given to one of them, or to one an  *)
(* accepted alignment connects with it, whatever its run links it with.     *)
THEOREM MentionsStayTheirs == ResSpec => SupportedMentionsStay
<1>1. ResInv /\ [ResNext]_resVars =>
        [\A s \in ResSources : queue[s] = <<>> =>
           \A cmd \in Range(queue'[s]) : cmd.kind = "ESTABLISH" =>
             \A m \in cmd.meta.support :
               LET owners == {r \in ActiveRefs : m \in identity[r].support}
               IN  owners # {} => \E r \in owners : cmd.ref \in Reach(r)]_resVars
  BY MentionsStay
<1> QED BY <1>1, ResInvariant, PTL DEF ResSpec, SupportedMentionsStay

(* What no later command takes from an identity: the mentions it supports,  *)
(* the decision of its user, the sources it has.                            *)
THEOREM IdentitiesStandWhole == ResSpec => IdentitiesStand
BY MentionsStayTheirs, UserIdentitiesKept, MembershipsKept, PTL DEF IdentitiesStand

-----------------------------------------------------------------------------
(* Reconciliation                                                          *)

(* The first of each key: a sequence that holds every key there is.        *)
NextKept(kept, e) ==
  IF \E x \in Range(kept) : EmitKey(x) = EmitKey(e) THEN kept ELSE Append(kept, e)

IsKept(f, all, N) == f = [n \in 0..N |-> IF n = 0 THEN <<>> ELSE NextKept(f[n - 1], all[n])]

LEMMA KeptExists ==
  ASSUME NEW all
  PROVE  \A N \in Nat : \E f : IsKept(f, all, N)
<1> DEFINE S == {N \in Nat : ~ \E f : IsKept(f, all, N)}
<1> SUFFICES ASSUME S # {} PROVE FALSE
  OBVIOUS
<1>1. PICK N \in S : \A M \in S : N <= M
  BY LeastExists
<1>2. CASE N = 0
  <2>1. PICK f : f = [n \in 0..N |-> <<>>]
    OBVIOUS
  <2>2. \A n \in 0..N : n = 0
    BY <1>2
  <2>3. IsKept(f, all, N)
    BY <2>1, <2>2 DEF IsKept
  <2>4. QED
    BY <1>1, <2>3
<1>3. CASE N # 0
  <2>1. N \in Nat /\ N - 1 \in Nat /\ N - 1 \notin S
    BY <1>1, <1>3
  <2>2. PICK f : IsKept(f, all, N - 1)
    BY <2>1
  <2>3. \A n \in 0..(N - 1) : f[n] = IF n = 0 THEN <<>> ELSE NextKept(f[n - 1], all[n])
    BY <2>2, Zenon DEF IsKept
  <2>4. PICK g : g = [n \in 0..N |-> IF n = N THEN NextKept(f[N - 1], all[N]) ELSE f[n]]
    OBVIOUS
  <2>5. \A n \in 0..N : n # N => n \in 0..(N - 1) /\ g[n] = f[n]
    BY <2>1, <2>4
  <2>6. \A n \in 0..N : n # 0 => n - 1 \in 0..N /\ g[n - 1] = f[n - 1]
    BY <2>1, <2>5
  <2>7. \A n \in 0..N : g[n] = IF n = 0 THEN <<>> ELSE NextKept(g[n - 1], all[n])
    <3> TAKE n \in 0..N
    <3>1. CASE n = N
      BY <1>3, <2>4, <2>6, <3>1
    <3>2. CASE n # N
      BY <2>3, <2>5, <2>6, <3>2
    <3>3. QED
      BY <3>1, <3>2
  <2>8. IsKept(g, all, N)
    BY <2>4, <2>7 DEF IsKept
  <2>9. QED
    BY <1>1, <2>8
<1>4. QED
  BY <1>2, <1>3

LEMMA NextKeptKeeps ==
  ASSUME NEW S, NEW kept \in Seq(S), NEW e \in S
  PROVE  /\ NextKept(kept, e) \in Seq(S)
         /\ Range(kept) \subseteq Range(NextKept(kept, e))
         /\ \E x \in Range(NextKept(kept, e)) : EmitKey(x) = EmitKey(e)
<1>1. CASE \E x \in Range(kept) : EmitKey(x) = EmitKey(e)
  BY <1>1 DEF NextKept
<1>2. CASE ~ \E x \in Range(kept) : EmitKey(x) = EmitKey(e)
  <2>1. NextKept(kept, e) = Append(kept, e)
    BY <1>2, Zenon DEF NextKept
  <2>2. /\ Append(kept, e) \in Seq(S) /\ Len(Append(kept, e)) = Len(kept) + 1 /\ Len(kept) \in Nat
        /\ Append(kept, e)[Len(kept) + 1] = e
        /\ \A i \in 1..Len(kept) : Append(kept, e)[i] = kept[i]
    OBVIOUS
  <2> DEFINE w == Append(kept, e)
  <2>a. w \in Seq(S) /\ Len(kept) + 1 \in 1..Len(w) /\ w[Len(kept) + 1] = e
    BY <2>2
  <2>b. \A i \in 1..Len(kept) : i \in 1..Len(w) /\ w[i] = kept[i]
    BY <2>2
  <2> HIDE DEF w
  <2>c. \A i \in 1..Len(w) : w[i] \in Range(w)
    BY <2>a, RangeIs
  <2>d. Range(kept) = {kept[i] : i \in 1..Len(kept)}
    BY RangeIs
  <2>3. e \in Range(Append(kept, e))
    <3>1. e \in Range(w)
      BY <2>a, <2>c
    <3>2. QED
      BY <3>1 DEF w
  <2>5. Range(kept) \subseteq Range(Append(kept, e))
    <3>1. Range(kept) \subseteq Range(w)
      BY <2>b, <2>c, <2>d
    <3>2. QED
      BY <3>1 DEF w
  <2>6. QED
    BY <2>1, <2>2, <2>3, <2>5
<1>3. QED
  BY <1>1, <1>2

LEMMA FirstOfEachKeeps ==
  ASSUME NEW S, NEW all \in Seq(S)
  PROVE  /\ FirstOfEach(all) \in Seq(S)
         /\ \A e \in Range(all) : \E x \in Range(FirstOfEach(all)) : EmitKey(x) = EmitKey(e)
<1> DEFINE N == Len(all)
           f == CHOOSE g : IsKept(g, all, N)
<1>1. N \in Nat /\ \A i \in 1..N : all[i] \in S
  OBVIOUS
<1>2. FirstOfEach(all) = f[N]
  BY Zenon DEF FirstOfEach, IsKept, NextKept
<1>3. IsKept(f, all, N)
  BY <1>1, KeptExists, Zenon
<1> HIDE DEF f
<1>4. \A n \in 0..N : f[n] = IF n = 0 THEN <<>> ELSE NextKept(f[n - 1], all[n])
  BY <1>3, Zenon DEF IsKept
<1> HIDE DEF N
<1> DEFINE Good(n) == /\ f[n] \in Seq(S)
                      /\ \A j \in 1..n : \E x \in Range(f[n]) : EmitKey(x) = EmitKey(all[j])
           Bad == {n \in 0..N : ~ Good(n)}
<1>5. Bad = {}
  <2> SUFFICES ASSUME Bad # {} PROVE FALSE
    OBVIOUS
  <2>1. Bad \in SUBSET Nat
    BY <1>1
  <2>2. PICK n \in Bad : \A m \in Bad : n <= m
    BY <2>1, LeastExists
  <2>3. CASE n = 0
    <3>1. f[n] = <<>> /\ 1..n = {}
      BY <1>4, <2>2, <2>3
    <3>2. Good(n)
      BY <3>1
    <3>3. QED
      BY <2>2, <3>2
  <2>4. CASE n # 0
    <3>1. n \in 1..N /\ n - 1 \in 0..N /\ n - 1 \notin Bad /\ f[n] = NextKept(f[n - 1], all[n])
          /\ all[n] \in S
      BY <1>1, <1>4, <2>2, <2>4
    <3>2. Good(n - 1)
      BY <3>1
    <3>3. /\ f[n] \in Seq(S) /\ Range(f[n - 1]) \subseteq Range(f[n])
          /\ \E x \in Range(f[n]) : EmitKey(x) = EmitKey(all[n])
      <4> DEFINE last == f[n - 1]
      <4>1. last \in Seq(S) /\ f[n] = NextKept(last, all[n])
        BY <3>1, <3>2
      <4> HIDE DEF last
      <4>2. /\ NextKept(last, all[n]) \in Seq(S) /\ Range(last) \subseteq Range(NextKept(last, all[n]))
            /\ \E x \in Range(NextKept(last, all[n])) : EmitKey(x) = EmitKey(all[n])
        BY <3>1, <4>1, NextKeptKeeps
      <4>3. f[n] \in Seq(S) /\ Range(last) \subseteq Range(f[n])
            /\ \E x \in Range(f[n]) : EmitKey(x) = EmitKey(all[n])
        BY <4>1, <4>2, Zenon
      <4>4. QED
        BY <4>3 DEF last
    <3>4. \A j \in 1..n : j \in 1..(n - 1) \/ j = n
      BY <1>1, <3>1
    <3>5. Good(n)
      BY <3>2, <3>3, <3>4
    <3>6. QED
      BY <2>2, <3>5
  <2>5. QED
    BY <2>3, <2>4
<1>6. N \in 0..N
  BY <1>1
<1>7. Good(N)
  BY <1>5, <1>6
<1>8. \A e \in Range(all) : \E j \in 1..N : e = all[j]
  BY RangeIs DEF N
<1>9. QED
  BY <1>2, <1>7, <1>8

(* What one observation says is a sequence.                                *)
LEMMA EmitsIsSequence ==
  ASSUME NEW obs, obs.kind \in ObservationKinds
  PROVE  Emits(obs) \in Seq(Range(Emits(obs)))
<1> DEFINE subject == RefOfSurface(obs.subject)
           target == RelationshipTarget(obs.pred, obs.rel)
           at == Utterance(obs)
<1>1. \A a : <<a>> \in Seq({a})
  OBVIOUS
<1>2. \A a, b : <<a, b>> \in Seq({a, b})
  OBVIOUS
<1>3. \A S : <<>> \in Seq(S)
  OBVIOUS
<1>4. \E S : Emits(obs) \in Seq(S)
  <2>1. CASE obs.kind = "trait"
    <3>1. Emits(obs) = <<Says("HAS_TRAIT", subject, obs.object, obs, NoRel)>>
      BY <2>1 DEF Emits
    <3>2. QED
      BY <1>1, <3>1
  <2>2. CASE obs.kind = "mention"
    <3>1. Emits(obs) = <<Says("MENTIONED_IN", subject, obs.object, obs, NoRel)>>
      BY <2>2 DEF Emits
    <3>2. QED
      BY <1>1, <3>1
  <2>3. CASE obs.kind = "alias"
    <3> DEFINE first == Says("ALIAS_OF", RefOfSurface(obs.object), subject, obs, NoRel)
               second == Says("KNOWN_AS", subject, obs.object, obs, NoRel)
    <3>1. Emits(obs) = <<first, second>>
      BY <2>3 DEF Emits
    <3> HIDE DEF first, second
    <3>2. <<first, second>> \in Seq({first, second})
      OBVIOUS
    <3>3. QED
      BY <3>1, <3>2, Zenon
  <2>4. CASE obs.kind = "speech"
    <3> DEFINE spoken == Says("SPEAKS", subject, at, obs, NoRel)
               uttered == Says("UTTERED_IN", at, obs.object, obs, NoRel)
               first == IF obs.subject = "" THEN <<>> ELSE <<spoken>>
    <3>1. Emits(obs) = first \o <<uttered>>
      BY <2>4 DEF Emits
    <3> HIDE DEF spoken, uttered
    <3>a. <<spoken>> \in Seq({spoken, uttered}) /\ <<uttered>> \in Seq({spoken, uttered})
      OBVIOUS
    <3>2. first \in Seq({spoken, uttered}) /\ <<uttered>> \in Seq({spoken, uttered})
      BY <1>3, <3>a, Zenon
    <3> HIDE DEF first
    <3>4. first \o <<uttered>> \in Seq({spoken, uttered})
      BY <3>2, ConcatProperties
    <3>3. QED
      BY <3>1, <3>4, Zenon
  <2>5. CASE obs.kind = "relation"
    <3>1. \/ Emits(obs) = <<>>
          \/ Emits(obs) = <<Says(target[1], subject, RefOfSurface(obs.object), obs, target[2])>>
      BY <2>5, Zenon DEF Emits
    <3>2. QED
      BY <1>1, <1>3, <3>1
  <2>6. QED
    BY <2>1, <2>2, <2>3, <2>4, <2>5 DEF ObservationKinds
<1>5. QED
  BY <1>4, SequenceOfItsRange

(* Everything a run may say, and that nothing it says is lost.             *)
AliasSaid == UNION {UNION {Range(AliasEmits(r, j)) : j \in Nat} : r \in Range(Canonicals)}
ObservationSaid == UNION {Range(Emits(observed[i])) : i \in DOMAIN observed}

LEMMA ResolutionEmitsIsSequence == ResolutionEmits \in Seq(AliasSaid)
<1> DEFINE of(r) == FlattenSeq([j \in DOMAIN AliasNames[r] |-> AliasEmits(r, j)])
           all == [i \in DOMAIN Canonicals |-> IF Active(Canonicals[i]) THEN of(Canonicals[i]) ELSE <<>>]
<1>1. ASSUME NEW r \in Range(Canonicals) PROVE of(r) \in Seq(AliasSaid)
  <2>1. AliasNames[r] \in Seq(Range(AliasNames[r]))
    BY ReconConstants
  <2>2. DOMAIN AliasNames[r] = 1..Len(AliasNames[r]) /\ Len(AliasNames[r]) \in Nat
    BY <2>1
  <2>3. \A j \in Nat : AliasEmits(r, j) \in Seq(AliasSaid)
    <3> TAKE j \in Nat
    <3>1. \A a, b : <<a, b>> \in Seq({a, b})
      OBVIOUS
    <3>2. \E S : AliasEmits(r, j) \in Seq(S)
      BY <3>1 DEF AliasEmits
    <3>3. Range(AliasEmits(r, j)) \subseteq AliasSaid
      <4> DEFINE said == UNION {Range(AliasEmits(r, i)) : i \in Nat}
      <4>1. Range(AliasEmits(r, j)) \subseteq said
        <5> SUFFICES ASSUME NEW x \in Range(AliasEmits(r, j)) PROVE x \in said
          OBVIOUS
        <5> QED
          OBVIOUS
      <4>2. said \subseteq AliasSaid
        <5> SUFFICES ASSUME NEW x \in said PROVE x \in AliasSaid
          OBVIOUS
        <5>1. said \in {UNION {Range(AliasEmits(q, i)) : i \in Nat} : q \in Range(Canonicals)}
          OBVIOUS
        <5> HIDE DEF said
        <5>2. QED
          BY <5>1 DEF AliasSaid
      <4> HIDE DEF said
      <4>3. QED
        BY <4>1, <4>2
    <3>4. QED
      BY <3>2, <3>3, SequenceOfItsRange
  <2> DEFINE parts == [j \in DOMAIN AliasNames[r] |-> AliasEmits(r, j)]
  <2>4. parts \in [1..Len(AliasNames[r]) -> Seq(AliasSaid)]
    BY <2>2, <2>3
  <2> HIDE DEF parts
  <2>5. parts \in Seq(Seq(AliasSaid))
    BY <2>2, <2>4, MapIsSequence
  <2>6. FlattenSeq(parts) \in Seq(AliasSaid)
    BY <2>5, FlattenKeeps
  <2>7. QED
    BY <2>6 DEF parts
<1>2. Canonicals \in Seq(Range(Canonicals))
  BY ReconConstants
<1>3. DOMAIN Canonicals = 1..Len(Canonicals) /\ Len(Canonicals) \in Nat
      /\ \A i \in 1..Len(Canonicals) : Canonicals[i] \in Range(Canonicals)
  BY <1>2
<1>4. <<>> \in Seq(AliasSaid)
  OBVIOUS
<1>5. all = [i \in DOMAIN Canonicals |->
              IF Active(Canonicals[i])
              THEN FlattenSeq([j \in DOMAIN AliasNames[Canonicals[i]] |-> AliasEmits(Canonicals[i], j)])
              ELSE <<>>]
  OBVIOUS
<1> HIDE DEF of
<1>6. all \in [1..Len(Canonicals) -> Seq(AliasSaid)]
  BY <1>1, <1>3, <1>4
<1> HIDE DEF all
<1>7. all \in Seq(Seq(AliasSaid))
  BY <1>3, <1>6, MapIsSequence
<1>8. FlattenSeq(all) \in Seq(AliasSaid)
  BY <1>7, FlattenKeeps
<1>9. ResolutionEmits = FlattenSeq(all)
  BY <1>5, Zenon DEF ResolutionEmits
<1>10. QED
  BY <1>8, <1>9

LEMMA ObservationEmitsKeeps ==
  ASSUME observed \in Analyses
  PROVE  /\ ObservationEmits \in Seq(ObservationSaid)
         /\ \A i \in DOMAIN observed : Range(Emits(observed[i])) \subseteq Range(ObservationEmits)
<1> DEFINE parts == [i \in DOMAIN observed |-> Emits(observed[i])]
<1>1. observed \in Seq(Range(observed)) /\ \A obs \in Range(observed) : obs.kind \in ObservationKinds
  BY ReconConstants
<1>2. DOMAIN observed = 1..Len(observed) /\ Len(observed) \in Nat
      /\ \A i \in 1..Len(observed) : observed[i] \in Range(observed)
  BY <1>1
<1>3. \A i \in 1..Len(observed) : Emits(observed[i]) \in Seq(ObservationSaid)
  <2> TAKE i \in 1..Len(observed)
  <2>1. Emits(observed[i]) \in Seq(Range(Emits(observed[i])))
    BY <1>1, <1>2, EmitsIsSequence
  <2>2. Range(Emits(observed[i])) \subseteq ObservationSaid
    BY <1>2, Zenon DEF ObservationSaid
  <2>3. QED
    BY <2>1, <2>2, SequenceOfItsRange
<1>4. parts \in [1..Len(observed) -> Seq(ObservationSaid)]
  BY <1>2, <1>3
<1>5. \A i \in DOMAIN observed : parts[i] = Emits(observed[i])
  OBVIOUS
<1>6. ObservationEmits = FlattenSeq(parts)
  BY Zenon DEF ObservationEmits
<1> HIDE DEF parts
<1>7. parts \in Seq(Seq(ObservationSaid)) /\ Len(parts) = Len(observed)
  BY <1>2, <1>4, MapIsSequence
<1>8. /\ FlattenSeq(parts) \in Seq(ObservationSaid)
      /\ \A i \in 1..Len(parts) : Range(parts[i]) \subseteq Range(FlattenSeq(parts))
  BY <1>7, FlattenKeeps
<1>9. QED
  BY <1>2, <1>5, <1>6, <1>7, <1>8

(* The assertions of a run: a sequence in which every observation is found *)
(* and no uncertain subject is confirmed.                                  *)
Asserts(e) ==
  \E j \in 1..Len(Reconcile) :
    /\ Reconcile[j].pred = e.pred /\ Reconcile[j].subject = e.subject
    /\ Reconcile[j].object = e.object /\ Reconcile[j].rel = e.rel

LEMMA ReconcileKeeps ==
  ASSUME observed \in Analyses
  PROVE  /\ \E S : Reconcile \in Seq(S)
         /\ \A i \in DOMAIN observed : \A e \in Range(Emits(observed[i])) : Asserts(e)
         /\ \A j \in 1..Len(Reconcile) :
              Reconcile[j].subject \in CeilingRefs => Reconcile[j].state # "CONFIRMED"
<1> DEFINE S == AliasSaid \cup ObservationSaid
           all == ResolutionEmits \o ObservationEmits
           kept == FirstOfEach(all)
           mapped(e) == [pred |-> e.pred, subject |-> e.subject, object |-> e.object,
                         rel |-> e.rel, state |-> StateFor(e)]
           R == [i \in DOMAIN kept |-> mapped(kept[i])]
<1>1. Reconcile = R
  BY Zenon DEF Reconcile
<1>2. ResolutionEmits \in Seq(S)
  BY ResolutionEmitsIsSequence
<1>3. ObservationEmits \in Seq(S)
  BY ObservationEmitsKeeps
<1>4. all \in Seq(S) /\ Range(all) = Range(ResolutionEmits) \cup Range(ObservationEmits)
  BY <1>2, <1>3, RangeOfConcat
<1> HIDE DEF all, S
<1>5. kept \in Seq(S) /\ \A e \in Range(all) : \E x \in Range(kept) : EmitKey(x) = EmitKey(e)
  BY <1>4, FirstOfEachKeeps
<1> HIDE DEF kept
<1>6. Len(kept) \in Nat /\ DOMAIN kept = 1..Len(kept)
  BY <1>5
<1> DEFINE T == {mapped(kept[i]) : i \in 1..Len(kept)}
<1>7. R \in [1..Len(kept) -> T]
  BY <1>6, Zenon
<1>8. R \in Seq(T) /\ Len(R) = Len(kept)
  <2> HIDE DEF R, T
  <2> QED
    BY <1>6, <1>7, MapIsSequence
<1>9. \A j \in 1..Len(kept) : R[j] = mapped(kept[j])
  BY <1>6
<1>10. \A j \in 1..Len(kept) : R[j].subject = kept[j].subject /\ R[j].state = StateFor(kept[j])
                               /\ R[j].pred = kept[j].pred /\ R[j].object = kept[j].object
                               /\ R[j].rel = kept[j].rel
  <2> TAKE j \in 1..Len(kept)
  <2>1. /\ mapped(kept[j]).subject = kept[j].subject /\ mapped(kept[j]).state = StateFor(kept[j])
        /\ mapped(kept[j]).pred = kept[j].pred /\ mapped(kept[j]).object = kept[j].object
        /\ mapped(kept[j]).rel = kept[j].rel
    OBVIOUS
  <2> HIDE DEF R, mapped
  <2>2. QED
    BY <1>9, <2>1
<1> HIDE DEF R, T
<1>11. ASSUME NEW i \in DOMAIN observed, NEW e \in Range(Emits(observed[i])) PROVE Asserts(e)
  <2>1. e \in Range(all)
    BY <1>4, <1>11, ObservationEmitsKeeps
  <2>2. PICK x \in Range(kept) : EmitKey(x) = EmitKey(e)
    BY <1>5, <2>1
  <2>3. PICK j \in 1..Len(kept) : x = kept[j]
    BY <1>5, <2>2, RangeIs
  <2>4. x.pred = e.pred /\ x.subject = e.subject /\ x.object = e.object /\ x.rel = e.rel
    BY <2>2 DEF EmitKey
  <2>5. QED
    BY <1>1, <1>8, <1>10, <2>3, <2>4 DEF Asserts
<1>12. ASSUME NEW j \in 1..Len(Reconcile), Reconcile[j].subject \in CeilingRefs
       PROVE  Reconcile[j].state # "CONFIRMED"
  <2>1. j \in 1..Len(kept) /\ kept[j].subject \in CeilingRefs /\ Reconcile[j].state = StateFor(kept[j])
    BY <1>1, <1>8, <1>10, <1>12
  <2>2. QED
    BY <2>1 DEF StateFor
<1>13. QED
  BY <1>1, <1>8, <1>11, <1>12

(* The mapping reads the identities and the observations, nothing else.    *)
LEMMA ReconcileReads ==
  ASSUME canon' = canon, observed' = observed
  PROVE  Reconcile' = Reconcile
<1>1. \A r : Active(r)' <=> Active(r)
  BY DEF Active, Known
<1>2. Committed' = Committed
  BY <1>1 DEF Committed
<1>3. \A s : RefOfSurface(s)' = RefOfSurface(s)
  BY <1>2 DEF RefOfSurface
<1>4. \A obs : Emits(obs)' = Emits(obs)
  BY <1>3 DEF Emits
<1>5. ObservationEmits' = ObservationEmits
  BY <1>4 DEF ObservationEmits
<1>6. \A r, j : AliasEmits(r, j)' = AliasEmits(r, j)
  BY DEF AliasEmits
<1>7. ResolutionEmits' = ResolutionEmits
  BY <1>1, <1>6 DEF ResolutionEmits
<1>8. CeilingRefs' = CeilingRefs
  BY <1>2 DEF CeilingRefs
<1>9. \A e : StateFor(e)' = StateFor(e)
  BY <1>8 DEF StateFor
<1>10. QED
  BY <1>5, <1>7, <1>9 DEF Reconcile

(* What the rows say of the first n events: each has a row; the row of a   *)
(* machine holds the value of one of them, and of the last of its key.     *)
UserRow(rows, k) == k \in DOMAIN rows /\ rows[k].authority = "USER_OVERRIDE"
RowHolds(rows, k, ev) == rows[k].object = ev.object /\ rows[k].state = ev.state

EventKept(rows, R, n, i) ==
  /\ FactKey(R[i]) \in DOMAIN rows
  /\ ~ UserRow(rows, FactKey(R[i])) =>
       /\ \E j \in 1..n : /\ FactKey(R[j]) = FactKey(R[i])
                          /\ RowHolds(rows, FactKey(R[i]), R[j])
       /\ (\A j \in (i + 1)..n : FactKey(R[j]) # FactKey(R[i]))
            => RowHolds(rows, FactKey(R[i]), R[i])

RowsKeep(rows, R, n) == \A i \in 1..n : EventKept(rows, R, n, i)

(* One more event: a user's row stands, any other takes the event's value. *)
LEMMA OneMoreEvent ==
  ASSUME NEW rows, NEW after, NEW R, NEW n \in Nat, RowsKeep(rows, R, n),
         UserRow(rows, FactKey(R[n + 1])) => after = rows,
         ~ UserRow(rows, FactKey(R[n + 1])) =>
           /\ FactKey(R[n + 1]) \in DOMAIN after /\ RowHolds(after, FactKey(R[n + 1]), R[n + 1])
           /\ \A k : k # FactKey(R[n + 1]) =>
                /\ k \in DOMAIN after <=> k \in DOMAIN rows
                /\ k \in DOMAIN rows => after[k] = rows[k]
  PROVE  RowsKeep(after, R, n + 1)
<1> DEFINE K(i) == FactKey(R[i])
           m == n + 1
<1>1. m \in Nat /\ m \in 1..m /\ (\A i \in 1..m : i \in 1..n \/ i = m)
      /\ \A i \in 1..n : i \in 1..m /\ m \in (i + 1)..m
  OBVIOUS
<1>2. \A i \in 1..n : EventKept(rows, R, n, i)
  BY DEF RowsKeep
<1>3. ASSUME NEW i \in 1..n, K(i) # K(m) PROVE EventKept(after, R, m, i)
  <2>1. /\ K(i) \in DOMAIN rows
        /\ ~ UserRow(rows, K(i)) =>
             /\ \E j \in 1..n : K(j) = K(i) /\ RowHolds(rows, K(i), R[j])
             /\ (\A j \in (i + 1)..n : K(j) # K(i)) => RowHolds(rows, K(i), R[i])
    BY <1>2, Zenon DEF EventKept
  <2>2. K(i) \in DOMAIN after /\ after[K(i)] = rows[K(i)]
    BY <1>3, <2>1
  <2>3. (UserRow(after, K(i)) <=> UserRow(rows, K(i)))
        /\ \A e : RowHolds(after, K(i), e) <=> RowHolds(rows, K(i), e)
    BY <2>1, <2>2 DEF UserRow, RowHolds
  <2>4. (\A j \in (i + 1)..m : K(j) # K(i)) => \A j \in (i + 1)..n : K(j) # K(i)
    <3>1. \A j \in (i + 1)..n : j \in (i + 1)..m
      OBVIOUS
    <3>2. QED
      BY <3>1, Zenon
  <2>5. \A j \in 1..n : j \in 1..m
    BY <1>1
  <2> SUFFICES /\ K(i) \in DOMAIN after
               /\ ~ UserRow(after, K(i)) =>
                    /\ \E j \in 1..m : K(j) = K(i) /\ RowHolds(after, K(i), R[j])
                    /\ (\A j \in (i + 1)..m : K(j) # K(i)) => RowHolds(after, K(i), R[i])
    BY Zenon DEF EventKept
  <2> HIDE DEF K, m
  <2>6. QED
    BY <2>1, <2>2, <2>3, <2>4, <2>5, Zenon
<1>4. ASSUME NEW i \in 1..m, K(i) = K(m), UserRow(rows, K(m)) PROVE EventKept(after, R, m, i)
  <2>1. after = rows /\ K(i) \in DOMAIN after /\ UserRow(after, K(i))
    BY <1>4 DEF UserRow
  <2>2. QED
    BY <2>1, Zenon DEF EventKept
<1>5. ASSUME NEW i \in 1..m, K(i) = K(m), ~ UserRow(rows, K(m)) PROVE EventKept(after, R, m, i)
  <2>1. K(i) \in DOMAIN after /\ RowHolds(after, K(i), R[m])
    BY <1>5
  <2>2. i = m \/ m \in (i + 1)..m
    BY <1>1
  <2> SUFFICES /\ K(i) \in DOMAIN after
               /\ \E j \in 1..m : K(j) = K(i) /\ RowHolds(after, K(i), R[j])
               /\ (\A j \in (i + 1)..m : K(j) # K(i)) => RowHolds(after, K(i), R[i])
    BY Zenon DEF EventKept
  <2>3. \E j \in 1..m : K(j) = K(i) /\ RowHolds(after, K(i), R[j])
    BY <1>1, <1>5, <2>1, Zenon
  <2>4. (\A j \in (i + 1)..m : K(j) # K(i)) => RowHolds(after, K(i), R[i])
    <3>1. CASE i = m
      BY <2>1, <3>1, Zenon
    <3>2. CASE m \in (i + 1)..m
      BY <1>5, <3>2, Zenon
    <3>3. QED
      BY <2>2, <3>1, <3>2
  <2>5. QED
    BY <2>1, <2>3, <2>4, Zenon
<1>6. ASSUME NEW i \in 1..m PROVE EventKept(after, R, m, i)
  <2>1. K(i) = K(m) \/ (i \in 1..n /\ K(i) # K(m))
    <3>1. i \in 1..n \/ i = m
      BY <1>1
    <3> HIDE DEF m
    <3>2. QED
      BY <3>1, Zenon
  <2>2. QED
    BY <1>3, <1>4, <1>5, <2>1, Zenon
<1>7. QED
  BY <1>6 DEF RowsKeep

(* A decision of a user about one of them.                                 *)
LEMMA UserDecides ==
  ASSUME NEW rows, NEW after, NEW R, NEW n \in Nat, RowsKeep(rows, R, n), NEW k,
         DOMAIN after = DOMAIN rows, UserRow(after, k),
         \A x \in DOMAIN rows : x # k => after[x] = rows[x]
  PROVE  RowsKeep(after, R, n)
<1>1. SUFFICES ASSUME NEW i \in 1..n PROVE EventKept(after, R, n, i)
  BY DEF RowsKeep
<1> DEFINE K(j) == FactKey(R[j])
<1>2. /\ K(i) \in DOMAIN rows
      /\ ~ UserRow(rows, K(i)) =>
           /\ \E j \in 1..n : K(j) = K(i) /\ RowHolds(rows, K(i), R[j])
           /\ (\A j \in (i + 1)..n : K(j) # K(i)) => RowHolds(rows, K(i), R[i])
  BY Zenon DEF RowsKeep, EventKept
<1>3. CASE K(i) = k
  BY <1>2, <1>3, Zenon DEF EventKept
<1>4. CASE K(i) # k
  <2>1. after[K(i)] = rows[K(i)]
    BY <1>2, <1>4
  <2>2. (UserRow(after, K(i)) <=> UserRow(rows, K(i)))
        /\ \A e : RowHolds(after, K(i), e) <=> RowHolds(rows, K(i), e)
    BY <1>2, <2>1 DEF UserRow, RowHolds
  <2> SUFFICES /\ K(i) \in DOMAIN after
               /\ ~ UserRow(after, K(i)) =>
                    /\ \E j \in 1..n : K(j) = K(i) /\ RowHolds(after, K(i), R[j])
                    /\ (\A j \in (i + 1)..n : K(j) # K(i)) => RowHolds(after, K(i), R[i])
    BY Zenon DEF EventKept
  <2> HIDE DEF K
  <2>3. QED
    BY <1>2, <2>2, Zenon
<1>5. QED
  BY <1>3, <1>4

(* A run that no change of an identity has overlapped is n events into the *)
(* mapping of the identities as they are now.                              *)
RunAt(n) ==
  /\ n \in 0..Len(Reconcile)
  /\ Len(pending) = Len(Reconcile) - n
  /\ \A i \in 1..(Len(Reconcile) - n) : pending[i] = Reconcile[n + i]
  /\ asserted = {Reconcile[i] : i \in 1..n}
  /\ ran = "idle" => n = Len(Reconcile)
  /\ RowsKeep(factRows, Reconcile, n)

ReconInv ==
  /\ observed \in Analyses
  /\ DOMAIN canon \subseteq Range(Canonicals)
  /\ ran \in {"idle", "running"}
  /\ \E S : pending \in Seq(S)
  /\ fresh => \E n : RunAt(n)

LEMMA ReconInvImplies == ReconInv => ReconciliationFaithful
<1> SUFFICES ASSUME ReconInv PROVE ReconciliationFaithful
  OBVIOUS
<1>1. CASE ~ Completed
  BY <1>1, Zenon DEF ReconciliationFaithful, UncertainNeverConfirmed, EveryObservationAsserted,
     LastValueWins
<1>2. CASE Completed
  <2> DEFINE N == Len(Reconcile)
  <2>1. RunAt(N)
    <3>1. PICK n : RunAt(n)
      BY <1>2 DEF ReconInv, Completed
    <3>2. n = N
      BY <1>2, <3>1 DEF RunAt, Completed
    <3>3. QED
      BY <3>1, <3>2
  <2>2. /\ \A i \in DOMAIN observed : \A e \in Range(Emits(observed[i])) : Asserts(e)
        /\ \A j \in 1..N :
             Reconcile[j].subject \in CeilingRefs => Reconcile[j].state # "CONFIRMED"
        /\ DOMAIN Reconcile = 1..N
    BY ReconcileKeeps DEF ReconInv
  <2>3. asserted = {Reconcile[i] : i \in 1..N} /\ RowsKeep(factRows, Reconcile, N)
    BY <2>1 DEF RunAt
  <2> HIDE DEF N
  <2>4. UncertainNeverConfirmed
    <3> SUFFICES ASSUME NEW i \in 1..N, NEW k, k = FactKey(Reconcile[i]),
                        Known(k[1]), canon[k[1]].class = "probable",
                        canon[k[1]].metaState = "PROBABLE", canon[k[1]].state # "INVALIDATED",
                        factRows[k].authority = "machine"
                 PROVE  factRows[k].state # "CONFIRMED"
      BY <2>3 DEF UncertainNeverConfirmed
    <3>1. ~ UserRow(factRows, k)
      BY DEF UserRow
    <3>2. PICK j \in 1..N : FactKey(Reconcile[j]) = k /\ RowHolds(factRows, k, Reconcile[j])
      BY <2>3, <3>1 DEF RowsKeep, EventKept
    <3>3. Reconcile[j].subject = k[1]
      BY <3>2 DEF FactKey
    <3>4. k[1] \in CeilingRefs
      BY DEF CeilingRefs, Committed, Active, Known, ReconInv
    <3>5. QED
      BY <2>2, <3>2, <3>3, <3>4 DEF RowHolds
  <2>5. EveryObservationAsserted
    <3> SUFFICES ASSUME NEW i \in DOMAIN observed, NEW e \in Range(Emits(observed[i]))
                 PROVE  \E a \in asserted : /\ a.pred = e.pred /\ a.subject = e.subject
                                            /\ a.object = e.object /\ a.rel = e.rel
      BY DEF EveryObservationAsserted
    <3>1. PICK j \in 1..N : /\ Reconcile[j].pred = e.pred /\ Reconcile[j].subject = e.subject
                            /\ Reconcile[j].object = e.object /\ Reconcile[j].rel = e.rel
      BY <2>2 DEF Asserts, N
    <3>2. QED
      BY <2>3, <3>1
  <2>6. LastValueWins
    <3> SUFFICES ASSUME NEW i \in 1..N, ~ UserFact(FactKey(Reconcile[i])),
                        \A j \in i + 1..N : FactKey(Reconcile[j]) # FactKey(Reconcile[i])
                 PROVE  /\ factRows[FactKey(Reconcile[i])].object = Reconcile[i].object
                        /\ factRows[FactKey(Reconcile[i])].state = Reconcile[i].state
      BY <2>2, Zenon DEF LastValueWins, N
    <3>1. QED
      BY <2>3 DEF RowsKeep, EventKept, RowHolds, UserRow, UserFact
  <2>7. QED
    BY <2>4, <2>5, <2>6 DEF ReconciliationFaithful
<1>3. QED
  BY <1>1, <1>2

LEMMA ReconInitially == ReconInit => ReconInv
<1>1. \A S : <<>> \in Seq(S)
  OBVIOUS
<1>2. QED
  BY <1>1 DEF ReconInit, ReconInv

LEMMA ReconBegins == ReconInv /\ BeginReconciliation => ReconInv'
<1> SUFFICES ASSUME ReconInv, BeginReconciliation PROVE ReconInv'
  OBVIOUS
<1>1. Reconcile' = Reconcile
  BY ReconcileReads DEF BeginReconciliation
<1>2. PICK S : Reconcile \in Seq(S)
  BY ReconcileKeeps DEF ReconInv
<1>3. pending' = Reconcile /\ asserted' = {} /\ ran' = "running"
  BY DEF BeginReconciliation
<1>4. 1..0 = {} /\ \A i \in 1..Len(Reconcile) : 0 + i = i
  BY <1>2
<1>5. RowsKeep(factRows', Reconcile', 0)
  BY <1>4 DEF RowsKeep
<1>6. RunAt(0)'
  BY <1>1, <1>2, <1>3, <1>4, <1>5 DEF RunAt
<1>7. QED
  BY <1>2, <1>3, <1>6 DEF ReconInv, BeginReconciliation

LEMMA ReconAppends == ReconInv /\ AppendNext => ReconInv'
<1> SUFFICES ASSUME ReconInv, AppendNext PROVE ReconInv'
  OBVIOUS
<1>1. Reconcile' = Reconcile
  BY ReconcileReads DEF AppendNext
<1>2. PICK S : pending \in Seq(S) /\ pending # <<>>
  BY DEF ReconInv, AppendNext
<1>3. /\ Tail(pending) \in Seq(S) /\ Len(pending) \in Nat /\ Len(pending) >= 1
      /\ Len(Tail(pending)) = Len(pending) - 1 /\ Head(pending) = pending[1]
      /\ \A i \in 1..(Len(pending) - 1) : Tail(pending)[i] = pending[i + 1]
  BY <1>2
<1>4. ASSUME fresh' PROVE \E n : RunAt(n)'
  <2> DEFINE R == Reconcile
             ev == Head(pending)
  <2>1. PICK n : RunAt(n)
    BY <1>4 DEF ReconInv, AppendNext
  <2>2. Len(R) \in Nat
    BY ReconcileKeeps DEF ReconInv
  <2>3. n \in Nat /\ n + 1 \in 0..Len(R) /\ ev = R[n + 1] /\ ran = "running"
    BY <1>3, <2>1, <2>2 DEF RunAt, AppendNext
  <2>4. Len(pending') = Len(R) - (n + 1)
        /\ \A i \in 1..(Len(R) - (n + 1)) : pending'[i] = R[(n + 1) + i]
    <3>1. pending' = Tail(pending) /\ Len(pending) = Len(R) - n
          /\ \A i \in 1..(Len(R) - n) : pending[i] = R[n + i]
      BY <2>1 DEF RunAt, AppendNext
    <3>2. ASSUME NEW i \in 1..(Len(R) - (n + 1)) PROVE pending'[i] = R[(n + 1) + i]
      <4>1. i \in 1..(Len(pending) - 1) /\ i + 1 \in 1..(Len(R) - n) /\ n + (i + 1) = (n + 1) + i
        BY <2>2, <2>3, <3>1
      <4> HIDE DEF R
      <4>2. QED
        BY <1>3, <3>1, <4>1
    <3>3. QED
      BY <1>3, <2>2, <2>3, <3>1, <3>2
  <2>5. asserted' = {R[i] : i \in 1..(n + 1)}
    <3>1. asserted' = {R[i] : i \in 1..n} \cup {R[n + 1]}
      BY <2>1, <2>3 DEF RunAt, AppendNext
    <3>2. \A i : i \in 1..(n + 1) <=> i \in 1..n \/ i = n + 1
      BY <2>3
    <3> HIDE DEF R
    <3>3. QED
      BY <3>1, <3>2
  <2>6. RowsKeep(factRows', R, n + 1)
    <3> DEFINE k == FactKey(R[n + 1])
    <3>1. RowsKeep(factRows, R, n)
      BY <2>1 DEF RunAt
    <3>2. factRows' = IF UserRow(factRows, k) THEN factRows
                      ELSE SetFact(k, R[n + 1].object, R[n + 1].state, "machine")
      BY <2>3 DEF AppendNext, FoldAssertion, UserFact, UserRow
    <3> HIDE DEF R, k
    <3>3. ~ UserRow(factRows, k) =>
           /\ k \in DOMAIN factRows' /\ RowHolds(factRows', k, R[n + 1])
           /\ \A x : x # k =>
                /\ x \in DOMAIN factRows' <=> x \in DOMAIN factRows
                /\ x \in DOMAIN factRows => factRows'[x] = factRows[x]
      BY <3>2 DEF SetFact, RowHolds
    <3>4. UserRow(factRows, k) => factRows' = factRows
      BY <3>2
    <3>5. QED
      BY <2>3, <3>1, <3>3, <3>4, OneMoreEvent DEF k
  <2>7. RunAt(n + 1)'
    BY <1>1, <2>3, <2>4, <2>5, <2>6 DEF RunAt, AppendNext
  <2>8. QED
    BY <2>7
<1>5. QED
  BY <1>3, <1>4 DEF ReconInv, AppendNext

LEMMA ReconFinishes == ReconInv /\ FinishReconciliation => ReconInv'
<1> SUFFICES ASSUME ReconInv, FinishReconciliation PROVE ReconInv'
  OBVIOUS
<1>1. Reconcile' = Reconcile
  BY ReconcileReads DEF FinishReconciliation
<1>2. ASSUME NEW n, RunAt(n) PROVE RunAt(n)'
  <2>1. Len(Reconcile) \in Nat
    BY ReconcileKeeps DEF ReconInv
  <2>2. n = Len(Reconcile)
    BY <1>2, <2>1 DEF RunAt, FinishReconciliation
  <2>3. QED
    BY <1>1, <1>2, <2>2 DEF RunAt, FinishReconciliation
<1>3. QED
  BY <1>2 DEF ReconInv, FinishReconciliation

LEMMA ReconIdentities ==
  ASSUME NEW r \in Range(Canonicals), ReconInv,
         ResolutionCommits(r) \/ OperatorCreates(r) \/ HumanConfirms(r) \/ IdentityInvalidated(r)
  PROVE  ReconInv'
<1>1. UNCHANGED <<observed, pending, ran>> /\ fresh' = FALSE
  BY DEF ResolutionCommits, OperatorCreates, HumanConfirms, IdentityInvalidated
<1>2. DOMAIN canon' \subseteq DOMAIN canon \cup {r}
  BY DEF ResolutionCommits, OperatorCreates, HumanConfirms, IdentityInvalidated, SetCanon
<1>3. QED
  BY <1>1, <1>2 DEF ReconInv

LEMMA ReconOverrides ==
  ASSUME NEW k \in DOMAIN factRows, ReconInv, FactOverridden(k) PROVE ReconInv'
<1>1. Reconcile' = Reconcile
  BY ReconcileReads DEF FactOverridden
<1>2. UserRow(factRows', k)
  BY DEF FactOverridden, SetFact, UserRow
<1>3. DOMAIN factRows' = DOMAIN factRows /\ \A x \in DOMAIN factRows : x # k => factRows'[x] = factRows[x]
  BY DEF FactOverridden, SetFact
<1>4. Len(Reconcile) \in Nat
  BY ReconcileKeeps DEF ReconInv
<1>5. ASSUME NEW n, RunAt(n) PROVE RunAt(n)'
  <2>1. n \in Nat /\ RowsKeep(factRows, Reconcile, n)
    BY <1>4, <1>5 DEF RunAt
  <2>2. RowsKeep(factRows', Reconcile, n)
    BY <1>2, <1>3, <2>1, UserDecides
  <2>3. QED
    BY <1>1, <1>5, <2>2 DEF RunAt, FactOverridden
<1>6. QED
  BY <1>5 DEF ReconInv, FactOverridden

LEMMA ReconInvariant == ReconSpec => []ReconInv
<1>1. ReconInv /\ [ReconNext]_reconVars => ReconInv'
  <2> SUFFICES ASSUME ReconInv, [ReconNext]_reconVars PROVE ReconInv'
    OBVIOUS
  <2>1. CASE ReconciliationDies
    <3>1. \A S : <<>> \in Seq(S)
      OBVIOUS
    <3>2. QED
      BY <2>1, <3>1 DEF ReconInv, ReconciliationDies
  <2>2. CASE UNCHANGED reconVars
    <3>1. Reconcile' = Reconcile
      BY <2>2, ReconcileReads DEF reconVars
    <3>3. \A n : RunAt(n) => RunAt(n)'
      BY <2>2, <3>1 DEF RunAt, reconVars
    <3>4. QED
      BY <2>2, <3>3 DEF ReconInv, reconVars
  <2>3. CASE \E r \in Range(Canonicals) : \/ ResolutionCommits(r) \/ OperatorCreates(r)
                                          \/ HumanConfirms(r) \/ IdentityInvalidated(r)
    BY <2>3, ReconIdentities
  <2>4. CASE \E k \in DOMAIN factRows : FactOverridden(k)
    BY <2>4, ReconOverrides
  <2>5. QED
    BY <2>1, <2>2, <2>3, <2>4, ReconBegins, ReconAppends, ReconFinishes DEF ReconNext
<1>2. QED
  BY <1>1, ReconInitially, PTL DEF ReconSpec

(* A run that no change of an identity overlapped has asserted every        *)
(* observation under the refs of now (two relationships of one pair are     *)
(* both there), confirms nothing about a probable identity, and leaves in   *)
(* each row it writes its last value unless a user decided: for every       *)
(* analysis, any identities and any history of runs that died half way.     *)
THEOREM ReconciliationIsFaithful == ReconSpec => []ReconciliationFaithful
<1>1. QED
  BY ReconInvariant, ReconInvImplies, PTL

-----------------------------------------------------------------------------
(* Media extraction                                                        *)

NoDigest == ""

(* Planned rows by the level of what they are about.                       *)
Row(kind, stream, level, digest, content) ==
  {Planned(kind, stream, P(level, <<i>>), digest, content) : i \in Nat}

VideoRows ==
  Row("metadata", "video", "track", NoDigest, "inventory")
  \cup (Row("scene_boundary", "video", "scene", NoDigest, "scene")
  \cup (Row("video_interval", "video", "scene", NoDigest, "scene_time")
  \cup (Row("scene_boundary", "video", "shot", NoDigest, "shot")
  \cup (Row("frame", "video", "frame", NoDigest, "frame")
  \cup ({Planned("metadata", "video", P("file", <<1>>), NoDigest, c) : c \in {"picture", "scenes", "sound"}}
  \cup ({Planned("timing", "none", NoPath, NoDigest, "timing")}
  \cup {Planned("metadata", "video", P("composition", <<1>>), NoDigest, "composition")}))))))

Decisions == {"filtered: no speech", "filtered: no energy", "filtered: low confidence",
              "kept without low words", "kept"}
DecisionRows(digest) ==
  {Planned("metadata", "audio", P("utterance", <<i>>), digest, c) : i \in Nat, c \in Decisions}

AudioRows(digest, by) ==
  Row("audio_interval", "audio", "utterance", digest, by)
  \cup (Row("speaker_observation", "audio", "utterance", digest, "candidate")
  \cup (DecisionRows(digest)
  \cup (Row("music", "audio", "music", digest, "music")
  \cup (Row("sound_event", "audio", "sound_event", digest, "sound")
  \cup ({Planned("timing", "none", NoPath, digest, "timing")}
  \cup {Planned("metadata", "audio", P("language", <<1>>), digest, "language")})))))

SubtitleRows ==
  {Planned("metadata", "subtitle", P("track", <<1>>), NoDigest, "track")}
  \cup Row("subtitle_event", "subtitle", "subtitle_event", NoDigest, "event")

RasterRows(by) ==
  {Planned("metadata", "image", P("page", <<1>>), by, "page")}
  \cup (Row("panel", "image", "panel", by, "panel")
  \cup (Row("object_observation", "image", "panel", by, "object")
  \cup (Row("page_region", "image", "region", by, "region")
  \cup (Row("ocr_region", "image", "ocr", by, by)
  \cup {Planned("text_span", "image", P("page", <<1>>), by, by)}))))

Levels == {"file", "track", "scene", "shot", "frame", "utterance", "music", "sound_event",
           "subtitle_event", "page", "panel", "region", "ocr"}
Paths == {P(level, <<i>>) : level \in Levels, i \in Nat}

LEMMA WiderSequence ==
  ASSUME NEW S, NEW T, S \subseteq T, NEW s \in Seq(S) PROVE s \in Seq(T)
<1>1. Range(s) \subseteq T
  BY RangeIs
<1>2. QED
  BY <1>1, SequenceOfItsRange

LEMMA NumberedIs ==
  ASSUME NEW level, NEW n \in Nat
  PROVE  /\ Numbered(level, n) \in Seq({P(level, <<i>>) : i \in Nat})
         /\ Len(Numbered(level, n)) = n
         /\ \A i \in 1..n : Numbered(level, n)[i] = P(level, <<i>>)
<1> DEFINE s == Numbered(level, n)
           T == {P(level, <<i>>) : i \in Nat}
<1>1. \A i \in 1..n : P(level, <<i>>) \in T
  OBVIOUS
<1> HIDE DEF T
<1>2. s \in [1..n -> T] /\ \A i \in 1..n : s[i] = P(level, <<i>>)
  BY <1>1 DEF Numbered
<1> HIDE DEF s
<1>3. s \in Seq(T) /\ Len(s) = n
  BY <1>2, MapIsSequence
<1>4. QED
  BY <1>2, <1>3 DEF s, T

LEMMA LevelPath == ASSUME NEW level \in Levels, NEW i \in Nat PROVE P(level, <<i>>) \in Paths
  BY DEF Paths

LEMMA NumberedPaths ==
  ASSUME NEW level \in Levels, NEW n \in Nat PROVE Numbered(level, n) \in Seq(Paths)
<1>1. {P(level, <<i>>) : i \in Nat} \subseteq Paths
  BY DEF Paths
<1>2. QED
  BY <1>1, NumberedIs, WiderSequence

LEMMA EachIs ==
  ASSUME NEW kind, NEW stream, NEW level, NEW n \in Nat, NEW digest, NEW content
  PROVE  LET s == Each(kind, stream, Numbered(level, n), digest, content)
         IN  /\ s \in Seq(Row(kind, stream, level, digest, content))
             /\ \A i \in 1..n : Planned(kind, stream, P(level, <<i>>), digest, content) \in Range(s)
<1> DEFINE paths == Numbered(level, n)
           s == Each(kind, stream, paths, digest, content)
           T == Row(kind, stream, level, digest, content)
           p(i) == Planned(kind, stream, P(level, <<i>>), digest, content)
<1>1. DOMAIN paths = 1..n /\ \A i \in 1..n : paths[i] = P(level, <<i>>)
  BY DEF Numbered
<1>2. \A i \in 1..n : p(i) \in T
  BY DEF Row
<1> HIDE DEF paths, T
<1>3. s \in [1..n -> T] /\ \A i \in 1..n : s[i] = p(i)
  BY <1>1, <1>2 DEF Each
<1> HIDE DEF s, p
<1>4. s \in Seq(T) /\ Len(s) = n
  BY <1>3, MapIsSequence
<1>5. \A i \in 1..n : s[i] \in Range(s)
  BY <1>4, RangeIs
<1>6. QED
  BY <1>3, <1>4, <1>5 DEF s, T, paths, p

LEMMA EachOf ==
  ASSUME NEW kind, NEW stream, NEW level, NEW n \in Nat, NEW digest, NEW content,
         NEW T, Row(kind, stream, level, digest, content) \subseteq T
  PROVE  Each(kind, stream, Numbered(level, n), digest, content) \in Seq(T)
  BY EachIs, WiderSequence

(* What the plans are made of.                                             *)
LEMMA Concat ==
  ASSUME NEW S, NEW s \in Seq(S), NEW t \in Seq(S) PROVE s \o t \in Seq(S)
  OBVIOUS

LEMMA VideoPlanned ==
  ASSUME NEW m \in MediaSources, m.kind = "video"
  PROVE  VideoRecords(m.output) \in Seq(VideoRows) /\ VideoSegments(m.output) \in Seq(Paths)
<1> DEFINE o == m.output
<1>1. /\ o.tracks \in Seq(Range(o.tracks)) /\ Len(o.tracks) \in Nat
      /\ o.scenes \in Nat /\ o.shots \in Nat /\ o.frames \in Nat
  BY MediaConstants
<1> DEFINE a == Each("metadata", "video", Numbered("track", Len(o.tracks)), NoDigest, "inventory")
           b1 == Each("scene_boundary", "video", Numbered("scene", o.scenes), NoDigest, "scene")
           b2 == Each("video_interval", "video", Numbered("scene", o.scenes), NoDigest, "scene_time")
           b3 == Each("scene_boundary", "video", Numbered("shot", o.shots), NoDigest, "shot")
           b4 == Each("frame", "video", Numbered("frame", o.frames), NoDigest, "frame")
           c == [i \in DOMAIN Observations(o) |->
                   Planned("metadata", "video", P("file", <<1>>), NoDigest, Observations(o)[i])]
           d == <<Planned("timing", "none", NoPath, NoDigest, "timing"),
                  Planned("metadata", "video", P("composition", <<1>>), NoDigest, "composition")>>
<1>2. a \in Seq(VideoRows)
  BY <1>1, EachOf DEF VideoRows
<1>3. b1 \in Seq(VideoRows) /\ b2 \in Seq(VideoRows)
  BY <1>1, EachOf DEF VideoRows
<1>4. b3 \in Seq(VideoRows) /\ b4 \in Seq(VideoRows)
  BY <1>1, EachOf DEF VideoRows
<1>5. c \in Seq(VideoRows)
  <2> DEFINE T == {"picture", "scenes", "sound"}
             obs == Observations(o)
  <2>1. obs \in Seq(T)
    <3>1. <<>> \in Seq(T) /\ <<"picture">> \in Seq(T) /\ <<"scenes">> \in Seq(T) /\ <<"sound">> \in Seq(T)
      OBVIOUS
    <3> HIDE DEF T
    <3>2. \A s, t, u \in Seq(T) : s \o t \o u \in Seq(T)
      OBVIOUS
    <3> DEFINE s == IF "video" \in Range(o.tracks) THEN <<"picture">> ELSE <<>>
               u == IF "audio" \in Range(o.tracks) THEN <<"sound">> ELSE <<>>
               t == <<"scenes">>
    <3>3. obs = s \o t \o u
      BY Zenon DEF Observations
    <3>4. s \in Seq(T) /\ u \in Seq(T) /\ t \in Seq(T)
      BY <3>1, Zenon
    <3> HIDE DEF s, t, u, obs
    <3>5. QED
      BY <3>2, <3>3, <3>4
  <2>2. \A x \in T : Planned("metadata", "video", P("file", <<1>>), NoDigest, x) \in VideoRows
    BY DEF VideoRows
  <2> HIDE DEF obs, T
  <2>3. DOMAIN obs = 1..Len(obs) /\ Len(obs) \in Nat /\ \A i \in 1..Len(obs) : obs[i] \in T
    BY <2>1
  <2>4. c = [i \in DOMAIN obs |-> Planned("metadata", "video", P("file", <<1>>), NoDigest, obs[i])]
    BY DEF obs
  <2> HIDE DEF c
  <2>5. c \in [1..Len(obs) -> VideoRows]
    BY <2>2, <2>3, <2>4
  <2>6. QED
    BY <2>3, <2>5, MapIsSequence
<1>6. d \in Seq(VideoRows)
  <2> DEFINE x == Planned("timing", "none", NoPath, NoDigest, "timing")
             y == Planned("metadata", "video", P("composition", <<1>>), NoDigest, "composition")
  <2>1. x \in VideoRows /\ y \in VideoRows
    BY DEF VideoRows
  <2> HIDE DEF x, y
  <2>2. <<x, y>> \in Seq(VideoRows)
    BY <2>1
  <2>3. QED
    BY <2>2 DEF x, y
<1>7. VideoRecords(o) = a \o (b1 \o b2 \o b3 \o b4) \o c \o d
  BY Zenon DEF VideoRecords, SceneRecords, NoDigest
<1> HIDE DEF a, b1, b2, b3, b4, c, d
<1>8. b1 \o b2 \o b3 \o b4 \in Seq(VideoRows)
  BY <1>3, <1>4
<1>9. VideoRecords(o) \in Seq(VideoRows)
  BY <1>2, <1>5, <1>6, <1>7, <1>8
<1> DEFINE s0 == <<P("file", <<1>>)>>
           s1 == Numbered("track", Len(o.tracks))
           s2 == Numbered("scene", o.scenes)
           s3 == Numbered("shot", o.shots)
           s4 == Numbered("frame", o.frames)
<1>10. s0 \in Seq(Paths)
  <2> DEFINE q == P("file", <<1>>)
  <2>1. q \in Paths
    BY LevelPath DEF Levels
  <2> HIDE DEF q
  <2>2. <<q>> \in Seq(Paths)
    BY <2>1
  <2>3. QED
    BY <2>2 DEF q
<1>11. s1 \in Seq(Paths) /\ s2 \in Seq(Paths) /\ s3 \in Seq(Paths) /\ s4 \in Seq(Paths)
  BY <1>1, NumberedPaths DEF Levels
<1>12. VideoSegments(o) = s0 \o s1 \o s2 \o s3 \o s4
  BY Zenon DEF VideoSegments
<1> HIDE DEF s0, s1, s2, s3, s4
<1>13. VideoSegments(o) \in Seq(Paths)
  BY <1>10, <1>11, <1>12
<1>14. QED
  BY <1>9, <1>13

LEMMA DecisionPlanned ==
  ASSUME NEW o, NEW i \in Nat, NEW u, NEW digest, NEW by
  PROVE  Planned("metadata", "audio", P("utterance", <<i>>), digest, Decision(u, o))
           \in AudioRows(digest, by)
<1>1. Decision(u, o) \in Decisions
  BY DEF Decisions, Decision
<1>2. Planned("metadata", "audio", P("utterance", <<i>>), digest, Decision(u, o))
        \in DecisionRows(digest)
  BY <1>1 DEF DecisionRows
<1>3. QED
  BY <1>2 DEF AudioRows

LEMMA AudioPlanned ==
  ASSUME NEW m \in MediaSources, m.kind \in {"audio", "video"}, NEW digest, NEW by
  PROVE  LET p == AudioPlan(m.output, digest, by)
         IN  /\ p.records \in Seq(AudioRows(digest, by)) /\ p.segments \in Seq(Paths)
             /\ \A i \in DOMAIN m.output.utterances :
                  Planned("audio_interval", "audio", P("utterance", <<i>>), digest, by) \in Range(p.records)
<1> DEFINE o == m.output
           T == AudioRows(digest, by)
           n == Len(o.utterances)
<1>1. /\ o.utterances \in Seq(Range(o.utterances)) /\ n \in Nat /\ DOMAIN o.utterances = 1..n
      /\ \A i \in 1..n : o.utterances[i] \in Range(o.utterances)
      /\ o.music \in Nat /\ o.sounds \in Nat
  <2>1. o.utterances \in Seq(Range(o.utterances)) /\ o.music \in Nat /\ o.sounds \in Nat
    BY MediaConstants
  <2> DEFINE u == o.utterances
  <2> HIDE DEF u
  <2>2. u \in Seq(Range(u))
    BY <2>1 DEF u
  <2>3. DOMAIN u = 1..Len(u) /\ Len(u) \in Nat /\ \A i \in 1..Len(u) : u[i] \in Range(u)
    BY <2>2
  <2>4. QED
    BY <2>1, <2>3 DEF u
<1> DEFINE utts == Numbered("utterance", n)
           a1 == Each("audio_interval", "audio", utts, digest, by)
           a2 == Each("speaker_observation", "audio", utts, digest, "candidate")
           a3 == [i \in DOMAIN utts |-> Planned("metadata", "audio", utts[i], digest,
                                                Decision(o.utterances[i], o))]
           b1 == Each("music", "audio", Numbered("music", o.music), digest, "music")
           b2 == Each("sound_event", "audio", Numbered("sound_event", o.sounds), digest, "sound")
           b3 == <<Planned("timing", "none", NoPath, digest, "timing"),
                   Planned("metadata", "audio", P("language", <<1>>), digest, "language")>>
<1>2. a1 \in Seq(T) /\ \A i \in 1..n : Planned("audio_interval", "audio", P("utterance", <<i>>), digest, by)
                                         \in Range(a1)
  BY <1>1, EachIs, EachOf DEF AudioRows
<1>3. a2 \in Seq(T)
  BY <1>1, EachOf DEF AudioRows
<1>4. a3 \in Seq(T)
  <2>1. DOMAIN utts = 1..n /\ \A i \in 1..n : utts[i] = P("utterance", <<i>>)
    BY DEF Numbered
  <2>2. \A i \in 1..n : Planned("metadata", "audio", P("utterance", <<i>>), digest,
                                Decision(o.utterances[i], o)) \in T
    <3> TAKE i \in 1..n
    <3>1. i \in Nat /\ o.utterances[i] \in Range(m.output.utterances)
      BY <1>1
    <3>2. QED
      BY <3>1, DecisionPlanned
  <2> HIDE DEF utts, T
  <2>3. a3 \in [1..n -> T]
    BY <2>1, <2>2
  <2> HIDE DEF a3
  <2>4. QED
    BY <1>1, <2>3, MapIsSequence
<1>5. b1 \in Seq(T) /\ b2 \in Seq(T)
  BY <1>1, EachOf DEF AudioRows
<1>6. b3 \in Seq(T)
  <2> DEFINE x == Planned("timing", "none", NoPath, digest, "timing")
             y == Planned("metadata", "audio", P("language", <<1>>), digest, "language")
  <2>1. x \in T /\ y \in T
    BY DEF AudioRows
  <2> HIDE DEF x, y, T
  <2>2. <<x, y>> \in Seq(T)
    BY <2>1
  <2>3. QED
    BY <2>2 DEF x, y
<1> DEFINE p == AudioPlan(o, digest, by)
           s1 == Numbered("music", o.music)
           s2 == Numbered("sound_event", o.sounds)
<1>7. p.records = (a1 \o a2 \o a3) \o (b1 \o b2 \o b3) /\ p.segments = utts \o s1 \o s2
  BY DEF AudioPlan, Plan, UtteranceRecords, SoundRecords
<1>8. utts \in Seq(Paths) /\ s1 \in Seq(Paths) /\ s2 \in Seq(Paths)
  BY <1>1, NumberedPaths DEF Levels
<1> HIDE DEF p, a1, a2, a3, b1, b2, b3, utts, s1, s2, T
<1> DEFINE a12 == a1 \o a2
           a == a12 \o a3
           b == b1 \o b2 \o b3
<1>9. (a1 \o a2 \o a3) \in Seq(T) /\ (b1 \o b2 \o b3) \in Seq(T) /\ a1 \o a2 \in Seq(T)
  BY <1>2, <1>3, <1>4, <1>5, <1>6
<1>10. p.records \in Seq(T) /\ Range(a1) \subseteq Range(p.records)
  <2>1. Range(a1) \subseteq Range(a12)
    BY <1>2, <1>3, RangeOfConcat
  <2>a. a12 \in Seq(T) /\ a \in Seq(T) /\ b \in Seq(T) /\ p.records = a \o b
    BY <1>7, <1>9
  <2> HIDE DEF a12, b
  <2>2. Range(a12) \subseteq Range(a)
    BY <1>4, <2>a, RangeOfConcat
  <2> HIDE DEF a
  <2>3. Range(a) \subseteq Range(p.records) /\ p.records \in Seq(T)
    <3>1. Range(a \o b) = Range(a) \cup Range(b) /\ a \o b \in Seq(T)
      BY <2>a, RangeOfConcat
    <3>2. QED
      BY <2>a, <3>1
  <2>4. QED
    BY <2>1, <2>2, <2>3
<1>11. p.segments \in Seq(Paths)
  BY <1>7, <1>8
<1>12. QED
  BY <1>1, <1>2, <1>10, <1>11 DEF p, T

LEMMA SubtitlePlanned ==
  ASSUME NEW events \in Nat
  PROVE  LET p == SubtitlePlan(events)
         IN  p.records \in Seq(SubtitleRows) /\ p.segments \in Seq(Paths)
<1> DEFINE t == P("track", <<1>>)
           x == Planned("metadata", "subtitle", t, NoDigest, "track")
           es == Numbered("subtitle_event", events)
           b == Each("subtitle_event", "subtitle", es, NoDigest, "event")
           p == SubtitlePlan(events)
<1>1. p.records = <<x>> \o b /\ p.segments = <<t>> \o es
  BY DEF SubtitlePlan, Plan, NoDigest
<1>2. x \in SubtitleRows /\ t \in Paths
  BY DEF SubtitleRows, Paths, Levels
<1>3. b \in Seq(SubtitleRows)
  BY EachOf DEF SubtitleRows
<1>4. es \in Seq(Paths)
  BY NumberedPaths DEF Levels
<1> HIDE DEF t, x, es, b, p
<1>5. <<x>> \in Seq(SubtitleRows) /\ <<t>> \in Seq(Paths)
  BY <1>2
<1>6. <<x>> \o b \in Seq(SubtitleRows) /\ <<t>> \o es \in Seq(Paths)
  BY <1>3, <1>4, <1>5, Concat
<1>7. QED
  BY <1>1, <1>6 DEF p

LEMMA RasterPlanned ==
  ASSUME NEW m \in MediaSources, m.kind = "image", NEW by
  PROVE  LET p == RasterPlan(m.output, by)
         IN  p.records \in Seq(RasterRows(by)) /\ p.segments \in Seq(Paths)
<1> DEFINE o == m.output
           T == RasterRows(by)
           page == P("page", <<1>>)
           x == Planned("metadata", "image", page, by, "page")
           y == Planned("text_span", "image", page, by, by)
           two(i) == <<Planned("panel", "image", P("panel", <<i>>), by, "panel"),
                       Planned("object_observation", "image", P("panel", <<i>>), by, "object")>>
           parts == [i \in 1..o.panels |-> two(i)]
           a == FlattenSeq(parts)
           b1 == Each("page_region", "image", Numbered("region", o.regions), by, "region")
           b2 == Each("ocr_region", "image", Numbered("ocr", o.ocr), by, by)
           b3 == IF o.ocr > 0 THEN <<y>> ELSE <<>>
           p == RasterPlan(o, by)
           s1 == Numbered("panel", o.panels)
           s2 == Numbered("region", o.regions)
<1>1. o.panels \in Nat /\ o.regions \in Nat /\ o.ocr \in Nat
  BY MediaConstants
<1>2. p.records = <<x>> \o a \o (b1 \o b2 \o b3) /\ p.segments = <<page>> \o s1 \o s2
  BY DEF RasterPlan, Plan, PanelRecords, RegionRecords
<1>3. x \in T /\ y \in T /\ page \in Paths
  BY DEF RasterRows, Paths, Levels
<1>4. \A i \in 1..o.panels : two(i) \in Seq(T)
  <2> SUFFICES ASSUME NEW i \in 1..o.panels PROVE two(i) \in Seq(T)
    OBVIOUS
  <2> DEFINE u == Planned("panel", "image", P("panel", <<i>>), by, "panel")
             v == Planned("object_observation", "image", P("panel", <<i>>), by, "object")
  <2>1. u \in T /\ v \in T
    BY <1>1 DEF RasterRows, Row
  <2> HIDE DEF u, v, T
  <2>2. <<u, v>> \in Seq(T)
    BY <2>1
  <2>3. QED
    BY <2>2 DEF u, v
<1>5. b1 \in Seq(T) /\ b2 \in Seq(T)
  BY <1>1, EachOf DEF RasterRows
<1>6. s1 \in Seq(Paths) /\ s2 \in Seq(Paths)
  BY <1>1, NumberedPaths DEF Levels
<1> HIDE DEF two, T, x, y, p, page, b1, b2, s1, s2
<1>7. parts \in [1..o.panels -> Seq(T)]
  BY <1>4
<1> HIDE DEF parts
<1>8. parts \in Seq(Seq(T))
  BY <1>1, <1>7, MapIsSequence
<1>9. a \in Seq(T)
  BY <1>8, FlattenKeeps
<1>10. <<x>> \in Seq(T) /\ <<y>> \in Seq(T) /\ <<>> \in Seq(T) /\ <<page>> \in Seq(Paths)
  BY <1>3
<1>11. b3 \in Seq(T)
  BY <1>10
<1> HIDE DEF a, b3
<1>12. b1 \o b2 \o b3 \in Seq(T) /\ <<x>> \o a \in Seq(T)
  BY <1>5, <1>9, <1>10, <1>11
<1>13. p.records \in Seq(T)
  BY <1>2, <1>12, Concat
<1>14. p.segments \in Seq(Paths)
  BY <1>2, <1>6, <1>10
<1>15. QED
  BY <1>13, <1>14 DEF p, T

(* What a planned row tells about itself.                                  *)
FileRow == P("file", <<1>>)

VideoTable(p) ==
  \/ p.kind = "metadata" /\ p.locator.stream = "video" /\ p.locator.path.level = "track" /\ p.content = "inventory"
  \/ p.kind = "scene_boundary" /\ p.locator.stream = "video" /\ p.locator.path.level = "scene" /\ p.content = "scene"
  \/ p.kind = "video_interval" /\ p.locator.stream = "video" /\ p.content = "scene_time"
  \/ p.kind = "scene_boundary" /\ p.locator.stream = "video" /\ p.locator.path.level = "shot" /\ p.content = "shot"
  \/ p.kind = "frame" /\ p.locator.stream = "video" /\ p.content = "frame"
  \/ p.kind = "metadata" /\ p.locator.path = FileRow /\ p.locator.stream = "video"
  \/ p.kind = "timing" /\ p.content = "timing" /\ p.locator.stream = "none"
  \/ p.kind = "metadata" /\ p.locator.stream = "video" /\ p.locator.path.level = "composition"
     /\ p.content = "composition"

LEMMA RowTells ==
  ASSUME NEW kind, NEW stream, NEW level, NEW digest, NEW content,
         NEW p \in Row(kind, stream, level, digest, content)
  PROVE  /\ p.kind = kind /\ p.digest = digest /\ p.content = content
         /\ p.locator.stream = stream /\ p.locator.path.level = level
  BY DEF Row, Planned, Loc, P

LEMMA PlannedTells ==
  ASSUME NEW kind, NEW stream, NEW path, NEW digest, NEW content,
         NEW p, p = Planned(kind, stream, path, digest, content)
  PROVE  /\ p.kind = kind /\ p.digest = digest /\ p.content = content
         /\ p.locator.stream = stream /\ p.locator.path = path
  BY DEF Planned, Loc

LEMMA VideoRowsTell ==
  ASSUME NEW p \in VideoRows
  PROVE  /\ p.digest = NoDigest /\ p.locator.stream \in {"video", "none"}
         /\ p.kind \notin {"audio_interval", "subtitle_event"}
         /\ VideoTable(p)
<1>1. CASE p \in Row("metadata", "video", "track", NoDigest, "inventory")
  <2>1. /\ p.kind = "metadata" /\ p.digest = NoDigest /\ p.content = "inventory"
        /\ p.locator.stream = "video" /\ p.locator.path.level = "track"
    BY <1>1, RowTells
  <2>2. QED
    BY <2>1 DEF VideoTable
<1>2. CASE p \in Row("scene_boundary", "video", "scene", NoDigest, "scene")
  <2>1. /\ p.kind = "scene_boundary" /\ p.digest = NoDigest /\ p.content = "scene"
        /\ p.locator.stream = "video" /\ p.locator.path.level = "scene"
    BY <1>2, RowTells
  <2>2. QED
    BY <2>1 DEF VideoTable
<1>3. CASE p \in Row("video_interval", "video", "scene", NoDigest, "scene_time")
  <2>1. /\ p.kind = "video_interval" /\ p.digest = NoDigest /\ p.content = "scene_time"
        /\ p.locator.stream = "video" /\ p.locator.path.level = "scene"
    BY <1>3, RowTells
  <2>2. QED
    BY <2>1 DEF VideoTable
<1>4. CASE p \in Row("scene_boundary", "video", "shot", NoDigest, "shot")
  <2>1. /\ p.kind = "scene_boundary" /\ p.digest = NoDigest /\ p.content = "shot"
        /\ p.locator.stream = "video" /\ p.locator.path.level = "shot"
    BY <1>4, RowTells
  <2>2. QED
    BY <2>1 DEF VideoTable
<1>5. CASE p \in Row("frame", "video", "frame", NoDigest, "frame")
  <2>1. /\ p.kind = "frame" /\ p.digest = NoDigest /\ p.content = "frame"
        /\ p.locator.stream = "video" /\ p.locator.path.level = "frame"
    BY <1>5, RowTells
  <2>2. QED
    BY <2>1 DEF VideoTable
<1>6. CASE p \in {Planned("metadata", "video", P("file", <<1>>), NoDigest, c) : c \in {"picture", "scenes", "sound"}}
  <2>1. PICK c : p = Planned("metadata", "video", P("file", <<1>>), NoDigest, c)
    BY <1>6
  <2>2. p.kind = "metadata" /\ p.digest = NoDigest /\ p.locator.stream = "video" /\ p.locator.path = FileRow
    BY <2>1, PlannedTells DEF FileRow
  <2>3. QED
    BY <2>2 DEF VideoTable
<1>7. CASE p = Planned("timing", "none", NoPath, NoDigest, "timing")
  <2>1. /\ p.kind = "timing" /\ p.digest = NoDigest /\ p.content = "timing"
        /\ p.locator.stream = "none" /\ p.locator.path = NoPath
    BY <1>7, PlannedTells
  <2>2. QED
    BY <2>1 DEF VideoTable
<1>8. CASE p = Planned("metadata", "video", P("composition", <<1>>), NoDigest, "composition")
  <2>1. /\ p.kind = "metadata" /\ p.digest = NoDigest /\ p.content = "composition"
        /\ p.locator.stream = "video" /\ p.locator.path = P("composition", <<1>>)
    BY <1>8, PlannedTells
  <2>2. p.locator.path.level = "composition"
    BY <2>1 DEF P
  <2>3. QED
    BY <2>1, <2>2 DEF VideoTable
<1>9. QED
  BY <1>1, <1>2, <1>3, <1>4, <1>5, <1>6, <1>7, <1>8 DEF VideoRows

LEMMA FileLevel == FileRow.level = "file"
  BY DEF FileRow, P

LEMMA VideoRowsDiffer ==
  ASSUME NEW p \in VideoRows, NEW q \in VideoRows,
         p.kind = q.kind, p.locator = q.locator, p.locator.path # FileRow
  PROVE  p.content = q.content
<1>1. VideoTable(p) /\ VideoTable(q)
  BY VideoRowsTell
<1>2. QED
  BY <1>1 DEF VideoTable

LEMMA AudioRowsTell ==
  ASSUME NEW digest, NEW by, NEW p \in AudioRows(digest, by)
  PROVE  /\ p.digest = digest /\ p.locator.stream \in {"audio", "none"}
         /\ p.kind # "subtitle_event" /\ (p.kind = "audio_interval" => p.content = by)
<1>1. CASE p \in Row("audio_interval", "audio", "utterance", digest, by)
  <2>1. /\ p.kind = "audio_interval" /\ p.digest = digest /\ p.content = by
        /\ p.locator.stream = "audio" /\ p.locator.path.level = "utterance"
    BY <1>1, RowTells
  <2>2. QED
    BY <2>1
<1>2. CASE p \in Row("speaker_observation", "audio", "utterance", digest, "candidate")
  <2>1. /\ p.kind = "speaker_observation" /\ p.digest = digest /\ p.content = "candidate"
        /\ p.locator.stream = "audio" /\ p.locator.path.level = "utterance"
    BY <1>2, RowTells
  <2>2. QED
    BY <2>1
<1>3. CASE p \in DecisionRows(digest)
  <2>1. PICK i \in Nat, c \in Decisions : p = Planned("metadata", "audio", P("utterance", <<i>>), digest, c)
    BY <1>3 DEF DecisionRows
  <2>2. p.kind = "metadata" /\ p.digest = digest /\ p.locator.stream = "audio"
    BY <2>1, PlannedTells
  <2>3. QED
    BY <2>2
<1>4. CASE p \in Row("music", "audio", "music", digest, "music")
  <2>1. /\ p.kind = "music" /\ p.digest = digest /\ p.content = "music"
        /\ p.locator.stream = "audio" /\ p.locator.path.level = "music"
    BY <1>4, RowTells
  <2>2. QED
    BY <2>1
<1>5. CASE p \in Row("sound_event", "audio", "sound_event", digest, "sound")
  <2>1. /\ p.kind = "sound_event" /\ p.digest = digest /\ p.content = "sound"
        /\ p.locator.stream = "audio" /\ p.locator.path.level = "sound_event"
    BY <1>5, RowTells
  <2>2. QED
    BY <2>1
<1>6. CASE p = Planned("timing", "none", NoPath, digest, "timing")
  <2>1. /\ p.kind = "timing" /\ p.digest = digest /\ p.content = "timing"
        /\ p.locator.stream = "none" /\ p.locator.path = NoPath
    BY <1>6, PlannedTells
  <2>2. QED
    BY <2>1
<1>7. CASE p = Planned("metadata", "audio", P("language", <<1>>), digest, "language")
  <2>1. /\ p.kind = "metadata" /\ p.digest = digest /\ p.content = "language"
        /\ p.locator.stream = "audio" /\ p.locator.path = P("language", <<1>>)
    BY <1>7, PlannedTells
  <2>2. QED
    BY <2>1
<1>8. QED
  BY <1>1, <1>2, <1>3, <1>4, <1>5, <1>6, <1>7 DEF AudioRows

LEMMA SubtitleRowsTell ==
  ASSUME NEW p \in SubtitleRows
  PROVE  /\ p.digest = NoDigest /\ p.locator.stream = "subtitle"
         /\ p.kind \in {"metadata", "subtitle_event"}
         /\ p.content = IF p.kind = "metadata" THEN "track" ELSE "event"
<1>1. CASE p = Planned("metadata", "subtitle", P("track", <<1>>), NoDigest, "track")
  <2>1. /\ p.kind = "metadata" /\ p.digest = NoDigest /\ p.content = "track"
        /\ p.locator.stream = "subtitle" /\ p.locator.path = P("track", <<1>>)
    BY <1>1, PlannedTells
  <2>2. QED
    BY <2>1
<1>2. CASE p \in Row("subtitle_event", "subtitle", "subtitle_event", NoDigest, "event")
  <2>1. /\ p.kind = "subtitle_event" /\ p.digest = NoDigest /\ p.content = "event"
        /\ p.locator.stream = "subtitle" /\ p.locator.path.level = "subtitle_event"
    BY <1>2, RowTells
  <2>2. QED
    BY <2>1
<1>3. QED
  BY <1>1, <1>2 DEF SubtitleRows

RasterContent(kind, by) ==
  CASE kind = "metadata" -> "page" [] kind = "panel" -> "panel"
    [] kind = "object_observation" -> "object" [] kind = "page_region" -> "region"
    [] OTHER -> by

LEMMA RasterRowsTell ==
  ASSUME NEW by, NEW p \in RasterRows(by)
  PROVE  /\ p.digest = by /\ p.locator.stream = "image"
         /\ p.kind \notin {"audio_interval", "subtitle_event"}
         /\ p.content = RasterContent(p.kind, by)
<1>1. CASE p = Planned("metadata", "image", P("page", <<1>>), by, "page")
  <2>1. /\ p.kind = "metadata" /\ p.digest = by /\ p.content = "page"
        /\ p.locator.stream = "image" /\ p.locator.path = P("page", <<1>>)
    BY <1>1, PlannedTells
  <2>2. QED
    BY <2>1 DEF RasterContent
<1>2. CASE p \in Row("panel", "image", "panel", by, "panel")
  <2>1. /\ p.kind = "panel" /\ p.digest = by /\ p.content = "panel"
        /\ p.locator.stream = "image" /\ p.locator.path.level = "panel"
    BY <1>2, RowTells
  <2>2. QED
    BY <2>1 DEF RasterContent
<1>3. CASE p \in Row("object_observation", "image", "panel", by, "object")
  <2>1. /\ p.kind = "object_observation" /\ p.digest = by /\ p.content = "object"
        /\ p.locator.stream = "image" /\ p.locator.path.level = "panel"
    BY <1>3, RowTells
  <2>2. QED
    BY <2>1 DEF RasterContent
<1>4. CASE p \in Row("page_region", "image", "region", by, "region")
  <2>1. /\ p.kind = "page_region" /\ p.digest = by /\ p.content = "region"
        /\ p.locator.stream = "image" /\ p.locator.path.level = "region"
    BY <1>4, RowTells
  <2>2. QED
    BY <2>1 DEF RasterContent
<1>5. CASE p \in Row("ocr_region", "image", "ocr", by, by)
  <2>1. /\ p.kind = "ocr_region" /\ p.digest = by /\ p.content = by
        /\ p.locator.stream = "image" /\ p.locator.path.level = "ocr"
    BY <1>5, RowTells
  <2>2. QED
    BY <2>1 DEF RasterContent
<1>6. CASE p = Planned("text_span", "image", P("page", <<1>>), by, by)
  <2>1. /\ p.kind = "text_span" /\ p.digest = by /\ p.content = by
        /\ p.locator.stream = "image" /\ p.locator.path = P("page", <<1>>)
    BY <1>6, PlannedTells
  <2>2. QED
    BY <2>1 DEF RasterContent
<1>7. QED
  BY <1>1, <1>2, <1>3, <1>4, <1>5, <1>6 DEF RasterRows

LEMMA DigestsNamed == \A b : VideoAudioDigest(b) # NoDigest
  BY Zenon DEF VideoAudioDigest, NoDigest

(* Which plan may be carried out on a source: what its bytes are decides   *)
(* the segments, and the engines it has had decide the transcripts.        *)
Engines(provs) == Range(provs) \cap {"model", "reference"}
VideoPlan(m) == Plan("video", VideoSegments(m.output), VideoRecords(m.output))

PlanFits(m, src, p, rows, provs) ==
  \/ src = m.id /\ m.kind = "video" /\ p = VideoPlan(m)
  \/ /\ src = m.id /\ m.kind = "video"
     /\ \E b \in Engines(provs) : p = AudioPlan(m.output, VideoAudioDigest(b), b)
  \/ src = m.id /\ m.kind = "image" /\ \E b : p = RasterPlan(m.output, b)
  \/ src = m.id /\ m.kind = "audio" /\ \E d, b : p = AudioPlan(m.output, d, b)
  \/ /\ src = m.id /\ m.kind = "subtitle"
     /\ p = SubtitlePlan(m.output.subtitles[1].events)
  \/ /\ src # m.id /\ m.kind = "video"
     /\ \E t \in Range(m.output.subtitles) :
          [id |-> src, bytes |-> t.bytes] \in rows /\ p = SubtitlePlan(t.events)

\* One of the source's rows, and one source per bytes.
RowsOK(m, rows) ==
  /\ [id |-> m.id, bytes |-> m.bytes] \in rows
  /\ \A s \in rows :
       /\ s = [id |-> s.id, bytes |-> s.bytes]
       /\ s.id # m.id =>
            /\ m.kind = "video"
            /\ \E i \in DOMAIN m.output.subtitles : s.bytes = m.output.subtitles[i].bytes
            /\ \/ s.id \in Uploads
               \/ \E i \in DOMAIN m.output.subtitles :
                    s.id = m.id * 10 + i /\ s.bytes = m.output.subtitles[i].bytes
  /\ \A s, t \in rows : s.bytes = t.bytes \/ s.id = t.id => s = t

LEMMA PlanTells ==
  ASSUME NEW m \in MediaSources, NEW src, NEW p, NEW rows, NEW provs, PlanFits(m, src, p, rows, provs)
  PROVE  /\ p.segments \in Seq(Paths) /\ \E T : p.records \in Seq(T)
         /\ p.modality \in {"video", "audio", "image", "subtitle"}
         /\ \A x \in Range(p.records) : x.locator.stream \in {p.modality, "none"}
         /\ m.kind = "video" /\ src = m.id =>
              \A x \in Range(p.records) :
                /\ x.kind # "subtitle_event"
                /\ x.kind = "audio_interval" => x.content \in Engines(provs) /\ x.digest = VideoAudioDigest(x.content)
                /\ x.digest = NoDigest => x \in VideoRows
         /\ m.kind = "video" /\ src # m.id => \A x \in Range(p.records) : x \in SubtitleRows
         /\ m.kind = "image" => \A x \in Range(p.records) :
              x.content = RasterContent(x.kind, x.digest) /\ x.kind # "audio_interval"
<1>1. CASE src = m.id /\ m.kind = "video" /\ p = VideoPlan(m)
  <2>1. p.segments = VideoSegments(m.output) /\ p.records = VideoRecords(m.output) /\ p.modality = "video"
    BY <1>1 DEF VideoPlan, Plan
  <2>2. p.records \in Seq(VideoRows) /\ p.segments \in Seq(Paths)
    BY <1>1, <2>1, VideoPlanned
  <2>3. \A x \in Range(p.records) : x \in VideoRows
    BY <2>2, RangeIs
  <2>4. QED
    BY <1>1, <2>1, <2>2, <2>3, VideoRowsTell
<1>2. CASE src = m.id /\ m.kind = "video" /\ \E b \in Engines(provs) : p = AudioPlan(m.output, VideoAudioDigest(b), b)
  <2>1. PICK b \in Engines(provs) : p = AudioPlan(m.output, VideoAudioDigest(b), b)
    BY <1>2
  <2>2. p.records \in Seq(AudioRows(VideoAudioDigest(b), b)) /\ p.segments \in Seq(Paths)
    BY <1>2, <2>1, AudioPlanned
  <2>3. \A x \in Range(p.records) : x \in AudioRows(VideoAudioDigest(b), b)
    BY <2>2, RangeIs
  <2>4. p.modality = "audio" /\ VideoAudioDigest(b) # NoDigest
    BY <2>1, DigestsNamed DEF AudioPlan, Plan
  <2>5. QED
    BY <1>2, <2>1, <2>2, <2>3, <2>4, AudioRowsTell
<1>3. CASE src = m.id /\ m.kind = "image" /\ \E b : p = RasterPlan(m.output, b)
  <2>1. PICK b : p = RasterPlan(m.output, b)
    BY <1>3
  <2>2. p.records \in Seq(RasterRows(b)) /\ p.segments \in Seq(Paths)
    BY <1>3, <2>1, RasterPlanned
  <2>3. \A x \in Range(p.records) : x \in RasterRows(b)
    BY <2>2, RangeIs
  <2>4. p.modality = "image"
    BY <2>1 DEF RasterPlan, Plan
  <2>5. QED
    BY <1>3, <2>1, <2>2, <2>3, <2>4, RasterRowsTell
<1>4. CASE src = m.id /\ m.kind = "audio" /\ \E d, b : p = AudioPlan(m.output, d, b)
  <2>1. PICK d, b : p = AudioPlan(m.output, d, b)
    BY <1>4
  <2>2. p.records \in Seq(AudioRows(d, b)) /\ p.segments \in Seq(Paths)
    BY <1>4, <2>1, AudioPlanned
  <2>3. \A x \in Range(p.records) : x \in AudioRows(d, b)
    BY <2>2, RangeIs
  <2>4. p.modality = "audio"
    BY <2>1 DEF AudioPlan, Plan
  <2>5. QED
    BY <1>4, <2>1, <2>2, <2>3, <2>4, AudioRowsTell
<1>5. ASSUME NEW t \in Range(m.output.subtitles), m.kind \in {"video", "subtitle"},
             p = SubtitlePlan(t.events), m.kind = "video" => src # m.id
      PROVE  /\ p.segments \in Seq(Paths) /\ \E T : p.records \in Seq(T)
             /\ p.modality = "subtitle" /\ \A x \in Range(p.records) : x \in SubtitleRows
  <2>1. t.events \in Nat
    BY <1>5, MediaConstants
  <2>2. p.records \in Seq(SubtitleRows) /\ p.segments \in Seq(Paths)
    BY <1>5, <2>1, SubtitlePlanned
  <2>3. \A x \in Range(p.records) : x \in SubtitleRows
    BY <2>2, RangeIs
  <2>4. p.modality = "subtitle"
    BY <1>5 DEF SubtitlePlan, Plan
  <2>5. QED
    BY <2>2, <2>3, <2>4
<1>6. CASE src = m.id /\ m.kind = "subtitle" /\ p = SubtitlePlan(m.output.subtitles[1].events)
  <2>1. m.output.subtitles[1] \in Range(m.output.subtitles)
    <3> DEFINE u == m.output.subtitles
    <3>1. u \in Seq(Range(u)) /\ u # <<>>
      BY <1>6, MediaConstants
    <3> HIDE DEF u
    <3>2. 1 \in 1..Len(u)
      BY <3>1
    <3>3. QED
      BY <3>1, <3>2, RangeIs DEF u
  <2>2. QED
    BY <1>5, <1>6, <2>1, SubtitleRowsTell
<1>7. CASE src # m.id /\ m.kind = "video" /\ \E t \in Range(m.output.subtitles) :
             [id |-> src, bytes |-> t.bytes] \in rows /\ p = SubtitlePlan(t.events)
  BY <1>5, <1>7, SubtitleRowsTell
<1>8. QED
  BY <1>1, <1>2, <1>3, <1>4, <1>6, <1>7 DEF PlanFits

(* Two plans of one modality register the same segments.                   *)
LEMMA SameSegments ==
  ASSUME NEW m \in MediaSources, NEW src, NEW p, NEW q, NEW rows, NEW provs, RowsOK(m, rows),
         PlanFits(m, src, p, rows, provs), PlanFits(m, src, q, rows, provs), p.modality = q.modality
  PROVE  p.segments = q.segments
<1>1. VideoPlan(m).modality = "video"
  BY DEF VideoPlan, Plan
<1>2. \A d, b, e, c : /\ AudioPlan(m.output, d, b).modality = "audio"
                      /\ AudioPlan(m.output, d, b).segments = AudioPlan(m.output, e, c).segments
  BY DEF AudioPlan, Plan
<1>3. \A b, c : RasterPlan(m.output, b).segments = RasterPlan(m.output, c).segments
  BY DEF RasterPlan, Plan
<1>4. CASE src = m.id
  BY <1>1, <1>2, <1>3, <1>4 DEF PlanFits
<1>5. CASE src # m.id
  <2>1. PICK t \in Range(m.output.subtitles) :
               [id |-> src, bytes |-> t.bytes] \in rows /\ p = SubtitlePlan(t.events)
    BY <1>5 DEF PlanFits
  <2>2. PICK u \in Range(m.output.subtitles) :
               [id |-> src, bytes |-> u.bytes] \in rows /\ q = SubtitlePlan(u.events)
    BY <1>5 DEF PlanFits
  <2>3. t.bytes = u.bytes
    <3> DEFINE a == [id |-> src, bytes |-> t.bytes]
               b == [id |-> src, bytes |-> u.bytes]
    <3>1. a.id = b.id /\ a \in rows /\ b \in rows
      BY <2>1, <2>2
    <3>2. a = b
      BY <3>1 DEF RowsOK
    <3>3. QED
      BY <3>2
  <2>4. m.kind = "video"
    BY <1>5 DEF PlanFits
  <2>5. t.events = u.events
    BY <2>3, <2>4, MediaConstants
  <2>6. QED
    BY <2>1, <2>2, <2>5
<1>6. QED
  BY <1>4, <1>5

-----------------------------------------------------------------------------
(* What stands in the tables.                                              *)

\* A row comes from a record of the plan; when the plan registers the record's
\* path, the row is linked to it.
From(r, p, seg) ==
  \E x \in Range(p.records) :
    /\ r.kind = x.kind /\ r.locator = x.locator /\ r.digest = x.digest /\ r.content = x.content
    /\ r.segment # NoPath => \E s \in seg : s.source = r.source /\ s.path = r.segment
    /\ (x.locator.stream = p.modality /\ x.locator.path \in Range(p.segments))
         => r.segment = r.locator.path

SegmentsOK(m, seg, rows, provs) ==
  \A s \in seg : \E p : /\ PlanFits(m, s.source, p, rows, provs)
                        /\ s.modality = p.modality /\ s.path \in Range(p.segments)
EvidenceOK(m, seg, ev, rows, provs) ==
  \A r \in ev : \E p : PlanFits(m, r.source, p, rows, provs) /\ From(r, p, seg)

Held(ev, src, p) ==
  \E r \in ev : /\ r.source = src /\ r.kind = p.kind /\ r.content = p.content
                /\ r.locator = p.locator /\ r.digest = p.digest

LEMMA EnginesGrow ==
  ASSUME NEW a, NEW b, Range(a) \subseteq Range(b) PROVE Engines(a) \subseteq Engines(b)
  BY DEF Engines

LEMMA PlanFitsGrows ==
  ASSUME NEW m, NEW src, NEW p, NEW rows, NEW provs, NEW rows2, NEW provs2,
         PlanFits(m, src, p, rows, provs), rows \subseteq rows2, Range(provs) \subseteq Range(provs2)
  PROVE  PlanFits(m, src, p, rows2, provs2)
<1>1. Engines(provs) \subseteq Engines(provs2)
  BY EnginesGrow
<1>2. QED
  BY <1>1, Zenon DEF PlanFits

LEMMA FromGrows ==
  ASSUME NEW r, NEW p, NEW seg, NEW seg2, seg \subseteq seg2, From(r, p, seg)
  PROVE  From(r, p, seg2)
<1>1. PICK x \in Range(p.records) :
    /\ r.kind = x.kind /\ r.locator = x.locator /\ r.digest = x.digest /\ r.content = x.content
    /\ r.segment # NoPath => \E s \in seg : s.source = r.source /\ s.path = r.segment
    /\ (x.locator.stream = p.modality /\ x.locator.path \in Range(p.segments))
         => r.segment = r.locator.path
  BY DEF From
<1>2. r.segment # NoPath => \E s \in seg2 : s.source = r.source /\ s.path = r.segment
  BY <1>1
<1>3. QED
  BY <1>1, <1>2, Zenon DEF From

LEMMA TablesGrow ==
  ASSUME NEW m, NEW seg, NEW ev, NEW rows, NEW provs, NEW seg2, NEW rows2, NEW provs2,
         seg \subseteq seg2, rows \subseteq rows2, Range(provs) \subseteq Range(provs2),
         EvidenceOK(m, seg, ev, rows, provs), SegmentsOK(m, seg, rows, provs)
  PROVE  EvidenceOK(m, seg2, ev, rows2, provs2) /\ SegmentsOK(m, seg, rows2, provs2)
<1>1. ASSUME NEW r \in ev PROVE \E p : PlanFits(m, r.source, p, rows2, provs2) /\ From(r, p, seg2)
  <2>1. PICK p : PlanFits(m, r.source, p, rows, provs) /\ From(r, p, seg)
    BY DEF EvidenceOK
  <2>2. QED
    BY <2>1, PlanFitsGrows, FromGrows
<1>2. ASSUME NEW s \in seg
      PROVE  \E p : /\ PlanFits(m, s.source, p, rows2, provs2)
                    /\ s.modality = p.modality /\ s.path \in Range(p.segments)
  <2>1. PICK p : /\ PlanFits(m, s.source, p, rows, provs)
                 /\ s.modality = p.modality /\ s.path \in Range(p.segments)
    BY DEF SegmentsOK
  <2>2. QED
    BY <2>1, PlanFitsGrows
<1>3. QED
  BY <1>1, <1>2 DEF EvidenceOK, SegmentsOK

(* Recording a batch: no row goes, every row that comes is of the batch,   *)
(* and every identity of the batch is there.                               *)
LEMMA RecordedIs ==
  ASSUME NEW rows, NEW batch, NEW N \in Nat, DOMAIN batch = 1..N
  PROVE  LET after == Recorded(rows, batch)
         IN  /\ rows \subseteq after
             /\ \A r \in after : r \in rows \/ \E i \in 1..N : r = batch[i]
             /\ \A i \in 1..N : \E r \in after : EvidenceIdentity(r) = EvidenceIdentity(batch[i])
<1> DEFINE after == Recorded(rows, batch)
           id(r) == EvidenceIdentity(r)
           New(k) == /\ \A x \in rows : id(x) # id(batch[k])
                     /\ \A j \in 1..(k - 1) : id(batch[j]) # id(batch[k])
<1>1. after = rows \cup {batch[i] : i \in {k \in 1..N : New(k)}}
  BY Zenon DEF Recorded
<1> HIDE DEF after, id
<1>2. ASSUME NEW i \in 1..N PROVE \E r \in after : id(r) = id(batch[i])
  <2> DEFINE K == {k \in 1..N : id(batch[k]) = id(batch[i])}
  <2>1. CASE \E x \in rows : id(x) = id(batch[i])
    BY <1>1, <2>1
  <2>2. CASE ~ \E x \in rows : id(x) = id(batch[i])
    <3>1. K \in SUBSET Nat /\ i \in K
      OBVIOUS
    <3>2. PICK k \in K : \A j \in K : k <= j
      BY <3>1, LeastExists
    <3>3. k \in 1..N /\ id(batch[k]) = id(batch[i])
      BY <3>2
    <3>4. \A j \in 1..(k - 1) : j \notin K
      BY <3>2, <3>3
    <3>5. \A j \in 1..(k - 1) : j \in 1..N
      BY <3>3
    <3>6. \A j \in 1..(k - 1) : id(batch[j]) # id(batch[k])
      BY <3>3, <3>4, <3>5
    <3>7. New(k)
      BY <2>2, <3>3, <3>6
    <3>8. batch[k] \in after
      BY <1>1, <3>3, <3>7
    <3>9. QED
      BY <3>3, <3>8
  <2>3. QED
    BY <2>1, <2>2
<1>3. QED
  BY <1>1, <1>2 DEF after, id

Complete(src, p, seg) == \A y \in Range(p.segments) : Segment(src, p.modality, y) \in seg

\* A planned record became a row.
Present(ev, src, q) ==
  \E r \in ev : r.source = src /\ r.locator = q.locator /\ r.kind = q.kind /\ r.digest = q.digest

LEMMA RecordsTell ==
  ASSUME NEW src, NEW kind, NEW loc, NEW digest, NEW owner, NEW content
  PROVE  LET r == Record(src, kind, loc, digest, owner, content)
         IN  /\ r.source = src /\ r.kind = kind /\ r.locator = loc /\ r.digest = digest
             /\ r.segment = owner /\ r.content = content
             /\ EvidenceIdentity(r) = <<src, loc, kind, digest>>
  BY DEF Record, EvidenceIdentity

LEMMA LinkedIs ==
  ASSUME NEW src, NEW p, Complete(src, p, segment), NEW i \in DOMAIN p.records
  PROVE  /\ Linked(src, p.modality, p.records)[i].source = src
         /\ From(Linked(src, p.modality, p.records)[i], p, segment)
         /\ EvidenceIdentity(Linked(src, p.modality, p.records)[i])
              = <<src, p.records[i].locator, p.records[i].kind, p.records[i].digest>>
<1> DEFINE x == p.records[i]
           owner == IF x.locator.stream = p.modality THEN RowAt(src, x.locator.path) ELSE NoPath
           r == Record(src, x.kind, x.locator, x.digest, owner, x.content)
<1>1. x \in Range(p.records)
  BY DEF Range
<1>2. Linked(src, p.modality, p.records)[i] = r
  BY DEF Linked
<1>3. owner # NoPath => \E s \in segment : s.source = src /\ s.path = owner
  BY DEF RowAt
<1>4. (x.locator.stream = p.modality /\ x.locator.path \in Range(p.segments)) => owner = x.locator.path
  <2> SUFFICES ASSUME x.locator.stream = p.modality, x.locator.path \in Range(p.segments)
               PROVE  owner = x.locator.path
    OBVIOUS
  <2> DEFINE s == Segment(src, p.modality, x.locator.path)
  <2>1. s \in segment
    BY DEF Complete
  <2>2. s.source = src /\ s.path = x.locator.path
    BY DEF Segment
  <2>3. QED
    BY <2>1, <2>2 DEF RowAt
<1> HIDE DEF owner, x
<1>5. /\ r.source = src /\ r.kind = x.kind /\ r.locator = x.locator /\ r.digest = x.digest
      /\ r.segment = owner /\ r.content = x.content
      /\ EvidenceIdentity(r) = <<src, x.locator, x.kind, x.digest>>
  BY RecordsTell
<1> HIDE DEF r
<1>6. From(r, p, segment)
  BY <1>1, <1>3, <1>4, <1>5 DEF From
<1>7. QED
  BY <1>2, <1>5, <1>6 DEF x

LEMMA PlanRecorded ==
  ASSUME NEW src, NEW p, NEW S, p.records \in Seq(S), Complete(src, p, segment)
  PROVE  LET after == Recorded(evidence, Linked(src, p.modality, p.records))
         IN  /\ evidence \subseteq after
             /\ \A r \in after : r \in evidence \/ (r.source = src /\ From(r, p, segment))
             /\ \A q \in Range(p.records) : Present(after, src, q)
<1> DEFINE batch == Linked(src, p.modality, p.records)
           after == Recorded(evidence, batch)
           N == Len(p.records)
<1>1. N \in Nat /\ DOMAIN p.records = 1..N
  OBVIOUS
<1>2. DOMAIN batch = 1..N
  BY <1>1 DEF Linked
<1>3. \A i \in 1..N : /\ batch[i].source = src /\ From(batch[i], p, segment)
                      /\ EvidenceIdentity(batch[i])
                           = <<src, p.records[i].locator, p.records[i].kind, p.records[i].digest>>
  <2>1. \A i \in DOMAIN p.records : batch[i].source = src
    BY LinkedIs
  <2>2. \A i \in DOMAIN p.records : From(batch[i], p, segment)
    BY LinkedIs
  <2>3. \A i \in DOMAIN p.records : EvidenceIdentity(batch[i])
                           = <<src, p.records[i].locator, p.records[i].kind, p.records[i].digest>>
    BY LinkedIs
  <2>4. QED
    BY <1>1, <2>1, <2>2, <2>3
<1> HIDE DEF batch
<1>4. /\ evidence \subseteq after
      /\ \A r \in after : r \in evidence \/ \E i \in 1..N : r = batch[i]
      /\ \A i \in 1..N : \E r \in after : EvidenceIdentity(r) = EvidenceIdentity(batch[i])
  BY <1>1, <1>2, RecordedIs
<1> HIDE DEF after
<1>5. ASSUME NEW q \in Range(p.records) PROVE Present(after, src, q)
  <2>1. PICK i \in 1..N : q = p.records[i]
    BY RangeIs
  <2>2. PICK r \in after : EvidenceIdentity(r) = EvidenceIdentity(batch[i])
    BY <1>4
  <2>3. <<r.source, r.locator, r.kind, r.digest>> = <<src, q.locator, q.kind, q.digest>>
    BY <1>3, <2>1, <2>2, Zenon DEF EvidenceIdentity
  <2>4. r.source = src /\ r.locator = q.locator /\ r.kind = q.kind /\ r.digest = q.digest
    BY <2>3
  <2>5. QED
    BY <2>4 DEF Present
<1>6. QED
  BY <1>3, <1>4, <1>5 DEF after, batch

(* Whichever plan wrote the row of a record, it says the same.             *)
LEMMA ScenesHeld ==
  ASSUME NEW m \in MediaSources, m.kind = "video", NEW seg, NEW ev, NEW rows, NEW provs,
         EvidenceOK(m, seg, ev, rows, provs), NEW q \in VideoRows, q.locator.path # FileRow,
         Present(ev, m.id, q)
  PROVE  Held(ev, m.id, q)
<1>1. PICK r \in ev : r.source = m.id /\ r.locator = q.locator /\ r.kind = q.kind /\ r.digest = q.digest
  BY DEF Present
<1>2. PICK p : PlanFits(m, m.id, p, rows, provs) /\ From(r, p, seg)
  BY <1>1 DEF EvidenceOK
<1>3. PICK x \in Range(p.records) :
        r.kind = x.kind /\ r.locator = x.locator /\ r.digest = x.digest /\ r.content = x.content
  BY <1>2 DEF From
<1>4. q.digest = NoDigest
  BY VideoRowsTell
<1>5. x \in VideoRows
  BY <1>1, <1>2, <1>3, <1>4, PlanTells
<1>6. x.content = q.content
  BY <1>1, <1>3, <1>5, VideoRowsDiffer
<1>7. QED
  BY <1>1, <1>3, <1>6 DEF Held

LEMMA PanelsHeld ==
  ASSUME NEW m \in MediaSources, m.kind = "image", NEW seg, NEW ev, NEW rows, NEW provs, NEW by,
         EvidenceOK(m, seg, ev, rows, provs), NEW q \in RasterRows(by), Present(ev, m.id, q)
  PROVE  Held(ev, m.id, q)
<1>1. PICK r \in ev : r.source = m.id /\ r.locator = q.locator /\ r.kind = q.kind /\ r.digest = q.digest
  BY DEF Present
<1>2. PICK p : PlanFits(m, m.id, p, rows, provs) /\ From(r, p, seg)
  BY <1>1 DEF EvidenceOK
<1>3. PICK x \in Range(p.records) :
        r.kind = x.kind /\ r.locator = x.locator /\ r.digest = x.digest /\ r.content = x.content
  BY <1>2 DEF From
<1>4. q.digest = by /\ q.content = RasterContent(q.kind, by)
  BY RasterRowsTell
<1>5. x.content = RasterContent(x.kind, x.digest)
  BY <1>2, <1>3, PlanTells
<1>6. x.kind = q.kind /\ x.digest = by
  BY <1>1, <1>3, <1>4
<1>7. x.content = q.content
  BY <1>4, <1>5, <1>6
<1>8. QED
  BY <1>1, <1>3, <1>7 DEF Held

LEMMA EventsHeld ==
  ASSUME NEW m \in MediaSources, m.kind = "video", NEW seg, NEW ev, NEW rows, NEW provs,
         EvidenceOK(m, seg, ev, rows, provs), NEW src, src # m.id, NEW q \in SubtitleRows,
         Present(ev, src, q)
  PROVE  Held(ev, src, q)
<1>1. PICK r \in ev : r.source = src /\ r.locator = q.locator /\ r.kind = q.kind /\ r.digest = q.digest
  BY DEF Present
<1>2. PICK p : PlanFits(m, src, p, rows, provs) /\ From(r, p, seg)
  BY <1>1 DEF EvidenceOK
<1>3. PICK x \in Range(p.records) :
        r.kind = x.kind /\ r.locator = x.locator /\ r.digest = x.digest /\ r.content = x.content
  BY <1>2 DEF From
<1>4. x \in SubtitleRows
  BY <1>2, <1>3, PlanTells
<1>5. x.content = q.content
  BY <1>1, <1>3, <1>4, SubtitleRowsTell
<1>6. QED
  BY <1>1, <1>3, <1>5 DEF Held

LEMMA TranscriptHeld ==
  ASSUME NEW m \in MediaSources, m.kind = "video", NEW seg, NEW ev, NEW rows, NEW provs,
         EvidenceOK(m, seg, ev, rows, provs), NEW by \in Engines(provs), NEW path, NEW q,
         q = Planned("audio_interval", "audio", path, VideoAudioDigest(by), by),
         Present(ev, m.id, q)
  PROVE  \E r \in ev : r.kind = "audio_interval" /\ r.content = by /\ r.locator.path = path
<1>1. PICK r \in ev : r.source = m.id /\ r.locator = q.locator /\ r.kind = q.kind /\ r.digest = q.digest
  BY DEF Present
<1>2. PICK p : PlanFits(m, m.id, p, rows, provs) /\ From(r, p, seg)
  BY <1>1 DEF EvidenceOK
<1>3. PICK x \in Range(p.records) :
        r.kind = x.kind /\ r.locator = x.locator /\ r.digest = x.digest /\ r.content = x.content
  BY <1>2 DEF From
<1>4. q.kind = "audio_interval" /\ q.digest = VideoAudioDigest(by) /\ q.locator.path = path
  BY PlannedTells
<1>5. x.content \in Engines(provs) /\ x.digest = VideoAudioDigest(x.content)
  BY <1>1, <1>2, <1>3, <1>4, PlanTells
<1>6. VideoAudioDigest(x.content) = VideoAudioDigest(by)
  BY <1>1, <1>3, <1>4, <1>5
<1>7. x.content = by
  BY <1>5, <1>6 DEF VideoAudioDigest, Engines
<1>8. QED
  BY <1>1, <1>3, <1>4, <1>7

-----------------------------------------------------------------------------
(* Executions between two steps.                                           *)

PlanFor(m, x) ==
  CASE x.phase = "asr" -> AudioPlan(m.output, VideoAudioDigest(x.by), x.by)
    [] x.phase = "track" -> SubtitlePlan(m.output.subtitles[x.track].events)
    [] x.phase = "main" /\ m.kind = "image" -> RasterPlan(m.output, x.by)
    [] x.phase = "main" /\ m.kind = "audio" -> AudioPlan(m.output, x.digest, x.by)
    [] x.phase = "main" /\ m.kind = "video" -> VideoPlan(m)
    [] x.phase = "main" /\ m.kind = "subtitle" -> SubtitlePlan(m.output.subtitles[1].events)

LEMMA PlanOfIs == ASSUME NEW x PROVE PlanOf(x) = PlanFor(media, x)
  BY Zenon DEF PlanOf, PlanFor, VideoPlan

ScenesKept(m, ev) ==
  \A q \in Range(VideoRecords(m.output)) : q.locator.path # FileRow => Held(ev, m.id, q)
PanelsKept(m, ev, by) == \A q \in Range(RasterPlan(m.output, by).records) : Held(ev, m.id, q)
TranscriptsKept(m, ev, by) ==
  by # "none" => \A i \in DOMAIN m.output.utterances :
    \E r \in ev : r.kind = "audio_interval" /\ r.content = by /\ r.locator.path = P("utterance", <<i>>)
EventsKept(ev, rows, t) ==
  t.text => \E s \in rows : /\ s.bytes = t.bytes
                            /\ \A q \in Range(SubtitlePlan(t.events).records) : Held(ev, s.id, q)
TracksKept(m, ev, rows, n) == \A i \in 1..n : EventsKept(ev, rows, m.output.subtitles[i])

\* The segments of the running plan that were put.
PutSoFar(m, x, seg) ==
  \A j \in 1..(x.put - 1) : j <= Len(PlanFor(m, x).segments) =>
    Segment(x.source, PlanFor(m, x).modality, PlanFor(m, x).segments[j]) \in seg

Tracks(m) == Len(m.output.subtitles)

\* What a clean execution has behind it when it turns to subtitle track n.
BehindTracks(m, x, ev, rows, n) ==
  x.clean => /\ ScenesKept(m, ev) /\ TranscriptsKept(m, ev, x.by) /\ TracksKept(m, ev, rows, n)

\* An execution is a record of these fields.
Whole(x) == DOMAIN x = {"at", "phase", "put", "track", "source", "by", "digest", "clean"}

MainPhase(m, x) == x.phase = "main" /\ x.source = m.id /\ x.track = 0
AsrPhase(m, x, ev, provs) ==
  /\ x.phase = "asr" /\ x.source = m.id /\ x.track = 0 /\ m.kind = "video"
  /\ x.by \in Engines(provs) /\ (x.clean => ScenesKept(m, ev))
TrackPhase(m, x, ev, rows) ==
  /\ x.phase = "track" /\ m.kind = "video" /\ x.track \in 1..(Tracks(m) + 1)
  /\ BehindTracks(m, x, ev, rows, x.track - 1)

ExecOK(m, x, seg, ev, rows, provs) ==
  /\ Whole(x)
  /\ \/ x.at = "idle" /\ x.phase = "main"
     \/ x.at = "decode" /\ MainPhase(m, x)
     \/ x.at = "asr" /\ MainPhase(m, x) /\ m.kind = "video" /\ (x.clean => ScenesKept(m, ev))
     \/ x.at = "track" /\ TrackPhase(m, x, ev, rows)
     \/ x.at = "ensure" /\ TrackPhase(m, x, ev, rows) /\ x.track <= Tracks(m)
     \/ /\ x.at = "register" /\ x.put \in Nat \ {0} /\ PutSoFar(m, x, seg)
        /\ PlanFits(m, x.source, PlanFor(m, x), rows, provs)
        /\ \/ MainPhase(m, x)
           \/ AsrPhase(m, x, ev, provs)
           \/ /\ TrackPhase(m, x, ev, rows) /\ x.track <= Tracks(m) /\ x.source # m.id
              /\ [id |-> x.source, bytes |-> m.output.subtitles[x.track].bytes] \in rows
     \/ /\ x.at = "finish" /\ x.phase \in {"main", "asr", "track"}
        /\ x.clean =>
             /\ m.kind = "video" => BehindTracks(m, x, ev, rows, Tracks(m))
             /\ m.kind = "image" => PanelsKept(m, ev, x.by)

LEMMA HeldGrows ==
  ASSUME NEW ev, NEW ev2, ev \subseteq ev2, NEW src, NEW q, Held(ev, src, q) PROVE Held(ev2, src, q)
  BY DEF Held

LEMMA KeptGrows ==
  ASSUME NEW m, NEW ev, NEW ev2, NEW rows, NEW rows2, ev \subseteq ev2, rows \subseteq rows2
  PROVE  /\ ScenesKept(m, ev) => ScenesKept(m, ev2)
         /\ \A by : PanelsKept(m, ev, by) => PanelsKept(m, ev2, by)
         /\ \A by : TranscriptsKept(m, ev, by) => TranscriptsKept(m, ev2, by)
         /\ \A n : TracksKept(m, ev, rows, n) => TracksKept(m, ev2, rows2, n)
<1>1. ScenesKept(m, ev) => ScenesKept(m, ev2)
  BY HeldGrows DEF ScenesKept
<1>2. \A by : PanelsKept(m, ev, by) => PanelsKept(m, ev2, by)
  BY HeldGrows DEF PanelsKept
<1>3. \A by : TranscriptsKept(m, ev, by) => TranscriptsKept(m, ev2, by)
  BY DEF TranscriptsKept
<1>4. ASSUME NEW t, EventsKept(ev, rows, t) PROVE EventsKept(ev2, rows2, t)
  <2> SUFFICES ASSUME t.text PROVE \E s \in rows2 : /\ s.bytes = t.bytes
                            /\ \A q \in Range(SubtitlePlan(t.events).records) : Held(ev2, s.id, q)
    BY DEF EventsKept
  <2>1. PICK s \in rows : /\ s.bytes = t.bytes
                          /\ \A q \in Range(SubtitlePlan(t.events).records) : Held(ev, s.id, q)
    BY <1>4 DEF EventsKept
  <2>2. \A q \in Range(SubtitlePlan(t.events).records) : Held(ev2, s.id, q)
    BY <2>1, HeldGrows
  <2>3. QED
    BY <2>1, <2>2
<1>5. \A n : TracksKept(m, ev, rows, n) => TracksKept(m, ev2, rows2, n)
  BY <1>4, Zenon DEF TracksKept
<1>6. QED
  BY <1>1, <1>2, <1>3, <1>5

LEMMA BehindGrows ==
  ASSUME NEW m, NEW ev, NEW ev2, NEW rows, NEW rows2, ev \subseteq ev2, rows \subseteq rows2,
         NEW x, NEW n, BehindTracks(m, x, ev, rows, n)
  PROVE  BehindTracks(m, x, ev2, rows2, n)
  BY KeptGrows, Zenon DEF BehindTracks

LEMMA ExecGrows ==
  ASSUME NEW m, NEW seg, NEW ev, NEW rows, NEW provs, NEW seg2, NEW ev2, NEW rows2, NEW provs2,
         seg \subseteq seg2, ev \subseteq ev2, rows \subseteq rows2, Range(provs) \subseteq Range(provs2),
         NEW x, ExecOK(m, x, seg, ev, rows, provs)
  PROVE  ExecOK(m, x, seg2, ev2, rows2, provs2)
<1>1. ScenesKept(m, ev) => ScenesKept(m, ev2)
  BY KeptGrows
<1>2. PanelsKept(m, ev, x.by) => PanelsKept(m, ev2, x.by)
  BY KeptGrows
<1>3. \A n : BehindTracks(m, x, ev, rows, n) => BehindTracks(m, x, ev2, rows2, n)
  BY BehindGrows
<1>4. TrackPhase(m, x, ev, rows) => TrackPhase(m, x, ev2, rows2)
  BY <1>3 DEF TrackPhase
<1>5. AsrPhase(m, x, ev, provs) => AsrPhase(m, x, ev2, provs2)
  BY <1>1, EnginesGrow DEF AsrPhase
<1>6. PutSoFar(m, x, seg) => PutSoFar(m, x, seg2)
  BY DEF PutSoFar
<1>7. PlanFits(m, x.source, PlanFor(m, x), rows, provs) => PlanFits(m, x.source, PlanFor(m, x), rows2, provs2)
  BY PlanFitsGrows
<1>8. [id |-> x.source, bytes |-> m.output.subtitles[x.track].bytes] \in rows
        => [id |-> x.source, bytes |-> m.output.subtitles[x.track].bytes] \in rows2
  OBVIOUS
<1>9. QED
  BY <1>1, <1>2, <1>3, <1>4, <1>5, <1>6, <1>7, <1>8, Zenon DEF ExecOK

(* The inductive invariant, of tables and executions that are named.       *)
MediaGood(m, seg, ev, rows, provs, ex, r, f) ==
  /\ m \in MediaSources /\ RowsOK(m, rows)
  /\ SegmentsOK(m, seg, rows, provs) /\ EvidenceOK(m, seg, ev, rows, provs)
  /\ provs \in Seq({"reference", "gated", "model"}) /\ provs # <<>>
  /\ \E S : ex \in [MediaWorkers -> S]
  /\ \A w \in MediaWorkers : ExecOK(m, ex[w], seg, ev, rows, provs)
  /\ r \in 0..MaxRuns /\ f \in 0..MaxFaults

MediaInv == MediaGood(media, segment, evidence, sourceRows, providers, mexec, runs, faults)

\* What a step leaves of tables and providers: nothing goes, all is in order.
TablesGo(seg, ev, rows, provs, seg2, ev2, rows2, provs2) ==
  /\ seg \subseteq seg2 /\ ev \subseteq ev2 /\ rows \subseteq rows2
  /\ Range(provs) \subseteq Range(provs2)

LEMMA OneExecution ==
  ASSUME NEW m, NEW seg, NEW ev, NEW rows, NEW provs, NEW ex, NEW r, NEW f,
         NEW seg2, NEW ev2, NEW rows2, NEW provs2, NEW r2 \in 0..MaxRuns, NEW f2 \in 0..MaxFaults,
         MediaGood(m, seg, ev, rows, provs, ex, r, f),
         TablesGo(seg, ev, rows, provs, seg2, ev2, rows2, provs2),
         RowsOK(m, rows2), SegmentsOK(m, seg2, rows2, provs2), EvidenceOK(m, seg2, ev2, rows2, provs2),
         provs2 \in Seq({"reference", "gated", "model"}), provs2 # <<>>,
         NEW w \in MediaWorkers, NEW x, ExecOK(m, x, seg2, ev2, rows2, provs2)
  PROVE  MediaGood(m, seg2, ev2, rows2, provs2, [ex EXCEPT ![w] = x], r2, f2)
<1> DEFINE ex2 == [ex EXCEPT ![w] = x]
<1>1. PICK S : ex \in [MediaWorkers -> S]
  BY DEF MediaGood
<1>2. ex2 \in [MediaWorkers -> S \cup {x}]
  BY <1>1
<1>3. \A v \in MediaWorkers : ex2[v] = IF v = w THEN x ELSE ex[v]
  BY <1>1
<1> HIDE DEF ex2
<1>4. \A v \in MediaWorkers : ExecOK(m, ex[v], seg2, ev2, rows2, provs2)
  BY ExecGrows DEF MediaGood, TablesGo
<1>5. \A v \in MediaWorkers : ExecOK(m, ex2[v], seg2, ev2, rows2, provs2)
  BY <1>3, <1>4
<1>6. m \in MediaSources
  BY DEF MediaGood
<1>7. QED
  BY <1>2, <1>5, <1>6 DEF MediaGood, ex2

LEMMA NoExecution ==
  ASSUME NEW m, NEW seg, NEW ev, NEW rows, NEW provs, NEW ex, NEW r, NEW f,
         NEW rows2, NEW provs2, MediaGood(m, seg, ev, rows, provs, ex, r, f),
         rows \subseteq rows2, Range(provs) \subseteq Range(provs2), RowsOK(m, rows2),
         provs2 \in Seq({"reference", "gated", "model"}), provs2 # <<>>
  PROVE  MediaGood(m, seg, ev, rows2, provs2, ex, r, f)
<1>1. SegmentsOK(m, seg, rows2, provs2) /\ EvidenceOK(m, seg, ev, rows2, provs2)
  BY TablesGrow DEF MediaGood
<1>2. \A v \in MediaWorkers : ExecOK(m, ex[v], seg, ev, rows2, provs2)
  BY ExecGrows DEF MediaGood
<1>3. QED
  BY <1>1, <1>2, Zenon DEF MediaGood

\* A step that only moves one execution.
LEMMA OnlyExecution ==
  ASSUME MediaInv, NEW w \in MediaWorkers, NEW x,
         ExecOK(media, x, segment, evidence, sourceRows, providers),
         NEW r2 \in 0..MaxRuns, NEW f2 \in 0..MaxFaults
  PROVE  MediaGood(media, segment, evidence, sourceRows, providers, [mexec EXCEPT ![w] = x], r2, f2)
<1>1. TablesGo(segment, evidence, sourceRows, providers, segment, evidence, sourceRows, providers)
  BY DEF TablesGo
<1>2. /\ RowsOK(media, sourceRows) /\ SegmentsOK(media, segment, sourceRows, providers)
      /\ EvidenceOK(media, segment, evidence, sourceRows, providers)
      /\ providers \in Seq({"reference", "gated", "model"}) /\ providers # <<>>
  BY DEF MediaInv, MediaGood
<1>3. QED
  BY <1>1, <1>2, OneExecution DEF MediaInv

LEMMA InvTells ==
  ASSUME MediaInv
  PROVE  /\ media \in MediaSources /\ RowsOK(media, sourceRows)
         /\ runs \in 0..MaxRuns /\ faults \in 0..MaxFaults
         /\ \E S : mexec \in [MediaWorkers -> S]
         /\ \A w \in MediaWorkers :
              ExecOK(media, mexec[w], segment, evidence, sourceRows, providers)
         /\ SegmentsOK(media, segment, sourceRows, providers)
         /\ EvidenceOK(media, segment, evidence, sourceRows, providers)
         /\ providers \in Seq({"reference", "gated", "model"}) /\ providers # <<>>
         /\ provider \in Range(providers) /\ provider \in {"reference", "gated", "model"}
<1>1. providers \in Seq({"reference", "gated", "model"}) /\ providers # <<>>
  BY DEF MediaInv, MediaGood
<1>2. Len(providers) \in 1..Len(providers)
  BY <1>1
<1>3. provider \in Range(providers) /\ provider \in {"reference", "gated", "model"}
  BY <1>1, <1>2, RangeIs DEF provider
<1>4. QED
  BY <1>1, <1>3 DEF MediaInv, MediaGood

\* What is left of every step but those that write a table.
MediaHolds ==
  MediaGood(media, segment', evidence', sourceRows', providers', mexec', runs', faults')

mediaKept == <<segment, evidence, sourceRows, providers>>

LEMMA OneMoves ==
  ASSUME MediaInv, NEW w \in MediaWorkers, NEW x, mexec' = [mexec EXCEPT ![w] = x],
         ExecOK(media, x, segment, evidence, sourceRows, providers),
         UNCHANGED mediaKept, runs' \in 0..MaxRuns, faults' \in 0..MaxFaults
  PROVE  MediaHolds
<1>1. MediaGood(media, segment, evidence, sourceRows, providers, [mexec EXCEPT ![w] = x], runs', faults')
  BY OnlyExecution
<1>2. segment' = segment /\ evidence' = evidence /\ sourceRows' = sourceRows /\ providers' = providers
  BY DEF mediaKept
<1>3. QED
  BY <1>1, <1>2 DEF MediaHolds

LEMMA MainPlan ==
  ASSUME NEW m \in MediaSources, NEW x, MainPhase(m, x), NEW rows, NEW provs
  PROVE  PlanFits(m, x.source, PlanFor(m, x), rows, provs)
<1>1. m.kind \in {"image", "audio", "video", "subtitle"}
  BY MediaConstants
<1>2. x.phase = "main" /\ x.source = m.id
  BY DEF MainPhase
<1>3. CASE m.kind = "image"
  <2>1. PlanFor(m, x) = RasterPlan(m.output, x.by)
    BY <1>2, <1>3 DEF PlanFor
  <2>2. QED
    BY <1>2, <1>3, <2>1 DEF PlanFits
<1>4. CASE m.kind = "audio"
  <2>1. PlanFor(m, x) = AudioPlan(m.output, x.digest, x.by)
    BY <1>2, <1>4 DEF PlanFor
  <2>2. QED
    BY <1>2, <1>4, <2>1 DEF PlanFits
<1>5. CASE m.kind = "video"
  <2>1. PlanFor(m, x) = VideoPlan(m)
    BY <1>2, <1>5 DEF PlanFor
  <2>2. QED
    BY <1>2, <1>5, <2>1 DEF PlanFits
<1>6. CASE m.kind = "subtitle"
  <2>1. PlanFor(m, x) = SubtitlePlan(m.output.subtitles[1].events)
    BY <1>2, <1>6 DEF PlanFor
  <2>2. QED
    BY <1>2, <1>6, <2>1 DEF PlanFits
<1>7. QED
  BY <1>1, <1>3, <1>4, <1>5, <1>6

LEMMA TrackPlan == ASSUME NEW m, NEW x, x.phase = "track"
                   PROVE  PlanFor(m, x) = SubtitlePlan(m.output.subtitles[x.track].events)
  BY DEF PlanFor
LEMMA AsrPlan == ASSUME NEW m, NEW x, x.phase = "asr"
                 PROVE  PlanFor(m, x) = AudioPlan(m.output, VideoAudioDigest(x.by), x.by)
  BY DEF PlanFor

\* The plan of an execution that registers its first segment.
LEMMA FirstPut == ASSUME NEW m, NEW x, x.put = 1, NEW seg PROVE PutSoFar(m, x, seg)
  BY DEF PutSoFar

LEMMA RestingOK == ASSUME NEW m, NEW seg, NEW ev, NEW rows, NEW provs
                   PROVE  ExecOK(m, Resting, seg, ev, rows, provs)
  BY DEF ExecOK, Resting, Whole

LEMMA StartStep ==
  ASSUME MediaInv, NEW w \in MediaWorkers, StartExtraction(w) PROVE MediaHolds
<1> DEFINE x == [Resting EXCEPT !.at = "decode", !.source = media.id]
<1>0. /\ Whole(x) /\ x.at = "decode" /\ x.phase = "main" /\ x.source = media.id /\ x.track = 0
  BY DEF Resting, Whole
<1>1. mexec' = [mexec EXCEPT ![w] = x]
  BY Zenon DEF StartExtraction
<1> HIDE DEF x
<1>2. ExecOK(media, x, segment, evidence, sourceRows, providers)
  BY <1>0, Zenon DEF ExecOK, MainPhase
<1>3. runs' \in 0..MaxRuns /\ faults \in 0..MaxFaults
  BY InvTells, MediaConstants DEF StartExtraction
<1>4. QED
  BY <1>1, <1>2, <1>3, OneMoves DEF StartExtraction, mediaKept

LEMMA DecodeStep ==
  ASSUME MediaInv, NEW w \in MediaWorkers, Decode(w) PROVE MediaHolds
<1> DEFINE old == mexec[w]
           x == [old EXCEPT !.at = "register", !.put = 1, !.by = Transcriber(provider),
                            !.digest = AudioConfigDigest(provider)]
<1>1. old.at = "decode" /\ Whole(old) /\ MainPhase(media, old)
  BY InvTells, Zenon DEF ExecOK, Decode
<1>2. mexec' = [mexec EXCEPT ![w] = x]
  BY InvTells DEF Decode
<1>3. x.at = "register" /\ x.put = 1 /\ Whole(x) /\ MainPhase(media, x)
  BY <1>1 DEF MainPhase, Whole
<1> HIDE DEF x
<1>4. /\ PlanFits(media, x.source, PlanFor(media, x), sourceRows, providers)
      /\ PutSoFar(media, x, segment)
  BY <1>3, MainPlan, FirstPut, InvTells
<1>5. x.put \in Nat \ {0}
  BY <1>3
<1>6. ExecOK(media, x, segment, evidence, sourceRows, providers)
  BY <1>3, <1>4, <1>5, Zenon DEF ExecOK
<1>7. QED
  BY <1>2, <1>6, OneMoves, InvTells DEF Decode, mediaKept

LEMMA FinishStep ==
  ASSUME MediaInv, NEW w \in MediaWorkers, FinishExtraction(w) \/ MediaCrash(w) PROVE MediaHolds
<1>1. mexec' = [mexec EXCEPT ![w] = Resting]
  BY DEF FinishExtraction, MediaCrash
<1>2. QED
  BY <1>1, RestingOK, OneMoves, InvTells DEF FinishExtraction, MediaCrash, mediaKept

LEMMA ProviderStep ==
  ASSUME MediaInv, ChangeProvider PROVE MediaHolds
<1>1. PICK p \in {"gated", "model"} : providers' = Append(providers, p)
  <2>1. PICK p \in CASE provider = "reference" -> {"gated", "model"}
                  [] provider = "gated" -> {"model"}
                  [] OTHER -> {} : providers' = Append(providers, p)
    BY Zenon DEF ChangeProvider
  <2>2. p \in {"gated", "model"}
    BY <2>1
  <2>3. QED
    BY <2>1, <2>2
<1>2. providers \in Seq({"reference", "gated", "model"})
  BY InvTells
<1>3. providers' \in Seq({"reference", "gated", "model"}) /\ providers' # <<>>
  BY <1>1, <1>2
<1>4. Range(providers) \subseteq Range(providers')
  <2> SUFFICES ASSUME NEW i \in 1..Len(providers) PROVE providers[i] \in Range(providers')
    BY <1>2, RangeIs
  <2>1. i \in 1..Len(providers') /\ providers'[i] = providers[i]
    BY <1>1, <1>2
  <2>2. QED
    BY <1>3, <2>1, RangeIs
<1>5. sourceRows \subseteq sourceRows
  OBVIOUS
<1>6. QED
  BY <1>3, <1>4, <1>5, InvTells, NoExecution DEF ChangeProvider, MediaHolds, MediaInv

\* What an execution becomes after a plan, field by field.
LEMMA AfterIs ==
  ASSUME NEW x, Whole(x), x.phase \in {"main", "asr", "track"}, NEW c
  PROVE  /\ Whole(AfterPlan(x, c)) /\ AfterPlan(x, c).clean = c
         /\ AfterPlan(x, c).by = x.by /\ AfterPlan(x, c).source = x.source
         /\ x.phase = "main" =>
              /\ AfterPlan(x, c).phase = "main" /\ AfterPlan(x, c).track = x.track
              /\ media.kind = "video" => AfterPlan(x, c).at = "asr"
              /\ media.kind # "video" => AfterPlan(x, c).at = "finish"
         /\ x.phase # "main" =>
              /\ AfterPlan(x, c).phase = "track" /\ AfterPlan(x, c).track = x.track + 1
              /\ AfterPlan(x, c).at = "track"
<1>1. CASE x.phase = "main" /\ media.kind = "video"
  <2>1. AfterPlan(x, c) = [x EXCEPT !.at = "asr", !.clean = c]
    BY <1>1 DEF AfterPlan
  <2>2. QED
    BY <1>1, <2>1 DEF Whole
<1>2. CASE x.phase = "main" /\ media.kind # "video"
  <2>1. AfterPlan(x, c) = [x EXCEPT !.at = "finish", !.clean = c]
    BY <1>2 DEF AfterPlan
  <2>2. QED
    BY <1>2, <2>1 DEF Whole
<1>3. CASE x.phase \in {"asr", "track"}
  <2>1. AfterPlan(x, c) = [x EXCEPT !.at = "track", !.phase = "track", !.track = @ + 1, !.clean = c]
    BY <1>3 DEF AfterPlan
  <2>2. QED
    BY <1>3, <2>1 DEF Whole
<1>4. QED
  BY <1>1, <1>2, <1>3

LEMMA TracksCount ==
  ASSUME NEW m \in MediaSources, m.kind = "video"
  PROVE  /\ Tracks(m) \in Nat /\ DOMAIN m.output.subtitles = 1..Tracks(m)
         /\ \A i \in 1..Tracks(m) : m.output.subtitles[i] \in Range(m.output.subtitles)
<1>1. m.output.subtitles \in Seq(Range(m.output.subtitles))
  BY MediaConstants
<1>2. QED
  BY <1>1, RangeIs DEF Tracks

\* A clean execution keeps what it has behind it.
LEMMA BehindSame ==
  ASSUME NEW m, NEW x, NEW y, y.clean = x.clean, y.by = x.by, NEW ev, NEW rows, NEW n,
         BehindTracks(m, x, ev, rows, n)
  PROVE  BehindTracks(m, y, ev, rows, n)
  BY Zenon DEF BehindTracks
LEMMA BehindOneMore ==
  ASSUME NEW m, NEW x, NEW ev, NEW rows, NEW n \in Nat \ {0}, BehindTracks(m, x, ev, rows, n - 1),
         x.clean => EventsKept(ev, rows, m.output.subtitles[n])
  PROVE  BehindTracks(m, x, ev, rows, n)
<1>1. TracksKept(m, ev, rows, n - 1) /\ EventsKept(ev, rows, m.output.subtitles[n])
        => TracksKept(m, ev, rows, n)
  <2>1. \A i \in 1..n : i \in 1..(n - 1) \/ i = n
    OBVIOUS
  <2>2. QED
    BY <2>1, Zenon DEF TracksKept
<1>2. QED
  BY <1>1, Zenon DEF BehindTracks
LEMMA BehindStarts ==
  ASSUME NEW m, NEW x, NEW ev, NEW rows, x.clean => ScenesKept(m, ev) /\ TranscriptsKept(m, ev, x.by)
  PROVE  BehindTracks(m, x, ev, rows, 0)
<1>1. TracksKept(m, ev, rows, 0)
  BY DEF TracksKept
<1>2. QED
  BY <1>1, Zenon DEF BehindTracks

LEMMA TranscribeStep ==
  ASSUME MediaInv, NEW w \in MediaWorkers, TranscribeVideo(w) PROVE MediaHolds
<1> DEFINE old == mexec[w]
           x1 == [old EXCEPT !.phase = "asr"]
           y == AfterPlan(x1, old.clean)
           x == [y EXCEPT !.by = "none"]
           z == [old EXCEPT !.at = "register", !.put = 1, !.phase = "asr", !.by = Transcriber(provider)]
<1>1. /\ old.at = "asr" /\ Whole(old) /\ MainPhase(media, old) /\ media.kind = "video"
      /\ (old.clean => ScenesKept(media, evidence))
  BY InvTells, Zenon DEF ExecOK, TranscribeVideo
<1>2. mexec' = [mexec EXCEPT ![w] = x] \/ (provider # "gated" /\ mexec' = [mexec EXCEPT ![w] = z])
  BY Zenon DEF TranscribeVideo
<1>3. ExecOK(media, x, segment, evidence, sourceRows, providers)
  <2>1. /\ Whole(x1) /\ x1.phase = "asr" /\ x1.track = 0
    BY <1>1 DEF Whole, MainPhase
  <2> HIDE DEF x1
  <2>2. /\ Whole(y) /\ y.clean = old.clean /\ y.phase = "track" /\ y.track = 0 + 1 /\ y.at = "track"
    BY <2>1, AfterIs
  <2> HIDE DEF y
  <2>3. /\ Whole(x) /\ x.clean = old.clean /\ x.phase = "track" /\ x.track = 1 /\ x.at = "track"
        /\ x.by = "none"
    BY <2>2 DEF Whole
  <2> HIDE DEF x
  <2>4. TranscriptsKept(media, evidence, x.by)
    BY <2>3, Zenon DEF TranscriptsKept
  <2>5. x.clean => ScenesKept(media, evidence) /\ TranscriptsKept(media, evidence, x.by)
    BY <1>1, <2>3, <2>4, Zenon
  <2>6. BehindTracks(media, x, evidence, sourceRows, 0)
    BY <2>5, BehindStarts
  <2>7. x.track \in 1..(Tracks(media) + 1) /\ x.track - 1 = 0
    BY <1>1, <2>3, TracksCount, InvTells
  <2>8. TrackPhase(media, x, evidence, sourceRows)
    BY <1>1, <2>3, <2>6, <2>7 DEF TrackPhase
  <2>9. QED
    BY <2>3, <2>8, Zenon DEF ExecOK
<1>4. ASSUME provider # "gated" PROVE ExecOK(media, z, segment, evidence, sourceRows, providers)
  <2>1. /\ Whole(z) /\ z.at = "register" /\ z.put = 1 /\ z.phase = "asr" /\ z.by = Transcriber(provider)
        /\ z.clean = old.clean /\ z.source = media.id /\ z.track = 0
    BY <1>1 DEF Whole, MainPhase
  <2> HIDE DEF z
  <2>2. z.by \in Engines(providers)
    BY <1>4, <2>1, InvTells DEF Transcriber, Engines
  <2>3. AsrPhase(media, z, evidence, providers)
    BY <1>1, <2>1, <2>2, Zenon DEF AsrPhase
  <2>4. PlanFits(media, z.source, PlanFor(media, z), sourceRows, providers)
    BY <1>1, <2>1, <2>2, AsrPlan DEF PlanFits
  <2>5. z.put \in Nat \ {0} /\ PutSoFar(media, z, segment)
    BY <2>1, FirstPut
  <2>6. QED
    BY <2>1, <2>3, <2>4, <2>5, Zenon DEF ExecOK
<1> HIDE DEF x, z
<1>5. QED
  BY <1>2, <1>3, <1>4, OneMoves, InvTells DEF TranscribeVideo, mediaKept

LEMMA TrackTold ==
  ASSUME MediaInv, NEW w \in MediaWorkers, mexec[w].at \in {"track", "ensure"}
  PROVE  LET x == mexec[w]
         IN  /\ Whole(x) /\ TrackPhase(media, x, evidence, sourceRows)
             /\ x.at = "ensure" => x.track <= Tracks(media)
             /\ x.phase = "track" /\ media.kind = "video" /\ x.track \in Nat \ {0} /\ Tracks(media) \in Nat
             /\ x.track <= Tracks(media) + 1
             /\ BehindTracks(media, x, evidence, sourceRows, x.track - 1)
<1>1. /\ Whole(mexec[w]) /\ TrackPhase(media, mexec[w], evidence, sourceRows)
      /\ mexec[w].at = "ensure" => mexec[w].track <= Tracks(media)
  BY InvTells DEF ExecOK
<1>2. QED
  BY <1>1, TracksCount, InvTells DEF TrackPhase

\* An execution that registers the segments of a track under a source that holds its bytes.
LEMMA TrackRegisters ==
  ASSUME NEW m \in MediaSources, NEW x, Whole(x), x.at = "register", x.put = 1, x.track <= Tracks(m),
         NEW seg, NEW ev, NEW rows, NEW provs, TrackPhase(m, x, ev, rows), RowsOK(m, rows),
         [id |-> x.source, bytes |-> m.output.subtitles[x.track].bytes] \in rows
  PROVE  ExecOK(m, x, seg, ev, rows, provs)
<1> DEFINE t == m.output.subtitles[x.track]
           r == [id |-> x.source, bytes |-> t.bytes]
           r0 == [id |-> m.id, bytes |-> m.bytes]
<1>1. m.kind = "video" /\ x.phase = "track" /\ x.track \in 1..Tracks(m)
  BY TracksCount DEF TrackPhase
<1>2. t \in Range(m.output.subtitles) /\ t.bytes # m.bytes
  BY <1>1, TracksCount, MediaConstants
<1> HIDE DEF t
<1>3. x.source # m.id
  <2>1. \A s, u \in rows : s.id = u.id => s = u
    BY DEF RowsOK
  <2>2. r \in rows /\ r0 \in rows
    BY DEF RowsOK, t
  <2>3. r.id = x.source /\ r0.id = m.id /\ r.bytes = t.bytes /\ r0.bytes = m.bytes
    OBVIOUS
  <2>4. QED
    BY <1>2, <2>1, <2>2, <2>3
<1>4. PlanFor(m, x) = SubtitlePlan(t.events)
  BY <1>1, TrackPlan DEF t
<1>5. [id |-> x.source, bytes |-> t.bytes] \in rows
  BY DEF t
<1>6. PlanFits(m, x.source, PlanFor(m, x), rows, provs)
  BY <1>1, <1>2, <1>3, <1>4, <1>5, Zenon DEF PlanFits
<1>7. x.put \in Nat \ {0} /\ PutSoFar(m, x, seg)
  BY FirstPut
<1>8. QED
  BY <1>3, <1>5, <1>6, <1>7, Zenon DEF ExecOK, t

LEMMA FindStep ==
  ASSUME MediaInv, NEW w \in MediaWorkers, FindTrack(w) PROVE MediaHolds
<1> DEFINE old == mexec[w]
           t == Subtitle(w)
           s == CHOOSE s \in Holding(t.bytes) : TRUE
           x1 == [old EXCEPT !.at = "finish"]
           x2 == [old EXCEPT !.track = @ + 1]
           x3 == [old EXCEPT !.at = "ensure"]
           x4 == [old EXCEPT !.at = "register", !.put = 1, !.source = s.id]
<1>1. /\ old.at = "track" /\ Whole(old) /\ TrackPhase(media, old, evidence, sourceRows)
      /\ old.phase = "track" /\ media.kind = "video" /\ old.track \in Nat \ {0} /\ Tracks(media) \in Nat
      /\ old.track <= Tracks(media) + 1
      /\ BehindTracks(media, old, evidence, sourceRows, old.track - 1)
  BY TrackTold DEF FindTrack
<1>2. \/ old.track > Tracks(media) /\ mexec' = [mexec EXCEPT ![w] = x1]
      \/ ~(old.track > Tracks(media)) /\ ~t.text /\ mexec' = [mexec EXCEPT ![w] = x2]
      \/ ~(old.track > Tracks(media)) /\ mexec' = [mexec EXCEPT ![w] = x3]
      \/ /\ ~(old.track > Tracks(media)) /\ Holding(t.bytes) # {}
         /\ mexec' = [mexec EXCEPT ![w] = x4]
  BY Zenon DEF FindTrack, Tracks
<1> HIDE DEF t
<1>3. ASSUME old.track > Tracks(media) PROVE ExecOK(media, x1, segment, evidence, sourceRows, providers)
  <2>1. Whole(x1) /\ x1.at = "finish" /\ x1.phase = "track" /\ x1.clean = old.clean /\ x1.by = old.by
    BY <1>1 DEF Whole
  <2> HIDE DEF x1
  <2>2. old.track - 1 = Tracks(media)
    BY <1>1, <1>3
  <2>3. BehindTracks(media, x1, evidence, sourceRows, Tracks(media))
    BY <1>1, <2>1, <2>2, BehindSame
  <2>4. x1.phase \in {"main", "asr", "track"} /\ media.kind # "image"
    BY <1>1, <2>1
  <2>5. QED
    BY <2>1, <2>3, <2>4, Zenon DEF ExecOK
<1>4. ASSUME ~(old.track > Tracks(media)), ~t.text
      PROVE  ExecOK(media, x2, segment, evidence, sourceRows, providers)
  <2>1. /\ Whole(x2) /\ x2.at = "track" /\ x2.phase = "track" /\ x2.clean = old.clean /\ x2.by = old.by
        /\ x2.track = old.track + 1
    BY <1>1 DEF Whole
  <2> HIDE DEF x2
  <2>2. EventsKept(evidence, sourceRows, media.output.subtitles[old.track])
    BY <1>4 DEF EventsKept, t, Subtitle
  <2>3. BehindTracks(media, old, evidence, sourceRows, old.track)
    BY <1>1, <2>2, BehindOneMore
  <2>4. x2.track - 1 = old.track /\ x2.track \in 1..(Tracks(media) + 1)
    BY <1>1, <1>4, <2>1
  <2>5. BehindTracks(media, x2, evidence, sourceRows, x2.track - 1)
    BY <2>1, <2>3, <2>4, BehindSame
  <2>6. TrackPhase(media, x2, evidence, sourceRows)
    BY <1>1, <2>1, <2>4, <2>5 DEF TrackPhase
  <2>7. QED
    BY <2>1, <2>6, Zenon DEF ExecOK
<1>5. ASSUME ~(old.track > Tracks(media)) PROVE ExecOK(media, x3, segment, evidence, sourceRows, providers)
  <2>1. /\ Whole(x3) /\ x3.at = "ensure" /\ x3.phase = "track" /\ x3.clean = old.clean /\ x3.by = old.by
        /\ x3.track = old.track
    BY <1>1 DEF Whole
  <2> HIDE DEF x3
  <2>2. BehindTracks(media, x3, evidence, sourceRows, x3.track - 1)
    BY <1>1, <2>1, BehindSame
  <2>3. TrackPhase(media, x3, evidence, sourceRows) /\ x3.track <= Tracks(media)
    BY <1>1, <1>5, <2>1, <2>2 DEF TrackPhase
  <2>4. QED
    BY <2>1, <2>3, Zenon DEF ExecOK
<1>6. ASSUME ~(old.track > Tracks(media)), Holding(t.bytes) # {}
      PROVE  ExecOK(media, x4, segment, evidence, sourceRows, providers)
  <2>1. s \in sourceRows /\ s.bytes = t.bytes
    BY <1>6 DEF Holding
  <2>2. s = [id |-> s.id, bytes |-> s.bytes]
    BY <2>1, InvTells DEF RowsOK
  <2> HIDE DEF s
  <2>3. /\ Whole(x4) /\ x4.at = "register" /\ x4.put = 1 /\ x4.phase = "track" /\ x4.clean = old.clean
        /\ x4.by = old.by /\ x4.track = old.track /\ x4.source = s.id
    BY <1>1 DEF Whole
  <2> HIDE DEF x4
  <2>4. BehindTracks(media, x4, evidence, sourceRows, x4.track - 1)
    BY <1>1, <2>3, BehindSame
  <2>5. TrackPhase(media, x4, evidence, sourceRows) /\ x4.track <= Tracks(media)
    BY <1>1, <1>6, <2>3, <2>4 DEF TrackPhase
  <2>6. [id |-> x4.source, bytes |-> media.output.subtitles[x4.track].bytes] \in sourceRows
    BY <2>1, <2>2, <2>3 DEF t, Subtitle
  <2>7. QED
    BY <2>3, <2>5, <2>6, InvTells, TrackRegisters
<1> HIDE DEF x1, x2, x3, x4, s
<1>7. QED
  BY <1>2, <1>3, <1>4, <1>5, <1>6, OneMoves, InvTells DEF FindTrack, mediaKept

LEMMA OneRowMore ==
  ASSUME NEW m \in MediaSources, m.kind = "video", NEW rows, RowsOK(m, rows), NEW id, id # m.id,
         NEW i \in DOMAIN m.output.subtitles, id \in Uploads \/ id = m.id * 10 + i,
         \A s \in rows : s.id # id /\ s.bytes # m.output.subtitles[i].bytes
  PROVE  RowsOK(m, rows \cup {[id |-> id, bytes |-> m.output.subtitles[i].bytes]})
<1> DEFINE b == m.output.subtitles[i].bytes
           r == [id |-> id, bytes |-> b]
           more == rows \cup {r}
<1>1. r = [id |-> r.id, bytes |-> r.bytes] /\ r.id = id /\ r.bytes = b
  OBVIOUS
<1>2. \A s, t \in more : s.bytes = t.bytes \/ s.id = t.id => s = t
  <2>1. \A s, t \in rows : s.bytes = t.bytes \/ s.id = t.id => s = t
    BY DEF RowsOK
  <2>2. \A s \in rows : s.id # r.id /\ s.bytes # r.bytes
    BY <1>1
  <2> HIDE DEF r
  <2>3. QED
    BY <2>1, <2>2
<1>3. \A s \in more :
       /\ s = [id |-> s.id, bytes |-> s.bytes]
       /\ s.id # m.id =>
            /\ m.kind = "video"
            /\ \E j \in DOMAIN m.output.subtitles : s.bytes = m.output.subtitles[j].bytes
            /\ \/ s.id \in Uploads
               \/ \E j \in DOMAIN m.output.subtitles :
                    s.id = m.id * 10 + j /\ s.bytes = m.output.subtitles[j].bytes
  <2>1. r.bytes = m.output.subtitles[i].bytes /\ (r.id \in Uploads \/ r.id = m.id * 10 + i)
    BY <1>1
  <2> HIDE DEF r
  <2>2. QED
    BY <1>1, <2>1 DEF RowsOK
<1>4. [id |-> m.id, bytes |-> m.bytes] \in more
  BY DEF RowsOK
<1> HIDE DEF more, r
<1>5. RowsOK(m, more)
  BY <1>2, <1>3, <1>4, Zenon DEF RowsOK
<1>6. QED
  BY <1>5 DEF more, r

\* The id of a track is no row's when its bytes are no source's.
LEMMA TrackIdFree ==
  ASSUME NEW m \in MediaSources, m.kind = "video", NEW rows, RowsOK(m, rows),
         NEW i \in DOMAIN m.output.subtitles,
         \A s \in rows : s.bytes # m.output.subtitles[i].bytes
  PROVE  /\ m.id * 10 + i # m.id /\ \A s \in rows : s.id # m.id * 10 + i
<1>1. m.id \in Nat /\ m.id * 10 + i \notin Uploads
  BY MediaConstants
<1>2. \A j \in DOMAIN m.output.subtitles : j \in Nat \ {0}
  BY TracksCount
<1>3. m.id * 10 + i # m.id
  BY <1>1, <1>2
<1>4. ASSUME NEW s \in rows, s.id = m.id * 10 + i PROVE FALSE
  <2>1. PICK j \in DOMAIN m.output.subtitles :
          s.id = m.id * 10 + j /\ s.bytes = m.output.subtitles[j].bytes
    BY <1>1, <1>3, <1>4 DEF RowsOK
  <2>2. j = i
    BY <1>1, <1>2, <1>4, <2>1
  <2>3. QED
    BY <2>1, <2>2
<1>5. QED
  BY <1>3, <1>4

LEMMA EnsureStep ==
  ASSUME MediaInv, NEW w \in MediaWorkers, EnsureTrack(w) PROVE MediaHolds
<1> DEFINE old == mexec[w]
           t == Subtitle(w)
           id == media.id * 10 + old.track
           r == [id |-> id, bytes |-> t.bytes]
           x == [old EXCEPT !.at = "register", !.put = 1, !.source = id]
<1>1. /\ old.at = "ensure" /\ Whole(old) /\ TrackPhase(media, old, evidence, sourceRows)
      /\ old.phase = "track" /\ media.kind = "video" /\ old.track \in Nat \ {0} /\ Tracks(media) \in Nat
      /\ old.track <= Tracks(media)
      /\ BehindTracks(media, old, evidence, sourceRows, old.track - 1)
  BY TrackTold DEF EnsureTrack
<1>2. CASE mexec' = [mexec EXCEPT ![w] = Resting] /\ UNCHANGED sourceRows
  BY <1>2, RestingOK, OneMoves, InvTells DEF EnsureTrack, mediaKept
<1>3. CASE /\ Holding(t.bytes) = {} /\ sourceRows' = sourceRows \cup {r}
           /\ mexec' = [mexec EXCEPT ![w] = [@ EXCEPT !.at = "register", !.put = 1, !.source = id]]
  <2>1. mexec' = [mexec EXCEPT ![w] = x]
    BY <1>3, InvTells
  <2>2. /\ Whole(x) /\ x.at = "register" /\ x.put = 1 /\ x.phase = "track" /\ x.clean = old.clean
        /\ x.by = old.by /\ x.track = old.track /\ x.source = id
    BY <1>1 DEF Whole
  <2> HIDE DEF x
  <2>3. old.track \in DOMAIN media.output.subtitles /\ t = media.output.subtitles[old.track]
    BY <1>1, TracksCount, InvTells DEF Subtitle
  <2>4. \A s \in sourceRows : s.bytes # t.bytes
    BY <1>3 DEF Holding
  <2>5. id # media.id /\ \A s \in sourceRows : s.id # id
    BY <1>1, <2>3, <2>4, InvTells, TrackIdFree
  <2>6. RowsOK(media, sourceRows')
    BY <1>1, <1>3, <2>3, <2>4, <2>5, InvTells, OneRowMore
  <2>7. sourceRows \subseteq sourceRows' /\ r \in sourceRows'
    BY <1>3
  <2>8. BehindTracks(media, x, evidence, sourceRows', x.track - 1)
    <3>1. BehindTracks(media, old, evidence, sourceRows', old.track - 1)
      BY <1>1, <2>7, BehindGrows
    <3>2. QED
      BY <2>2, <3>1, BehindSame
  <2>9. TrackPhase(media, x, evidence, sourceRows') /\ x.track <= Tracks(media)
    BY <1>1, <2>2, <2>8 DEF TrackPhase
  <2>10. [id |-> x.source, bytes |-> media.output.subtitles[x.track].bytes] \in sourceRows'
    BY <2>2, <2>3, <2>7
  <2>11. ExecOK(media, x, segment, evidence, sourceRows', providers)
    BY <2>2, <2>6, <2>9, <2>10, InvTells, TrackRegisters
  <2>12. /\ SegmentsOK(media, segment, sourceRows', providers)
         /\ EvidenceOK(media, segment, evidence, sourceRows', providers)
    BY <2>7, InvTells, TablesGrow
  <2>13. TablesGo(segment, evidence, sourceRows, providers, segment, evidence, sourceRows', providers)
    BY <2>7 DEF TablesGo
  <2>14. MediaGood(media, segment, evidence, sourceRows', providers, [mexec EXCEPT ![w] = x], runs, faults)
    <3> HIDE DEF r, id
    <3>1. QED
      BY <2>6, <2>11, <2>12, <2>13, InvTells, OneExecution DEF MediaInv
  <2>15. QED
    BY <2>1, <2>14 DEF MediaHolds, EnsureTrack
<1>4. QED
  BY <1>2, <1>3, Zenon DEF EnsureTrack

LEMMA UploadStep ==
  ASSUME MediaInv, UploadSubtitle PROVE MediaHolds
<1>1. PICK u \in Uploads, i \in DOMAIN media.output.subtitles :
         /\ \A s \in sourceRows : s.id # u
         /\ Holding(media.output.subtitles[i].bytes) = {}
         /\ sourceRows' = sourceRows \cup {[id |-> u, bytes |-> media.output.subtitles[i].bytes]}
  BY Zenon DEF UploadSubtitle
<1>2. \A s \in sourceRows : s.bytes # media.output.subtitles[i].bytes
  BY <1>1 DEF Holding
<1>3. u # media.id
  <2>1. [id |-> media.id, bytes |-> media.bytes] \in sourceRows
    BY InvTells DEF RowsOK
  <2>2. QED
    BY <1>1, <2>1
<1>4. media.kind = "video"
  BY DEF UploadSubtitle
<1>5. RowsOK(media, sourceRows')
  BY <1>1, <1>2, <1>3, <1>4, InvTells, OneRowMore
<1>6. sourceRows \subseteq sourceRows'
  BY <1>1
<1>7. MediaGood(media, segment, evidence, sourceRows', providers, mexec, runs, faults)
  BY <1>5, <1>6, InvTells, NoExecution DEF MediaInv
<1>8. QED
  BY <1>7 DEF UploadSubtitle, MediaHolds

LEMMA RegisterTold ==
  ASSUME MediaInv, NEW w \in MediaWorkers, mexec[w].at = "register"
  PROVE  LET x == mexec[w]
         IN  /\ Whole(x) /\ x.put \in Nat \ {0} /\ PutSoFar(media, x, segment)
             /\ PlanFits(media, x.source, PlanFor(media, x), sourceRows, providers)
             /\ \/ MainPhase(media, x)
                \/ AsrPhase(media, x, evidence, providers)
                \/ /\ TrackPhase(media, x, evidence, sourceRows) /\ x.track <= Tracks(media)
                   /\ x.source # media.id
                   /\ [id |-> x.source, bytes |-> media.output.subtitles[x.track].bytes] \in sourceRows
  BY InvTells DEF ExecOK

LEMMA PutStep ==
  ASSUME MediaInv, NEW w \in MediaWorkers, PutMediaSegment(w) PROVE MediaHolds
<1> DEFINE old == mexec[w]
           plan == PlanFor(media, old)
           new == Segment(old.source, plan.modality, plan.segments[old.put])
           x == [old EXCEPT !.put = old.put + 1]
<1>1. /\ old.at = "register" /\ old.put <= Len(plan.segments) /\ segment' = segment \cup {new}
      /\ mexec' = [mexec EXCEPT ![w] = [@ EXCEPT !.put = old.put + 1]]
  BY PlanOfIs, Zenon DEF PutMediaSegment
<1>2. mexec' = [mexec EXCEPT ![w] = x]
  BY <1>1, InvTells
<1>3. /\ Whole(old) /\ old.put \in Nat \ {0} /\ PutSoFar(media, old, segment)
      /\ PlanFits(media, old.source, plan, sourceRows, providers)
      /\ \/ MainPhase(media, old)
         \/ AsrPhase(media, old, evidence, providers)
         \/ /\ TrackPhase(media, old, evidence, sourceRows) /\ old.track <= Tracks(media)
            /\ old.source # media.id
            /\ [id |-> old.source, bytes |-> media.output.subtitles[old.track].bytes] \in sourceRows
  BY <1>1, RegisterTold
<1>4. /\ Whole(x) /\ x.at = "register" /\ x.put = old.put + 1 /\ x.phase = old.phase
      /\ x.track = old.track /\ x.source = old.source /\ x.by = old.by /\ x.digest = old.digest
      /\ x.clean = old.clean
  BY <1>1, <1>3 DEF Whole
<1> HIDE DEF x
<1>5. PlanFor(media, x) = plan
  BY <1>4 DEF PlanFor
<1>6. PutSoFar(media, x, segment')
  <2> SUFFICES ASSUME NEW j \in 1..(x.put - 1), j <= Len(plan.segments)
               PROVE  Segment(x.source, plan.modality, plan.segments[j]) \in segment'
    BY <1>5 DEF PutSoFar
  <2>1. CASE j = old.put
    BY <1>1, <1>4, <2>1
  <2>2. CASE j # old.put
    <3>1. j \in 1..(old.put - 1)
      BY <1>3, <1>4, <2>2
    <3>2. Segment(old.source, plan.modality, plan.segments[j]) \in segment
      BY <1>3, <3>1, Zenon DEF PutSoFar
    <3>3. QED
      BY <1>1, <1>4, <3>2
  <2>3. QED
    BY <2>1, <2>2
<1>7. plan.segments[old.put] \in Range(plan.segments)
  <2>1. plan.segments \in Seq(Paths)
    BY <1>3, InvTells, PlanTells
  <2>2. QED
    BY <1>1, <1>3, <2>1, RangeIs
<1>8. new.source = old.source /\ new.modality = plan.modality /\ new.path = plan.segments[old.put]
  BY DEF Segment
<1> HIDE DEF plan, new
<1>9. SegmentsOK(media, segment', sourceRows, providers)
  <2> SUFFICES ASSUME NEW s \in segment'
               PROVE  \E p : /\ PlanFits(media, s.source, p, sourceRows, providers)
                             /\ s.modality = p.modality /\ s.path \in Range(p.segments)
    BY DEF SegmentsOK
  <2>1. CASE s \in segment
    BY <2>1, InvTells DEF SegmentsOK
  <2>2. CASE s = new
    BY <1>3, <1>7, <1>8, <2>2
  <2>3. QED
    BY <1>1, <2>1, <2>2
<1>10. segment \subseteq segment'
  BY <1>1
<1>11. EvidenceOK(media, segment', evidence, sourceRows, providers)
  BY <1>10, InvTells, TablesGrow
<1>12. \/ MainPhase(media, x)
       \/ AsrPhase(media, x, evidence, providers)
       \/ /\ TrackPhase(media, x, evidence, sourceRows) /\ x.track <= Tracks(media)
          /\ x.source # media.id
          /\ [id |-> x.source, bytes |-> media.output.subtitles[x.track].bytes] \in sourceRows
  <2>1. CASE MainPhase(media, old)
    BY <1>4, <2>1 DEF MainPhase
  <2>2. CASE AsrPhase(media, old, evidence, providers)
    BY <1>4, <2>2, Zenon DEF AsrPhase
  <2>3. CASE /\ TrackPhase(media, old, evidence, sourceRows) /\ old.track <= Tracks(media)
             /\ old.source # media.id
             /\ [id |-> old.source, bytes |-> media.output.subtitles[old.track].bytes] \in sourceRows
    <3>1. BehindTracks(media, x, evidence, sourceRows, x.track - 1)
      BY <1>4, <2>3, BehindSame DEF TrackPhase
    <3>2. TrackPhase(media, x, evidence, sourceRows)
      BY <1>4, <2>3, <3>1 DEF TrackPhase
    <3>3. QED
      BY <1>4, <2>3, <3>2
  <2>4. QED
    BY <1>3, <2>1, <2>2, <2>3
<1>13. x.put \in Nat \ {0} /\ PlanFits(media, x.source, PlanFor(media, x), sourceRows, providers)
  BY <1>3, <1>4, <1>5
<1>14. ExecOK(media, x, segment', evidence, sourceRows, providers)
  BY <1>4, <1>6, <1>12, <1>13, Zenon DEF ExecOK
<1>15. TablesGo(segment, evidence, sourceRows, providers, segment', evidence, sourceRows, providers)
  BY <1>10 DEF TablesGo
<1>16. MediaGood(media, segment', evidence, sourceRows, providers, [mexec EXCEPT ![w] = x], runs, faults)
  BY <1>9, <1>11, <1>14, <1>15, InvTells, OneExecution DEF MediaInv
<1>17. QED
  BY <1>2, <1>16 DEF PutMediaSegment, MediaHolds

\* What recording the plan of an execution leaves in the table.
LEMMA RecordTold ==
  ASSUME MediaInv, NEW w \in MediaWorkers, RecordPlan(w)
  PROVE  /\ evidence \subseteq evidence'
         /\ EvidenceOK(media, segment, evidence', sourceRows, providers)
         /\ \A q \in Range(PlanFor(media, mexec[w]).records) : Present(evidence', mexec[w].source, q)
<1> DEFINE x == mexec[w]
           plan == PlanFor(media, x)
           src == x.source
<1>1. /\ x.at = "register" /\ x.put > Len(plan.segments)
      /\ evidence' = Recorded(evidence, Linked(src, plan.modality, plan.records))
  BY PlanOfIs, Zenon DEF RecordPlan
<1>2. /\ x.put \in Nat \ {0} /\ PutSoFar(media, x, segment)
      /\ PlanFits(media, src, plan, sourceRows, providers)
  BY <1>1, RegisterTold
<1>3. plan.segments \in Seq(Paths) /\ \E T : plan.records \in Seq(T)
  BY <1>2, InvTells, PlanTells
<1>4. Complete(src, plan, segment)
  <2> SUFFICES ASSUME NEW y \in Range(plan.segments) PROVE Segment(src, plan.modality, y) \in segment
    BY DEF Complete
  <2>1. PICK j \in 1..Len(plan.segments) : y = plan.segments[j]
    BY <1>3, RangeIs
  <2>2. j \in 1..(x.put - 1) /\ j <= Len(plan.segments)
    BY <1>1, <1>2, <1>3
  <2>3. Segment(src, plan.modality, plan.segments[j]) \in segment
    BY <1>2, <2>2, Zenon DEF PutSoFar
  <2>4. QED
    BY <2>1, <2>3
<1>5. PICK T : plan.records \in Seq(T)
  BY <1>3
<1> HIDE DEF plan, src
<1>6. /\ evidence \subseteq evidence'
      /\ \A r \in evidence' : r \in evidence \/ (r.source = src /\ From(r, plan, segment))
      /\ \A q \in Range(plan.records) : Present(evidence', src, q)
  BY <1>1, <1>4, <1>5, PlanRecorded
<1>7. EvidenceOK(media, segment, evidence', sourceRows, providers)
  <2> SUFFICES ASSUME NEW r \in evidence'
               PROVE  \E p : PlanFits(media, r.source, p, sourceRows, providers) /\ From(r, p, segment)
    BY DEF EvidenceOK
  <2>1. CASE r \in evidence
    BY <2>1, InvTells DEF EvidenceOK
  <2>2. CASE r.source = src /\ From(r, plan, segment)
    BY <1>2, <2>2
  <2>3. QED
    BY <1>6, <2>1, <2>2
<1>8. QED
  BY <1>6, <1>7 DEF plan, src

LEMMA RecordStep ==
  ASSUME MediaInv, NEW w \in MediaWorkers, RecordPlan(w) PROVE MediaHolds
<1> DEFINE old == mexec[w]
           plan == PlanFor(media, old)
           x == AfterPlan(old, old.clean)
<1>1. old.at = "register" /\ mexec' = [mexec EXCEPT ![w] = x]
  BY Zenon DEF RecordPlan
<1>2. /\ evidence \subseteq evidence'
      /\ EvidenceOK(media, segment, evidence', sourceRows, providers)
      /\ \A q \in Range(plan.records) : Present(evidence', old.source, q)
  BY RecordTold
<1>3. /\ Whole(old)
      /\ \/ MainPhase(media, old)
         \/ AsrPhase(media, old, evidence, providers)
         \/ /\ TrackPhase(media, old, evidence, sourceRows) /\ old.track <= Tracks(media)
            /\ old.source # media.id
            /\ [id |-> old.source, bytes |-> media.output.subtitles[old.track].bytes] \in sourceRows
  BY <1>1, RegisterTold
<1>4. old.phase \in {"main", "asr", "track"}
  BY <1>3 DEF MainPhase, AsrPhase, TrackPhase
<1>5. /\ Whole(x) /\ x.clean = old.clean /\ x.by = old.by /\ x.source = old.source
      /\ old.phase = "main" =>
           /\ x.phase = "main" /\ x.track = old.track
           /\ media.kind = "video" => x.at = "asr"
           /\ media.kind # "video" => x.at = "finish"
      /\ old.phase # "main" => x.phase = "track" /\ x.track = old.track + 1 /\ x.at = "track"
  BY <1>3, <1>4, AfterIs
<1>6. media \in MediaSources
  BY InvTells
<1> HIDE DEF x
<1>7. ASSUME MainPhase(media, old) PROVE ExecOK(media, x, segment, evidence', sourceRows, providers)
  <2>1. old.phase = "main" /\ old.source = media.id /\ old.track = 0 /\ x.phase = "main"
    BY <1>5, <1>7 DEF MainPhase
  <2>2. CASE media.kind = "video"
    <3>1. plan.records = VideoRecords(media.output)
      BY <2>1, <2>2 DEF PlanFor, VideoPlan, Plan
    <3>2. VideoRecords(media.output) \in Seq(VideoRows)
      BY <1>6, <2>2, VideoPlanned
    <3>3. \A q \in Range(VideoRecords(media.output)) : q \in VideoRows
      BY <3>2, RangeIs
    <3>4. ScenesKept(media, evidence')
      BY <1>2, <1>6, <2>1, <2>2, <3>1, <3>3, ScenesHeld DEF ScenesKept
    <3>5. x.at = "asr" /\ MainPhase(media, x)
      BY <1>5, <2>1, <2>2 DEF MainPhase
    <3>6. QED
      BY <1>5, <2>2, <3>4, <3>5, Zenon DEF ExecOK
  <2>3. CASE media.kind = "image"
    <3>1. plan = RasterPlan(media.output, x.by)
      BY <1>5, <2>1, <2>3 DEF PlanFor
    <3>2. plan.records \in Seq(RasterRows(x.by))
      BY <1>6, <2>3, <3>1, RasterPlanned
    <3>3. \A q \in Range(plan.records) : q \in RasterRows(x.by)
      BY <3>2, RangeIs
    <3>4. PanelsKept(media, evidence', x.by)
      BY <1>2, <1>6, <2>1, <2>3, <3>1, <3>3, PanelsHeld DEF PanelsKept
    <3>5. x.at = "finish" /\ media.kind # "video" /\ x.phase \in {"main", "asr", "track"}
      BY <1>5, <2>1, <2>3
    <3>6. QED
      BY <1>5, <3>4, <3>5, Zenon DEF ExecOK
  <2>4. CASE media.kind # "video" /\ media.kind # "image"
    <3>1. x.at = "finish" /\ x.phase \in {"main", "asr", "track"}
      BY <1>5, <2>1, <2>4
    <3>2. QED
      BY <1>5, <2>4, <3>1, Zenon DEF ExecOK
  <2>5. QED
    BY <2>2, <2>3, <2>4
<1>8. ASSUME AsrPhase(media, old, evidence, providers)
      PROVE  ExecOK(media, x, segment, evidence', sourceRows, providers)
  <2>1. /\ old.phase = "asr" /\ old.source = media.id /\ old.track = 0 /\ media.kind = "video"
        /\ old.by \in Engines(providers)
    BY <1>8 DEF AsrPhase
  <2>2. /\ x.phase = "track" /\ x.track = 1 /\ x.at = "track"
    BY <1>5, <2>1
  <2>3. plan = AudioPlan(media.output, VideoAudioDigest(x.by), x.by)
    BY <1>5, <2>1, AsrPlan
  <2>4. TranscriptsKept(media, evidence', x.by)
    <3> SUFFICES ASSUME NEW i \in DOMAIN media.output.utterances
                 PROVE  \E r \in evidence' : /\ r.kind = "audio_interval" /\ r.content = x.by
                                             /\ r.locator.path = P("utterance", <<i>>)
      BY DEF TranscriptsKept
    <3> DEFINE q == Planned("audio_interval", "audio", P("utterance", <<i>>), VideoAudioDigest(x.by), x.by)
    <3>1. q \in Range(plan.records)
      BY <1>6, <2>1, <2>3, AudioPlanned
    <3>2. Present(evidence', media.id, q)
      BY <1>2, <2>1, <3>1
    <3>3. x.by \in Engines(providers)
      BY <1>5, <2>1
    <3> HIDE DEF q
    <3>4. q = Planned("audio_interval", "audio", P("utterance", <<i>>), VideoAudioDigest(x.by), x.by)
      BY DEF q
    <3>5. QED
      BY <1>2, <1>6, <2>1, <3>2, <3>3, <3>4, TranscriptHeld
  <2>5. x.clean => ScenesKept(media, evidence')
    <3>1. x.clean => ScenesKept(media, evidence)
      BY <1>5, <1>8, Zenon DEF AsrPhase
    <3>2. ScenesKept(media, evidence) => ScenesKept(media, evidence')
      BY <1>2, KeptGrows
    <3>3. QED
      BY <3>1, <3>2, Zenon
  <2>6. BehindTracks(media, x, evidence', sourceRows, 0)
    <3>1. x.clean => ScenesKept(media, evidence') /\ TranscriptsKept(media, evidence', x.by)
      BY <2>4, <2>5, Zenon
    <3>2. QED
      BY <3>1, BehindStarts
  <2>7. x.track \in 1..(Tracks(media) + 1) /\ x.track - 1 = 0
    BY <1>6, <2>1, <2>2, TracksCount
  <2>8. TrackPhase(media, x, evidence', sourceRows)
    BY <2>1, <2>2, <2>6, <2>7 DEF TrackPhase
  <2>9. QED
    BY <1>5, <2>2, <2>8, Zenon DEF ExecOK
<1>9. ASSUME TrackPhase(media, old, evidence, sourceRows), old.track <= Tracks(media),
             old.source # media.id,
             [id |-> old.source, bytes |-> media.output.subtitles[old.track].bytes] \in sourceRows
      PROVE  ExecOK(media, x, segment, evidence', sourceRows, providers)
  <2> DEFINE t == media.output.subtitles[old.track]
             s == [id |-> old.source, bytes |-> t.bytes]
  <2>1. /\ old.phase = "track" /\ media.kind = "video" /\ old.track \in 1..(Tracks(media) + 1)
        /\ BehindTracks(media, old, evidence, sourceRows, old.track - 1)
    BY <1>9 DEF TrackPhase
  <2>2. Tracks(media) \in Nat /\ old.track \in Nat \ {0} /\ old.track \in 1..Tracks(media)
    BY <1>6, <1>9, <2>1, TracksCount
  <2>3. x.phase = "track" /\ x.track = old.track + 1 /\ x.at = "track"
    BY <1>5, <2>1
  <2>4. t \in Range(media.output.subtitles)
    BY <1>6, <2>1, <2>2, TracksCount
  <2> HIDE DEF t
  <2>5. t.events \in Nat
    BY <1>6, <2>1, <2>4, MediaConstants
  <2>6. plan = SubtitlePlan(t.events)
    BY <2>1, TrackPlan DEF t
  <2>7. SubtitlePlan(t.events).records \in Seq(SubtitleRows)
    BY <2>5, SubtitlePlanned
  <2>8. \A q \in Range(SubtitlePlan(t.events).records) : q \in SubtitleRows
    BY <2>7, RangeIs
  <2>9. \A q \in Range(SubtitlePlan(t.events).records) : Held(evidence', old.source, q)
    BY <1>2, <1>6, <1>9, <2>1, <2>6, <2>8, EventsHeld
  <2>10. EventsKept(evidence', sourceRows, t)
    <3>1. s \in sourceRows /\ s.bytes = t.bytes /\ s.id = old.source
      BY <1>9 DEF t
    <3> HIDE DEF s
    <3>2. QED
      BY <2>9, <3>1 DEF EventsKept
  <2>11. BehindTracks(media, old, evidence', sourceRows, old.track - 1)
    BY <1>2, <2>1, BehindGrows
  <2>12. BehindTracks(media, old, evidence', sourceRows, old.track)
    BY <2>2, <2>10, <2>11, BehindOneMore DEF t
  <2>13. x.track - 1 = old.track /\ x.track \in 1..(Tracks(media) + 1)
    BY <2>2, <2>3
  <2>14. BehindTracks(media, x, evidence', sourceRows, x.track - 1)
    BY <1>5, <2>12, <2>13, BehindSame
  <2>15. TrackPhase(media, x, evidence', sourceRows)
    BY <2>1, <2>3, <2>13, <2>14 DEF TrackPhase
  <2>16. QED
    BY <1>5, <2>3, <2>15, Zenon DEF ExecOK
<1> HIDE DEF plan
<1>10. ExecOK(media, x, segment, evidence', sourceRows, providers)
  BY <1>3, <1>7, <1>8, <1>9
<1>11. TablesGo(segment, evidence, sourceRows, providers, segment, evidence', sourceRows, providers)
  BY <1>2 DEF TablesGo
<1>12. MediaGood(media, segment, evidence', sourceRows, providers, [mexec EXCEPT ![w] = x], runs, faults)
  BY <1>2, <1>10, <1>11, InvTells, OneExecution DEF MediaInv
<1>13. QED
  BY <1>1, <1>12 DEF RecordPlan, MediaHolds

LEMMA SwallowStep ==
  ASSUME MediaInv, NEW w \in MediaWorkers, Swallow(w) PROVE MediaHolds
<1> DEFINE old == mexec[w]
           x0 == [old EXCEPT !.phase = "asr"]
           x1 == [old EXCEPT !.at = "finish", !.clean = FALSE]
           no == FALSE
           x2 == AfterPlan(x0, no)
           x3 == AfterPlan(old, no)
           Good(x) == ExecOK(media, x, segment, evidence, sourceRows, providers)
<1>1. /\ old.at \in {"decode", "asr", "register", "track"}
      /\ \/ /\ old.at \in {"decode", "track"} \/ (old.at # "asr" /\ old.phase = "main")
            /\ mexec' = [mexec EXCEPT ![w] = x1]
         \/ old.at = "asr" /\ mexec' = [mexec EXCEPT ![w] = x2]
         \/ old.at = "register" /\ old.phase # "main" /\ mexec' = [mexec EXCEPT ![w] = x3]
  <2>1. old.at \in {"decode", "asr", "register", "track"}
    BY DEF Swallow
  <2>2. mexec' = [mexec EXCEPT ![w] =
              IF old.at \in {"decode", "track"} \/ (old.at # "asr" /\ old.phase = "main")
              THEN x1 ELSE AfterPlan(IF old.at = "asr" THEN x0 ELSE old, FALSE)]
    BY Zenon DEF Swallow
  <2>3. CASE old.at \in {"decode", "track"} \/ (old.at # "asr" /\ old.phase = "main")
    <3> HIDE DEF x0, x1
    <3>1. QED
      BY <2>1, <2>2, <2>3
  <2>4. CASE ~(old.at \in {"decode", "track"} \/ (old.at # "asr" /\ old.phase = "main")) /\ old.at = "asr"
    <3>1. mexec' = [mexec EXCEPT ![w] = x2]
      BY <2>2, <2>4, Zenon
    <3>2. QED
      BY <2>1, <2>4, <3>1, Zenon
  <2>5. CASE ~(old.at \in {"decode", "track"} \/ (old.at # "asr" /\ old.phase = "main")) /\ old.at # "asr"
    <3>1. mexec' = [mexec EXCEPT ![w] = x3]
      BY <2>2, <2>5, Zenon
    <3>2. old.at = "register" /\ old.phase # "main"
      BY <2>1, <2>5
    <3>3. QED
      BY <2>1, <3>1, <3>2, Zenon
  <2>6. QED
    BY <2>3, <2>4, <2>5
<1>2. Whole(old) /\ old.phase \in {"main", "asr", "track"} /\ media \in MediaSources
  BY <1>1, InvTells DEF ExecOK, MainPhase, AsrPhase, TrackPhase
<1>3. Good(x1)
  <2>1. Whole(x1) /\ x1.at = "finish" /\ x1.phase = old.phase /\ x1.clean = FALSE
    BY <1>2 DEF Whole
  <2> HIDE DEF x1
  <2>2. QED
    BY <1>2, <2>1, Zenon DEF ExecOK
<1>4. ASSUME old.at = "asr" PROVE Good(x2)
  <2>1. MainPhase(media, old) /\ media.kind = "video"
    BY <1>4, InvTells DEF ExecOK
  <2>2. Whole(x0) /\ x0.phase = "asr" /\ x0.track = 0
    BY <1>2, <2>1 DEF Whole, MainPhase
  <2> HIDE DEF x0, no
  <2>3. /\ Whole(x2) /\ x2.clean = no /\ x2.phase = "track" /\ x2.track = 0 + 1 /\ x2.at = "track"
    BY <2>2, AfterIs
  <2> HIDE DEF x2
  <2>4. BehindTracks(media, x2, evidence, sourceRows, x2.track - 1)
    BY <2>3, Zenon DEF BehindTracks, no
  <2>5. x2.track \in 1..(Tracks(media) + 1)
    BY <1>2, <2>1, <2>3, TracksCount
  <2>6. TrackPhase(media, x2, evidence, sourceRows)
    BY <2>1, <2>3, <2>4, <2>5 DEF TrackPhase
  <2>7. QED
    BY <2>3, <2>6, Zenon DEF ExecOK
<1>5. ASSUME old.at = "register", old.phase # "main" PROVE Good(x3)
  <2>1. \/ AsrPhase(media, old, evidence, providers)
        \/ TrackPhase(media, old, evidence, sourceRows) /\ old.track <= Tracks(media)
    BY <1>5, RegisterTold DEF MainPhase
  <2>2. media.kind = "video"
    BY <2>1 DEF AsrPhase, TrackPhase
  <2>3. Tracks(media) \in Nat /\ old.track \in 0..Tracks(media)
    BY <1>2, <2>1, <2>2, TracksCount DEF AsrPhase, TrackPhase
  <2> HIDE DEF no
  <2>4. /\ Whole(x3) /\ x3.clean = no /\ x3.phase = "track" /\ x3.track = old.track + 1
        /\ x3.at = "track"
    BY <1>2, <1>5, AfterIs
  <2> HIDE DEF x3
  <2>5. BehindTracks(media, x3, evidence, sourceRows, x3.track - 1)
    BY <2>4, Zenon DEF BehindTracks, no
  <2>6. x3.track \in 1..(Tracks(media) + 1)
    BY <2>3, <2>4
  <2>7. TrackPhase(media, x3, evidence, sourceRows)
    BY <2>2, <2>4, <2>5, <2>6 DEF TrackPhase
  <2>8. QED
    BY <2>4, <2>7, Zenon DEF ExecOK
<1>6. faults' \in 0..MaxFaults
  BY InvTells, MediaConstants DEF Swallow
<1> HIDE DEF x1, x2, x3
<1>7. QED
  BY <1>1, <1>3, <1>4, <1>5, <1>6, OneMoves, InvTells DEF Swallow, mediaKept

LEMMA MediaStarts == ASSUME MediaInit PROVE MediaInv
<1>1. mexec \in [MediaWorkers -> {Resting}]
  BY Zenon DEF MediaInit
<1>2. \A w \in MediaWorkers : ExecOK(media, mexec[w], segment, evidence, sourceRows, providers)
  BY <1>1, RestingOK
<1>3. RowsOK(media, sourceRows)
  BY DEF MediaInit, RowsOK
<1>4. /\ SegmentsOK(media, segment, sourceRows, providers)
      /\ EvidenceOK(media, segment, evidence, sourceRows, providers)
  BY DEF MediaInit, SegmentsOK, EvidenceOK
<1>5. providers \in Seq({"reference", "gated", "model"}) /\ providers # <<>>
  <2>1. <<"reference">> \in Seq({"reference", "gated", "model"}) /\ <<"reference">> # <<>>
    OBVIOUS
  <2>2. <<"gated">> \in Seq({"reference", "gated", "model"}) /\ <<"gated">> # <<>>
    OBVIOUS
  <2>3. providers = <<"reference">> \/ providers = <<"gated">>
    BY Zenon DEF MediaInit
  <2>4. QED
    BY <2>1, <2>2, <2>3, Zenon
<1>6. runs \in 0..MaxRuns /\ faults \in 0..MaxFaults /\ media \in MediaSources
  BY MediaConstants DEF MediaInit
<1>7. QED
  BY <1>1, <1>2, <1>3, <1>4, <1>5, <1>6, Zenon DEF MediaInv, MediaGood

LEMMA MediaSteps == ASSUME MediaInv, [MediaNext]_mediaVars PROVE MediaInv'
<1>1. media' = media
  BY DEF MediaNext, mediaVars, mediaOwn, StartExtraction, Decode, TranscribeVideo, FindTrack,
         EnsureTrack, PutMediaSegment, RecordPlan, Swallow, FinishExtraction, MediaCrash,
         UploadSubtitle, ChangeProvider
<1>2. MediaHolds
  <2>1. ASSUME NEW w \in MediaWorkers,
               \/ StartExtraction(w) \/ Decode(w) \/ TranscribeVideo(w) \/ FindTrack(w)
               \/ EnsureTrack(w) \/ PutMediaSegment(w) \/ RecordPlan(w) \/ Swallow(w)
               \/ FinishExtraction(w) \/ MediaCrash(w)
        PROVE  MediaHolds
    BY <2>1, StartStep, DecodeStep, TranscribeStep, FindStep, EnsureStep, PutStep, RecordStep,
       SwallowStep, FinishStep, Zenon
  <2>2. CASE UNCHANGED mediaVars
    <3>1. /\ segment' = segment /\ evidence' = evidence /\ sourceRows' = sourceRows
          /\ providers' = providers /\ mexec' = mexec /\ runs' = runs /\ faults' = faults
      BY <2>2 DEF mediaVars, mediaOwn
    <3>2. QED
      BY <3>1 DEF MediaHolds, MediaInv
  <2>3. QED
    BY <2>1, <2>2, UploadStep, ProviderStep, Zenon DEF MediaNext
<1>3. QED
  BY <1>1, <1>2 DEF MediaHolds, MediaInv

-----------------------------------------------------------------------------
(* What the invariant tells of the properties.                             *)

LEMMA MediaTyped == ASSUME MediaInv PROVE MediaTypeOK
<1>1. ASSUME NEW p, NEW src, PlanFits(media, src, p, sourceRows, providers)
      PROVE  \E x \in sourceRows : x.id = src
  <2>1. [id |-> media.id, bytes |-> media.bytes] \in sourceRows
    BY InvTells DEF RowsOK
  <2>2. CASE src = media.id
    <3>1. [id |-> media.id, bytes |-> media.bytes].id = src
      BY <2>2
    <3>2. QED
      BY <2>1, <3>1
  <2>3. CASE src # media.id
    <3>1. PICK t : [id |-> src, bytes |-> t.bytes] \in sourceRows
      BY <1>1, <2>3 DEF PlanFits
    <3>2. [id |-> src, bytes |-> t.bytes].id = src
      OBVIOUS
    <3>3. QED
      BY <3>1, <3>2
  <2>4. QED
    BY <2>2, <2>3
<1>2. Range(providers) \subseteq {"reference", "gated", "model"}
  BY InvTells, RangeIs
<1>3. \A s \in segment : \E x \in sourceRows : x.id = s.source
  BY <1>1, InvTells DEF SegmentsOK
<1>4. ASSUME NEW r \in evidence
      PROVE  /\ \E x \in sourceRows : x.id = r.source
             /\ r.segment # NoPath => \E s \in segment : s.source = r.source /\ s.path = r.segment
  <2>1. PICK p : PlanFits(media, r.source, p, sourceRows, providers) /\ From(r, p, segment)
    BY InvTells DEF EvidenceOK
  <2>2. QED
    BY <1>1, <2>1 DEF From
<1>5. ASSUME NEW w \in MediaWorkers
      PROVE  /\ mexec[w].at \in {"idle", "decode", "asr", "track", "ensure", "register", "finish"}
             /\ mexec[w].phase \in {"main", "asr", "track"}
  BY InvTells DEF ExecOK, MainPhase, AsrPhase, TrackPhase
<1>6. QED
  BY <1>2, <1>3, <1>4, <1>5, InvTells DEF MediaTypeOK

LEMMA EndedTells ==
  ASSUME MediaInv, NEW w \in MediaWorkers, EndedClean(w)
  PROVE  /\ media.kind = "video" =>
              /\ ScenesKept(media, evidence) /\ TranscriptsKept(media, evidence, mexec[w].by)
              /\ TracksKept(media, evidence, sourceRows, Tracks(media))
         /\ media.kind = "image" => PanelsKept(media, evidence, mexec[w].by)
<1>1. mexec[w].at = "finish" /\ mexec[w].clean
  BY DEF EndedClean
<1>2. /\ media.kind = "video" => BehindTracks(media, mexec[w], evidence, sourceRows, Tracks(media))
      /\ media.kind = "image" => PanelsKept(media, evidence, mexec[w].by)
  BY <1>1, InvTells, Zenon DEF ExecOK
<1>3. QED
  BY <1>1, <1>2, Zenon DEF BehindTracks

LEMMA HeldIs == ASSUME NEW src, NEW q, Held(evidence, src, q) PROVE Holds(src, q.digest, q)
  BY DEF Held, Holds

LEMMA PicturesKept == ASSUME MediaInv PROVE PicturesAreKept
<1> SUFFICES ASSUME NEW w \in MediaWorkers, EndedClean(w)
             PROVE  /\ media.kind = "video" =>
                         \A p \in Range(VideoRecords(media.output)) :
                           p.locator.path # P("file", <<1>>) => Holds(media.id, p.digest, p)
                    /\ media.kind = "image" =>
                         \A p \in Range(RasterPlan(media.output, mexec[w].by).records) :
                           Holds(media.id, p.digest, p)
  BY DEF PicturesAreKept
<1>1. QED
  BY EndedTells, HeldIs DEF ScenesKept, PanelsKept, FileRow

LEMMA TracksKeptWhole == ASSUME MediaInv PROVE TracksComplete
<1> SUFFICES ASSUME NEW w \in MediaWorkers, EndedClean(w), media.kind = "video",
                    NEW i \in DOMAIN media.output.subtitles,
                    NEW t, t = media.output.subtitles[i], t.text
             PROVE  \E s \in Holding(t.bytes) :
                      \A p \in Range(SubtitlePlan(t.events).records) : Holds(s.id, p.digest, p)
  BY Zenon DEF TracksComplete
<1>1. i \in 1..Tracks(media)
  BY TracksCount, InvTells
<1>2. EventsKept(evidence, sourceRows, t)
  BY <1>1, EndedTells DEF TracksKept
<1>3. PICK s \in sourceRows : /\ s.bytes = t.bytes
                              /\ \A q \in Range(SubtitlePlan(t.events).records) : Held(evidence, s.id, q)
  BY <1>2, Zenon DEF EventsKept
<1>4. s \in Holding(t.bytes)
  BY <1>3 DEF Holding
<1>5. QED
  BY <1>3, <1>4, HeldIs

LEMMA RowsAreFrom ==
  ASSUME MediaInv, NEW r \in evidence, media.kind = "video"
  PROVE  /\ r.kind = "subtitle_event" => r.source # media.id
         /\ r.kind = "audio_interval" => r.content \in Range(providers)
<1>1. PICK p : PlanFits(media, r.source, p, sourceRows, providers) /\ From(r, p, segment)
  BY InvTells DEF EvidenceOK
<1>2. PICK x \in Range(p.records) : r.kind = x.kind /\ r.content = x.content
  BY <1>1 DEF From
<1>3. CASE r.source = media.id
  BY <1>1, <1>2, <1>3, PlanTells, InvTells DEF Engines
<1>4. CASE r.source # media.id
  <2>1. x \in SubtitleRows
    BY <1>1, <1>2, <1>4, PlanTells, InvTells
  <2>2. x.kind \in {"metadata", "subtitle_event"}
    BY <2>1, SubtitleRowsTell
  <2>3. QED
    BY <1>2, <1>4, <2>2
<1>5. QED
  BY <1>3, <1>4

LEMMA OneSource == ASSUME MediaInv PROVE OneSourcePerTrack
<1>1. \A s, t \in sourceRows : s.bytes = t.bytes => s = t
  BY InvTells DEF RowsOK
<1>2. QED
  BY <1>1, RowsAreFrom DEF OneSourcePerTrack

LEMMA RerunsRecord == ASSUME MediaInv PROVE RerunRecordsItsEngine
  BY EndedTells, Zenon DEF RerunRecordsItsEngine, TranscriptsKept

LEMMA EvidenceLinked == ASSUME MediaInv PROVE EvidenceIsLinked
<1> SUFFICES ASSUME NEW r \in evidence, NEW s \in segment,
                    s.source = r.source, s.path = r.locator.path, s.modality = r.locator.stream
             PROVE  r.segment = s.path
  BY DEF EvidenceIsLinked
<1>1. PICK p : PlanFits(media, r.source, p, sourceRows, providers) /\ From(r, p, segment)
  BY InvTells DEF EvidenceOK
<1>2. PICK q : /\ PlanFits(media, r.source, q, sourceRows, providers)
               /\ s.modality = q.modality /\ s.path \in Range(q.segments)
  BY InvTells DEF SegmentsOK
<1>3. PICK x \in Range(p.records) :
        /\ r.locator = x.locator
        /\ (x.locator.stream = p.modality /\ x.locator.path \in Range(p.segments))
             => r.segment = r.locator.path
  BY <1>1 DEF From
<1>4. x.locator.stream \in {p.modality, "none"}
  BY <1>1, InvTells, PlanTells
<1>5. q.modality # "none"
  <2>1. q.modality \in {"video", "audio", "image", "subtitle"}
    BY <1>2, InvTells, PlanTells
  <2>2. QED
    BY <2>1
<1>6. p.modality = q.modality
  BY <1>2, <1>3, <1>4, <1>5
<1>7. p.segments = q.segments
  BY <1>1, <1>2, <1>6, InvTells, SameSegments
<1>8. QED
  BY <1>2, <1>3, <1>6, <1>7

(* When the stage of a media source commits without a swallowed error its  *)
(* evidence is whole (of transcripts: those of a video), however           *)
(* executions, crashes, other clients' uploads and changes of the engine   *)
(* interleave (production.py).                                             *)
THEOREM MediaStagesAreWhole == MediaSpec => []MediaIsWhole
<1>1. MediaInv => MediaIsWhole
  BY MediaTyped, PicturesKept, TracksKeptWhole, OneSource, RowsAreFrom, RerunsRecord, EvidenceLinked
  DEF MediaIsWhole, TranscriptsAreHonest
<1>2. MediaInit => MediaInv
  BY MediaStarts
<1>3. MediaInv /\ [MediaNext]_mediaVars => MediaInv'
  BY MediaSteps
<1>4. QED
  BY <1>1, <1>2, <1>3, PTL DEF MediaSpec
===============================================================================

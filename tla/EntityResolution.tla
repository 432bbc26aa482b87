--------------------------- MODULE EntityResolution ---------------------------
(***************************************************************************)
(* ENTITY_RESOLUTION: from the mentions of one source to canonical          *)
(* identities.  The stage (jobs/production.py) reads the committed mention  *)
(* evidence and the seeds earlier generations left behind, the pure service *)
(* (resolution/service.py) clusters them, and the resulting commands are    *)
(* applied one ledger transaction at a time (resolution/resolution.py),     *)
(* each folded into the CANONICAL_IDENTITY row of reducer.py.               *)
(*                                                                          *)
(* A mention is a number (its id, in id order) with a profile: its surface  *)
(* name, structural locator, context digest, the name it is a declared      *)
(* alias of, and whether its confidence state is AMBIGUOUS.  Names are      *)
(* single tokens, so the token and form similarities coincide.  A canonical *)
(* ref is its anchor: the label and the evidence tokens that are hashed.    *)
(* All sources belong to one work.                                          *)
(***************************************************************************)
EXTENDS Integers, Sequences, FiniteSets, SequencesExt

CONSTANTS
  MentionIds,      \* mention ids, numbers
  Corpora,         \* profiles the mentions may have: functions on MentionIds
  MaxUserActions,  \* bound on alignments, confirmations, locks, invalidations
  MaxStageRuns     \* bound on the stage runs that are started

\* The seed of a mention without one: it names no evidence.
NoCanon == [label |-> "", tokens |-> {}]

ASSUME ResConstants == MentionIds \subseteq Nat /\ IsFiniteSet(MentionIds)

VARIABLES
  profile,     \* the corpus at hand
  extracted,   \* mentions whose evidence STRUCTURAL_ANALYSIS has committed
  identity,    \* CANONICAL_IDENTITY rows: canonical ref -> row
  keys,        \* idempotency keys in the ledger
  aliasOf,     \* CANONICAL_ENTITY rows of alias mentions: mention -> ref
  mentionRows, \* mention -> the ref of its EntityMentioned event, NoCanon if
               \* the row was only recorded for review
  equivalent,  \* accepted (EQUIVALENT / CONTINUITY) alignments between refs
  separated,   \* reviewable CORRESPONDENCE alignments between refs
  locks,       \* locked canonical refs
  queue,       \* source -> commands its running stage has still to apply
  undisturbed, \* ghost: sources whose latest run nothing else has overlapped
               \* or followed
  userActions, stageRuns

identityVars == <<identity, keys, aliasOf, mentionRows>>
resVars == <<profile, extracted, identityVars, equivalent, separated, locks,
             queue, undisturbed, userActions, stageRuns>>

SourcesOf(p) == {p[m].src : m \in MentionIds}
ResSources == SourcesOf(profile)
MentionsOf(s) == {m \in extracted : profile[m].src = s}

-----------------------------------------------------------------------------
(* Candidate generation: the link score in hundredths.  Mentions that share *)
(* no form stay under the candidate floor, whatever block surfaced them.    *)

FormSet(m) == {profile[m].name} \cup ({profile[m].alias} \ {""})

LinkScore(m, n, seed) ==
  (70 * Cardinality(FormSet(m) \cap FormSet(n)))
     \div Cardinality(FormSet(m) \cup FormSet(n))
  + 5 + (IF seed[m] # NoCanon /\ seed[m] = seed[n] THEN 10 ELSE 0)

CandidateFloor == 25
ResolveFloor == 50

HitsFor(m, here, seed) == {n \in here \ {m} : LinkScore(m, n, seed) >= CandidateFloor}

(* The members of a set, each once, none after one it comes before. *)
InOrder(S, before) ==
  CHOOSE s \in [1..Cardinality(S) -> S] :
    /\ Range(s) = S
    /\ \A i, j \in DOMAIN s : i < j => <<s[j], s[i]>> \notin before
ById(S) == InOrder(S, {p \in S \X S : p[1] < p[2]})
ByScore(m, S, seed) ==
  InOrder(S, {p \in S \X S : \/ LinkScore(m, p[1], seed) > LinkScore(m, p[2], seed)
                             \/ /\ LinkScore(m, p[1], seed) = LinkScore(m, p[2], seed)
                                /\ p[1] < p[2]})

(* A candidate stands for its seed, and a seed for its first mention. *)
CandidateTarget(n, here, seed) ==
  IF seed[n] = NoCanon THEN n ELSE Min({k \in here : seed[k] = seed[n]})

(* At one structural position only identical content is co-reference. *)
CoincidentNoSharedContent(m, n) ==
  /\ profile[m].loc # "" /\ profile[m].loc = profile[n].loc
  /\ ~(profile[m].ctx # "" /\ profile[m].ctx = profile[n].ctx)

-----------------------------------------------------------------------------
(* Clustering.  A partition maps every mention to its component. *)

SeedsIn(comp, seed) == {seed[m] : m \in comp} \ {NoCanon}

Join(part, seed, a, b) ==
  LET both == part[a] \cup part[b]
  IN  IF \E r, q \in SeedsIn(both, seed) : r # q THEN part
      ELSE [m \in DOMAIN part |-> IF m \in both THEN both ELSE part[m]]

JoinAll(part, seed, pairs) ==
  LET joined[i \in 0..Len(pairs)] ==
        IF i = 0 THEN part ELSE Join(joined[i - 1], seed, pairs[i][1], pairs[i][2])
  IN  joined[Len(pairs)]

StrongHits(m, here, seed) ==
  {n \in HitsFor(m, here, seed) :
     /\ LinkScore(m, n, seed) >= ResolveFloor
     /\ ~CoincidentNoSharedContent(m, CandidateTarget(n, here, seed))}

StrongLinks(m, here, seed) ==
  LET hits == ByScore(m, StrongHits(m, here, seed), seed)
  IN  [i \in DOMAIN hits |-> <<m, CandidateTarget(hits[i], here, seed)>>]

(* A declared alias joins the first real mention of the name it stands for. *)
RealMentions(m, here) ==
  {n \in here \ {m} : profile[n].alias = "" /\ profile[n].name = profile[m].alias}

AliasLinks(here) ==
  LET aliases == ById({m \in here : profile[m].alias # "" /\ RealMentions(m, here) # {}})
  IN  [i \in DOMAIN aliases |-> <<aliases[i], Min(RealMentions(aliases[i], here))>>]

Components(here, seed) ==
  LET ids    == ById(here)
      strong == FlattenSeq([i \in DOMAIN ids |-> StrongLinks(ids[i], here, seed)])
      part   == JoinAll([m \in here |-> {m}], seed, strong \o AliasLinks(here))
  IN  {part[m] : m \in here}

-----------------------------------------------------------------------------
(* What a component becomes. *)

CanonicalLabel(comp) ==
  LET real == {m \in comp : profile[m].alias = ""}
      pool == IF real # {} THEN real ELSE comp
      longest == Max({Len(profile[m].name) : m \in pool})
  IN  profile[Max({m \in pool : Len(profile[m].name) = longest})].name

EvidenceTokens(m) ==
  LET held == (IF profile[m].loc = "" THEN {} ELSE {<<"loc", profile[m].loc>>})
         \cup (IF profile[m].ctx = "" THEN {} ELSE {<<"ctx", profile[m].ctx>>})
  IN  IF held # {} THEN held ELSE {<<"text", profile[m].name>>}

EvidenceRef(comp) == [label  |-> CanonicalLabel(comp),
                      tokens |-> UNION {EvidenceTokens(m) : m \in comp}]

SeedOf(comp, seed) ==
  IF SeedsIn(comp, seed) = {} THEN NoCanon ELSE CHOOSE r \in SeedsIn(comp, seed) : TRUE

RefOf(comp, seed) ==
  IF SeedOf(comp, seed) = NoCanon THEN EvidenceRef(comp) ELSE SeedOf(comp, seed)

Collided(comp, comps, seed) ==
  /\ SeedOf(comp, seed) = NoCanon
  /\ \E other \in comps \ {comp} : /\ SeedOf(other, seed) = NoCanon
                                   /\ EvidenceRef(other) = EvidenceRef(comp)

(* A lone unseeded mention that is ambiguous, or whose candidates name two  *)
(* existing canonicals, is kept for review.                                 *)
StaysUnresolved(comp, here, seed) ==
  \E m \in comp :
     /\ comp = {m} /\ seed[m] = NoCanon
     /\ \/ profile[m].ambiguous
        \/ Cardinality({seed[n] : n \in HitsFor(m, here, seed)} \ {NoCanon}) > 1

ResolvedComponents(here, seed) ==
  LET comps == Components(here, seed)
  IN  {c \in comps : ~StaysUnresolved(c, here, seed) /\ ~Collided(c, comps, seed)}

IdentityMeta(comp, s) ==
  [label   |-> CanonicalLabel(comp),
   aliases |-> {profile[m].name : m \in comp} \ {CanonicalLabel(comp)},
   support |-> comp, sources |-> {s}]

ComponentCommands(comp, s, seed) ==
  LET ref == RefOf(comp, seed)
      perMember(m) ==
        <<[kind |-> "MENTION", mention |-> m, ref |-> ref]>>
        \o IF m = Min(comp) \/ profile[m].name = CanonicalLabel(comp) THEN <<>>
           ELSE <<[kind |-> "ALIAS", mention |-> m, ref |-> ref]>>
      members == ById(comp)
  IN  <<[kind |-> "ESTABLISH", ref |-> ref, meta |-> IdentityMeta(comp, s),
         status |-> IF SeedOf(comp, seed) = NoCanon THEN "PROBABLE" ELSE "CONFIRMED"]>>
      \o FlattenSeq([i \in DOMAIN members |-> perMember(members[i])])

ReviewMentions(here, seed) == here \ UNION ResolvedComponents(here, seed)

(* _apply_resolution: the rows kept for review first, then every command,   *)
(* new components before seeded ones.                                       *)
BatchCommands(s, here, seed) ==
  LET resolved == ResolvedComponents(here, seed)
      review   == ById(ReviewMentions(here, seed))
      ordered  == InOrder(resolved, {p \in resolved \X resolved :
                    \/ SeedOf(p[1], seed) = NoCanon /\ SeedOf(p[2], seed) # NoCanon
                    \/ /\ SeedOf(p[1], seed) = NoCanon <=> SeedOf(p[2], seed) = NoCanon
                       /\ Min(p[1]) < Min(p[2])})
  IN  [i \in DOMAIN review |-> [kind |-> "REVIEW", mention |-> review[i]]]
      \o FlattenSeq([i \in DOMAIN ordered |-> ComponentCommands(ordered[i], s, seed)])

-----------------------------------------------------------------------------
(* The seeds a run reads. *)

ActiveRefs == {r \in DOMAIN identity : identity[r].status # "INVALIDATED"}

(* _existing_canonical_assignments reads the rows in no stated order, so a  *)
(* mention two identities support gets either.                              *)
CommittedSeeds(here) ==
  {f \in [here -> ActiveRefs \cup {NoCanon}] :
     \A m \in here :
        LET owners == {r \in ActiveRefs : m \in identity[r].support}
        IN  IF owners = {} THEN f[m] = NoCanon ELSE f[m] \in owners}

(* _accepted_correspondence: the identities an accepted alignment connects  *)
(* share one target, their least ref.  Refs are digests, so their order is  *)
(* an arbitrary one: the model's is the order of creation.                  *)
Reach(r) ==
  LET grow[i \in 0..Cardinality(DOMAIN identity)] ==
        IF i = 0 THEN {r}
        ELSE grow[i - 1] \cup {q \in DOMAIN identity :
                                 \E x \in grow[i - 1] : {x, q} \in equivalent}
  IN  grow[Cardinality(DOMAIN identity)]

\* Mutant: reviewable same-name records are followed as well.
ReachAnyAlignment(r) ==
  LET grow[i \in 0..Cardinality(DOMAIN identity)] ==
        IF i = 0 THEN {r}
        ELSE grow[i - 1] \cup {q \in DOMAIN identity :
               \E x \in grow[i - 1] : {x, q} \in equivalent \cup separated}
  IN  grow[Cardinality(DOMAIN identity)]

\* Mutant: see ReachAnyAlignment.
JoinedByName(r) ==
  CHOOSE q \in ReachAnyAlignment(r) :
    \A x \in ReachAnyAlignment(r) : identity[q].born <= identity[x].born

AuthoritativeRef(r) ==
  CHOOSE q \in Reach(r) : \A x \in Reach(r) : identity[q].born <= identity[x].born

(* build: correspondence overrides the committed assignment, human support  *)
(* overrides both (it re-reads the committed assignments).                  *)
UserHeld(r) == identity[r].authority = "USER_OVERRIDE"

BuiltSeeds(f) ==
  [m \in DOMAIN f |-> IF f[m] = NoCanon \/ UserHeld(f[m]) THEN f[m]
                      ELSE AuthoritativeRef(f[m])]

-----------------------------------------------------------------------------
(* The commands' transactions. *)

\* Mutant: the key of an establishment names the run that derived it.
KeyPerRun(cmd) ==
  CASE cmd.kind = "ESTABLISH" -> <<"establish", cmd.ref, cmd.meta, stageRuns>>
    [] cmd.kind = "MENTION"   -> <<"mention", cmd.mention>>
    [] cmd.kind = "ALIAS"     -> <<"alias", cmd.mention, cmd.ref>>

ResKey(cmd) ==
  CASE cmd.kind = "ESTABLISH" -> <<"establish", cmd.ref, cmd.meta>>
    [] cmd.kind = "MENTION"   -> <<"mention", cmd.mention>>
    [] cmd.kind = "ALIAS"     -> <<"alias", cmd.mention, cmd.ref>>

NewIdentity(cmd) ==
  [label |-> cmd.meta.label, aliases |-> cmd.meta.aliases,
   support |-> cmd.meta.support, sources |-> cmd.meta.sources,
   authority |-> "machine", status |-> cmd.status,
   born |-> Cardinality(DOMAIN identity)]

(* _reduce_canonical_identity for an ESTABLISH. *)
Reestablish(row, cmd) ==
  [row EXCEPT !.label = cmd.meta.label, !.aliases = cmd.meta.aliases,
              !.support = cmd.meta.support,
              !.sources = @ \cup cmd.meta.sources,
              !.status = cmd.status]

FoldEstablish(cmd) ==
  IF cmd.ref \in locks THEN identity
  ELSE IF cmd.ref \in DOMAIN identity
  THEN IF UserHeld(cmd.ref) THEN identity
       ELSE [identity EXCEPT ![cmd.ref] = Reestablish(@, cmd)]
  ELSE [r \in DOMAIN identity \cup {cmd.ref} |->
          IF r = cmd.ref THEN NewIdentity(cmd) ELSE identity[r]]

With(f, k, v) == [x \in DOMAIN f \cup {k} |-> IF x = k THEN v ELSE f[x]]

RecordOnce(f, k, v) == IF k \in DOMAIN f THEN f ELSE With(f, k, v)

(* The mention row is inserted by the side effect even when the event was a *)
(* duplicate; the first row stays.                                          *)
CommitCommand(cmd) ==
  /\ keys' = keys \cup {ResKey(cmd)}
  /\ identity' = IF cmd.kind = "ESTABLISH" /\ ResKey(cmd) \notin keys
                 THEN FoldEstablish(cmd) ELSE identity
  /\ aliasOf' = IF cmd.kind = "ALIAS" /\ ResKey(cmd) \notin keys
                THEN With(aliasOf, cmd.mention, cmd.ref) ELSE aliasOf
  /\ mentionRows' =
       IF cmd.kind # "MENTION" THEN mentionRows
       ELSE IF ResKey(cmd) \notin keys THEN With(mentionRows, cmd.mention, cmd.ref)
       ELSE RecordOnce(mentionRows, cmd.mention, cmd.ref)

-----------------------------------------------------------------------------
ResInit ==
  /\ profile \in Corpora
  /\ extracted = {} /\ identity = <<>> /\ keys = {}
  /\ aliasOf = <<>> /\ mentionRows = <<>>
  /\ equivalent = {} /\ separated = {} /\ locks = {}
  /\ queue = [s \in SourcesOf(profile) |-> <<>>]
  /\ undisturbed = {} /\ userActions = 0 /\ stageRuns = 0

(* STRUCTURAL_ANALYSIS commits one more piece of mention evidence. *)
Extract(m) ==
  /\ m \notin extracted
  /\ extracted' = extracted \cup {m}
  /\ undisturbed' = undisturbed \ {profile[m].src}
  /\ UNCHANGED <<profile, identityVars, equivalent, separated, locks, queue,
                 userActions, stageRuns>>

BeginResolution(s) ==
  /\ queue[s] = <<>> /\ MentionsOf(s) # {} /\ stageRuns < MaxStageRuns
  /\ stageRuns' = stageRuns + 1
  /\ \E f \in CommittedSeeds(MentionsOf(s)) :
       queue' = [queue EXCEPT ![s] = BatchCommands(s, MentionsOf(s), BuiltSeeds(f))]
  /\ undisturbed' = undisturbed \cup {s}
  /\ UNCHANGED <<profile, extracted, identityVars, equivalent, separated, locks,
                 userActions>>

ApplyCommand(s) ==
  /\ queue[s] # <<>>
  /\ LET cmd == Head(queue[s])
     IN  IF cmd.kind = "REVIEW"
         THEN /\ mentionRows' = RecordOnce(mentionRows, cmd.mention, NoCanon)
              /\ UNCHANGED <<identity, keys, aliasOf>>
         ELSE CommitCommand(cmd)
  /\ queue' = [queue EXCEPT ![s] = Tail(@)]
  /\ undisturbed' = undisturbed \cap {s}
  /\ UNCHANGED <<profile, extracted, equivalent, separated, locks, userActions, stageRuns>>

(* The worker dies between two commands; the stage will be run again. *)
CrashResolution(s) ==
  /\ queue[s] # <<>>
  /\ queue' = [queue EXCEPT ![s] = <<>>]
  /\ undisturbed' = undisturbed \ {s}
  /\ UNCHANGED <<profile, extracted, identityVars, equivalent, separated, locks,
                 userActions, stageRuns>>

UserMay == userActions < MaxUserActions /\ userActions' = userActions + 1

(* An EQUIVALENT alignment recorded through the API. *)
AlignIdentities(a, b) ==
  /\ UserMay /\ a # b /\ {a, b} \notin equivalent
  /\ equivalent' = equivalent \cup {{a, b}} /\ undisturbed' = {}
  /\ UNCHANGED <<profile, extracted, identityVars, separated, locks, queue, stageRuns>>

(* A JSON override of the label merges over the row. *)
ConfirmIdentity(r) ==
  /\ UserMay /\ r \notin locks /\ ~UserHeld(r)
  /\ identity' = [identity EXCEPT ![r].authority = "USER_OVERRIDE",
                                  ![r].status = "USER_CONFIRMED",
                                  ![r].label = "confirmed"]
  /\ undisturbed' = {}
  /\ UNCHANGED <<profile, extracted, keys, aliasOf, mentionRows, equivalent,
                 separated, locks, queue, stageRuns>>

InvalidateIdentity(r) ==
  /\ UserMay /\ r \notin locks /\ ~UserHeld(r) /\ r \in ActiveRefs
  /\ identity' = [identity EXCEPT ![r].status = "INVALIDATED"]
  /\ undisturbed' = {}
  /\ UNCHANGED <<profile, extracted, keys, aliasOf, mentionRows, equivalent,
                 separated, locks, queue, stageRuns>>

LockIdentity(r) ==
  /\ UserMay /\ locks' = locks \cup {r} /\ r \notin locks /\ undisturbed' = {}
  /\ UNCHANGED <<profile, extracted, identityVars, equivalent, separated, queue, stageRuns>>

(* CROSS_SOURCE_ALIGNMENT surfaces same-label identities for review. *)
RecordCorrespondence ==
  /\ separated' = separated \cup
       UNION {{{a, b} : b \in {q \in ActiveRefs \ {a} :
                                 identity[q].label = identity[a].label}} : a \in ActiveRefs}
  /\ separated' # separated
  /\ UNCHANGED <<profile, extracted, identityVars, equivalent, locks, queue,
                 undisturbed, userActions, stageRuns>>

ResNext ==
  \/ \E m \in MentionIds : Extract(m)
  \/ \E s \in ResSources : BeginResolution(s)
  \/ \E s \in ResSources : ApplyCommand(s)
  \/ \E s \in ResSources : CrashResolution(s)
  \/ \E a, b \in DOMAIN identity : AlignIdentities(a, b)
  \/ \E r \in DOMAIN identity : ConfirmIdentity(r)
  \/ \E r \in DOMAIN identity : InvalidateIdentity(r)
  \/ \E r \in DOMAIN identity : LockIdentity(r)
  \/ RecordCorrespondence

ResSpec == ResInit /\ [][ResNext]_resVars

-----------------------------------------------------------------------------
EstablishesNew(cmd) == cmd.kind = "ESTABLISH" /\ cmd.status = "PROBABLE"

\* Two new components of a batch never establish one canonical ref.
EstablishedOncePerBatch ==
  \A s \in ResSources :
    \A i, j \in DOMAIN queue[s] :
      i # j /\ EstablishesNew(queue[s][i]) /\ EstablishesNew(queue[s][j])
        => queue[s][i].ref # queue[s][j].ref

NothingQueued == {s \in undisturbed : queue[s] = <<>>}

\* While no alignment is accepted, a rerun over the evidence and the identities
\* a completed run left behind appends nothing and reviews nothing new.
RerunConverges ==
  equivalent = {} => \A s \in NothingQueued :
    \A f \in CommittedSeeds(MentionsOf(s)) :
      \A cmd \in Range(BatchCommands(s, MentionsOf(s), BuiltSeeds(f))) :
        IF cmd.kind = "REVIEW" THEN cmd.mention \in DOMAIN mentionRows
        ELSE ResKey(cmd) \in keys

\* A completed run leaves every mention of its source either assigned or
\* reviewable.
NoMentionLost ==
  \A s \in NothingQueued : \A m \in MentionsOf(s) : m \in DOMAIN mentionRows

\* A resolution batch establishes an identity once, a batch that runs again
\* after a death adds nothing, and each mention ends in an identity or in
\* review.
BatchesConverge ==
    /\ EstablishedOncePerBatch
    /\ RerunConverges
    /\ NoMentionLost

\* A mention some identity supports is given to that identity, or to one an
\* accepted alignment connects with it: neither a shared name, nor a record kept
\* for review, nor a cluster it is linked into moves it to another.
SupportedMentionsStay ==
  [][\A s \in ResSources : queue[s] = <<>> =>
      \A cmd \in Range(queue'[s]) : cmd.kind = "ESTABLISH" =>
        \A m \in cmd.meta.support :
          LET owners == {r \in ActiveRefs : m \in identity[r].support}
          IN  owners # {} => \E r \in owners : cmd.ref \in Reach(r)]_resVars

\* No machine step changes an identity a user confirmed, or a locked one.
UserIdentityKept ==
  [][\A r \in DOMAIN identity :
       UserHeld(r) \/ r \in locks => identity'[r] = identity[r]]_resVars

\* An identity keeps every source that ever fed it.
MembershipAccumulates ==
  [][\A r \in DOMAIN identity : identity[r].sources \subseteq identity'[r].sources]_resVars

\* No later command of a stage takes a supported mention from its identity, a
\* decision from its user or a source from the memberships of an identity.
IdentitiesStand ==
    /\ SupportedMentionsStay
    /\ UserIdentityKept
    /\ MembershipAccumulates
==============================================================================

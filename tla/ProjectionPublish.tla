-------------------------- MODULE ProjectionPublish --------------------------
(***************************************************************************)
(* Blue/green generations of one projection (projections/publish.py): a    *)
(* deployer builds a generation in a schema of its own and publishes it,   *)
(* which retires the published one for a grace period; a reaper drops the  *)
(* schemas whose grace has passed; readers look the published schema up    *)
(* and pin the search_path of a pooled connection to it.  Every method is  *)
(* one transaction, except that begin_build reads the next number, publish *)
(* the clock and the reaper its candidates in a step of their own.         *)
(***************************************************************************)
EXTENDS FiniteSets, Integers

CONSTANTS
  Readers,         \* pooled read connections
  Grace,           \* grace_period_seconds, in ticks of the clock
  MaxGenerations,  \* bound: generations built
  MaxClock         \* bound: ticks

ASSUME PublishConstants == Grace \in Nat /\ MaxGenerations \in Nat /\ MaxClock \in Nat

VARIABLES
  gens,      \* rows of projection_generation by number
  schemas,   \* numbers whose schema exists
  clock,
  deployer,  \* what the deploying process is in the middle of
  reaper,    \* numbers the reaper's SELECT returned, still to be dropped
  pinned,    \* [Readers -> number of the schema looked up or pinned, 0 none]
  retiredAt  \* history: <<number, clock>> of each retirement, at the clock
             \* its publish had read

pubVars == <<gens, schemas, clock, deployer, reaper, pinned, retiredAt>>

GenStates == {"BUILDING", "PUBLISHED", "RETIRED", "REAPED"}
NoDeadline == -1
NoDeployment == [pc |-> "idle", gen |-> 0, now |-> 0]
Generation == [state : GenStates, deadline : {NoDeadline} \cup 0..(MaxClock + Grace),
               checkpoint : 0..1]

Numbers == DOMAIN gens
InState(s) == {g \in Numbers : gens[g].state = s}

PubInit ==
  /\ gens = [g \in {} |-> [state |-> "BUILDING", deadline |-> NoDeadline, checkpoint |-> 0]]
  /\ schemas = {} /\ clock = 0 /\ reaper = {}
  /\ deployer = NoDeployment
  /\ pinned = [r \in Readers |-> 0] /\ retiredAt = {}

\* coalesce(max(generation), 0) + 1; also of generations that were reaped.
NextGeneration == Cardinality(Numbers) + 1

\* _next_generation, in a transaction of its own.
PickNumber ==
  /\ deployer.pc = "idle" /\ Cardinality(Numbers) < MaxGenerations
  /\ deployer' = [deployer EXCEPT !.pc = "picked", !.gen = NextGeneration]
  /\ UNCHANGED <<gens, schemas, clock, reaper, pinned, retiredAt>>

\* begin_build: the schema, its tables and the BUILDING row.
BeginBuild ==
  /\ deployer.pc = "picked"
  /\ gens' = [g \in Numbers \cup {deployer.gen} |->
                IF g = deployer.gen
                THEN [state |-> "BUILDING", deadline |-> NoDeadline, checkpoint |-> 0]
                ELSE gens[g]]
  /\ schemas' = schemas \cup {deployer.gen}
  /\ deployer' = [deployer EXCEPT !.pc = "building"]
  /\ UNCHANGED <<clock, reaper, pinned, retiredAt>>

MarkBuilt ==
  /\ deployer.pc = "building"
  /\ gens' = [gens EXCEPT ![deployer.gen].checkpoint = 1]
  /\ deployer' = [deployer EXCEPT !.pc = "built"]
  /\ UNCHANGED <<schemas, clock, reaper, pinned, retiredAt>>

\* A build that is given up, or whose publish failed: drop_generation.
DropGeneration ==
  /\ deployer.pc \in {"building", "built", "publishing"} /\ deployer.gen = Cardinality(Numbers)
  /\ gens' = [g \in Numbers \ {deployer.gen} |-> gens[g]]
  /\ schemas' = schemas \ {deployer.gen}
  /\ deployer' = NoDeployment
  /\ UNCHANGED <<clock, reaper, pinned, retiredAt>>

\* publish computes now and the deadline before it begins its transaction.
StartPublish ==
  /\ deployer.pc = "built"
  /\ deployer' = [deployer EXCEPT !.pc = "publishing", !.now = clock]
  /\ UNCHANGED <<gens, schemas, clock, reaper, pinned, retiredAt>>

\* Mutant: the prior generation is retired with no time left for its readers.
RetireNow(g) == [gens[g] EXCEPT !.state = "RETIRED", !.deadline = deployer.now]
Retire(g) == [gens[g] EXCEPT !.state = "RETIRED", !.deadline = deployer.now + Grace]

Published(g) ==
  IF g = deployer.gen
  THEN [gens[g] EXCEPT !.state = "PUBLISHED", !.deadline = NoDeadline]
  ELSE IF gens[g].state = "PUBLISHED" THEN Retire(g) ELSE gens[g]

\* Its transaction: every published row is retired, this one is marked published.
Publish ==
  /\ deployer.pc = "publishing"
  /\ gens' = [g \in Numbers |-> Published(g)]
  /\ deployer' = NoDeployment
  /\ retiredAt' = retiredAt \cup {<<g, deployer.now>> : g \in InState("PUBLISHED")}
  /\ UNCHANGED <<schemas, clock, reaper, pinned>>

ExpiredRows == {g \in InState("RETIRED") : gens[g].deadline <= clock}

\* reap_expired: the SELECT, then each schema is dropped and its row marked
\* without another look at it; one transaction commits them together.
ReapSelect ==
  /\ reaper = {} /\ ExpiredRows # {}
  /\ reaper' = ExpiredRows
  /\ UNCHANGED <<gens, schemas, clock, deployer, pinned, retiredAt>>

ReapCommit ==
  /\ reaper # {}
  /\ gens' = [g \in Numbers |->
                IF g \in reaper THEN [gens[g] EXCEPT !.state = "REAPED", !.deadline = NoDeadline]
                                ELSE gens[g]]
  /\ schemas' = schemas \ reaper
  /\ reaper' = {}
  /\ UNCHANGED <<clock, deployer, pinned, retiredAt>>

CurrentGeneration == InState("PUBLISHED")

\* current_generation: the newest published number; the search_path is set to
\* its schema after that look-up, and stays until the pool hands it out again.
PinSearchPath(r) ==
  /\ CurrentGeneration # {}
  /\ pinned' = [pinned EXCEPT ![r] =
                  CHOOSE g \in CurrentGeneration : \A h \in CurrentGeneration : h <= g]
  /\ UNCHANGED <<gens, schemas, clock, deployer, reaper, retiredAt>>

CheckIn(r) ==
  /\ pinned[r] # 0
  /\ pinned' = [pinned EXCEPT ![r] = 0]
  /\ UNCHANGED <<gens, schemas, clock, deployer, reaper, retiredAt>>

Tick ==
  /\ clock < MaxClock
  /\ clock' = clock + 1
  /\ UNCHANGED <<gens, schemas, deployer, reaper, pinned, retiredAt>>

PubNext ==
  \/ PickNumber \/ BeginBuild \/ MarkBuilt \/ DropGeneration
  \/ StartPublish \/ Publish
  \/ ReapSelect \/ ReapCommit \/ Tick
  \/ \E r \in Readers : PinSearchPath(r) \/ CheckIn(r)

PubSpec == PubInit /\ [][PubNext]_pubVars

-----------------------------------------------------------------------------

\* Once a generation was published one always is, exactly one, fully built and
\* with its schema in place: a reader that asks at any moment of a deployment,
\* of an abandoned build or of a reap gets a complete index.
OnePublished ==
  /\ (\E g \in Numbers : gens[g].state \in {"PUBLISHED", "RETIRED", "REAPED"}) =>
       Cardinality(InState("PUBLISHED")) = 1
  /\ \A g \in InState("PUBLISHED") : g \in schemas /\ gens[g].checkpoint = 1

\* A reader that is pinned to a schema keeps it for the grace period: it never
\* reads a generation that was not published, and its schema is gone only when
\* Grace ticks have passed since the call that published the next one began.
\* (Not since its commit: the time the transaction takes comes off the grace.)
PinnedReadersHaveGrace ==
  \A r \in Readers : pinned[r] # 0 =>
    /\ pinned[r] \in Numbers /\ gens[pinned[r]].state # "BUILDING"
    /\ pinned[r] \notin schemas =>
         \E t \in 0..clock - Grace : <<pinned[r], t>> \in retiredAt

\* Readers always find one published generation, and the schema they are pinned
\* to outlives its retirement by the grace period.
GenerationsServe ==
    /\ OnePublished
    /\ PinnedReadersHaveGrace
==============================================================================

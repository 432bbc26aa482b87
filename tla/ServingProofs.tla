---------------------------- MODULE ServingProofs ----------------------------
(***************************************************************************)
(* Proofs about the read side: the rights of RebuildRights, the            *)
(* generations of ProjectionPublish and the bucket of RateLimiter, for any *)
(* number of operators, readers, generations and callers, the edges of     *)
(* ActiveEdges for a ledger of any length, the answers of StructuredReads  *)
(* for any rows and graph, the storage root of OcflRoot for any number of  *)
(* starters, the documents of SearchDocuments for any rows and scopes, and *)
(* the pages of EntityReads for any refs and page length.                  *)
(* They share no variable; each part stands alone.                         *)
(***************************************************************************)
EXTENDS RebuildRights, ProjectionPublish, RateLimiter, ActiveEdges, StructuredReads,
        OcflRoot, SearchDocuments, SequenceFacts, FiniteSetTheorems

-----------------------------------------------------------------------------
(* Rebuild rights                                                          *)

RunningCalls == {o \in Operators : rebuild[o].at = "running"}

RightsTyped ==
    rebuild \in [Operators -> [at : {"idle", "acquire", "running"},
                               name : Projections \cup {""}, forced : BOOLEAN]]

\* The rights are counted call by call; two calls never hold the same one.
RightsCounted ==
    /\ active = {rebuild[o].name : o \in RunningCalls}
    /\ \A o, p \in RunningCalls : rebuild[o].name = rebuild[p].name => o = p
    /\ IsFiniteSet(active)
    /\ Cardinality(active) = Cardinality(RunningCalls)
    /\ Cardinality(RunningCalls) <= ConcurrentRebuilds

RightsInv == RightsTyped /\ RightsCounted

LEMMA RunningFinite ==
  IsFiniteSet(RunningCalls) /\ Cardinality(RunningCalls) \in Nat
<1>1. RunningCalls \in SUBSET Operators
  BY DEF RunningCalls
<1>2. IsFiniteSet(RunningCalls)
  BY <1>1, RebuildConstants, FS_Subset
<1> QED BY <1>2, FS_CardinalityType

LEMMA RightsInit == RebuildInit => RightsInv
<1> SUFFICES ASSUME RebuildInit PROVE RightsInv
  OBVIOUS
<1>1. RunningCalls = {} /\ active = {}
  BY DEF RebuildInit, RunningCalls
<1>2. RightsTyped
  BY DEF RebuildInit, RightsTyped
<1>3. Cardinality(RunningCalls) = 0 /\ Cardinality(active) = 0 /\ IsFiniteSet(active)
  BY <1>1, FS_EmptySet
<1>4. RightsCounted
  BY <1>1, <1>3, RebuildConstants DEF RightsCounted
<1> QED BY <1>2, <1>4 DEF RightsInv

(* Only the call moves, and it keeps its name.                             *)
LEMMA CallTurns ==
  ASSUME RightsTyped, NEW o \in Operators, NEW at \in {"idle", "acquire", "running"},
         rebuild' = [rebuild EXCEPT ![o].at = at]
  PROVE  /\ RightsTyped' /\ rebuild'[o].at = at /\ rebuild'[o].name = rebuild[o].name
         /\ \A p \in Operators : p # o => rebuild'[p] = rebuild[p]
BY DEF RightsTyped

LEMMA CallPlaced ==
  ASSUME DOMAIN rebuild = Operators, NEW o \in Operators, NEW at, NEW name, NEW forced,
         rebuild' = [rebuild EXCEPT ![o] = [at |-> at, name |-> name, forced |-> forced]]
  PROVE  rebuild'[o].at = at /\ \A p \in Operators : p # o => rebuild'[p] = rebuild[p]
OBVIOUS

(* Calls that do not hold a right move, nothing else does.                 *)
LEMMA SameRights ==
  ASSUME RightsCounted, UNCHANGED active, RunningCalls' = RunningCalls,
         \A p \in RunningCalls : rebuild'[p] = rebuild[p]
  PROVE  RightsCounted'
BY DEF RightsCounted

LEMMA AskStep ==
  ASSUME RightsInv, NEW o \in Operators, NEW name \in Projections, NEW forced \in BOOLEAN,
         AskRebuild(o, name, forced)
  PROVE  RightsInv'
<1>1. PICK at \in {"idle", "acquire"} :
        rebuild' = [rebuild EXCEPT ![o] = [at |-> at, name |-> name, forced |-> forced]]
  BY DEF AskRebuild
<1>2. RightsTyped'
  BY <1>1 DEF RightsInv, RightsTyped
<1>3. /\ rebuild[o].at = "idle" /\ rebuild'[o].at = at
      /\ \A p \in Operators : p # o => rebuild'[p] = rebuild[p]
  <2>1. DOMAIN rebuild = Operators
    BY DEF RightsInv, RightsTyped
  <2>2. rebuild'[o].at = at /\ \A p \in Operators : p # o => rebuild'[p] = rebuild[p]
    BY <1>1, <2>1, CallPlaced
  <2> QED BY <2>2 DEF AskRebuild
<1>4. RunningCalls' = RunningCalls /\ \A p \in RunningCalls : rebuild'[p] = rebuild[p]
  BY <1>3 DEF RunningCalls
<1>5. UNCHANGED active
  BY DEF AskRebuild
<1> QED BY <1>2, <1>4, <1>5, SameRights DEF RightsInv

LEMMA AcquireStep ==
  ASSUME RightsInv, NEW o \in Operators, AcquireRight(o)
  PROVE  RightsInv'
<1> DEFINE name == rebuild[o].name
<1>1. CASE ~MayStart(name)
  <2>1. rebuild' = [rebuild EXCEPT ![o].at = "idle"] /\ UNCHANGED active
        /\ rebuild[o].at = "acquire"
    BY <1>1 DEF AcquireRight
  <2>2. /\ RightsTyped' /\ rebuild'[o].at = "idle"
        /\ \A p \in Operators : p # o => rebuild'[p] = rebuild[p]
    BY <2>1, CallTurns DEF RightsInv
  <2>3. RunningCalls' = RunningCalls /\ \A p \in RunningCalls : rebuild'[p] = rebuild[p]
    BY <2>1, <2>2 DEF RunningCalls
  <2> QED BY <2>1, <2>2, <2>3, SameRights DEF RightsInv
<1>2. CASE MayStart(name)
  <2>1. /\ rebuild' = [rebuild EXCEPT ![o].at = "running"] /\ active' = active \cup {name}
        /\ rebuild[o].at = "acquire"
    BY <1>2 DEF AcquireRight
  <2>2. Cardinality(active) < ConcurrentRebuilds /\ name \notin active
    BY <1>2 DEF MayStart
  <2>3. /\ RightsTyped' /\ rebuild'[o].at = "running" /\ rebuild'[o].name = name
        /\ \A p \in Operators : p # o => rebuild'[p] = rebuild[p]
    BY <2>1, CallTurns DEF RightsInv
  <2> HIDE DEF name
  <2>4. /\ RunningCalls' = RunningCalls \cup {o} /\ o \notin RunningCalls
        /\ \A p \in RunningCalls : rebuild'[p] = rebuild[p]
    BY <2>1, <2>3 DEF RunningCalls
  <2>5. active' = {rebuild'[p].name : p \in RunningCalls'}
    BY <2>1, <2>3, <2>4 DEF RightsInv, RightsCounted
  <2>6. \A p \in RunningCalls : rebuild'[p].name # name
    BY <2>2, <2>4 DEF RightsInv, RightsCounted
  <2>7. \A p, q \in RunningCalls' : rebuild'[p].name = rebuild'[q].name => p = q
    BY <2>3, <2>4, <2>6 DEF RightsInv, RightsCounted
  <2>8. /\ IsFiniteSet(active') /\ Cardinality(active') = Cardinality(active) + 1
        /\ Cardinality(RunningCalls') = Cardinality(RunningCalls) + 1
    BY <2>1, <2>2, <2>4, RunningFinite, FS_AddElement DEF RightsInv, RightsCounted
  <2>9. /\ Cardinality(active) = Cardinality(RunningCalls)
        /\ Cardinality(RunningCalls') <= ConcurrentRebuilds
    BY <2>2, <2>8, RunningFinite, RebuildConstants DEF RightsInv, RightsCounted
  <2>10. RightsCounted'
    BY <2>5, <2>7, <2>8, <2>9 DEF RightsCounted
  <2> QED BY <2>3, <2>10 DEF RightsInv
<1> QED BY <1>1, <1>2

LEMMA EndStep ==
  ASSUME RightsInv, NEW o \in Operators, NEW outcome, EndRebuild(o, outcome)
  PROVE  RightsInv'
<1> DEFINE name == rebuild[o].name
<1>1. /\ rebuild' = [rebuild EXCEPT ![o].at = "idle"] /\ active' = active \ {name}
      /\ rebuild[o].at = "running"
  BY DEF EndRebuild
<1>2. /\ RightsTyped' /\ rebuild'[o].at = "idle"
      /\ \A p \in Operators : p # o => rebuild'[p] = rebuild[p]
  BY <1>1, CallTurns DEF RightsInv
<1>3. RunningCalls' = RunningCalls \ {o} /\ o \in RunningCalls
      /\ \A p \in RunningCalls' : rebuild'[p] = rebuild[p]
  BY <1>1, <1>2 DEF RunningCalls
<1>4. name \in active /\ \A p \in RunningCalls' : rebuild[p].name # name
  BY <1>3 DEF RightsInv, RightsCounted
<1>5. \A n \in active : n # name => \E p \in RunningCalls' : rebuild[p].name = n
  BY <1>3 DEF RightsInv, RightsCounted
<1>6. \A p \in RunningCalls' : rebuild[p].name \in active
  BY <1>3 DEF RightsInv, RightsCounted
<1> HIDE DEF name
<1>7. active' = {rebuild'[p].name : p \in RunningCalls'}
  BY <1>1, <1>3, <1>4, <1>5, <1>6
<1>8. \A p, q \in RunningCalls' : rebuild'[p].name = rebuild'[q].name => p = q
  BY <1>3 DEF RightsInv, RightsCounted
<1>9. /\ IsFiniteSet(active') /\ Cardinality(active') = Cardinality(active) - 1
      /\ Cardinality(RunningCalls') = Cardinality(RunningCalls) - 1
  BY <1>1, <1>3, <1>4, RunningFinite, FS_RemoveElement DEF RightsInv, RightsCounted
<1>10. /\ Cardinality(active) = Cardinality(RunningCalls)
       /\ Cardinality(RunningCalls') <= ConcurrentRebuilds
  BY <1>9, RunningFinite, RebuildConstants DEF RightsInv, RightsCounted
<1>11. RightsCounted'
  BY <1>7, <1>8, <1>9, <1>10 DEF RightsCounted
<1> QED BY <1>2, <1>11 DEF RightsInv

LEMMA RightsStep ==
  ASSUME RightsInv, [RebuildNext]_rebuildVars
  PROVE  RightsInv'
<1>1. CASE UNCHANGED rebuildVars
  <2>1. RunningCalls' = RunningCalls /\ active' = active /\ rebuild' = rebuild
    BY <1>1 DEF rebuildVars, RunningCalls
  <2> QED BY <2>1, SameRights DEF RightsInv, RightsTyped
<1>2. CASE RebuildNext
  BY <1>2, AskStep, AcquireStep, EndStep DEF RebuildNext
<1> QED BY <1>1, <1>2

(* The right to rebuild belongs to the calls that run, one for a           *)
(* projection and never more than the cap, whatever is refused, paused,    *)
(* poisoned or raised.                                                     *)
THEOREM RightsAreExact == RebuildSpec => []RebuildRightsExact
<1>1. RebuildInit => RightsInv
  BY RightsInit
<1>2. RightsInv /\ [RebuildNext]_rebuildVars => RightsInv'
  BY RightsStep
<1>3. RightsInv => RebuildRightsExact
  BY DEF RightsInv, RightsCounted, RebuildRightsExact, RunningCalls
<1> QED BY <1>1, <1>2, <1>3, PTL DEF RebuildSpec

-----------------------------------------------------------------------------
(* Generations                                                             *)

GenRow == [state : GenStates, deadline : Int, checkpoint : 0..1]
Building == deployer.pc \in {"building", "built", "publishing"}

PubTyped ==
    /\ clock \in Nat
    /\ Cardinality(Numbers) \in Nat /\ Numbers = 1..Cardinality(Numbers)
    /\ gens \in [Numbers -> GenRow]
    /\ deployer \in [pc : {"idle", "picked", "building", "built", "publishing"}, gen : Nat,
                    now : Nat]
    /\ deployer.now <= clock
    /\ pinned \in [Readers -> Nat]

\* The one generation that may be in the making is the last and the deployer's.
InTheMaking ==
    /\ deployer.pc = "picked" => deployer.gen = Cardinality(Numbers) + 1
    /\ Building => /\ deployer.gen = Cardinality(Numbers) /\ deployer.gen \in Numbers
                   /\ gens[deployer.gen].state = "BUILDING" /\ deployer.gen \in schemas
    /\ deployer.pc \in {"built", "publishing"} => gens[deployer.gen].checkpoint = 1
    /\ \A g \in Numbers : gens[g].state = "BUILDING" => Building /\ g = deployer.gen

\* What serves is whole, alone, and there once anything was ever published.
Serving ==
    /\ \A g \in Numbers : gens[g].state = "PUBLISHED" => g \in schemas /\ gens[g].checkpoint = 1
    /\ \A g, h \in Numbers : gens[g].state = "PUBLISHED" /\ gens[h].state = "PUBLISHED" => g = h
    /\ (\E g \in Numbers : gens[g].state # "BUILDING") =>
         \E g \in Numbers : gens[g].state = "PUBLISHED"

\* A retired row carries the deadline of its retirement, and what the reaper
\* selected has passed it: nobody else moves a retired row.
Retiring ==
    /\ \A g \in Numbers : gens[g].state = "RETIRED" =>
         /\ g \in schemas
         /\ \E t \in 0..clock : <<g, t>> \in retiredAt /\ gens[g].deadline = t + Grace
    /\ \A g \in Numbers : gens[g].state = "REAPED" =>
         \E t \in 0..(clock - Grace) : <<g, t>> \in retiredAt
    /\ \A g \in reaper : /\ g \in Numbers /\ gens[g].state = "RETIRED"
                         /\ gens[g].deadline <= clock

PinnedOK ==
    \A r \in Readers : pinned[r] # 0 =>
        pinned[r] \in Numbers /\ gens[pinned[r]].state # "BUILDING"

PubInv == PubTyped /\ InTheMaking /\ Serving /\ Retiring /\ PinnedOK

LEMMA PubInit_Inv == PubInit => PubInv
<1> SUFFICES ASSUME PubInit PROVE PubInv
  OBVIOUS
<1>1. Numbers = {} /\ Cardinality(Numbers) = 0
  BY FS_EmptySet DEF PubInit, Numbers
<1>2. gens \in [Numbers -> GenRow]
  BY <1>1 DEF PubInit, Numbers
<1> QED
  BY <1>1, <1>2 DEF PubInit, NoDeployment, PubInv, PubTyped, InTheMaking, Building, Serving,
     Retiring, PinnedOK

LEMMA NextNumber ==
  ASSUME PubTyped
  PROVE  /\ \A n \in Nat : Cardinality(1..n) = n
         /\ Cardinality(Numbers) + 1 \notin Numbers
         /\ Numbers \cup {Cardinality(Numbers) + 1} = 1..(Cardinality(Numbers) + 1)
         /\ Cardinality(Numbers) # 0 =>
              Numbers \ {Cardinality(Numbers)} = 1..(Cardinality(Numbers) - 1)
<1>1. \A n \in Nat : Cardinality(1..n) = n
  BY FS_Interval
<1> QED BY <1>1 DEF PubTyped

LEMMA BuildStep ==
  ASSUME PubInv, PickNumber \/ BeginBuild \/ MarkBuilt
  PROVE  PubInv'
<1> USE DEF PubInv
<1>1. CASE PickNumber
  <2>1. /\ deployer' = [deployer EXCEPT !.pc = "picked", !.gen = Cardinality(Numbers) + 1] /\ ~Building
        /\ UNCHANGED <<gens, schemas, clock, reaper, pinned, retiredAt>> /\ Numbers' = Numbers
    BY <1>1 DEF PickNumber, NextGeneration, Building, Numbers
  <2>1a. Cardinality(Numbers) + 1 \in Nat
    BY DEF PubTyped
  <2> DEFINE n == Cardinality(Numbers) + 1
  <2>1b. n \in Nat /\ deployer' = [deployer EXCEPT !.pc = "picked", !.gen = n]
    BY <2>1, <2>1a
  <2> HIDE DEF n
  <2>1c. /\ deployer' \in [pc : {"picked"}, gen : Nat, now : Nat]
         /\ deployer'.now = deployer.now
    BY <2>1b DEF PubTyped
  <2>2. PubTyped'
    BY <2>1, <2>1c DEF PubTyped
  <2>3. InTheMaking'
    BY <2>1 DEF InTheMaking, Building, PubTyped
  <2> QED BY <2>1, <2>2, <2>3 DEF Serving, Retiring, PinnedOK
<1>2. CASE BeginBuild
  <2> DEFINE n == deployer.gen
             row == [state |-> "BUILDING", deadline |-> NoDeadline, checkpoint |-> 0]
  <2>1. /\ n = Cardinality(Numbers) + 1 /\ n \in Nat /\ ~Building
        /\ gens' = [g \in Numbers \cup {n} |-> IF g = n THEN row ELSE gens[g]]
        /\ schemas' = schemas \cup {n} /\ deployer' = [deployer EXCEPT !.pc = "building"]
        /\ UNCHANGED <<clock, reaper, pinned, retiredAt>>
    BY <1>2 DEF BeginBuild, Building, InTheMaking, PubTyped
  <2>2. n \notin Numbers /\ Numbers \cup {n} = 1..n /\ Cardinality(1..n) = n
    BY <2>1, NextNumber
  <2>3. row \in GenRow /\ row.state = "BUILDING"
    BY DEF GenRow, GenStates, NoDeadline
  <2> HIDE DEF row
  <2>4. /\ Numbers' = Numbers \cup {n} /\ gens'[n] = row
        /\ \A g \in Numbers : gens'[g] = gens[g]
    BY <2>1, <2>2 DEF Numbers
  <2>5. deployer'.pc = "building" /\ deployer'.gen = n
    BY <2>1 DEF PubTyped
  <2> HIDE DEF n
  <2>6. PubTyped'
    <3>1. Cardinality(Numbers') = n /\ Numbers' = 1..n
      BY <2>2, <2>4
    <3>2. gens' \in [Numbers' -> GenRow]
      BY <2>1, <2>3, <2>4 DEF PubTyped
    <3> QED BY <2>1, <3>1, <3>2 DEF PubTyped
  <2>7. InTheMaking'
    <3>1. Cardinality(Numbers') = n
      BY <2>2, <2>4
    <3> QED BY <2>1, <2>3, <2>4, <2>5, <3>1 DEF InTheMaking, Building
  <2>8. Serving'
    BY <2>1, <2>3, <2>4 DEF Serving
  <2>9. Retiring'
    BY <2>1, <2>3, <2>4 DEF Retiring
  <2>10. PinnedOK'
    BY <2>1, <2>2, <2>4 DEF PinnedOK
  <2> QED BY <2>6, <2>7, <2>8, <2>9, <2>10
<1>3. CASE MarkBuilt
  <2> DEFINE n == deployer.gen
  <2>1. /\ gens' = [gens EXCEPT ![n].checkpoint = 1]
        /\ deployer' = [deployer EXCEPT !.pc = "built"]
        /\ UNCHANGED <<schemas, clock, reaper, pinned, retiredAt>>
        /\ deployer.pc = "building" /\ n \in Numbers /\ n = Cardinality(Numbers)
    BY <1>3 DEF MarkBuilt, InTheMaking, Building
  <2>2. /\ gens' \in [Numbers -> GenRow] /\ Numbers' = Numbers
        /\ gens'[n].state = gens[n].state /\ gens'[n].checkpoint = 1
        /\ \A g \in Numbers : g # n => gens'[g] = gens[g]
    <3>1. gens \in [Numbers -> GenRow] /\ gens[n] \in GenRow
      BY <2>1 DEF PubTyped
    <3>2. [gens[n] EXCEPT !.checkpoint = 1] \in GenRow
      BY <3>1 DEF GenRow
    <3>3. gens' = [gens EXCEPT ![n] = [gens[n] EXCEPT !.checkpoint = 1]]
      BY <2>1
    <3> QED BY <2>1, <3>1, <3>2, <3>3 DEF Numbers, GenRow
  <2>3. deployer'.pc = "built" /\ deployer'.gen = n
    BY <2>1 DEF PubTyped
  <2>4. gens[n].state = "BUILDING" /\ n \in schemas
    BY <2>1 DEF InTheMaking, Building
  <2> HIDE DEF n
  <2>5. PubTyped'
    BY <2>1, <2>2 DEF PubTyped
  <2>6. InTheMaking'
    BY <2>1, <2>2, <2>3, <2>4 DEF InTheMaking, Building
  <2>7. Serving'
    BY <2>1, <2>2, <2>4 DEF Serving
  <2>8. Retiring'
    BY <2>1, <2>2, <2>4 DEF Retiring
  <2>9. PinnedOK'
    BY <2>1, <2>2, <2>4 DEF PinnedOK
  <2> QED BY <2>5, <2>6, <2>7, <2>8, <2>9
<1> QED BY <1>1, <1>2, <1>3

LEMMA DropStep ==
  ASSUME PubInv, DropGeneration
  PROVE  PubInv'
<1> USE DEF PubInv
<1> DEFINE n == deployer.gen
<1>1. /\ gens' = [g \in Numbers \ {n} |-> gens[g]] /\ schemas' = schemas \ {n}
      /\ deployer' = NoDeployment /\ UNCHANGED <<clock, reaper, pinned, retiredAt>>
      /\ n \in Numbers /\ n = Cardinality(Numbers) /\ gens[n].state = "BUILDING"
  BY DEF DropGeneration, InTheMaking, Building
<1>1a. /\ deployer' \in [pc : {"idle"}, gen : {0}, now : {0}]
       /\ deployer'.pc = "idle" /\ deployer'.gen = 0 /\ deployer'.now = 0
  BY <1>1 DEF NoDeployment
<1>2. /\ n # 0 /\ n \in Nat /\ Numbers \ {n} = 1..(n - 1) /\ Cardinality(1..(n - 1)) = n - 1
  BY <1>1, NextNumber DEF PubTyped
<1> HIDE DEF n
<1>3. Numbers' = Numbers \ {n} /\ \A g \in Numbers' : gens'[g] = gens[g]
  BY <1>1 DEF Numbers
<1>4. PubTyped'
  <2>1. gens' \in [Numbers' -> GenRow]
    BY <1>1, <1>3 DEF PubTyped
  <2>2. Cardinality(Numbers') = n - 1 /\ Numbers' = 1..(n - 1)
    BY <1>2, <1>3, Zenon
  <2>3. n - 1 \in Nat
    BY <1>2
  <2> QED BY <1>1, <1>1a, <2>1, <2>2, <2>3 DEF PubTyped
<1>5. ~Building'
  BY <1>1a DEF Building
<1>6. \A g \in Numbers : gens[g].state = "BUILDING" => g = n
  BY DEF InTheMaking, n
<1>7. InTheMaking'
  BY <1>1, <1>1a, <1>3, <1>5, <1>6 DEF InTheMaking, Building
<1>8. Serving'
  <2>1. \A g \in Numbers : gens[g].state # "BUILDING" => g \in Numbers'
    BY <1>1, <1>3
  <2> QED BY <1>1, <1>3, <2>1 DEF Serving
<1>9. Retiring'
  BY <1>1, <1>3 DEF Retiring
<1>10. PinnedOK'
  BY <1>1, <1>3 DEF PinnedOK
<1> QED BY <1>4, <1>7, <1>8, <1>9, <1>10

LEMMA StartPublishStep ==
  ASSUME PubInv, StartPublish
  PROVE  PubInv'
<1> USE DEF PubInv
<1>1. /\ deployer' = [deployer EXCEPT !.pc = "publishing", !.now = clock]
      /\ UNCHANGED <<gens, schemas, clock, reaper, pinned, retiredAt>> /\ Numbers' = Numbers
      /\ deployer.pc = "built" /\ clock \in 0..clock
  BY DEF StartPublish, Numbers, PubTyped
<1>1a. clock \in Nat /\ deployer \in [pc : {"built"}, gen : Nat, now : Nat]
  BY <1>1 DEF PubTyped
<1>1b. /\ deployer' \in [pc : {"publishing"}, gen : Nat, now : Nat]
       /\ deployer'.now = clock /\ deployer'.gen = deployer.gen
  BY <1>1, <1>1a
<1>2. PubTyped'
  BY <1>1, <1>1a, <1>1b DEF PubTyped
<1>3. InTheMaking'
  BY <1>1, <1>1b DEF InTheMaking, Building, PubTyped
<1> QED BY <1>1, <1>2, <1>3 DEF Serving, Retiring, PinnedOK

LEMMA PublishStep ==
  ASSUME PubInv, Publish
  PROVE  PubInv'
<1> USE DEF PubInv
<1> DEFINE n == deployer.gen
           now == deployer.now
<1>1. /\ gens' = [g \in Numbers |-> Published(g)] /\ deployer' = NoDeployment
      /\ retiredAt' = retiredAt \cup {<<g, now>> : g \in InState("PUBLISHED")}
      /\ UNCHANGED <<schemas, clock, reaper, pinned>>
      /\ n \in Numbers /\ gens[n].state = "BUILDING" /\ n \in schemas /\ gens[n].checkpoint = 1
  BY DEF Publish, InTheMaking, Building
<1>1a. /\ deployer' \in [pc : {"idle"}, gen : {0}, now : {0}]
       /\ deployer'.pc = "idle" /\ deployer'.gen = 0 /\ deployer'.now = 0
  BY <1>1 DEF NoDeployment
<1>2. Numbers' = Numbers
  BY <1>1 DEF Numbers
<1>3. /\ gens'[n] = [gens[n] EXCEPT !.state = "PUBLISHED", !.deadline = NoDeadline]
      /\ \A g \in Numbers : g # n /\ gens[g].state = "PUBLISHED" =>
           gens'[g] = [gens[g] EXCEPT !.state = "RETIRED", !.deadline = now + Grace]
  BY <1>1 DEF Published, Retire
<1>3a. \A g \in Numbers : g # n /\ gens[g].state # "PUBLISHED" => gens'[g] = gens[g]
  BY <1>1 DEF Published
<1>4. /\ clock \in Nat /\ now \in 0..clock /\ Grace \in Nat /\ \A g \in Numbers : gens[g] \in GenRow
  BY PublishConstants DEF PubTyped
<1>5. /\ gens'[n] \in GenRow /\ gens'[n].state = "PUBLISHED" /\ gens'[n].checkpoint = 1
      /\ \A g \in Numbers : g # n /\ gens[g].state = "PUBLISHED" =>
           /\ gens'[g] \in GenRow /\ gens'[g].state = "RETIRED"
           /\ gens'[g].deadline = now + Grace
  <2>1. NoDeadline \in Int /\ now + Grace \in Int /\ {"PUBLISHED", "RETIRED"} \subseteq GenStates
    BY <1>4 DEF NoDeadline, GenStates
  <2>2. gens'[n] \in GenRow /\ gens'[n].state = "PUBLISHED" /\ gens'[n].checkpoint = 1
    <3>1. gens[n] \in GenRow /\ gens[n].checkpoint = 1
      BY <1>1, <1>4
    <3>2. gens'[n] = [gens[n] EXCEPT !.state = "PUBLISHED", !.deadline = NoDeadline]
      BY <1>3
    <3> QED BY <2>1, <3>1, <3>2 DEF GenRow
  <2>3. ASSUME NEW g \in Numbers, g # n, gens[g].state = "PUBLISHED"
        PROVE  /\ gens'[g] \in GenRow /\ gens'[g].state = "RETIRED"
               /\ gens'[g].deadline = now + Grace
    <3>1. gens'[g] = [gens[g] EXCEPT !.state = "RETIRED", !.deadline = now + Grace]
      BY <1>3, <2>3
    <3>2. gens[g] \in GenRow
      BY <1>4
    <3> QED BY <2>1, <3>1, <3>2 DEF GenRow
  <2> QED BY <2>2, <2>3
<1>6. \A g \in Numbers : gens[g].state = "BUILDING" => g = n
  BY DEF InTheMaking, n
<1>7. \A g \in Numbers : gens[g].state = "PUBLISHED" => <<g, now>> \in retiredAt'
  BY <1>1 DEF InState
<1> HIDE DEF n, now
<1>8. PubTyped'
  <2>1. \A g \in Numbers : gens'[g] \in GenRow
    BY <1>4, <1>5, <1>3a
  <2>2. gens' \in [Numbers' -> GenRow]
    BY <1>1, <1>2, <2>1
  <2> QED BY <1>1, <1>1a, <1>2, <1>4, <2>2 DEF PubTyped
<1>9. InTheMaking'
  BY <1>1, <1>1a, <1>2, <1>5, <1>6, <1>3a DEF InTheMaking, Building
<1>10. Serving'
  BY <1>1, <1>2, <1>5, <1>3a DEF Serving
<1>11. Retiring'
  <2>1. ASSUME NEW g \in Numbers, gens'[g].state = "RETIRED"
        PROVE  /\ g \in schemas
               /\ \E t \in 0..clock : <<g, t>> \in retiredAt' /\ gens'[g].deadline = t + Grace
    <3>1. g # n
      BY <1>5, <2>1
    <3>2. CASE gens[g].state = "PUBLISHED"
      <4>1. g \in schemas /\ <<g, now>> \in retiredAt' /\ now \in 0..clock
        BY <1>4, <1>7, <3>2 DEF Serving
      <4> QED BY <1>5, <3>1, <3>2, <4>1
    <3>3. CASE gens[g].state # "PUBLISHED"
      BY <1>1, <2>1, <3>1, <3>3, <1>3a DEF Retiring
    <3> QED BY <3>2, <3>3
  <2>2. ASSUME NEW g \in Numbers, gens'[g].state = "REAPED"
        PROVE  \E t \in 0..(clock - Grace) : <<g, t>> \in retiredAt'
    BY <1>1, <1>5, <1>3a, <2>2 DEF Retiring
  <2>3. ASSUME NEW g \in reaper
        PROVE  g \in Numbers /\ gens'[g].state = "RETIRED" /\ gens'[g].deadline <= clock
    BY <1>1, <1>3a DEF Retiring
  <2> QED BY <1>1, <1>2, <2>1, <2>2, <2>3 DEF Retiring
<1>12. PinnedOK'
  BY <1>1, <1>2, <1>5, <1>3a DEF PinnedOK
<1> QED BY <1>8, <1>9, <1>10, <1>11, <1>12

LEMMA ReapStep ==
  ASSUME PubInv, ReapSelect \/ ReapCommit
  PROVE  PubInv'
<1> USE DEF PubInv
<1>1. CASE ReapSelect
  <2>1. /\ reaper' = ExpiredRows /\ UNCHANGED <<gens, schemas, clock, deployer, pinned, retiredAt>>
        /\ Numbers' = Numbers
    BY <1>1 DEF ReapSelect, Numbers
  <2>2. \A g \in reaper' : /\ g \in Numbers /\ gens[g].state = "RETIRED"
                           /\ gens[g].deadline <= clock
    BY <2>1 DEF ExpiredRows, InState
  <2>3. PubTyped' /\ InTheMaking' /\ Serving' /\ PinnedOK'
    BY <2>1 DEF PubTyped, InTheMaking, Building, Serving, PinnedOK
  <2>4. Retiring'
    BY <2>1, <2>2 DEF Retiring
  <2> QED BY <2>3, <2>4
<1>2. CASE ReapCommit
  <2>1. /\ gens' = [g \in Numbers |->
                     IF g \in reaper THEN [gens[g] EXCEPT !.state = "REAPED", !.deadline = NoDeadline]
                                     ELSE gens[g]]
        /\ schemas' = schemas \ reaper /\ reaper' = {}
        /\ UNCHANGED <<clock, deployer, pinned, retiredAt>>
    BY <1>2 DEF ReapCommit
  <2>2. Numbers' = Numbers
    BY <2>1 DEF Numbers
  <2>3. \A g \in reaper : /\ g \in Numbers /\ gens[g].state = "RETIRED"
                          /\ gens[g].deadline <= clock
    BY DEF Retiring
  <2>4. \A g \in Numbers : g \in reaper =>
          gens'[g] \in GenRow /\ gens'[g].state = "REAPED"
    <3>1. NoDeadline \in Int /\ "REAPED" \in GenStates
      BY DEF NoDeadline, GenStates
    <3>2. \A g \in Numbers : gens[g] \in GenRow
      BY DEF PubTyped
    <3>3. \A g \in Numbers : g \in reaper =>
            gens'[g] = [gens[g] EXCEPT !.state = "REAPED", !.deadline = NoDeadline]
      BY <2>1
    <3>4. ASSUME NEW g \in Numbers, g \in reaper
          PROVE  gens'[g] \in GenRow /\ gens'[g].state = "REAPED"
      <4>1. gens[g] \in GenRow
            /\ gens'[g] = [gens[g] EXCEPT !.state = "REAPED", !.deadline = NoDeadline]
        BY <3>2, <3>3, <3>4
      <4> QED BY <3>1, <4>1 DEF GenRow
    <3> QED BY <3>4
  <2>5. \A g \in Numbers : g \notin reaper => gens'[g] = gens[g]
    BY <2>1
  <2>6. PubTyped'
    <3>1. \A g \in Numbers : gens'[g] \in GenRow
      BY <2>4, <2>5 DEF PubTyped
    <3>2. gens' \in [Numbers' -> GenRow]
      BY <2>1, <2>2, <3>1
    <3> QED BY <2>1, <2>2, <3>2 DEF PubTyped
  <2>7. InTheMaking'
    <3>1. Building => deployer.gen \notin reaper
      BY <2>3 DEF InTheMaking
    <3>2. deployer.pc \in {"built", "publishing"} => Building
      BY DEF Building
    <3> QED BY <2>1, <2>2, <2>4, <2>5, <3>1, <3>2 DEF InTheMaking, Building
  <2>8. Serving'
    <3>1. \A g \in Numbers : g \in reaper => gens[g].state # "PUBLISHED"
      BY <2>3
    <3>2. \A g \in Numbers : gens'[g].state = "PUBLISHED" <=> gens[g].state = "PUBLISHED"
      BY <2>4, <2>5, <3>1
    <3>3. \A g \in Numbers : gens'[g].state = "PUBLISHED" =>
            gens'[g] = gens[g] /\ g \in schemas'
      <4>1. ASSUME NEW g \in Numbers, gens'[g].state = "PUBLISHED"
            PROVE  gens'[g] = gens[g] /\ g \in schemas'
        <5>1. g \notin reaper
          BY <2>4, <4>1
        <5>2. gens'[g] = gens[g] /\ gens[g].state = "PUBLISHED"
          BY <2>5, <4>1, <5>1
        <5> QED BY <2>1, <5>1, <5>2 DEF Serving
      <4> QED BY <4>1
    <3>4. \A g \in Numbers : gens'[g].state # "BUILDING" => \E h \in Numbers : gens[h].state # "BUILDING"
      BY <2>3, <2>5
    <3> QED BY <2>2, <3>2, <3>3, <3>4 DEF Serving
  <2>9. Retiring'
    <3>1. ASSUME NEW g \in reaper
          PROVE  \E t \in 0..(clock - Grace) : <<g, t>> \in retiredAt
      <4>1. PICK t \in 0..clock : <<g, t>> \in retiredAt /\ gens[g].deadline = t + Grace
        BY <2>3 DEF Retiring
      <4>2. t \in 0..(clock - Grace)
        BY <2>3, <4>1, PublishConstants DEF PubTyped
      <4> QED BY <4>1, <4>2
    <3> QED BY <2>1, <2>2, <2>4, <2>5, <3>1 DEF Retiring
  <2>10. PinnedOK'
    BY <2>1, <2>2, <2>4, <2>5 DEF PinnedOK
  <2> QED BY <2>6, <2>7, <2>8, <2>9, <2>10
<1> QED BY <1>1, <1>2

LEMMA ReaderStep ==
  ASSUME PubInv, NEW r \in Readers, PinSearchPath(r) \/ CheckIn(r)
  PROVE  PubInv'
<1> USE DEF PubInv
<1>1. UNCHANGED <<gens, schemas, clock, deployer, reaper, retiredAt>> /\ Numbers' = Numbers
  BY DEF PinSearchPath, CheckIn, Numbers
<1>2. PICK g \in {0} \cup InState("PUBLISHED") : pinned' = [pinned EXCEPT ![r] = g]
  <2>1. CASE CheckIn(r)
    BY <2>1 DEF CheckIn
  <2>2. CASE PinSearchPath(r)
    <3>1. PICK g \in InState("PUBLISHED") : TRUE
      BY <2>2 DEF PinSearchPath, CurrentGeneration
    <3>2. \A h \in InState("PUBLISHED") : h <= g
      BY DEF InState, Serving, PubTyped
    <3> DEFINE top == CHOOSE x \in CurrentGeneration : \A h \in CurrentGeneration : h <= x
    <3>3. top \in CurrentGeneration
      BY <3>1, <3>2 DEF CurrentGeneration
    <3>4. pinned' = [pinned EXCEPT ![r] = top]
      BY <2>2 DEF PinSearchPath
    <3> HIDE DEF top
    <3> QED BY <3>3, <3>4 DEF CurrentGeneration
  <2> QED BY <2>1, <2>2
<1>3. g \in Nat /\ (g # 0 => g \in Numbers /\ gens[g].state # "BUILDING")
  BY <1>2 DEF InState, PubTyped
<1>4. PubTyped' /\ PinnedOK'
  BY <1>1, <1>2, <1>3 DEF PubTyped, PinnedOK
<1> QED BY <1>1, <1>4 DEF InTheMaking, Building, Serving, Retiring

LEMMA TickStep ==
  ASSUME PubInv, Tick
  PROVE  PubInv'
<1> USE DEF PubInv
<1>1. /\ clock' = clock + 1 /\ clock \in Nat /\ Grace \in Nat /\ Numbers' = Numbers
      /\ UNCHANGED <<gens, schemas, deployer, reaper, pinned, retiredAt>>
  BY PublishConstants DEF Tick, PubTyped, Numbers
<1>2. /\ 0..clock \subseteq 0..clock' /\ 0..(clock - Grace) \subseteq 0..(clock' - Grace)
  BY <1>1
<1>3. \A g \in reaper : gens[g].deadline <= clock'
  BY <1>1 DEF Retiring, PubTyped, GenRow
<1>4. Retiring'
  BY <1>1, <1>2, <1>3 DEF Retiring
<1> QED BY <1>1, <1>4 DEF PubTyped, InTheMaking, Building, Serving, PinnedOK

LEMMA PubInvServes ==
  ASSUME PubInv
  PROVE  GenerationsServe
<1> USE DEF PubInv
<1>1. ASSUME NEW g \in Numbers, gens[g].state \in {"PUBLISHED", "RETIRED", "REAPED"}
      PROVE  Cardinality(InState("PUBLISHED")) = 1
  <2>1. PICK h \in Numbers : gens[h].state = "PUBLISHED"
    BY <1>1 DEF Serving
  <2>2. InState("PUBLISHED") = {h}
    BY <2>1 DEF InState, Serving
  <2> QED BY <2>2, FS_Singleton
<1>2. OnePublished
  BY <1>1 DEF OnePublished, InState, Serving
<1>3. ASSUME NEW r \in Readers, pinned[r] # 0, pinned[r] \notin schemas
      PROVE  \E t \in 0..clock - Grace : <<pinned[r], t>> \in retiredAt
  <2>1. pinned[r] \in Numbers /\ gens[pinned[r]].state \in GenStates \ {"BUILDING"}
    BY <1>3 DEF PinnedOK, PubTyped, GenRow
  <2>2. gens[pinned[r]].state = "REAPED"
    BY <1>3, <2>1 DEF GenStates, Serving, Retiring
  <2> QED BY <2>1, <2>2 DEF Retiring
<1>4. PinnedReadersHaveGrace
  BY <1>3 DEF PinnedReadersHaveGrace, PinnedOK
<1> QED BY <1>2, <1>4 DEF GenerationsServe

(* Through any number of deployments, abandoned builds and reaps readers   *)
(* find exactly one published, whole generation once there was one, and    *)
(* the schema a reader is pinned to is dropped only when the grace period  *)
(* has passed since the call that retired it read the clock.               *)
THEOREM GenerationsAlwaysServe == PubSpec => []GenerationsServe
<1>1. PubInit => PubInv
  BY PubInit_Inv
<1>2. PubInv /\ [PubNext]_pubVars => PubInv'
  <2> SUFFICES ASSUME PubInv, [PubNext]_pubVars PROVE PubInv'
    OBVIOUS
  <2>1. CASE UNCHANGED pubVars
    BY <2>1 DEF pubVars, PubInv, PubTyped, InTheMaking, Building, Serving, Retiring, PinnedOK,
       Numbers
  <2> QED BY <2>1, BuildStep, DropStep, StartPublishStep, PublishStep, ReapStep, ReaderStep, TickStep DEF PubNext
<1>3. PubInv => GenerationsServe
  BY PubInvServes
<1> QED BY <1>1, <1>2, <1>3, PTL DEF PubSpec

-----------------------------------------------------------------------------
(* Admission                                                               *)

Verdict == [now : Nat, allowed : BOOLEAN]
Passed(log, i, j) == Cardinality({k \in i..j : log[k].allowed})

\* An idle bucket is filled at once; refilling it tick by tick for those two
\* windows would have done as much, even from the debt old clocks can leave.
BurstRefills ==
    Burst * WindowTicks + MaxStall * RequestsPerWindow <= RequestsPerWindow * (WindowTicks + 1)

ClockOK ==
    /\ ticks \in Nat /\ readAt \in [Callers -> Int]
    /\ \A c \in Callers : readAt[c] # Idle =>
         readAt[c] \in Nat /\ readAt[c] <= ticks /\ ticks <= readAt[c] + MaxStall

\* The debt of a bucket: at most what the stall of one caller can take, and
\* never more than refilling it up to the clock makes good.
BucketOK ==
    \/ bucket = <<>> /\ verdicts = <<>>
    \/ /\ bucket # <<>> /\ verdicts # <<>>
       /\ bucket \in [tokens : Int, last : Nat]
       /\ bucket.last = verdicts[Len(verdicts)].now /\ bucket.last <= ticks
       /\ bucket.tokens <= Capacity
       /\ bucket.tokens >= -(MaxStall * Rate)
       /\ bucket.tokens + (ticks - bucket.last) * Rate >= 0

\* What passed since i and what is left come from one bucket and its refills.
SpentAndLeft(log, tokens, last) ==
    \A i \in DOMAIN log : log[i].allowed =>
        Passed(log, i, Len(log)) * WindowTicks + tokens <= Capacity + (last - log[i].now) * Rate

LimiterInv ==
    /\ ClockOK /\ BucketOK
    /\ verdicts \in Seq(Verdict)
    /\ verdicts # <<>> => SpentAndLeft(verdicts, bucket.tokens, bucket.last)
    /\ AdmissionBounded

LEMMA LimiterNumbers ==
  /\ Capacity \in Nat /\ Rate \in Nat /\ WindowTicks \in Nat /\ MaxStall \in Nat
  /\ MaxStall * Rate \in Nat
BY LimiterConstants DEF Capacity, Rate

LEMMA PassedAppend ==
  ASSUME NEW log \in Seq(Verdict), NEW e \in Verdict
  PROVE  /\ \A i, j \in 1..Len(log) : Passed(Append(log, e), i, j) = Passed(log, i, j)
         /\ \A i \in 1..Len(log) :
              Passed(Append(log, e), i, Len(log) + 1) =
                Passed(log, i, Len(log)) + (IF e.allowed THEN 1 ELSE 0)
         /\ e.allowed => Passed(Append(log, e), Len(log) + 1, Len(log) + 1) = 1
         /\ \A i, j \in 1..Len(log) : Passed(log, i, j) \in Nat
<1> DEFINE n == Len(log)
           new == Append(log, e)
           Set(l, i, j) == {k \in i..j : l[k].allowed}
<1>1. n \in Nat /\ new[n + 1] = e /\ \A k \in 1..n : new[k] = log[k]
  OBVIOUS
<1>2. ASSUME NEW i \in 1..n, NEW j \in 1..n PROVE Set(new, i, j) = Set(log, i, j)
  BY <1>1
<1>3. ASSUME NEW i \in 1..n, NEW j \in 1..n
      PROVE  IsFiniteSet(Set(log, i, j)) /\ Cardinality(Set(log, i, j)) \in Nat
  <2>1. Set(log, i, j) \in SUBSET (i..j) /\ IsFiniteSet(i..j)
    BY FS_Interval
  <2>2. IsFiniteSet(Set(log, i, j))
    BY <2>1, FS_Subset
  <2> QED BY <2>2, FS_CardinalityType
<1>4. ASSUME NEW i \in 1..n
      PROVE  Cardinality(Set(new, i, n + 1)) =
               Cardinality(Set(log, i, n)) + (IF e.allowed THEN 1 ELSE 0)
  <2>1. n \in 1..n /\ n + 1 \notin Set(log, i, n)
    BY <1>1
  <2>2. CASE e.allowed
    <3>1. Set(new, i, n + 1) = Set(log, i, n) \cup {n + 1}
      BY <1>1, <2>2
    <3>2. Cardinality(Set(log, i, n) \cup {n + 1}) = Cardinality(Set(log, i, n)) + 1
      <4> HIDE DEF Set
      <4> QED BY <1>3, <2>1, FS_AddElement
    <3> QED BY <2>2, <3>1, <3>2
  <2>3. CASE ~e.allowed
    <3>1. Set(new, i, n + 1) = Set(log, i, n)
      BY <1>1, <2>3
    <3>2. Cardinality(Set(log, i, n)) \in Nat
      BY <1>3, <2>1
    <3>3. (IF e.allowed THEN 1 ELSE 0) = 0
      BY <2>3, Zenon
    <3> HIDE DEF Set
    <3> QED BY <3>1, <3>2, <3>3
  <2> QED BY <2>2, <2>3
<1>5. ASSUME e.allowed PROVE Cardinality(Set(new, n + 1, n + 1)) = 1
  <2>1. Set(new, n + 1, n + 1) = {n + 1}
    BY <1>1, <1>5
  <2> QED BY <2>1, FS_Singleton
<1> QED BY <1>2, <1>3, <1>4, <1>5 DEF Passed

(* The arithmetic of one decision: the bucket refilled to `now` and what   *)
(* passed before it are covered by the refills between.                    *)
LEMMA RefillCovers ==
  ASSUME NEW C \in Int, NEW R \in Nat, NEW spent \in Int, NEW tokens \in Int,
         NEW first \in Int, NEW last \in Int, NEW now \in Int,
         spent + tokens <= C + (last - first) * R
  PROVE  spent + (tokens + (now - last) * R) <= C + (now - first) * R
<1>1. (last - first) * R \in Int /\ (now - last) * R \in Int /\ (now - first) * R \in Int
  OBVIOUS
<1>2. (last - first) * R + (now - last) * R = (now - first) * R
  OBVIOUS
<1> QED BY <1>1, <1>2

(* After two idle windows the refills exceed what a full bucket adds.      *)
LEMMA ResetCovers ==
  ASSUME BurstRefills, NEW spent \in Int, NEW tokens \in Int,
         NEW first \in Int, NEW last \in Int, NEW now \in Int,
         spent + tokens <= Capacity + (last - first) * Rate,
         tokens >= -(MaxStall * Rate), now - last > 2 * WindowTicks
  PROVE  spent + Capacity <= Capacity + (now - first) * Rate
<1> DEFINE R == RequestsPerWindow
           W == WindowTicks
           gap == now - last
<1>1. R \in Nat /\ W \in Nat /\ Burst \in Nat /\ MaxStall \in Nat /\ gap \in Int
  BY LimiterConstants
<1>2. gap >= 2 * W + 1
  BY <1>1
<1>3. gap * R >= (2 * W + 1) * R
  <2>1. PICK d \in Nat : gap = 2 * W + 1 + d
    <3>1. gap - (2 * W + 1) \in Nat
      BY <1>1, <1>2
    <3> QED BY <1>1, <3>1
  <2> HIDE DEF gap
  <2>2. gap * R = (2 * W + 1) * R + d * R /\ d * R \in Nat
    BY <1>1, <2>1
  <2> HIDE DEF R, W
  <2> QED BY <1>1, <2>2
<1>4. (2 * W + 1) * R = R * W + R * (W + 1)
  BY <1>1
<1>5. Capacity = R * W + Burst * W
  BY <1>1 DEF Capacity
<1>6. Burst * W + MaxStall * R <= R * (W + 1)
  BY DEF BurstRefills
<1>7. (now - first) * R = (last - first) * R + gap * R
  BY <1>1
<1>8. spent + tokens <= Capacity + (last - first) * R /\ tokens >= -(MaxStall * R)
  BY DEF Rate
<1>9. /\ gap * R \in Int /\ (last - first) * R \in Int /\ R * W \in Int /\ Burst * W \in Int
      /\ MaxStall * R \in Int /\ R * (W + 1) \in Int /\ Capacity \in Int
  BY <1>1 DEF Capacity
<1>10. Rate = R
  BY DEF Rate
<1> HIDE DEF R, W, gap
<1> QED BY <1>3, <1>4, <1>5, <1>6, <1>7, <1>8, <1>9, <1>10

LEMMA LimiterInit == BucketInit => LimiterInv
<1> SUFFICES ASSUME BucketInit PROVE LimiterInv
  OBVIOUS
<1>1. ClockOK
  BY DEF BucketInit, ClockOK, Idle
<1>2. BucketOK /\ verdicts \in Seq(Verdict) /\ verdicts = <<>>
  BY DEF BucketInit, BucketOK
<1>3. AdmissionBounded
  BY <1>2 DEF AdmissionBounded
<1> QED BY <1>1, <1>2, <1>3 DEF LimiterInv

(* A tick makes good what the bucket owes, as no tick did.                  *)
LEMMA RefillLater ==
  ASSUME NEW tokens \in Int, NEW last \in Nat, NEW now \in Nat, NEW later \in {now, now + 1},
         last <= now, tokens + (now - last) * Rate >= 0
  PROVE  tokens + (later - last) * Rate >= 0
<1>1. PICK d \in Nat : d = now - last
  OBVIOUS
<1>2. PICK e \in Nat : e = later - last
  OBVIOUS
<1>3. e = d \/ e = d + 1
  BY <1>1, <1>2
<1>4. PICK r \in Nat : r = Rate
  BY LimiterNumbers
<1>5. d * r \in Int /\ (d + 1) * r = d * r + r
  OBVIOUS
<1>6. e * r = d * r \/ e * r = d * r + r
  BY <1>3, <1>5
<1>7. tokens + d * r >= 0
  BY <1>1, <1>4
<1>8. tokens + e * r >= 0
  BY <1>5, <1>6, <1>7
<1> QED BY <1>2, <1>4, <1>8

LEMMA ClockStep ==
  ASSUME LimiterInv, AdvanceClock \/ (\E c \in Callers : Arrive(c))
  PROVE  LimiterInv'
<1> USE DEF LimiterInv
<1>1. bucket' = bucket /\ verdicts' = verdicts /\ ticks' \in {ticks, ticks + 1}
  BY DEF AdvanceClock, Arrive
<1>2. ClockOK'
  <2>1. CASE AdvanceClock
    BY <2>1, LimiterNumbers DEF AdvanceClock, ClockOK, Idle
  <2>2. ASSUME NEW c \in Callers, Arrive(c) PROVE ClockOK'
    BY <2>2, LimiterNumbers DEF Arrive, ClockOK, Idle
  <2> QED BY <2>1, <2>2
<1>3. BucketOK'
  <2>1. CASE bucket = <<>> /\ verdicts = <<>>
    BY <1>1, <2>1 DEF BucketOK
  <2>2. CASE ~(bucket = <<>> /\ verdicts = <<>>)
    <3>1. /\ bucket \in [tokens : Int, last : Nat] /\ ticks \in Nat /\ bucket.last <= ticks
          /\ bucket.tokens + (ticks - bucket.last) * Rate >= 0
      BY <2>2 DEF BucketOK, ClockOK
    <3>4. bucket.tokens + (ticks' - bucket.last) * Rate >= 0
      <4>1. bucket.tokens \in Int /\ bucket.last \in Nat
        BY <3>1
      <4> QED BY <1>1, <3>1, <4>1, RefillLater
    <3>5. bucket.last <= ticks'
      BY <1>1, <3>1
    <3> QED BY <1>1, <2>2, <3>4, <3>5 DEF BucketOK
  <2> QED BY <2>1, <2>2
<1>4. AdmissionBounded'
  BY <1>1 DEF AdmissionBounded
<1> QED BY <1>1, <1>2, <1>3, <1>4

(* What a caller finds in the bucket under the lock.                       *)
LEMMA RefilledOK ==
  ASSUME LimiterInv, BurstRefills, NEW now \in Nat, now <= ticks, ticks <= now + MaxStall
  PROVE  LET tokens == Refilled(now)
         IN  /\ tokens \in Int /\ tokens <= Capacity /\ tokens >= -(MaxStall * Rate)
             /\ tokens + (ticks - now) * Rate >= 0
             /\ verdicts # <<>> => SpentAndLeft(verdicts, tokens, now)
<1> DEFINE tokens == Refilled(now)
<1>1. /\ Capacity \in Nat /\ Rate \in Nat /\ WindowTicks \in Nat /\ MaxStall \in Nat
      /\ MaxStall * Rate \in Nat /\ ticks \in Nat
  BY LimiterNumbers DEF LimiterInv, ClockOK
<1>2. (ticks - now) * Rate \in Nat /\ (ticks - now) * Rate <= MaxStall * Rate
  <2>1. PICK d \in Nat : d = ticks - now
    BY <1>1
  <2>2. PICK f \in Nat : f = MaxStall - d
    <3>1. MaxStall - d \in Nat
      BY <1>1, <2>1
    <3> QED BY <3>1
  <2>3. MaxStall * Rate = d * Rate + f * Rate /\ d * Rate \in Nat /\ f * Rate \in Nat
    BY <1>1, <2>2
  <2> QED BY <2>1, <2>3
<1>3. CASE bucket = <<>>
  <2>1. tokens = Capacity /\ verdicts = <<>>
    BY <1>3 DEF Refilled, LimiterInv, BucketOK
  <2> HIDE DEF tokens
  <2> QED BY <1>1, <1>2, <2>1 DEF tokens
<1>4. CASE bucket # <<>>
  <2> DEFINE T == bucket.tokens
             last == bucket.last
  <2>1. /\ verdicts # <<>> /\ T \in Int /\ last \in Nat /\ T >= -(MaxStall * Rate)
        /\ T <= Capacity /\ T + (ticks - last) * Rate >= 0
        /\ SpentAndLeft(verdicts, T, last) /\ verdicts \in Seq(Verdict)
    BY <1>4 DEF LimiterInv, BucketOK
  <2>2. ASSUME NEW i \in DOMAIN verdicts, verdicts[i].allowed
        PROVE  /\ Passed(verdicts, i, Len(verdicts)) * WindowTicks \in Int
               /\ verdicts[i].now \in Int
               /\ Passed(verdicts, i, Len(verdicts)) * WindowTicks + T
                    <= Capacity + (last - verdicts[i].now) * Rate
    <3>1. Len(verdicts) \in 1..Len(verdicts) /\ i \in 1..Len(verdicts)
      BY <2>1
    <3>2. verdicts[i] \in Verdict
      BY <2>1
    <3>3. Passed(verdicts, i, Len(verdicts)) \in Nat
      BY <2>1, <3>1, <3>2, PassedAppend
    <3>4. verdicts[i].now \in Nat
      BY <3>2 DEF Verdict
    <3>5. Passed(verdicts, i, Len(verdicts)) * WindowTicks \in Int
      BY <1>1, <3>3
    <3> QED BY <2>1, <2>2, <3>4, <3>5 DEF SpentAndLeft
  <2>3. CASE now - last > 2 * WindowTicks
    <3>1. tokens = Capacity
      BY <1>4, <2>3 DEF Refilled
    <3>2. SpentAndLeft(verdicts, Capacity, now)
      <4>1. ASSUME NEW i \in DOMAIN verdicts, verdicts[i].allowed
            PROVE  Passed(verdicts, i, Len(verdicts)) * WindowTicks + Capacity
                     <= Capacity + (now - verdicts[i].now) * Rate
        <5> DEFINE spent == Passed(verdicts, i, Len(verdicts)) * WindowTicks
                   first == verdicts[i].now
        <5>1. spent \in Int /\ first \in Int /\ spent + T <= Capacity + (last - first) * Rate
          BY <2>2, <4>1
        <5> HIDE DEF spent, first, T, last
        <5>2. last \in Int /\ now \in Int /\ T \in Int /\ T >= -(MaxStall * Rate)
          BY <2>1
        <5>3. spent + Capacity <= Capacity + (now - first) * Rate
          BY <2>3, <5>1, <5>2, ResetCovers
        <5> QED BY <5>3 DEF spent, first
      <4> QED BY <4>1 DEF SpentAndLeft
    <3> HIDE DEF tokens
    <3> QED BY <1>1, <1>2, <3>1, <3>2 DEF tokens
  <2>4. CASE ~(now - last > 2 * WindowTicks)
    <3> DEFINE refilled == T + (now - last) * Rate
    <3>1. /\ tokens = IF refilled < Capacity THEN refilled ELSE Capacity
      BY <1>4, <2>4 DEF Refilled
    <3> HIDE DEF tokens, T, last
    <3>2. (now - last) * Rate \in Int /\ (ticks - last) * Rate \in Int /\ refilled \in Int
      BY <1>1, <2>1
    <3>3. (ticks - last) * Rate = (now - last) * Rate + (ticks - now) * Rate
      BY <1>1, <2>1
    <3>4. refilled + (ticks - now) * Rate >= 0
      BY <1>2, <2>1, <3>2, <3>3
    <3>5. refilled >= -(MaxStall * Rate)
      BY <1>1, <1>2, <3>2, <3>4
    <3>6. ASSUME NEW i \in DOMAIN verdicts, verdicts[i].allowed
          PROVE  Passed(verdicts, i, Len(verdicts)) * WindowTicks + tokens
                   <= Capacity + (now - verdicts[i].now) * Rate
      <4> DEFINE spent == Passed(verdicts, i, Len(verdicts)) * WindowTicks
                 first == verdicts[i].now
      <4>1. spent \in Int /\ first \in Int /\ spent + T <= Capacity + (last - first) * Rate
        BY <2>2, <3>6
      <4> HIDE DEF spent, first
      <4>2. spent + refilled <= Capacity + (now - first) * Rate
        BY <1>1, <2>1, <4>1, RefillCovers
      <4>3. (now - first) * Rate \in Int
        BY <1>1, <4>1
      <4> HIDE DEF refilled
      <4>4. tokens \in Int /\ tokens <= refilled
        BY <1>1, <3>1, <3>2
      <4>5. spent + tokens <= Capacity + (now - first) * Rate
        BY <1>1, <3>2, <4>1, <4>2, <4>3, <4>4
      <4> QED BY <4>5 DEF spent, first
    <3>7. SpentAndLeft(verdicts, tokens, now)
      BY <3>6 DEF SpentAndLeft
    <3> HIDE DEF refilled
    <3>8. /\ tokens \in Int /\ tokens <= Capacity /\ tokens >= -(MaxStall * Rate)
          /\ tokens + (ticks - now) * Rate >= 0
      BY <1>1, <1>2, <3>1, <3>2, <3>4, <3>5
    <3> QED BY <3>7, <3>8 DEF tokens
  <2> QED BY <2>3, <2>4
<1> QED BY <1>3, <1>4

LEMMA AllowStep ==
  ASSUME LimiterInv, BurstRefills, NEW c \in Callers, Allow(c)
  PROVE  LimiterInv'
<1> DEFINE now == readAt[c]
           tokens == Refilled(now)
           allowed == tokens >= WindowTicks
           left == IF allowed THEN tokens - WindowTicks ELSE tokens
           e == [now |-> now, allowed |-> allowed]
           n == Len(verdicts)
<1>1. /\ bucket' = [tokens |-> left, last |-> now] /\ verdicts' = Append(verdicts, e)
      /\ readAt' = [readAt EXCEPT ![c] = Idle] /\ ticks' = ticks
  BY DEF Allow
<1>2. now \in Nat /\ now <= ticks /\ ticks <= now + MaxStall /\ ticks \in Nat
  BY DEF Allow, LimiterInv, ClockOK
<1>3. /\ tokens \in Int /\ tokens <= Capacity /\ tokens >= -(MaxStall * Rate)
      /\ tokens + (ticks - now) * Rate >= 0
      /\ verdicts # <<>> => SpentAndLeft(verdicts, tokens, now)
  <2> HIDE DEF now
  <2> QED BY <1>2, RefilledOK
<1> HIDE DEF tokens
<1>4. /\ Capacity \in Nat /\ Rate \in Nat /\ WindowTicks \in Nat /\ MaxStall * Rate \in Nat
      /\ (ticks - now) * Rate \in Nat
  <2>1. PICK d \in Nat : d = ticks - now
    BY <1>2
  <2>2. d * Rate \in Nat
    BY LimiterNumbers
  <2> QED BY <2>1, <2>2, LimiterNumbers
<1>5. /\ left \in Int /\ left <= Capacity /\ left >= -(MaxStall * Rate)
      /\ left + (ticks - now) * Rate >= 0 /\ (allowed => left >= 0)
  BY <1>3, <1>4
<1>6. /\ verdicts \in Seq(Verdict) /\ e \in Verdict /\ e.now = now /\ (e.allowed <=> allowed)
      /\ n \in Nat
  <2>1. verdicts \in Seq(Verdict)
    BY DEF LimiterInv
  <2>2. e.now = now /\ (e.allowed <=> allowed)
    OBVIOUS
  <2>3. allowed \in BOOLEAN
    OBVIOUS
  <2>4. e \in Verdict
    <3> HIDE DEF now, allowed
    <3> QED BY <1>2, <2>3, Zenon DEF Verdict
  <2>5. n \in Nat
    BY <2>1
  <2> QED BY <2>1, <2>2, <2>4, <2>5
<1>7. /\ verdicts' \in Seq(Verdict) /\ Len(verdicts') = n + 1 /\ verdicts'[n + 1] = e
      /\ \A i \in 1..n : verdicts'[i] = verdicts[i]
      /\ DOMAIN verdicts' = 1..(n + 1) /\ DOMAIN verdicts = 1..n
  <2> HIDE DEF e
  <2> QED BY <1>1, <1>6
<1>8. /\ \A i, j \in 1..n : Passed(verdicts', i, j) = Passed(verdicts, i, j)
      /\ \A i \in 1..n : Passed(verdicts', i, n + 1) =
                           Passed(verdicts, i, n) + (IF e.allowed THEN 1 ELSE 0)
      /\ e.allowed => Passed(verdicts', n + 1, n + 1) = 1
      /\ \A i, j \in 1..n : Passed(verdicts, i, j) \in Nat
  <2> HIDE DEF e
  <2> QED BY <1>1, <1>6, PassedAppend
<1>9. bucket' \in [tokens : Int, last : Nat] /\ bucket'.tokens = left /\ bucket'.last = now
  <2> HIDE DEF left, now
  <2> QED BY <1>1, <1>2, <1>5
<1>10. bucket' # <<>>
  <2>1. DOMAIN bucket' = {"tokens", "last"} /\ DOMAIN <<>> = {}
    BY <1>1
  <2> QED BY <2>1
<1>11. verdicts' # <<>>
  BY <1>6, <1>7
<1>12. ClockOK'
  BY <1>1 DEF LimiterInv, ClockOK, Idle
<1> HIDE DEF e, left, allowed, now
<1>13. BucketOK'
  BY <1>1, <1>2, <1>5, <1>6, <1>7, <1>9, <1>10, <1>11 DEF BucketOK
<1>14. ASSUME NEW i \in 1..(n + 1), verdicts'[i].allowed
       PROVE  /\ Passed(verdicts', i, n + 1) * WindowTicks + left
                   <= Capacity + (now - verdicts'[i].now) * Rate
              /\ (now - verdicts'[i].now) * Rate \in Int
              /\ Passed(verdicts', i, n + 1) * WindowTicks \in Int
  <2>1. CASE i = n + 1
    <3>1. e.allowed /\ verdicts'[i].now = now /\ Passed(verdicts', i, n + 1) = 1
      BY <1>6, <1>7, <1>8, <1>14, <2>1
    <3>2. WindowTicks + left = tokens
      BY <1>3, <1>4, <1>6, <3>1 DEF left
    <3>3. (now - now) * Rate = 0
      BY <1>2, <1>4
    <3> QED BY <1>3, <1>4, <1>5, <2>1, <3>1, <3>2, <3>3
  <2>2. CASE i # n + 1
    <3> DEFINE P == Passed(verdicts, i, n)
               first == verdicts[i].now
               D == (now - first) * Rate
    <3>1. i \in 1..n /\ n \in 1..n /\ verdicts'[i] = verdicts[i] /\ verdicts[i].allowed
          /\ verdicts # <<>>
      BY <1>6, <1>7, <1>14, <2>2
    <3>2. P * WindowTicks + tokens <= Capacity + D
      BY <1>3, <1>7, <3>1 DEF SpentAndLeft
    <3>3. P \in Nat
      BY <1>8, <3>1
    <3>4. first \in Nat
      <4>1. verdicts[i] \in Verdict
        BY <1>6, <1>7, <3>1
      <4> QED BY <4>1 DEF Verdict
    <3>5. Passed(verdicts', i, n + 1) = IF allowed THEN P + 1 ELSE P
      <4>1. Passed(verdicts', i, n + 1) = P + (IF e.allowed THEN 1 ELSE 0)
        BY <1>8, <3>1
      <4> HIDE DEF P
      <4> QED BY <1>6, <3>3, <4>1
    <3>6. D \in Int
      <4>1. PICK d \in Int : d = now - first
        BY <1>2, <3>4
      <4>2. d * Rate \in Int
        BY <1>4, <4>1
      <4> QED BY <4>1, <4>2
    <3> HIDE DEF P, first
    <3>7. (P + 1) * WindowTicks = P * WindowTicks + WindowTicks /\ P * WindowTicks \in Int
      BY <1>4, <3>3
    <3>8. (IF allowed THEN P + 1 ELSE P) * WindowTicks + left <= Capacity + D
          /\ (IF allowed THEN P + 1 ELSE P) * WindowTicks \in Int
      <4> HIDE DEF D
      <4>1. CASE allowed
        BY <1>3, <1>4, <3>2, <3>6, <3>7, <4>1 DEF left
      <4>2. CASE ~allowed
        BY <1>3, <1>4, <3>2, <3>6, <3>7, <4>2 DEF left
      <4> QED BY <4>1, <4>2
    <3> QED BY <3>1, <3>5, <3>6, <3>8 DEF first
  <2> QED BY <2>1, <2>2
<1>15. SpentAndLeft(verdicts', bucket'.tokens, bucket'.last)
  BY <1>7, <1>9, <1>14 DEF SpentAndLeft
<1>16. AdmissionBounded'
  <2>1. ASSUME NEW i \in 1..(n + 1), NEW j \in 1..(n + 1), i <= j,
               verdicts'[i].allowed, verdicts'[j].allowed
        PROVE  Passed(verdicts', i, j) * WindowTicks
                 <= Capacity + (verdicts'[j].now - verdicts'[i].now) * Rate
    <3>1. CASE j = n + 1
      <4>1. e.allowed /\ verdicts'[j].now = now /\ left >= 0
        BY <1>5, <1>6, <1>7, <2>1, <3>1
      <4>2. /\ Passed(verdicts', i, j) * WindowTicks + left
                 <= Capacity + (now - verdicts'[i].now) * Rate
            /\ (now - verdicts'[i].now) * Rate \in Int
            /\ Passed(verdicts', i, j) * WindowTicks \in Int
        BY <1>14, <2>1, <3>1
      <4>3. left \in Int /\ Capacity \in Int
        BY <1>4, <1>5
      <4>4. ASSUME NEW x \in Int, NEW y \in Int, x + left <= Capacity + y
            PROVE  x <= Capacity + y
        BY <4>1, <4>3, <4>4
      <4> QED BY <4>1, <4>2, <4>4
    <3>2. CASE j # n + 1
      <4>1. i \in 1..n /\ j \in 1..n
        BY <1>6, <2>1, <3>2
      <4>2. verdicts'[i] = verdicts[i] /\ verdicts'[j] = verdicts[j]
            /\ Passed(verdicts', i, j) = Passed(verdicts, i, j)
        BY <1>7, <1>8, <4>1
      <4>3. Passed(verdicts, i, j) * WindowTicks
              <= Capacity + (verdicts[j].now - verdicts[i].now) * Rate
        BY <1>7, <2>1, <4>1, <4>2 DEF LimiterInv, AdmissionBounded, Passed
      <4> QED BY <4>2, <4>3
    <3> QED BY <3>1, <3>2
  <2> QED BY <1>7, <2>1 DEF AdmissionBounded, Passed
<1> QED BY <1>7, <1>12, <1>13, <1>15, <1>16 DEF LimiterInv

(* Of the requests a bucket decided one after the other, those it let      *)
(* through are at most its capacity and what the rate allows between the   *)
(* times the first and the last of them read: old clocks, whose refill is  *)
(* negative, and the reset of an idle bucket add nothing to it, as long as *)
(* two idle windows would have filled the bucket anyway (BurstRefills; the *)
(* defaults, a burst of 50 on 1000 a minute, allow a stall of 57 seconds). *)
THEOREM AdmissionIsBounded ==
  ASSUME BurstRefills
  PROVE  BucketSpec => []AdmissionBounded
<1>1. BucketInit => LimiterInv
  BY LimiterInit
<1>2. LimiterInv /\ [BucketNext]_bucketVars => LimiterInv'
  <2> SUFFICES ASSUME LimiterInv, [BucketNext]_bucketVars PROVE LimiterInv'
    OBVIOUS
  <2>1. CASE UNCHANGED bucketVars
    BY <2>1 DEF bucketVars, LimiterInv, ClockOK, BucketOK, AdmissionBounded
  <2> QED BY <2>1, ClockStep, AllowStep DEF BucketNext
<1>3. LimiterInv => AdmissionBounded
  BY DEF LimiterInv
<1> QED BY <1>1, <1>2, <1>3, PTL DEF BucketSpec

-----------------------------------------------------------------------------
(* The edge projection                                                     *)

IsEdgeFold(f, events, rows, from, N) ==
  f = [n \in 0..N |-> IF n = 0 THEN [state |-> EmptyState, rows |-> rows]
                      ELSE EdgeStep(f[n - 1], events, n, from)]

LEMMA EdgeFoldExists ==
  ASSUME NEW events, NEW rows, NEW from
  PROVE  \A N \in Nat : \E f : IsEdgeFold(f, events, rows, from, N)
<1> DEFINE S == {N \in Nat : ~ \E f : IsEdgeFold(f, events, rows, from, N)}
           base == [state |-> EmptyState, rows |-> rows]
<1> SUFFICES ASSUME S # {} PROVE FALSE
  OBVIOUS
<1>1. PICK N \in S : \A M \in S : N <= M
  BY LeastExists
<1>2. CASE N = 0
  <2>1. PICK f : f = [n \in 0..N |-> base]
    OBVIOUS
  <2>2. IsEdgeFold(f, events, rows, from, N)
    BY <1>2, <2>1 DEF IsEdgeFold
  <2>3. QED
    BY <1>1, <2>2
<1>3. CASE N # 0
  <2>1. N \in Nat /\ N - 1 \in Nat /\ N - 1 \notin S
    BY <1>1, <1>3
  <2>2. PICK f : IsEdgeFold(f, events, rows, from, N - 1)
    BY <2>1
  <2>3. \A n \in 0..(N - 1) : f[n] = IF n = 0 THEN base ELSE EdgeStep(f[n - 1], events, n, from)
    BY <2>2, Zenon DEF IsEdgeFold
  <2>4. PICK g : g = [n \in 0..N |-> IF n = N THEN EdgeStep(f[N - 1], events, N, from) ELSE f[n]]
    OBVIOUS
  <2>5. \A n \in 0..N : n # N => n \in 0..(N - 1) /\ g[n] = f[n]
    BY <2>1, <2>4
  <2>6. \A n \in 0..N : n # 0 => n - 1 \in 0..N /\ g[n - 1] = f[n - 1]
    BY <2>1, <2>5
  <2>7. \A n \in 0..N : g[n] = IF n = 0 THEN base ELSE EdgeStep(g[n - 1], events, n, from)
    <3> TAKE n \in 0..N
    <3>1. CASE n = N
      BY <1>3, <2>4, <2>6, <3>1
    <3>2. CASE n # N
      BY <2>3, <2>5, <2>6, <3>2
    <3>3. QED
      BY <3>1, <3>2
  <2>8. IsEdgeFold(g, events, rows, from, N)
    BY <2>4, <2>7 DEF IsEdgeFold
  <2>9. QED
    BY <1>1, <2>8
<1>4. QED
  BY <1>2, <1>3

LEMMA EdgeFoldIs ==
  ASSUME NEW events \in Seq(Commands), NEW rows, NEW from \in Nat
  PROVE  \A n \in 0..Len(events) :
           EdgeFold(events, rows, from)[n] =
             IF n = 0 THEN [state |-> EmptyState, rows |-> rows]
             ELSE EdgeStep(EdgeFold(events, rows, from)[n - 1], events, n, from)
<1> DEFINE f == EdgeFold(events, rows, from)
           N == Len(events)
<1>1. N \in Nat
  OBVIOUS
<1>2. f = CHOOSE g : IsEdgeFold(g, events, rows, from, N)
  BY DEF EdgeFold, IsEdgeFold
<1>3. IsEdgeFold(f, events, rows, from, N)
  BY <1>1, <1>2, EdgeFoldExists, Zenon
<1> HIDE DEF f
<1>4. \A n \in 0..N : f[n] = IF n = 0 THEN [state |-> EmptyState, rows |-> rows]
                             ELSE EdgeStep(f[n - 1], events, n, from)
  BY <1>3, Zenon DEF IsEdgeFold
<1>5. QED
  BY <1>4 DEF f

LEMMA EdgeFoldStarts ==
  ASSUME NEW events \in Seq(Commands), NEW rows, NEW from \in Nat
  PROVE  EdgeFold(events, rows, from)[0] = [state |-> EmptyState, rows |-> rows]
<1>1. 0 \in 0..Len(events)
  OBVIOUS
<1>2. QED
  BY <1>1, EdgeFoldIs

LEMMA EdgeFoldSteps ==
  ASSUME NEW events \in Seq(Commands), NEW rows, NEW from \in Nat, NEW n \in 1..Len(events)
  PROVE  EdgeFold(events, rows, from)[n] =
           EdgeStep(EdgeFold(events, rows, from)[n - 1], events, n, from)
<1> DEFINE f == EdgeFold(events, rows, from)
<1>1. \A m \in 0..Len(events) :
        f[m] = IF m = 0 THEN [state |-> EmptyState, rows |-> rows]
               ELSE EdgeStep(f[m - 1], events, m, from)
  BY EdgeFoldIs
<1> HIDE DEF f
<1>2. n \in 0..Len(events) /\ n # 0
  OBVIOUS
<1>3. f[n] = EdgeStep(f[n - 1], events, n, from)
  BY <1>1, <1>2
<1>4. QED
  BY <1>3 DEF f

(* Ledgers that begin alike fold alike.                                     *)
LEMMA EdgeFoldPrefix ==
  ASSUME NEW a \in Seq(Commands), NEW b \in Seq(Commands), NEW rows,
         NEW N \in Nat, N <= Len(a), N <= Len(b), \A n \in 1..N : a[n] = b[n]
  PROVE  EdgeFold(a, rows, 0)[N] = EdgeFold(b, rows, 0)[N]
<1> DEFINE f == EdgeFold(a, rows, 0)
           g == EdgeFold(b, rows, 0)
           S == {n \in 0..N : f[n] # g[n]}
<1> SUFFICES ASSUME S # {} PROVE FALSE
  OBVIOUS
<1>0. S \in SUBSET Nat
  OBVIOUS
<1> HIDE DEF S
<1>1. PICK n \in S : \A m \in S : n <= m
  BY <1>0, LeastExists
<1> USE DEF S
<1>2. n # 0
  <2>1. f[0] = [state |-> EmptyState, rows |-> rows] /\ g[0] = [state |-> EmptyState, rows |-> rows]
    <3> 0 \in Nat
      OBVIOUS
    <3>1. QED
      BY EdgeFoldStarts
  <2> HIDE DEF f, g
  <2>2. QED
    BY <1>1, <2>1
<1>3. n \in 1..N /\ n - 1 \in 0..N /\ f[n - 1] = g[n - 1]
  BY <1>1, <1>2
<1>4. f[n] = EdgeStep(f[n - 1], a, n, 0) /\ g[n] = EdgeStep(g[n - 1], b, n, 0)
  BY <1>3, EdgeFoldSteps
<1> HIDE DEF f, g
<1>5. f[n] = g[n]
  BY <1>3, <1>4 DEF EdgeStep, FoldFrom
<1>6. QED
  BY <1>1, <1>5

(* A run that goes on behind its checkpoint ends where a wiped run does.    *)
LEMMA EdgeFoldResumes ==
  ASSUME NEW h \in Seq(Commands), NEW from \in 0..Len(h)
  PROVE  Rebuild(h, EdgeFold(h, {}, 0)[from].rows, from) = EdgeFold(h, {}, 0)[Len(h)].rows
<1> DEFINE f == EdgeFold(h, {}, 0)
           R == f[from].rows
           g == EdgeFold(h, R, from)
           Same(n) == /\ g[n].state = f[n].state
                      /\ g[n].rows = IF n <= from THEN R ELSE f[n].rows
           S == {n \in 0..Len(h) : ~Same(n)}
<1>0. S \in SUBSET Nat
  OBVIOUS
<1>1. S = {}
  <2> SUFFICES ASSUME S # {} PROVE FALSE
    OBVIOUS
  <2> HIDE DEF S
  <2>1. PICK n \in S : \A m \in S : n <= m
    BY <1>0, LeastExists
  <2> USE DEF S
  <2>2. n # 0
    <3>1. /\ f[0] = [state |-> EmptyState, rows |-> {}]
          /\ g[0] = [state |-> EmptyState, rows |-> R]
      <4> 0 \in Nat /\ from \in Nat
        OBVIOUS
      <4> HIDE DEF R
      <4>1. QED
        BY EdgeFoldStarts
    <3>2. 0 <= from /\ (from = 0 => R = {})
      BY <3>1
    <3> HIDE DEF f, g, R
    <3>3. QED
      BY <2>1, <3>1, <3>2
  <2>3. n \in 1..Len(h) /\ n - 1 \in 0..Len(h) /\ Same(n - 1)
    BY <2>1, <2>2
  <2>4. f[n] = EdgeStep(f[n - 1], h, n, 0) /\ g[n] = EdgeStep(g[n - 1], h, n, from)
    BY <2>3, EdgeFoldSteps
  <2> HIDE DEF f, g, R
  <2>5. CASE n <= from
    BY <2>3, <2>4, <2>5 DEF EdgeStep, FoldFrom
  <2>6. CASE n = from + 1
    <3>1. g[n - 1].rows = f[n - 1].rows
      BY <2>3, <2>6 DEF R
    <3>2. QED
      BY <2>3, <2>4, <2>6, <3>1 DEF EdgeStep, FoldFrom
  <2>7. CASE n > from + 1
    BY <2>3, <2>4, <2>7 DEF EdgeStep, FoldFrom
  <2>8. Same(n)
    BY <2>3, <2>5, <2>6, <2>7
  <2>9. QED
    BY <2>1, <2>8
<1>2. Same(Len(h))
  BY <1>1
<1> HIDE DEF f, g
<1>3. g[Len(h)].rows = f[Len(h)].rows
  BY <1>2
<1>4. QED
  BY <1>3 DEF f, g, Rebuild

-----------------------------------------------------------------------------
(* The edges are those of the fold at their checkpoint, Tier-0 is its state *)
(* at the end.                                                             *)
EdgeInv ==
  /\ history \in Seq(Commands)
  /\ edgeSeq \in 0..Len(history)
  /\ edges = EdgeFold(history, {}, 0)[edgeSeq].rows
  /\ tier0Rows = EdgeFold(history, {}, 0)[Len(history)].state

LEMMA InitEdges == EdgeInit => EdgeInv
<1> SUFFICES ASSUME EdgeInit PROVE EdgeInv
  OBVIOUS
<1>1. Len(history) = 0 /\ history \in Seq(Commands) /\ edgeSeq = 0
  BY DEF EdgeInit
<1>2. EdgeFold(history, {}, 0)[0] = [state |-> EmptyState, rows |-> {}]
  <2> 0 \in Nat
    OBVIOUS
  <2>1. QED
    BY <1>1, EdgeFoldStarts
<1>3. QED
  BY <1>1, <1>2 DEF EdgeInit, EdgeInv

LEMMA NextEdges == EdgeInv /\ [EdgeNext]_edgeVars => EdgeInv'
<1> SUFFICES ASSUME EdgeInv, [EdgeNext]_edgeVars PROVE EdgeInv'
  OBVIOUS
<1>0. Len(history) \in Nat /\ edgeSeq \in Nat
  BY DEF EdgeInv
<1>1. ASSUME NEW ev \in Commands, AppendCommand(ev)
      PROVE  EdgeInv'
  <2>1. /\ history' = Append(history, ev) /\ edges' = edges /\ edgeSeq' = edgeSeq
        /\ tier0Rows' = Reduce(tier0Rows, ev, Len(history'))
    BY <1>1 DEF AppendCommand
  <2>2. /\ history' \in Seq(Commands) /\ Len(history') = Len(history) + 1
        /\ history'[Len(history')] = ev
        /\ \A n \in 1..Len(history) : history'[n] = history[n]
    BY <1>1, <2>1 DEF EdgeInv
  <2>3. \A n \in 0..Len(history) : EdgeFold(history', {}, 0)[n] = EdgeFold(history, {}, 0)[n]
    <3> TAKE n \in 0..Len(history)
    <3>1. \A m \in 1..n : history'[m] = history[m]
      BY <1>0, <2>2
    <3>2. history \in Seq(Commands) /\ n \in Nat /\ n <= Len(history) /\ n <= Len(history')
      BY <1>0, <2>2 DEF EdgeInv
    <3>3. QED
      BY <2>2, <3>1, <3>2, EdgeFoldPrefix
  <2>4. EdgeFold(history', {}, 0)[Len(history')] =
          EdgeStep(EdgeFold(history', {}, 0)[Len(history)], history', Len(history'), 0)
    BY <1>0, <2>2, EdgeFoldSteps
  <2>5. EdgeFold(history', {}, 0)[Len(history')].state = tier0Rows'
    BY <1>0, <2>1, <2>2, <2>3, <2>4 DEF EdgeStep, FoldFrom, EdgeInv
  <2>6. QED
    BY <1>0, <2>1, <2>2, <2>3, <2>5 DEF EdgeInv
<1>2. ASSUME NEW wipe \in BOOLEAN, RunEdges(wipe)
      PROVE  EdgeInv'
  <2>1. /\ history' = history /\ tier0Rows' = tier0Rows /\ edgeSeq' = Len(history)
        /\ edges' = IF wipe THEN Rebuild(history, {}, 0) ELSE Rebuild(history, edges, edgeSeq)
    BY <1>2 DEF RunEdges
  <2>2. edges' = EdgeFold(history, {}, 0)[Len(history)].rows
    BY <1>0, <2>1, EdgeFoldResumes DEF EdgeInv, Rebuild
  <2>3. QED
    BY <1>0, <2>1, <2>2 DEF EdgeInv
<1>3. CASE UNCHANGED edgeVars
  BY <1>3 DEF edgeVars, EdgeInv
<1>4. QED
  BY <1>1, <1>2, <1>3 DEF EdgeNext

(* However the runs of the projection are cut, and whether any of them      *)
(* wiped, the edges are what a rebuild makes of the ledger up to their      *)
(* checkpoint.                                                             *)
THEOREM EdgesReplayTheLedger == EdgeSpec => []EdgesAreReplay
<1>1. EdgeInv => EdgesAreReplay
  <2> SUFFICES ASSUME EdgeInv PROVE EdgesAreReplay
    OBVIOUS
  <2> DEFINE cut == SubSeq(history, 1, edgeSeq)
  <2>1. history \in Seq(Commands) /\ Len(history) \in Nat /\ edgeSeq \in Nat /\ edgeSeq <= Len(history)
    BY DEF EdgeInv
  <2>2. cut \in Seq(Commands) /\ Len(cut) = edgeSeq /\ \A n \in 1..edgeSeq : cut[n] = history[n]
    BY <2>1
  <2> HIDE DEF cut
  <2>3. EdgeFold(cut, {}, 0)[edgeSeq] = EdgeFold(history, {}, 0)[edgeSeq]
    BY <2>1, <2>2, EdgeFoldPrefix
  <2>4. Rebuild(cut, {}, 0) = edges
    BY <2>2, <2>3 DEF EdgeInv, Rebuild
  <2>5. QED
    BY <2>4 DEF cut, EdgesAreReplay
<1>2. QED
  BY <1>1, InitEdges, NextEdges, PTL DEF EdgeSpec

-----------------------------------------------------------------------------
EdgeTypes == {"SemanticAsserted", "OverrideApplied", "CorrectionApplied"}

UserTypes == {"OverrideApplied", "CorrectionApplied"}

(* What the decisions read of a command.                                    *)
CommandOK(ev) ==
  /\ ev.type \in EdgeTypes \cup LockTypes \cup {"Invalidated", "ContradictionRecorded"}
  /\ ev.ent \in Entities /\ ev.pred \in Predicates \cup {None}
  /\ ev.val \in Values \cup {None} /\ ev.rel \in RelTypes \cup {None} /\ ev.scope \in Scopes
  /\ ev.auth \in Authorities /\ (ev.auth = "USER_OVERRIDE" <=> ev.type \in UserTypes)
  /\ ev.st \in {None, "PROBABLE"} /\ (ev.type = "SemanticAsserted" => ev.st = "PROBABLE")
  /\ ev.type = "SemanticAsserted" => ev.auth \in {"machine", "operator"}
  /\ ev.type \in EdgeTypes => ev.pred \in Predicates

LEMMA CommandsOK ==
  ASSUME NEW ev \in Commands
  PROVE  CommandOK(ev)
<1>0. None # "USER_OVERRIDE" /\ None # "machine"
  BY NonesAreNotValues
<1>1. ASSUME ev \in Assertions
      PROVE  CommandOK(ev)
  <2>1. PICK e \in Entities, p \in Predicates, v \in Objects, r \in Types,
             a \in {<<"machine", "SOURCE">>} \cup ({"operator"} \X Scopes) :
               ev = Command("SemanticAsserted", e, p, v, a[1], r, a[2], None)
    BY <1>1 DEF Assertions
  <2>2. a[1] \in {"machine", "operator"} /\ a[2] \in Scopes
    BY DEF Scopes
  <2>3. QED
    BY <1>0, <2>1, <2>2
       DEF Command, CommandOK, Objects, Types, EdgeTypes, UserTypes, LockTypes, Authorities
<1>2. ASSUME ev \in Overrides \cup Corrections(Objects \cup FactIds)
      PROVE  CommandOK(ev)
  BY <1>0, <1>2 DEF Overrides, Corrections, Command, CommandOK, Scopes, Objects, Types,
                    EdgeTypes, UserTypes, LockTypes, Authorities
<1>3. ASSUME ev \in Invalidations
      PROVE  CommandOK(ev)
  <2>1. PICK e \in Entities, s \in Scopes, x \in {<<None, None>>} \cup (Predicates \X Types) :
               ev = Command("Invalidated", e, x[1], None, None, x[2], s, None)
    BY <1>3 DEF Invalidations
  <2>2. x[1] \in Predicates \cup {None} /\ x[2] \in RelTypes \cup {None}
    BY DEF Types
  <2>3. QED
    BY <1>0, <2>1, <2>2 DEF Command, CommandOK, EdgeTypes, UserTypes, LockTypes, Authorities
<1>4. ASSUME ev \notin Assertions, ev \notin Overrides, ev \notin Corrections(Objects \cup FactIds),
             ev \notin Invalidations
      PROVE  CommandOK(ev)
  BY <1>0, <1>4 DEF Commands, Command, CommandOK, Scopes, Types, EdgeTypes, UserTypes,
                    LockTypes, Authorities
<1>5. QED
  BY <1>1, <1>2, <1>3, <1>4

-----------------------------------------------------------------------------
(* Rows of the edge table.                                                 *)
EdgeRow ==
  [fact : {FactId(ev) : ev \in Commands}, ent : Entities, pred : Predicates \cup {None},
   val : Values \cup {None}, rel : RelTypes \cup {None}, scope : Scopes,
   auth : {"machine", "operator", "USER_OVERRIDE"}, state : {"PROBABLE", "USER_CONFIRMED", "CONFLICTING"},
   active : BOOLEAN, seq : Nat]

(* The fact of an edge names its entity and predicate and who asserted it.  *)
FactNames(e) ==
  /\ e.fact[2] = e.ent /\ e.fact[3] = e.pred
  /\ e.auth = "USER_OVERRIDE" <=> e.fact[1] # "SemanticAsserted"

EdgesUpTo(rows, n) ==
  rows \subseteq EdgeRow /\ \A e \in rows : FactNames(e) /\ e.seq <= n

SameFact(x, e) ==
  /\ x.fact = e.fact /\ x.ent = e.ent /\ x.pred = e.pred /\ x.val = e.val
  /\ x.rel = e.rel /\ x.scope = e.scope /\ x.auth = e.auth

LEMMA EdgeType ==
  ASSUME NEW ev \in Commands, ev.type \in EdgeTypes, NEW n \in Nat
  PROVE  /\ Edge(ev, n) \in EdgeRow /\ FactNames(Edge(ev, n))
         /\ Edge(ev, n).seq = n /\ Edge(ev, n).active /\ Edge(ev, n).fact = FactId(ev)
         /\ Edge(ev, n).ent = ev.ent /\ Edge(ev, n).pred = ev.pred /\ Edge(ev, n).val = ev.val
         /\ Edge(ev, n).rel = ev.rel /\ Edge(ev, n).scope = ev.scope
         /\ Edge(ev, n).auth = "USER_OVERRIDE" <=> ev.type \in UserTypes
<1>1. CommandOK(ev)
  BY CommandsOK
<1>2. FactNames(Edge(ev, n))
  BY <1>1 DEF FactNames, Edge, FactId, EdgeTypes, CommandOK
<1>3. FactId(ev) \in {FactId(c) : c \in Commands}
  OBVIOUS
<1>4. /\ Edge(ev, n).fact = FactId(ev) /\ Edge(ev, n).seq = n /\ Edge(ev, n).active
      /\ Edge(ev, n).ent = ev.ent /\ Edge(ev, n).pred = ev.pred /\ Edge(ev, n).val = ev.val
      /\ Edge(ev, n).rel = ev.rel /\ Edge(ev, n).scope = ev.scope
      /\ Edge(ev, n).auth = "USER_OVERRIDE" <=> ev.type \in UserTypes
  BY <1>1 DEF Edge, EdgeTypes, UserTypes, CommandOK
<1>5. Edge(ev, n) \in EdgeRow
  BY <1>1, <1>3 DEF Edge, EdgeRow, CommandOK
<1>6. QED
  BY <1>2, <1>4, <1>5

(* An edge that is active after a deactivation was there and was not hit;   *)
(* one that was not hit is still there.                                    *)
LEMMA DeactivateType ==
  ASSUME NEW rows, NEW n \in Nat, EdgesUpTo(rows, n), NEW hits
  PROVE  EdgesUpTo(Deactivate(rows, hits, n), n)
<1> SUFFICES ASSUME NEW e \in rows, NEW x, x = [e EXCEPT !.active = FALSE, !.seq = n]
             PROVE  x \in EdgeRow /\ FactNames(x) /\ x.seq <= n
  BY DEF Deactivate, EdgesUpTo
<1>1. e \in EdgeRow /\ FactNames(e)
  BY DEF EdgesUpTo
<1>2. /\ x \in EdgeRow /\ x.seq = n
      /\ x.fact = e.fact /\ x.ent = e.ent /\ x.pred = e.pred /\ x.auth = e.auth
  BY <1>1 DEF EdgeRow
<1>3. QED
  BY <1>1, <1>2 DEF FactNames

LEMMA DeactivateActive ==
  ASSUME NEW rows, NEW n \in Nat, EdgesUpTo(rows, n), NEW hits,
         NEW x \in Deactivate(rows, hits, n), x.active
  PROVE  x \in rows /\ x \notin hits
<1>1. PICK e \in rows : x = IF e.active /\ e \in hits
                           THEN [e EXCEPT !.active = FALSE, !.seq = n] ELSE e
  BY DEF Deactivate
<1>2. e \in EdgeRow
  BY DEF EdgesUpTo
<1>3. ~(e.active /\ e \in hits)
  BY <1>1, <1>2 DEF EdgeRow
<1>4. QED
  BY <1>1, <1>3

LEMMA DeactivateSpares ==
  ASSUME NEW rows, NEW n, NEW hits, NEW e \in rows, e \notin hits
  PROVE  e \in Deactivate(rows, hits, n)
BY DEF Deactivate

(* A contradiction relabels active edges and moves nothing else.            *)
Relabelled(e, ev, n) ==
  IF e.active /\ e.ent = ev.ent /\ e.pred = ev.pred /\ SameType(ev, e)
  THEN [e EXCEPT !.state = "CONFLICTING", !.seq = n] ELSE e

LEMMA ConflictRows ==
  ASSUME NEW rows, NEW ev, NEW n
  PROVE  MarkConflicting(rows, ev, n) = {Relabelled(e, ev, n) : e \in rows}
BY DEF MarkConflicting, Relabelled

LEMMA ConflictImage ==
  ASSUME NEW rows, NEW n \in Nat, EdgesUpTo(rows, n), NEW ev, NEW e \in rows,
         NEW x, x = Relabelled(e, ev, n)
  PROVE  /\ x \in EdgeRow /\ FactNames(x) /\ SameFact(x, e)
         /\ x.active <=> e.active
         /\ e.seq <= x.seq /\ x.seq <= n
<1>1. e \in EdgeRow /\ FactNames(e) /\ e.seq <= n /\ e.seq \in Nat
  BY DEF EdgesUpTo, EdgeRow
<1>2. /\ x \in EdgeRow /\ SameFact(x, e) /\ (x.active <=> e.active)
      /\ x.seq \in {e.seq, n}
  BY <1>1 DEF EdgeRow, SameFact, Relabelled
<1>3. QED
  BY <1>1, <1>2 DEF FactNames, SameFact

-----------------------------------------------------------------------------
LEMMA ApplyCases ==
  ASSUME NEW rows, NEW ev \in Commands, NEW n, NEW locks
  PROVE  /\ ev.type = "SemanticAsserted" /\ ~locks[ev.ent] =>
              ApplyEdge(rows, ev, n, locks) = Upsert(rows, Edge(ev, n))
         /\ ev.type \in UserTypes /\ ~locks[ev.ent] =>
              ApplyEdge(rows, ev, n, locks) =
                IF ev.val = None THEN Supersede(rows, ev, n)
                ELSE Upsert(Supersede(rows, ev, n), Edge(ev, n))
         /\ ev.type = "Invalidated" =>
              ApplyEdge(rows, ev, n, locks) = InvalidateEdges(rows, ev, n)
         /\ ev.type = "ContradictionRecorded" =>
              ApplyEdge(rows, ev, n, locks) = MarkConflicting(rows, ev, n)
         /\ ev.type \in LockTypes \/ (ev.type \in EdgeTypes /\ locks[ev.ent]) =>
              ApplyEdge(rows, ev, n, locks) = rows
BY DEF ApplyEdge, UserTypes, EdgeTypes, LockTypes

(* The cases that cover every command.                                      *)
Untouched(ev, locks) == ev.type \in LockTypes \/ (ev.type \in EdgeTypes /\ locks[ev.ent])

LEMMA CommandCases ==
  ASSUME NEW ev \in Commands, NEW locks
  PROVE  \/ ev.type = "SemanticAsserted" /\ ~locks[ev.ent]
         \/ ev.type \in UserTypes /\ ~locks[ev.ent]
         \/ ev.type = "Invalidated"
         \/ ev.type = "ContradictionRecorded"
         \/ Untouched(ev, locks)
BY CommandsOK DEF CommandOK, UserTypes, EdgeTypes, Untouched

(* What a step makes of the edges: an active edge is the new one, one that  *)
(* was there and was not hit, or one relabelled by a contradiction.         *)
LEMMA ApplyType ==
  ASSUME NEW rows, NEW n \in Nat, EdgesUpTo(rows, n), NEW ev \in Commands, NEW locks
  PROVE  EdgesUpTo(ApplyEdge(rows, ev, n, locks), n)
<1>1. ASSUME NEW base, EdgesUpTo(base, n), ev.type \in EdgeTypes
      PROVE  EdgesUpTo(Upsert(base, Edge(ev, n)), n)
  BY <1>1, EdgeType DEF Upsert, EdgesUpTo
<1>2. EdgesUpTo(Supersede(rows, ev, n), n) /\ EdgesUpTo(InvalidateEdges(rows, ev, n), n)
  BY DeactivateType DEF Supersede, InvalidateEdges
<1>3. EdgesUpTo(MarkConflicting(rows, ev, n), n)
  BY ConflictImage, ConflictRows DEF EdgesUpTo
<1>4. UserTypes \subseteq EdgeTypes /\ "SemanticAsserted" \in EdgeTypes
  BY DEF UserTypes, EdgeTypes
<1>5. QED
  BY <1>1, <1>2, <1>3, <1>4, ApplyCases, CommandCases DEF Untouched

-----------------------------------------------------------------------------
(* Invalidations reach what they aim at.                                    *)
AimsAt(ev, e) ==
  /\ e.ent = ev.ent /\ ev.pred \in {None, e.pred}
  /\ e.scope = ev.scope /\ ev.rel \in {None, e.rel}

DownIn(h, n, rows) ==
  \A m \in 1..n : h[m].type = "Invalidated" =>
    \A e \in rows : e.active /\ AimsAt(h[m], e) => e.seq > m

LEMMA ApplyDown ==
  ASSUME NEW h \in Seq(Commands), NEW n \in 1..Len(h), NEW rows, EdgesUpTo(rows, n),
         DownIn(h, n - 1, rows), NEW locks
  PROVE  DownIn(h, n, ApplyEdge(rows, h[n], n, locks))
<1> DEFINE ev == h[n]
<1> SUFFICES ASSUME NEW m \in 1..n, h[m].type = "Invalidated",
                    NEW x \in ApplyEdge(rows, ev, n, locks), x.active, AimsAt(h[m], x)
             PROVE  x.seq > m
  BY DEF DownIn
<1>1. ev \in Commands /\ n \in Nat /\ m \in Nat /\ (m # n => m \in 1..(n - 1))
  OBVIOUS
<1>2. m # n => \A e \in rows : e.active /\ AimsAt(h[m], e) => e.seq > m
  BY <1>1 DEF DownIn
<1>3. ASSUME ev.type \in EdgeTypes, x = Edge(ev, n)
      PROVE  x.seq > m
  <2>1. m # n
    BY <1>3 DEF EdgeTypes
  <2>2. QED
    BY <1>1, <1>3, <2>1, EdgeType
<1>4. CASE ev.type = "SemanticAsserted" /\ ~locks[ev.ent]
  <2>1. x = Edge(ev, n) \/ x \in rows
    BY <1>1, <1>4, ApplyCases DEF Upsert
  <2>2. m # n /\ ev.type \in EdgeTypes
    BY <1>4 DEF EdgeTypes
  <2>3. QED
    BY <1>2, <1>3, <2>1, <2>2
<1>5. CASE ev.type \in UserTypes /\ ~locks[ev.ent]
  <2>1. x = Edge(ev, n) \/ x \in Supersede(rows, ev, n)
    BY <1>1, <1>5, ApplyCases DEF Upsert
  <2>2. m # n /\ ev.type \in EdgeTypes
    BY <1>5 DEF EdgeTypes, UserTypes
  <2>3. x \in Supersede(rows, ev, n) => x \in rows
    BY <1>1, DeactivateActive DEF Supersede
  <2>4. QED
    BY <1>2, <1>3, <2>1, <2>2, <2>3
<1>6. CASE ev.type = "Invalidated"
  <2> DEFINE hits == {e \in rows : /\ e.ent = ev.ent /\ (ev.pred = None \/ e.pred = ev.pred)
                                   /\ e.scope = ev.scope /\ SameType(ev, e)}
  <2>1. x \in Deactivate(rows, hits, n)
    BY <1>1, <1>6, ApplyCases DEF InvalidateEdges
  <2> HIDE DEF hits
  <2>2. x \in rows /\ x \notin hits
    BY <1>1, <2>1, DeactivateActive
  <2>3. m # n
    BY <2>2 DEF hits, AimsAt, SameType
  <2>4. QED
    BY <1>2, <2>2, <2>3
<1>7. CASE ev.type = "ContradictionRecorded"
  <2>1. x \in MarkConflicting(rows, ev, n) /\ m # n
    BY <1>1, <1>7, ApplyCases
  <2>2. PICK e \in rows : x = Relabelled(e, ev, n)
    BY <2>1, ConflictRows
  <2>3. SameFact(x, e) /\ e.active /\ e.seq <= x.seq /\ x.seq <= n /\ e.seq \in Nat /\ x.seq \in Nat
    BY <1>1, <2>2, ConflictImage DEF EdgesUpTo, EdgeRow
  <2>4. AimsAt(h[m], e)
    BY <2>3 DEF AimsAt, SameFact
  <2>5. QED
    BY <1>1, <1>2, <2>1, <2>3, <2>4
<1>8. CASE Untouched(ev, locks)
  <2>1. x \in rows /\ m # n
    BY <1>1, <1>8, ApplyCases DEF Untouched, LockTypes, EdgeTypes
  <2>2. QED
    BY <1>2, <2>1
<1>9. QED
  BY <1>1, <1>4, <1>5, <1>6, <1>7, <1>8, CommandCases

-----------------------------------------------------------------------------
(* A user's decision supersedes the one before it.                          *)
UserEdges(rows) == {e \in rows : e.active /\ e.auth = "USER_OVERRIDE"}

OneUserIn(rows) ==
  \A e, f \in UserEdges(rows) : <<e.ent, e.pred, e.rel>> = <<f.ent, f.pred, f.rel>> => e = f

LEMMA ApplyOneUser ==
  ASSUME NEW rows, NEW n \in Nat, EdgesUpTo(rows, n), OneUserIn(rows),
         NEW ev \in Commands, ev.prior = None, NEW locks
  PROVE  OneUserIn(ApplyEdge(rows, ev, n, locks))
<1>1. ASSUME NEW base, UserEdges(base) \subseteq UserEdges(rows)
      PROVE  OneUserIn(base)
  BY <1>1 DEF OneUserIn
<1>2. CASE ev.type = "SemanticAsserted" /\ ~locks[ev.ent]
  <2>1. Edge(ev, n).auth # "USER_OVERRIDE"
    BY <1>2, EdgeType DEF UserTypes, EdgeTypes
  <2>2. UserEdges(Upsert(rows, Edge(ev, n))) \subseteq UserEdges(rows)
    BY <2>1 DEF UserEdges, Upsert
  <2>3. QED
    BY <1>1, <1>2, <2>2, ApplyCases
<1>3. CASE ev.type \in UserTypes /\ ~locks[ev.ent]
  <2> DEFINE hits == {e \in rows : /\ e.ent = ev.ent /\ e.pred = ev.pred /\ SameType(ev, e)
                                   /\ ev.prior \in {None, e.val, e.fact}}
             rest == Deactivate(rows, hits, n)
  <2>1. Supersede(rows, ev, n) = rest
    BY DEF Supersede
  <2>2. \A x \in UserEdges(rest) : x \in UserEdges(rows) /\ x \notin hits
    <3> HIDE DEF hits
    <3>1. QED
      BY DeactivateActive DEF UserEdges
  <2> HIDE DEF rest
  <2>3. OneUserIn(rest)
    BY <1>1, <2>2
  <2>4. \A x \in UserEdges(rest) : <<x.ent, x.pred, x.rel>> # <<ev.ent, ev.pred, ev.rel>>
    BY <2>2 DEF UserEdges, SameType
  <2> HIDE DEF hits
  <2>5. ev.type \in EdgeTypes
    BY <1>3 DEF UserTypes, EdgeTypes
  <2>6. /\ Edge(ev, n).ent = ev.ent /\ Edge(ev, n).pred = ev.pred /\ Edge(ev, n).rel = ev.rel
    BY <2>5, EdgeType
  <2>7. UserEdges(Upsert(rest, Edge(ev, n))) \subseteq UserEdges(rest) \cup {Edge(ev, n)}
    BY DEF Upsert, UserEdges
  <2>8. OneUserIn(Upsert(rest, Edge(ev, n)))
    BY <2>3, <2>4, <2>6, <2>7 DEF OneUserIn
  <2>9. QED
    BY <1>3, <2>1, <2>3, <2>8, ApplyCases
<1>4. CASE ev.type = "Invalidated"
  <2>1. UserEdges(InvalidateEdges(rows, ev, n)) \subseteq UserEdges(rows)
    BY DeactivateActive DEF InvalidateEdges, UserEdges
  <2>2. QED
    BY <1>1, <1>4, <2>1, ApplyCases
<1>5. CASE ev.type = "ContradictionRecorded"
  <2>1. SUFFICES ASSUME NEW x \in UserEdges(MarkConflicting(rows, ev, n)),
                        NEW y \in UserEdges(MarkConflicting(rows, ev, n)),
                        <<x.ent, x.pred, x.rel>> = <<y.ent, y.pred, y.rel>>
                 PROVE  x = y
    BY <1>5, ApplyCases DEF OneUserIn
  <2>2. PICK e \in rows : x = Relabelled(e, ev, n)
    BY ConflictRows DEF UserEdges
  <2>3. PICK f \in rows : y = Relabelled(f, ev, n)
    BY ConflictRows DEF UserEdges
  <2>4. SameFact(x, e) /\ (x.active <=> e.active)
    BY <2>2, ConflictImage
  <2>5. SameFact(y, f) /\ (y.active <=> f.active)
    BY <2>3, ConflictImage
  <2>6. e \in UserEdges(rows) /\ f \in UserEdges(rows) /\ <<e.ent, e.pred, e.rel>> = <<f.ent, f.pred, f.rel>>
    BY <2>1, <2>4, <2>5 DEF UserEdges, SameFact
  <2>7. e = f
    BY <2>6 DEF OneUserIn
  <2>8. QED
    BY <2>2, <2>3, <2>7
<1>6. CASE Untouched(ev, locks)
  BY <1>6, ApplyCases DEF Untouched
<1>7. QED
  BY <1>2, <1>3, <1>4, <1>5, <1>6, CommandCases

-----------------------------------------------------------------------------
(* What a run folds beside the edges.                                       *)
FoldState == [rows : [RowKeys -> Row \cup {NoRow}], locks : [Entities -> BOOLEAN]]

StateUpTo(s, n) ==
  s \in FoldState /\ \A k \in RowKeys : s.rows[k] # NoRow => s.rows[k].seq <= n

UserWon(row) == row # NoRow /\ row.authority = "USER_OVERRIDE" /\ row.object # None

CommandKey(ev) == <<ev.ent, ev.pred>>

Decides(ev, s) == ev.type \in UserTypes /\ ~s.locks[ev.ent]

LEMMA SeedIsRow ==
  ASSUME NEW row \in Row \cup {NoRow}
  PROVE  /\ RowOrSeed(row) \in Row
         /\ row # NoRow => RowOrSeed(row) = row
         /\ row = NoRow => RowOrSeed(row).authority = None /\ RowOrSeed(row).seq = 0
BY DEF RowOrSeed, SeedRow, Row, Authorities, RowStates

LEMMA MarkerIsRow ==
  ASSUME NEW row \in Row \cup {NoRow}, NEW ev, NEW n \in Nat
  PROVE  /\ LockMarker(row, ev, n) \in Row /\ LockMarker(row, ev, n).seq = n
         /\ LockMarker(row, ev, n).object = None
<1>1. PICK base \in Row : base = RowOrSeed(row)
  BY SeedIsRow
<1>2. LockMarker(row, ev, n) =
        [base EXCEPT !.object = None, !.seq = n,
           !.state = IF ev.type = "Locked" THEN "LOCKED" ELSE "UNLOCKED"]
  BY <1>1 DEF LockMarker
<1>3. QED
  BY <1>2 DEF Row, RowStates

(* A machine's event leaves a user's winner alone and makes none.           *)
LEMMA ApplyCommand ==
  ASSUME NEW row \in Row, NEW ev \in Commands, NEW n \in Nat, row.seq <= n
  PROVE  /\ ApplyChange(row, ev, n) \in Row
         /\ ApplyChange(row, ev, n).seq <= n
         /\ ev.type \in UserTypes => ApplyChange(row, ev, n) = OverrideWinner(row, ev, n)
         /\ ev.type \notin UserTypes /\ ApplyChange(row, ev, n).authority = "USER_OVERRIDE" =>
              ApplyChange(row, ev, n) = row
<1>0. CommandOK(ev)
  BY CommandsOK
<1>1. OverrideWinner(row, ev, n) \in Row /\ OverrideWinner(row, ev, n).seq = n
  BY <1>0 DEF OverrideWinner, Row, CommandOK, Authorities, RowStates
<1>2. Inherit(ev.auth, row) \in Authorities
  BY <1>0 DEF Inherit, CommandOK, Row
<1>3. ASSUME NEW label \in RowStates
      PROVE  /\ Relabel(row, ev, n, label) \in Row /\ Relabel(row, ev, n, label).seq = n
             /\ Relabel(row, ev, n, label).authority = Inherit(ev.auth, row)
  BY <1>2 DEF Relabel, Row
<1>4. /\ Assertion(row, ev, n) \in Row /\ Assertion(row, ev, n).seq = n
      /\ Assertion(row, ev, n).authority = Inherit(ev.auth, row)
  BY <1>0, <1>2 DEF Assertion, Row, CommandOK, RowStates
<1>5. ev.type \notin {"EntityResolved", "EntityMentioned"}
  BY <1>0 DEF CommandOK, EdgeTypes, LockTypes
<1>6. /\ MachineChange(row, ev, n) \in Row /\ MachineChange(row, ev, n).seq = n
      /\ MachineChange(row, ev, n).authority = Inherit(ev.auth, row)
  BY <1>3, <1>4, <1>5 DEF MachineChange, RowStates
<1>7. ev.type \notin UserTypes /\ row.authority # "USER_OVERRIDE" =>
        Inherit(ev.auth, row) # "USER_OVERRIDE"
  BY <1>0 DEF Inherit, CommandOK
<1>8. ev.type \notin UserTypes => ev.auth # "USER_OVERRIDE"
  BY <1>0 DEF CommandOK
<1>9. QED
  BY <1>1, <1>6, <1>7, <1>8 DEF ApplyChange, Outranked, UserTypes

LEMMA ReduceLocksOf ==
  ASSUME NEW s \in FoldState, NEW ev \in Commands, NEW n \in Nat, ev.type \notin LockTypes
  PROVE  Reduce(s, ev, n).locks = s.locks
BY DEF Reduce, Change, FoldState

(* The one row a command may touch.                                         *)
LEMMA ReduceRowOf ==
  ASSUME NEW s \in FoldState, NEW ev \in Commands, NEW n \in Nat, NEW k \in RowKeys
  PROVE  LET row == Reduce(s, ev, n).rows[k] IN
         \/ row = s.rows[k] /\ ~(Decides(ev, s) /\ k = CommandKey(ev))
         \/ ev.type \in LockTypes /\ row = LockMarker(s.rows[k], ev, n)
         \/ /\ ev.type \notin LockTypes /\ ~s.locks[ev.ent] /\ k = CommandKey(ev)
            /\ row = ApplyChange(RowOrSeed(s.rows[k]), ev, n)
<1>0. CommandOK(ev)
  BY CommandsOK
<1>1. LockTypes \cap UserTypes = {}
  BY DEF LockTypes, UserTypes
<1>2. CASE ev.type \in LockTypes
  <2>1. Reduce(s, ev, n).rows = [s.rows EXCEPT ![LockKey(ev.ent)] = LockMarker(@, ev, n)]
    BY <1>2 DEF Reduce, SetLock
  <2>2. QED
    BY <1>1, <1>2, <2>1 DEF FoldState, Decides
<1>3. CASE ev.type \notin LockTypes /\ (~HasTarget(ev) \/ s.locks[ev.ent])
  <2>1. Reduce(s, ev, n) = s
    BY <1>3 DEF Reduce
  <2>2. ev.type \in UserTypes => HasTarget(ev)
    BY <1>0, NoneIsNoPredicate DEF UserTypes, HasTarget, ChangeTypes, CommandOK, EdgeTypes
  <2>3. QED
    BY <1>3, <2>1, <2>2 DEF Decides
<1>4. CASE ev.type \notin LockTypes /\ HasTarget(ev) /\ ~s.locks[ev.ent]
  <2>1. Reduce(s, ev, n) = Change(s, ev, n)
    BY <1>4 DEF Reduce
  <2>2. ev.type \notin {"EntityResolved", "EntityMentioned"}
    BY <1>0 DEF CommandOK, EdgeTypes, LockTypes
  <2>3. EventTarget(ev) = CommandKey(ev)
    BY <1>4, <2>2 DEF HasTarget, EventTarget, CommandKey
  <2>4. Change(s, ev, n).rows =
          [s.rows EXCEPT ![CommandKey(ev)] = ApplyChange(RowOrSeed(@), ev, n)]
    BY <2>3 DEF Change, FoldState
  <2>5. QED
    BY <1>4, <2>1, <2>4 DEF FoldState
<1>5. QED
  BY <1>2, <1>3, <1>4

LEMMA ReduceUpTo ==
  ASSUME NEW n \in Nat, NEW s, StateUpTo(s, n), NEW ev \in Commands
  PROVE  StateUpTo(Reduce(s, ev, n), n)
<1>1. s \in FoldState /\ \A k \in RowKeys : s.rows[k] \in Row \cup {NoRow}
  BY DEF StateUpTo, FoldState
<1>2. ASSUME NEW k \in RowKeys
      PROVE  LET row == Reduce(s, ev, n).rows[k] IN
             row \in Row \cup {NoRow} /\ (row # NoRow => row.seq <= n)
  <2>1. CASE Reduce(s, ev, n).rows[k] = s.rows[k]
    BY <1>1, <2>1 DEF StateUpTo
  <2>2. CASE Reduce(s, ev, n).rows[k] = LockMarker(s.rows[k], ev, n)
    BY <1>1, <2>2, MarkerIsRow
  <2>3. CASE Reduce(s, ev, n).rows[k] = ApplyChange(RowOrSeed(s.rows[k]), ev, n)
    <3>1. RowOrSeed(s.rows[k]) \in Row /\ RowOrSeed(s.rows[k]).seq <= n
      BY <1>1, SeedIsRow DEF StateUpTo
    <3>2. QED
      BY <2>3, <3>1, ApplyCommand
  <2>4. QED
    BY <1>1, <2>1, <2>2, <2>3, ReduceRowOf
<1>3. Reduce(s, ev, n) = [rows |-> Reduce(s, ev, n).rows, locks |-> Reduce(s, ev, n).locks]
      /\ DOMAIN Reduce(s, ev, n).rows = RowKeys
      /\ Reduce(s, ev, n).rows = [k \in RowKeys |-> Reduce(s, ev, n).rows[k]]
      /\ Reduce(s, ev, n).locks \in [Entities -> BOOLEAN]
  BY <1>1 DEF Reduce, SetLock, Change, FoldState
<1>4. Reduce(s, ev, n).rows \in [RowKeys -> Row \cup {NoRow}]
  BY <1>2, <1>3
<1>5. QED
  BY <1>2, <1>3, <1>4 DEF StateUpTo, FoldState

(* A user's winner after a command is the one that was there, or the        *)
(* command's.                                                               *)
LEMMA ReduceWinner ==
  ASSUME NEW n \in Nat, NEW s, StateUpTo(s, n), NEW ev \in Commands, NEW k \in RowKeys,
         UserWon(Reduce(s, ev, n).rows[k])
  PROVE  \/ /\ Reduce(s, ev, n).rows[k] = s.rows[k]
            /\ ~(Decides(ev, s) /\ k = CommandKey(ev))
         \/ /\ Decides(ev, s) /\ k = CommandKey(ev)
            /\ Reduce(s, ev, n).rows[k].object = ev.val
<1>1. s \in FoldState /\ s.rows[k] \in Row \cup {NoRow}
  BY DEF StateUpTo, FoldState
<1> DEFINE row == Reduce(s, ev, n).rows[k]
<1>2. CASE row = LockMarker(s.rows[k], ev, n)
  BY <1>1, <1>2, MarkerIsRow DEF UserWon
<1>3. CASE /\ ev.type \notin LockTypes /\ ~s.locks[ev.ent] /\ k = CommandKey(ev)
           /\ row = ApplyChange(RowOrSeed(s.rows[k]), ev, n)
  <2>1. RowOrSeed(s.rows[k]) \in Row /\ RowOrSeed(s.rows[k]).seq <= n
    BY <1>1, SeedIsRow DEF StateUpTo
  <2>2. CASE ev.type \in UserTypes
    BY <1>3, <2>1, <2>2, ApplyCommand DEF OverrideWinner, Decides
  <2>3. CASE ev.type \notin UserTypes
    <3>1. row = RowOrSeed(s.rows[k]) /\ RowOrSeed(s.rows[k]).authority = "USER_OVERRIDE"
      BY <1>3, <2>1, <2>3, ApplyCommand DEF UserWon
    <3>2. s.rows[k] # NoRow
      BY <1>1, <3>1, SeedIsRow, NonesAreNotValues
    <3>3. QED
      BY <1>1, <2>3, <3>1, <3>2, SeedIsRow DEF Decides
  <2>4. QED
    BY <2>2, <2>3
<1>4. QED
  BY <1>1, <1>2, <1>3, ReduceRowOf

-----------------------------------------------------------------------------
(* Every user's winner has its edge, or was invalidated after it won.       *)
Carries(e, k, row) ==
  e.ent = k[1] /\ e.pred = k[2] /\ e.val = row.object /\ e.active /\ e.auth = "USER_OVERRIDE"

InvalidatedAfter(h, n, k, row) ==
  \E m \in 1..n : m > row.seq /\ h[m].type = "Invalidated" /\ h[m].ent = k[1]

WinnersIn(h, n, s, rows) ==
  \A k \in RowKeys : UserWon(s.rows[k]) =>
    (\E e \in rows : Carries(e, k, s.rows[k])) \/ InvalidatedAfter(h, n, k, s.rows[k])

(* A decision puts the winner's edge there.                                 *)
LEMMA DecisionCarries ==
  ASSUME NEW ev \in Commands, NEW n \in Nat, NEW rows, NEW locks,
         ev.type \in UserTypes, ~locks[ev.ent], ev.val # None,
         NEW row, row.object = ev.val
  PROVE  \E e \in ApplyEdge(rows, ev, n, locks) : Carries(e, CommandKey(ev), row)
<1>1. ev.type \in EdgeTypes
  BY DEF UserTypes, EdgeTypes
<1>2. Carries(Edge(ev, n), CommandKey(ev), row)
  BY <1>1, EdgeType DEF Carries, CommandKey
<1>3. Edge(ev, n) \in ApplyEdge(rows, ev, n, locks)
  BY ApplyCases DEF Upsert
<1>4. QED
  BY <1>2, <1>3

(* No other command takes it away, but an invalidation of its entity.       *)
LEMMA CommandSpares ==
  ASSUME NEW rows, NEW n \in Nat, EdgesUpTo(rows, n), NEW ev \in Commands, NEW locks,
         NEW k, NEW row, NEW e \in rows, Carries(e, k, row),
         ~(ev.type \in UserTypes /\ ~locks[ev.ent] /\ k = CommandKey(ev)),
         ~(ev.type = "Invalidated" /\ ev.ent = k[1]), k \in RowKeys
  PROVE  \E x \in ApplyEdge(rows, ev, n, locks) : Carries(x, k, row)
<1>1. k = <<k[1], k[2]>> /\ FactNames(e)
  BY DEF RowKeys, EdgesUpTo
<1>2. CASE ev.type = "SemanticAsserted" /\ ~locks[ev.ent]
  <2>1. e.fact # FactId(ev)
    BY <1>1, <1>2 DEF FactNames, FactId, Carries
  <2>2. Edge(ev, n).fact = FactId(ev)
    BY DEF Edge
  <2>3. QED
    BY <1>2, <2>1, <2>2, ApplyCases DEF Upsert
<1>3. CASE ev.type \in UserTypes /\ ~locks[ev.ent]
  <2>1. ~(e.ent = ev.ent /\ e.pred = ev.pred)
    BY <1>1, <1>3 DEF Carries, CommandKey
  <2>2. e \in Supersede(rows, ev, n)
    BY <2>1, DeactivateSpares DEF Supersede
  <2>3. FactId(ev)[2] = ev.ent /\ FactId(ev)[3] = ev.pred
    BY DEF FactId
  <2>4. e.fact # Edge(ev, n).fact
    BY <1>1, <2>1, <2>3 DEF FactNames, Edge
  <2>5. QED
    BY <1>3, <2>2, <2>4, ApplyCases DEF Upsert
<1>4. CASE ev.type = "Invalidated"
  <2>1. e.ent # ev.ent
    BY <1>4 DEF Carries
  <2>2. e \in InvalidateEdges(rows, ev, n)
    BY <2>1, DeactivateSpares DEF InvalidateEdges
  <2>3. QED
    BY <1>4, <2>2, ApplyCases
<1>5. CASE ev.type = "ContradictionRecorded"
  <2>1. PICK x : x = Relabelled(e, ev, n)
    OBVIOUS
  <2>2. Carries(x, k, row)
    BY <2>1, ConflictImage DEF SameFact, Carries
  <2>3. x \in MarkConflicting(rows, ev, n)
    BY <2>1, ConflictRows
  <2>4. QED
    BY <1>5, <2>2, <2>3, ApplyCases
<1>6. CASE Untouched(ev, locks)
  BY <1>6, ApplyCases DEF Untouched
<1>7. QED
  BY <1>2, <1>3, <1>4, <1>5, <1>6, CommandCases

LEMMA StepWinners ==
  ASSUME NEW h \in Seq(Commands), NEW n \in 1..Len(h), NEW s, StateUpTo(s, n - 1),
         NEW rows, EdgesUpTo(rows, n - 1), WinnersIn(h, n - 1, s, rows)
  PROVE  WinnersIn(h, n, Reduce(s, h[n], n),
                   ApplyEdge(rows, h[n], n, Reduce(s, h[n], n).locks))
<1> DEFINE ev == h[n]
           t  == Reduce(s, ev, n)
<1>1. n \in Nat /\ ev \in Commands /\ EdgesUpTo(rows, n) /\ StateUpTo(s, n) /\ s \in FoldState
  <2>1. n \in Nat /\ ev \in Commands /\ n - 1 \in Nat /\ n - 1 <= n
    OBVIOUS
  <2>2. \A q \in Nat : q <= n - 1 => q <= n
    BY <2>1
  <2>3. \A e \in rows : e.seq \in Nat
    BY DEF EdgesUpTo, EdgeRow
  <2>4. EdgesUpTo(rows, n)
    BY <2>2, <2>3 DEF EdgesUpTo
  <2>5. \A k \in RowKeys : s.rows[k] # NoRow => s.rows[k].seq \in Nat
    BY DEF StateUpTo, FoldState, Row
  <2>6. QED
    BY <2>1, <2>2, <2>4, <2>5 DEF StateUpTo
<1> SUFFICES ASSUME NEW k \in RowKeys, UserWon(t.rows[k])
             PROVE  \/ \E e \in ApplyEdge(rows, ev, n, t.locks) : Carries(e, k, t.rows[k])
                    \/ InvalidatedAfter(h, n, k, t.rows[k])
  BY DEF WinnersIn
<1>2. ev.type \in UserTypes => ev.type \notin LockTypes
  BY DEF UserTypes, LockTypes
<1>3. ev.type \in UserTypes => t.locks = s.locks
  BY <1>1, <1>2, ReduceLocksOf
<1>4. CASE Decides(ev, s) /\ k = CommandKey(ev) /\ t.rows[k].object = ev.val
  <2>1. ev.val # None /\ ev.type \in UserTypes /\ ~t.locks[ev.ent]
    BY <1>3, <1>4 DEF UserWon, Decides
  <2> HIDE DEF t
  <2>2. QED
    BY <1>1, <1>4, <2>1, DecisionCarries
<1>5. CASE t.rows[k] = s.rows[k] /\ ~(Decides(ev, s) /\ k = CommandKey(ev))
  <2>1. \/ \E e \in rows : Carries(e, k, s.rows[k])
        \/ InvalidatedAfter(h, n - 1, k, s.rows[k])
    BY <1>5 DEF WinnersIn
  <2>2. ~(ev.type \in UserTypes /\ ~t.locks[ev.ent] /\ k = CommandKey(ev))
    BY <1>3, <1>5 DEF Decides
  <2>3. s.rows[k].seq \in Nat /\ s.rows[k].seq < n
    <3>1. s.rows[k] \in Row /\ s.rows[k].seq <= n - 1
      BY <1>1, <1>5 DEF UserWon, StateUpTo, FoldState
    <3>2. QED
      BY <1>1, <3>1 DEF Row
  <2> HIDE DEF t
  <2>4. CASE InvalidatedAfter(h, n - 1, k, s.rows[k])
    BY <1>1, <1>5, <2>4 DEF InvalidatedAfter
  <2>5. CASE ev.type = "Invalidated" /\ ev.ent = k[1]
    <3>1. n \in 1..n
      BY <1>1
    <3>2. InvalidatedAfter(h, n, k, s.rows[k])
      BY <2>3, <2>5, <3>1 DEF InvalidatedAfter
    <3>3. QED
      BY <1>5, <3>2
  <2>6. CASE /\ \E e \in rows : Carries(e, k, s.rows[k])
             /\ ~(ev.type = "Invalidated" /\ ev.ent = k[1])
    <3>1. PICK e \in rows : Carries(e, k, s.rows[k])
      BY <2>6
    <3> HIDE DEF ev
    <3>2. \E x \in ApplyEdge(rows, ev, n, t.locks) : Carries(x, k, s.rows[k])
      BY <1>1, <2>2, <2>6, <3>1, CommandSpares
    <3>3. QED
      BY <1>5, <3>2
  <2>7. QED
    BY <2>1, <2>4, <2>5, <2>6
<1>6. QED
  BY <1>1, <1>4, <1>5, ReduceWinner

-----------------------------------------------------------------------------
(* What every prefix of the ledger folds to.                                *)
FoldedWell(h, n, acc) ==
  /\ StateUpTo(acc.state, n) /\ EdgesUpTo(acc.rows, n)
  /\ DownIn(h, n, acc.rows)
  /\ (\A m \in 1..n : h[m].prior = None) => OneUserIn(acc.rows)
  /\ WinnersIn(h, n, acc.state, acc.rows)

LEMMA StepFoldsWell ==
  ASSUME NEW h \in Seq(Commands), NEW n \in 1..Len(h), NEW acc, FoldedWell(h, n - 1, acc)
  PROVE  FoldedWell(h, n, EdgeStep(acc, h, n, 0))
<1> DEFINE s == acc.state
           rows == acc.rows
           t == Reduce(s, h[n], n)
           after == ApplyEdge(rows, h[n], n, t.locks)
<1>1. n \in Nat /\ h[n] \in Commands /\ n > 0 /\ n - 1 \in Nat
  OBVIOUS
<1>2. EdgeStep(acc, h, n, 0) = [state |-> t, rows |-> after]
  BY <1>1 DEF EdgeStep, FoldFrom
<1>3. /\ StateUpTo(s, n - 1) /\ EdgesUpTo(rows, n - 1) /\ DownIn(h, n - 1, rows)
      /\ (\A m \in 1..(n - 1) : h[m].prior = None) => OneUserIn(rows)
      /\ WinnersIn(h, n - 1, s, rows)
  BY DEF FoldedWell
<1> HIDE DEF s, rows
<1>4. \A q \in Nat : q <= n - 1 => q <= n
  BY <1>1
<1>5. EdgesUpTo(rows, n)
  BY <1>3, <1>4 DEF EdgesUpTo, EdgeRow
<1>6. StateUpTo(s, n)
  BY <1>3, <1>4 DEF StateUpTo, FoldState, Row
<1>7. StateUpTo(t, n)
  BY <1>1, <1>6, ReduceUpTo
<1>8. WinnersIn(h, n, t, after)
  BY <1>3, StepWinners
<1> HIDE DEF t
<1>9. EdgesUpTo(after, n)
  BY <1>1, <1>5, ApplyType
<1>10. DownIn(h, n, after)
  BY <1>3, <1>5, ApplyDown
<1>11. ASSUME \A m \in 1..n : h[m].prior = None
       PROVE  OneUserIn(after)
  <2>1. h[n].prior = None /\ OneUserIn(rows)
    BY <1>1, <1>3, <1>11
  <2>2. QED
    BY <1>1, <1>5, <2>1, ApplyOneUser
<1> HIDE DEF after
<1>12. QED
  BY <1>2, <1>7, <1>8, <1>9, <1>10, <1>11 DEF FoldedWell

LEMMA PrefixesFoldWell ==
  ASSUME NEW h \in Seq(Commands)
  PROVE  \A n \in 0..Len(h) : FoldedWell(h, n, EdgeFold(h, {}, 0)[n])
<1> DEFINE f == EdgeFold(h, {}, 0)
           S == {n \in 0..Len(h) : ~FoldedWell(h, n, f[n])}
<1> SUFFICES ASSUME S # {} PROVE FALSE
  OBVIOUS
<1>0. S \in SUBSET Nat
  OBVIOUS
<1> HIDE DEF S
<1>1. PICK n \in S : \A m \in S : n <= m
  BY <1>0, LeastExists
<1> USE DEF S
<1>2. f[0] = [state |-> EmptyState, rows |-> {}]
  <2> 0 \in Nat
    OBVIOUS
  <2>1. QED
    BY EdgeFoldStarts
<1>3. FoldedWell(h, 0, [state |-> EmptyState, rows |-> {}])
  <2>1. /\ EmptyState \in FoldState
        /\ \A k \in RowKeys : EmptyState.rows[k] = NoRow
    BY DEF EmptyState, FoldState
  <2>2. StateUpTo(EmptyState, 0) /\ WinnersIn(h, 0, EmptyState, {})
    BY <2>1 DEF StateUpTo, WinnersIn, UserWon
  <2>3. EdgesUpTo({}, 0) /\ DownIn(h, 0, {}) /\ OneUserIn({})
    BY DEF EdgesUpTo, DownIn, OneUserIn, UserEdges
  <2>4. QED
    BY <2>2, <2>3 DEF FoldedWell
<1>4. n # 0
  <2> HIDE DEF f
  <2>1. QED
    BY <1>1, <1>2, <1>3
<1>5. n \in 1..Len(h) /\ n - 1 \in 0..Len(h) /\ n - 1 \notin S
  <2> HIDE DEF f
  <2>1. n \in 1..Len(h) /\ n - 1 \in 0..Len(h) /\ n - 1 < n
    BY <1>1, <1>4
  <2>2. QED
    BY <1>1, <2>1
<1>6. f[n] = EdgeStep(f[n - 1], h, n, 0)
  <2> 0 \in Nat
    OBVIOUS
  <2>1. QED
    BY <1>5, EdgeFoldSteps
<1> HIDE DEF f
<1>7. FoldedWell(h, n - 1, f[n - 1])
  BY <1>5
<1>8. FoldedWell(h, n, f[n])
  BY <1>5, <1>6, <1>7, StepFoldsWell
<1>9. QED
  BY <1>1, <1>8

(* What the user decided reaches the edges: the last value stands there     *)
(* alone, and an invalidation takes down every edge it aims at.             *)
THEOREM DecisionsReachEdges == EdgeSpec => []EdgesFollowDecisions
<1>1. EdgeInv => EdgesFollowDecisions
  <2> SUFFICES ASSUME EdgeInv PROVE EdgesFollowDecisions
    OBVIOUS
  <2> DEFINE f == EdgeFold(history, {}, 0)
  <2>1. /\ history \in Seq(Commands) /\ Len(history) \in Nat
        /\ edgeSeq \in 0..Len(history)
        /\ edges = f[edgeSeq].rows /\ tier0Rows = f[Len(history)].state
    BY DEF EdgeInv
  <2>2. FoldedWell(history, edgeSeq, f[edgeSeq])
    BY <2>1, PrefixesFoldWell
  <2> HIDE DEF f
  <2>3. InvalidatedStaysDown
    BY <2>1, <2>2 DEF FoldedWell, DownIn, AimsAt, InvalidatedStaysDown
  <2>4. OneUserEdge
    <3>1. CASE \E n \in DOMAIN history : history[n].prior # None
      BY <3>1 DEF OneUserEdge
    <3>2. CASE \A n \in DOMAIN history : history[n].prior = None
      <4>1. \A n \in 1..edgeSeq : history[n].prior = None
        BY <2>1, <3>2
      <4>2. OneUserIn(edges)
        BY <2>1, <2>2, <4>1 DEF FoldedWell
      <4>3. QED
        BY <4>2 DEF OneUserIn, UserEdges, OneUserEdge
    <3>3. QED
      BY <3>1, <3>2
  <2>5. UserWinnerIsActive
    <3>1. SUFFICES ASSUME edgeSeq = Len(history), NEW k \in RowKeys, UserWon(tier0Rows.rows[k])
                   PROVE  \/ \E e \in edges : Carries(e, k, tier0Rows.rows[k])
                          \/ InvalidatedAfter(history, Len(history), k, tier0Rows.rows[k])
      <4>1. DOMAIN history = 1..Len(history)
        BY <2>1
      <4>2. QED
        BY <4>1 DEF UserWinnerIsActive, UserWon, Carries, InvalidatedAfter
    <3>2. WinnersIn(history, Len(history), tier0Rows, edges)
      BY <2>1, <2>2, <3>1 DEF FoldedWell
    <3>3. QED
      BY <3>1, <3>2 DEF WinnersIn
  <2>6. QED
    BY <2>3, <2>4, <2>5 DEF EdgesFollowDecisions
<1>2. QED
  BY <1>1, InitEdges, NextEdges, PTL DEF EdgeSpec

-----------------------------------------------------------------------------
(* Structured reads                                                        *)

(* One level of a traversal, and the refs one edge away from a set.        *)
ScanLevel(arcs, l) ==
  LET new == {r \in arcs : r.subject \in l.frontier /\ SeenKey(r) \notin l.seen}
  IN  [seen |-> l.seen \cup {SeenKey(r) : r \in new},
       frontier |-> {r.object : r \in new} \ {Null}]

Neighbours(arcs, refs) ==
  refs \cup ({r.object : r \in {x \in arcs : x.subject \in refs}} \ {Null})

IsReach(f, arcs, start, N) ==
  f = [k \in 0..N |-> IF k = 0 THEN {start} ELSE Neighbours(arcs, f[k - 1])]

LEMMA ReachExists ==
  ASSUME NEW arcs, NEW start
  PROVE  \A N \in Nat : \E f : IsReach(f, arcs, start, N)
<1> DEFINE S == {N \in Nat : ~ \E f : IsReach(f, arcs, start, N)}
<1> SUFFICES ASSUME S # {} PROVE FALSE
  OBVIOUS
<1>1. PICK N \in S : \A M \in S : N <= M
  BY LeastExists
<1>2. CASE N = 0
  <2>1. PICK f : f = [n \in 0..N |-> {start}]
    OBVIOUS
  <2>2. \A n \in 0..N : n = 0
    BY <1>2
  <2>3. IsReach(f, arcs, start, N)
    BY <2>1, <2>2 DEF IsReach
  <2>4. QED
    BY <1>1, <2>3
<1>3. CASE N # 0
  <2>1. N \in Nat /\ N - 1 \in Nat /\ N - 1 \notin S
    BY <1>1, <1>3
  <2>2. PICK f : IsReach(f, arcs, start, N - 1)
    BY <2>1
  <2>3. \A n \in 0..(N - 1) : f[n] = IF n = 0 THEN {start} ELSE Neighbours(arcs, f[n - 1])
    BY <2>2, Zenon DEF IsReach
  <2>4. PICK g : g = [n \in 0..N |-> IF n = N THEN Neighbours(arcs, f[N - 1]) ELSE f[n]]
    OBVIOUS
  <2>5. \A n \in 0..N : n # N => n \in 0..(N - 1) /\ g[n] = f[n]
    BY <2>1, <2>4
  <2>6. \A n \in 0..N : n # 0 => n - 1 \in 0..N /\ g[n - 1] = f[n - 1]
    BY <2>1, <2>5
  <2>7. \A n \in 0..N : g[n] = IF n = 0 THEN {start} ELSE Neighbours(arcs, g[n - 1])
    <3> TAKE n \in 0..N
    <3>1. CASE n = N
      BY <1>3, <2>4, <2>6, <3>1
    <3>2. CASE n # N
      BY <2>3, <2>5, <2>6, <3>2
    <3>3. QED
      BY <3>1, <3>2
  <2>8. IsReach(g, arcs, start, N)
    BY <2>4, <2>7 DEF IsReach
  <2>9. QED
    BY <1>1, <2>8
<1>4. QED
  BY <1>2, <1>3

ReachesTo(f, arcs, start, N) ==
  f[0] = {start} /\ \A k \in 0..N : k # 0 => f[k] = Neighbours(arcs, f[k - 1])

(* What the recursive definition of the reach denotes.                     *)
LEMMA WithinIs ==
  ASSUME NEW arcs, NEW start, NEW N \in Nat
  PROVE  \E f : Within(arcs, start, N) = f[N] /\ ReachesTo(f, arcs, start, N)
<1> DEFINE f == CHOOSE g : IsReach(g, arcs, start, N)
<1>1. Within(arcs, start, N) = f[N]
  BY Zenon DEF Within, IsReach, Neighbours
<1>3. IsReach(f, arcs, start, N)
  BY ReachExists, Zenon
<1> HIDE DEF f
<1>4. \A k \in 0..N : f[k] = IF k = 0 THEN {start} ELSE Neighbours(arcs, f[k - 1])
  BY <1>3, Zenon DEF IsReach
<1>5. 0 \in 0..N
  OBVIOUS
<1>6. ReachesTo(f, arcs, start, N)
  BY <1>4, <1>5 DEF ReachesTo
<1>7. QED
  BY <1>1, <1>6

LEMMA WithinZero ==
  ASSUME NEW arcs, NEW start
  PROVE  Within(arcs, start, 0) = {start}
<1>1. PICK f : Within(arcs, start, 0) = f[0] /\ ReachesTo(f, arcs, start, 0)
  BY WithinIs
<1>2. QED
  BY <1>1 DEF ReachesTo

(* One step more is the neighbours of the refs before: the reach does not  *)
(* depend on how far it is computed.                                       *)
LEMMA WithinStep ==
  ASSUME NEW arcs, NEW start, NEW N \in Nat
  PROVE  Within(arcs, start, N + 1) = Neighbours(arcs, Within(arcs, start, N))
<1>1. N + 1 \in Nat
  OBVIOUS
<1>2. PICK f : Within(arcs, start, N + 1) = f[N + 1] /\ ReachesTo(f, arcs, start, N + 1)
  BY <1>1, WithinIs
<1>3. PICK g : Within(arcs, start, N) = g[N] /\ ReachesTo(g, arcs, start, N)
  BY WithinIs
<1> DEFINE Bad == {n \in 0..N : f[n] # g[n]}
<1>4. Bad = {}
  <2> SUFFICES ASSUME Bad # {} PROVE FALSE
    OBVIOUS
  <2>1. Bad \in SUBSET Nat
    OBVIOUS
  <2>2. PICK n \in Bad : \A m \in Bad : n <= m
    BY <2>1, LeastExists
  <2>3. n # 0 /\ n \in 0..N /\ n - 1 \in 0..N /\ n - 1 \notin Bad /\ n \in 0..(N + 1)
    BY <1>2, <1>3, <2>2 DEF ReachesTo
  <2>4. f[n - 1] = g[n - 1]
    BY <2>3
  <2>5. f[n] = Neighbours(arcs, f[n - 1]) /\ g[n] = Neighbours(arcs, g[n - 1])
    BY <1>2, <1>3, <2>3 DEF ReachesTo
  <2>6. QED
    BY <2>2, <2>4, <2>5
<1>5. f[N] = g[N]
  BY <1>4
<1>6. N + 1 \in 0..(N + 1) /\ N + 1 # 0 /\ (N + 1) - 1 = N
  OBVIOUS
<1>7. f[N + 1] = Neighbours(arcs, f[N])
  BY <1>2, <1>6 DEF ReachesTo
<1>8. QED
  BY <1>2, <1>3, <1>5, <1>7

(* A level of the scan against the refs within reach: what is seen are edges
   of refs before the last level, and a ref within reach is on the frontier
   or has all its edges seen, as has every object of an edge seen.           *)
Expanded(arcs, x, l) == x \in l.frontier \/ EdgesOf(arcs, {x}) \subseteq l.seen

LevelInv(arcs, l, before, refs) ==
  /\ l.seen \subseteq EdgesOf(arcs, before) /\ l.frontier \subseteq refs
  /\ before \subseteq refs
  /\ \A x \in refs : Expanded(arcs, x, l)
  /\ \A k \in l.seen : Expanded(arcs, k[1], l)

LEMMA KeyHead ==
  ASSUME NEW r
  PROVE  SeenKey(r)[1] = IF r.object = Null THEN r.subject ELSE r.object
BY DEF SeenKey

LEMMA LevelScanned ==
  ASSUME NEW arcs, NEW l, NEW refs, NEW before, LevelInv(arcs, l, before, refs)
  PROVE  /\ ScanLevel(arcs, l).seen = EdgesOf(arcs, refs)
         /\ LevelInv(arcs, ScanLevel(arcs, l), refs, Neighbours(arcs, refs))
<1> DEFINE m == ScanLevel(arcs, l)
           new == {r \in arcs : r.subject \in l.frontier /\ SeenKey(r) \notin l.seen}
<1>1. m.seen = l.seen \cup {SeenKey(r) : r \in new} /\ m.frontier = {r.object : r \in new} \ {Null}
  BY DEF ScanLevel
<1>2. \A r \in arcs : r.subject \in l.frontier => SeenKey(r) \in m.seen
  BY <1>1
<1>3. \A x \in l.frontier : EdgesOf(arcs, {x}) \subseteq m.seen
  BY <1>2 DEF EdgesOf
<1>4. \A x : Expanded(arcs, x, l) => EdgesOf(arcs, {x}) \subseteq m.seen
  BY <1>1, <1>3 DEF Expanded
<1>5. EdgesOf(arcs, before) \subseteq EdgesOf(arcs, refs)
  BY DEF LevelInv, EdgesOf
<1>6. m.seen \subseteq EdgesOf(arcs, refs)
  <2>1. \A r \in new : SeenKey(r) \in EdgesOf(arcs, refs)
    BY DEF LevelInv, EdgesOf
  <2>2. QED
    BY <1>1, <1>5, <2>1 DEF LevelInv
<1>7. EdgesOf(arcs, refs) \subseteq m.seen
  <2> SUFFICES ASSUME NEW r \in arcs, r.subject \in refs PROVE SeenKey(r) \in m.seen
    BY DEF EdgesOf
  <2>1. SeenKey(r) \in EdgesOf(arcs, {r.subject})
    BY DEF EdgesOf
  <2>2. QED
    BY <1>4, <2>1 DEF LevelInv
<1>8. \A k \in m.seen : Expanded(arcs, k[1], m)
  <2> SUFFICES ASSUME NEW k \in m.seen PROVE Expanded(arcs, k[1], m)
    OBVIOUS
  <2>1. CASE k \in l.seen
    BY <1>4, <2>1 DEF LevelInv, Expanded
  <2>2. CASE k \notin l.seen
    <3>1. PICK r \in new : k = SeenKey(r)
      BY <1>1, <2>2
    <3>2. CASE r.object = Null
      BY <1>3, <3>1, <3>2, KeyHead DEF Expanded
    <3>3. CASE r.object # Null
      BY <1>1, <3>1, <3>3, KeyHead DEF Expanded
    <3>4. QED
      BY <3>2, <3>3
  <2>3. QED
    BY <2>1, <2>2
<1>9. m.frontier \subseteq Neighbours(arcs, refs)
  BY <1>1 DEF Neighbours, LevelInv
<1>10. \A x \in Neighbours(arcs, refs) : Expanded(arcs, x, m)
  <2> SUFFICES ASSUME NEW x \in Neighbours(arcs, refs) PROVE Expanded(arcs, x, m)
    OBVIOUS
  <2>1. CASE x \in refs
    BY <1>4, <2>1 DEF LevelInv, Expanded
  <2>2. CASE x \notin refs
    <3>1. PICK r \in arcs : r.subject \in refs /\ x = r.object /\ x # Null
      BY <2>2 DEF Neighbours
    <3>2. SeenKey(r) \in m.seen
      BY <1>7, <3>1 DEF EdgesOf
    <3>3. QED
      BY <1>8, <3>1, <3>2, KeyHead
  <2>3. QED
    BY <2>1, <2>2
<1>11. refs \subseteq Neighbours(arcs, refs)
  BY DEF Neighbours
<1>12. QED
  BY <1>6, <1>7, <1>8, <1>9, <1>10, <1>11 DEF LevelInv

(* The inductive invariant of a traversal: its hits and its frontier lie    *)
(* within reach, each at the depth it is said to, and while no level was    *)
(* cut the level and the reach keep the relation above.                     *)
TraversalTyped ==
  /\ traversal = [pc |-> traversal.pc, start |-> traversal.start, depth |-> traversal.depth,
                  d |-> traversal.d, hits |-> traversal.hits, frontier |-> traversal.frontier,
                  cut |-> traversal.cut, page |-> traversal.page]
  /\ traversal.depth \in 0..DepthCap /\ traversal.d \in 0..traversal.depth
  /\ traversal.cut \in BOOLEAN

HitsWithin ==
  \A h \in traversal.hits :
    h.depth \in 1..traversal.d /\ h.key \in EdgesOf(graph, Within(graph, traversal.start, h.depth - 1))

HitsComplete ==
  \A k \in 1..traversal.d :
    EdgesOf(graph, Within(graph, traversal.start, k - 1)) = Seen({h \in traversal.hits : h.depth <= k})

TraversalInv ==
  /\ TraversalTyped
  /\ traversal.page \subseteq traversal.hits
  /\ traversal.pc # "idle" => traversal.frontier \subseteq Within(graph, traversal.start, traversal.d)
  /\ HitsWithin
  /\ ~ traversal.cut => HitsComplete
  /\ traversal.pc # "idle" /\ ~ traversal.cut =>
       \E before : LevelInv(graph, [seen |-> Seen(traversal.hits), frontier |-> traversal.frontier],
                            before, Within(graph, traversal.start, traversal.d))

LEMMA NoTraversalHolds ==
  ASSUME traversal = NoTraversal PROVE TraversalInv
<1>1. /\ traversal = [pc |-> "idle", start |-> Null, depth |-> 0, d |-> 0, hits |-> {},
                      frontier |-> {}, cut |-> FALSE, page |-> {}]
  BY DEF NoTraversal
<1>2. TraversalTyped
  BY <1>1 DEF TraversalTyped, DepthCap
<1>3. traversal.hits = {} /\ traversal.page = {} /\ traversal.pc = "idle" /\ traversal.d = 0
  BY <1>1
<1>4. HitsWithin /\ HitsComplete
  BY <1>3 DEF HitsWithin, HitsComplete
<1>5. QED
  BY <1>2, <1>3, <1>4 DEF TraversalInv

LEMMA TraversalStartsStep ==
  ASSUME TraversalInv, NEW start, NEW depth \in 0..DepthCap + 1, TraversalStarts(start, depth)
  PROVE  TraversalInv'
<1>1. traversal' = [pc |-> "levels", start |-> start, depth |-> TraversalDepth(depth), d |-> 0,
                    hits |-> {}, frontier |-> {start}, cut |-> FALSE, page |-> {}]
  BY DEF TraversalStarts, NoTraversal
<1>2. TraversalDepth(depth) \in 0..DepthCap
  BY DEF TraversalDepth, DepthCap
<1>3. TraversalTyped'
  BY <1>1, <1>2 DEF TraversalTyped
<1>4. /\ traversal'.hits = {} /\ traversal'.page = {} /\ traversal'.d = 0
      /\ traversal'.frontier = {start} /\ traversal'.start = start
  BY <1>1
<1>5. HitsWithin' /\ HitsComplete'
  BY <1>4 DEF HitsWithin, HitsComplete
<1>6. Within(graph', start, 0) = {start}
  BY WithinZero
<1>7. Seen({}) = {}
  BY DEF Seen
<1>8. LevelInv(graph', [seen |-> {}, frontier |-> {start}], {}, {start})
  BY DEF LevelInv, Expanded
<1>9. QED
  BY <1>3, <1>4, <1>5, <1>6, <1>7, <1>8 DEF TraversalInv

LEMMA LevelStep ==
  ASSUME TraversalInv, NEW rows, Level(rows) PROVE TraversalInv'
<1> DEFINE new == {r \in rows : SeenKey(r) \notin Seen(traversal.hits)}
           added == {[key |-> SeenKey(r), depth |-> traversal.d + 1] : r \in new}
<1>1. PICK d \in Nat : d = traversal.d
  BY DEF TraversalInv, TraversalTyped, DepthCap
<1>2. /\ graph' = graph /\ traversal.pc = "levels" /\ rows \subseteq Matching
      /\ traversal.d < traversal.depth
  BY DEF Level, Scans
<1>3. /\ traversal'.pc = "levels" /\ traversal'.start = traversal.start
      /\ traversal'.depth = traversal.depth /\ traversal'.page = traversal.page
      /\ traversal'.d = d + 1 /\ traversal'.hits = traversal.hits \cup added
      /\ traversal'.frontier = {r.object : r \in new} \ {Null}
      /\ traversal'.cut = (traversal.cut \/ rows # Matching)
      /\ traversal' = [pc |-> traversal'.pc, start |-> traversal'.start, depth |-> traversal'.depth,
                       d |-> traversal'.d, hits |-> traversal'.hits, frontier |-> traversal'.frontier,
                       cut |-> traversal'.cut, page |-> traversal'.page]
  <2>1. /\ traversal = [pc |-> traversal.pc, start |-> traversal.start, depth |-> traversal.depth,
                        d |-> traversal.d, hits |-> traversal.hits, frontier |-> traversal.frontier,
                        cut |-> traversal.cut, page |-> traversal.page]
    BY DEF TraversalInv, TraversalTyped
  <2>2. traversal' = [traversal EXCEPT !.d = d + 1, !.cut = traversal.cut \/ rows # Matching,
                        !.hits = traversal.hits \cup added,
                        !.frontier = {r.object : r \in new} \ {Null}]
    BY <1>1 DEF Level
  <2> HIDE DEF new, added
  <2>3. traversal' = [pc |-> traversal.pc, start |-> traversal.start, depth |-> traversal.depth,
                      d |-> d + 1, hits |-> traversal.hits \cup added,
                      frontier |-> {r.object : r \in new} \ {Null},
                      cut |-> (traversal.cut \/ rows # Matching), page |-> traversal.page]
    BY <2>1, <2>2
  <2>4. QED
    BY <1>2, <2>3
<1> HIDE DEF new, added
<1>4. TraversalTyped'
  <2>1. traversal.depth \in 0..DepthCap /\ DepthCap \in Nat
    BY DEF TraversalInv, TraversalTyped, DepthCap
  <2>2. d + 1 \in 0..traversal.depth
    BY <1>1, <1>2, <2>1
  <2>3. QED
    BY <1>3, <2>1, <2>2 DEF TraversalTyped
<1>5. \A h \in traversal.hits : h.depth \in 1..d
  BY <1>1 DEF TraversalInv, HitsWithin
<1>6. PICK refs : refs = Within(graph, traversal.start, d)
  OBVIOUS
<1>7. Within(graph, traversal.start, d + 1) = Neighbours(graph, refs)
  BY <1>6, WithinStep
<1>8. traversal.frontier \subseteq refs
  BY <1>1, <1>2, <1>6 DEF TraversalInv
<1>9. \A r \in new : r \in graph /\ r.subject \in refs
  BY <1>2, <1>8 DEF new, Matching
<1>10. \A h \in added : h.depth = d + 1 /\ h.key \in EdgesOf(graph, refs)
  BY <1>1, <1>9 DEF added, EdgesOf
<1>11. HitsWithin'
  <2> SUFFICES ASSUME NEW h \in traversal'.hits
               PROVE  /\ h.depth \in 1..(d + 1)
                      /\ h.key \in EdgesOf(graph, Within(graph, traversal.start, h.depth - 1))
    BY <1>2, <1>3 DEF HitsWithin
  <2>1. CASE h \in traversal.hits
    BY <1>1, <1>5, <2>1 DEF TraversalInv, HitsWithin
  <2>2. CASE h \in added
    <3>1. h.depth = d + 1 /\ h.depth - 1 = d
      BY <1>10, <2>2
    <3>2. QED
      BY <1>6, <1>10, <2>2, <3>1
  <2>3. QED
    BY <1>3, <2>1, <2>2
<1>12. traversal'.frontier \subseteq Within(graph, traversal.start, d + 1)
  BY <1>3, <1>7, <1>9 DEF Neighbours
<1>13. ASSUME ~ traversal'.cut
       PROVE  /\ HitsComplete'
              /\ \E before : LevelInv(graph, [seen |-> Seen(traversal'.hits), frontier |-> traversal'.frontier],
                                      before, Within(graph, traversal.start, d + 1))
  <2>1. ~ traversal.cut /\ rows = Matching
    BY <1>3, <1>13
  <2> DEFINE l == [seen |-> Seen(traversal.hits), frontier |-> traversal.frontier]
             m == ScanLevel(graph, l)
  <2>2. PICK before : LevelInv(graph, l, before, refs)
    BY <1>1, <1>2, <1>6, <2>1 DEF TraversalInv
  <2>3. new = {r \in graph : r.subject \in l.frontier /\ SeenKey(r) \notin l.seen}
    BY <2>1 DEF new, Matching
  <2>4. m.seen = Seen(traversal.hits) \cup {SeenKey(r) : r \in new}
        /\ m.frontier = {r.object : r \in new} \ {Null}
    BY <2>3 DEF ScanLevel
  <2>5. Seen(traversal'.hits) = Seen(traversal.hits) \cup {SeenKey(r) : r \in new}
    <3>1. \A h \in added : \E r \in new : h.key = SeenKey(r)
      BY DEF added
    <3>2. \A r \in new : \E h \in added : h.key = SeenKey(r)
      <4> SUFFICES ASSUME NEW r \in new PROVE \E h \in added : h.key = SeenKey(r)
        OBVIOUS
      <4>1. [key |-> SeenKey(r), depth |-> traversal.d + 1] \in added
        BY DEF added
      <4>2. QED
        BY <4>1
    <3>3. Seen(traversal'.hits) = Seen(traversal.hits) \cup {h.key : h \in added}
      BY <1>3 DEF Seen
    <3>4. {h.key : h \in added} = {SeenKey(r) : r \in new}
      BY <3>1, <3>2
    <3>5. QED
      BY <3>3, <3>4
  <2>6. m = [seen |-> Seen(traversal'.hits), frontier |-> traversal'.frontier]
    BY <1>3, <2>4, <2>5 DEF ScanLevel
  <2> HIDE DEF l
  <2>7. m.seen = EdgesOf(graph, refs) /\ LevelInv(graph, m, refs, Neighbours(graph, refs))
    BY <2>2, LevelScanned
  <2>8. Seen(traversal'.hits) = EdgesOf(graph, refs)
    BY <2>6, <2>7
  <2>9. HitsComplete'
    <3> SUFFICES ASSUME NEW k \in 1..(d + 1)
                 PROVE  EdgesOf(graph, Within(graph, traversal.start, k - 1))
                          = Seen({h \in traversal'.hits : h.depth <= k})
      BY <1>2, <1>3 DEF HitsComplete
    <3>1. CASE k = d + 1
      <4>1. \A h \in traversal'.hits : h.depth <= k
        BY <1>3, <1>5, <1>10, <3>1
      <4>2. {h \in traversal'.hits : h.depth <= k} = traversal'.hits
        BY <4>1
      <4>3. k - 1 = d
        BY <3>1
      <4>4. QED
        BY <1>6, <2>8, <4>2, <4>3
    <3>2. CASE k # d + 1
      <4>1. k \in 1..d
        BY <3>2
      <4>2. \A h \in added : ~ (h.depth <= k)
        BY <1>10, <4>1
      <4>3. {h \in traversal'.hits : h.depth <= k} = {h \in traversal.hits : h.depth <= k}
        BY <1>3, <4>2
      <4>4. HitsComplete
        BY <2>1 DEF TraversalInv
      <4>5. QED
        BY <1>1, <4>1, <4>3, <4>4 DEF HitsComplete
    <3>3. QED
      BY <3>1, <3>2
  <2>10. QED
    BY <1>7, <2>6, <2>7, <2>9
<1>14. traversal'.page \subseteq traversal'.hits
  BY <1>3 DEF TraversalInv
<1>15. QED
  BY <1>2, <1>3, <1>4, <1>11, <1>12, <1>13, <1>14 DEF TraversalInv

LEMMA TraversalEndsStep ==
  ASSUME TraversalInv, TraversalEnds PROVE TraversalInv'
<1>1. PICK page : page \in SUBSET traversal.hits
                  /\ traversal' = [traversal EXCEPT !.pc = "done", !.page = page]
  BY DEF TraversalEnds
<1>2. /\ traversal'.start = traversal.start /\ traversal'.depth = traversal.depth
      /\ traversal'.d = traversal.d /\ traversal'.hits = traversal.hits
      /\ traversal'.frontier = traversal.frontier /\ traversal'.cut = traversal.cut
      /\ traversal'.page = page /\ traversal.pc = "levels" /\ graph' = graph
      /\ traversal' = [pc |-> traversal'.pc, start |-> traversal'.start, depth |-> traversal'.depth,
                       d |-> traversal'.d, hits |-> traversal'.hits, frontier |-> traversal'.frontier,
                       cut |-> traversal'.cut, page |-> traversal'.page]
  BY <1>1 DEF TraversalEnds, TraversalInv, TraversalTyped
<1>3. TraversalTyped'
  BY <1>2 DEF TraversalInv, TraversalTyped
<1>4. HitsWithin' /\ (~ traversal'.cut => HitsComplete')
  BY <1>2 DEF TraversalInv, HitsWithin, HitsComplete
<1>5. QED
  BY <1>1, <1>2, <1>3, <1>4 DEF TraversalInv

LEMMA TraversalStep == TraversalInv /\ TraversalNext => TraversalInv'
<1> SUFFICES ASSUME TraversalInv, TraversalNext PROVE TraversalInv'
  OBVIOUS
<1>1. CASE TraversalLeaves
  <2>1. traversal' = NoTraversal
    BY <1>1 DEF TraversalLeaves
  <2>2. (traversal = NoTraversal => TraversalInv)'
    BY NoTraversalHolds, PTL
  <2>3. QED
    BY <2>1, <2>2 DEF NoTraversal
<1>2. QED
  BY <1>1, TraversalStartsStep, LevelStep, TraversalEndsStep DEF TraversalNext

LEMMA TraversalSafe == TraversalInv => TraversalIsBoundedReach
BY DEF TraversalInv, TraversalTyped, HitsWithin, HitsComplete, TraversalIsBoundedReach, DepthCap

(* The inductive invariant of a request: no checkpoint claims more than its  *)
(* store has, a rebuild knows what its checkpoint claimed, and a request     *)
(* past its guard reads a store that has reached its token, one that no      *)
(* rebuild on its way takes back behind the token.                           *)
ReadKinds == {"none", "UTTERANCE", "CONTRADICTIONS", "UNRESOLVED_ALIASES", "EVIDENCE",
              "RELATIONSHIP_EDGES", "ENTITY"} \cup {r.kind : r \in Requests}

RequestForm ==
  [pc : {"idle", "guard", "read", "answered", "refused", "failed"},
   question : Questions \cup {NoQuestion}, asked : BOOLEAN, kind : ReadKinds,
   scope : {r.scope : r \in Requests} \cup {Anywhere},
   token : Nat, answer : SUBSET Rows, at : Nat, hybridAt : Nat]

StoresKnown ==
  /\ head \in Nat /\ content \in [Stores -> Nat] /\ checkpoint \in [Stores -> Nat]
  /\ \A p \in Stores : checkpoint[p] <= content[p] /\ content[p] <= head
  /\ rebuilding # Null =>
       rebuilding \in Nat /\ checkpoint["current"] <= rebuilding /\ rebuilding <= head

GuardHeld ==
  request.pc = "read" =>
    /\ content[Guarded] >= request.token
    /\ Guarded = "current" /\ rebuilding # Null => rebuilding >= request.token

QueryInv ==
  /\ StoresKnown
  /\ request \in RequestForm
  /\ request.token <= head
  /\ GuardHeld
  /\ AnswersReachToken
  /\ ScopeNeverIgnored

LEMMA UnaskedHolds ==
  ASSUME NEW scope, NEW r
  PROVE  /\ "continuity" \in AskedDims(scope) \/ ContinuityPred(r, scope)
         /\ "temporal" \in AskedDims(scope) \/ TemporalPred(r, scope)
         /\ "spatial" \in AskedDims(scope) \/ SpatialPred(r, scope)
<1>1. scope.continuity # Null => "continuity" \in AskedDims(scope)
  BY DEF AskedDims
<1>2. scope.from # Null \/ scope.to # Null => "temporal" \in AskedDims(scope)
  BY DEF AskedDims
<1>3. scope.place # Null => "spatial" \in AskedDims(scope)
  BY DEF AskedDims
<1>4. QED
  BY <1>1, <1>2, <1>3, Zenon DEF ContinuityPred, TemporalPred, SpatialPred

LEMMA AnswersInside ==
  ASSUME NEW kind, NEW scope, ~ Unmappable(kind, scope), NEW r \in AnswerOf(kind, scope)
  PROVE  r \in Rows /\ ContinuityPred(r, scope) /\ TemporalPred(r, scope) /\ SpatialPred(r, scope)
<1>1. AskedDims(scope) \subseteq Mappable(kind)
  BY DEF Unmappable
<1>2. CASE kind = "SCENE"
  BY <1>2 DEF AnswerOf, SceneRows
<1>3. CASE kind = "RELATIONSHIP_EDGES"
  <2>1. r \in Rows /\ TemporalPred(r, scope) /\ SpatialPred(r, scope)
    BY <1>3 DEF AnswerOf, EdgeRows
  <2>2. "continuity" \notin AskedDims(scope)
    BY <1>1, <1>3 DEF Mappable
  <2>3. QED
    BY <2>1, <2>2, UnaskedHolds
<1>4. CASE kind \in {"EVIDENCE", "UNRESOLVED_ALIASES"}
  <2>1. r \in Rows /\ ContinuityPred(r, scope)
    BY <1>4 DEF AnswerOf, EvidenceRows, MentionRows
  <2>2. "temporal" \notin AskedDims(scope) /\ "spatial" \notin AskedDims(scope)
    BY <1>1, <1>4 DEF Mappable
  <2>3. QED
    BY <2>1, <2>2, UnaskedHolds
<1>5. CASE kind \notin {"SCENE", "RELATIONSHIP_EDGES", "EVIDENCE", "UNRESOLVED_ALIASES"}
  <2>1. Mappable(kind) = {}
    BY <1>5 DEF Mappable
  <2>2. r \in Rows
    BY <1>5 DEF AnswerOf
  <2>3. QED
    BY <1>1, <2>1, <2>2, UnaskedHolds
<1>6. QED
  BY <1>2, <1>3, <1>4, <1>5

LEMMA QueryInit_Inv == QueryInit => QueryInv
<1> SUFFICES ASSUME QueryInit PROVE QueryInv
  OBVIOUS
<1>1. NoRequest \in RequestForm
  BY DEF NoRequest, RequestForm, ReadKinds
<1>2. NoRequest.pc = "idle" /\ NoRequest.token = 0
  BY DEF NoRequest
<1>3. StoresKnown
  BY DEF QueryInit, StoresKnown
<1>4. QED
  BY <1>1, <1>2, <1>3 DEF QueryInit, QueryInv, GuardHeld, AnswersReachToken, ScopeNeverIgnored

LEMMA GuardedIs == Guarded \in {"edges", "current"} /\ Stores = {"current", "edges"}
BY DEF Guarded, Stores

(* Where the request does not move, the invariant is about the stores.      *)
LEMMA StoresMove ==
  ASSUME QueryInv, request' = request, StoresKnown', head' >= head, GuardHeld'
  PROVE  QueryInv'
<1>1. request.token \in Nat /\ head \in Nat /\ head' \in Nat
  BY DEF QueryInv, RequestForm, StoresKnown
<1>2. AnswersReachToken' /\ ScopeNeverIgnored'
  BY DEF QueryInv, AnswersReachToken, ScopeNeverIgnored
<1>3. QED
  BY <1>1, <1>2 DEF QueryInv

LEMMA CommitsStep == QueryInv /\ Commits => QueryInv'
<1> SUFFICES ASSUME QueryInv, Commits PROVE QueryInv'
  OBVIOUS
<1>1. /\ request' = request /\ head' = head + 1 /\ checkpoint' = checkpoint
      /\ rebuilding' = rebuilding
      /\ content' = [content EXCEPT !["current"] = IF content["current"] = head THEN head + 1
                                                   ELSE content["current"]]
  BY DEF Commits
<1>2. /\ head \in Nat /\ content \in [Stores -> Nat] /\ checkpoint \in [Stores -> Nat]
      /\ content["current"] \in Nat /\ content["edges"] \in Nat
      /\ checkpoint["current"] \in Nat /\ checkpoint["edges"] \in Nat
      /\ checkpoint["current"] <= content["current"] /\ content["current"] <= head
      /\ checkpoint["edges"] <= content["edges"] /\ content["edges"] <= head
  BY GuardedIs DEF QueryInv, StoresKnown
<1>3. /\ content' \in [Stores -> Nat] /\ content'["edges"] = content["edges"]
      /\ content'["current"] >= content["current"] /\ content'["current"] <= head + 1
  BY <1>1, <1>2, GuardedIs
<1>4. StoresKnown'
  BY <1>1, <1>2, <1>3, GuardedIs DEF QueryInv, StoresKnown
<1>5. GuardHeld'
  <2>1. Guarded' = Guarded
    BY <1>1 DEF Guarded, EdgeDerived
  <2>2. request.token \in Nat
    BY DEF QueryInv, RequestForm
  <2>3. content'[Guarded] >= content[Guarded] /\ content[Guarded] \in Nat /\ content'[Guarded] \in Nat
    BY <1>2, <1>3, GuardedIs
  <2>4. QED
    BY <1>1, <2>1, <2>2, <2>3 DEF QueryInv, GuardHeld
<1>6. QED
  BY <1>1, <1>2, <1>4, <1>5, StoresMove

LEMMA ProjectsStep == QueryInv /\ ProjectsEdges => QueryInv'
<1> SUFFICES ASSUME QueryInv, ProjectsEdges PROVE QueryInv'
  OBVIOUS
<1>1. /\ head \in Nat /\ content \in [Stores -> Nat] /\ checkpoint \in [Stores -> Nat]
      /\ content["current"] \in Nat /\ content["edges"] \in Nat
      /\ checkpoint["current"] \in Nat /\ checkpoint["edges"] \in Nat
      /\ checkpoint["current"] <= content["current"] /\ content["current"] <= head
      /\ checkpoint["edges"] <= content["edges"] /\ content["edges"] <= head
  BY GuardedIs DEF QueryInv, StoresKnown
<1>2. PICK n \in checkpoint["edges"]..head :
        /\ Saves("edges", n)
        /\ content' = [content EXCEPT !["edges"] = IF n > content["edges"] THEN n ELSE content["edges"]]
  BY DEF ProjectsEdges
<1>3. PICK saved \in 0..n : checkpoint' = [checkpoint EXCEPT !["edges"] = saved]
  BY <1>2 DEF Saves
<1>4. request' = request /\ head' = head /\ rebuilding' = rebuilding
  BY DEF ProjectsEdges
<1>5. n \in Nat /\ n <= head /\ saved \in Nat /\ saved <= n
  BY <1>1, <1>2, <1>3
<1>6. /\ content' \in [Stores -> Nat] /\ content'["current"] = content["current"]
      /\ content'["edges"] >= content["edges"] /\ content'["edges"] <= head
      /\ content'["edges"] >= n
  BY <1>1, <1>2, <1>5, GuardedIs
<1>7. /\ checkpoint' \in [Stores -> Nat] /\ checkpoint'["current"] = checkpoint["current"]
      /\ checkpoint'["edges"] = saved
  BY <1>1, <1>3, <1>5, GuardedIs
<1>8. StoresKnown'
  BY <1>1, <1>4, <1>5, <1>6, <1>7, GuardedIs DEF QueryInv, StoresKnown
<1>9. GuardHeld'
  <2>1. Guarded' = Guarded
    BY <1>4 DEF Guarded, EdgeDerived
  <2>2. request.token \in Nat
    BY DEF QueryInv, RequestForm
  <2>3. content'[Guarded] >= content[Guarded] /\ content[Guarded] \in Nat /\ content'[Guarded] \in Nat
    BY <1>1, <1>6, GuardedIs
  <2>4. QED
    BY <1>4, <2>1, <2>2, <2>3 DEF QueryInv, GuardHeld
<1>10. QED
  BY <1>1, <1>4, <1>8, <1>9, StoresMove

LEMMA LoadsStep == QueryInv /\ LoadsLedger => QueryInv'
<1> SUFFICES ASSUME QueryInv, LoadsLedger PROVE QueryInv'
  OBVIOUS
<1>1. /\ request' = request /\ head' = head /\ rebuilding' = head
      /\ content' = content /\ checkpoint' = checkpoint
  BY DEF LoadsLedger
<1>2. head \in Nat /\ checkpoint["current"] \in Nat /\ content["current"] \in Nat
      /\ checkpoint["current"] <= head
  BY GuardedIs DEF QueryInv, StoresKnown
<1>3. StoresKnown'
  BY <1>1, <1>2 DEF QueryInv, StoresKnown
<1>4. GuardHeld'
  <2>1. Guarded' = Guarded
    BY <1>1 DEF Guarded, EdgeDerived
  <2>2. request.token \in Nat /\ request.token <= head
    BY DEF QueryInv, RequestForm
  <2>3. QED
    BY <1>1, <1>2, <2>1, <2>2 DEF QueryInv, GuardHeld
<1>5. QED
  BY <1>1, <1>2, <1>3, <1>4, StoresMove

LEMMA WritesStep == QueryInv /\ WritesCurrentState => QueryInv'
<1> SUFFICES ASSUME QueryInv, WritesCurrentState PROVE QueryInv'
  OBVIOUS
<1>1. /\ head \in Nat /\ content \in [Stores -> Nat] /\ checkpoint \in [Stores -> Nat]
      /\ content["current"] \in Nat /\ content["edges"] \in Nat
      /\ checkpoint["current"] \in Nat /\ checkpoint["edges"] \in Nat
      /\ checkpoint["edges"] <= content["edges"] /\ content["edges"] <= head
      /\ rebuilding \in Nat /\ rebuilding <= head
  BY GuardedIs DEF QueryInv, StoresKnown, WritesCurrentState
<1>2. request' = request /\ head' = head /\ rebuilding' = Null /\ rebuilding # Null
  BY DEF WritesCurrentState
<1>3. PICK saved \in 0..rebuilding : checkpoint' = [checkpoint EXCEPT !["current"] = saved]
  BY DEF WritesCurrentState, Saves
<1>4. PICK n \in rebuilding..head : content' = [content EXCEPT !["current"] = n]
  BY DEF WritesCurrentState
<1>5. n \in Nat /\ n <= head /\ n >= rebuilding /\ saved \in Nat /\ saved <= n
  BY <1>1, <1>3, <1>4
<1>6. content' \in [Stores -> Nat] /\ content'["current"] = n /\ content'["edges"] = content["edges"]
  BY <1>1, <1>4, <1>5, GuardedIs
<1>7. /\ checkpoint' \in [Stores -> Nat] /\ checkpoint'["edges"] = checkpoint["edges"]
      /\ checkpoint'["current"] = saved
  BY <1>1, <1>3, <1>5, GuardedIs
<1>8. StoresKnown'
  BY <1>1, <1>2, <1>5, <1>6, <1>7, GuardedIs DEF StoresKnown
<1>9. GuardHeld'
  <2>1. Guarded' = Guarded
    BY <1>2 DEF Guarded, EdgeDerived
  <2>2. request.token \in Nat
    BY DEF QueryInv, RequestForm
  <2>3. CASE Guarded = "edges"
    BY <1>2, <1>6, <2>1, <2>3 DEF QueryInv, GuardHeld
  <2>4. CASE Guarded = "current"
    <3>1. request.pc = "read" => rebuilding >= request.token
      BY <1>2, <2>4 DEF QueryInv, GuardHeld
    <3>2. request.pc = "read" => n >= request.token
      BY <1>1, <1>5, <2>2, <3>1
    <3>3. QED
      BY <1>2, <1>6, <2>1, <2>4, <3>2 DEF GuardHeld
  <2>5. QED
    BY <2>3, <2>4, GuardedIs
<1>10. QED
  BY <1>1, <1>2, <1>8, <1>9, StoresMove

LEMMA AskQueryStep ==
  ASSUME QueryInv, NEW kind \in ReadKinds, NEW scope \in {r.scope : r \in Requests} \cup {Anywhere},
         NEW question \in Questions \cup {NoQuestion}, NEW asked \in BOOLEAN,
         Asks(kind, scope, question, asked)
  PROVE  QueryInv'
<1>1. PICK token \in 0..head :
        request' = [NoRequest EXCEPT !.pc = "guard", !.kind = kind, !.scope = scope,
                      !.question = question, !.asked = asked, !.token = token]
  BY DEF Asks
<1>2. request' = [pc |-> "guard", question |-> question, asked |-> asked, kind |-> kind,
                  scope |-> scope, token |-> token, answer |-> {}, at |-> 0, hybridAt |-> 0]
  BY <1>1 DEF NoRequest
<1>3. head \in Nat /\ token \in Nat /\ token <= head
  BY DEF QueryInv, StoresKnown
<1>4. request' \in RequestForm
  BY <1>2, <1>3 DEF RequestForm
<1>5. /\ head' = head /\ content' = content /\ checkpoint' = checkpoint /\ rebuilding' = rebuilding
      /\ request'.pc = "guard" /\ request'.token = token
  BY <1>2 DEF Asks
<1>6. StoresKnown'
  BY <1>5 DEF QueryInv, StoresKnown
<1>7. QED
  BY <1>3, <1>4, <1>5, <1>6 DEF QueryInv, GuardHeld, AnswersReachToken, ScopeNeverIgnored

LEMMA GuardStep == QueryInv /\ GuardPasses => QueryInv'
<1> SUFFICES ASSUME QueryInv, GuardPasses PROVE QueryInv'
  OBVIOUS
<1>1. request' \in RequestForm /\ request'.pc = "read" /\ request'.token = request.token
      /\ request'.asked = request.asked /\ request'.kind = request.kind
      /\ request'.question = request.question
  BY DEF QueryInv, GuardPasses, RequestForm
<1>2. Guarded' = Guarded
  BY <1>1 DEF Guarded, EdgeDerived
<1>3. head' = head /\ content' = content /\ checkpoint' = checkpoint /\ rebuilding' = rebuilding
  BY DEF GuardPasses
<1>4. StoresKnown'
  BY <1>3 DEF QueryInv, StoresKnown
<1>5. GuardHeld'
  <2>1. request.token \in Nat /\ checkpoint[Guarded] >= request.token
    BY DEF QueryInv, RequestForm, GuardPasses
  <2>2. /\ checkpoint[Guarded] \in Nat /\ content[Guarded] \in Nat
        /\ checkpoint[Guarded] <= content[Guarded]
    BY GuardedIs DEF QueryInv, StoresKnown
  <2>3. rebuilding # Null => rebuilding \in Nat /\ checkpoint["current"] <= rebuilding
    BY DEF QueryInv, StoresKnown
  <2>4. QED
    BY <1>1, <1>2, <1>3, <2>1, <2>2, <2>3 DEF GuardHeld
<1>6. QED
  BY <1>1, <1>3, <1>4, <1>5 DEF QueryInv, AnswersReachToken, ScopeNeverIgnored

LEMMA ResetStep == QueryInv /\ (GuardTimesOut \/ Done) => QueryInv'
<1> SUFFICES ASSUME QueryInv, GuardTimesOut \/ Done PROVE QueryInv'
  OBVIOUS
<1>1. NoRequest \in RequestForm
  BY DEF NoRequest, RequestForm, ReadKinds
<1>2. NoRequest.pc = "idle" /\ NoRequest.token = 0
  BY DEF NoRequest
<1>3. /\ request' = NoRequest /\ head' = head /\ content' = content
      /\ checkpoint' = checkpoint /\ rebuilding' = rebuilding
  BY DEF GuardTimesOut, Done
<1>4. StoresKnown' /\ head \in Nat
  BY <1>3 DEF QueryInv, StoresKnown
<1>5. QED
  BY <1>1, <1>2, <1>3, <1>4 DEF QueryInv, GuardHeld, AnswersReachToken, ScopeNeverIgnored

LEMMA FailsStep == QueryInv /\ ContradictionFails => QueryInv'
<1> SUFFICES ASSUME QueryInv, ContradictionFails PROVE QueryInv'
  OBVIOUS
<1>1. request' \in RequestForm /\ request'.pc = "failed" /\ request'.token = request.token
  BY DEF QueryInv, ContradictionFails, RequestForm
<1>2. head' = head /\ content' = content /\ checkpoint' = checkpoint /\ rebuilding' = rebuilding
  BY DEF ContradictionFails
<1>3. StoresKnown'
  BY <1>2 DEF QueryInv, StoresKnown
<1>4. QED
  BY <1>1, <1>2, <1>3 DEF QueryInv, GuardHeld, AnswersReachToken, ScopeNeverIgnored

LEMMA ReadsStep == QueryInv /\ Reads => QueryInv'
<1> SUFFICES ASSUME QueryInv, Reads PROVE QueryInv'
  OBVIOUS
<1> DEFINE kind == Operation
           at == IF StoreOf(kind) = "tables" THEN head ELSE content[StoreOf(kind)]
           rows == IF kind = "CONTRADICTIONS" THEN {} ELSE AnswerOf(kind, OperationScope)
<1>1. /\ head' = head /\ content' = content /\ checkpoint' = checkpoint /\ rebuilding' = rebuilding
      /\ request \in RequestForm /\ request.pc = "read"
  BY DEF QueryInv, Reads
<1>2. StoresKnown'
  BY <1>1 DEF QueryInv, StoresKnown
<1>3. kind \in ReadKinds
  BY <1>1 DEF RequestForm, ReadKinds, CompiledOp, Operation
<1>4. StoreOf(kind) \in {"edges", "current", "tables"}
  BY DEF StoreOf
<1>5. at \in Nat
  BY <1>4, GuardedIs DEF QueryInv, StoresKnown
<1>6. CASE Unmappable(kind, OperationScope)
  <2>1. request' = [request EXCEPT !.pc = "refused"]
    BY <1>6 DEF Reads
  <2>2. request' \in RequestForm /\ request'.pc = "refused" /\ request'.token = request.token
    BY <1>1, <2>1 DEF RequestForm
  <2>3. QED
    BY <1>1, <1>2, <2>2 DEF QueryInv, GuardHeld, AnswersReachToken, ScopeNeverIgnored
<1>7. CASE ~ Unmappable(kind, OperationScope)
  <2>1. PICK searched \in 0..head :
          request' = [request EXCEPT !.pc = "answered", !.kind = kind, !.hybridAt = searched,
                                     !.answer = rows, !.at = at]
    <3>1. head \in Nat
      BY DEF QueryInv, StoresKnown
    <3>2. PICK searched \in IF request.asked /\ kind = "ENTITY" THEN 0..head ELSE {0} :
            request' = [request EXCEPT !.pc = "answered", !.kind = kind, !.hybridAt = searched,
                                       !.answer = rows, !.at = at]
      BY <1>7, Zenon DEF Reads
    <3>3. searched \in 0..head
      BY <3>1, <3>2
    <3>4. QED
      BY <3>2, <3>3
  <2>2. \A r \in rows : /\ r \in Rows /\ ContinuityPred(r, OperationScope)
                        /\ TemporalPred(r, OperationScope) /\ SpatialPred(r, OperationScope)
    BY <1>7, AnswersInside, Zenon
  <2>3. StoreOf(kind) = "edges" => kind = "RELATIONSHIP_EDGES"
    BY DEF StoreOf
  <2>4. kind = "RELATIONSHIP_EDGES" => Guarded = "edges"
    BY DEF Operation, Guarded, EdgeDerived, RequiresEdgeGuard, CompiledOp
  <2>5. StoreOf(kind) = "current" /\ ~ request.question.relation => Guarded = "current"
    BY <2>3 DEF StoreOf, Operation, Guarded, EdgeDerived, RequiresEdgeGuard
  <2>6. content[Guarded] >= request.token /\ head >= request.token /\ request.token \in Nat
    BY <1>1 DEF QueryInv, GuardHeld, RequestForm, StoresKnown
  <2>7. (StoreOf(kind) = "current" => ~ request.question.relation) => at >= request.token
    BY <1>4, <2>3, <2>4, <2>5, <2>6
  <2>8. ~ request.asked => OperationScope = request.scope
    BY DEF OperationScope
  <2> HIDE DEF kind, at, rows
  <2>9. rows \in SUBSET Rows
    BY <2>2
  <2>10. /\ request' \in RequestForm /\ request'.pc = "answered" /\ request'.token = request.token
         /\ request'.at = at /\ request'.answer = rows /\ request'.scope = request.scope
         /\ request'.kind = kind /\ request'.asked = request.asked
         /\ request'.question = request.question
    <3>1. searched \in Nat
      BY <2>1
    <3>2. QED
      BY <1>1, <1>3, <1>5, <2>1, <2>9, <3>1 DEF RequestForm
  <2>11. AnswersReachToken'
    BY <2>7, <2>10 DEF AnswersReachToken
  <2>12. ScopeNeverIgnored'
    <3> SUFFICES ASSUME ~ request.asked
                 PROVE  ScopeNeverIgnored'
      BY <2>10, Zenon DEF ScopeNeverIgnored
    <3>1. \A r \in request'.answer :
            /\ ContinuityPred(r, request'.scope) /\ TemporalPred(r, request'.scope)
            /\ SpatialPred(r, request'.scope)
      BY <2>2, <2>8, <2>10
    <3>2. QED
      BY <3>1, Zenon DEF ScopeNeverIgnored, ContinuityPred, TemporalPred, SpatialPred
  <2>13. QED
    BY <1>1, <1>2, <2>6, <2>10, <2>11, <2>12 DEF QueryInv, GuardHeld
<1>8. QED
  BY <1>6, <1>7

LEMMA RequestStep == QueryInv /\ RequestNext => QueryInv'
<1> SUFFICES ASSUME QueryInv, RequestNext PROVE QueryInv'
  OBVIOUS
<1>1. ASSUME NEW r \in Requests, Asks(r.kind, r.scope, NoQuestion, FALSE) PROVE QueryInv'
  BY <1>1, AskQueryStep DEF ReadKinds
<1>2. ASSUME NEW q \in Questions, NEW scope \in QuestionScopes, Asks("none", scope, q, TRUE)
      PROVE  QueryInv'
  <2>1. scope \in {r.scope : r \in Requests} \cup {Anywhere}
    BY DEF QuestionScopes
  <2>2. QED
    BY <1>2, <2>1, AskQueryStep DEF ReadKinds
<1>3. QED
  BY <1>1, <1>2, CommitsStep, ProjectsStep, LoadsStep, WritesStep, GuardStep, ResetStep, FailsStep,
     ReadsStep DEF RequestNext

(* An answer is as fresh as the token, a scope is never ignored and a       *)
(* traversal is the reach of its start, whatever requests, rows and graphs. *)
THEOREM AnswersAreHonoured == QuerySpec => []AnswersHonoured
<1>1. QueryInit => QueryInv /\ TraversalInv
  <2>1. QueryInit => TraversalInv
    BY NoTraversalHolds DEF QueryInit
  <2>2. QED
    BY <2>1, QueryInit_Inv
<1>2. QueryInv /\ TraversalInv /\ [QueryNext]_queryVars => QueryInv' /\ TraversalInv'
  <2> SUFFICES ASSUME QueryInv, TraversalInv, [QueryNext]_queryVars PROVE QueryInv' /\ TraversalInv'
    OBVIOUS
  <2>1. ASSUME UNCHANGED requestVars PROVE QueryInv'
    BY <2>1 DEF requestVars, QueryInv, StoresKnown, GuardHeld, Guarded, EdgeDerived,
       AnswersReachToken, ScopeNeverIgnored
  <2>2. ASSUME UNCHANGED traversalVars PROVE TraversalInv'
    BY <2>2 DEF traversalVars, TraversalInv, TraversalTyped, HitsWithin, HitsComplete
  <2>3. QED
    BY <2>1, <2>2, RequestStep, TraversalStep DEF QueryNext, queryVars
<1>3. QueryInv /\ TraversalInv => AnswersHonoured
  BY TraversalSafe DEF QueryInv, AnswersHonoured
<1>4. QED
  BY <1>1, <1>2, <1>3, PTL DEF QuerySpec

-----------------------------------------------------------------------------
(* The storage root                                                        *)

RootTyped ==
  /\ rootCrashes \in Nat /\ inits \in Nat
  /\ starter \in [Starters -> {"start", "locked", "empty", "building", "ready", "refused", "dead"}]
  /\ staged \in [Starters -> (SUBSET RootEntries) \cup {Gone}]

\* The lock is with whoever is inside create, and only a builder has staged files.
InsideLocked ==
  \A p \in Starters :
    /\ starter[p] \in {"locked", "empty", "building"} <=> lockHolder = p
    /\ staged[p] # Gone <=> starter[p] = "building"
    /\ starter[p] \notin {"refused", "dead"}

\* What the root holds at every point of the one build of it.
RootWhole ==
  /\ \A p \in Starters :
       /\ starter[p] = "empty" => inits = 0 /\ entries = {}
       /\ starter[p] = "building" => inits = 1 /\ entries \cup staged[p] = RootEntries
       /\ starter[p] = "ready" => entries = RootEntries
  /\ (\A p \in Starters : starter[p] # "building") =>
       \/ inits = 0 /\ entries = {}
       \/ inits = 1 /\ entries = RootEntries

RootInv == RootTyped /\ (rootCrashes = 0 => InsideLocked /\ RootWhole)

LEMMA GoneIsNoSet == Gone \notin SUBSET RootEntries
BY DEF Gone, RootEntries, NamasteFile

LEMMA RootInit_Inv == RootInit => RootInv
<1> SUFFICES ASSUME RootInit PROVE RootInv
  OBVIOUS
<1>1. \A p \in Starters : starter[p] = "start" /\ staged[p] = Gone /\ lockHolder # p
  BY FreeIsNoStarter DEF RootInit
<1>2. RootTyped
  BY DEF RootInit, RootTyped
<1>3. InsideLocked
  BY <1>1 DEF InsideLocked
<1>4. RootWhole
  BY <1>1 DEF RootInit, RootWhole
<1>5. QED
  BY <1>2, <1>3, <1>4 DEF RootInv

LEMMA OneInside ==
  ASSUME InsideLocked, NEW p \in Starters, starter[p] \in {"locked", "empty", "building"}
  PROVE  /\ lockHolder = p
         /\ \A q \in Starters : q # p => starter[q] \notin {"locked", "empty", "building"}
BY DEF InsideLocked

LEMMA AcquireRoot ==
  ASSUME RootTyped, InsideLocked, RootWhole, NEW p \in Starters, Acquire(p)
  PROVE  InsideLocked' /\ RootWhole'
<1>1. /\ starter[p] = "start" /\ lockHolder = "free" /\ lockHolder' = p
      /\ starter' = [starter EXCEPT ![p] = "locked"]
      /\ entries' = entries /\ staged' = staged /\ inits' = inits
  BY DEF Acquire, LockFree
<1>2. starter'[p] = "locked" /\ \A q \in Starters : q # p => starter'[q] = starter[q]
  BY <1>1 DEF RootTyped
<1>3. \A q \in Starters : starter[q] \notin {"locked", "empty", "building"}
  BY <1>1, FreeIsNoStarter DEF InsideLocked
<1>4. InsideLocked'
  BY <1>1, <1>2, <1>3 DEF InsideLocked
<1>5. RootWhole'
  BY <1>1, <1>2, <1>3 DEF RootWhole
<1>6. QED
  BY <1>4, <1>5

LEMMA InspectRoot ==
  ASSUME RootTyped, InsideLocked, RootWhole, NEW p \in Starters, Inspect(p)
  PROVE  InsideLocked' /\ RootWhole'
<1>1. starter[p] = "locked" /\ entries' = entries /\ staged' = staged /\ inits' = inits
  BY DEF Inspect
<1>2. /\ lockHolder = p
      /\ \A q \in Starters : q # p => starter[q] \notin {"locked", "empty", "building"}
  BY <1>1, OneInside
<1>3. (inits = 0 /\ entries = {}) \/ (inits = 1 /\ entries = RootEntries)
  <2>1. \A q \in Starters : starter[q] # "building"
    BY <1>1, <1>2
  <2>2. QED
    BY <2>1 DEF RootWhole
<1>4. \A q \in Starters : staged[q] = Gone
  BY <1>1, <1>2 DEF InsideLocked
<1>5. CASE NamasteFile \in entries
  <2>1. starter' = [starter EXCEPT ![p] = "ready"] /\ lockHolder' = "free"
    BY <1>2, <1>5 DEF Inspect, Release
  <2>2. starter'[p] = "ready" /\ \A q \in Starters : q # p => starter'[q] = starter[q]
    BY <2>1 DEF RootTyped
  <2>3. inits = 1 /\ entries = RootEntries
    BY <1>3, <1>5
  <2>4. InsideLocked'
    BY <1>1, <1>2, <2>1, <2>2, FreeIsNoStarter DEF InsideLocked
  <2>5. RootWhole'
    BY <1>1, <1>2, <2>2, <2>3 DEF RootWhole
  <2>6. QED
    BY <2>4, <2>5
<1>6. CASE NamasteFile \notin entries
  <2>1. inits = 0 /\ entries = {}
    BY <1>3, <1>6 DEF RootEntries
  <2>2. starter' = [starter EXCEPT ![p] = "empty"] /\ lockHolder' = lockHolder
    BY <1>4, <1>6, <2>1 DEF Inspect
  <2>3. starter'[p] = "empty" /\ \A q \in Starters : q # p => starter'[q] = starter[q]
    BY <2>2 DEF RootTyped
  <2>4. InsideLocked'
    BY <1>1, <1>2, <2>2, <2>3 DEF InsideLocked
  <2>5. RootWhole'
    BY <1>1, <1>2, <2>1, <2>3 DEF RootWhole
  <2>6. QED
    BY <2>4, <2>5
<1>7. QED
  BY <1>5, <1>6

LEMMA StageRoot ==
  ASSUME RootTyped, InsideLocked, RootWhole, NEW p \in Starters, Stage(p)
  PROVE  InsideLocked' /\ RootWhole'
<1>1. /\ starter[p] = "empty" /\ starter' = [starter EXCEPT ![p] = "building"]
      /\ staged' = [staged EXCEPT ![p] = RootEntries] /\ inits' = inits + 1
      /\ entries' = entries /\ lockHolder' = lockHolder
  BY DEF Stage
<1>2. starter'[p] = "building" /\ \A q \in Starters : q # p => starter'[q] = starter[q]
  BY <1>1 DEF RootTyped
<1>3. staged'[p] = RootEntries /\ \A q \in Starters : q # p => staged'[q] = staged[q]
  BY <1>1 DEF RootTyped
<1>4. /\ lockHolder = p
      /\ \A q \in Starters : q # p => starter[q] \notin {"locked", "empty", "building"}
  BY <1>1, OneInside
<1>5. inits = 0 /\ entries = {} /\ inits' = 1
  BY <1>1 DEF RootWhole
<1>6. \A q \in Starters : starter[q] # "ready"
  BY <1>5 DEF RootWhole, RootEntries
<1>7. InsideLocked'
  BY <1>1, <1>2, <1>3, <1>4, GoneIsNoSet DEF InsideLocked
<1>8. RootWhole'
  BY <1>1, <1>2, <1>3, <1>4, <1>5, <1>6 DEF RootWhole
<1>9. QED
  BY <1>7, <1>8

LEMMA MoveRoot ==
  ASSUME RootTyped, InsideLocked, RootWhole, NEW p \in Starters, MoveEntry(p)
  PROVE  InsideLocked' /\ RootWhole'
<1>1. PICK e \in staged[p] : staged' = [staged EXCEPT ![p] = staged[p] \ {e}] /\ entries' = entries \cup {e}
  BY DEF MoveEntry
<1>2. starter[p] = "building" /\ starter' = starter /\ inits' = inits /\ lockHolder' = lockHolder
  BY DEF MoveEntry
<1>3. staged'[p] = staged[p] \ {e} /\ \A q \in Starters : q # p => staged'[q] = staged[q]
  BY <1>1 DEF RootTyped
<1>4. staged[p] \in SUBSET RootEntries
  BY <1>2 DEF InsideLocked, RootTyped
<1>5. /\ lockHolder = p
      /\ \A q \in Starters : q # p => starter[q] \notin {"locked", "empty", "building"}
  BY <1>2, OneInside
<1>6. inits = 1 /\ entries' \cup staged'[p] = RootEntries
  BY <1>1, <1>2, <1>3 DEF RootWhole
<1>7. staged'[p] # Gone
  BY <1>3, <1>4, GoneIsNoSet
<1>8. InsideLocked'
  BY <1>2, <1>3, <1>7 DEF InsideLocked
<1>9. \A q \in Starters : starter[q] = "ready" => entries' = RootEntries
  BY <1>1, <1>4 DEF RootWhole
<1>10. RootWhole'
  BY <1>2, <1>3, <1>5, <1>6, <1>9 DEF RootWhole
<1>11. QED
  BY <1>8, <1>10

LEMMA FinishRootStep ==
  ASSUME RootTyped, InsideLocked, RootWhole, NEW p \in Starters, FinishRoot(p)
  PROVE  InsideLocked' /\ RootWhole'
<1>1. /\ starter[p] = "building" /\ staged[p] = {} /\ staged' = [staged EXCEPT ![p] = Gone]
      /\ starter' = [starter EXCEPT ![p] = "ready"] /\ entries' = entries /\ inits' = inits
  BY DEF FinishRoot
<1>2. /\ lockHolder = p
      /\ \A q \in Starters : q # p => starter[q] \notin {"locked", "empty", "building"}
  BY <1>1, OneInside
<1>3. lockHolder' = "free"
  BY <1>2 DEF FinishRoot, Release
<1>4. starter'[p] = "ready" /\ \A q \in Starters : q # p => starter'[q] = starter[q]
  BY <1>1 DEF RootTyped
<1>5. staged'[p] = Gone /\ \A q \in Starters : q # p => staged'[q] = staged[q]
  BY <1>1 DEF RootTyped
<1>6. inits = 1 /\ entries = RootEntries
  BY <1>1 DEF RootWhole
<1>7. InsideLocked'
  BY <1>2, <1>3, <1>4, <1>5, FreeIsNoStarter DEF InsideLocked
<1>8. RootWhole'
  BY <1>1, <1>2, <1>4, <1>6 DEF RootWhole
<1>9. QED
  BY <1>7, <1>8

LEMMA RootTypedStep == RootTyped /\ RootNext => RootTyped'
<1> SUFFICES ASSUME RootTyped, NEW p \in Starters, Proceed(p) \/ DieBuilding(p) PROVE RootTyped'
  BY DEF RootNext
<1>1. CASE Acquire(p)
  BY <1>1 DEF Acquire, RootTyped
<1>2. CASE Inspect(p)
  BY <1>2 DEF Inspect, RootTyped
<1>3. CASE Stage(p)
  BY <1>3 DEF Stage, RootTyped
<1>4. CASE MoveEntry(p)
  <2>1. PICK e \in staged[p] : staged' = [staged EXCEPT ![p] = staged[p] \ {e}]
    BY <1>4 DEF MoveEntry
  <2>2. staged[p] \ {e} \in SUBSET RootEntries
    BY <2>1 DEF RootTyped, Gone
  <2>3. QED
    BY <1>4, <2>1, <2>2 DEF MoveEntry, RootTyped
<1>5. CASE FinishRoot(p)
  BY <1>5 DEF FinishRoot, RootTyped
<1>6. CASE DieBuilding(p)
  BY <1>6 DEF DieBuilding, RootTyped
<1>7. QED
  BY <1>1, <1>2, <1>3, <1>4, <1>5, <1>6 DEF Proceed

LEMMA RootStep == RootInv /\ [RootNext]_rootVars => RootInv'
<1> SUFFICES ASSUME RootInv, [RootNext]_rootVars PROVE RootInv'
  OBVIOUS
<1>1. CASE UNCHANGED rootVars
  BY <1>1 DEF rootVars, RootInv, RootTyped, InsideLocked, RootWhole
<1>2. CASE RootNext
  <2>1. RootTyped'
    BY <1>2, RootTypedStep DEF RootInv
  <2>2. ASSUME NEW p \in Starters, Proceed(p), rootCrashes' = 0 PROVE InsideLocked' /\ RootWhole'
    <3>1. rootCrashes = 0
      BY <2>2 DEF Proceed, Acquire, Inspect, Stage, MoveEntry, FinishRoot
    <3>2. RootTyped /\ InsideLocked /\ RootWhole
      BY <3>1 DEF RootInv
    <3>3. QED
      BY <2>2, <3>2, AcquireRoot, InspectRoot, StageRoot, MoveRoot, FinishRootStep DEF Proceed
  <2>3. ASSUME NEW p \in Starters, DieBuilding(p) PROVE rootCrashes' # 0
    BY <2>3 DEF DieBuilding, RootInv, RootTyped
  <2>4. QED
    BY <1>2, <2>1, <2>2, <2>3 DEF RootNext, RootInv
<1>3. QED
  BY <1>1, <1>2

LEMMA WholeRootBuiltOnce == RootInv => RootBuiltOnce
<1> SUFFICES ASSUME RootInv, rootCrashes = 0
             PROVE  /\ inits <= 1
                    /\ \A p \in Starters : starter[p] # "refused"
                    /\ (\E p \in Starters : starter[p] = "ready") => entries = RootEntries
  BY DEF RootBuiltOnce
<1>1. inits \in {0, 1}
  BY DEF RootInv, RootWhole
<1>2. QED
  BY <1>1 DEF RootInv, InsideLocked, RootWhole

THEOREM StorageRootBuiltOnce == RootSpec => []RootBuiltOnce
<1>1. QED
  BY RootInit_Inv, RootStep, WholeRootBuiltOnce, PTL DEF RootSpec

-----------------------------------------------------------------------------
(* The search store                                                        *)

(* What SQL selects Python accepts, and the converse but for a list of      *)
(* tuples that is there and empty.                                          *)
LEMMA ScopesRelate ==
  ASSUME NEW meta, NEW scope
  PROVE  /\ SqlScope(meta, scope) => InMembershipScope(meta, scope)
         /\ InMembershipScope(meta, scope) => SqlScope(meta, scope) \/ NoTuplesListed(meta)
<1>1. CASE scope = <<>>
  <2>1. DOMAIN scope = {}
    BY <1>1
  <2>2. ArraysMatch(meta, scope) /\ \A t : TupleMatches(t, scope)
    BY <2>1 DEF ArraysMatch, TupleMatches
  <2>3. SqlScope(meta, scope)
    BY <1>1 DEF SqlScope
  <2>4. InMembershipScope(meta, scope)
    BY <2>2 DEF InMembershipScope
  <2>5. QED
    BY <2>3, <2>4
<1>2. CASE scope # <<>>
  <2>1. CASE "tuples" \in DOMAIN meta.memberships
    BY <1>2, <2>1 DEF SqlScope, InMembershipScope, Owned, NoTuplesListed
  <2>2. CASE "tuples" \notin DOMAIN meta.memberships
    BY <1>2, <2>2 DEF SqlScope, InMembershipScope, Owned
  <2>3. QED
    BY <2>1, <2>2
<1>3. QED
  BY <1>1, <1>2

MentionDocs == {d \in docs : d.family = "mention"}

(* The mention documents are those of some prefix of the events, no shorter *)
(* than the checkpoint; once the builder has run, they are those of all and *)
(* the others those of the present rows.                                    *)
SearchInv ==
  /\ mentions \in Seq(MentionEvents) /\ applied \in Nat
  /\ \E seen \in applied..Len(mentions) : /\ MentionDocs = Written(0, seen)
                                          /\ docsCurrent => seen = Len(mentions)
  /\ docsCurrent => docs \ MentionDocs = RowDocs
  /\ probed \in {"no", "active", "inactive"} /\ BackendDisclosedHonestly

LEMMA RowDocFamily == \A d \in RowDocs : d.family # "mention"
BY DEF RowDocs, IdentityDocs, EntityRowDocs, EdgeDocs

LEMMA WrittenFamily == \A from, to : \A d \in Written(from, to) : d.family = "mention"
BY DEF Written, MentionDoc

LEMMA SearchInit_Inv == SearchInit => SearchInv
<1> SUFFICES ASSUME SearchInit PROVE SearchInv
  OBVIOUS
<1>1. mentions = <<>> /\ applied = 0 /\ Len(mentions) = 0 /\ mentions \in Seq(MentionEvents)
      /\ MentionDocs = {} /\ docsCurrent = FALSE
  BY DEF SearchInit, MentionDocs
<1>2. Written(0, 0) = {}
  BY DEF Written, Upserts
<1>3. probed \in {"no", "active", "inactive"} /\ BackendDisclosedHonestly
  BY DEF SearchInit, BackendDisclosedHonestly
<1>4. QED
  BY <1>1, <1>2, <1>3 DEF SearchInv

(* A mention event behind a point whose document no later one takes over.  *)
Stands(i, from, to) ==
  i \in Upserts(from, to) /\ \A j \in Upserts(i, to) : mentions[j].ref # mentions[i].ref

Texted(i) == mentions[i].text # ""

LEMMA UpsertsAre ==
  ASSUME NEW x \in Int, NEW y \in Int
  PROVE  \A i : i \in Upserts(x, y) <=> i \in Int /\ x < i /\ i <= y /\ Texted(i)
<1>1. \A i : i \in Upserts(x, y) <=> i \in (x + 1)..y /\ Texted(i)
  BY DEF Upserts, Texted
<1>2. \A i : i \in (x + 1)..y <=> i \in Int /\ x < i /\ i <= y
  OBVIOUS
<1>3. QED
  BY <1>1, <1>2

(* Upserts behind a point at or before the one reached leave what applying *)
(* every event leaves.                                                      *)
LEMMA UpsertsResume ==
  ASSUME NEW from \in Nat, NEW seen \in Nat, NEW to \in Nat, from <= seen, seen <= to
  PROVE  {d \in Written(0, seen) : \A i \in Upserts(from, to) : mentions[i].ref # d.ref}
           \cup Written(from, to) = Written(0, to)
<1> DEFINE kept == {d \in Written(0, seen) : \A i \in Upserts(from, to) : mentions[i].ref # d.ref}
<1>1. \A x, y, d : d \in Written(x, y) <=> \E i : Stands(i, x, y) /\ d = MentionDoc(mentions[i])
  BY DEF Written, Stands
<1>2. \A i : MentionDoc(mentions[i]).ref = mentions[i].ref
  BY DEF MentionDoc
<1>3. /\ \A i : i \in Upserts(0, seen) <=> i \in Int /\ 0 < i /\ i <= seen /\ Texted(i)
      /\ \A i : i \in Upserts(0, to) <=> i \in Int /\ 0 < i /\ i <= to /\ Texted(i)
      /\ \A i : i \in Upserts(from, to) <=> i \in Int /\ from < i /\ i <= to /\ Texted(i)
  BY UpsertsAre
<1> HIDE DEF kept
<1>4. ASSUME NEW d \in kept PROVE d \in Written(0, to)
  <2>1. PICK i : Stands(i, 0, seen) /\ d = MentionDoc(mentions[i])
    BY <1>1 DEF kept
  <2>2. i \in Upserts(0, seen) /\ \A j \in Upserts(i, seen) : mentions[j].ref # mentions[i].ref
    BY <2>1 DEF Stands
  <2>3. i \in Int /\ 0 < i /\ i <= seen /\ Texted(i)
    BY <1>3, <2>2
  <2>4. i \in Upserts(0, to)
    BY <1>3, <2>3
  <2>5. ASSUME NEW j \in Upserts(i, to) PROVE mentions[j].ref # mentions[i].ref
    <3>1. j \in Int /\ i < j /\ j <= to /\ Texted(j)
      BY <2>3, UpsertsAre
    <3>2. CASE j <= seen
      <4>1. j \in Upserts(i, seen)
        BY <2>3, <3>1, <3>2, UpsertsAre
      <4>2. QED
        BY <2>2, <4>1
    <3>3. CASE j > seen
      <4>1. j \in Upserts(from, to)
        BY <1>3, <3>1, <3>3
      <4>2. mentions[j].ref # d.ref
        BY <4>1 DEF kept
      <4>3. QED
        BY <1>2, <2>1, <4>2
    <3>4. QED
      BY <2>3, <3>1, <3>2, <3>3
  <2>6. Stands(i, 0, to)
    BY <2>4, <2>5 DEF Stands
  <2>7. QED
    BY <1>1, <2>1, <2>6
<1>5. ASSUME NEW d \in Written(from, to) PROVE d \in Written(0, to)
  <2>1. PICK i : Stands(i, from, to) /\ d = MentionDoc(mentions[i])
    BY <1>1
  <2>2. i \in Upserts(from, to) /\ \A j \in Upserts(i, to) : mentions[j].ref # mentions[i].ref
    BY <2>1 DEF Stands
  <2>3. i \in Upserts(0, to)
    BY <1>3, <2>2
  <2>4. Stands(i, 0, to)
    BY <2>2, <2>3 DEF Stands
  <2>5. QED
    BY <1>1, <2>1, <2>4
<1>6. ASSUME NEW d \in Written(0, to) PROVE d \in kept \/ d \in Written(from, to)
  <2>1. PICK i : Stands(i, 0, to) /\ d = MentionDoc(mentions[i])
    BY <1>1
  <2>2. i \in Upserts(0, to) /\ \A j \in Upserts(i, to) : mentions[j].ref # mentions[i].ref
    BY <2>1 DEF Stands
  <2>3. i \in Int /\ 0 < i /\ i <= to /\ Texted(i)
    BY <1>3, <2>2
  <2>4. CASE i > from
    <3>1. i \in Upserts(from, to)
      BY <1>3, <2>3, <2>4
    <3>2. Stands(i, from, to)
      BY <2>2, <3>1 DEF Stands
    <3>3. QED
      BY <1>1, <2>1, <3>2
  <2>5. CASE i <= from
    <3>1. i \in Upserts(0, seen)
      BY <1>3, <2>3, <2>5
    <3>2. \A j : j \in Upserts(i, seen) => j \in Upserts(i, to)
      <4>1. \A j : j \in Upserts(i, seen) <=> j \in Int /\ i < j /\ j <= seen /\ Texted(j)
        BY <2>3, UpsertsAre
      <4>2. \A j : j \in Upserts(i, to) <=> j \in Int /\ i < j /\ j <= to /\ Texted(j)
        BY <2>3, UpsertsAre
      <4>3. QED
        BY <4>1, <4>2
    <3>3. Stands(i, 0, seen)
      BY <2>2, <3>1, <3>2 DEF Stands
    <3>4. d \in Written(0, seen)
      BY <1>1, <2>1, <3>3
    <3>5. \A j : j \in Upserts(from, to) => j \in Upserts(i, to)
      <4>1. \A j : j \in Upserts(i, to) <=> j \in Int /\ i < j /\ j <= to /\ Texted(j)
        BY <2>3, UpsertsAre
      <4>2. QED
        BY <1>3, <2>3, <2>5, <4>1
    <3>6. \A j \in Upserts(from, to) : mentions[j].ref # d.ref
      BY <1>2, <2>1, <2>2, <3>5
    <3>7. QED
      BY <3>4, <3>6 DEF kept
  <2>6. QED
    BY <2>3, <2>4, <2>5
<1>7. QED
  BY <1>4, <1>5, <1>6 DEF kept

LEMMA MentionsKept ==
  ASSUME SearchInv
  PROVE  \E seen : /\ seen \in Nat /\ applied <= seen /\ seen <= Len(mentions)
                   /\ MentionDocs = Written(0, seen)
                   /\ docsCurrent => seen = Len(mentions)
<1>1. \E seen \in applied..Len(mentions) : /\ MentionDocs = Written(0, seen)
                                           /\ docsCurrent => seen = Len(mentions)
  BY Zenon DEF SearchInv
<1>2. PICK seen : /\ seen \in applied..Len(mentions)
                  /\ MentionDocs = Written(0, seen)
                  /\ docsCurrent => seen = Len(mentions)
  BY <1>1, Zenon
<1>3. applied \in Nat /\ Len(mentions) \in Nat
  BY DEF SearchInv
<1>4. seen \in Nat /\ applied <= seen /\ seen <= Len(mentions)
  BY <1>2, <1>3
<1>5. QED
  BY <1>2, <1>4

LEMMA SearchRunStep ==
  ASSUME SearchInv, NEW wipe \in BOOLEAN, SearchRun(wipe)
  PROVE  SearchInv'
<1> DEFINE from == IF wipe THEN 0 ELSE applied
           tail == Len(mentions)
           kept == {d \in docs : /\ ~wipe /\ d.family = "mention"
                                 /\ \A i \in Upserts(from, tail) : mentions[i].ref # d.ref}
<1>1. /\ docs' = kept \cup Written(from, tail) \cup RowDocs
      /\ applied' \in {tail} \cup (IF from = tail THEN {0} ELSE {})
      /\ identityRows' = identityRows /\ entityRows' = entityRows /\ facts' = facts
      /\ mentions' = mentions /\ disclosed' = disclosed /\ probed' = probed
  BY DEF SearchRun, readVars, vectorVars
<1>2. PICK seen : /\ seen \in Nat /\ applied <= seen /\ seen <= Len(mentions)
                  /\ MentionDocs = Written(0, seen)
  BY MentionsKept, Zenon
<1>3. tail \in Nat /\ applied \in Nat /\ seen \in Nat /\ seen <= tail /\ applied <= seen
  BY <1>2 DEF SearchInv
<1>4. kept \cup Written(from, tail) = Written(0, tail)
  <2>1. CASE wipe
    BY <2>1
  <2>2. CASE ~ wipe
    <3>1. kept = {d \in Written(0, seen) : \A i \in Upserts(from, tail) : mentions[i].ref # d.ref}
      BY <1>2, <2>2 DEF MentionDocs
    <3>2. from \in Nat /\ from <= seen
      BY <1>3, <2>2
    <3> HIDE DEF kept, from, tail
    <3>3. QED
      BY <1>3, <3>1, <3>2, UpsertsResume
  <2>3. QED
    BY <2>1, <2>2
<1> HIDE DEF kept, from
<1>5. docs' = Written(0, tail) \cup RowDocs
  BY <1>1, <1>4
<1>6. MentionDocs' = Written(0, tail) /\ (docs \ MentionDocs)' = RowDocs
  BY <1>5, RowDocFamily, WrittenFamily DEF MentionDocs
<1>7. RowDocs' = RowDocs /\ Written(0, tail)' = Written(0, tail)
  <2>1. RowDocs' = RowDocs
    BY <1>1 DEF RowDocs, IdentityDocs, EntityRowDocs, EdgeDocs
  <2>2. \A to : Written(0, to)' = Written(0, to)
    BY <1>1 DEF Written, Upserts
  <2>3. tail' = tail
    BY <1>1
  <2>4. QED
    BY <2>1, <2>2, <2>3
<1>8. applied' \in Nat /\ tail \in applied'..Len(mentions')
  BY <1>1, <1>3
<1>9. \E seenNow \in applied'..Len(mentions') :
        MentionDocs' = Written(0, seenNow)' /\ (docsCurrent' => seenNow = Len(mentions'))
  BY <1>1, <1>6, <1>7, <1>8
<1>10. BackendDisclosedHonestly'
  BY <1>1 DEF SearchInv, BackendDisclosedHonestly
<1>11. QED
  BY <1>1, <1>6, <1>7, <1>8, <1>9, <1>10 DEF SearchInv

(* A step that writes no document.                                          *)
LEMMA RowsMoveOn ==
  ASSUME SearchInv, docsCurrent' = FALSE,
         UNCHANGED <<mentions, applied, docs, disclosed, probed>>
  PROVE  SearchInv'
<1>1. MentionDocs' = MentionDocs
  BY DEF MentionDocs
<1>2. \A seen : Written(0, seen)' = Written(0, seen)
  BY DEF Written, Upserts
<1>3. PICK seen : /\ seen \in Nat /\ applied <= seen /\ seen <= Len(mentions)
                  /\ MentionDocs = Written(0, seen)
  BY MentionsKept, Zenon
<1>4. \E seenNow \in applied'..Len(mentions') :
        MentionDocs' = Written(0, seenNow)' /\ (docsCurrent' => seenNow = Len(mentions'))
  <2>1. applied \in Nat /\ Len(mentions) \in Nat
    BY DEF SearchInv
  <2>2. seen \in applied..Len(mentions)
    BY <1>3, <2>1
  <2>3. QED
    BY <1>1, <1>2, <1>3, <2>2
<1>5. QED
  BY <1>4 DEF SearchInv, BackendDisclosedHonestly

LEMMA MentionStep ==
  ASSUME SearchInv, NEW e \in MentionEvents, MentionRecorded(e)
  PROVE  SearchInv'
<1>1. /\ mentions' = Append(mentions, e) /\ docsCurrent' = FALSE
      /\ UNCHANGED <<applied, docs, disclosed, probed>>
  BY DEF MentionRecorded, vectorVars
<1>2. /\ mentions' \in Seq(MentionEvents) /\ Len(mentions') = Len(mentions) + 1
      /\ \A i \in 1..Len(mentions) : mentions'[i] = mentions[i]
  BY <1>1 DEF SearchInv
<1>3. PICK seen : /\ seen \in Nat /\ applied <= seen /\ seen <= Len(mentions)
                  /\ MentionDocs = Written(0, seen)
  BY MentionsKept, Zenon
<1>4. seen \in Nat /\ seen <= Len(mentions) /\ Len(mentions) \in Nat /\ applied \in Nat
      /\ applied <= seen
  BY <1>3 DEF SearchInv
<1>5. \A x \in Nat : Upserts(x, seen)' = Upserts(x, seen)
  <2>1. \A x \in Nat : \A i \in x + 1..seen : mentions'[i] = mentions[i]
    BY <1>2, <1>4
  <2>2. QED
    BY <2>1 DEF Upserts
<1>6. Written(0, seen)' = Written(0, seen)
  <2>0. \A x \in Nat : \A i \in Upserts(x, seen) : i \in 1..Len(mentions)
    <3>1. \A x \in Nat : \A i \in x + 1..seen : i \in 1..Len(mentions)
      BY <1>4
    <3>2. QED
      BY <3>1 DEF Upserts
  <2>1. \A i \in Upserts(0, seen) : i \in 1..Len(mentions) /\ i \in Nat
    <3>1. \A i \in Upserts(0, seen) : i \in 1..Len(mentions)
      BY <2>0
    <3>2. QED
      BY <1>4, <3>1
  <2>2. \A i \in Upserts(0, seen) : \A j \in Upserts(i, seen) : j \in 1..Len(mentions)
    BY <2>0, <2>1
  <2>3. \A i \in Upserts(0, seen) : Upserts(i, seen)' = Upserts(i, seen)
    BY <1>5, <2>1
  <2>4. Upserts(0, seen)' = Upserts(0, seen)
    BY <1>5
  <2>5. \A i \in Upserts(0, seen) :
          /\ MentionDoc(mentions[i])' = MentionDoc(mentions[i])
          /\ (\A j \in Upserts(i, seen) : mentions[j].ref # mentions[i].ref)'
               <=> (\A j \in Upserts(i, seen) : mentions[j].ref # mentions[i].ref)
    BY <1>2, <2>1, <2>2, <2>3 DEF MentionDoc
  <2>6. QED
    BY <2>4, <2>5 DEF Written
<1>7. \E seenNow \in applied'..Len(mentions') :
        MentionDocs' = Written(0, seenNow)' /\ (docsCurrent' => seenNow = Len(mentions'))
  <2>1. MentionDocs' = MentionDocs
    BY <1>1 DEF MentionDocs
  <2>2. seen \in applied'..Len(mentions')
    BY <1>1, <1>2, <1>4
  <2>3. QED
    BY <1>1, <1>3, <1>6, <2>1, <2>2
<1>8. QED
  BY <1>1, <1>2, <1>7 DEF SearchInv, BackendDisclosedHonestly

LEMMA VectorStep == SearchInv /\ VectorNext => SearchInv'
<1> SUFFICES ASSUME SearchInv, VectorNext PROVE SearchInv'
  OBVIOUS
<1>1. UNCHANGED <<identityRows, entityRows, facts, mentions, applied, docs, docsCurrent>>
  BY DEF VectorNext, HybridSearch, ExtensionChanges, readVars, storeVars
<1>2. probed' \in {"no", "active", "inactive"} /\ BackendDisclosedHonestly'
  <2>1. CASE HybridSearch
    <3>1. /\ probed' = Remembered /\ Remembered \in {"active", "inactive"}
          /\ disclosed'.backend = HybridBackend
          /\ disclosed'.searched = IF ProbeResult = "active" THEN "vectors" ELSE "nothing"
          /\ ProbeResult \in {"active", "inactive"}
      BY <2>1 DEF HybridSearch, ProbeResult, Remembered, SearchInv
    <3>2. QED
      BY <3>1 DEF HybridBackend, BackendDisclosedHonestly
  <2>2. CASE ExtensionChanges
    BY <2>2 DEF ExtensionChanges, SearchInv, BackendDisclosedHonestly
  <2>3. QED
    BY <2>1, <2>2 DEF VectorNext
<1>3. RowDocs' = RowDocs /\ MentionDocs' = MentionDocs /\ \A seen : Written(0, seen)' = Written(0, seen)
  BY <1>1 DEF RowDocs, IdentityDocs, EntityRowDocs, EdgeDocs, MentionDocs, Written, Upserts
<1>4. QED
  BY <1>1, <1>2, <1>3 DEF SearchInv

(* The scopes of the documents of an identity match what its row matches.  *)
LEMMA CombosMatch ==
  ASSUME NEW meta, NEW scope \in ReadScopes,
         Owned(meta, "tuples") # {} \/ Owned(meta, "source_ids") # {}
  PROVE  (\E c \in ScopeCombos(meta) : TupleMatches(c, scope)) <=> InMembershipScope(meta, scope)
<1> DEFINE sources == Owned(meta, "source_ids")
           works == Owned(meta, "work_ids")
<1>1. CASE Owned(meta, "tuples") # {}
  BY <1>1 DEF ScopeCombos, InMembershipScope
<1>2. CASE Owned(meta, "tuples") = {}
  <2>1. DOMAIN scope \subseteq {1, 2} /\ sources # {}
    BY <1>2, ScopesNameDims
  <2>0. ArraysMatch(meta, scope) <=> /\ 1 \in DOMAIN scope => scope[1] \in sources
                                     /\ 2 \in DOMAIN scope => scope[2] \in works
    BY <2>1 DEF ArraysMatch, ArrayOf
  <2> HIDE DEF sources, works
  <2>2. InMembershipScope(meta, scope) <=> ArraysMatch(meta, scope)
    BY <1>2 DEF InMembershipScope
  <2>3. CASE works = {}
    <3>1. ScopeCombos(meta) = {<<s>> : s \in sources}
      BY <1>2, <2>1, <2>3 DEF ScopeCombos, Product, sources, works
    <3>2. \A s : TupleMatches(<<s>>, scope) <=> DOMAIN scope \subseteq {1} /\ (1 \in DOMAIN scope => scope[1] = s)
      BY <2>1 DEF TupleMatches
    <3>3. ArraysMatch(meta, scope) <=>
            DOMAIN scope \subseteq {1} /\ (1 \in DOMAIN scope => scope[1] \in sources)
      BY <2>0, <2>1, <2>3
    <3>4. QED
      BY <2>1, <2>2, <3>1, <3>2, <3>3
  <2>4. CASE works # {}
    <3>1. ScopeCombos(meta) = {<<s, w>> : s \in sources, w \in works}
      BY <1>2, <2>1, <2>4 DEF ScopeCombos, Product, sources, works
    <3>2. \A s, w : TupleMatches(<<s, w>>, scope) <=>
            (1 \in DOMAIN scope => scope[1] = s) /\ (2 \in DOMAIN scope => scope[2] = w)
      BY <2>1 DEF TupleMatches
    <3>3. ArraysMatch(meta, scope) <=>
            /\ 1 \in DOMAIN scope => scope[1] \in sources
            /\ 2 \in DOMAIN scope => scope[2] \in works
      BY <2>0
    <3>4. ASSUME NEW c \in ScopeCombos(meta), TupleMatches(c, scope) PROVE ArraysMatch(meta, scope)
      <4>1. PICK s \in sources, w \in works : c = <<s, w>>
        BY <3>1
      <4>2. QED
        BY <3>2, <3>3, <3>4, <4>1
    <3>5. ASSUME ArraysMatch(meta, scope) PROVE \E c \in ScopeCombos(meta) : TupleMatches(c, scope)
      <4>1. PICK s \in sources : 1 \in DOMAIN scope => scope[1] = s
        BY <2>1, <3>3, <3>5
      <4>2. PICK w \in works : 2 \in DOMAIN scope => scope[2] = w
        BY <2>4, <3>3, <3>5
      <4>3. <<s, w>> \in ScopeCombos(meta)
        BY <3>1
      <4>4. TupleMatches(<<s, w>>, scope)
        BY <3>2, <4>1, <4>2
      <4>5. QED
        BY <4>3, <4>4
    <3>6. QED
      BY <2>2, <3>4, <3>5
  <2>5. QED
    BY <2>3, <2>4
<1>3. QED
  BY <1>1, <1>2

LEMMA DocOfIdentity ==
  ASSUME SearchInv, docsCurrent, NEW r \in DOMAIN identityRows, NEW d
  PROVE  d \in docs /\ d.family = "canonical" /\ d.entity = r <=> d \in IdentityDocs(r)
<1>1. docs \ MentionDocs = RowDocs
  BY DEF SearchInv
<1>2. ASSUME d \in docs, d.family = "canonical", d.entity = r PROVE d \in IdentityDocs(r)
  <2>1. d \notin EntityRowDocs
    BY <1>2 DEF EntityRowDocs
  <2>2. d \notin EdgeDocs
    BY <1>2 DEF EdgeDocs
  <2>3. d \in RowDocs
    BY <1>1, <1>2 DEF MentionDocs
  <2>4. PICK x \in DOMAIN identityRows : d \in IdentityDocs(x)
    BY <2>1, <2>2, <2>3 DEF RowDocs
  <2>5. d.entity = x
    BY <2>4 DEF IdentityDocs
  <2>6. QED
    BY <1>2, <2>4, <2>5
<1>3. ASSUME d \in IdentityDocs(r) PROVE d \in docs /\ d.family = "canonical" /\ d.entity = r
  BY <1>1, <1>3 DEF RowDocs, IdentityDocs
<1>4. QED
  BY <1>2, <1>3

LEMMA ScopedSearch == SearchInv => ScopedSearchAgrees
<1> SUFFICES ASSUME SearchInv, docsCurrent, NEW r \in DOMAIN identityRows, NEW scope \in ReadScopes,
                    Owned(identityRows[r], "tuples") # {} \/ Owned(identityRows[r], "source_ids") # {}
             PROVE  (\E d \in Found("exact", identityRows[r].label, scope) :
                       d.family = "canonical" /\ d.entity = r)
                      <=> SearchScope(identityRows[r], scope)
  BY DEF ScopedSearchAgrees
<1> DEFINE label == identityRows[r].label
<1>1. \A d : d \in Found("exact", label, scope) <=> d \in docs /\ label = d.text /\ TupleMatches(d.scope, scope)
  BY DEF Found, TextMatches
<1>2. \A d : d \in Found("exact", label, scope) /\ d.family = "canonical" /\ d.entity = r
               <=> d \in IdentityDocs(r) /\ label = d.text /\ TupleMatches(d.scope, scope)
  BY <1>1, DocOfIdentity
<1>3. ASSUME NEW d \in IdentityDocs(r), label = d.text, TupleMatches(d.scope, scope)
      PROVE  \E c \in ScopeCombos(identityRows[r]) : TupleMatches(c, scope)
  BY <1>3 DEF IdentityDocs
<1>4. ASSUME NEW c \in ScopeCombos(identityRows[r]), TupleMatches(c, scope)
      PROVE  \E d \in IdentityDocs(r) : label = d.text /\ TupleMatches(d.scope, scope)
  <2> DEFINE d == [family |-> "canonical", ref |-> r, text |-> label, scope |-> c, entity |-> r]
  <2>1. d \in IdentityDocs(r)
    BY DEF IdentityDocs
  <2>2. label = d.text /\ d.scope = c
    OBVIOUS
  <2>3. QED
    BY <1>4, <2>1, <2>2
<1>5. InMembershipScope(identityRows[r], scope) <=> SearchScope(identityRows[r], scope)
  BY ScopesRelate DEF SearchScope
<1>6. QED
  BY <1>2, <1>3, <1>4, <1>5, CombosMatch

LEMMA NothingStale == SearchInv => NothingStaleSearchable
<1> SUFFICES ASSUME SearchInv, docsCurrent, NEW d \in docs
             PROVE  \/ /\ d.family \in {"edge", "assert"}
                       /\ d.ref \in DOMAIN facts /\ facts[d.ref].text = d.text
                    \/ /\ d.family = "canonical" /\ d.entity \in DOMAIN identityRows
                       /\ d.text \in {identityRows[d.entity].label} \cup identityRows[d.entity].aliases
                    \/ /\ d.family = "canonical" /\ d.text = "entity"
                       /\ d.entity \in entityRows \ DOMAIN identityRows
                    \/ /\ d.family = "mention"
                       /\ \E i \in Upserts(0, Len(mentions)) :
                            /\ d = MentionDoc(mentions[i])
                            /\ \A j \in Upserts(i, Len(mentions)) : mentions[j].ref # d.ref
  BY DEF NothingStaleSearchable, Found
<1>1. MentionDocs = Written(0, Len(mentions)) /\ docs \ MentionDocs = RowDocs
  <2>1. \E seen : MentionDocs = Written(0, seen) /\ seen = Len(mentions)
    BY MentionsKept, Zenon
  <2>2. docs \ MentionDocs = RowDocs
    BY Zenon DEF SearchInv
  <2>3. QED
    BY <2>1, <2>2
<1>2. CASE d \in MentionDocs
  <2>1. PICK i \in Upserts(0, Len(mentions)) :
          /\ d = MentionDoc(mentions[i])
          /\ \A j \in Upserts(i, Len(mentions)) : mentions[j].ref # mentions[i].ref
    BY <1>1, <1>2 DEF Written
  <2>2. d.family = "mention" /\ d.ref = mentions[i].ref
    BY <2>1 DEF MentionDoc
  <2>3. QED
    BY <2>1, <2>2
<1>3. CASE d \in EntityRowDocs
  BY <1>3 DEF EntityRowDocs
<1>4. CASE d \in EdgeDocs
  BY <1>4 DEF EdgeDocs
<1>5. CASE \E r \in DOMAIN identityRows : d \in IdentityDocs(r)
  BY <1>5 DEF IdentityDocs
<1>6. QED
  BY <1>1, <1>2, <1>3, <1>4, <1>5 DEF RowDocs

(* Whatever the rows, the facts and the mentions go through, and wherever   *)
(* the runs of the builder start, the documents after a run are those of    *)
(* the present rows and of the last event of each mention.                  *)
THEOREM SearchAnswersFromRows == SearchSpec => []SearchFollowsRows
<1>1. SearchInv /\ [SearchNext]_searchVars => SearchInv'
  <2> SUFFICES ASSUME SearchInv, [SearchNext]_searchVars PROVE SearchInv'
    OBVIOUS
  <2>1. CASE UNCHANGED searchVars
    <3>1. UNCHANGED <<identityRows, entityRows, facts, mentions, applied, docs, docsCurrent,
                      disclosed, probed>>
      BY <2>1 DEF searchVars, readVars
    <3>2. RowDocs' = RowDocs /\ MentionDocs' = MentionDocs /\ \A seen : Written(0, seen)' = Written(0, seen)
      BY <3>1 DEF RowDocs, IdentityDocs, EntityRowDocs, EdgeDocs, MentionDocs, Written, Upserts
    <3>3. QED
      BY <3>1, <3>2 DEF SearchInv, BackendDisclosedHonestly
  <2>2. CASE RowsChange
    BY <2>2, RowsMoveOn DEF RowsChange, vectorVars
  <2>3. ASSUME NEW f \in Facts, FactChanges(f) PROVE SearchInv'
    BY <2>3, RowsMoveOn DEF FactChanges, vectorVars
  <2>4. QED
    BY <2>1, <2>2, <2>3, SearchRunStep, MentionStep, VectorStep DEF SearchNext, StoreNext
<1>2. SearchInv => SearchFollowsRows
  BY ScopedSearch, NothingStale DEF SearchInv, SearchFollowsRows
<1>3. QED
  BY <1>1, <1>2, SearchInit_Inv, PTL DEF SearchSpec

-----------------------------------------------------------------------------
(* Refs in their order                                                     *)

(* A ref is told by how many of a set are below it.                        *)
Rank(r, S) == Cardinality(Below(r, S))

LEMMA RankIs ==
  ASSUME NEW S \in SUBSET Nat, IsFiniteSet(S), NEW r \in S
  PROVE  /\ Rank(r, S) \in Nat /\ Rank(r, S) < Cardinality(S) /\ Cardinality(S) \in Nat
         /\ \A q \in S : r < q => Rank(r, S) < Rank(q, S)
<1>1. /\ IsFiniteSet(Below(r, S)) /\ Cardinality(Below(r, S)) <= Cardinality(S)
      /\ Cardinality(S) = Cardinality(Below(r, S)) => S = Below(r, S)
  BY FS_Subset DEF Below
<1>2. Cardinality(Below(r, S)) \in Nat /\ Cardinality(S) \in Nat
  BY <1>1, FS_CardinalityType
<1>3. S # Below(r, S)
  BY DEF Below
<1>4. ASSUME NEW q \in S, r < q
      PROVE  Rank(r, S) < Rank(q, S)
  <2>a. r \in Nat /\ q \in Nat /\ \A x \in S : x \in Nat
    OBVIOUS
  <2>b. \A x \in S : x < r => x < q
    BY <1>4, <2>a
  <2>c. Below(r, S) \subseteq Below(q, S)
    BY <2>b DEF Below
  <2>d. r \in Below(q, S)
    BY <1>4 DEF Below
  <2>e. r \notin Below(r, S)
    BY <2>a DEF Below
  <2>1. Below(r, S) \subseteq Below(q, S) /\ r \in Below(q, S) /\ r \notin Below(r, S)
    BY <2>c, <2>d, <2>e
  <2>2. IsFiniteSet(Below(q, S))
    BY FS_Subset DEF Below
  <2>3. /\ Cardinality(Below(r, S)) <= Cardinality(Below(q, S))
        /\ Cardinality(Below(q, S)) = Cardinality(Below(r, S)) => Below(q, S) = Below(r, S)
    BY <2>1, <2>2, FS_Subset
  <2>4. Cardinality(Below(q, S)) \in Nat
    BY <2>2, FS_CardinalityType
  <2>5. QED
    BY <1>2, <2>1, <2>3, <2>4 DEF Rank
<1>5. QED
  BY <1>1, <1>2, <1>3, <1>4 DEF Rank

LEMMA RankTells ==
  ASSUME NEW S \in SUBSET Nat, IsFiniteSet(S), NEW r \in S, NEW q \in S
  PROVE  /\ Rank(r, S) = Rank(q, S) => r = q
         /\ Rank(r, S) < Rank(q, S) <=> r < q
<1>1. r < q \/ q < r \/ r = q
  OBVIOUS
<1>2. Rank(r, S) \in Nat /\ (r < q => Rank(r, S) < Rank(q, S))
  BY RankIs
<1>3. Rank(q, S) \in Nat /\ (q < r => Rank(q, S) < Rank(r, S))
  BY RankIs
<1>4. QED
  BY <1>1, <1>2, <1>3

(* More refs below: a ref only moves up as others are added.               *)
LEMMA RankMoves ==
  ASSUME NEW S \in SUBSET Nat, IsFiniteSet(S), NEW T \in SUBSET S, NEW r \in T
  PROVE  Rank(r, T) <= Rank(r, S)
<1>1. IsFiniteSet(Below(r, S))
  BY FS_Subset DEF Below
<1>2. Below(r, T) \in SUBSET Below(r, S)
  BY DEF Below
<1>3. QED
  BY <1>1, <1>2, FS_Subset DEF Rank

LEMMA RankTaken ==
  ASSUME NEW S \in SUBSET Nat, IsFiniteSet(S)
  PROVE  \A i \in 1..Cardinality(S) : \E r \in S : Rank(r, S) = i - 1
<1> DEFINE n == Cardinality(S)
           f == [r \in S |-> Rank(r, S) + 1]
<1>1. n \in Nat
  BY FS_CardinalityType
<1>2. IsFiniteSet(1..n) /\ Cardinality(1..n) = n
  BY <1>1, FS_Interval
<1>3. \A r \in S : Rank(r, S) \in Nat /\ Rank(r, S) < n
  BY RankIs
<1>4. \A r, q \in S : Rank(r, S) = Rank(q, S) => r = q
  BY RankTells
<1>5. f \in [S -> 1..n]
  BY <1>1, <1>3
<1>6. \A r, q \in S : f[r] = f[q] => r = q
  BY <1>3, <1>4
<1>7. f \in Injection(S, 1..n)
  BY <1>5, <1>6 DEF Injection, IsInjective
<1>8. f \in Surjection(S, 1..n)
  BY <1>2, <1>7, FS_Injection
<1>9. \A i \in 1..n : \E r \in S : f[r] = i
  BY <1>8 DEF Surjection
<1>10. QED
  BY <1>3, <1>9

(* The refs in their order.                                                 *)
LEMMA AscendingIs ==
  ASSUME NEW S \in SUBSET Nat, IsFiniteSet(S)
  PROVE  /\ Ascending(S) \in Seq(S) /\ Len(Ascending(S)) = Cardinality(S)
         /\ Cardinality(S) \in Nat
         /\ \A i \in 1..Cardinality(S) : Ascending(S)[i] \in S /\ Rank(Ascending(S)[i], S) = i - 1
         /\ \A r \in S : Rank(r, S) + 1 \in 1..Cardinality(S) /\ Ascending(S)[Rank(r, S) + 1] = r
<1> DEFINE n == Cardinality(S)
           A == Ascending(S)
<1>1. n \in Nat
  BY FS_CardinalityType
<1>2. \A i \in 1..n : \E r \in S : Cardinality(Below(r, S)) = i - 1
  BY RankTaken DEF Rank
<1>3. A = [i \in 1..n |-> CHOOSE r \in S : Cardinality(Below(r, S)) = i - 1]
  BY DEF Ascending
<1>4. \A i \in 1..n : A[i] \in S /\ Cardinality(Below(A[i], S)) = i - 1
  <2> TAKE i \in 1..n
  <2>1. A[i] = CHOOSE r \in S : Cardinality(Below(r, S)) = i - 1
    BY <1>3
  <2>2. \E r \in S : Cardinality(Below(r, S)) = i - 1
    BY <1>2
  <2>3. QED
    BY <2>1, <2>2
<1> HIDE DEF A
<1>5. A \in Seq(S) /\ Len(A) = n
  <2>1. DOMAIN A = 1..n /\ A \in [1..n -> S]
    BY <1>3, <1>4
  <2>2. QED
    BY <1>1, <2>1
<1>6. \A i \in 1..n : A[i] \in S /\ Rank(A[i], S) = i - 1
  BY <1>4 DEF Rank
<1>7. ASSUME NEW r \in S
      PROVE  Rank(r, S) + 1 \in 1..n /\ A[Rank(r, S) + 1] = r
  <2>1. Rank(r, S) \in Nat /\ Rank(r, S) < n
    BY RankIs
  <2>2. PICK i \in 1..n : i = Rank(r, S) + 1
    BY <1>1, <2>1
  <2>3. A[i] \in S /\ Rank(A[i], S) = Rank(r, S)
    BY <1>6, <2>1, <2>2
  <2>4. A[i] = r
    BY <2>3, RankTells
  <2>5. QED
    BY <2>2, <2>4
<1>8. QED
  BY <1>1, <1>5, <1>6, <1>7 DEF A

Increasing(s) == \A i, j \in 1..Len(s) : i < j => s[i] < s[j]

LEMMA AscendingOrder ==
  ASSUME NEW S \in SUBSET Nat, IsFiniteSet(S)
  PROVE  Range(Ascending(S)) = S /\ Increasing(Ascending(S)) /\ IsInjective(Ascending(S))
<1> DEFINE n == Cardinality(S)
<1>1. PICK A : A = Ascending(S)
  OBVIOUS
<1>2. /\ A \in Seq(S) /\ Len(A) = n /\ n \in Nat /\ DOMAIN A = 1..n
      /\ \A i \in 1..n : A[i] \in S /\ Rank(A[i], S) = i - 1
      /\ \A r \in S : Rank(r, S) + 1 \in 1..n /\ A[Rank(r, S) + 1] = r
  BY <1>1, AscendingIs
<1> HIDE DEF n
<1>3. Range(A) = S
  <2>1. \A x \in S : x \in Range(A)
    BY <1>2 DEF Range
  <2>2. \A x \in Range(A) : x \in S
    BY <1>2 DEF Range
  <2>3. QED
    BY <2>1, <2>2
<1>4. \A i, j \in 1..n : i < j => A[i] < A[j]
  <2> SUFFICES ASSUME NEW i \in 1..n, NEW j \in 1..n, i < j PROVE A[i] < A[j]
    OBVIOUS
  <2>1. Rank(A[i], S) < Rank(A[j], S) /\ A[i] \in S /\ A[j] \in S
    BY <1>2
  <2>2. QED
    BY <2>1, RankTells
<1>5. \A i, j \in 1..n : A[i] = A[j] => i = j
  BY <1>2, <1>4
<1>6. IsInjective(A)
  BY <1>2, <1>5 DEF IsInjective
<1>7. QED
  BY <1>1, <1>2, <1>3, <1>4, <1>6 DEF Increasing

(* An increasing sequence is the enumeration of its elements.              *)
LEMMA IncreasingIsAscending ==
  ASSUME NEW s \in Seq(Nat), Increasing(s)
  PROVE  /\ IsFiniteSet(Range(s)) /\ Range(s) \in SUBSET Nat
         /\ Cardinality(Range(s)) = Len(s) /\ Ascending(Range(s)) = s
<1> DEFINE n == Len(s)
           R == Range(s)
<1>1. n \in Nat /\ DOMAIN s = 1..n /\ \A i \in 1..n : s[i] \in Nat
  OBVIOUS
<1>2. R = {s[i] : i \in 1..n} /\ R \subseteq Nat /\ \A i \in 1..n : s[i] \in R
  BY RangeIs
<1>3. \A i, j \in 1..n : i < j => s[i] < s[j]
  BY DEF Increasing
<1>4. \A i, j \in 1..n : (s[i] < s[j] => i < j) /\ (s[i] = s[j] => i = j)
  <2> TAKE i, j \in 1..n
  <2>1. i \in Nat /\ j \in Nat /\ (i < j \/ j < i \/ i = j)
    BY <1>1
  <2>2. (i < j => s[i] < s[j]) /\ (j < i => s[j] < s[i]) /\ s[i] \in Nat /\ s[j] \in Nat
    BY <1>1, <1>3
  <2>3. QED
    BY <2>1, <2>2
<1> HIDE DEF n, R
<1>5. \A k \in 0..n : LET f == [j \in 1..k |-> s[j]]
                          T == {s[j] : j \in 1..k}
                      IN  IsFiniteSet(T) /\ Cardinality(T) = k
  <2> TAKE k \in 0..n
  <2> DEFINE f == [j \in 1..k |-> s[j]]
             T == {s[j] : j \in 1..k}
  <2>1. \A j \in 1..k : j \in 1..n
    BY <1>1
  <2>2. f \in [1..k -> T] /\ \A i, j \in 1..k : f[i] = f[j] => i = j
    BY <1>4, <2>1
  <2>3. \A t \in T : \E j \in 1..k : f[j] = t
    OBVIOUS
  <2>4. f \in Bijection(1..k, T)
    BY <2>2, <2>3 DEF Bijection, Injection, Surjection, IsInjective
  <2>5. IsFiniteSet(1..k) /\ Cardinality(1..k) = k
    BY FS_Interval
  <2>6. QED
    BY <2>4, <2>5, FS_Bijection DEF ExistsBijection
<1>6. IsFiniteSet(R) /\ Cardinality(R) = n
  <2>1. n \in 0..n
    BY <1>1
  <2>2. QED
    BY <1>2, <1>5, <2>1
<1>7. \A i \in 1..n : Rank(s[i], R) = i - 1
  <2> TAKE i \in 1..n
  <2>1. Below(s[i], R) = {s[j] : j \in 1..(i - 1)}
    <3>1. \A x \in Below(s[i], R) : \E j \in 1..(i - 1) : x = s[j]
      BY <1>1, <1>2, <1>4 DEF Below
    <3>2. \A j \in 1..(i - 1) : j \in 1..n /\ j < i
      BY <1>1
    <3>4. \A j \in 1..(i - 1) : s[j] \in R /\ s[j] < s[i]
      BY <3>2, <1>2, <1>3
    <3>3. QED
      BY <3>1, <3>4 DEF Below
  <2>2. i - 1 \in 0..n
    BY <1>1
  <2>3. QED
    BY <1>5, <2>1, <2>2 DEF Rank
<1>8. PICK A : A = Ascending(R)
  OBVIOUS
<1>9. /\ A \in Seq(R) /\ Len(A) = n
      /\ \A i \in 1..n : A[i] \in R /\ Rank(A[i], R) = i - 1
  BY <1>2, <1>6, <1>8, AscendingIs
<1>10. \A i \in 1..n : A[i] = s[i]
  <2> TAKE i \in 1..n
  <2>1. A[i] \in R /\ s[i] \in R /\ Rank(A[i], R) = Rank(s[i], R)
    BY <1>2, <1>7, <1>9
  <2>2. R \in SUBSET Nat /\ IsFiniteSet(R)
    BY <1>2, <1>6
  <2>3. QED
    BY <2>1, <2>2, RankTells
<1>11. A = s
  BY <1>1, <1>9, <1>10 DEF n
<1>12. QED
  BY <1>2, <1>6, <1>8, <1>11 DEF n, R

LEMMA WiderSeq ==
  ASSUME NEW S, NEW T \in SUBSET S, NEW s \in Seq(T)
  PROVE  s \in Seq(S)
<1>1. Len(s) \in Nat /\ DOMAIN s = 1..Len(s) /\ s = [i \in 1..Len(s) |-> s[i]]
  OBVIOUS
<1>2. \A i \in 1..Len(s) : s[i] \in S
  OBVIOUS
<1>3. QED
  BY <1>1, <1>2


LEMMA LesserOfTwo ==
  ASSUME NEW a \in Int, NEW b \in Int
  PROVE  Min({a, b}) = IF a <= b THEN a ELSE b
<1> DEFINE m == IF a <= b THEN a ELSE b
<1>1. m \in {a, b} /\ \A y \in {a, b} : m <= y
  OBVIOUS
<1>2. \A x \in {a, b} : (\A y \in {a, b} : x <= y) => x = m
  OBVIOUS
<1>3. QED
  BY <1>1, <1>2 DEF Min

(* A slice of the enumeration holds the refs of its ranks.                 *)
LEMMA SliceIs ==
  ASSUME NEW S \in SUBSET Nat, IsFiniteSet(S), NEW o \in Nat, NEW l \in Nat
  PROVE  LET s == Slice(Ascending(S), o, l)
         IN  /\ s \in Seq(S) /\ Increasing(s)
             /\ Range(s) = {x \in S : o <= Rank(x, S) /\ Rank(x, S) < o + l}
<1>1. PICK A, n : A = Ascending(S) /\ n = Cardinality(S)
  OBVIOUS
<1>2. /\ A \in Seq(S) /\ Len(A) = n /\ n \in Nat
      /\ \A i \in 1..n : A[i] \in S /\ Rank(A[i], S) = i - 1
      /\ \A r \in S : Rank(r, S) + 1 \in 1..n /\ A[Rank(r, S) + 1] = r
  BY <1>1, AscendingIs
<1>3. \A i, j \in 1..n : i < j => A[i] < A[j]
  BY <1>1, <1>2, AscendingOrder DEF Increasing
<1>4. PICK m : m = Min({o + l, n})
  OBVIOUS
<1>5. m \in Nat /\ m <= o + l /\ m <= n /\ (m = o + l \/ m = n)
  BY <1>2, <1>4, LesserOfTwo
<1>6. PICK s : s = SubSeq(A, o + 1, m)
  OBVIOUS
<1>7. /\ s \in Seq(S) /\ Len(s) = (IF o + 1 <= m THEN m - o ELSE 0)
      /\ \A i \in 1..Len(s) : s[i] = A[o + i]
  BY <1>2, <1>5, <1>6
<1>8. \A i \in 1..Len(s) : o + i \in 1..n /\ o + i <= o + l
  BY <1>2, <1>5, <1>7
<1>9. Increasing(s)
  <2> SUFFICES ASSUME NEW i \in 1..Len(s), NEW j \in 1..Len(s), i < j PROVE s[i] < s[j]
    BY DEF Increasing
  <2>1. A[o + i] < A[o + j]
    BY <1>3, <1>8
  <2>2. QED
    BY <1>7, <2>1
<1>10. Range(s) = {s[i] : i \in 1..Len(s)}
  BY <1>7, RangeIs
<1>11. \A i \in 1..Len(s) : s[i] \in S /\ o <= Rank(s[i], S) /\ Rank(s[i], S) < o + l
  <2> TAKE i \in 1..Len(s)
  <2>1. Rank(A[o + i], S) = o + i - 1 /\ A[o + i] \in S
    BY <1>2, <1>8
  <2>2. Rank(s[i], S) = o + i - 1 /\ s[i] \in S
    BY <1>7, <2>1
  <2>3. QED
    BY <1>8, <2>2
<1>12. ASSUME NEW x \in S, o <= Rank(x, S), Rank(x, S) < o + l
       PROVE  \E i \in 1..Len(s) : s[i] = x
  <2>1. PICK k \in 1..n : k = Rank(x, S) + 1 /\ A[k] = x
    BY <1>2
  <2>2. Rank(x, S) = k - 1
    BY <1>2, <2>1
  <2>3. o + 1 <= k /\ k <= m
    BY <1>2, <1>5, <1>12, <2>1, <2>2
  <2>4. k - o \in 1..Len(s) /\ o + (k - o) = k
    BY <1>5, <1>7, <2>1, <2>3
  <2>5. s[k - o] = A[k]
    BY <1>7, <2>4
  <2>6. QED
    BY <2>1, <2>4, <2>5
<1>13. Range(s) = {x \in S : o <= Rank(x, S) /\ Rank(x, S) < o + l}
  <2>1. \A x \in Range(s) : x \in S /\ o <= Rank(x, S) /\ Rank(x, S) < o + l
    BY <1>10, <1>11
  <2>2. \A x \in S : o <= Rank(x, S) /\ Rank(x, S) < o + l => x \in Range(s)
    BY <1>10, <1>12
  <2>3. QED
    BY <2>1, <2>2
<1>14. Slice(Ascending(S), o, l) = s
  BY <1>1, <1>2, <1>4, <1>6 DEF Slice
<1>15. QED
  BY <1>7, <1>9, <1>13, <1>14

LEMMA IncreasingJoin ==
  ASSUME NEW s \in Seq(Nat), NEW t \in Seq(Nat), Increasing(s), Increasing(t),
         \A x \in Range(s), y \in Range(t) : x < y
  PROVE  Increasing(s \o t)
<1>1. PICK u : u = s \o t
  OBVIOUS
<1>2. /\ Len(u) = Len(s) + Len(t) /\ Len(s) \in Nat /\ Len(t) \in Nat
      /\ \A i \in 1..Len(s) : u[i] = s[i]
      /\ \A i \in 1..Len(u) : i \notin 1..Len(s) => i - Len(s) \in 1..Len(t) /\ u[i] = t[i - Len(s)]
  BY <1>1
<1>3. (\A i \in 1..Len(s) : s[i] \in Range(s)) /\ \A i \in 1..Len(t) : t[i] \in Range(t)
  BY RangeIs
<1>4. \A i, j \in 1..Len(s) : i < j => s[i] < s[j]
  BY DEF Increasing
<1>5. \A i, j \in 1..Len(t) : i < j => t[i] < t[j]
  BY DEF Increasing
<1>6. ASSUME NEW i \in 1..Len(u), NEW j \in 1..Len(u), i < j
      PROVE  u[i] < u[j]
  <2>1. CASE j \in 1..Len(s)
    <3>1. i \in 1..Len(s)
      BY <1>2, <1>6, <2>1
    <3>2. QED
      BY <1>2, <1>4, <1>6, <2>1, <3>1
  <2>2. CASE i \in 1..Len(s) /\ j \notin 1..Len(s)
    <3>1. u[i] \in Range(s) /\ u[j] \in Range(t)
      BY <1>2, <1>3, <2>2
    <3>2. QED
      BY <3>1
  <2>3. CASE i \notin 1..Len(s) /\ j \notin 1..Len(s)
    <3>1. PICK a \in 1..Len(t), b \in 1..Len(t) : a = i - Len(s) /\ b = j - Len(s)
      BY <1>2, <2>3
    <3>2. u[i] = t[a] /\ u[j] = t[b] /\ a < b
      BY <1>2, <1>6, <2>3, <3>1
    <3>3. QED
      BY <1>5, <3>2
  <2>4. QED
    BY <2>1, <2>2, <2>3
<1>7. QED
  BY <1>1, <1>6 DEF Increasing

LEMMA InjectiveJoin ==
  ASSUME NEW s \in Seq(Nat), NEW t \in Seq(Nat), IsInjective(s), IsInjective(t),
         Range(s) \cap Range(t) = {}
  PROVE  IsInjective(s \o t)
<1>1. PICK u : u = s \o t
  OBVIOUS
<1>2. /\ Len(u) = Len(s) + Len(t) /\ Len(s) \in Nat /\ Len(t) \in Nat
      /\ \A i \in 1..Len(s) : u[i] = s[i]
      /\ \A i \in 1..Len(u) : i \notin 1..Len(s) => i - Len(s) \in 1..Len(t) /\ u[i] = t[i - Len(s)]
      /\ DOMAIN u = 1..Len(u) /\ DOMAIN s = 1..Len(s) /\ DOMAIN t = 1..Len(t)
  BY <1>1
<1>3. (\A i \in 1..Len(s) : s[i] \in Range(s)) /\ \A i \in 1..Len(t) : t[i] \in Range(t)
  BY RangeIs
<1>4. (\A i, j \in 1..Len(s) : s[i] = s[j] => i = j) /\ \A i, j \in 1..Len(t) : t[i] = t[j] => i = j
  BY <1>2 DEF IsInjective
<1>5. ASSUME NEW i \in 1..Len(u), NEW j \in 1..Len(u), u[i] = u[j]
      PROVE  i = j
  <2>1. CASE i \in 1..Len(s) /\ j \in 1..Len(s)
    BY <1>2, <1>4, <1>5, <2>1
  <2>2. CASE i \in 1..Len(s) /\ j \notin 1..Len(s)
    <3>1. u[i] \in Range(s) /\ u[j] \in Range(t)
      BY <1>2, <1>3, <2>2
    <3>2. QED
      BY <1>5, <3>1
  <2>3. CASE i \notin 1..Len(s) /\ j \in 1..Len(s)
    <3>1. u[j] \in Range(s) /\ u[i] \in Range(t)
      BY <1>2, <1>3, <2>3
    <3>2. QED
      BY <1>5, <3>1
  <2>4. CASE i \notin 1..Len(s) /\ j \notin 1..Len(s)
    <3>1. PICK a \in 1..Len(t), b \in 1..Len(t) : a = i - Len(s) /\ b = j - Len(s)
      BY <1>2, <2>4
    <3>2. u[i] = t[a] /\ u[j] = t[b]
      BY <1>2, <2>4, <3>1
    <3>3. a = b
      BY <1>4, <1>5, <3>2
    <3>4. QED
      BY <1>2, <3>1, <3>3
  <2>5. QED
    BY <2>1, <2>2, <2>3, <2>4
<1>6. QED
  BY <1>1, <1>2, <1>5 DEF IsInjective

-----------------------------------------------------------------------------
(* The walk through the entities                                           *)

Now == {r \in EntityRefs : Listed(r, walker.scope)}

Pages == {"refs", "rows", "total"}

\* A walk that has not begun asks for nothing.
Walkers == [pc : Pages \cup {"idle", "done"}, scope : ReadScopes \cup {NoWalk.scope},
            offset : Nat, refs : Seq(EntityRefs), items : Seq(EntityRefs), total : Nat]

WalkTyped ==
  /\ walker \in Walkers
  /\ came \in BOOLEAN /\ went \in BOOLEAN

\* What the client has, what is on the page it is reading, and how far the
\* pages have come: whatever is listed below that was on one of them.
Taken == Range(walker.items)
OnPage == IF walker.pc = "rows" THEN Range(walker.refs) ELSE {}
Reached == IF walker.pc \in {"rows", "total"} THEN walker.offset + PageLimit ELSE walker.offset
Behind == {x \in Now : Rank(x, Now) < Reached}

NothingMissed ==
  ~ went => IF walker.pc = "done" THEN steady \subseteq Taken
            ELSE steady \cap Behind \subseteq Taken \cup OnPage

NothingTwice ==
  ~ came => /\ IsInjective(walker.items) /\ Taken \cap OnPage = {}
            /\ (Taken \cup OnPage) \cap Now \subseteq Behind

JustTheListing ==
  ~ came /\ ~ went =>
    /\ Increasing(walker.items) /\ Taken \cup OnPage = Behind
    /\ \A x \in Taken, y \in OnPage : x < y
    /\ walker.pc = "done" => Behind = Now

WalkInv ==
  /\ WalkTyped
  /\ walker.pc # "idle" => steady \subseteq Now /\ NothingMissed /\ NothingTwice /\ JustTheListing

LEMMA NowIs ==
  Now \in SUBSET Nat /\ IsFiniteSet(Now) /\ Now \subseteq EntityRefs /\ EntityRefs \in SUBSET Nat
  /\ Listing(walker.scope) = Ascending(Now)
<1>1. Now \in SUBSET EntityRefs
  BY DEF Now
<1>2. IsFiniteSet(Now)
  BY <1>1, RefsAreOrdered, FS_Subset
<1>3. QED
  BY <1>1, <1>2, RefsAreOrdered DEF Now, Listing

LEMMA WalkRowsChange ==
  ASSUME WalkInv, walker' = walker, Track
  PROVE  WalkInv'
<1>1. CASE walker.pc = "idle"
  BY <1>1 DEF WalkInv, WalkTyped, Track
<1>2. CASE walker.pc # "idle"
  <2> DEFINE later == Now'
  <2>1. /\ steady' = steady \cap Now'
        /\ came' = (came \/ Now' \ Now # {})
        /\ went' = (went \/ Now \ Now' # {})
    BY <1>2 DEF Track, Now
  <2>2. Now \in SUBSET Nat /\ IsFiniteSet(Now) /\ Now \subseteq EntityRefs
    BY NowIs
  <2>3. Now' \in SUBSET Nat /\ IsFiniteSet(Now')
    <3>1. Now' \in SUBSET EntityRefs
      BY DEF Now
    <3>2. QED
      BY <3>1, RefsAreOrdered, FS_Subset
  <2>4. WalkTyped'
    BY <2>1 DEF WalkInv, WalkTyped
  <2>5. Taken' = Taken /\ OnPage' = OnPage /\ Reached' = Reached
    BY DEF Taken, OnPage, Reached
  <2>6. Reached \in Nat /\ (\A x \in Now : Rank(x, Now) \in Nat) /\ (\A x \in Now' : Rank(x, Now') \in Nat)
    <3>1. Reached \in Nat
      BY PagesHaveRoom DEF Reached, WalkInv, WalkTyped, Walkers
    <3>2. QED
      BY <2>2, <2>3, <3>1, RankIs
  <2>7. steady \subseteq Now /\ NothingMissed /\ NothingTwice /\ JustTheListing
    BY <1>2 DEF WalkInv
  <2>8. NothingMissed'
    <3> SUFFICES ASSUME ~ went' PROVE NothingMissed'
      BY DEF NothingMissed
    <3>1. ~ went /\ Now \subseteq Now'
      BY <2>1
    <3>2. CASE walker.pc = "done"
      BY <2>1, <2>5, <2>7, <3>1, <3>2 DEF NothingMissed
    <3>3. CASE walker.pc # "done"
      <4>1. \A x \in steady' : x \in Behind' => x \in steady /\ x \in Behind
        <5> SUFFICES ASSUME NEW x \in steady', x \in Behind' PROVE x \in steady /\ x \in Behind
          OBVIOUS
        <5>1. x \in steady /\ x \in Now /\ x \in Now' /\ Rank(x, Now') < Reached
          BY <2>1, <2>5, <2>7 DEF Behind
        <5>2. Rank(x, Now) <= Rank(x, Now')
          BY <2>3, <3>1, <5>1, RankMoves
        <5>3. QED
          BY <2>6, <5>1, <5>2 DEF Behind
      <4>2. steady \cap Behind \subseteq Taken \cup OnPage
        BY <2>7, <3>1, <3>3 DEF NothingMissed
      <4>3. QED
        BY <2>5, <3>3, <4>1, <4>2 DEF NothingMissed
    <3>4. QED
      BY <3>2, <3>3
  <2>9. NothingTwice'
    <3> SUFFICES ASSUME ~ came' PROVE NothingTwice'
      BY DEF NothingTwice
    <3>1. ~ came /\ Now' \subseteq Now
      BY <2>1
    <3>2. /\ IsInjective(walker.items) /\ Taken \cap OnPage = {}
          /\ (Taken \cup OnPage) \cap Now \subseteq Behind
      BY <2>7, <3>1 DEF NothingTwice
    <3>3. \A x \in Now' : x \in Behind => x \in Behind'
      <4> SUFFICES ASSUME NEW x \in Now', x \in Behind PROVE x \in Behind'
        OBVIOUS
      <4>1. Rank(x, Now') <= Rank(x, Now) /\ x \in Now /\ Rank(x, Now) < Reached
        BY <2>2, <3>1, RankMoves DEF Behind
      <4>2. QED
        BY <2>5, <2>6, <4>1 DEF Behind
    <3>4. QED
      BY <2>5, <3>1, <3>2, <3>3 DEF NothingTwice
  <2>10. JustTheListing'
    <3> SUFFICES ASSUME ~ came', ~ went' PROVE JustTheListing'
      BY DEF JustTheListing
    <3>1. ~ came /\ ~ went /\ Now' = Now
      BY <2>1
    <3>2. Behind' = Behind
      BY <2>5, <3>1 DEF Behind
    <3>3. QED
      BY <2>5, <2>7, <3>1, <3>2 DEF JustTheListing
  <2>11. steady' \subseteq Now'
    BY <2>1
  <2>12. QED
    BY <2>4, <2>8, <2>9, <2>10, <2>11 DEF WalkInv
<1>3. QED
  BY <1>1, <1>2

LEMMA NoWalkTyped == NoWalk \in Walkers /\ NoWalk.pc = "idle"
<1>1. <<>> \in Seq(EntityRefs) /\ 0 \in Nat /\ NoWalk.scope \in ReadScopes \cup {NoWalk.scope}
  OBVIOUS
<1>2. PICK scope : scope = NoWalk.scope
  OBVIOUS
<1>3. NoWalk = [pc |-> "idle", scope |-> scope, offset |-> 0, refs |-> <<>>,
                items |-> <<>>, total |-> 0]
  BY <1>2 DEF NoWalk
<1>4. QED
  BY <1>1, <1>2, <1>3 DEF Walkers

LEMMA WalkInit == ReadInit => WalkInv
BY NoWalkTyped DEF ReadInit, WalkInv, WalkTyped, Walkers

LEMMA WalkStarts ==
  ASSUME WalkInv, NEW scope \in ReadScopes, StartWalk(scope)
  PROVE  WalkInv'
<1>1. walker' = [NoWalk EXCEPT !.pc = "refs", !.scope = scope]
      /\ came' = FALSE /\ went' = FALSE /\ steady' = {r \in EntityRefs : Listed(r, scope)}
      /\ identityRows' = identityRows /\ entityRows' = entityRows
  BY DEF StartWalk
<1>2. walker' = [pc |-> "refs", scope |-> scope, offset |-> 0, refs |-> <<>>,
                 items |-> <<>>, total |-> 0]
  BY <1>1 DEF NoWalk
<1>3. WalkTyped'
  <2>1. <<>> \in Seq(EntityRefs) /\ 0 \in Nat
    OBVIOUS
  <2>2. walker' \in Walkers
    BY <1>2, <2>1 DEF Walkers, Pages
  <2>3. QED
    BY <1>1, <2>2 DEF WalkTyped
<1>4. steady' = Now'
  BY <1>1, <1>2 DEF Now, Listed, Live, SqlScope, ArraysMatch, TupleMatches, Owned
<1>5. walker'.items = <<>> /\ Taken' = {} /\ OnPage' = {} /\ Reached' = 0
  BY <1>2 DEF Taken, OnPage, Reached, Range
<1>6. Behind' = {}
  <2>1. Now' \in SUBSET Nat /\ IsFiniteSet(Now')
    <3>1. Now' \in SUBSET EntityRefs
      BY DEF Now
    <3>2. QED
      BY <3>1, RefsAreOrdered, FS_Subset
  <2>2. \A x \in Now' : Rank(x, Now') \in Nat
    BY <2>1, RankIs
  <2>3. QED
    BY <1>5, <2>2 DEF Behind
<1>7. IsInjective(walker'.items) /\ Increasing(walker'.items)
  BY <1>5 DEF IsInjective, Increasing
<1>8. walker'.pc = "refs"
  BY <1>2
<1>9. QED
  BY <1>1, <1>3, <1>4, <1>5, <1>6, <1>7, <1>8 DEF WalkInv, NothingMissed, NothingTwice, JustTheListing

LEMMA WalkReadsRefs ==
  ASSUME WalkInv, PageRefs
  PROVE  WalkInv'
<1>1. PICK s : s = Slice(Ascending(Now), walker.offset, PageLimit)
  OBVIOUS
<1>2. /\ walker.pc = "refs" /\ walker' = [walker EXCEPT !.pc = "rows", !.refs = s]
      /\ UNCHANGED <<identityRows, entityRows, steady, came, went>>
  BY <1>1, NowIs DEF PageRefs, EntityPageRefs
<1>3. /\ WalkTyped /\ steady \subseteq Now /\ NothingMissed /\ NothingTwice /\ JustTheListing
      /\ walker.offset \in Nat /\ PageLimit \in Nat \ {0}
  BY <1>2, PagesHaveRoom DEF WalkInv, WalkTyped, Walkers
<1>4. /\ s \in Seq(Now)
      /\ Range(s) = {x \in Now : walker.offset <= Rank(x, Now) /\ Rank(x, Now) < walker.offset + PageLimit}
  BY <1>1, <1>3, NowIs, SliceIs
<1>5. s \in Seq(EntityRefs)
  BY <1>4, NowIs, WiderSeq
<1>6. WalkTyped'
  BY <1>2, <1>3, <1>5 DEF WalkTyped, Walkers, Pages
<1>7. /\ walker'.pc = "rows" /\ walker'.refs = s /\ walker'.items = walker.items
      /\ walker'.offset = walker.offset /\ walker'.scope = walker.scope
  BY <1>2, <1>3 DEF WalkTyped, Walkers
<1>8. Now' = Now
  BY <1>2, <1>7 DEF Now, Listed, Live, SqlScope, ArraysMatch, TupleMatches, Owned
<1>9. /\ Taken' = Taken /\ OnPage' = Range(s) /\ OnPage = {}
      /\ Reached' = walker.offset + PageLimit /\ Reached = walker.offset
  BY <1>2, <1>7 DEF Taken, OnPage, Reached
<1>10. \A x \in Now : Rank(x, Now) \in Nat
  BY NowIs, RankIs
<1>11. /\ \A x \in Behind : x \in Behind'
       /\ \A x \in Range(s) : x \in Behind' /\ x \notin Behind /\ x \in Now
       /\ \A x \in Behind' : x \in Behind \/ x \in Range(s)
       /\ Behind \subseteq Now /\ Behind' \subseteq Now
  BY <1>3, <1>4, <1>8, <1>9, <1>10 DEF Behind
<1>12. NothingMissed'
  BY <1>2, <1>3, <1>7, <1>9, <1>11 DEF NothingMissed
<1>13. NothingTwice'
  BY <1>2, <1>3, <1>7, <1>8, <1>9, <1>11 DEF NothingTwice
<1>14. JustTheListing'
  <2> SUFFICES ASSUME ~ came, ~ went PROVE JustTheListing'
    BY <1>2 DEF JustTheListing
  <2>1. Increasing(walker.items) /\ Taken = Behind
    BY <1>3, <1>9 DEF JustTheListing
  <2>2. \A x \in Taken, y \in Range(s) : x < y
    <3> SUFFICES ASSUME NEW x \in Behind, NEW y \in Range(s) PROVE x < y
      BY <2>1
    <3>1. x \in Now /\ Rank(x, Now) < walker.offset
      BY <1>9 DEF Behind
    <3>2. y \in Now /\ walker.offset <= Rank(y, Now)
      BY <1>4
    <3>3. Rank(x, Now) < Rank(y, Now)
      BY <1>3, <1>10, <3>1, <3>2
    <3>4. QED
      BY <3>1, <3>2, <3>3, NowIs, RankTells
  <2>3. QED
    BY <1>7, <1>9, <1>11, <2>1, <2>2 DEF JustTheListing
<1>15. QED
  BY <1>2, <1>3, <1>6, <1>8, <1>12, <1>13, <1>14 DEF WalkInv

(* Python drops nothing: what a page names and is still listed is served.  *)
LEMMA ListedIsServed ==
  ASSUME NEW r, NEW scope, Listed(r, scope)
  PROVE  Served(r, scope)
<1>1. Live(r) /\ scope # <<>> => SqlScope(identityRows[r], scope)
  BY DEF Listed
<1>2. QED
  BY <1>1, ScopesRelate DEF Served

LEMMA WalkReadsRows ==
  ASSUME WalkInv, PageRows
  PROVE  WalkInv'
<1>1. PICK T : T = Range(walker.refs) \cap Now
  OBVIOUS
<1>2. /\ WalkTyped /\ steady \subseteq Now /\ NothingMissed /\ NothingTwice /\ JustTheListing
      /\ walker.pc = "rows" /\ walker.refs \in Seq(EntityRefs) /\ walker.items \in Seq(EntityRefs)
  BY DEF PageRows, WalkInv, WalkTyped, Walkers
<1>3. {r \in Range(walker.refs) : Served(r, walker.scope)} = T
  <2>1. \A r \in Range(walker.refs) : r \in EntityRefs
    BY <1>2, RangeIs
  <2>2. \A r \in Range(walker.refs) : Served(r, walker.scope) <=> Listed(r, walker.scope)
    BY ListedIsServed DEF Served
  <2>3. QED
    BY <1>1, <2>1, <2>2 DEF Now
<1>4. PICK t : t = Ascending(T)
  OBVIOUS
<1>5. /\ walker' = [walker EXCEPT !.pc = "total", !.items = @ \o t]
      /\ UNCHANGED <<identityRows, entityRows, steady, came, went>>
  BY <1>3, <1>4 DEF PageRows
<1>6. T \in SUBSET Nat /\ IsFiniteSet(T) /\ T \in SUBSET EntityRefs
  BY <1>1, NowIs, FS_Subset
<1>7. t \in Seq(T) /\ Range(t) = T /\ Increasing(t) /\ IsInjective(t)
  BY <1>4, <1>6, AscendingIs, AscendingOrder
<1>8. t \in Seq(EntityRefs) /\ t \in Seq(Nat) /\ walker.items \in Seq(Nat)
  BY <1>2, <1>6, <1>7, NowIs, WiderSeq
<1>9. PICK u : u = walker.items \o t
  OBVIOUS
<1>10. u \in Seq(EntityRefs) /\ Range(u) = Range(walker.items) \cup T
  BY <1>2, <1>7, <1>8, <1>9, RangeOfConcat
<1>11. WalkTyped'
  BY <1>2, <1>5, <1>9, <1>10 DEF WalkTyped, Walkers, Pages
<1>12. /\ walker'.pc = "total" /\ walker'.refs = walker.refs /\ walker'.items = u
       /\ walker'.offset = walker.offset /\ walker'.scope = walker.scope
  BY <1>2, <1>5, <1>9 DEF WalkTyped, Walkers
<1>13. Now' = Now
  BY <1>5, <1>12 DEF Now, Listed, Live, SqlScope, ArraysMatch, TupleMatches, Owned
<1>14. /\ Taken' = Taken \cup T /\ OnPage' = {} /\ OnPage = Range(walker.refs) /\ Reached' = Reached
       /\ T = OnPage \cap Now
  BY <1>1, <1>2, <1>10, <1>12 DEF Taken, OnPage, Reached
<1>15. Behind' = Behind /\ Behind \subseteq Now
  BY <1>13, <1>14 DEF Behind
<1>16. NothingMissed'
  BY <1>2, <1>5, <1>12, <1>14, <1>15 DEF NothingMissed
<1>17. NothingTwice'
  <2> SUFFICES ASSUME ~ came PROVE NothingTwice'
    BY <1>5 DEF NothingTwice
  <2>1. IsInjective(walker.items) /\ Taken \cap OnPage = {} /\ (Taken \cup OnPage) \cap Now \subseteq Behind
    BY <1>2 DEF NothingTwice
  <2>2. Range(walker.items) \cap Range(t) = {}
    BY <1>7, <1>14, <2>1 DEF Taken
  <2>3. IsInjective(u)
    BY <1>7, <1>8, <1>9, <2>1, <2>2, InjectiveJoin
  <2>4. QED
    BY <1>12, <1>13, <1>14, <1>15, <2>1, <2>3 DEF NothingTwice
<1>18. JustTheListing'
  <2> SUFFICES ASSUME ~ came, ~ went PROVE JustTheListing'
    BY <1>5 DEF JustTheListing
  <2>1. /\ Increasing(walker.items) /\ Taken \cup OnPage = Behind
        /\ \A x \in Taken, y \in OnPage : x < y
    BY <1>2 DEF JustTheListing
  <2>2. T = OnPage
    BY <1>14, <1>15, <2>1
  <2>3. \A x \in Range(walker.items), y \in Range(t) : x < y
    BY <1>7, <2>1, <2>2 DEF Taken
  <2>4. Increasing(u)
    BY <1>7, <1>8, <1>9, <2>1, <2>3, IncreasingJoin
  <2>5. QED
    BY <1>12, <1>14, <1>15, <2>1, <2>2, <2>4 DEF JustTheListing
<1>19. QED
  BY <1>2, <1>5, <1>11, <1>13, <1>16, <1>17, <1>18 DEF WalkInv

LEMMA WalkReadsTotal ==
  ASSUME WalkInv, PageTotal
  PROVE  WalkInv'
<1>1. PICK n, page : n = Cardinality(Now)
                     /\ page = IF walker.offset + PageLimit < n THEN "refs" ELSE "done"
  OBVIOUS
<1>2. Len(Listing(walker.scope)) = n /\ n \in Nat
  BY <1>1, NowIs, AscendingIs
<1>3. /\ walker.pc = "total"
      /\ walker' = [walker EXCEPT !.total = n, !.refs = <<>>, !.pc = page, !.offset = @ + PageLimit]
      /\ UNCHANGED <<identityRows, entityRows, steady, came, went>>
  BY <1>1, <1>2 DEF PageTotal
<1>4. /\ WalkTyped /\ steady \subseteq Now /\ NothingMissed /\ NothingTwice /\ JustTheListing
      /\ walker.offset \in Nat /\ PageLimit \in Nat \ {0} /\ page \in {"refs", "done"}
  BY <1>1, <1>3, PagesHaveRoom DEF WalkInv, WalkTyped, Walkers
<1>5. WalkTyped'
  <2>a. <<>> \in Seq(EntityRefs)
    OBVIOUS
  <2>b. PICK none : none = <<>>
    OBVIOUS
  <2>1. none = <<>> /\ none \in Seq(EntityRefs)
    BY <2>a, <2>b
  <2>2. PICK next : next = walker.offset + PageLimit /\ next \in Nat
    BY <1>4
  <2>3. walker' = [walker EXCEPT !.total = n, !.refs = none, !.pc = page, !.offset = next]
    BY <1>3, <1>4, <2>1, <2>2 DEF WalkTyped, Walkers
  <2>4. walker' \in Walkers
    BY <1>2, <1>4, <2>1, <2>2, <2>3 DEF WalkTyped, Walkers, Pages
  <2>5. QED
    BY <1>3, <1>4, <2>4 DEF WalkTyped
<1>6. /\ walker'.pc = page /\ walker'.items = walker.items
      /\ walker'.offset = walker.offset + PageLimit /\ walker'.scope = walker.scope
  BY <1>3, <1>4 DEF WalkTyped, Walkers
<1>7. Now' = Now
  BY <1>3, <1>6 DEF Now, Listed, Live, SqlScope, ArraysMatch, TupleMatches, Owned
<1>8. Taken' = Taken /\ OnPage' = {} /\ OnPage = {} /\ Reached' = Reached /\ Reached = walker.offset + PageLimit
  BY <1>3, <1>4, <1>6 DEF Taken, OnPage, Reached
<1>9. Behind' = Behind /\ Behind \subseteq Now
  BY <1>7, <1>8 DEF Behind
<1>10. page = "done" => Behind = Now
  <2> SUFFICES ASSUME page = "done", NEW x \in Now PROVE x \in Behind
    BY <1>9
  <2>1. Rank(x, Now) \in Nat /\ Rank(x, Now) < n
    BY <1>1, NowIs, RankIs
  <2>2. n <= Reached
    BY <1>1, <1>2, <1>4, <1>8
  <2>3. QED
    BY <1>2, <1>4, <1>8, <2>1, <2>2 DEF Behind
<1>11. NothingMissed'
  BY <1>3, <1>4, <1>6, <1>8, <1>9, <1>10 DEF NothingMissed
<1>12. NothingTwice'
  BY <1>3, <1>4, <1>6, <1>7, <1>8, <1>9 DEF NothingTwice
<1>13. JustTheListing'
  BY <1>3, <1>4, <1>6, <1>7, <1>8, <1>9, <1>10 DEF JustTheListing
<1>14. QED
  BY <1>3, <1>4, <1>5, <1>7, <1>11, <1>12, <1>13 DEF WalkInv

LEMMA WalkStep == WalkInv /\ [ReadNext]_readVars => WalkInv'
<1> SUFFICES ASSUME WalkInv, [ReadNext]_readVars PROVE WalkInv'
  OBVIOUS
<1>1. ASSUME NEW r \in EntityRefs, NEW meta \in Metas, EstablishRow(r, meta)
      PROVE  WalkInv'
  BY <1>1, WalkRowsChange DEF EstablishRow
<1>2. ASSUME NEW r \in EntityRefs, InvalidateRow(r) \/ EntityRowWritten(r)
      PROVE  WalkInv'
  BY <1>2, WalkRowsChange DEF InvalidateRow, EntityRowWritten
<1>3. CASE EndWalk
  BY <1>3, NoWalkTyped DEF EndWalk, WalkInv, WalkTyped
<1>4. CASE UNCHANGED readVars
  <2>1. UNCHANGED <<identityRows, entityRows, walker, steady, came, went>>
    BY <1>4 DEF readVars
  <2>2. Now' = Now
    BY <2>1 DEF Now, Listed, Live, SqlScope, ArraysMatch, TupleMatches, Owned
  <2>3. Taken' = Taken /\ OnPage' = OnPage /\ Reached' = Reached
    BY <2>1 DEF Taken, OnPage, Reached
  <2>4. Behind' = Behind
    BY <2>2, <2>3 DEF Behind
  <2>5. WalkTyped' = WalkTyped
    BY <2>1 DEF WalkTyped
  <2>6. QED
    BY <2>1, <2>2, <2>3, <2>4, <2>5 DEF WalkInv, NothingMissed, NothingTwice, JustTheListing
<1>5. QED
  BY <1>1, <1>2, <1>3, <1>4, WalkStarts, WalkReadsRefs, WalkReadsRows, WalkReadsTotal DEF ReadNext

LEMMA WalkInvCovers == WalkInv => WalkCoversSteady
<1> SUFFICES ASSUME WalkInv, walker.pc = "done" PROVE WalkCoversSteady
  BY DEF WalkCoversSteady
<1>1. NothingMissed /\ NothingTwice /\ JustTheListing /\ WalkTyped
  BY DEF WalkInv
<1>2. went \/ steady \subseteq Range(walker.items)
  BY <1>1 DEF NothingMissed, Taken
<1>3. came \/ IsInjective(walker.items)
  BY <1>1 DEF NothingTwice
<1>4. ASSUME ~ came, ~ went
      PROVE  walker.items = Listing(walker.scope)
  <2>1. Increasing(walker.items) /\ Range(walker.items) = Now
    BY <1>1, <1>4 DEF JustTheListing, Taken, OnPage
  <2>2. walker.items \in Seq(Nat)
    BY <1>1, NowIs, WiderSeq DEF WalkTyped, Walkers
  <2>3. Ascending(Range(walker.items)) = walker.items
    BY <2>1, <2>2, IncreasingIsAscending
  <2>4. QED
    BY <2>1, <2>3, NowIs
<1>5. QED
  BY <1>2, <1>3, <1>4 DEF WalkCoversSteady

LEMMA ScopesAlwaysAgree == ScopePredicatesAgree
BY ScopesRelate DEF ScopePredicatesAgree

-----------------------------------------------------------------------------
(* The window of the alias path                                            *)

\* The elements among the first w of a sequence.
AmongFirst(s, w) == {s[p] : p \in {q \in 1..Len(s) : q <= w}}

LEMMA WindowGrows ==
  ASSUME NEW S, NEW w \in Nat, NEW s \in Seq(S), NEW t \in Seq(S),
         NEW x \in S, Len(t) >= 1, Range(t) = {x}
  PROVE  AmongFirst(s \o t, w) = IF w <= Len(s) THEN AmongFirst(s, w) ELSE Range(s) \cup {x}
<1>1. PICK u : u = s \o t
  OBVIOUS
<1>2. /\ u \in Seq(S) /\ Len(u) = Len(s) + Len(t) /\ Len(s) \in Nat /\ Len(t) \in Nat
      /\ Len(t) >= 1
  <2>1. u \in Seq(S) /\ Len(u) = Len(s) + Len(t)
    BY <1>1
  <2>2. Len(s) \in Nat /\ Len(t) \in Nat
    OBVIOUS
  <2>3. Len(t) >= 1
    OBVIOUS
  <2>4. QED
    BY <2>1, <2>2, <2>3
<1>3. \A p \in 1..Len(s) : u[p] = s[p]
  BY <1>1
<1>a. \A p \in 1..Len(u) : p \notin 1..Len(s) => p - Len(s) \in 1..Len(t)
  BY <1>2
<1>b. \A p \in 1..Len(u) : p \notin 1..Len(s) => u[p] = t[p - Len(s)]
  BY <1>1, <1>2
<1>4. \A p \in 1..Len(u) : p \notin 1..Len(s) => u[p] = t[p - Len(s)] /\ p - Len(s) \in 1..Len(t)
  BY <1>a, <1>b
<1>5. \A p \in 1..Len(u) : p \notin 1..Len(s) => u[p] = x
  <2>1. \A p \in 1..Len(t) : t[p] \in Range(t)
    BY RangeIs
  <2>2. QED
    BY <1>4, <2>1
<1>8. Range(s) = {s[p] : p \in 1..Len(s)}
  BY RangeIs
<1> DEFINE first == IF w <= Len(s) THEN AmongFirst(s, w) ELSE Range(s) \cup {x}
<1>9. ASSUME w <= Len(s) PROVE AmongFirst(u, w) = first
  <2>1. {q \in 1..Len(u) : q <= w} = {q \in 1..Len(s) : q <= w}
    BY <1>2, <1>9
  <2>2. {u[p] : p \in {q \in 1..Len(s) : q <= w}} = {s[p] : p \in {q \in 1..Len(s) : q <= w}}
    BY <1>3
  <2>3. AmongFirst(u, w) = AmongFirst(s, w)
    BY <2>1, <2>2 DEF AmongFirst
  <2>4. QED
    BY <1>9, <2>3
<1>10. ASSUME ~ (w <= Len(s)) PROVE AmongFirst(u, w) = first
  <2> DEFINE W == {q \in 1..Len(u) : q <= w}
  <2>1. (\A p \in 1..Len(s) : p \in W) /\ Len(s) + 1 \in W /\ Len(s) + 1 \notin 1..Len(s)
    BY <1>2, <1>10
  <2>2. \A p \in W : u[p] = x \/ (p \in 1..Len(s) /\ u[p] = s[p])
    BY <1>3, <1>5
  <2>3. u[Len(s) + 1] = x
    BY <1>5, <2>1
  <2> HIDE DEF W
  <2>4. {u[p] : p \in W} = Range(s) \cup {x}
    BY <1>3, <1>8, <2>1, <2>2, <2>3
  <2>5. AmongFirst(u, w) = Range(s) \cup {x}
    BY <2>4 DEF AmongFirst, W
  <2>6. QED
    BY <1>10, <2>5
<1>11. AmongFirst(u, w) = first
  BY <1>9, <1>10
<1>12. QED
  BY <1>1, <1>11

\* Every ref has one row or two of its own, in the order of the refs.
PairsOf(seqs, L) ==
  \A i \in 1..Len(L) : Len(seqs[i]) >= 1 /\ Len(seqs[i]) <= 2 /\ Range(seqs[i]) = {L[i]}

LEMMA WindowHolds ==
  ASSUME NEW S, NEW L \in Seq(S), NEW seqs \in Seq(Seq(S)), Len(seqs) = Len(L),
         PairsOf(seqs, L), NEW w \in Nat
  PROVE  /\ FlattenSeq(seqs) \in Seq(S)
         /\ \E k \in 0..Len(L) : AmongFirst(FlattenSeq(seqs), w) = {L[j] : j \in 1..k}
                                 /\ (k = Len(L) \/ w <= 2 * k)
<1> DEFINE N == Len(L)
<1>1. N \in Nat /\ N = Len(seqs) /\ \A i \in 1..N : seqs[i] \in Seq(S)
  OBVIOUS
<1>2. CASE N = 0
  <2>1. seqs = <<>> /\ 1..N = {} /\ 0 \in 0..N
    BY <1>1, <1>2
  <2>2. PICK F : F = FlattenSeq(seqs)
    OBVIOUS
  <2>3. F = <<>>
    BY <1>1, <1>2, <2>1, <2>2 DEF FlattenSeq
  <2>4. F \in Seq(S) /\ Len(F) = 0
    BY <2>3
  <2>5. AmongFirst(F, w) = {}
    BY <2>4 DEF AmongFirst
  <2>6. AmongFirst(F, w) = {L[j] : j \in 1..0}
    BY <2>5
  <2>7. QED
    BY <1>2, <2>1, <2>2, <2>4, <2>6
<1>3. CASE N # 0
  <2> DEFINE f == CHOOSE g : IsFlattening(g, seqs, N)
  <2>1. FlattenSeq(seqs) = f[N]
    BY <1>1, <1>3, Zenon DEF FlattenSeq, IsFlattening
  <2>2. IsFlattening(f, seqs, N)
    BY <1>1, FlatteningExists, Zenon
  <2> HIDE DEF f
  <2>3. \A i \in 1..N : f[i] = IF i = 1 THEN seqs[i] ELSE f[i - 1] \o seqs[i]
    BY <2>2, Zenon DEF IsFlattening
  <2>a. \A i \in 1..N : Len(seqs[i]) >= 1 /\ Len(seqs[i]) <= 2 /\ Range(seqs[i]) = {L[i]}
    BY DEF PairsOf
  <2> HIDE DEF N
  <2> DEFINE Good(i) == /\ f[i] \in Seq(S) /\ Len(f[i]) <= 2 * i /\ Range(f[i]) = {L[j] : j \in 1..i}
                        /\ \E k \in 0..i : AmongFirst(f[i], w) = {L[j] : j \in 1..k} /\ (k = i \/ w <= 2 * k)
             Bad == {i \in 1..N : ~ Good(i)}
  <2>4. Bad = {}
    <3> SUFFICES ASSUME Bad # {} PROVE FALSE
      OBVIOUS
    <3>1. Bad \in SUBSET Nat
      BY <1>1
    <3>2. PICK i \in Bad : \A m \in Bad : i <= m
      BY <3>1, LeastExists
    <3>3. i \in 1..N /\ i \in Nat /\ seqs[i] \in Seq(S)
      BY <1>1, <3>2
    <3>a. PICK h : h = i - 1 /\ h \in Nat /\ i = h + 1
      BY <1>1, <3>3
    <3>b. PICK t : t = seqs[i] /\ t \in Seq(S) /\ Len(t) >= 1 /\ Len(t) <= 2 /\ Range(t) = {L[i]}
      BY <2>a, <3>3, <3>a
    <3>c. Good(i) => FALSE
      BY <3>2
    <3> HIDE DEF Good, Bad
    <3>4. ASSUME NEW s \in Seq(S), NEW k \in 0..h, Len(s) <= 2 * h, Range(s) = {L[j] : j \in 1..h},
                 AmongFirst(s, w) = {L[j] : j \in 1..k}, k = h \/ w <= 2 * k, f[i] = s \o t
          PROVE  FALSE
      <4>1. PICK x, u : x = L[i] /\ u = f[i]
        OBVIOUS
      <4>a. Len(t) >= 1 /\ Len(t) <= 2 /\ Range(t) = {x}
        BY <3>b, <4>1
      <4>b. u = s \o t
        BY <3>4, <4>1
      <4>2. /\ u \in Seq(S) /\ Len(u) <= Len(s) + 2 /\ Range(u) = Range(s) \cup {x}
            /\ AmongFirst(u, w) = IF w <= Len(s) THEN AmongFirst(s, w) ELSE Range(s) \cup {x}
        <5>1. w \in Nat /\ s \in Seq(S) /\ t \in Seq(S) /\ x \in S
          <6>1. i \in 1..Len(L)
            BY <3>3 DEF N
          <6>2. QED
            BY <3>b, <4>1, <6>1
        <5>2. QED
          <6>1. AmongFirst(s \o t, w) = IF w <= Len(s) THEN AmongFirst(s, w) ELSE Range(s) \cup {x}
            BY <4>a, <5>1, WindowGrows
          <6>2. s \o t \in Seq(S) /\ Range(s \o t) = Range(s) \cup {x}
            BY <4>a, <5>1, RangeOfConcat
          <6>3. Len(s \o t) <= Len(s) + 2
            BY <4>a, <5>1
          <6>4. QED
            BY <4>b, <6>1, <6>2, <6>3
      <4>3. {L[j] : j \in 1..i} = {L[j] : j \in 1..h} \cup {x}
        <5>1. (\A j \in 1..i : j \in 1..h \/ j = i) /\ (\A j \in 1..h : j \in 1..i) /\ i \in 1..i
          BY <3>a
        <5>2. QED
          BY <4>1, <5>1
      <4>4. Len(u) \in Nat /\ Len(s) \in Nat /\ Len(u) <= 2 * i
        BY <3>a, <3>4, <4>2
      <4>5. \E m \in 0..i : AmongFirst(u, w) = {L[j] : j \in 1..m} /\ (m = i \/ w <= 2 * m)
        <5>1. CASE w <= Len(s)
          <6>1. k \in 0..i /\ w <= 2 * k
            BY <3>a, <3>4, <4>4, <5>1
          <6>2. AmongFirst(u, w) = {L[j] : j \in 1..k}
            BY <3>4, <4>2, <5>1
          <6>3. QED
            BY <6>1, <6>2
        <5>2. CASE ~ (w <= Len(s))
          <6>1. i \in 0..i
            BY <3>a
          <6>2. AmongFirst(u, w) = {L[j] : j \in 1..i}
            BY <3>4, <4>2, <4>3, <5>2
          <6>3. QED
            BY <6>1, <6>2
        <5>3. QED
          BY <5>1, <5>2
      <4>6. Range(u) = {L[j] : j \in 1..i}
        BY <3>4, <4>2, <4>3
      <4>7. Good(i)
        BY <4>1, <4>2, <4>4, <4>5, <4>6 DEF Good
      <4>8. QED
        BY <3>c, <4>7
    <3>5. CASE i = 1
      <4>1. h = 0 /\ f[i] = t
        BY <2>3, <3>3, <3>5, <3>a, <3>b
      <4>2. PICK s : s = <<>>
        OBVIOUS
      <4>3. s \in Seq(S) /\ Len(s) = 0 /\ s \o t = t /\ Range(s) = {}
        BY <3>b, <4>2 DEF Range
      <4>4. AmongFirst(s, w) = {}
        BY <4>3 DEF AmongFirst
      <4>5. 0 \in 0..h /\ 1..h = {} /\ 1..0 = {} /\ Len(s) <= 2 * h
        BY <4>1, <4>3
      <4>6. QED
        BY <3>4, <4>1, <4>3, <4>4, <4>5
    <3>6. CASE i # 1
      <4>0. h \in 1..N /\ ~ (i <= h)
        BY <1>1, <3>3, <3>6, <3>a
      <4>a. h \notin Bad
        BY <3>2, <4>0, Zenon
      <4>b. f[i] = f[h] \o t
        BY <2>3, <3>3, <3>6, <3>a, <3>b
      <4>1. Good(h)
        BY <4>0, <4>a DEF Bad
      <4>2. QED
        BY <3>4, <4>1, <4>b DEF Good
    <3>7. QED
      BY <3>5, <3>6
  <2>5. N \in 1..N
    BY <1>1, <1>3
  <2>6. Good(N)
    BY <2>4, <2>5
  <2>7. QED
    BY <2>1, <2>6 DEF N
<1>4. QED
  BY <1>2, <1>3

(* The first k of an increasing sequence, enumerated.                      *)
LEMMA FirstsAscend ==
  ASSUME NEW L \in Seq(Nat), Increasing(L), NEW k \in 0..Len(L)
  PROVE  /\ Ascending({L[j] : j \in 1..k}) = SubSeq(L, 1, k)
         /\ SubSeq(L, 1, k) \in Seq(Nat) /\ Len(SubSeq(L, 1, k)) = k
         /\ \A j \in 1..k : SubSeq(L, 1, k)[j] = L[j]
<1>1. PICK s : s = SubSeq(L, 1, k)
  OBVIOUS
<1>2. /\ s \in Seq(Nat) /\ Len(s) = k /\ k \in Nat
      /\ \A j \in 1..k : s[j] = L[j] /\ j \in 1..Len(L)
  BY <1>1
<1>3. \A i, j \in 1..Len(L) : i < j => L[i] < L[j]
  BY DEF Increasing
<1>4. Increasing(s)
  BY <1>2, <1>3 DEF Increasing
<1>5. Range(s) = {s[j] : j \in 1..k}
  BY <1>2, RangeIs
<1>6. {s[j] : j \in 1..k} = {L[j] : j \in 1..k}
  BY <1>2
<1>7. Ascending(Range(s)) = s
  BY <1>2, <1>4, IncreasingIsAscending
<1>8. QED
  BY <1>1, <1>2, <1>5, <1>6, <1>7

(* Every page of the alias path, however far, is the page of the listing.  *)
LEMMA AliasPageIs ==
  ASSUME NEW offset \in Nat, NEW limit \in Nat
  PROVE  LET listing == Listing(<<>>)
             page == AliasPage(offset, limit)
         IN  /\ page[1] = Slice(listing, offset, limit)
             /\ offset + limit < page[2] <=> offset + limit < Len(listing)
<1> DEFINE S0 == {r \in EntityRefs : Listed(r, <<>>)}
<1>1. S0 \in SUBSET Nat /\ IsFiniteSet(S0) /\ S0 \in SUBSET EntityRefs
  <2>1. S0 \in SUBSET EntityRefs
    OBVIOUS
  <2>2. QED
    BY <2>1, RefsAreOrdered, FS_Subset
<1>2. PICK L : L = Listing(<<>>)
  OBVIOUS
<1>3. L = Ascending(S0)
  BY <1>2 DEF Listing
<1>4. \A r \in S0 : Live(r) \/ r \in entityRows
  BY DEF Listed
<1> HIDE DEF S0
<1>5. L \in Seq(S0) /\ Increasing(L) /\ Len(L) \in Nat /\ DOMAIN L = 1..Len(L)
  BY <1>1, <1>3, AscendingIs, AscendingOrder
<1>a. PICK n : n = Len(L)
  OBVIOUS
<1>b. n \in Nat
  BY <1>5, <1>a
<1>6. L \in Seq(Nat)
  BY <1>1, <1>5, WiderSeq
<1>7. PICK seqs : seqs = [i \in DOMAIN L |-> RowsOfRef(L[i])]
  OBVIOUS
<1>8. ASSUME NEW r \in S0
      PROVE  /\ RowsOfRef(r) \in Seq(S0) /\ Len(RowsOfRef(r)) >= 1 /\ Len(RowsOfRef(r)) <= 2
             /\ Range(RowsOfRef(r)) = {r}
  <2>1. PICK t : t = RowsOfRef(r)
    OBVIOUS
  <2>2. t \in Seq(S0) /\ Len(t) >= 1 /\ Len(t) <= 2 /\ t[1] = r /\ (Len(t) = 2 => t[2] = r)
    <3>1. CASE Live(r) /\ r \in entityRows
      BY <2>1, <3>1 DEF RowsOfRef
    <3>2. CASE Live(r) /\ r \notin entityRows
      BY <2>1, <3>2 DEF RowsOfRef
    <3>3. CASE ~ Live(r) /\ r \in entityRows
      BY <2>1, <3>3 DEF RowsOfRef
    <3>4. QED
      BY <1>4, <3>1, <3>2, <3>3
  <2>3. Range(t) = {t[p] : p \in 1..Len(t)}
    BY <2>2, RangeIs
  <2>4. Range(t) = {r}
    <3>1. PICK len : len = Len(t)
      OBVIOUS
    <3>a. len = 1 \/ len = 2
      BY <2>2, <3>1
    <3>b. 1..len = {1} \/ (1..len = {1, 2} /\ len = 2)
      BY <3>a
    <3>2. 1..Len(t) = {1} \/ (1..Len(t) = {1, 2} /\ Len(t) = 2)
      BY <3>1, <3>b
    <3>3. QED
      BY <2>2, <2>3, <3>2
  <2>5. QED
    BY <2>1, <2>2, <2>4
<1>9. seqs \in Seq(Seq(S0)) /\ Len(seqs) = Len(L)
  <2>1. \A i \in 1..Len(L) : L[i] \in S0
    BY <1>5
  <2>2. seqs \in [1..Len(L) -> Seq(S0)]
    BY <1>5, <1>7, <1>8, <2>1
  <2>3. QED
    BY <1>5, <2>2, MapIsSequence
<1>10. PairsOf(seqs, L)
  <2> SUFFICES ASSUME NEW i \in 1..Len(L)
               PROVE  Len(seqs[i]) >= 1 /\ Len(seqs[i]) <= 2 /\ Range(seqs[i]) = {L[i]}
    BY DEF PairsOf
  <2>1. L[i] \in S0 /\ seqs[i] = RowsOfRef(L[i])
    BY <1>5, <1>7
  <2>2. QED
    BY <1>8, <2>1
<1>11. PICK F : F = FlattenSeq(seqs)
  OBVIOUS
<1>12. RawRows = F
  BY <1>2, <1>7, <1>11 DEF RawRows
<1>13. PICK w : w = RawWindow(offset, limit)
  OBVIOUS
<1>14. w = 2 * (limit + offset) + 4 /\ w \in Nat
  BY <1>13 DEF RawWindow
<1>15. /\ F \in Seq(S0)
       /\ \E k \in 0..Len(L) : AmongFirst(F, w) = {L[j] : j \in 1..k} /\ (k = Len(L) \/ w <= 2 * k)
  <2>1. L \in Seq(S0) /\ Len(seqs) = Len(L) /\ w \in Nat /\ seqs \in Seq(Seq(S0))
    BY <1>5, <1>9, <1>14
  <2>2. /\ FlattenSeq(seqs) \in Seq(S0)
        /\ \E k \in 0..Len(L) : AmongFirst(FlattenSeq(seqs), w) = {L[j] : j \in 1..k}
                                /\ (k = Len(L) \/ w <= 2 * k)
    BY <1>10, <2>1, WindowHolds
  <2>3. QED
    BY <1>11, <2>2
<1>16. PICK k \in 0..Len(L) : AmongFirst(F, w) = {L[j] : j \in 1..k} /\ (k = Len(L) \/ w <= 2 * k)
  BY <1>15
<1>17. Range(Slice(F, 0, w)) = AmongFirst(F, w)
  <2>1. PICK m : m = Min({0 + w, Len(F)})
    OBVIOUS
  <2>2. m = (IF w <= Len(F) THEN w ELSE Len(F)) /\ Len(F) \in Nat
    BY <1>14, <1>15, <2>1, LesserOfTwo
  <2>3. PICK s : s = SubSeq(F, 1, m)
    OBVIOUS
  <2>4. s \in Seq(S0) /\ Len(s) = m /\ \A p \in 1..m : s[p] = F[p]
    BY <1>14, <1>15, <2>2, <2>3
  <2>5. Slice(F, 0, w) = s
    BY <2>1, <2>3 DEF Slice
  <2>6. Range(s) = {s[p] : p \in 1..m}
    BY <2>4, RangeIs
  <2>7. {q \in 1..Len(F) : q <= w} = 1..m
    BY <1>14, <2>2
  <2>8. {s[p] : p \in 1..m} = {F[p] : p \in 1..m}
    BY <2>4
  <2>9. QED
    BY <2>5, <2>6, <2>7, <2>8 DEF AmongFirst
<1>18. PICK merged : merged = SubSeq(L, 1, k)
  OBVIOUS
<1>19. /\ Ascending({L[j] : j \in 1..k}) = merged
       /\ merged \in Seq(Nat) /\ Len(merged) = k /\ \A j \in 1..k : merged[j] = L[j]
  BY <1>5, <1>6, <1>18, FirstsAscend
<1>20. AliasPage(offset, limit) = <<Slice(merged, offset, limit), k>>
  BY <1>12, <1>13, <1>16, <1>17, <1>19 DEF AliasPage
<1>21. PICK m : m = Min({offset + limit, k})
  OBVIOUS
<1>22. PICK M : M = Min({offset + limit, n})
  OBVIOUS
<1>23. /\ m = (IF offset + limit <= k THEN offset + limit ELSE k)
       /\ M = (IF offset + limit <= n THEN offset + limit ELSE n)
  BY <1>b, <1>21, <1>22, LesserOfTwo
<1>24. k \in Nat /\ k <= n /\ (k = n \/ offset + limit < k)
  <2>1. k \in 0..n /\ (k = n \/ w <= 2 * k)
    BY <1>16, <1>a
  <2>2. QED
    BY <1>14, <1>b, <2>1
<1>25. m = M /\ m \in Nat /\ m <= k
  BY <1>b, <1>23, <1>24
<1>26. SubSeq(merged, offset + 1, m) = SubSeq(L, offset + 1, m)
  <2>1. PICK a, b : a = SubSeq(merged, offset + 1, m) /\ b = SubSeq(L, offset + 1, m)
    OBVIOUS
  <2>2. PICK len : len = IF offset + 1 <= m THEN m - offset ELSE 0
    OBVIOUS
  <2>3. /\ a \in Seq(Nat) /\ Len(a) = len /\ \A i \in 1..len : a[i] = merged[offset + i]
    BY <1>19, <1>25, <2>1, <2>2
  <2>4. /\ b \in Seq(Nat) /\ Len(b) = len /\ \A i \in 1..len : b[i] = L[offset + i]
    <3>1. m \in Nat /\ m <= Len(L) /\ offset + 1 \in Nat
      BY <1>a, <1>b, <1>24, <1>25
    <3>2. b \in Seq(Nat) /\ Len(b) = len
      BY <1>6, <2>1, <2>2, <3>1
    <3>3. \A i \in 1..len : b[i] = L[offset + i]
      BY <1>6, <2>1, <2>2, <3>1
    <3>4. QED
      BY <3>2, <3>3
  <2>5. \A i \in 1..len : offset + i \in 1..k
    BY <1>24, <1>25, <2>2
  <2>6. \A i \in 1..len : a[i] = b[i]
    BY <1>19, <2>3, <2>4, <2>5
  <2>7. a = b
    BY <2>3, <2>4, <2>6
  <2>8. QED
    BY <2>1, <2>7
<1>27. Slice(merged, offset, limit) = Slice(L, offset, limit)
  BY <1>a, <1>19, <1>21, <1>22, <1>25, <1>26 DEF Slice
<1>28. offset + limit < k <=> offset + limit < n
  BY <1>b, <1>24
<1>29. QED
  BY <1>2, <1>a, <1>20, <1>27, <1>28

LEMMA AliasWindowAlways == AliasWindowSuffices
<1>1. Cardinality(EntityRefs) \in Nat
  BY RefsAreOrdered, FS_CardinalityType
<1>2. ASSUME NEW offset \in 0..Cardinality(EntityRefs), NEW limit \in 1..2
      PROVE  offset \in Nat /\ limit \in Nat
  BY <1>1, <1>2
<1>3. QED
  BY <1>2, AliasPageIs DEF AliasWindowSuffices

(* A client that follows the cursors of GET /v1/entities to the end has    *)
(* met every entity listed all the while, and none twice, whatever was     *)
(* established, invalidated or merged between the three transactions of    *)
(* its pages; a walk nothing disturbed is the listing; what SQL counts into *)
(* a scope Python serves, and the window of the alias path holds each page. *)
THEOREM EntityPagesAreTheListing == EntitySpec => []PagesAreTheListing
<1>1. WalkInv => PagesAreTheListing
  BY WalkInvCovers, ScopesAlwaysAgree, AliasWindowAlways DEF PagesAreTheListing
<1>2. QED
  BY <1>1, WalkInit, WalkStep, PTL DEF EntitySpec

================================================================================

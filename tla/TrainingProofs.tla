--------------------------- MODULE TrainingProofs ---------------------------
(***************************************************************************)
(* The cache a training reads is whole for every number of ranks, hosts    *)
(* and disks, every project and every number of crashes; every update is   *)
(* made exactly once, and results.nnp is of the best epoch.                *)
(***************************************************************************)
EXTENDS Training, FiniteSetTheorems, NaturalsInduction, WellFoundedInduction, TLAPS

Enter == <<"enter">>
Leave == <<"leave">>

-----------------------------------------------------------------------------
(* The cache of a dataset. *)

Makings == {"node", "create", "files", "leave"}
Preps == {"look", "enter", "open", "opened", "opened in part"} \cup Makings

\* A rank that waits at a barrier of the preparation is where the preparation says.
AtBarrier ==
    \A r \in Ranks : /\ asked[r] = Enter => prep[r] = "enter"
                     /\ asked[r] = Leave => prep[r] = "leave"

Disks == {conf.disks[r] : r \in Ranks}

PrepOK ==
    /\ conf \in Scenarios
    /\ crashes \in Nat
    /\ DOMAIN asked = Ranks
    /\ prep \in [Ranks -> Preps]
    /\ cache \in [Disks -> {"nothing", "directory", "index"}]
    /\ AtBarrier

\* A run all ranks of which see the same: the first, or any on one disk.
Uniform == conf.explicit /\ (crashes = 0 \/ OneDisk)

\* No rank has passed the first barrier; what a crash left may still be found whole.
Before ==
    /\ \A r \in Ranks : prep[r] \in {"look", "enter"}
    /\ crashes = 0 \/ (\E r \in Ranks : prep[r] = "enter") =>
            \A d \in Disks : cache[d] # "index"
    /\ prep[1] = "enter" => Cached(1) # "nothing"
    /\ crashes = 0 => \A d \in Disks : cache[d] = "directory" => d = conf.disks[1]

\* Between the barriers a directory that is not finished has somebody at work on it, and a
\* host whose first rank has looked has one.
During ==
    /\ \A r \in Ranks : prep[r] \in Makings
    /\ Cached(1) # "nothing"
    /\ \A d \in Disks : cache[d] = "directory" =>
            \E r \in Ranks : /\ conf.disks[r] = d
                             /\ \/ prep[r] \in {"create", "files"}
                                \/ r = 1 /\ prep[r] = "node"
    /\ \A r \in Ranks : LocalRankZero(r) /\ prep[r] # "node" => Cached(r) # "nothing"

\* The caches are there.
After ==
    /\ \A r \in Ranks : prep[r] \in {"look", "open", "opened"} /\ Cached(r) = "index"
    /\ crashes = 0 => \A r \in Ranks : prep[r] # "look"

\* The one process that makes its cache when it opens it.
Alone ==
    \/ prep[1] = "look" /\ Cached(1) = "nothing"
    \/ prep[1] = "open" /\ PerEpoch = 0
    \/ prep[1] \in {"create", "files", "opened"}

CacheInv ==
    /\ PrepOK
    /\ Uniform => Before \/ During \/ After
    /\ ~conf.explicit /\ crashes = 0 => Alone

\* The barriers are told apart, and from the collectives of the training.
LEMMA BarriersDiffer ==
    /\ Enter # Leave /\ Enter # NoCall /\ Leave # NoCall
    /\ \A what, i, k : <<what, i, k>> # Enter /\ <<what, i, k>> # Leave
BY DEF Enter, Leave, NoCall

\* Ranks are numbered from 1.
LEMMA RankSet ==
    ASSUME conf \in Scenarios
    PROVE  /\ 1 \in Ranks /\ Ranks \subseteq Nat \ {0}
           /\ \A r, s \in Ranks : conf.hosts[r] = conf.hosts[s] => conf.disks[r] = conf.disks[s]
           /\ ~conf.explicit => Ranks = {1}
BY ClusterAssumption DEF Ranks

\* An epoch has a number of iterations on each rank, maybe none.
LEMMA PerEpochNat ==
    ASSUME conf \in Scenarios
    PROVE  PerEpoch \in Nat
<1>1. IsFiniteSet(Ranks) /\ Ranks # {}
  <2>1. PICK n \in Nat : Ranks = 1..n
    BY ClusterAssumption DEF Ranks
  <2>2. IsFiniteSet(1..n)
    BY <2>1, FS_Interval
  <2> QED
    BY <2>1, <2>2, RankSet
<1>2. Size \in Nat \ {0}
  BY <1>1, FS_CardinalityType, FS_EmptySet DEF Size
<1>3. conf.perEpoch \in Nat
  BY ClusterAssumption
<1>4. \A a \in Nat, b \in Nat \ {0} : a \div b \in Nat
  OBVIOUS
<1> QED
  BY <1>2, <1>3, <1>4 DEF PerEpoch

\* A host has a first rank.
LEMMA FirstOfHost ==
    ASSUME conf \in Scenarios, NEW r \in Ranks
    PROVE  \E z \in Ranks : conf.hosts[z] = conf.hosts[r] /\ LocalRankZero(z)
<1> DEFINE T == {s \in Ranks : conf.hosts[s] = conf.hosts[r]}
<1>1. T \subseteq Nat /\ T # {}
  BY RankSet
<1>2. PICK z \in T : \A y \in T : ~(<<y, z>> \in OpToRel(<, Nat))
  BY <1>1, NatLessThanWellFounded, WFMin, Zenon
<1>3. \A y \in T : ~(y < z)
  BY <1>1, <1>2 DEF OpToRel
<1>4. \A y \in T : z <= y
  BY <1>1, <1>3
<1> QED
  BY <1>4 DEF LocalRankZero

\* The scenario stays, and what is read from it.
LEMMA SameScenario ==
    ASSUME UNCHANGED conf
    PROVE  Ranks' = Ranks /\ Disks' = Disks /\ PerEpoch' = PerEpoch
           /\ (OneDisk' <=> OneDisk) /\ (\A r \in Ranks : LocalRankZero(r)' <=> LocalRankZero(r))
BY DEF Ranks, Disks, PerEpoch, Size, OneDisk, LocalRankZero

States == {"nothing", "directory", "index"}

\* A rank takes a step of its own.
LEMMA OnePrep ==
    ASSUME PrepOK, UNCHANGED <<conf, crashes>>, NEW r \in Ranks, NEW p \in Preps,
           prep' = [prep EXCEPT ![r] = p],
           \/ UNCHANGED cache
           \/ \E x \in States : cache' = [cache EXCEPT ![conf.disks[r]] = x],
           \/ UNCHANGED asked /\ prep[r] \notin {"enter", "leave"}
           \/ Calls(r, Enter) /\ p = "enter"
           \/ Calls(r, Leave) /\ p = "leave"
    PROVE  PrepOK'
<1>1. Ranks' = Ranks /\ Disks' = Disks
  BY SameScenario
<1>2. prep' \in [Ranks -> Preps]
  BY DEF PrepOK
<1>3. cache' \in [Disks -> States]
  <2>1. conf.disks[r] \in Disks
    BY DEF Disks
  <2> QED
    BY <2>1 DEF PrepOK, States
<1>4. DOMAIN asked' = Ranks
  BY DEF PrepOK, Calls
<1>5. ASSUME NEW s \in Ranks
      PROVE  (asked'[s] = Enter => prep'[s] = "enter") /\ (asked'[s] = Leave => prep'[s] = "leave")
  <2>1. (asked[s] = Enter => prep[s] = "enter") /\ (asked[s] = Leave => prep[s] = "leave")
    BY DEF PrepOK, AtBarrier
  <2>2. s # r => prep'[s] = prep[s]
    BY DEF PrepOK
  <2>3. prep'[r] = p
    BY DEF PrepOK
  <2>4. \A c : Calls(r, c) => (asked'[r] = c /\ (s # r => asked'[s] = asked[s]))
    BY DEF PrepOK, Calls
  <2> QED
    BY <2>1, <2>2, <2>3, <2>4, BarriersDiffer, Zenon
<1> QED
  BY <1>1, <1>2, <1>3, <1>4, <1>5 DEF PrepOK, AtBarrier, States

\* All ranks come back from a barrier.
LEMMA AllPrep ==
    ASSUME PrepOK, UNCHANGED <<conf, crashes, cache>>, NEW p \in Preps,
           prep' = [r \in Ranks |-> p], AllReturn
    PROVE  PrepOK'
<1>1. Ranks' = Ranks /\ Disks' = Disks
  BY SameScenario
<1>2. asked' = [r \in Ranks |-> NoCall]
  BY DEF PrepOK, AllReturn
<1> QED
  BY <1>1, <1>2, BarriersDiffer DEF PrepOK, AtBarrier

\* The preparation stays well typed, and who waits, waits where it says.
LEMMA PrepTyped ==
    ASSUME PrepOK, Prepare, UNCHANGED crashes
    PROVE  PrepOK'
<1> USE DEF Preps, Makings, States
<1>1. ASSUME NEW r \in Ranks, LookForCache(r) PROVE PrepOK'
  BY <1>1, OnePrep DEF LookForCache, Enter
<1>2. ASSUME NEW r \in Ranks, LookForDirectory(r) PROVE PrepOK'
  BY <1>2, OnePrep DEF LookForDirectory
<1>3. CASE EnterTogether
  BY <1>3, AllPrep DEF EnterTogether
<1>4. ASSUME NEW r \in Ranks, CheckNode(r) PROVE PrepOK'
  BY <1>4, OnePrep DEF CheckNode, Leave
<1>5. ASSUME NEW r \in Ranks, WriteCacheFiles(r) PROVE PrepOK'
  BY <1>5, OnePrep DEF WriteCacheFiles
<1>6. ASSUME NEW r \in Ranks, WriteCacheIndex(r) PROVE PrepOK'
  BY <1>6, OnePrep DEF WriteCacheIndex, Leave
<1>7. CASE LeaveTogether
  BY <1>7, AllPrep DEF LeaveTogether
<1>8. ASSUME NEW r \in Ranks, OpenCache(r) PROVE PrepOK'
  BY <1>8, OnePrep DEF OpenCache
<1> QED
  BY <1>1, <1>2, <1>3, <1>4, <1>5, <1>6, <1>7, <1>8 DEF Prepare

\* The invariant of a preparation that is the same for all ranks.
Phase == Before \/ During \/ After

\* Ranks, disks and what is in them.
LEMMA World ==
    ASSUME PrepOK, UNCHANGED conf
    PROVE  /\ Ranks' = Ranks /\ Disks' = Disks /\ 1 \in Ranks
           /\ \A s \in Ranks : conf.disks[s] \in Disks /\ cache[conf.disks[s]] \in States
           /\ \A d \in Disks : cache[d] \in States
<1>1. \A s \in Ranks : conf.disks[s] \in Disks
  BY DEF Disks
<1>2. \A d \in Disks : cache[d] \in States
  BY DEF PrepOK, States
<1> QED
  BY <1>1, <1>2, SameScenario, RankSet DEF PrepOK

LEMMA LookForCachePhase ==
    ASSUME PrepOK, Uniform, Phase, NEW r \in Ranks, LookForCache(r), UNCHANGED crashes
    PROVE  Phase'
<1>0. /\ UNCHANGED conf /\ Ranks' = Ranks /\ Disks' = Disks /\ 1 \in Ranks
      /\ \A s \in Ranks : conf.disks[s] \in Disks /\ cache[conf.disks[s]] \in States
      /\ \A d \in Disks : cache[d] \in States
  BY World DEF LookForCache
<1>1. CASE Cached(r) = "index"
  <2>1. /\ prep[r] = "look" /\ cache' = cache
        /\ \A s \in Ranks : prep'[s] = IF s = r THEN "open" ELSE prep[s]
    BY <1>1 DEF LookForCache, IsThere, PrepOK
  <2>2. CASE Before
    <3>1. crashes # 0 /\ \A s \in Ranks : prep[s] = "look"
      BY <1>0, <1>1, <2>2 DEF Before, Cached
    <3>2. \A s \in Ranks : Cached(s) = "index"
      BY <1>1, <3>1 DEF Uniform, OneDisk, Cached
    <3>3. After'
      BY <1>0, <2>1, <3>1, <3>2 DEF After, Cached
    <3> QED
      BY <3>3 DEF Phase
  <2>3. CASE During
    BY <2>1, <2>3 DEF During, Makings
  <2>4. CASE After
    <3>1. After'
      BY <1>0, <2>1, <2>4 DEF After, Cached
    <3> QED
      BY <3>1 DEF Phase
  <2> QED
    BY <2>2, <2>3, <2>4 DEF Phase
<1>2. CASE Cached(r) # "index"
  <2>1. /\ prep[r] = "look"
        /\ \A s \in Ranks : prep'[s] = IF s = r THEN "enter" ELSE prep[s]
    BY <1>2 DEF LookForCache, IsThere, PrepOK
  <2>2. \/ cache' = cache /\ (r = 1 => Cached(1) # "nothing")
        \/ /\ r = 1 /\ Cached(1) = "nothing"
           /\ \A d \in Disks : cache'[d] = IF d = conf.disks[1] THEN "directory" ELSE cache[d]
    BY <1>2 DEF LookForCache, IsThere, PrepOK
  <2>3. Before
    BY <1>2, <2>1 DEF Phase, During, After, Makings
  <2>4. \A d \in Disks : cache[d] # "index"
    <3>1. CASE crashes = 0
      BY <2>3, <3>1 DEF Before
    <3>2. CASE OneDisk
      BY <1>2, <3>2 DEF OneDisk, Disks, Cached
    <3> QED
      BY <3>1, <3>2 DEF Uniform
  <2>5. Before'
    <3>1. \A s \in Ranks : prep'[s] \in {"look", "enter"}
      BY <2>1, <2>3 DEF Before
    <3>2. \A d \in Disks : cache'[d] # "index"
      BY <2>2, <2>4
    <3>3. prep'[1] = "enter" => cache'[conf.disks[1]] # "nothing"
      BY <1>0, <2>1, <2>2, <2>3 DEF Before, Cached
    <3>4. crashes = 0 => \A d \in Disks : cache'[d] = "directory" => d = conf.disks[1]
      BY <2>2, <2>3 DEF Before
    <3> QED
      BY <1>0, <3>1, <3>2, <3>3, <3>4 DEF Before, Cached
  <2> QED
    BY <2>5 DEF Phase
<1> QED
  BY <1>1, <1>2

LEMMA EnterPhase ==
    ASSUME PrepOK, Uniform, Phase, EnterTogether, UNCHANGED crashes
    PROVE  Phase'
<1>0. /\ UNCHANGED <<conf, cache>> /\ Ranks' = Ranks /\ Disks' = Disks /\ 1 \in Ranks
      /\ \A s \in Ranks : conf.disks[s] \in Disks
      /\ \A d \in Disks : cache[d] \in States
  BY World DEF EnterTogether
<1>1. \A s \in Ranks : prep[s] = "enter"
  BY DEF EnterTogether, AllIn, PrepOK, AtBarrier, Enter
<1>2. \A s \in Ranks : prep'[s] = "node"
  BY DEF EnterTogether
<1>3. Before
  BY <1>0, <1>1 DEF Phase, During, After, Makings
<1>4. Cached(1) # "nothing"
  BY <1>0, <1>1, <1>3 DEF Before
<1>5. ASSUME NEW d \in Disks, cache[d] = "directory" PROVE d = conf.disks[1]
  <2>1. CASE OneDisk
    BY <1>0, <2>1 DEF OneDisk, Disks
  <2>2. CASE crashes = 0
    BY <1>3, <1>5, <2>2 DEF Before
  <2> QED
    BY <2>1, <2>2 DEF Uniform
<1>6. During'
  BY <1>0, <1>2, <1>4, <1>5 DEF During, Makings, Cached
<1> QED
  BY <1>6 DEF Phase

\* Between the barriers.
LEMMA MakingPhase ==
    ASSUME PrepOK, Uniform, Phase, UNCHANGED crashes, NEW r \in Ranks,
           CheckNode(r) \/ WriteCacheFiles(r) \/ WriteCacheIndex(r)
    PROVE  Phase'
<1>0. /\ UNCHANGED conf /\ Ranks' = Ranks /\ Disks' = Disks /\ 1 \in Ranks
      /\ \A s \in Ranks : conf.disks[s] \in Disks /\ cache[conf.disks[s]] \in States
      /\ \A d \in Disks : cache[d] \in States
  BY World DEF CheckNode, WriteCacheFiles, WriteCacheIndex
<1>1. prep[r] \in {"node", "create", "files"}
  BY DEF CheckNode, WriteCacheFiles, WriteCacheIndex
<1>2. During
  BY <1>1 DEF Phase, Before, After
<1>3. PICK p \in Makings, x \in States :
        /\ \A s \in Ranks : prep'[s] = IF s = r THEN p ELSE prep[s]
        /\ \A d \in Disks : cache'[d] = IF d = conf.disks[r] THEN x ELSE cache[d]
        /\ x # "nothing" \/ (x = Cached(r) /\ p # "node" /\ ~LocalRankZero(r))
        /\ x = "directory" => p \in {"create", "files"} \/ (x = Cached(r) /\ r # 1 /\ prep[r] = "node")
  <2>1. CASE CheckNode(r)
    <3>1. CASE r = 1 \/ (LocalRankZero(r) /\ Cached(r) = "nothing")
      <4>1. \A s \in Ranks : prep'[s] = IF s = r THEN "create" ELSE prep[s]
        <5>1. prep' = [prep EXCEPT ![r] = "create"]
          BY <2>1, <3>1 DEF CheckNode
        <5> QED
          BY <5>1 DEF PrepOK
      <4>2. CASE r = 1
        <5>1. \A d \in Disks : cache'[d] = IF d = conf.disks[r] THEN Cached(r) ELSE cache[d]
          BY <2>1, <4>2 DEF CheckNode, Cached
        <5>2. Cached(r) \in States /\ Cached(r) # "nothing"
          BY <1>0, <1>2, <4>2 DEF During, Cached
        <5> QED
          BY <4>1, <5>1, <5>2 DEF Makings
      <4>3. CASE r # 1
        <5>1. \A d \in Disks : cache'[d] = IF d = conf.disks[r] THEN "directory" ELSE cache[d]
          <6>1. cache' = [cache EXCEPT ![conf.disks[r]] = "directory"]
            BY <2>1, <3>1, <4>3 DEF CheckNode
          <6> QED
            BY <6>1 DEF PrepOK
        <5> QED
          BY <4>1, <5>1 DEF Makings, States
      <4> QED
        BY <4>2, <4>3
    <3>2. CASE ~(r = 1 \/ (LocalRankZero(r) /\ Cached(r) = "nothing"))
      <4>1. \A s \in Ranks : prep'[s] = IF s = r THEN "leave" ELSE prep[s]
        <5>1. prep' = [prep EXCEPT ![r] = "leave"]
          BY <2>1, <3>2 DEF CheckNode
        <5> QED
          BY <5>1 DEF PrepOK
      <4>2. \A d \in Disks : cache'[d] = IF d = conf.disks[r] THEN Cached(r) ELSE cache[d]
        BY <2>1, <3>2 DEF CheckNode, Cached
      <4>3. Cached(r) \in States /\ prep[r] = "node"
        BY <1>0, <2>1 DEF Cached, CheckNode
      <4> QED
        BY <3>2, <4>1, <4>2, <4>3 DEF Makings
    <3> QED
      BY <3>1, <3>2
  <2>2. CASE WriteCacheFiles(r)
    <3>1. /\ \A s \in Ranks : prep'[s] = IF s = r THEN "files" ELSE prep[s]
          /\ \A d \in Disks : cache'[d] = IF d = conf.disks[r] THEN "directory" ELSE cache[d]
      <4>1. /\ prep' = [prep EXCEPT ![r] = "files"]
            /\ cache' = [cache EXCEPT ![conf.disks[r]] = "directory"]
        BY <2>2 DEF WriteCacheFiles
      <4> QED
        BY <4>1 DEF PrepOK
    <3> QED
      BY <3>1 DEF Makings, States
  <2>3. CASE WriteCacheIndex(r)
    <3>1. /\ \A s \in Ranks : prep'[s] = IF s = r THEN "leave" ELSE prep[s]
          /\ \A d \in Disks : cache'[d] = IF d = conf.disks[r] THEN "index" ELSE cache[d]
      <4>1. /\ prep' = [prep EXCEPT ![r] = "leave"]
            /\ cache' = [cache EXCEPT ![conf.disks[r]] = "index"]
        BY <2>3 DEF WriteCacheIndex, Uniform
      <4> QED
        BY <4>1 DEF PrepOK
    <3> QED
      BY <3>1 DEF Makings, States
  <2> QED
    BY <2>1, <2>2, <2>3
<1>4. \A d \in Disks : cache[d] # "nothing" => cache'[d] # "nothing"
  BY <1>3 DEF Cached
<1>5. ASSUME NEW d \in Disks, cache'[d] = "directory"
      PROVE  \E s \in Ranks : /\ conf.disks[s] = d
                              /\ prep'[s] \in {"create", "files"} \/ (s = 1 /\ prep'[s] = "node")
  <2>1. CASE d = conf.disks[r] /\ p \in {"create", "files"}
    BY <1>3, <2>1
  <2>2. CASE d # conf.disks[r] \/ (x = Cached(r) /\ r # 1 /\ prep[r] = "node")
    <3>1. cache[d] = "directory"
      BY <1>3, <1>5, <2>2 DEF Cached
    <3>2. PICK s \in Ranks : /\ conf.disks[s] = d
                             /\ prep[s] \in {"create", "files"} \/ (s = 1 /\ prep[s] = "node")
      BY <1>2, <3>1 DEF During
    <3>3. s # r
      BY <2>2, <3>2
    <3> QED
      BY <1>3, <3>2, <3>3
  <2> QED
    BY <1>3, <1>5, <2>1, <2>2
<1>6. ASSUME NEW s \in Ranks, LocalRankZero(s), prep'[s] # "node"
      PROVE  cache'[conf.disks[s]] # "nothing"
  <2>1. CASE s = r
    BY <1>0, <1>3, <1>6, <2>1
  <2>2. CASE s # r
    BY <1>0, <1>2, <1>3, <1>4, <1>6, <2>2 DEF During, Cached
  <2> QED
    BY <2>1, <2>2
<1>7. During'
  <2>1. \A s \in Ranks : LocalRankZero(s)' <=> LocalRankZero(s)
    BY <1>0, SameScenario
  <2>2. \A s \in Ranks : prep'[s] \in Makings
    BY <1>2, <1>3 DEF During
  <2>3. cache'[conf.disks[1]] # "nothing"
    BY <1>0, <1>2, <1>4 DEF During, Cached
  <2> QED
    BY <1>0, <1>5, <1>6, <2>1, <2>2, <2>3 DEF During, Cached
<1> QED
  BY <1>7 DEF Phase

LEMMA LeavePhase ==
    ASSUME PrepOK, Uniform, Phase, LeaveTogether, UNCHANGED crashes
    PROVE  Phase'
<1>0. /\ UNCHANGED <<conf, cache>> /\ Ranks' = Ranks /\ Disks' = Disks /\ 1 \in Ranks
      /\ \A s \in Ranks : conf.disks[s] \in Disks
      /\ \A d \in Disks : cache[d] \in States
  BY World DEF LeaveTogether
<1>1. \A s \in Ranks : prep[s] = "leave"
  BY DEF LeaveTogether, AllIn, PrepOK, AtBarrier, Leave
<1>2. \A s \in Ranks : prep'[s] = "open"
  BY DEF LeaveTogether
<1>3. During
  BY <1>0, <1>1 DEF Phase, Before, After
<1>4. ASSUME NEW r \in Ranks PROVE Cached(r) = "index"
  <2>1. PICK z \in Ranks : conf.hosts[z] = conf.hosts[r] /\ LocalRankZero(z)
    BY FirstOfHost DEF PrepOK
  <2>2. conf.disks[z] = conf.disks[r]
    BY <2>1, RankSet DEF PrepOK
  <2>3. Cached(r) # "nothing"
    BY <1>1, <1>3, <2>1, <2>2 DEF During, Cached
  <2>4. Cached(r) # "directory"
    BY <1>0, <1>1, <1>3 DEF During, Cached
  <2> QED
    BY <1>0, <2>3, <2>4 DEF Cached, States
<1>5. After'
  BY <1>0, <1>2, <1>4 DEF After, Cached
<1> QED
  BY <1>5 DEF Phase

LEMMA OpenPhase ==
    ASSUME PrepOK, Uniform, Phase, NEW r \in Ranks, OpenCache(r), UNCHANGED crashes
    PROVE  Phase'
<1>0. UNCHANGED <<conf, cache>> /\ Ranks' = Ranks /\ prep[r] = "open"
  BY World DEF OpenCache
<1>1. After
  BY <1>0 DEF Phase, Before, During, Makings
<1>2. \A s \in Ranks : prep'[s] = IF s = r THEN "opened" ELSE prep[s]
  <2>1. prep' = [prep EXCEPT ![r] = "opened"]
    BY <1>1 DEF OpenCache, After
  <2> QED
    BY <2>1 DEF PrepOK
<1>3. After'
  BY <1>0, <1>1, <1>2 DEF After, Cached
<1> QED
  BY <1>3 DEF Phase

\* Without a communicator there is one process, and in its first run nothing was there before.
LEMMA AloneStep ==
    ASSUME PrepOK, ~conf.explicit, Alone, Prepare, UNCHANGED crashes
    PROVE  Alone'
<1>1. Ranks = {1}
  BY RankSet DEF PrepOK
<1>2. UNCHANGED conf
  BY DEF Prepare, LookForCache, LookForDirectory, CheckNode, WriteCacheFiles, WriteCacheIndex,
         OpenCache, EnterTogether, LeaveTogether
<1>3. PerEpoch' = PerEpoch
  BY <1>2, SameScenario
<1>4. CASE LookForCache(1)
  BY <1>4 DEF LookForCache
<1>5. CASE LookForDirectory(1)
  <2>1. CASE Cached(1) = "nothing" /\ PerEpoch > 0
    <3>1. prep' = [prep EXCEPT ![1] = "create"]
      BY <1>5, <2>1 DEF LookForDirectory
    <3> QED
      BY <1>1, <3>1 DEF PrepOK, Alone
  <2>2. CASE Cached(1) = "nothing" /\ ~(PerEpoch > 0)
    <3>1. prep' = [prep EXCEPT ![1] = "open"]
      BY <1>5, <2>2 DEF LookForDirectory
    <3>2. PerEpoch = 0
      BY <2>2, PerEpochNat DEF PrepOK
    <3> QED
      BY <1>1, <1>3, <3>1, <3>2 DEF PrepOK, Alone
  <2> QED
    BY <1>5, <2>1, <2>2 DEF LookForDirectory, Alone
<1>6. CASE EnterTogether
  <2>1. prep[1] = "enter"
    BY <1>1, <1>6 DEF EnterTogether, AllIn, PrepOK, AtBarrier, Enter
  <2> QED
    BY <2>1 DEF Alone
<1>7. CASE CheckNode(1)
  BY <1>7 DEF CheckNode, Alone
<1>8. CASE WriteCacheFiles(1)
  BY <1>1, <1>8 DEF WriteCacheFiles, Alone, PrepOK
<1>9. CASE WriteCacheIndex(1)
  BY <1>1, <1>9 DEF WriteCacheIndex, Alone, PrepOK
<1>10. CASE LeaveTogether
  <2>1. prep[1] = "leave"
    BY <1>1, <1>10 DEF LeaveTogether, AllIn, PrepOK, AtBarrier, Leave
  <2> QED
    BY <2>1 DEF Alone
<1>11. CASE OpenCache(1)
  <2>1. prep[1] = "open" /\ PerEpoch = 0 /\ PerEpoch > 0
    BY <1>11 DEF OpenCache, Alone
  <2> QED
    BY <2>1
<1> QED
  BY <1>1, <1>4, <1>5, <1>6, <1>7, <1>8, <1>9, <1>10, <1>11 DEF Prepare

LEMMA CacheStep ==
    ASSUME CacheInv, Prepare, UNCHANGED crashes
    PROVE  CacheInv'
<1>1. PrepOK'
  BY PrepTyped DEF CacheInv
<1>2. UNCHANGED conf
  BY DEF Prepare, LookForCache, LookForDirectory, CheckNode, WriteCacheFiles, WriteCacheIndex,
         OpenCache, EnterTogether, LeaveTogether
<1>3. Uniform' <=> Uniform
  BY <1>2, SameScenario DEF Uniform
<1>4. Uniform => Phase'
  <2> SUFFICES ASSUME Uniform PROVE Phase'
    OBVIOUS
  <2>1. PrepOK /\ Phase
    BY DEF CacheInv, Phase
  <2>2. ~(\E r \in Ranks : LookForDirectory(r))
    BY DEF LookForDirectory, Uniform
  <2> QED
    BY <2>1, <2>2, LookForCachePhase, EnterPhase, MakingPhase, LeavePhase, OpenPhase DEF Prepare
<1>5. ~conf.explicit /\ crashes = 0 => Alone'
  BY AloneStep DEF CacheInv
<1> QED
  BY <1>1, <1>2, <1>3, <1>4, <1>5 DEF CacheInv, Phase

\* A collective of the training is none of the barriers.
Collective(c) == c # Enter /\ c # Leave

\* The training leaves the caches alone.
LEMMA TrainKeepsCache ==
    ASSUME CacheInv, UNCHANGED <<conf, cache, prep, crashes>>,
           \/ UNCHANGED asked
           \/ AllReturn
           \/ \E r \in Ranks : \E c : Collective(c) /\ Calls(r, c)
    PROVE  CacheInv'
<1>1. /\ Ranks' = Ranks /\ Disks' = Disks /\ PerEpoch' = PerEpoch /\ (OneDisk' <=> OneDisk)
      /\ \A r \in Ranks : LocalRankZero(r)' <=> LocalRankZero(r)
  BY SameScenario
<1>2. AtBarrier' /\ DOMAIN asked' = Ranks
  <2>1. AtBarrier /\ DOMAIN asked = Ranks
    BY DEF CacheInv, PrepOK
  <2>2. CASE UNCHANGED asked
    BY <1>1, <2>1, <2>2 DEF AtBarrier
  <2>3. CASE AllReturn
    BY <1>1, <2>1, <2>3, BarriersDiffer DEF AtBarrier, AllReturn
  <2>4. ASSUME NEW r \in Ranks, NEW c, Collective(c), Calls(r, c) PROVE AtBarrier' /\ DOMAIN asked' = Ranks
    BY <1>1, <2>1, <2>4 DEF AtBarrier, Calls, Collective
  <2> QED
    BY <2>2, <2>3, <2>4
<1>3. PrepOK'
  BY <1>1, <1>2 DEF CacheInv, PrepOK
<1>4. (Before' <=> Before) /\ (After' <=> After) /\ (Alone' <=> Alone) /\ (Uniform' <=> Uniform)
  BY <1>1 DEF Before, After, Alone, Uniform, Cached
<1>5. During' <=> During
  BY <1>1 DEF During, Cached
<1> QED
  BY <1>3, <1>4, <1>5 DEF CacheInv

LEMMA CrashKeepsCache ==
    ASSUME CacheInv, Crash
    PROVE  CacheInv'
<1>1. Ranks' = Ranks /\ Disks' = Disks /\ (OneDisk' <=> OneDisk) /\ 1 \in Ranks
  BY SameScenario, RankSet DEF Crash, CacheInv, PrepOK
<1>2. crashes' \in Nat \ {0}
  BY DEF Crash, CacheInv, PrepOK
<1>3. \A r \in Ranks : prep'[r] = "look" /\ asked'[r] = NoCall
  BY DEF Crash
<1>4. PrepOK'
  <2>1. prep' \in [Ranks -> Preps] /\ DOMAIN asked' = Ranks
    BY DEF Crash, Preps
  <2>2. AtBarrier'
    BY <1>1, <1>3, BarriersDiffer DEF AtBarrier
  <2> QED
    BY <1>1, <1>2, <2>1, <2>2 DEF CacheInv, PrepOK, Crash
<1>5. Before'
  BY <1>1, <1>2, <1>3 DEF Before
<1> QED
  BY <1>2, <1>4, <1>5 DEF CacheInv

\* What a step of the training changes of the rest.
LEMMA TrainFrame ==
    ASSUME NEW r \in Ranks, Train(r)
    PROVE  /\ UNCHANGED <<conf, cache, prep, crashes>>
           /\ \/ UNCHANGED asked
              \/ \E c : Collective(c) /\ Calls(r, c)
<1> USE DEF Local, Same
<1>1. \A what, i, k : Collective(<<what, i, k>>)
  BY BarriersDiffer DEF Collective
<1>2. CASE Begin(r) \/ SaveUntrained(r) \/ SkipOptimizer(r)
  BY <1>2 DEF Begin, SaveUntrained, SkipOptimizer
<1>3. CASE MonitorLoss(r)
  BY <1>1, <1>3 DEF MonitorLoss
<1>4. CASE Step(r)
  BY <1>1, <1>4 DEF Step
<1>5. CASE ApplyUpdate(r) \/ ReserveLoss(r)
  BY <1>5 DEF ApplyUpdate, ReserveLoss
<1>6. CASE EndUpdate(r)
  BY <1>1, <1>6 DEF EndUpdate
<1>7. CASE Fail(r) \/ Continue(r) \/ EndEpoch(r)
  BY <1>7 DEF Fail, Continue, EndEpoch
<1>8. CASE MonitorError(r)
  BY <1>1, <1>8 DEF MonitorError
<1>9. CASE ForwardMonitor(r) \/ Judge(r) \/ OpenBest(r) \/ CloseBest(r)
  BY <1>9 DEF ForwardMonitor, Judge, OpenBest, CloseBest
<1>10. CASE Report(r) \/ Unlink(r) \/ OpenCurrent(r) \/ CloseCurrent(r) \/ CheckTrainingTime(r)
  BY <1>10 DEF Report, Unlink, OpenCurrent, CloseCurrent, CheckTrainingTime
<1> QED
  BY <1>2, <1>3, <1>4, <1>5, <1>6, <1>7, <1>8, <1>9, <1>10 DEF Train

LEMMA TogetherFrame ==
    ASSUME Together
    PROVE  UNCHANGED <<conf, cache, prep, crashes, disk>> /\ AllReturn
BY DEF Together, SumCost, ReduceGradients, SumError, Same

LEMMA CacheInit == Init => CacheInv
<1> SUFFICES ASSUME Init PROVE CacheInv
  OBVIOUS
<1>1. conf \in Scenarios /\ crashes = 0 /\ 1 \in Ranks
  BY RankSet DEF Init
<1>2. prep = [r \in Ranks |-> "look"] /\ asked = [r \in Ranks |-> NoCall]
      /\ cache = [d \in Disks |-> "nothing"]
  BY DEF Init, PrepareInit, Disks
<1>3. PrepOK
  BY <1>1, <1>2, BarriersDiffer DEF PrepOK, AtBarrier, Preps
<1>4. Before
  BY <1>1, <1>2 DEF Before
<1>5. Cached(1) = "nothing" /\ prep[1] = "look"
  BY <1>1, <1>2 DEF Cached, Disks
<1> QED
  BY <1>3, <1>4, <1>5 DEF CacheInv, Alone

LEMMA CacheNext == CacheInv /\ [Next]_vars => CacheInv'
<1> SUFFICES ASSUME CacheInv, [Next]_vars PROVE CacheInv'
  OBVIOUS
<1>1. CASE Prepare /\ UNCHANGED <<rank, disk, crashes>>
  BY <1>1, CacheStep
<1>2. ASSUME NEW r \in Ranks, Train(r) PROVE CacheInv'
  BY <1>2, TrainFrame, TrainKeepsCache
<1>3. CASE Together
  BY <1>3, TogetherFrame, TrainKeepsCache
<1>4. CASE Crash
  BY <1>4, CrashKeepsCache
<1>5. CASE UNCHANGED vars
  BY <1>5, TrainKeepsCache DEF vars
<1> QED
  BY <1>1, <1>2, <1>3, <1>4, <1>5 DEF Next, Run

\* The caches are what the ranks think they are, always.
THEOREM CacheAlways == Spec => []CacheInv
BY CacheInit, CacheNext, PTL DEF Spec

\* Nobody trains on a part of a cache, whatever the number of ranks, hosts and disks, but after
\* a crash where nodes have disks of their own or only the directory is looked for
\* (_create_dataset).
THEOREM CacheHolds == Spec => []CacheIsWhole
<1>0. \A n \in Nat : n # 0 => n > 0
  OBVIOUS
<1>1. CacheInv => CacheIsWhole
  <2> SUFFICES ASSUME CacheInv, NEW r \in Ranks, prep[r] = "opened in part"
               PROVE  crashes > 0 /\ ~(conf.explicit /\ OneDisk)
    BY DEF CacheIsWhole
  <2>1. ~Uniform
    BY DEF CacheInv, Before, During, After, Makings
  <2>2. crashes \in Nat /\ conf \in Scenarios
    BY DEF CacheInv, PrepOK
  <2>3. CASE ~conf.explicit
    <3>1. r = 1
      BY <2>2, <2>3, RankSet
    <3>2. ~Alone
      BY <3>1 DEF Alone
    <3>3. crashes # 0
      BY <2>3, <3>2 DEF CacheInv
    <3>4. crashes > 0
      BY <1>0, <2>2, <3>3, Zenon
    <3> QED
      BY <2>3, <3>4, Zenon
  <2>4. CASE conf.explicit
    <3>1. crashes # 0 /\ ~OneDisk
      BY <2>1, <2>4 DEF Uniform
    <3>2. crashes > 0
      BY <1>0, <2>2, <3>1, Zenon
    <3> QED
      BY <3>1, <3>2, Zenon
  <2> QED
    BY <2>3, <2>4
<1> QED
  BY <1>1, CacheAlways, PTL
-----------------------------------------------------------------------------
(* The state of a rank. *)

Fields == {"pc", "iter", "from", "turn", "first", "pending", "sumIteration", "sumEpoch",
           "numIteration", "held", "grads", "applied", "states", "batch", "errors", "count",
           "average", "best", "judged", "saved", "then"}

Number == Len(conf.opts)

InTurn == {"step", "reduce", "apply", "reserve"}
Saving == {"best", "close best", "saved", "unlink", "open", "close"}
EndingEpoch == {"evaluate", "sum error", "forward", "judge", "report"} \cup Saving
Pcs == {"start", "turn", "sum cost", "updated"} \cup InTurn \cup EndingEpoch \cup Ended

\* An update is made in these iterations by these optimizers.
IsDue(i, k) == /\ i \in 0..(MaxIteration - 1)
               /\ k \in Turns
               /\ Active(Opt(k), i)
               /\ Due(Opt(k), i)

Past(i, k, iter, turn) == i < iter \/ (i = iter /\ k < turn)

\* The updates A are those before a turn of an iteration, each once.
Exact(A, iter, turn) ==
    /\ \A u \in A : IsDue(u.iter, u.turn) /\ Past(u.iter, u.turn, iter, turn)
    /\ \A i, k : IsDue(i, k) /\ Past(i, k, iter, turn) =>
            \E u \in A : u.iter = i /\ u.turn = k
    /\ \A u, v \in A : u.iter = v.iter /\ u.turn = v.turn => u = v

\* The states S are those of the updates A since the beginning of an epoch.
Recent(A, S, iter) ==
    \E epoch \in 0..conf.maxEpoch :
        /\ epoch * PerEpoch <= iter
        /\ S = {u \in A : u.iter >= epoch * PerEpoch}

NextTurnOf(R) == IF R.pc = "reserve" THEN R.turn + 1 ELSE R.turn

Typed(R) ==
    /\ DOMAIN R = Fields
    /\ R.pc \in Pcs
    /\ R.iter \in 0..MaxIteration
    /\ R.turn \in 1..(Number + 1)
    /\ R.pending \in {0} \cup Turns
    /\ R.judged \in Seq(Int) /\ R.best \in Int

\* A rank of a training with iterations.
Trained(R) ==
    /\ R.pc \notin {"start"} \cup Ended => R.iter < MaxIteration
    /\ R.pc \in InTurn => R.turn \in Turns /\ Active(Opt(R.turn), R.iter)
    /\ R.pc \in {"reduce", "apply"} => Due(Opt(R.turn), R.iter)
    /\ R.pc = "sum cost" /\ R.turn \in Turns => Active(Opt(R.turn), R.iter)
    /\ R.pc = "sum cost" /\ R.turn \notin Turns => EndsEpoch(R.iter)
    /\ R.pc \in {"updated"} \cup EndingEpoch => R.turn = Number + 1
    /\ R.pc \in EndingEpoch => EndsEpoch(R.iter)
    /\ R.pc \in {"unlink", "open", "close"} => R.then \in {"next", "done", "stopped"}
    /\ R.pc \notin {"unlink", "open", "close", "saved"} \cup Ended => R.then = ""

\* A rank of a project whose epochs have no iteration for it.
Untrained(R) ==
    /\ R.pc \in {"start", "best", "close best", "done"}
    /\ R.applied = {} /\ R.judged = <<>>
    /\ R.pc # "start" => R.then = "done"

RankOK(R) ==
    /\ Typed(R)
    /\ IF PerEpoch = 0 THEN Untrained(R) ELSE Trained(R)
    /\ R.pc = "start" => R.iter = 0 /\ R.turn = 1 /\ R.applied = {} /\ R.states = {} /\ R.judged = <<>>
    /\ Exact(R.applied, R.iter, NextTurnOf(R))
    /\ Recent(R.applied, R.states, R.iter)

ArchiveOK(c) ==
    /\ c.epoch \in 1..conf.maxEpoch
    /\ Exact(c.applied, c.epoch * PerEpoch, 1)
    /\ Recent(c.applied, c.states, c.epoch * PerEpoch)

\* What a rank waits in.
Waits(p, R) ==
    IF p = "enter" THEN Enter
    ELSE IF p = "leave" THEN Leave
    ELSE IF R.pc = "sum cost" THEN <<"cost", R.iter, R.turn>>
    ELSE IF R.pc = "reduce" THEN <<"grads", R.iter, R.turn>>
    ELSE IF R.pc = "sum error" THEN <<"error", R.iter, R.batch>>
    ELSE NoCall

\* Nobody trains who has not opened the cache, if there is anything to train.
Gate(p, R) ==
    /\ p \in {"opened", "opened in part"} => PerEpoch # 0
    /\ ~conf.explicit =>
            /\ p \in {"look", "create", "files", "open", "opened", "opened in part"}
            /\ p \in {"create", "files"} => PerEpoch # 0
    /\ R.pc # "start" => \/ p \in {"opened", "opened in part"}
                         \/ p = "open" /\ PerEpoch = 0

DiskOK ==
    /\ DOMAIN disk = {"current", "best", "report", "newest"}
    /\ \E c : disk.current \subseteq {c}
    /\ \E c : disk.best \subseteq {c}
    /\ \A c \in disk.current : ArchiveOK(c)
    /\ rank[1].pc = "open" => disk.current = {}
    /\ rank[1].pc = "close" => disk.current = {Archive(rank[1], FALSE)}

RankInv(r) ==
    /\ RankOK(rank[r])
    /\ rank[r].pc \in Saving => r = 1
    /\ Gate(prep[r], rank[r])
    /\ asked[r] = Waits(prep[r], rank[r])

TrainInv ==
    /\ CacheInv
    /\ DOMAIN rank = Ranks
    /\ \A r \in Ranks : RankInv(r)
    /\ DiskOK

-----------------------------------------------------------------------------
(* Iterations and epochs. *)

\* Division of natural numbers.
LEMMA Division ==
    ASSUME NEW n \in Nat, NEW p \in Nat \ {0}
    PROVE  /\ n \div p \in Nat /\ n % p \in 0..(p - 1)
           /\ n = p * (n \div p) + (n % p)
<1>1. n \div p \in Nat /\ n % p \in 0..(p - 1)
  OBVIOUS
<1>2. n = p * (n \div p) + (n % p)
  OBVIOUS
<1> QED
  BY <1>1, <1>2

\* Products are monotone.
LEMMA Times ==
    ASSUME NEW a \in Nat, NEW b \in Nat, NEW p \in Nat, a <= b
    PROVE  a * p <= b * p /\ a * p \in Nat
<1>1. PICK d \in Nat : b = a + d
  <2>1. b - a \in Nat /\ b = a + (b - a)
    OBVIOUS
  <2> QED
    BY <2>1
<1>2. b * p = a * p + d * p
  BY <1>1
<1>3. d * p \in Nat /\ a * p \in Nat
  OBVIOUS
<1> QED
  BY <1>2, <1>3

\* The iteration after the last one of an epoch is the first of the next.
LEMMA LastOfEpoch ==
    ASSUME NEW n \in Nat, NEW p \in Nat \ {0}, n % p = p - 1
    PROVE  (n \div p + 1) * p = n + 1
<1>1. n = p * (n \div p) + (p - 1) /\ n \div p \in Nat
  BY Division
<1> DEFINE q == n \div p
<1> HIDE DEF q
<1>2. q \in Nat /\ n = p * q + (p - 1)
  BY <1>1 DEF q
<1>3. (q + 1) * p = p * q + p
  BY <1>2
<1>4. (q + 1) * p = n + 1
  BY <1>2, <1>3
<1> QED
  BY <1>4 DEF q

\* An iteration before the end is in one of the epochs.
LEMMA EpochInRange ==
    ASSUME NEW n \in Nat, NEW p \in Nat \ {0}, NEW m \in Nat, n < m * p
    PROVE  n \div p + 1 \in 1..m
<1> DEFINE q == n \div p
<1>1. q \in Nat /\ p * q <= n
  BY Division
<1> HIDE DEF q
<1>2. CASE m <= q
  <2>1. m * p <= q * p /\ q * p = p * q
    BY <1>1, <1>2, Times
  <2>2. m * p \in Nat /\ p * q \in Nat
    BY <1>1
  <2> QED
    BY <1>1, <2>1, <2>2
<1>3. CASE q < m
  <2>1. q + 1 \in 1..m
    BY <1>1, <1>3
  <2> QED
    BY <2>1 DEF q
<1> QED
  BY <1>1, <1>2, <1>3

\* A whole number of epochs ends with an epoch.
LEMMA EndIsEndOfEpoch ==
    ASSUME NEW n \in Nat, NEW p \in Nat \ {0}, NEW m \in Nat, n + 1 = m * p
    PROVE  n % p = p - 1
<1> DEFINE q == n \div p
           t == n % p
<1>1. q \in Nat /\ t \in 0..(p - 1) /\ n = p * q + t
  BY Division
<1> HIDE DEF q, t
<1>2. m * p = p * q + t + 1
  BY <1>1
<1>3. CASE m <= q
  <2>1. m * p <= q * p /\ q * p = p * q
    BY <1>1, <1>3, Times
  <2>2. m * p \in Nat /\ p * q \in Nat
    BY <1>1
  <2> QED
    BY <1>1, <1>2, <2>1, <2>2
<1>4. CASE q + 1 <= m
  <2>1. (q + 1) * p <= m * p /\ (q + 1) * p = p * q + p
    BY <1>1, <1>4, Times
  <2>2. m * p \in Nat /\ p * q \in Nat
    BY <1>1
  <2>3. t = p - 1
    BY <1>1, <1>2, <2>1, <2>2
  <2> QED
    BY <2>3 DEF t
<1> QED
  BY <1>1, <1>3, <1>4

-----------------------------------------------------------------------------
(* Every definition reads the project, which stays. *)

\* The project stays, and what is computed of it.
LEMMA SameProject ==
    ASSUME UNCHANGED conf
    PROVE  /\ Ranks' = Ranks /\ Turns' = Turns /\ PerEpoch' = PerEpoch
           /\ MaxIteration' = MaxIteration /\ Number' = Number
           /\ \A k : Opt(k)' = Opt(k)
BY DEF Ranks, Turns, PerEpoch, Size, MaxIteration, Number, Opt, Shared

\* So does what is right for a rank and an archive.
LEMMA SameRankOK ==
    ASSUME UNCHANGED conf
    PROVE  /\ \A A, i, k : Exact(A, i, k)' <=> Exact(A, i, k)
           /\ \A A, S, i : Recent(A, S, i)' <=> Recent(A, S, i)
           /\ \A R : RankOK(R)' <=> RankOK(R)
           /\ \A c : ArchiveOK(c)' <=> ArchiveOK(c)
<1>1. \A i, k : IsDue(i, k)' <=> IsDue(i, k)
  BY SameProject DEF IsDue
<1>2. \A A, i, k : Exact(A, i, k)' <=> Exact(A, i, k)
  BY <1>1 DEF Exact
<1>3. \A A, S, i : Recent(A, S, i)' <=> Recent(A, S, i)
  BY SameProject DEF Recent
<1>4. \A R : Typed(R)' <=> Typed(R)
  BY SameProject DEF Typed
<1>5. \A R : Trained(R)' <=> Trained(R)
  BY SameProject, ZenonT(40) DEF Trained, EndsEpoch
<1>6. \A R : Untrained(R)' <=> Untrained(R)
  BY DEF Untrained
<1>7. \A R : RankOK(R)' <=> RankOK(R)
  BY <1>2, <1>3, <1>4, <1>5, <1>6, SameProject DEF RankOK
<1>8. \A c : ArchiveOK(c)' <=> ArchiveOK(c)
  BY <1>2, <1>3, SameProject DEF ArchiveOK
<1> QED
  BY <1>2, <1>3, <1>7, <1>8

\* What is known of the project.
LEMMA Project ==
    ASSUME conf \in Scenarios
    PROVE  /\ 1 \in Ranks /\ Ranks \subseteq Nat
           /\ Number \in Nat /\ Turns = 1..Number
           /\ PerEpoch \in Nat /\ conf.maxEpoch \in Nat \ {0} /\ MaxIteration \in Nat
           /\ PerEpoch = 0 => MaxIteration = 0
           /\ MaxIteration = conf.maxEpoch * PerEpoch
<1>1. 1 \in Ranks /\ Ranks \subseteq Nat /\ PerEpoch \in Nat
  BY RankSet, PerEpochNat
<1>2. Number \in Nat /\ Turns = 1..Number /\ conf.maxEpoch \in Nat \ {0}
  BY ProjectAssumption DEF Number, Turns
<1>3. \A a, b \in Nat : a * b \in Nat /\ (b = 0 => a * b = 0)
  OBVIOUS
<1>4. MaxIteration \in Nat /\ (PerEpoch = 0 => MaxIteration = 0)
  BY <1>1, <1>2, <1>3 DEF MaxIteration
<1> QED
  BY <1>1, <1>2, <1>4 DEF MaxIteration

-----------------------------------------------------------------------------
(* Updates and how far a rank is. *)

\* A turn without an update leaves them exact.
LEMMA ExactSkip ==
    ASSUME conf \in Scenarios
    PROVE  \A A : \A i \in Nat, k \in Nat :
                Exact(A, i, k) /\ ~IsDue(i, k) => Exact(A, i, k + 1)
<1>1. \A i, j, k, l : IsDue(i, k) /\ j \in Nat /\ l \in Nat =>
            (Past(i, k, j, l + 1) <=> Past(i, k, j, l) \/ (i = j /\ k = l))
  BY Project DEF IsDue, Past
<1>2. \A j, l : j \in Nat /\ l \in Nat /\ ~IsDue(j, l) =>
            \A i, k : IsDue(i, k) => (Past(i, k, j, l + 1) <=> Past(i, k, j, l))
  BY <1>1
<1> QED
  BY <1>2 DEF Exact

\* A turn with one adds it.
LEMMA ExactUpdate ==
    ASSUME conf \in Scenarios
    PROVE  \A A, u : \A i \in Nat, k \in Nat :
                Exact(A, i, k) /\ IsDue(i, k) /\ u.iter = i /\ u.turn = k =>
                    Exact(A \cup {u}, i, k + 1)
<1>1. \A i, j, k, l : IsDue(i, k) /\ j \in Nat /\ l \in Nat =>
            (Past(i, k, j, l + 1) <=> Past(i, k, j, l) \/ (i = j /\ k = l))
  BY Project DEF IsDue, Past
<1>2. \A i, k : i \in Nat /\ k \in Nat => ~Past(i, k, i, k)
  BY DEF Past
<1> SUFFICES ASSUME NEW A, NEW u, NEW i \in Nat, NEW k \in Nat, Exact(A, i, k), IsDue(i, k),
                    u.iter = i, u.turn = k
             PROVE  Exact(A \cup {u}, i, k + 1)
  OBVIOUS
<1>3. \A v \in A \cup {u} : IsDue(v.iter, v.turn) /\ Past(v.iter, v.turn, i, k + 1)
  BY <1>1 DEF Exact
<1>4. \A j, l : IsDue(j, l) /\ Past(j, l, i, k + 1) => \E v \in A \cup {u} : v.iter = j /\ v.turn = l
  BY <1>1 DEF Exact
<1>5. \A v \in A : ~(v.iter = i /\ v.turn = k)
  BY <1>2 DEF Exact
<1>6. \A v, w \in A \cup {u} : v.iter = w.iter /\ v.turn = w.turn => v = w
  BY <1>5 DEF Exact
<1> QED
  BY <1>3, <1>4, <1>6 DEF Exact

\* After the last turn comes the next iteration.
LEMMA ExactNext ==
    ASSUME conf \in Scenarios
    PROVE  \A A : \A i \in Nat : Exact(A, i, Number + 1) => Exact(A, i + 1, 1)
<1>1. \A i, j, k : IsDue(i, k) /\ j \in Nat => (Past(i, k, j + 1, 1) <=> Past(i, k, j, Number + 1))
  BY Project DEF IsDue, Past
<1> QED
  BY <1>1 DEF Exact

\* Nothing is to be done before the beginning.
LEMMA ExactStart ==
    ASSUME conf \in Scenarios
    PROVE  Exact({}, 0, 1) /\ Recent({}, {}, 0)
<1>1. \A i, k : IsDue(i, k) => ~Past(i, k, 0, 1)
  BY Project DEF IsDue, Past
<1>2. Exact({}, 0, 1)
  BY <1>1 DEF Exact
<1>3. 0 \in 0..conf.maxEpoch /\ 0 * PerEpoch <= 0
  BY Project
<1> QED
  BY <1>2, <1>3 DEF Recent

\* Every update lies before the turn.
LEMMA ExactBefore ==
    ASSUME conf \in Scenarios
    PROVE  \A A : \A i \in Nat, u \in A : Exact(A, i + 1, 1) => u.iter \in Nat /\ u.iter <= i
<1>1. \A i, j, k : IsDue(i, k) /\ j \in Nat /\ Past(i, k, j + 1, 1) => i \in Nat /\ i <= j
  BY Project DEF IsDue, Past
<1> QED
  BY <1>1 DEF Exact

\* The states stay recent, without an update and with one.
LEMMA RecentNext ==
    ASSUME conf \in Scenarios
    PROVE  /\ \A A, S : \A i \in Nat : Recent(A, S, i) => Recent(A, S, i + 1)
           /\ \A A, S, u : \A i \in Nat : Recent(A, S, i) /\ u.iter = i => Recent(A \cup {u}, S \cup {u}, i)
<1>1. \A e \in 0..conf.maxEpoch : e * PerEpoch \in Nat
  BY Project, Times
<1>2. \A m, i : m \in Nat /\ i \in Nat /\ m <= i => m <= i + 1 /\ i >= m
  OBVIOUS
<1>3. \A A, S : \A i \in Nat : Recent(A, S, i) => Recent(A, S, i + 1)
  BY <1>1, <1>2 DEF Recent
<1>4. ASSUME NEW A, NEW S, NEW u, NEW i \in Nat, Recent(A, S, i), u.iter = i
      PROVE  Recent(A \cup {u}, S \cup {u}, i)
  <2>1. PICK e \in 0..conf.maxEpoch :
            e * PerEpoch <= i /\ S = {v \in A : v.iter >= e * PerEpoch}
    BY <1>4 DEF Recent
  <2> DEFINE m == e * PerEpoch
  <2>2. m \in Nat /\ m <= i /\ S = {v \in A : v.iter >= m}
    BY <1>1, <2>1
  <2> HIDE DEF m
  <2>3. u.iter >= m
    BY <1>4, <1>2, <2>2
  <2>4. S \cup {u} = {v \in A \cup {u} : v.iter >= m}
    BY <2>2, <2>3
  <2> QED
    BY <2>1, <2>4 DEF Recent, m
<1> QED
  BY <1>3, <1>4

-----------------------------------------------------------------------------
(* The state of a rank, step by step. *)

\* What a step other than an update leaves alone.
Core(R, X) ==
    /\ DOMAIN X = Fields
    /\ X.iter = R.iter /\ X.applied = R.applied /\ X.states = R.states
    /\ X.judged \in Seq(Int) /\ X.best \in Int
    /\ X.pending \in {0} \cup Turns

\* The numbers of a rank.
LEMMA RankNumbers ==
    ASSUME conf \in Scenarios
    PROVE  \A R : RankOK(R) => /\ R.iter \in Nat /\ R.iter \in 0..MaxIteration
                               /\ R.turn \in Nat /\ R.turn \in 1..(Number + 1)
<1>1. \A m \in Nat : /\ \A i \in 0..m : i \in Nat
                     /\ \A k \in 1..(m + 1) : k \in Nat
  OBVIOUS
<1>2. MaxIteration \in Nat /\ Number \in Nat
  BY Project
<1>3. \A R : RankOK(R) => R.iter \in 0..MaxIteration /\ R.turn \in 1..(Number + 1)
  BY DEF RankOK, Typed
<1> QED
  BY <1>1, <1>2, <1>3, Zenon

\* A step within the iteration.
LEMMA Within ==
    ASSUME conf \in Scenarios, PerEpoch # 0
    PROVE  \A R, X :
        /\ RankOK(R) /\ Core(R, X)
        /\ NextTurnOf(X) = NextTurnOf(R) /\ X.turn \in 1..(Number + 1)
        /\ X.pc \in Pcs \ {"start"}
        /\ Trained(X)
        => RankOK(X)
BY DEF RankOK, Core, Typed

\* A turn that makes no update.
LEMMA PassTurn ==
    ASSUME conf \in Scenarios, PerEpoch # 0
    PROVE  \A R, X :
        /\ RankOK(R) /\ Core(R, X)
        /\ R.turn \in Turns /\ ~IsDue(R.iter, R.turn) /\ R.pc # "reserve"
        /\ NextTurnOf(X) = R.turn + 1 /\ X.turn \in 1..(Number + 1)
        /\ X.pc \in Pcs \ {"start"}
        /\ Trained(X)
        => RankOK(X)
<1> SUFFICES ASSUME NEW R, NEW X, RankOK(R), Core(R, X),
                    R.turn \in Turns, ~IsDue(R.iter, R.turn), R.pc # "reserve",
                    NextTurnOf(X) = R.turn + 1, X.turn \in 1..(Number + 1),
                    X.pc \in Pcs \ {"start"}, Trained(X)
             PROVE  RankOK(X)
  OBVIOUS
<1>1. R.iter \in Nat /\ R.turn \in Nat
  BY RankNumbers
<1>2. Exact(R.applied, R.iter, R.turn)
  BY DEF RankOK, NextTurnOf
<1>3. Exact(X.applied, X.iter, NextTurnOf(X))
  BY <1>1, <1>2, ExactSkip DEF Core
<1> QED
  BY <1>3 DEF RankOK, Core, Typed

\* The next iteration begins.
LEMMA PassIteration ==
    ASSUME conf \in Scenarios, PerEpoch # 0
    PROVE  \A R, X :
        /\ RankOK(R) /\ R.turn = Number + 1 /\ R.pc # "reserve" /\ R.iter + 1 < MaxIteration
        /\ X.iter = R.iter + 1 /\ X.turn = 1 /\ X.pc = "turn" /\ X.then = ""
        /\ DOMAIN X = Fields /\ X.applied = R.applied /\ X.states = R.states
        /\ X.judged \in Seq(Int) /\ X.best \in Int
        /\ X.pending \in {0} \cup Turns
        => RankOK(X)
<1>0. /\ \A i \in Nat, m \in Nat : i + 1 < m => i + 1 \in 0..m
      /\ \A n \in Nat : 1 \in 1..(n + 1)
  OBVIOUS
<1> SUFFICES ASSUME NEW R, NEW X,
                    RankOK(R), R.turn = Number + 1, R.pc # "reserve", R.iter + 1 < MaxIteration,
                    X.iter = R.iter + 1, X.turn = 1, X.pc = "turn", X.then = "",
                    DOMAIN X = Fields, X.applied = R.applied, X.states = R.states,
                    X.judged \in Seq(Int), X.best \in Int, X.pending \in {0} \cup Turns
             PROVE  RankOK(X)
  OBVIOUS
<1>1. R.iter \in Nat
  BY RankNumbers
<1>2. Exact(R.applied, R.iter, Number + 1) /\ Recent(R.applied, R.states, R.iter)
  BY DEF RankOK, NextTurnOf
<1>3. Exact(X.applied, X.iter, NextTurnOf(X)) /\ Recent(X.applied, X.states, X.iter)
  BY <1>1, <1>2, ExactNext, RecentNext DEF NextTurnOf
<1>4. X.iter \in 0..MaxIteration /\ X.iter < MaxIteration /\ X.turn \in 1..(Number + 1)
  <2>2. MaxIteration \in Nat /\ Number \in Nat
    BY Project
  <2>3. R.iter + 1 \in 0..MaxIteration /\ 1 \in 1..(Number + 1)
    BY <1>0, <1>1, <2>2
  <2>4. X.iter \in 0..MaxIteration
    BY <2>3, Zenon
  <2>5. X.iter < MaxIteration
    BY Zenon
  <2>6. X.turn \in 1..(Number + 1)
    BY <2>3, Zenon
  <2> QED
    BY <2>4, <2>5, <2>6
<1>5. Typed(X)
  BY <1>4 DEF Typed, Pcs
<1>6. Trained(X)
  BY <1>4 DEF Trained, InTurn, EndingEpoch, Saving, Ended
<1> QED
  BY <1>3, <1>5, <1>6 DEF RankOK

\* An update is made.
LEMMA MakeUpdate ==
    ASSUME conf \in Scenarios, PerEpoch # 0
    PROVE  \A R, X, u :
        /\ RankOK(R) /\ R.pc = "apply" /\ X.pc = "reserve"
        /\ u.iter = R.iter /\ u.turn = R.turn
        /\ DOMAIN X = Fields /\ X.iter = R.iter /\ X.turn = R.turn
        /\ X.applied = R.applied \cup {u} /\ X.states = R.states \cup {u}
        /\ X.judged \in Seq(Int) /\ X.best \in Int /\ X.pending \in {0} \cup Turns /\ X.then = R.then
        => RankOK(X)
<1> SUFFICES ASSUME NEW R, NEW X, NEW u,
                    RankOK(R), R.pc = "apply", X.pc = "reserve",
                    u.iter = R.iter, u.turn = R.turn,
                    DOMAIN X = Fields, X.iter = R.iter, X.turn = R.turn,
                    X.applied = R.applied \cup {u}, X.states = R.states \cup {u},
                    X.judged \in Seq(Int), X.best \in Int, X.pending \in {0} \cup Turns, X.then = R.then
             PROVE  RankOK(X)
  OBVIOUS
<1>1. R.iter \in Nat /\ R.turn \in Nat /\ R.turn \in 1..(Number + 1) /\ R.iter \in 0..MaxIteration
  BY RankNumbers
<1>2. /\ R.turn \in Turns /\ Active(Opt(R.turn), R.iter) /\ Due(Opt(R.turn), R.iter)
      /\ R.iter < MaxIteration /\ R.then = ""
  BY DEF RankOK, Trained, InTurn, Ended
<1>3. \A i, m : i \in Nat /\ m \in Nat /\ i < m => i \in 0..(m - 1)
  OBVIOUS
<1>4. IsDue(R.iter, R.turn)
  BY <1>1, <1>2, <1>3, Project DEF IsDue
<1>5. Exact(R.applied, R.iter, R.turn) /\ Recent(R.applied, R.states, R.iter)
  BY DEF RankOK, NextTurnOf
<1>6. Exact(X.applied, X.iter, NextTurnOf(X))
  BY <1>1, <1>4, <1>5, ExactUpdate DEF NextTurnOf
<1>7. Recent(X.applied, X.states, X.iter)
  <2>1. \A A, S, v : \A i \in Nat : Recent(A, S, i) /\ v.iter = i => Recent(A \cup {v}, S \cup {v}, i)
    BY RecentNext
  <2>2. Recent(R.applied \cup {u}, R.states \cup {u}, R.iter)
    BY <1>1, <1>5, <2>1
  <2> QED
    BY <2>2
<1>8. Typed(X)
  BY <1>1 DEF Typed, Pcs, InTurn
<1>9. Trained(X)
  BY <1>2 DEF Trained, InTurn, EndingEpoch, Saving, Ended
<1> QED
  BY <1>6, <1>7, <1>8, <1>9 DEF RankOK

\* What is saved at the end of an epoch is what a training resumed there needs.
LEMMA ArchiveGood ==
    ASSUME conf \in Scenarios, PerEpoch # 0
    PROVE  \A R, whole :
        RankOK(R) /\ R.pc \in {"unlink", "open", "close"} => ArchiveOK(Archive(R, whole))
<1> SUFFICES ASSUME NEW R, NEW whole, RankOK(R), R.pc \in {"unlink", "open", "close"}
             PROVE  ArchiveOK(Archive(R, whole))
  OBVIOUS
<1> DEFINE c == Archive(R, whole)
           e == Epoch(R.iter)
<1>1. R.iter \in Nat /\ R.iter < MaxIteration /\ EndsEpoch(R.iter) /\ R.turn = Number + 1
  <2>1. Trained(R)
    BY DEF RankOK
  <2> QED
    BY <2>1, RankNumbers DEF Trained, EndingEpoch, Saving, Ended
<1>2. c.epoch = e /\ c.applied = R.applied /\ c.states \in {R.states, {}}
  BY DEF Archive
<1>3. e = R.iter \div PerEpoch + 1 /\ PerEpoch \in Nat \ {0}
  BY Project DEF Epoch
<1>4. e \in 1..conf.maxEpoch
  BY <1>1, <1>3, EpochInRange, Project
<1>5. e * PerEpoch = R.iter + 1
  BY <1>1, <1>3, LastOfEpoch DEF EndsEpoch
<1>6. Exact(R.applied, R.iter, Number + 1) /\ Recent(R.applied, R.states, R.iter)
  BY <1>1 DEF RankOK, NextTurnOf
<1>7. Exact(R.applied, R.iter + 1, 1) /\ Recent(R.applied, R.states, R.iter + 1)
  BY <1>1, <1>6, ExactNext, RecentNext
<1>8. Recent(R.applied, {}, R.iter + 1)
  <2>1. \A u \in R.applied : u.iter \in Nat /\ u.iter <= R.iter
    BY <1>1, <1>7, ExactBefore
  <2>2. \A i, j : i \in Nat /\ j \in Nat /\ j <= i => ~(j >= i + 1)
    OBVIOUS
  <2>3. {} = {u \in R.applied : u.iter >= R.iter + 1}
    BY <1>1, <2>1, <2>2
  <2>4. e \in 0..conf.maxEpoch /\ R.iter + 1 <= R.iter + 1
    BY <1>1, <1>4, Project
  <2> HIDE DEF e
  <2> QED
    BY <1>5, <2>3, <2>4 DEF Recent
<1> HIDE DEF c, e
<1> QED
  BY <1>2, <1>4, <1>5, <1>7, <1>8 DEF ArchiveOK, c

-----------------------------------------------------------------------------
(* What a step leaves alone. *)

\* The disk is not touched, and rank 1 does not begin to save.
LEMMA DiskStays ==
    ASSUME DiskOK, UNCHANGED <<conf, disk>>,
           rank'[1] = rank[1] \/ rank'[1].pc \notin {"open", "close"}
    PROVE  DiskOK'
<1>1. \A c : ArchiveOK(c)' <=> ArchiveOK(c)
  BY SameRankOK
<1>2. \A R, whole : Archive(R, whole)' = Archive(R, whole)
  BY SameProject DEF Archive, Epoch
<1>3. /\ rank'[1].pc = "open" => disk'.current = {}
      /\ rank'[1].pc = "close" => disk'.current = {Archive(rank'[1], FALSE)}
  BY DEF DiskOK
<1> QED
  BY <1>1, <1>2, <1>3 DEF DiskOK

\* A step of one rank, which may touch the disk.
LEMMA OneRank ==
    ASSUME TrainInv, CacheInv', UNCHANGED <<conf, cache, prep, crashes>>, NEW r \in Ranks,
           DOMAIN rank' = Ranks,
           \A s \in Ranks \ {r} : rank'[s] = rank[s] /\ asked'[s] = asked[s],
           RankOK(rank'[r]),
           rank'[r].pc \in Saving => r = 1,
           prep[r] \in {"opened", "opened in part"} \/ (prep[r] = "open" /\ PerEpoch = 0),
           asked'[r] = Waits(prep[r], rank'[r]),
           DiskOK'
    PROVE  TrainInv'
<1>1. Ranks' = Ranks /\ PerEpoch' = PerEpoch /\ \A R : RankOK(R)' <=> RankOK(R)
  BY SameProject, SameRankOK
<1>2. RankInv(r) /\ Gate(prep[r], rank[r])
  BY DEF TrainInv, RankInv
<1>3. Gate(prep[r], rank[r])'
  BY <1>1, <1>2 DEF Gate
<1>4. RankInv(r)'
  BY <1>1, <1>3 DEF RankInv, Waits
<1>5. ASSUME NEW s \in Ranks \ {r} PROVE RankInv(s)'
  <2>1. RankInv(s) /\ rank'[s] = rank[s] /\ asked'[s] = asked[s] /\ prep'[s] = prep[s]
    BY DEF TrainInv
  <2>2. RankOK(rank[s])'
    BY <1>1, <2>1 DEF RankInv
  <2>3. Gate(prep[s], rank[s])'
    BY <1>1, <2>1 DEF RankInv, Gate
  <2> QED
    BY <2>1, <2>2, <2>3 DEF RankInv, Waits
<1> QED
  BY <1>1, <1>4, <1>5 DEF TrainInv

\* All ranks, which waited in a collective, go on.
LEMMA AllRanks ==
    ASSUME TrainInv, CacheInv', UNCHANGED <<conf, cache, prep, crashes, disk>>,
           DOMAIN rank' = Ranks, AllReturn,
           \A r \in Ranks :
                /\ RankOK(rank'[r])
                /\ rank'[r].pc \notin Saving \cup {"start", "sum cost", "sum error", "reduce"}
                /\ rank[r].pc # "start"
                /\ prep[r] \notin {"enter", "leave"}
    PROVE  TrainInv'
<1>1. Ranks' = Ranks /\ PerEpoch' = PerEpoch /\ \A R : RankOK(R)' <=> RankOK(R)
  BY SameProject, SameRankOK
<1>2. DOMAIN asked = Ranks /\ 1 \in Ranks
  BY Project DEF TrainInv, CacheInv, PrepOK
<1>3. ASSUME NEW r \in Ranks PROVE RankInv(r)'
  <2>1. RankInv(r) /\ prep'[r] = prep[r] /\ asked'[r] = NoCall
    BY <1>2 DEF TrainInv, AllReturn
  <2>2. Gate(prep[r], rank[r])'
    BY <1>1, <2>1 DEF RankInv, Gate
  <2>3. RankOK(rank[r])' /\ rank'[r].pc \notin Saving
    BY <1>1
  <2> QED
    BY <2>1, <2>2, <2>3 DEF RankInv, Waits
<1>4. DiskOK'
  <2>1. DiskOK /\ rank'[1].pc \notin {"open", "close"}
    BY <1>2 DEF TrainInv, Saving
  <2> QED
    BY <2>1, DiskStays
<1> QED
  BY <1>1, <1>3, <1>4 DEF TrainInv

\* The preparation of the cache, before anybody trains.
LEMMA PrepareStep ==
    ASSUME TrainInv, CacheInv', Prepare, UNCHANGED <<rank, disk, crashes>>
    PROVE  TrainInv'
<1>1. UNCHANGED conf
  BY DEF Prepare, LookForCache, LookForDirectory, CheckNode, WriteCacheFiles, WriteCacheIndex,
         OpenCache, EnterTogether, LeaveTogether
<1>0. PerEpoch > 0 => PerEpoch # 0
  OBVIOUS
<1>2. Ranks' = Ranks /\ PerEpoch' = PerEpoch /\ \A R : RankOK(R)' <=> RankOK(R)
  BY <1>1, SameProject, SameRankOK
<1>3. /\ DOMAIN asked = Ranks /\ DOMAIN prep = Ranks /\ AtBarrier
      /\ \A r \in Ranks : RankInv(r)
  BY DEF TrainInv, CacheInv, PrepOK
<1>4. ASSUME NEW r \in Ranks,
             prep[r] = "open" => PerEpoch # 0,
             prep[r] \notin {"opened", "opened in part"},
             prep'[r] \in {"opened", "opened in part"} => PerEpoch # 0,
             ~conf.explicit =>
                /\ prep'[r] \in {"look", "create", "files", "open", "opened", "opened in part"}
                /\ prep'[r] \in {"create", "files"} => PerEpoch # 0,
             asked'[r] = IF prep'[r] = "enter" THEN Enter
                         ELSE IF prep'[r] = "leave" THEN Leave ELSE NoCall
      PROVE  RankInv(r)'
  <2>1. rank'[r] = rank[r] /\ RankInv(r) /\ Gate(prep[r], rank[r])
    BY <1>3 DEF RankInv
  <2>2. rank[r].pc = "start"
    BY <1>4, <2>1 DEF Gate
  <2>3. Gate(prep[r], rank[r])'
    BY <1>1, <1>2, <1>4, <2>1, <2>2 DEF Gate
  <2>4. (asked[r] = Waits(prep[r], rank[r]))'
    BY <1>4, <2>1, <2>2 DEF Waits
  <2>5. RankOK(rank[r])' /\ rank'[r].pc \notin Saving
    BY <1>2, <2>1, <2>2 DEF RankInv, Saving
  <2> QED
    BY <2>3, <2>4, <2>5 DEF RankInv
<1>5. ASSUME NEW r \in Ranks, prep'[r] = prep[r], asked'[r] = asked[r] PROVE RankInv(r)'
  <2>1. rank'[r] = rank[r] /\ RankInv(r)
    BY <1>3
  <2>2. Gate(prep[r], rank[r])'
    BY <1>1, <1>2, <1>5, <2>1 DEF RankInv, Gate
  <2> QED
    BY <1>2, <1>5, <2>1, <2>2 DEF RankInv, Waits
<1>7. ASSUME NEW r \in Ranks, prep[r] \notin {"opened", "opened in part"}, prep[r] = "open" => PerEpoch # 0
      PROVE  /\ prep[r] \notin {"enter", "leave"} => asked[r] = NoCall
             /\ ~conf.explicit =>
                    /\ prep[r] \in {"look", "create", "files", "open"}
                    /\ prep[r] \in {"create", "files"} => PerEpoch # 0
  <2>1. RankInv(r) /\ Gate(prep[r], rank[r])
    BY <1>3 DEF RankInv
  <2>2. rank[r].pc = "start"
    BY <1>7, <2>1 DEF Gate
  <2>3. prep[r] \notin {"enter", "leave"} => asked[r] = NoCall
    BY <2>1, <2>2 DEF RankInv, Waits
  <2> QED
    BY <1>7, <2>1, <2>3 DEF Gate
<1>8. ASSUME NEW r \in Ranks,
             \/ LookForCache(r) \/ LookForDirectory(r) \/ CheckNode(r) \/ WriteCacheFiles(r)
             \/ WriteCacheIndex(r) \/ OpenCache(r)
      PROVE  \A s \in Ranks : RankInv(s)'
  <2>1. \A s \in Ranks \ {r} : prep'[s] = prep[s] /\ asked'[s] = asked[s]
    BY <1>3, <1>8 DEF LookForCache, LookForDirectory, CheckNode, WriteCacheFiles, WriteCacheIndex,
                      OpenCache, Calls
  <2>2. CASE LookForCache(r)
    <3>1. /\ prep[r] = "look" /\ conf.explicit /\ prep'[r] \in {"enter", "open"}
          /\ asked'[r] = IF prep'[r] = "enter" THEN Enter ELSE asked[r]
      BY <1>3, <2>2 DEF LookForCache, Calls, Enter
    <3>2. RankInv(r)'
      BY <1>4, <1>7, <3>1
    <3> QED
      BY <1>5, <2>1, <3>2
  <2>3. CASE LookForDirectory(r)
    <3>1. /\ prep[r] = "look" /\ prep'[r] \in {"create", "open"} /\ asked'[r] = asked[r]
          /\ prep'[r] = "create" => PerEpoch # 0
      BY <1>0, <1>3, <2>3 DEF LookForDirectory
    <3>2. RankInv(r)'
      BY <1>4, <1>7, <3>1
    <3> QED
      BY <1>5, <2>1, <3>2
  <2>4. CASE CheckNode(r)
    <3>1. /\ prep[r] = "node" /\ prep'[r] \in {"create", "leave"}
          /\ asked'[r] = IF prep'[r] = "leave" THEN Leave ELSE asked[r]
      BY <1>3, <2>4 DEF CheckNode, Calls, Leave
    <3>2. RankInv(r)'
      BY <1>4, <1>7, <3>1
    <3> QED
      BY <1>5, <2>1, <3>2
  <2>5. CASE WriteCacheFiles(r)
    <3>1. prep[r] = "create" /\ prep'[r] = "files" /\ asked'[r] = asked[r]
      BY <1>3, <2>5 DEF WriteCacheFiles
    <3>2. RankInv(r)'
      BY <1>4, <1>7, <3>1
    <3> QED
      BY <1>5, <2>1, <3>2
  <2>6. CASE WriteCacheIndex(r)
    <3>1. /\ prep[r] = "files" /\ prep'[r] = IF conf.explicit THEN "leave" ELSE "opened"
          /\ asked'[r] = IF prep'[r] = "leave" THEN Leave ELSE asked[r]
      BY <1>3, <2>6 DEF WriteCacheIndex, Calls, Leave
    <3>2. RankInv(r)'
      BY <1>4, <1>7, <3>1
    <3> QED
      BY <1>5, <2>1, <3>2
  <2>7. CASE OpenCache(r)
    <3>1. /\ prep[r] = "open" /\ PerEpoch # 0 /\ prep'[r] \in {"opened", "opened in part"}
          /\ asked'[r] = asked[r]
      BY <1>0, <1>3, <2>7 DEF OpenCache
    <3>2. RankInv(r)'
      BY <1>4, <1>7, <3>1
    <3> QED
      BY <1>5, <2>1, <3>2
  <2> QED
    BY <1>8, <2>2, <2>3, <2>4, <2>5, <2>6, <2>7
<1>9. ASSUME EnterTogether PROVE \A r \in Ranks : RankInv(r)'
  <2>1. \A r \in Ranks : prep[r] = "enter" /\ prep'[r] = "node" /\ asked'[r] = NoCall
    BY <1>3, <1>9 DEF EnterTogether, AllIn, AllReturn, AtBarrier, Enter
  <2>2. \A r \in Ranks : conf.explicit
    BY <1>7, <2>1
  <2>3. \A r \in Ranks : RankInv(r)'
    BY <1>4, <2>1, <2>2
  <2> QED
    BY <2>3
<1>10. ASSUME LeaveTogether PROVE \A r \in Ranks : RankInv(r)'
  <2>1. \A r \in Ranks : prep[r] = "leave" /\ prep'[r] = "open" /\ asked'[r] = NoCall
    BY <1>3, <1>10 DEF LeaveTogether, AllIn, AllReturn, AtBarrier, Leave
  <2>2. \A r \in Ranks : conf.explicit
    BY <1>7, <2>1
  <2>3. \A r \in Ranks : RankInv(r)'
    BY <1>4, <2>1, <2>2
  <2> QED
    BY <2>3
<1>11. \A r \in Ranks : RankInv(r)'
  BY <1>8, <1>9, <1>10 DEF Prepare
<1>12. DiskOK'
  BY <1>1, DiskStays DEF TrainInv
<1> QED
  BY <1>2, <1>11, <1>12 DEF TrainInv

-----------------------------------------------------------------------------
(* The steps of one rank. *)

\* As OneRank, when the disk is left alone.
LEMMA OneRankAlone ==
    ASSUME TrainInv, CacheInv', UNCHANGED <<conf, cache, prep, crashes, disk>>, NEW r \in Ranks,
           DOMAIN rank' = Ranks,
           \A s \in Ranks \ {r} : rank'[s] = rank[s] /\ asked'[s] = asked[s],
           RankOK(rank'[r]),
           rank'[r].pc \notin {"open", "close"},
           rank'[r].pc \in Saving => r = 1,
           prep[r] \in {"opened", "opened in part"} \/ (prep[r] = "open" /\ PerEpoch = 0),
           asked'[r] = Waits(prep[r], rank'[r])
    PROVE  TrainInv'
<1>1. DiskOK'
  <2>1. DiskOK /\ 1 \in Ranks
    BY Project DEF TrainInv, CacheInv, PrepOK
  <2>2. rank'[1] = rank[1] \/ rank'[1].pc \notin {"open", "close"}
    BY <2>1
  <2> QED
    BY <2>1, <2>2, DiskStays
<1> QED
  BY <1>1, OneRank

\* A rank that has begun.
LEMMA AtWork ==
    ASSUME TrainInv, NEW r \in Ranks, rank[r].pc # "start"
    PROVE  /\ conf \in Scenarios /\ DOMAIN rank = Ranks /\ DOMAIN asked = Ranks
           /\ RankOK(rank[r]) /\ DOMAIN rank[r] = Fields
           /\ IF PerEpoch = 0 THEN Untrained(rank[r]) ELSE Trained(rank[r])
           /\ PerEpoch = 0 => rank[r].pc \in {"best", "close best", "done"}
           /\ prep[r] \in {"opened", "opened in part"} \/ (prep[r] = "open" /\ PerEpoch = 0)
           /\ rank[r].pc \notin {"sum cost", "sum error", "reduce"} => asked[r] = NoCall
           /\ rank[r].pc \in Saving => r = 1
           /\ rank[r].judged \in Seq(Int) /\ rank[r].best \in Int
           /\ rank[r].pending \in {0} \cup Turns
<1>1. RankInv(r) /\ Gate(prep[r], rank[r])
  BY DEF TrainInv, RankInv
<1>2. prep[r] \in {"opened", "opened in part"} \/ (prep[r] = "open" /\ PerEpoch = 0)
  BY <1>1 DEF Gate
<1>3. rank[r].pc \notin {"sum cost", "sum error", "reduce"} => asked[r] = NoCall
  BY <1>1, <1>2 DEF RankInv, Waits
<1>4. RankOK(rank[r]) /\ Typed(rank[r])
  BY <1>1 DEF RankInv, RankOK
<1>5. IF PerEpoch = 0 THEN Untrained(rank[r]) ELSE Trained(rank[r])
  BY <1>1 DEF RankInv, RankOK
<1>6. PerEpoch = 0 => rank[r].pc \in {"best", "close best", "done"}
  BY <1>5 DEF Untrained
<1> QED
  BY <1>1, <1>2, <1>3, <1>4, <1>5, <1>6 DEF TrainInv, CacheInv, PrepOK, RankInv, Typed

\* Turns and what comes after the last.
LEMMA TurnNumbers ==
    ASSUME conf \in Scenarios
    PROVE  /\ \A k \in Turns : k + 1 \in 1..(Number + 1) /\ k \in 1..(Number + 1)
           /\ \A k \in 1..(Number + 1) : k \notin Turns => k = Number + 1
<1>1. \A n \in Nat : /\ \A k \in 1..n : k + 1 \in 1..(n + 1) /\ k \in 1..(n + 1)
                     /\ \A k \in 1..(n + 1) : k \notin 1..n => k = n + 1
  OBVIOUS
<1> QED
  BY <1>1, Project, Zenon

\* A step of one rank within a turn, or to the next turn when no update is due.
LEMMA WithinStep ==
    ASSUME TrainInv, CacheInv', UNCHANGED <<conf, cache, prep, crashes, disk>>, NEW r \in Ranks,
           rank[r].pc # "start", PerEpoch # 0,
           DOMAIN rank' = Ranks,
           \A s \in Ranks \ {r} : rank'[s] = rank[s] /\ asked'[s] = asked[s],
           Core(rank[r], rank'[r]),
           \/ NextTurnOf(rank'[r]) = NextTurnOf(rank[r])
           \/ /\ rank[r].turn \in Turns /\ ~IsDue(rank[r].iter, rank[r].turn)
              /\ rank[r].pc # "reserve" /\ NextTurnOf(rank'[r]) = rank[r].turn + 1,
           rank'[r].turn \in 1..(Number + 1),
           rank'[r].pc \in Pcs \ {"start", "open", "close"},
           rank'[r].pc \in Saving => r = 1,
           Trained(rank'[r]),
           asked'[r] = Waits(prep[r], rank'[r])
    PROVE  TrainInv'
<1>1. conf \in Scenarios /\ RankOK(rank[r])
  BY AtWork
<1>2. RankOK(rank'[r])
  BY <1>1, Within, PassTurn
<1>3. prep[r] \in {"opened", "opened in part"}
  BY AtWork
<1> QED
  BY <1>2, <1>3, OneRankAlone

\* An optimizer that is not active is skipped.
LEMMA SkipStep ==
    ASSUME TrainInv, CacheInv', NEW r \in Ranks, SkipOptimizer(r)
    PROVE  TrainInv'
<1> DEFINE R == rank[r]
           X == rank'[r]
<1>1. R.pc = "turn" /\ R.turn \in Turns /\ ~Active(Opt(R.turn), R.iter)
  BY DEF SkipOptimizer, At
<1>2. /\ conf \in Scenarios /\ DOMAIN rank = Ranks /\ DOMAIN R = Fields /\ Trained(R)
      /\ PerEpoch # 0 /\ prep[r] \in {"opened", "opened in part"} /\ asked[r] = NoCall
      /\ R.judged \in Seq(Int) /\ R.best \in Int /\ R.pending \in {0} \cup Turns
  BY <1>1, AtWork
<1>3. UNCHANGED <<conf, cache, prep, asked, disk, crashes>>
  BY DEF SkipOptimizer, Local
<1>4. /\ DOMAIN rank' = Ranks /\ \A s \in Ranks \ {r} : rank'[s] = rank[s]
      /\ X = NextTurn(R)
  BY <1>2 DEF SkipOptimizer
<1>5. /\ Core(R, X) /\ X.turn = R.turn + 1 /\ X.pc = "turn" /\ X.then = R.then
  BY <1>2, <1>4 DEF NextTurn, Core, Fields
<1> HIDE DEF X, R
<1>6. NextTurnOf(X) = R.turn + 1 /\ X.turn \in 1..(Number + 1)
  BY <1>1, <1>2, <1>5, TurnNumbers DEF NextTurnOf
<1>7. Trained(X)
  BY <1>1, <1>2, <1>5 DEF Trained, InTurn, EndingEpoch, Saving, Ended, Core
<1>8. asked'[r] = Waits(prep[r], X)
  BY <1>2, <1>3, <1>5 DEF Waits
<1>9. ~IsDue(R.iter, R.turn) /\ X.pc \in Pcs \ {"start", "open", "close"} /\ X.pc \notin Saving
  BY <1>1, <1>5 DEF IsDue, Pcs, Saving
<1> USE DEF X, R
<1> QED
  BY <1>1, <1>2, <1>3, <1>4, <1>5, <1>6, <1>7, <1>8, <1>9, WithinStep

\* The loss of the optimizer before is read.
LEMMA MonitorLossStep ==
    ASSUME TrainInv, CacheInv', NEW r \in Ranks, MonitorLoss(r)
    PROVE  TrainInv'
<1> DEFINE R == rank[r]
           X == rank'[r]
<1>1. R.pc = "turn" /\ R.turn \in Turns /\ Active(Opt(R.turn), R.iter)
  BY DEF MonitorLoss, At
<1>2. /\ conf \in Scenarios /\ DOMAIN rank = Ranks /\ DOMAIN asked = Ranks /\ DOMAIN R = Fields
      /\ Trained(R) /\ PerEpoch # 0 /\ prep[r] \in {"opened", "opened in part"} /\ asked[r] = NoCall
      /\ R.judged \in Seq(Int) /\ R.best \in Int /\ R.pending \in {0} \cup Turns
  BY <1>1, AtWork
<1>3. UNCHANGED <<conf, cache, prep, disk, crashes>>
  BY DEF MonitorLoss, Same
<1>4. /\ DOMAIN rank' = Ranks /\ \A s \in Ranks \ {r} : rank'[s] = rank[s] /\ asked'[s] = asked[s]
      /\ X.pc \in {"sum cost", "step"}
      /\ asked'[r] = IF X.pc = "sum cost" THEN <<"cost", R.iter, R.turn>> ELSE asked[r]
  BY <1>2 DEF MonitorLoss, Calls, Fields
<1>5. Core(R, X) /\ X.turn = R.turn /\ X.then = R.then
  BY <1>2 DEF MonitorLoss, Core, Fields
<1> HIDE DEF X, R
<1>6. NextTurnOf(X) = NextTurnOf(R) /\ X.turn \in 1..(Number + 1)
  BY <1>1, <1>2, <1>4, <1>5, TurnNumbers DEF NextTurnOf
<1>7. Trained(X)
  BY <1>1, <1>2, <1>4, <1>5 DEF Trained, InTurn, EndingEpoch, Saving, Ended, Core
<1>8. asked'[r] = Waits(prep[r], X)
  BY <1>2, <1>4, <1>5 DEF Waits, Core
<1>9. X.pc \in Pcs \ {"start", "open", "close"} /\ X.pc \notin Saving
  BY <1>4 DEF Pcs, InTurn, Saving
<1> USE DEF X, R
<1> QED
  BY <1>1, <1>2, <1>3, <1>4, <1>5, <1>6, <1>7, <1>8, <1>9, WithinStep

\* The turns of an iteration are over.
LEMMA EndUpdateStep ==
    ASSUME TrainInv, CacheInv', NEW r \in Ranks, EndUpdate(r)
    PROVE  TrainInv'
<1> DEFINE R == rank[r]
           X == rank'[r]
<1>1. R.pc = "turn" /\ R.turn \notin Turns
  BY DEF EndUpdate, At
<1>2. /\ conf \in Scenarios /\ DOMAIN rank = Ranks /\ DOMAIN asked = Ranks /\ DOMAIN R = Fields
      /\ Trained(R) /\ PerEpoch # 0 /\ prep[r] \in {"opened", "opened in part"} /\ asked[r] = NoCall
      /\ R.judged \in Seq(Int) /\ R.best \in Int /\ R.pending \in {0} \cup Turns /\ RankOK(R)
  BY <1>1, AtWork
<1>3. UNCHANGED <<conf, cache, prep, disk, crashes>>
  BY DEF EndUpdate, Same
<1>4. /\ DOMAIN rank' = Ranks /\ \A s \in Ranks \ {r} : rank'[s] = rank[s] /\ asked'[s] = asked[s]
      /\ X.pc \in {"sum cost", "updated"}
      /\ X.pc = "sum cost" => EndsEpoch(R.iter)
      /\ asked'[r] = IF X.pc = "sum cost" THEN <<"cost", R.iter, R.turn>> ELSE asked[r]
  BY <1>2 DEF EndUpdate, Calls, Fields, SumsAtEnd
<1>5. Core(R, X) /\ X.turn = R.turn /\ X.then = R.then
  BY <1>2 DEF EndUpdate, Core, Fields
<1> HIDE DEF X, R
<1>6. R.turn = Number + 1 /\ X.turn \in 1..(Number + 1)
  BY <1>1, <1>2, <1>5, TurnNumbers, RankNumbers
<1>7. NextTurnOf(X) = NextTurnOf(R)
  BY <1>1, <1>4, <1>5 DEF NextTurnOf
<1>8. Trained(X)
  BY <1>1, <1>2, <1>4, <1>5, <1>6 DEF Trained, InTurn, EndingEpoch, Saving, Ended, Core
<1>9. asked'[r] = Waits(prep[r], X)
  BY <1>2, <1>4, <1>5 DEF Waits, Core
<1>10. X.pc \in Pcs \ {"start", "open", "close"} /\ X.pc \notin Saving
  BY <1>4 DEF Pcs, InTurn, Saving
<1> USE DEF X, R
<1> QED
  BY <1>1, <1>2, <1>3, <1>4, <1>5, <1>6, <1>7, <1>8, <1>9, <1>10, WithinStep

\* Forward and backward.
LEMMA StepStep ==
    ASSUME TrainInv, CacheInv', NEW r \in Ranks, Step(r)
    PROVE  TrainInv'
<1> DEFINE R == rank[r]
           X == rank'[r]
<1>1. R.pc = "step"
  BY DEF Step, At
<1>2. /\ conf \in Scenarios /\ DOMAIN rank = Ranks /\ DOMAIN asked = Ranks /\ DOMAIN R = Fields
      /\ Trained(R) /\ PerEpoch # 0 /\ prep[r] \in {"opened", "opened in part"} /\ asked[r] = NoCall
      /\ R.judged \in Seq(Int) /\ R.best \in Int /\ R.pending \in {0} \cup Turns
  BY <1>1, AtWork
<1>3. UNCHANGED <<conf, cache, prep, disk, crashes>>
  BY DEF Step, Same
<1>4. /\ DOMAIN rank' = Ranks /\ \A s \in Ranks \ {r} : rank'[s] = rank[s] /\ asked'[s] = asked[s]
      /\ X.pc = IF Due(Opt(R.turn), R.iter) THEN "reduce" ELSE "reserve"
      /\ asked'[r] = IF X.pc = "reduce" THEN <<"grads", R.iter, R.turn>> ELSE asked[r]
  BY <1>2 DEF Step, Calls, Fields
<1>5. Core(R, X) /\ X.turn = R.turn /\ X.then = R.then
  BY <1>2 DEF Step, Core, Fields
<1> HIDE DEF X, R
<1>6. /\ R.turn \in Turns /\ X.turn \in 1..(Number + 1)
      /\ IF X.pc = "reduce" THEN NextTurnOf(X) = NextTurnOf(R)
         ELSE ~IsDue(R.iter, R.turn) /\ NextTurnOf(X) = R.turn + 1
  BY <1>1, <1>2, <1>4, <1>5, TurnNumbers DEF NextTurnOf, Trained, InTurn, IsDue
<1>7. Trained(X)
  BY <1>1, <1>2, <1>4, <1>5 DEF Trained, InTurn, EndingEpoch, Saving, Ended, Core
<1>8. asked'[r] = Waits(prep[r], X)
  BY <1>2, <1>4, <1>5 DEF Waits, Core
<1>9. X.pc \in Pcs \ {"start", "open", "close"} /\ X.pc \notin Saving
  BY <1>4 DEF Pcs, InTurn, Saving
<1> USE DEF X, R
<1> QED
  BY <1>1, <1>2, <1>3, <1>4, <1>5, <1>6, <1>7, <1>8, <1>9, WithinStep

\* The loss is kept for the next turn.
LEMMA ReserveStep ==
    ASSUME TrainInv, CacheInv', NEW r \in Ranks, ReserveLoss(r)
    PROVE  TrainInv'
<1> DEFINE R == rank[r]
           X == rank'[r]
<1>1. R.pc = "reserve"
  BY DEF ReserveLoss, At
<1>2. /\ conf \in Scenarios /\ DOMAIN rank = Ranks /\ DOMAIN asked = Ranks /\ DOMAIN R = Fields
      /\ Trained(R) /\ PerEpoch # 0 /\ prep[r] \in {"opened", "opened in part"} /\ asked[r] = NoCall
      /\ R.judged \in Seq(Int) /\ R.best \in Int /\ R.pending \in {0} \cup Turns /\ RankOK(R)
  BY <1>1, AtWork
<1>3. UNCHANGED <<conf, cache, prep, asked, disk, crashes>>
  BY DEF ReserveLoss, Local
<1>4. /\ DOMAIN rank' = Ranks /\ \A s \in Ranks \ {r} : rank'[s] = rank[s]
      /\ X.pc \in {"turn"}
  BY <1>2 DEF ReserveLoss, Fields, NextTurn
<1>5. Core(R, X) /\ X.turn = R.turn + 1 /\ X.then = R.then
  <2>1. R.turn \in Turns
    BY <1>1, <1>2 DEF Trained, InTurn
  <2> DEFINE P == [R EXCEPT !.pending = R.turn]
  <2>2. /\ DOMAIN P = Fields /\ P.pending \in {0} \cup Turns /\ P.turn = R.turn /\ P.then = R.then
        /\ P.iter = R.iter /\ P.applied = R.applied /\ P.states = R.states
        /\ P.judged = R.judged /\ P.best = R.best
    BY <1>2, <2>1 DEF Fields
  <2>3. X = NextTurn(P)
    BY <1>2 DEF ReserveLoss
  <2> HIDE DEF P
  <2>4. /\ DOMAIN X = Fields /\ X.turn = P.turn + 1 /\ X.then = P.then /\ X.pending = P.pending
        /\ X.iter = P.iter /\ X.applied = P.applied /\ X.states = P.states
        /\ X.judged = P.judged /\ X.best = P.best
    BY <2>2, <2>3 DEF NextTurn, Fields
  <2> HIDE DEF X, R
  <2> QED
    BY <1>2, <2>2, <2>4 DEF Core
<1> HIDE DEF X, R
<1>6. NextTurnOf(X) = NextTurnOf(R) /\ X.turn \in 1..(Number + 1)
  BY <1>1, <1>2, <1>4, <1>5, TurnNumbers, RankNumbers DEF NextTurnOf, Trained, InTurn
<1>7. Trained(X)
  BY <1>1, <1>2, <1>4, <1>5 DEF Trained, InTurn, EndingEpoch, Saving, Ended, Core
<1>8. asked'[r] = Waits(prep[r], X)
  BY <1>2, <1>3, <1>4, <1>5 DEF Waits, Core
<1>9. X.pc \in Pcs \ {"start", "open", "close"} /\ (X.pc \in Saving => r = 1)
  BY <1>4 DEF Pcs, InTurn, EndingEpoch, Saving, Ended
<1> USE DEF X, R
<1> QED
  BY <1>1, <1>2, <1>3, <1>4, <1>5, <1>6, <1>7, <1>8, <1>9, WithinStep

\* A training that cannot go on ends.
LEMMA FailStep ==
    ASSUME TrainInv, CacheInv', NEW r \in Ranks, Fail(r)
    PROVE  TrainInv'
<1> DEFINE R == rank[r]
           X == rank'[r]
<1>1. R.pc = "updated"
  BY DEF Fail, At
<1>2. /\ conf \in Scenarios /\ DOMAIN rank = Ranks /\ DOMAIN asked = Ranks /\ DOMAIN R = Fields
      /\ Trained(R) /\ PerEpoch # 0 /\ prep[r] \in {"opened", "opened in part"} /\ asked[r] = NoCall
      /\ R.judged \in Seq(Int) /\ R.best \in Int /\ R.pending \in {0} \cup Turns /\ RankOK(R)
  BY <1>1, AtWork
<1>3. UNCHANGED <<conf, cache, prep, asked, disk, crashes>>
  BY DEF Fail, Local
<1>4. /\ DOMAIN rank' = Ranks /\ \A s \in Ranks \ {r} : rank'[s] = rank[s]
      /\ X.pc \in {"failed"}
  BY <1>2 DEF Fail, Fields
<1>5. Core(R, X) /\ X.turn = R.turn /\ X.then = R.then
  BY <1>2 DEF Fail, Core, Fields
<1> HIDE DEF X, R
<1>6. NextTurnOf(X) = NextTurnOf(R) /\ X.turn \in 1..(Number + 1)
  BY <1>1, <1>2, <1>4, <1>5, TurnNumbers, RankNumbers DEF NextTurnOf
<1>7. Trained(X)
  BY <1>1, <1>2, <1>4, <1>5 DEF Trained, InTurn, EndingEpoch, Saving, Ended, Core
<1>8. asked'[r] = Waits(prep[r], X)
  BY <1>2, <1>3, <1>4, <1>5 DEF Waits, Core
<1>9. X.pc \in Pcs \ {"start", "open", "close"} /\ (X.pc \in Saving => r = 1)
  BY <1>4 DEF Pcs, InTurn, EndingEpoch, Saving, Ended
<1> USE DEF X, R
<1> QED
  BY <1>1, <1>2, <1>3, <1>4, <1>5, <1>6, <1>7, <1>8, <1>9, WithinStep

\* A batch of the evaluation.
LEMMA ForwardMonitorStep ==
    ASSUME TrainInv, CacheInv', NEW r \in Ranks, ForwardMonitor(r)
    PROVE  TrainInv'
<1> DEFINE R == rank[r]
           X == rank'[r]
<1>1. R.pc = "forward"
  BY DEF ForwardMonitor, At
<1>2. /\ conf \in Scenarios /\ DOMAIN rank = Ranks /\ DOMAIN asked = Ranks /\ DOMAIN R = Fields
      /\ Trained(R) /\ PerEpoch # 0 /\ prep[r] \in {"opened", "opened in part"} /\ asked[r] = NoCall
      /\ R.judged \in Seq(Int) /\ R.best \in Int /\ R.pending \in {0} \cup Turns /\ RankOK(R)
  BY <1>1, AtWork
<1>3. UNCHANGED <<conf, cache, prep, asked, disk, crashes>>
  BY DEF ForwardMonitor, Local
<1>4. /\ DOMAIN rank' = Ranks /\ \A s \in Ranks \ {r} : rank'[s] = rank[s]
      /\ X.pc \in {"evaluate"}
  BY <1>2 DEF ForwardMonitor, Fields
<1>5. Core(R, X) /\ X.turn = R.turn /\ X.then = R.then
  BY <1>2 DEF ForwardMonitor, Core, Fields
<1> HIDE DEF X, R
<1>6. NextTurnOf(X) = NextTurnOf(R) /\ X.turn \in 1..(Number + 1)
  BY <1>1, <1>2, <1>4, <1>5, TurnNumbers, RankNumbers DEF NextTurnOf
<1>7. Trained(X)
  BY <1>1, <1>2, <1>4, <1>5 DEF Trained, InTurn, EndingEpoch, Saving, Ended, Core
<1>8. asked'[r] = Waits(prep[r], X)
  BY <1>2, <1>3, <1>4, <1>5 DEF Waits, Core
<1>9. X.pc \in Pcs \ {"start", "open", "close"} /\ (X.pc \in Saving => r = 1)
  BY <1>4 DEF Pcs, InTurn, EndingEpoch, Saving, Ended
<1> USE DEF X, R
<1> QED
  BY <1>1, <1>2, <1>3, <1>4, <1>5, <1>6, <1>7, <1>8, <1>9, WithinStep

\* The error of the batch before is read.
LEMMA MonitorErrorStep ==
    ASSUME TrainInv, CacheInv', NEW r \in Ranks, MonitorError(r)
    PROVE  TrainInv'
<1> DEFINE R == rank[r]
           X == rank'[r]
<1>1. R.pc = "evaluate"
  BY DEF MonitorError, At
<1>2. /\ conf \in Scenarios /\ DOMAIN rank = Ranks /\ DOMAIN asked = Ranks /\ DOMAIN R = Fields
      /\ Trained(R) /\ PerEpoch # 0 /\ prep[r] \in {"opened", "opened in part"} /\ asked[r] = NoCall
      /\ R.judged \in Seq(Int) /\ R.best \in Int /\ R.pending \in {0} \cup Turns /\ RankOK(R)
  BY <1>1, AtWork
<1>3. UNCHANGED <<conf, cache, prep, disk, crashes>>
  BY DEF MonitorError, Same
<1>4. /\ DOMAIN rank' = Ranks /\ \A s \in Ranks \ {r} : rank'[s] = rank[s] /\ asked'[s] = asked[s]
      /\ X.pc \in {"sum error", "forward"}
      /\ X.batch = R.batch
      /\ asked'[r] = IF X.pc = "sum error" THEN <<"error", R.iter, R.batch>> ELSE asked[r]
  BY <1>2 DEF MonitorError, Calls, Fields
<1>5. Core(R, X) /\ X.turn = R.turn /\ X.then = R.then
  BY <1>2 DEF MonitorError, Core, Fields
<1> HIDE DEF X, R
<1>6. NextTurnOf(X) = NextTurnOf(R) /\ X.turn \in 1..(Number + 1)
  BY <1>1, <1>2, <1>4, <1>5, TurnNumbers, RankNumbers DEF NextTurnOf
<1>7. Trained(X)
  BY <1>1, <1>2, <1>4, <1>5 DEF Trained, InTurn, EndingEpoch, Saving, Ended, Core
<1>8. asked'[r] = Waits(prep[r], X)
  BY <1>2, <1>3, <1>4, <1>5 DEF Waits, Core
<1>9. X.pc \in Pcs \ {"start", "open", "close"} /\ (X.pc \in Saving => r = 1)
  BY <1>4 DEF Pcs, InTurn, EndingEpoch, Saving, Ended
<1> USE DEF X, R
<1> QED
  BY <1>1, <1>2, <1>3, <1>4, <1>5, <1>6, <1>7, <1>8, <1>9, WithinStep

\* An epoch ends.
LEMMA EndEpochStep ==
    ASSUME TrainInv, CacheInv', NEW r \in Ranks, EndEpoch(r)
    PROVE  TrainInv'
<1> DEFINE R == rank[r]
           X == rank'[r]
<1>1. R.pc = "updated"
  BY DEF EndEpoch, At
<1>2. /\ conf \in Scenarios /\ DOMAIN rank = Ranks /\ DOMAIN asked = Ranks /\ DOMAIN R = Fields
      /\ Trained(R) /\ PerEpoch # 0 /\ prep[r] \in {"opened", "opened in part"} /\ asked[r] = NoCall
      /\ R.judged \in Seq(Int) /\ R.best \in Int /\ R.pending \in {0} \cup Turns /\ RankOK(R)
  BY <1>1, AtWork
<1>3. UNCHANGED <<conf, cache, prep, asked, disk, crashes>>
  BY DEF EndEpoch, Local
<1>4. /\ DOMAIN rank' = Ranks /\ \A s \in Ranks \ {r} : rank'[s] = rank[s]
      /\ X.pc \in {"evaluate", "report"} /\ EndsEpoch(R.iter)
  BY <1>2 DEF EndEpoch, Fields
<1>5. Core(R, X) /\ X.turn = R.turn /\ X.then = R.then
  BY <1>2 DEF EndEpoch, Core, Fields
<1> HIDE DEF X, R
<1>6. NextTurnOf(X) = NextTurnOf(R) /\ X.turn \in 1..(Number + 1)
  BY <1>1, <1>2, <1>4, <1>5, TurnNumbers, RankNumbers DEF NextTurnOf
<1>7. Trained(X)
  BY <1>1, <1>2, <1>4, <1>5 DEF Trained, InTurn, EndingEpoch, Saving, Ended, Core
<1>8. asked'[r] = Waits(prep[r], X)
  BY <1>2, <1>3, <1>4, <1>5 DEF Waits, Core
<1>9. X.pc \in Pcs \ {"start", "open", "close"} /\ (X.pc \in Saving => r = 1)
  BY <1>4 DEF Pcs, InTurn, EndingEpoch, Saving, Ended
<1> USE DEF X, R
<1> QED
  BY <1>1, <1>2, <1>3, <1>4, <1>5, <1>6, <1>7, <1>8, <1>9, WithinStep

\* The update is made.
LEMMA ApplyUpdateStep ==
    ASSUME TrainInv, CacheInv', NEW r \in Ranks, ApplyUpdate(r)
    PROVE  TrainInv'
<1> DEFINE R == rank[r]
           X == rank'[r]
<1>1. R.pc = "apply"
  BY DEF ApplyUpdate, At
<1>2. /\ conf \in Scenarios /\ DOMAIN rank = Ranks /\ DOMAIN asked = Ranks /\ DOMAIN R = Fields
      /\ Trained(R) /\ PerEpoch # 0 /\ prep[r] \in {"opened", "opened in part"} /\ asked[r] = NoCall
      /\ R.judged \in Seq(Int) /\ R.best \in Int /\ R.pending \in {0} \cup Turns /\ RankOK(R)
  BY <1>1, AtWork
<1>3. UNCHANGED <<conf, cache, prep, asked, disk, crashes>>
  BY DEF ApplyUpdate, Local
<1>4. DOMAIN rank' = Ranks /\ \A s \in Ranks \ {r} : rank'[s] = rank[s]
  BY <1>2 DEF ApplyUpdate
<1> DEFINE u == [iter |-> R.iter, turn |-> R.turn, from |-> R.from,
                 grads |-> [p \in Opt(R.turn).params |-> R.grads[p]]]
<1>5. /\ u.iter = R.iter /\ u.turn = R.turn
      /\ X.applied = R.applied \cup {u} /\ X.states = R.states \cup {u}
  BY <1>2 DEF ApplyUpdate, Fields
<1>6. /\ DOMAIN X = Fields /\ X.pc = "reserve" /\ X.iter = R.iter /\ X.turn = R.turn
      /\ X.judged = R.judged /\ X.best = R.best /\ X.pending = R.pending /\ X.then = R.then
  BY <1>2 DEF ApplyUpdate, Fields
<1> HIDE DEF X, R, u
<1>7. RankOK(X)
  BY <1>1, <1>2, <1>5, <1>6, MakeUpdate
<1>8. asked'[r] = Waits(prep[r], X)
  BY <1>2, <1>3, <1>6 DEF Waits
<1> USE DEF X, R
<1> QED
  BY <1>2, <1>3, <1>4, <1>6, <1>7, <1>8, OneRankAlone DEF Saving

\* The next iteration, or the end of the training.
LEMMA NextIterationGood ==
    ASSUME conf \in Scenarios, PerEpoch # 0, NEW r
    PROVE  \A R, S :
        /\ RankOK(R) /\ R.turn = Number + 1 /\ R.pc \in {"updated", "report", "saved"}
        /\ Core(R, S) /\ S.turn = R.turn
        => /\ RankOK(NextIteration(S, r))
           /\ NextIteration(S, r).pc \in {"turn", "unlink", "done"}
           /\ NextIteration(S, r).pc = "unlink" => r = 1
<1>0. \A i \in Nat, m \in Nat : i < m /\ ~(i + 1 < m) => i + 1 = m
  OBVIOUS
<1> SUFFICES ASSUME NEW R, NEW S, RankOK(R), R.turn = Number + 1,
                    R.pc \in {"updated", "report", "saved"}, Core(R, S), S.turn = R.turn
             PROVE  /\ RankOK(NextIteration(S, r))
                    /\ NextIteration(S, r).pc \in {"turn", "unlink", "done"}
                    /\ NextIteration(S, r).pc = "unlink" => r = 1
  OBVIOUS
<1> DEFINE X == NextIteration(S, r)
<1>1. Trained(R) /\ R.iter \in Nat /\ R.iter < MaxIteration /\ S.iter = R.iter
  <2>1. Trained(R)
    BY DEF RankOK
  <2>2. R.iter < MaxIteration
    BY <2>1 DEF Trained, Ended
  <2> QED
    BY <2>1, <2>2, RankNumbers DEF Core
<1>2. CASE R.iter + 1 < MaxIteration
  <2>1. X = [S EXCEPT !.pc = "turn", !.iter = S.iter + 1, !.turn = 1, !.first = TRUE, !.then = ""]
    BY <1>1, <1>2 DEF NextIteration
  <2>2. /\ DOMAIN X = Fields /\ X.pc = "turn" /\ X.iter = R.iter + 1 /\ X.turn = 1 /\ X.then = ""
        /\ X.applied = R.applied /\ X.states = R.states
        /\ X.judged \in Seq(Int) /\ X.best \in Int /\ X.pending \in {0} \cup Turns
    BY <1>1, <2>1 DEF Core, Fields
  <2> HIDE DEF X
  <2>3. RankOK(X)
    BY <1>2, <2>2, PassIteration
  <2> QED
    BY <2>2, <2>3 DEF X
<1>3. CASE ~(R.iter + 1 < MaxIteration)
  <2>1. X = [S EXCEPT !.pc = IF r = 1 THEN "unlink" ELSE "done", !.then = "done"]
    BY <1>1, <1>3 DEF NextIteration
  <2>2. Core(R, X) /\ X.turn = R.turn /\ X.then = "done" /\ X.pc = IF r = 1 THEN "unlink" ELSE "done"
    BY <1>1, <2>1 DEF Core, Fields
  <2>3. EndsEpoch(R.iter)
    <3>1. R.iter + 1 = MaxIteration
      BY <1>0, <1>1, <1>3, Project
    <3>2. MaxIteration = conf.maxEpoch * PerEpoch /\ PerEpoch \in Nat \ {0} /\ conf.maxEpoch \in Nat
      BY Project
    <3>3. R.iter + 1 = conf.maxEpoch * PerEpoch
      BY <3>1, <3>2, Zenon
    <3> QED
      BY <1>1, <3>2, <3>3, EndIsEndOfEpoch DEF EndsEpoch
  <2> HIDE DEF X
  <2>4. Trained(X)
    BY <1>1, <2>2, <2>3 DEF Trained, InTurn, EndingEpoch, Saving, Ended, Core
  <2>5. NextTurnOf(X) = NextTurnOf(R) /\ X.turn \in 1..(Number + 1)
    BY <2>2, RankNumbers DEF NextTurnOf
  <2>6. X.pc \in Pcs \ {"start"} /\ X.pc \in {"turn", "unlink", "done"} /\ (X.pc = "unlink" => r = 1)
    BY <2>2 DEF Pcs, EndingEpoch, Saving, Ended
  <2>7. RankOK(X)
    BY <2>2, <2>4, <2>5, <2>6, Within
  <2> QED
    BY <2>6, <2>7 DEF X
<1> QED
  BY <1>2, <1>3

\* A rank that has ended an epoch, or an iteration within one.
LEMMA TurnsDone ==
    ASSUME conf \in Scenarios, PerEpoch # 0
    PROVE  \A R : Trained(R) /\ R.pc \in {"updated"} \cup EndingEpoch =>
                R.turn = Number + 1 /\ R.iter < MaxIteration
BY DEF Trained, EndingEpoch, Saving, Ended

\* An iteration ends within an epoch.
LEMMA ContinueStep ==
    ASSUME TrainInv, CacheInv', NEW r \in Ranks, Continue(r)
    PROVE  TrainInv'
<1> DEFINE R == rank[r]
           X == rank'[r]
<1>1. R.pc = "updated"
  BY DEF Continue, At
<1>2. /\ conf \in Scenarios /\ DOMAIN rank = Ranks /\ DOMAIN R = Fields
      /\ Trained(R) /\ PerEpoch # 0 /\ prep[r] \in {"opened", "opened in part"} /\ asked[r] = NoCall
      /\ R.judged \in Seq(Int) /\ R.best \in Int /\ R.pending \in {0} \cup Turns /\ RankOK(R)
  BY <1>1, AtWork
<1>3. UNCHANGED <<conf, cache, prep, asked, disk, crashes>>
  BY DEF Continue, Local
<1>4. /\ DOMAIN rank' = Ranks /\ \A s \in Ranks \ {r} : rank'[s] = rank[s]
      /\ X = NextIteration(R, r)
  BY <1>2 DEF Continue
<1>5. Core(R, R) /\ R.turn = Number + 1
  BY <1>1, <1>2, TurnsDone DEF Core
<1> HIDE DEF X, R
<1>6. RankOK(X) /\ X.pc \in {"turn", "unlink", "done"} /\ (X.pc = "unlink" => r = 1)
  BY <1>1, <1>2, <1>4, <1>5, NextIterationGood
<1>7. asked'[r] = Waits(prep[r], X)
  BY <1>2, <1>3, <1>6 DEF Waits
<1> USE DEF X, R
<1> QED
  BY <1>2, <1>3, <1>4, <1>6, <1>7, OneRankAlone DEF Saving

\* After the parameters were saved.
LEMMA CheckTrainingTimeStep ==
    ASSUME TrainInv, CacheInv', NEW r \in Ranks, CheckTrainingTime(r)
    PROVE  TrainInv'
<1> DEFINE R == rank[r]
           X == rank'[r]
<1>1. R.pc = "saved"
  BY DEF CheckTrainingTime, At
<1>2. /\ conf \in Scenarios /\ DOMAIN rank = Ranks /\ DOMAIN R = Fields
      /\ Trained(R) /\ PerEpoch # 0 /\ prep[r] \in {"opened", "opened in part"} /\ asked[r] = NoCall
      /\ R.judged \in Seq(Int) /\ R.best \in Int /\ R.pending \in {0} \cup Turns /\ RankOK(R)
  BY <1>1, AtWork
<1>3. r = 1 /\ R.turn = Number + 1
  BY <1>1, <1>2, AtWork, TurnsDone DEF EndingEpoch, Saving
<1>4. UNCHANGED <<conf, cache, prep, asked, disk, crashes>>
  BY DEF CheckTrainingTime, Local
<1>5. /\ DOMAIN rank' = Ranks /\ \A s \in Ranks \ {r} : rank'[s] = rank[s]
      /\ X = NextIteration(R, r) \/ X = [R EXCEPT !.pc = "unlink", !.then = "stopped"]
  BY <1>2 DEF CheckTrainingTime
<1>6. Core(R, R)
  BY <1>2 DEF Core
<1>7. RankOK(X) /\ X.pc \in {"turn", "unlink", "done"}
  <2>1. CASE X = NextIteration(R, r)
    <3> HIDE DEF X, R
    <3> QED
      BY <1>1, <1>2, <1>3, <1>6, <2>1, NextIterationGood
  <2>2. CASE X = [R EXCEPT !.pc = "unlink", !.then = "stopped"]
    <3>1. Core(R, X) /\ X.turn = R.turn /\ X.pc = "unlink" /\ X.then = "stopped"
      BY <1>2, <2>2 DEF Core, Fields
    <3> HIDE DEF X, R
    <3>2. NextTurnOf(X) = NextTurnOf(R) /\ X.turn \in 1..(Number + 1)
      BY <1>1, <1>2, <3>1, RankNumbers DEF NextTurnOf
    <3>3. Trained(X)
      BY <1>1, <1>2, <3>1 DEF Trained, InTurn, EndingEpoch, Saving, Ended, Core
    <3>4. X.pc \in Pcs \ {"start"}
      BY <3>1 DEF Pcs, EndingEpoch, Saving
    <3> QED
      BY <1>2, <3>1, <3>2, <3>3, <3>4, Within
  <2> QED
    BY <1>5, <2>1, <2>2
<1>8. asked'[r] = Waits(prep[r], X)
  BY <1>2, <1>4, <1>7 DEF Waits
<1> QED
  BY <1>2, <1>3, <1>4, <1>5, <1>7, <1>8, OneRankAlone DEF Saving

\* The error of an epoch is a number.
LEMMA ErrorIsNumber ==
    ASSUME conf \in Scenarios, PerEpoch # 0
    PROVE  \A i \in Nat : i < MaxIteration =>
                Epoch(i) \in 1..conf.maxEpoch /\ Error(Epoch(i)) \in Int
<1>1. PerEpoch \in Nat \ {0} /\ conf.maxEpoch \in Nat /\ MaxIteration = conf.maxEpoch * PerEpoch
  BY Project
<1> SUFFICES ASSUME NEW i \in Nat, i < MaxIteration
             PROVE  Epoch(i) \in 1..conf.maxEpoch /\ Error(Epoch(i)) \in Int
  OBVIOUS
<1>2. i < conf.maxEpoch * PerEpoch
  BY <1>1, Zenon
<1>3. i \div PerEpoch + 1 \in 1..conf.maxEpoch
  BY <1>1, <1>2, EpochInRange
<1>4. Epoch(i) \in 1..conf.maxEpoch
  BY <1>3 DEF Epoch
<1>5. conf.errors[Epoch(i)] \in Int
  BY <1>4, ProjectAssumption
<1> QED
  BY <1>4, <1>5 DEF Error

\* The errors with one more are numbers still.
LEMMA Appended == \A s \in Seq(Int), e \in Int : Append(s, e) \in Seq(Int)
OBVIOUS

\* The error of the epoch is judged.
LEMMA JudgeStep ==
    ASSUME TrainInv, CacheInv', NEW r \in Ranks, Judge(r)
    PROVE  TrainInv'
<1> DEFINE R == rank[r]
           X == rank'[r]
           error == IF R.count = 0 THEN 0 ELSE Error(Epoch(R.iter))
<1>1. R.pc = "judge"
  BY DEF Judge, At
<1>2. /\ conf \in Scenarios /\ DOMAIN rank = Ranks /\ DOMAIN R = Fields
      /\ Trained(R) /\ PerEpoch # 0 /\ prep[r] \in {"opened", "opened in part"} /\ asked[r] = NoCall
      /\ R.judged \in Seq(Int) /\ R.best \in Int /\ R.pending \in {0} \cup Turns /\ RankOK(R)
  BY <1>1, AtWork
<1>3. UNCHANGED <<conf, cache, prep, asked, disk, crashes>>
  BY DEF Judge, Local
<1>4. R.turn = Number + 1 /\ R.iter < MaxIteration /\ R.iter \in Nat
  BY <1>1, <1>2, TurnsDone, RankNumbers DEF EndingEpoch
<1>5. error \in Int
  <2>1. Error(Epoch(R.iter)) \in Int
    <3> HIDE DEF R
    <3> QED
      BY <1>2, <1>4, ErrorIsNumber
  <2> QED
    BY <2>1
<1> DEFINE judged == Append(R.judged, error)
           J == [R EXCEPT !.judged = judged]
<1>a. judged \in Seq(Int)
  <2>1. R.judged \in Seq(Int)
    BY <1>2
  <2> HIDE DEF R, error
  <2> QED
    BY <1>5, <2>1, Appended, Zenon
<1> HIDE DEF error
<1>b. J = [R EXCEPT !.judged = Append(R.judged, error)]
  OBVIOUS
<1> HIDE DEF judged
<1>6. /\ DOMAIN J = Fields /\ J.judged \in Seq(Int) /\ J.best = R.best /\ J.pending = R.pending
      /\ J.iter = R.iter /\ J.applied = R.applied /\ J.states = R.states
      /\ J.turn = R.turn /\ J.then = R.then
  <2>1. /\ DOMAIN R = Fields /\ judged \in Seq(Int)
    BY <1>2, <1>a
  <2> HIDE DEF R
  <2> QED
    BY <2>1 DEF Fields
<1>7. /\ DOMAIN rank' = Ranks /\ \A s \in Ranks \ {r} : rank'[s] = rank[s]
      /\ \/ r = 1 /\ X = [J EXCEPT !.best = error, !.pc = "best"]
         \/ X = [J EXCEPT !.pc = "report"]
  <2>1. X = IF r = 1 /\ IsBest(R, error)
            THEN [[R EXCEPT !.judged = Append(R.judged, error)] EXCEPT !.best = error, !.pc = "best"]
            ELSE [[R EXCEPT !.judged = Append(R.judged, error)] EXCEPT !.pc = "report"]
    BY <1>2 DEF Judge, error
  <2>2. DOMAIN rank' = Ranks /\ \A s \in Ranks \ {r} : rank'[s] = rank[s]
    BY <1>2 DEF Judge
  <2> HIDE DEF R, X, J
  <2> QED
    BY <1>b, <2>1, <2>2
<1> HIDE DEF J
<1>8. Core(R, X) /\ X.turn = R.turn /\ X.then = R.then /\ X.pc \in {"best", "report"}
      /\ (X.pc = "best" => r = 1)
  BY <1>2, <1>5, <1>6, <1>7, ZenonT(40) DEF Core, Fields
<1> HIDE DEF X, R
<1>9. NextTurnOf(X) = NextTurnOf(R) /\ X.turn \in 1..(Number + 1)
  BY <1>1, <1>2, <1>8, RankNumbers DEF NextTurnOf
<1>10. Trained(X)
  BY <1>1, <1>2, <1>8 DEF Trained, InTurn, EndingEpoch, Saving, Ended, Core
<1>11. asked'[r] = Waits(prep[r], X)
  BY <1>2, <1>3, <1>8 DEF Waits
<1>12. X.pc \in Pcs \ {"start", "open", "close"} /\ (X.pc \in Saving => r = 1)
  BY <1>8 DEF Pcs, EndingEpoch, Saving
<1> USE DEF X, R
<1> QED
  BY <1>1, <1>2, <1>3, <1>7, <1>8, <1>9, <1>10, <1>11, <1>12, WithinStep

\* Rank 1 saves the best parameters or reports.
LEMMA DiskMoves ==
    ASSUME DiskOK, UNCHANGED conf,
           DOMAIN disk' = DOMAIN disk, disk'.current = disk.current,
           \E c : disk'.best \subseteq {c},
           rank'[1].pc \notin {"open", "close"}
    PROVE  DiskOK'
<1>1. \A c : ArchiveOK(c)' <=> ArchiveOK(c)
  BY SameRankOK
<1> QED
  BY <1>1 DEF DiskOK

\* The best parameters are saved.
LEMMA BestStep ==
    ASSUME TrainInv, CacheInv', NEW r \in Ranks, OpenBest(r) \/ CloseBest(r)
    PROVE  TrainInv'
<1> DEFINE R == rank[r]
           X == rank'[r]
<1>1. R.pc \in {"best", "close best"}
  BY DEF OpenBest, CloseBest, At
<1>2. /\ conf \in Scenarios /\ DOMAIN rank = Ranks /\ DOMAIN R = Fields /\ r = 1
      /\ (IF PerEpoch = 0 THEN Untrained(R) ELSE Trained(R)) /\ asked[r] = NoCall
      /\ prep[r] \in {"opened", "opened in part"} \/ (prep[r] = "open" /\ PerEpoch = 0)
      /\ R.judged \in Seq(Int) /\ R.best \in Int /\ R.pending \in {0} \cup Turns /\ RankOK(R)
  BY <1>1, AtWork DEF Saving
<1>3. /\ UNCHANGED <<conf, cache, prep, asked, crashes>>
      /\ DiskOK
  BY DEF OpenBest, CloseBest, Same, TrainInv
<1>4. \E a : disk' = [disk EXCEPT !.best = {a}]
  BY DEF OpenBest, CloseBest
<1>5. DOMAIN disk' = DOMAIN disk /\ disk'.current = disk.current /\ \E c : disk'.best \subseteq {c}
  BY <1>3, <1>4 DEF DiskOK
<1>6. /\ DOMAIN rank' = Ranks /\ \A s \in Ranks \ {r} : rank'[s] = rank[s]
      /\ Core(R, X) /\ X.turn = R.turn /\ X.then = R.then
      /\ \/ X.pc = "close best"
         \/ R.pc = "close best" /\ X.pc = IF R.then = "done" THEN "done" ELSE "report"
      /\ X.judged = R.judged
  <2>1. \E pc : /\ rank' = [rank EXCEPT ![r].pc = pc]
                /\ \/ pc = "close best"
                   \/ R.pc = "close best" /\ pc = IF R.then = "done" THEN "done" ELSE "report"
    BY DEF OpenBest, CloseBest, At
  <2>2. PICK pc : /\ rank' = [rank EXCEPT ![r].pc = pc]
                  /\ \/ pc = "close best"
                     \/ R.pc = "close best" /\ pc = IF R.then = "done" THEN "done" ELSE "report"
    BY <2>1
  <2>3. /\ DOMAIN rank' = Ranks /\ \A s \in Ranks \ {r} : rank'[s] = rank[s]
        /\ X = [R EXCEPT !.pc = pc]
    BY <1>2, <2>2
  <2> HIDE DEF X, R
  <2>4. Core(R, X) /\ X.turn = R.turn /\ X.then = R.then /\ X.judged = R.judged /\ X.pc = pc
    BY <1>2, <2>3 DEF Core, Fields
  <2> QED
    BY <2>2, <2>3, <2>4
<1> HIDE DEF X, R
<1>8. NextTurnOf(X) = NextTurnOf(R) /\ X.turn \in 1..(Number + 1) /\ X.pc \in Pcs \ {"start"}
  BY <1>1, <1>2, <1>6, RankNumbers DEF NextTurnOf, Pcs, EndingEpoch, Saving, Ended
<1>9. RankOK(X)
  <2>1. CASE PerEpoch # 0
    <3>1. Trained(X)
      BY <1>1, <1>2, <1>6, <2>1 DEF Trained, InTurn, EndingEpoch, Saving, Ended, Core
    <3> QED
      BY <1>2, <1>6, <1>8, <2>1, <3>1, Within
  <2>2. CASE PerEpoch = 0
    <3>1. Untrained(X)
      BY <1>1, <1>2, <1>6, <2>2 DEF Untrained, Core
    <3> QED
      BY <1>2, <1>6, <1>8, <2>2, <3>1 DEF RankOK, Core, Typed
  <2> QED
    BY <2>1, <2>2
<1>10. asked'[r] = Waits(prep[r], X) /\ X.pc \notin {"open", "close"}
  BY <1>2, <1>3, <1>6 DEF Waits
<1> USE DEF X, R
<1>11. DiskOK'
  BY <1>2, <1>3, <1>5, <1>10, DiskMoves
<1> QED
  BY <1>2, <1>3, <1>6, <1>9, <1>10, <1>11, OneRank

\* An epoch is reported.
LEMMA ReportStep ==
    ASSUME TrainInv, CacheInv', NEW r \in Ranks, Report(r)
    PROVE  TrainInv'
<1> DEFINE R == rank[r]
           X == rank'[r]
           S == [R EXCEPT !.average = <<>>, !.errors = <<>>, !.count = 0]
<1>1. R.pc = "report"
  BY DEF Report, At
<1>2. /\ conf \in Scenarios /\ DOMAIN rank = Ranks /\ DOMAIN R = Fields
      /\ Trained(R) /\ PerEpoch # 0 /\ prep[r] \in {"opened", "opened in part"} /\ asked[r] = NoCall
      /\ R.judged \in Seq(Int) /\ R.best \in Int /\ R.pending \in {0} \cup Turns /\ RankOK(R)
  BY <1>1, AtWork
<1>3. UNCHANGED <<conf, cache, prep, asked, crashes>>
  BY DEF Report, Same
<1>4. \E late \in BOOLEAN :
        rank' = [rank EXCEPT ![r] =
                    IF r # 1 THEN NextIteration(S, r)
                    ELSE IF MaySave(R) /\ (late \/ MustSave(R))
                    THEN [S EXCEPT !.pc = "unlink", !.then = "next"]
                    ELSE [S EXCEPT !.pc = "saved"]]
  BY DEF Report
<1>5. /\ DOMAIN rank' = Ranks /\ \A s \in Ranks \ {r} : rank'[s] = rank[s]
      /\ \/ r # 1 /\ X = NextIteration(S, r)
         \/ r = 1 /\ X = [S EXCEPT !.pc = "unlink", !.then = "next"]
         \/ r = 1 /\ X = [S EXCEPT !.pc = "saved"]
  <2> HIDE DEF S
  <2> QED
    BY <1>2, <1>4
<1>6. Core(R, S) /\ S.turn = R.turn /\ S.then = R.then
  <2> HIDE DEF R
  <2> QED
    BY <1>2 DEF Core, Fields
<1>7. /\ IF r # 1 THEN disk' = disk
         ELSE DOMAIN disk' = DOMAIN disk /\ disk'.current = disk.current /\ disk'.best = disk.best
  BY DEF Report, TrainInv, DiskOK
<1> HIDE DEF S
<1>8. RankOK(X) /\ X.pc \in {"turn", "unlink", "done", "saved"} /\ (X.pc \in Saving => r = 1)
  <2>1. CASE r # 1 /\ X = NextIteration(S, r)
    <3>1. R.turn = Number + 1
      BY <1>1, <1>2, TurnsDone DEF EndingEpoch
    <3> HIDE DEF R, X
    <3>2. RankOK(X) /\ X.pc \in {"turn", "unlink", "done"} /\ (X.pc = "unlink" => r = 1)
      BY <1>1, <1>2, <1>6, <2>1, <3>1, NextIterationGood
    <3> QED
      BY <3>2 DEF Saving
  <2>2. CASE r = 1 /\ (X = [S EXCEPT !.pc = "unlink", !.then = "next"] \/ X = [S EXCEPT !.pc = "saved"])
    <3> HIDE DEF R, X
    <3>1. /\ Core(R, X) /\ X.turn = R.turn
          /\ \/ X.pc = "unlink" /\ X.then = "next"
             \/ X.pc = "saved"
      BY <1>6, <2>2 DEF Core, Fields
    <3>2. NextTurnOf(X) = NextTurnOf(R) /\ X.turn \in 1..(Number + 1)
      BY <1>1, <1>2, <3>1, RankNumbers DEF NextTurnOf
    <3>3. Trained(X)
      BY <1>1, <1>2, <3>1 DEF Trained, InTurn, EndingEpoch, Saving, Ended, Core
    <3>4. X.pc \in Pcs \ {"start"} /\ X.pc \in {"unlink", "saved"}
      BY <3>1 DEF Pcs, EndingEpoch, Saving
    <3>5. RankOK(X)
      BY <1>2, <3>1, <3>2, <3>3, <3>4, Within
    <3> QED
      BY <2>2, <3>4, <3>5
  <2> QED
    BY <1>5, <2>1, <2>2
<1>9. asked'[r] = Waits(prep[r], X)
  BY <1>2, <1>3, <1>8 DEF Waits
<1>10. DiskOK'
  <2>1. DiskOK /\ 1 \in Ranks
    BY <1>2, Project DEF TrainInv
  <2>2. CASE r # 1
    BY <1>3, <1>5, <1>7, <2>1, <2>2, DiskStays
  <2>3. CASE r = 1
    <3>1. X.pc \notin {"open", "close"}
      BY <1>8
    <3> QED
      BY <1>3, <1>7, <2>1, <2>3, <3>1, DiskMoves DEF DiskOK
  <2> QED
    BY <2>2, <2>3
<1> QED
  BY <1>2, <1>3, <1>5, <1>8, <1>9, <1>10, OneRank

\* The current parameters are deleted or saved.
LEMMA DiskSaves ==
    ASSUME DiskOK, UNCHANGED conf,
           DOMAIN disk' = DOMAIN disk, disk'.best = disk.best,
           disk'.current = {} \/ \E c : disk'.current = {c} /\ ArchiveOK(c),
           rank'[1].pc = "open" => disk'.current = {},
           rank'[1].pc = "close" => disk'.current = {Archive(rank'[1], FALSE)}
    PROVE  DiskOK'
<1>1. \A c : ArchiveOK(c)' <=> ArchiveOK(c)
  BY SameRankOK
<1>2. \A R, whole : Archive(R, whole)' = Archive(R, whole)
  BY SameProject DEF Archive, Epoch
<1>3. (rank[1].pc = "close" => disk.current = {Archive(rank[1], FALSE)})'
  BY <1>2
<1> QED
  BY <1>1, <1>3 DEF DiskOK

\* A step of rank 1 while it saves the current parameters.
LEMMA SavingStep ==
    ASSUME TrainInv, CacheInv', UNCHANGED <<conf, cache, prep, asked, crashes>>, NEW r \in Ranks,
           rank[r].pc \in {"unlink", "open", "close"},
           DOMAIN rank' = Ranks, \A s \in Ranks \ {r} : rank'[s] = rank[s],
           Core(rank[r], rank'[r]), rank'[r].turn = rank[r].turn, rank'[r].then = rank[r].then,
           rank'[r].pc \in {"open", "close", "saved", "done", "stopped"},
           DiskOK'
    PROVE  TrainInv'
<1> DEFINE R == rank[r]
           X == rank'[r]
<1>1. /\ conf \in Scenarios /\ r = 1
      /\ PerEpoch # 0 /\ prep[r] \in {"opened", "opened in part"} /\ asked[r] = NoCall
      /\ Trained(R) /\ RankOK(R)
  BY AtWork DEF Saving
<1> HIDE DEF R, X
<1>2. /\ R.pc \in {"unlink", "open", "close"} /\ X.turn = R.turn /\ Core(R, X) /\ X.then = R.then
      /\ X.pc \in {"open", "close", "saved", "done", "stopped"}
  BY DEF R, X
<1>3. NextTurnOf(X) = NextTurnOf(R) /\ X.turn \in 1..(Number + 1)
  BY <1>1, <1>2, RankNumbers DEF NextTurnOf
<1>4. Trained(X)
  BY <1>1, <1>2 DEF Trained, InTurn, EndingEpoch, Saving, Ended, Core
<1>5. X.pc \in Pcs \ {"start"}
  BY <1>2 DEF Pcs, EndingEpoch, Saving, Ended
<1>6. RankOK(X)
  BY <1>1, <1>2, <1>3, <1>4, <1>5, Within
<1>7. asked'[r] = Waits(prep[r], X)
  BY <1>1, <1>2 DEF Waits
<1> USE DEF R, X
<1> QED
  BY <1>1, <1>6, <1>7, OneRank

\* The old archives are deleted.
LEMMA UnlinkStep ==
    ASSUME TrainInv, CacheInv', NEW r \in Ranks, Unlink(r)
    PROVE  TrainInv'
<1>1. rank[r].pc = "unlink"
  BY DEF Unlink, At
<1>2. DOMAIN rank = Ranks /\ DOMAIN rank[r] = Fields /\ r = 1 /\ rank[r].judged \in Seq(Int)
      /\ rank[r].best \in Int /\ rank[r].pending \in {0} \cup Turns
  BY <1>1, AtWork DEF Saving
<1>3. UNCHANGED <<conf, cache, prep, asked, crashes>>
  BY DEF Unlink, Same
<1>4. /\ DOMAIN rank' = Ranks /\ \A s \in Ranks \ {r} : rank'[s] = rank[s]
      /\ rank'[r] = [rank[r] EXCEPT !.pc = "open"]
  BY <1>2 DEF Unlink
<1>5. /\ Core(rank[r], rank'[r]) /\ rank'[r].turn = rank[r].turn /\ rank'[r].then = rank[r].then
      /\ rank'[r].pc = "open"
  BY <1>2, <1>4 DEF Core, Fields
<1>6. DiskOK /\ DOMAIN disk' = DOMAIN disk /\ disk'.best = disk.best /\ disk'.current = {}
  BY DEF TrainInv, DiskOK, Unlink, Kept
<1>7. DiskOK'
  BY <1>2, <1>3, <1>5, <1>6, DiskSaves
<1> QED
  BY <1>1, <1>3, <1>4, <1>5, <1>7, SavingStep

\* A new one is begun.
LEMMA OpenCurrentStep ==
    ASSUME TrainInv, CacheInv', NEW r \in Ranks, OpenCurrent(r)
    PROVE  TrainInv'
<1> DEFINE c == Archive(rank[r], FALSE)
<1>1. rank[r].pc = "open"
  BY DEF OpenCurrent, At
<1>2. DOMAIN rank = Ranks /\ DOMAIN rank[r] = Fields /\ r = 1 /\ rank[r].judged \in Seq(Int)
      /\ rank[r].best \in Int /\ rank[r].pending \in {0} \cup Turns
      /\ conf \in Scenarios /\ PerEpoch # 0 /\ RankOK(rank[r])
  BY <1>1, AtWork DEF Saving
<1>3. UNCHANGED <<conf, cache, prep, asked, crashes>>
  BY DEF OpenCurrent, Same
<1>4. /\ DOMAIN rank' = Ranks /\ \A s \in Ranks \ {r} : rank'[s] = rank[s]
      /\ rank'[r] = [rank[r] EXCEPT !.pc = "close"]
  BY <1>2 DEF OpenCurrent
<1>5. /\ Core(rank[r], rank'[r]) /\ rank'[r].turn = rank[r].turn /\ rank'[r].then = rank[r].then
      /\ rank'[r].pc = "close"
  BY <1>2, <1>4 DEF Core, Fields
<1>6. ArchiveOK(c)
  BY <1>1, <1>2, ArchiveGood
<1>7. /\ DiskOK /\ DOMAIN disk' = DOMAIN disk /\ disk'.best = disk.best
      /\ disk'.current = {c}
  <2>1. DiskOK /\ disk.current = {}
    BY <1>1, <1>2 DEF TrainInv, DiskOK
  <2>2. disk' = [disk EXCEPT !.current = disk.current \cup {c}]
    BY DEF OpenCurrent
  <2> HIDE DEF c
  <2> QED
    BY <2>1, <2>2 DEF DiskOK
<1>8. Archive(rank'[r], FALSE) = c
  BY <1>5 DEF Archive, Core
<1> HIDE DEF c
<1>9. DiskOK'
  BY <1>2, <1>3, <1>5, <1>6, <1>7, <1>8, DiskSaves
<1> QED
  BY <1>1, <1>3, <1>4, <1>5, <1>9, SavingStep

\* It is finished.
LEMMA CloseCurrentStep ==
    ASSUME TrainInv, CacheInv', NEW r \in Ranks, CloseCurrent(r)
    PROVE  TrainInv'
<1> DEFINE R == rank[r]
           X == rank'[r]
           part == Archive(R, FALSE)
           c == Archive(R, TRUE)
<1>1. R.pc = "close"
  BY DEF CloseCurrent, At
<1>2. DOMAIN rank = Ranks /\ DOMAIN R = Fields /\ r = 1 /\ R.judged \in Seq(Int)
      /\ R.best \in Int /\ R.pending \in {0} \cup Turns
      /\ conf \in Scenarios /\ PerEpoch # 0 /\ RankOK(R) /\ Trained(R)
  BY <1>1, AtWork DEF Saving
<1>3. UNCHANGED <<conf, cache, prep, asked, crashes>>
  BY DEF CloseCurrent, Same
<1>4. /\ DOMAIN rank' = Ranks /\ \A s \in Ranks \ {r} : rank'[s] = rank[s]
      /\ X = [R EXCEPT !.saved = Epoch(R.iter), !.pc = IF R.then = "next" THEN "saved" ELSE R.then]
  BY <1>2 DEF CloseCurrent
<1>5. Core(R, X) /\ X.turn = R.turn /\ X.then = R.then /\ X.pc \in {"saved", "done", "stopped"}
  <2>1. R.then \in {"next", "done", "stopped"}
    BY <1>1, <1>2 DEF Trained
  <2> HIDE DEF R, X
  <2> QED
    BY <1>2, <1>4, <2>1 DEF Core, Fields
<1>6. ArchiveOK(c)
  BY <1>1, <1>2, ArchiveGood
<1>7. /\ DiskOK /\ DOMAIN disk' = DOMAIN disk /\ disk'.best = disk.best
      /\ disk'.current = {c}
  <2>1. DiskOK /\ disk.current = {part}
    BY <1>1, <1>2 DEF TrainInv, DiskOK
  <2>2. \E n : disk' = [disk EXCEPT !.current = (disk.current \ {part}) \cup {c}, !.newest = n]
    BY DEF CloseCurrent
  <2> HIDE DEF c, part
  <2> QED
    BY <2>1, <2>2 DEF DiskOK
<1> HIDE DEF c, part
<1>8. DiskOK'
  BY <1>2, <1>3, <1>5, <1>6, <1>7, DiskSaves
<1> QED
  BY <1>1, <1>3, <1>4, <1>5, <1>8, SavingStep

\* A rank that has not begun.
LEMMA BeforeWork ==
    ASSUME TrainInv, NEW r \in Ranks, rank[r].pc = "start", prep[r] \notin {"enter", "leave"}
    PROVE  /\ conf \in Scenarios /\ DOMAIN rank = Ranks
           /\ RankOK(rank[r]) /\ DOMAIN rank[r] = Fields
           /\ rank[r].iter = 0 /\ rank[r].turn = 1 /\ rank[r].applied = {} /\ rank[r].states = {}
           /\ rank[r].judged = <<>> /\ rank[r].judged \in Seq(Int) /\ rank[r].best \in Int
           /\ rank[r].pending \in {0} \cup Turns
           /\ PerEpoch # 0 => rank[r].then = ""
           /\ asked[r] = NoCall
           /\ prep[r] \in {"opened", "opened in part"} => PerEpoch # 0
<1>1. RankInv(r) /\ Gate(prep[r], rank[r]) /\ RankOK(rank[r]) /\ Typed(rank[r])
  BY DEF TrainInv, RankInv, RankOK
<1>2. asked[r] = NoCall
  BY <1>1 DEF RankInv, Waits
<1>3. prep[r] \in {"opened", "opened in part"} => PerEpoch # 0
  BY <1>1 DEF Gate
<1>4. PerEpoch # 0 => rank[r].then = ""
  <2>1. PerEpoch # 0 => Trained(rank[r])
    BY <1>1 DEF RankOK
  <2> QED
    BY <2>1 DEF Trained, Ended
<1>5. /\ rank[r].iter = 0 /\ rank[r].turn = 1 /\ rank[r].applied = {} /\ rank[r].states = {}
      /\ rank[r].judged = <<>>
  BY <1>1 DEF RankOK
<1> QED
  BY <1>1, <1>2, <1>3, <1>4, <1>5 DEF TrainInv, CacheInv, PrepOK, Typed

\* A checkpoint is at the end of an epoch of the project.
LEMMA ResumedInRange ==
    ASSUME conf \in Scenarios, PerEpoch # 0
    PROVE  /\ 0 < MaxIteration
           /\ \A c : ArchiveOK(c) => Resumed(c) \in Nat /\ Resumed(c) \in 0..MaxIteration
<1>1. PerEpoch \in Nat \ {0} /\ conf.maxEpoch \in Nat \ {0} /\ MaxIteration = conf.maxEpoch * PerEpoch
  BY Project
<1>2. \A m \in Nat : \A e \in 1..m : e \in Nat /\ e <= m
  OBVIOUS
<1>3. \A e \in 1..conf.maxEpoch : e * PerEpoch \in Nat /\ e * PerEpoch <= MaxIteration
  BY <1>1, <1>2, Times
<1>4. \A m \in Nat : m # 0 => 1 \in 1..m
  OBVIOUS
<1>5. 1 * PerEpoch <= MaxIteration /\ 1 * PerEpoch = PerEpoch
  BY <1>1, <1>3, <1>4
<1>6. MaxIteration \in Nat
  BY Project
<1>7. \A i, m \in Nat : i <= m => i \in 0..m
  OBVIOUS
<1>8. \A c : ArchiveOK(c) => Resumed(c) \in Nat /\ Resumed(c) \in 0..MaxIteration
  BY <1>3, <1>6, <1>7 DEF ArchiveOK, Resumed
<1> QED
  BY <1>1, <1>5, <1>6, <1>8

\* The only checkpoint there is.
LEMMA LatestOne ==
    ASSUME DiskOK, conf \in Scenarios, disk.current # {}
    PROVE  Latest(disk.current) \in disk.current
<1>1. PICK c : disk.current = {c}
  BY DEF DiskOK
<1>2. ArchiveOK(c)
  BY <1>1 DEF DiskOK
<1>3. c.epoch \in 1..conf.maxEpoch /\ conf.maxEpoch \in Nat
  BY <1>2, Project DEF ArchiveOK
<1>4. c.epoch <= c.epoch
  BY <1>3
<1> QED
  BY <1>1, <1>4 DEF Latest

\* A training begins, or goes on from a checkpoint.
LEMMA BeginStep ==
    ASSUME TrainInv, CacheInv', NEW r \in Ranks, Begin(r)
    PROVE  TrainInv'
<1> DEFINE R == rank[r]
           X == rank'[r]
<1>1. R.pc = "start" /\ prep[r] \in {"opened", "opened in part"}
  BY DEF Begin, At
<1>2. /\ conf \in Scenarios /\ DOMAIN rank = Ranks /\ DOMAIN R = Fields /\ RankOK(R)
      /\ R.iter = 0 /\ R.turn = 1 /\ R.applied = {} /\ R.states = {} /\ R.judged = <<>>
      /\ PerEpoch # 0 /\ R.judged \in Seq(Int) /\ R.best \in Int /\ R.pending \in {0} \cup Turns
      /\ R.then = "" /\ asked[r] = NoCall
  BY <1>1, BeforeWork
<1>3. UNCHANGED <<conf, cache, prep, asked, disk, crashes>>
  BY DEF Begin, Local
<1>4. /\ DOMAIN rank' = Ranks /\ \A s \in Ranks \ {r} : rank'[s] = rank[s]
      /\ \/ X = [R EXCEPT !.pc = "turn"]
         \/ X = [R EXCEPT !.pc = "broken"]
         \/ /\ disk.current # {}
            /\ LET c == Latest(disk.current)
               IN  X = [R EXCEPT !.pc = IF Resumed(c) < MaxIteration THEN "turn" ELSE "done",
                                 !.iter = Resumed(c), !.from = Resumed(c),
                                 !.applied = c.applied, !.states = c.states]
  BY <1>2 DEF Begin
<1>5. 0 < MaxIteration /\ 1 \in 1..(Number + 1)
  BY <1>2, ResumedInRange, RankNumbers
<1>6. ASSUME NEW pc \in {"turn", "broken"}, X = [R EXCEPT !.pc = pc]
      PROVE  RankOK(X) /\ X.pc \in {"turn", "broken", "done"}
  <2> HIDE DEF R, X
  <2>1. Core(R, X) /\ X.turn = R.turn /\ X.pc = pc /\ X.then = R.then
    BY <1>2, <1>6 DEF Core, Fields
  <2>2. NextTurnOf(X) = NextTurnOf(R) /\ X.turn \in 1..(Number + 1)
    BY <1>1, <1>2, <1>5, <2>1 DEF NextTurnOf
  <2>3. Trained(X)
    BY <1>2, <1>5, <2>1 DEF Trained, InTurn, EndingEpoch, Saving, Ended, Core
  <2>4. X.pc \in Pcs \ {"start"} /\ X.pc \in {"turn", "broken"}
    BY <2>1 DEF Pcs, Ended
  <2> QED
    BY <1>2, <2>1, <2>2, <2>3, <2>4, Within
<1>7. ASSUME disk.current # {},
             X = [R EXCEPT !.pc = IF Resumed(Latest(disk.current)) < MaxIteration THEN "turn" ELSE "done",
                           !.iter = Resumed(Latest(disk.current)), !.from = Resumed(Latest(disk.current)),
                           !.applied = Latest(disk.current).applied,
                           !.states = Latest(disk.current).states]
      PROVE  RankOK(X) /\ X.pc \in {"turn", "broken", "done"}
  <2> DEFINE c == Latest(disk.current)
  <2>1. ArchiveOK(c)
    BY <1>2, <1>7, LatestOne DEF TrainInv, DiskOK
  <2>2. X = [R EXCEPT !.pc = IF Resumed(c) < MaxIteration THEN "turn" ELSE "done",
                      !.iter = Resumed(c), !.from = Resumed(c),
                      !.applied = c.applied, !.states = c.states]
    BY <1>7
  <2> HIDE DEF R, X, c
  <2>3. /\ DOMAIN X = Fields /\ X.iter = Resumed(c) /\ X.turn = 1 /\ X.then = ""
        /\ X.applied = c.applied /\ X.states = c.states /\ X.judged = R.judged /\ X.best = R.best
        /\ X.pending = R.pending
        /\ X.pc = IF Resumed(c) < MaxIteration THEN "turn" ELSE "done"
    BY <1>2, <2>2 DEF Fields
  <2>4. Resumed(c) \in 0..MaxIteration
    BY <1>2, <2>1, ResumedInRange
  <2>5. Typed(X)
    <3>1. X.pc \in Pcs
      BY <2>3 DEF Pcs, Ended
    <3> QED
      BY <1>2, <1>5, <2>3, <2>4, <3>1 DEF Typed
  <2>6. Trained(X)
    BY <2>3 DEF Trained, InTurn, EndingEpoch, Saving, Ended
  <2>7. Exact(X.applied, X.iter, NextTurnOf(X)) /\ Recent(X.applied, X.states, X.iter)
    BY <2>1, <2>3 DEF NextTurnOf, ArchiveOK, Resumed
  <2>8. X.pc # "start" /\ X.pc \in {"turn", "broken", "done"}
    BY <2>3
  <2> QED
    BY <1>2, <2>5, <2>6, <2>7, <2>8 DEF RankOK
<1>8. RankOK(X) /\ X.pc \in {"turn", "broken", "done"}
  BY <1>4, <1>6, <1>7
<1>9. asked'[r] = Waits(prep[r], X)
  BY <1>1, <1>2, <1>3, <1>8 DEF Waits
<1> QED
  BY <1>1, <1>2, <1>3, <1>4, <1>8, <1>9, OneRankAlone DEF Saving

\* Without iterations the parameters are saved as they are.
LEMMA SaveUntrainedStep ==
    ASSUME TrainInv, CacheInv', NEW r \in Ranks, SaveUntrained(r)
    PROVE  TrainInv'
<1> DEFINE R == rank[r]
           X == rank'[r]
<1>1. R.pc = "start" /\ prep[r] = "open" /\ PerEpoch = 0
  BY DEF SaveUntrained, At
<1>2. /\ conf \in Scenarios /\ DOMAIN rank = Ranks /\ DOMAIN R = Fields /\ RankOK(R)
      /\ R.iter = 0 /\ R.turn = 1 /\ R.applied = {} /\ R.states = {} /\ R.judged = <<>>
      /\ R.judged \in Seq(Int) /\ R.best \in Int /\ R.pending \in {0} \cup Turns
      /\ asked[r] = NoCall
  BY <1>1, BeforeWork
<1>3. UNCHANGED <<conf, cache, prep, asked, disk, crashes>>
  BY DEF SaveUntrained, Local
<1>4. /\ DOMAIN rank' = Ranks /\ \A s \in Ranks \ {r} : rank'[s] = rank[s]
      /\ X = [R EXCEPT !.pc = IF r = 1 THEN "best" ELSE "done", !.then = "done"]
  BY <1>2 DEF SaveUntrained
<1> HIDE DEF R, X
<1>5. /\ Core(R, X) /\ X.turn = R.turn /\ X.then = "done" /\ X.judged = <<>>
      /\ X.pc = IF r = 1 THEN "best" ELSE "done"
  BY <1>2, <1>4 DEF Core, Fields
<1>6. Untrained(X)
  BY <1>2, <1>5 DEF Untrained, Core
<1>7. NextTurnOf(X) = NextTurnOf(R) /\ X.turn \in 1..(Number + 1) /\ X.pc \in Pcs /\ X.pc # "start"
  BY <1>1, <1>2, <1>5, RankNumbers DEF NextTurnOf, Pcs, EndingEpoch, Saving, Ended
<1>8. RankOK(X)
  BY <1>1, <1>2, <1>5, <1>6, <1>7 DEF RankOK, Core, Typed
<1>9. asked'[r] = Waits(prep[r], X)
  BY <1>1, <1>2, <1>3, <1>5 DEF Waits
<1> USE DEF R, X
<1> QED
  BY <1>1, <1>2, <1>3, <1>4, <1>5, <1>8, <1>9, OneRankAlone DEF Saving

-----------------------------------------------------------------------------
(* The steps all ranks take together. *)

\* The collectives of the training are told apart.
LEMMA CollectivesDiffer ==
    /\ \A a, b, c, d : /\ <<"cost", a, b>> # <<"grads", c, d>>
                       /\ <<"cost", a, b>> # <<"error", c, d>>
                       /\ <<"grads", a, b>> # <<"error", c, d>>
    /\ \A what, i, k : <<what, i, k>> # NoCall
BY DEF NoCall

\* When all have come to the collective of one rank, all are where it is.
LEMMA Gathered ==
    ASSUME TrainInv, NEW r \in Ranks, rank[r].pc \in {"sum cost", "reduce", "sum error"}, AllIn(asked[r])
    PROVE  \A s \in Ranks : rank[s].pc = rank[r].pc /\ prep[s] \notin {"enter", "leave"}
<1>1. /\ \A s \in Ranks : asked[s] = asked[r]
      /\ \A s \in Ranks : asked[s] = Waits(prep[s], rank[s])
      /\ prep[r] \notin {"enter", "leave"}
  <2>1. DOMAIN asked = Ranks /\ \A s \in Ranks : RankInv(s)
    BY DEF TrainInv, CacheInv, PrepOK
  <2>2. prep[r] \notin {"enter", "leave"}
    BY AtWork
  <2> QED
    BY <2>1, <2>2 DEF AllIn, RankInv
<1>2. ASSUME NEW s \in Ranks PROVE rank[s].pc = rank[r].pc /\ prep[s] \notin {"enter", "leave"}
  <2>1. Waits(prep[s], rank[s]) = Waits(prep[r], rank[r])
    BY <1>1
  <2>2. CASE rank[r].pc = "sum cost"
    <3>1. Waits(prep[s], rank[s]) = <<"cost", rank[r].iter, rank[r].turn>>
      BY <1>1, <2>1, <2>2 DEF Waits
    <3> QED
      BY <2>2, <3>1, BarriersDiffer, CollectivesDiffer DEF Waits
  <2>3. CASE rank[r].pc = "reduce"
    <3>1. Waits(prep[s], rank[s]) = <<"grads", rank[r].iter, rank[r].turn>>
      BY <1>1, <2>1, <2>3 DEF Waits
    <3> QED
      BY <2>3, <3>1, BarriersDiffer, CollectivesDiffer DEF Waits
  <2>4. CASE rank[r].pc = "sum error"
    <3>1. Waits(prep[s], rank[s]) = <<"error", rank[r].iter, rank[r].batch>>
      BY <1>1, <2>1, <2>4 DEF Waits
    <3> QED
      BY <2>4, <3>1, BarriersDiffer, CollectivesDiffer DEF Waits
  <2> QED
    BY <2>2, <2>3, <2>4
<1> QED
  BY <1>2

\* The cost is added up.
LEMMA SumCostStep ==
    ASSUME TrainInv, CacheInv', SumCost
    PROVE  TrainInv'
<1>1. PICK q \in Ranks : rank[q].pc = "sum cost" /\ AllIn(asked[q])
  BY DEF SumCost, At
<1>2. \A s \in Ranks : rank[s].pc = "sum cost" /\ prep[s] \notin {"enter", "leave"}
  BY <1>1, Gathered
<1>3. UNCHANGED <<conf, cache, prep, disk, crashes>> /\ AllReturn /\ DOMAIN rank' = Ranks
  BY DEF SumCost, Same
<1>4. ASSUME NEW r \in Ranks PROVE RankOK(rank'[r]) /\ rank'[r].pc \in {"updated", "step"}
  <2> DEFINE R == rank[r]
             X == rank'[r]
  <2>1. /\ conf \in Scenarios /\ DOMAIN R = Fields /\ Trained(R) /\ PerEpoch # 0 /\ RankOK(R)
        /\ R.judged \in Seq(Int) /\ R.best \in Int /\ R.pending \in {0} \cup Turns
        /\ R.pc = "sum cost"
    BY <1>2, AtWork
  <2>2. X = [R EXCEPT !.sumEpoch = R.sumEpoch \o ReducedCost(r),
                      !.numIteration = R.numIteration + Size,
                      !.sumIteration = <<>>,
                      !.pending = IF R.turn \notin Turns THEN 0 ELSE R.pending,
                      !.pc = IF R.turn \notin Turns THEN "updated" ELSE "step"]
    BY DEF SumCost
  <2> HIDE DEF R, X
  <2>3. /\ Core(R, X) /\ X.turn = R.turn /\ X.then = R.then
        /\ X.pc = IF R.turn \notin Turns THEN "updated" ELSE "step"
    BY <2>1, <2>2 DEF Core, Fields
  <2>4. R.turn \in 1..(Number + 1) /\ (R.turn \notin Turns => R.turn = Number + 1)
    BY <2>1, RankNumbers, TurnNumbers
  <2>5. NextTurnOf(X) = NextTurnOf(R)
    BY <2>1, <2>3 DEF NextTurnOf
  <2>6. Trained(X)
    BY <2>1, <2>3, <2>4 DEF Trained, InTurn, EndingEpoch, Saving, Ended, Core
  <2>7. X.pc \in Pcs \ {"start"} /\ X.pc \in {"updated", "step"}
    BY <2>3 DEF Pcs, InTurn
  <2>8. RankOK(X)
    BY <2>1, <2>3, <2>4, <2>5, <2>6, <2>7, Within
  <2> QED
    BY <2>7, <2>8 DEF X
<1>5. \A r \in Ranks : /\ RankOK(rank'[r])
                       /\ rank'[r].pc \notin Saving \cup {"start", "sum cost", "sum error", "reduce"}
                       /\ rank[r].pc # "start"
                       /\ prep[r] \notin {"enter", "leave"}
  BY <1>2, <1>4 DEF Saving
<1> QED
  BY <1>3, <1>5, AllRanks

\* The gradients are added up.
LEMMA ReduceGradientsStep ==
    ASSUME TrainInv, CacheInv', ReduceGradients
    PROVE  TrainInv'
<1>1. PICK q \in Ranks : rank[q].pc = "reduce" /\ AllIn(asked[q])
  BY DEF ReduceGradients, At
<1>2. \A s \in Ranks : rank[s].pc = "reduce" /\ prep[s] \notin {"enter", "leave"}
  BY <1>1, Gathered
<1>3. UNCHANGED <<conf, cache, prep, disk, crashes>> /\ AllReturn /\ DOMAIN rank' = Ranks
  BY DEF ReduceGradients, Same
<1>4. ASSUME NEW r \in Ranks PROVE RankOK(rank'[r]) /\ rank'[r].pc = "apply"
  <2> DEFINE R == rank[r]
             X == rank'[r]
  <2>1. /\ conf \in Scenarios /\ DOMAIN R = Fields /\ Trained(R) /\ PerEpoch # 0 /\ RankOK(R)
        /\ R.judged \in Seq(Int) /\ R.best \in Int /\ R.pending \in {0} \cup Turns
        /\ R.pc = "reduce"
    BY <1>2, AtWork
  <2>2. \E grads : X = [R EXCEPT !.grads = grads, !.pc = "apply"]
    BY DEF ReduceGradients
  <2> HIDE DEF R, X
  <2>3. Core(R, X) /\ X.turn = R.turn /\ X.then = R.then /\ X.pc = "apply"
    BY <2>1, <2>2 DEF Core, Fields
  <2>4. NextTurnOf(X) = NextTurnOf(R) /\ X.turn \in 1..(Number + 1)
    BY <2>1, <2>3, RankNumbers DEF NextTurnOf
  <2>5. Trained(X)
    BY <2>1, <2>3 DEF Trained, InTurn, EndingEpoch, Saving, Ended, Core
  <2>6. X.pc \in Pcs \ {"start"}
    BY <2>3 DEF Pcs, InTurn
  <2>7. RankOK(X)
    BY <2>1, <2>3, <2>4, <2>5, <2>6, Within
  <2> QED
    BY <2>3, <2>7 DEF X
<1>5. \A r \in Ranks : /\ RankOK(rank'[r])
                       /\ rank'[r].pc \notin Saving \cup {"start", "sum cost", "sum error", "reduce"}
                       /\ rank[r].pc # "start"
                       /\ prep[r] \notin {"enter", "leave"}
  BY <1>2, <1>4 DEF Saving
<1> QED
  BY <1>3, <1>5, AllRanks

\* The error is added up.
LEMMA SumErrorStep ==
    ASSUME TrainInv, CacheInv', SumError
    PROVE  TrainInv'
<1>1. PICK q \in Ranks : rank[q].pc = "sum error" /\ AllIn(asked[q])
  BY DEF SumError, At
<1>2. \A s \in Ranks : rank[s].pc = "sum error" /\ prep[s] \notin {"enter", "leave"}
  BY <1>1, Gathered
<1>3. UNCHANGED <<conf, cache, prep, disk, crashes>> /\ AllReturn /\ DOMAIN rank' = Ranks
  BY DEF SumError, Same
<1>4. ASSUME NEW r \in Ranks PROVE RankOK(rank'[r]) /\ rank'[r].pc \in {"judge", "forward"}
  <2> DEFINE R == rank[r]
             X == rank'[r]
  <2>1. /\ conf \in Scenarios /\ DOMAIN R = Fields /\ Trained(R) /\ PerEpoch # 0 /\ RankOK(R)
        /\ R.judged \in Seq(Int) /\ R.best \in Int /\ R.pending \in {0} \cup Turns
        /\ R.pc = "sum error"
    BY <1>2, AtWork
  <2>2. \E errors : \E pc \in {"judge", "forward"} : X = [R EXCEPT !.errors = errors, !.pc = pc]
    BY DEF SumError
  <2> HIDE DEF R, X
  <2>3. Core(R, X) /\ X.turn = R.turn /\ X.then = R.then /\ X.pc \in {"judge", "forward"}
    BY <2>1, <2>2 DEF Core, Fields
  <2>4. NextTurnOf(X) = NextTurnOf(R) /\ X.turn \in 1..(Number + 1)
    BY <2>1, <2>3, RankNumbers DEF NextTurnOf
  <2>5. Trained(X)
    BY <2>1, <2>3 DEF Trained, InTurn, EndingEpoch, Saving, Ended, Core
  <2>6. X.pc \in Pcs \ {"start"}
    BY <2>3 DEF Pcs, EndingEpoch
  <2>7. RankOK(X)
    BY <2>1, <2>3, <2>4, <2>5, <2>6, Within
  <2> QED
    BY <2>3, <2>7 DEF X
<1>5. \A r \in Ranks : /\ RankOK(rank'[r])
                       /\ rank'[r].pc \notin Saving \cup {"start", "sum cost", "sum error", "reduce"}
                       /\ rank[r].pc # "start"
                       /\ prep[r] \notin {"enter", "leave"}
  BY <1>2, <1>4 DEF Saving
<1> QED
  BY <1>3, <1>5, AllRanks

-----------------------------------------------------------------------------
(* The beginning, and a new one after a crash. *)

\* A process that has just started.
LEMMA FreshGood ==
    ASSUME conf \in Scenarios
    PROVE  RankOK(Fresh) /\ Fresh.pc = "start"
<1>1. \A m \in Nat : 0 \in 0..m /\ 1 \in 1..(m + 1)
  OBVIOUS
<1>2. 0 \in 0..MaxIteration /\ 1 \in 1..(Number + 1)
  BY <1>1, Project
<1>3. <<>> \in Seq(Int)
  OBVIOUS
<1>4. /\ DOMAIN Fresh = Fields /\ Fresh.pc = "start" /\ Fresh.iter = 0 /\ Fresh.turn = 1
      /\ Fresh.pending = 0 /\ Fresh.judged = <<>> /\ Fresh.best = 0 /\ Fresh.then = ""
      /\ Fresh.applied = {} /\ Fresh.states = {}
  BY DEF Fresh, Fields
<1>5. Typed(Fresh)
  <2>1. Fresh.judged \in Seq(Int)
    BY <1>3, <1>4, Zenon
  <2>2. Fresh.iter \in 0..MaxIteration /\ Fresh.turn \in 1..(Number + 1)
    BY <1>2, <1>4, Zenon
  <2>3. Fresh.pc \in Pcs /\ Fresh.pending \in {0} \cup Turns /\ Fresh.best \in Int
    <3>1. Fresh.pc = "start" /\ Fresh.pending = 0 /\ Fresh.best = 0
      BY <1>4, Zenon
    <3>2. "start" \in Pcs
      BY DEF Pcs
    <3>3. 0 \in Int
      OBVIOUS
    <3> QED
      BY <3>1, <3>2, <3>3, Zenon
  <2> QED
    BY <1>4, <2>1, <2>2, <2>3, Zenon DEF Typed
<1>6. Trained(Fresh) /\ Untrained(Fresh)
  BY <1>4 DEF Trained, Untrained, InTurn, EndingEpoch, Saving, Ended
<1>7. Exact(Fresh.applied, Fresh.iter, NextTurnOf(Fresh)) /\ Recent(Fresh.applied, Fresh.states, Fresh.iter)
  BY <1>4, ExactStart DEF NextTurnOf
<1> QED
  BY <1>4, <1>5, <1>6, <1>7 DEF RankOK

\* The beginning.
LEMMA TrainInit ==
    ASSUME Init
    PROVE  TrainInv
<1>1. CacheInv
  BY CacheInit
<1>2. conf \in Scenarios /\ 1 \in Ranks
  BY Project DEF Init
<1>3. ASSUME NEW r \in Ranks PROVE RankInv(r)
  <2>1. rank[r] = Fresh /\ prep[r] = "look" /\ asked[r] = NoCall
    BY DEF Init, PrepareInit
  <2>2. RankOK(Fresh) /\ Fresh.pc = "start"
    BY <1>2, FreshGood
  <2>3. Gate("look", Fresh) /\ Waits("look", Fresh) = NoCall
    BY <2>2 DEF Gate, Waits
  <2> QED
    BY <2>1, <2>2, <2>3 DEF RankInv, Saving
<1>4. DiskOK
  <2>1. rank[1].pc = "start"
    BY <1>2, FreshGood DEF Init
  <2> QED
    BY <2>1 DEF Init, DiskOK
<1> QED
  BY <1>1, <1>3, <1>4 DEF TrainInv, Init

\* The job dies and is started again.
LEMMA CrashStep ==
    ASSUME TrainInv, CacheInv', Crash
    PROVE  TrainInv'
<1>1. conf \in Scenarios /\ UNCHANGED <<conf, disk>> /\ 1 \in Ranks /\ DiskOK
  BY Project DEF TrainInv, CacheInv, PrepOK, Crash
<1>2. Ranks' = Ranks /\ PerEpoch' = PerEpoch /\ \A R : RankOK(R)' <=> RankOK(R)
  BY <1>1, SameProject, SameRankOK
<1>3. /\ RankOK(Fresh) /\ Fresh.pc = "start"
      /\ DOMAIN rank' = Ranks
      /\ \A r \in Ranks : rank'[r] = Fresh /\ prep'[r] = "look" /\ asked'[r] = NoCall
  BY <1>1, FreshGood DEF Crash
<1> HIDE DEF Fresh
<1>4. ASSUME NEW r \in Ranks PROVE RankInv(r)'
  <2>1. rank'[r].pc = "start" /\ RankOK(rank'[r])
    BY <1>3
  <2>2. RankOK(rank[r])'
    BY <1>2, <2>1
  <2>3. Gate(prep[r], rank[r])'
    BY <1>3, <2>1 DEF Gate
  <2>4. (asked[r] = Waits(prep[r], rank[r]))'
    BY <1>3, <2>1 DEF Waits
  <2> QED
    BY <2>1, <2>2, <2>3, <2>4 DEF RankInv, Saving
<1>5. DiskOK'
  <2>1. rank'[1].pc \notin {"open", "close"}
    BY <1>1, <1>3
  <2> QED
    BY <1>1, <2>1, DiskStays
<1> QED
  BY <1>2, <1>3, <1>4, <1>5 DEF TrainInv

-----------------------------------------------------------------------------
\* Nothing happens.
LEMMA TrainStutter ==
    ASSUME TrainInv, CacheInv', UNCHANGED vars
    PROVE  TrainInv'
<1>1. UNCHANGED <<conf, prep, asked, rank, disk>>
  BY DEF vars
<1>2. Ranks' = Ranks /\ PerEpoch' = PerEpoch /\ \A R : RankOK(R)' <=> RankOK(R)
  BY <1>1, SameProject, SameRankOK
<1>3. ASSUME NEW r \in Ranks PROVE RankInv(r)'
  <2>1. RankInv(r)
    BY DEF TrainInv
  <2>2. Gate(prep[r], rank[r])' /\ RankOK(rank[r])'
    BY <1>1, <1>2, <2>1 DEF RankInv, Gate
  <2> QED
    BY <1>1, <2>1, <2>2 DEF RankInv, Waits
<1>4. DiskOK'
  BY <1>1, DiskStays DEF TrainInv
<1> QED
  BY <1>1, <1>2, <1>3, <1>4 DEF TrainInv

\* Every step keeps the invariant.
LEMMA TrainNext ==
    ASSUME TrainInv, [Next]_vars
    PROVE  TrainInv'
<1>1. CacheInv'
  BY CacheNext DEF TrainInv
<1>2. ASSUME NEW r \in Ranks, Train(r) PROVE TrainInv'
  BY <1>1, <1>2, BeginStep, SaveUntrainedStep, SkipStep, MonitorLossStep, StepStep, ApplyUpdateStep,
     ReserveStep, EndUpdateStep, FailStep, ContinueStep, EndEpochStep, MonitorErrorStep,
     ForwardMonitorStep, JudgeStep, BestStep, ReportStep, UnlinkStep, OpenCurrentStep,
     CloseCurrentStep, CheckTrainingTimeStep DEF Train
<1>3. CASE Together
  BY <1>1, <1>3, SumCostStep, ReduceGradientsStep, SumErrorStep DEF Together
<1>4. CASE Prepare /\ UNCHANGED <<rank, disk, crashes>>
  BY <1>1, <1>4, PrepareStep
<1>5. CASE Crash
  BY <1>1, <1>5, CrashStep
<1>6. CASE UNCHANGED vars
  BY <1>1, <1>6, TrainStutter
<1> QED
  BY <1>2, <1>3, <1>4, <1>5, <1>6 DEF Next, Run

\* The invariant of the training holds always.
THEOREM TrainAlways == Spec => []TrainInv
<1>1. Init => TrainInv
  BY TrainInit
<1>2. TrainInv /\ [Next]_vars => TrainInv'
  BY TrainNext
<1> QED
  BY <1>1, <1>2, PTL DEF Spec

-----------------------------------------------------------------------------
(* Every update is made exactly once. *)

\* Updates that are exact are as many as are due.
LEMMA ExactCount ==
    ASSUME NEW A, NEW D, IsFiniteSet(D),
           {<<u.iter, u.turn>> : u \in A} = D,
           \A u, v \in A : u.iter = v.iter /\ u.turn = v.turn => u = v
    PROVE  Cardinality(A) = Cardinality(D)
<1> DEFINE f == [u \in A |-> <<u.iter, u.turn>>]
<1>1. f \in [A -> D]
  OBVIOUS
<1>2. \A u, v \in A : f[u] = f[v] => u = v
  OBVIOUS
<1>3. f \in Injection(A, D)
  BY <1>1, <1>2 DEF Injection, IsInjective
<1>4. f \in Surjection(A, D)
  BY <1>1 DEF Surjection
<1> QED
  BY <1>3, <1>4, FS_Injection

\* The updates that are due before a place in the training.
Dues(iter, turn) ==
    {x \in (0..(MaxIteration - 1)) \X Turns :
        /\ Past(x[1], x[2], iter, turn)
        /\ Active(Opt(x[2]), x[1])
        /\ Due(Opt(x[2]), x[1])}

\* They are finitely many.
LEMMA DuesFinite ==
    ASSUME conf \in Scenarios
    PROVE  \A i, k : IsFiniteSet(Dues(i, k))
<1>1. MaxIteration \in Nat /\ Number \in Nat /\ Turns = 1..Number
  BY Project
<1>2. 0 \in Int /\ 1 \in Int /\ MaxIteration - 1 \in Int /\ Number \in Int
  BY <1>1
<1>3. IsFiniteSet(0..(MaxIteration - 1)) /\ IsFiniteSet(1..Number)
  BY <1>2, FS_Interval
<1>4. IsFiniteSet((0..(MaxIteration - 1)) \X Turns)
  BY <1>1, <1>3, FS_Product
<1>5. \A i, k : Dues(i, k) \subseteq (0..(MaxIteration - 1)) \X Turns
  BY DEF Dues
<1> QED
  BY <1>4, <1>5, FS_Subset

\* Exact updates are those that are due.
LEMMA ExactIsDues ==
    ASSUME conf \in Scenarios
    PROVE  \A A, i, k : Exact(A, i, k) =>
                /\ {<<u.iter, u.turn>> : u \in A} = Dues(i, k)
                /\ Cardinality(A) = Cardinality(Dues(i, k))
<1> SUFFICES ASSUME NEW A, NEW i, NEW k, Exact(A, i, k)
             PROVE  /\ {<<u.iter, u.turn>> : u \in A} = Dues(i, k)
                    /\ Cardinality(A) = Cardinality(Dues(i, k))
  OBVIOUS
<1>1. \A j, l : <<j, l>> \in Dues(i, k) <=> IsDue(j, l) /\ Past(j, l, i, k)
  BY DEF Dues, IsDue
<1>2. \A x \in Dues(i, k) : x = <<x[1], x[2]>>
  BY DEF Dues
<1>3. ASSUME NEW u \in A PROVE <<u.iter, u.turn>> \in Dues(i, k)
  BY <1>1 DEF Exact
<1>4. ASSUME NEW x \in Dues(i, k) PROVE x \in {<<u.iter, u.turn>> : u \in A}
  <2>1. IsDue(x[1], x[2]) /\ Past(x[1], x[2], i, k)
    BY <1>1, <1>2
  <2>2. PICK u \in A : u.iter = x[1] /\ u.turn = x[2]
    BY <2>1 DEF Exact
  <2> QED
    BY <1>2, <2>2
<1>5. {<<u.iter, u.turn>> : u \in A} = Dues(i, k)
  BY <1>3, <1>4
<1>6. \A u, v \in A : u.iter = v.iter /\ u.turn = v.turn => u = v
  BY DEF Exact
<1>7. IsFiniteSet(Dues(i, k))
  BY DuesFinite
<1> QED
  BY <1>5, <1>6, <1>7, ExactCount

\* What the invariant says of the updates of a rank.
LEMMA InvResume == TrainInv => ResumeIsExact
<1> SUFFICES ASSUME TrainInv, NEW r \in Ranks
             PROVE  LET R == rank[r]
                        past(i, k) == \/ i < R.iter
                                      \/ i = R.iter /\ (k < R.turn \/ (k = R.turn /\ R.pc = "reserve"))
                        due == {x \in (0..(MaxIteration - 1)) \X Turns :
                                    /\ past(x[1], x[2])
                                    /\ Active(Opt(x[2]), x[1])
                                    /\ Due(Opt(x[2]), x[1])}
                    IN  /\ {<<u.iter, u.turn>> : u \in R.applied} = due
                        /\ Cardinality(R.applied) = Cardinality(due)
                        /\ \E epoch \in 0..conf.maxEpoch :
                                R.states = {u \in R.applied : u.iter >= epoch * PerEpoch}
  BY DEF ResumeIsExact
<1> DEFINE R == rank[r]
           past(i, k) == \/ i < R.iter
                         \/ i = R.iter /\ (k < R.turn \/ (k = R.turn /\ R.pc = "reserve"))
           due == {x \in (0..(MaxIteration - 1)) \X Turns :
                       /\ past(x[1], x[2])
                       /\ Active(Opt(x[2]), x[1])
                       /\ Due(Opt(x[2]), x[1])}
<1>1. conf \in Scenarios /\ RankOK(R)
  BY DEF TrainInv, CacheInv, PrepOK, RankInv
<1>2. R.turn \in Nat /\ \A k \in Turns : k \in Nat
  BY <1>1, RankNumbers, Project
<1>3. \A i, k : k \in Turns => (past(i, k) <=> Past(i, k, R.iter, NextTurnOf(R)))
  <2>1. \A k, t : k \in Nat /\ t \in Nat => (k < t + 1 <=> k < t \/ k = t)
    OBVIOUS
  <2> HIDE DEF R
  <2> QED
    BY <1>2, <2>1 DEF Past, NextTurnOf
<1>4. due = Dues(R.iter, NextTurnOf(R))
  <2> HIDE DEF past, R
  <2>1. \A x \in (0..(MaxIteration - 1)) \X Turns :
            past(x[1], x[2]) <=> Past(x[1], x[2], R.iter, NextTurnOf(R))
    BY <1>3
  <2> QED
    BY <2>1 DEF Dues
<1> HIDE DEF due, past
<1>5. /\ {<<u.iter, u.turn>> : u \in R.applied} = due
      /\ Cardinality(R.applied) = Cardinality(due)
  <2>1. Exact(R.applied, R.iter, NextTurnOf(R))
    BY <1>1 DEF RankOK
  <2> QED
    BY <1>1, <1>4, <2>1, ExactIsDues
<1>6. \E epoch \in 0..conf.maxEpoch : R.states = {u \in R.applied : u.iter >= epoch * PerEpoch}
  BY <1>1 DEF RankOK, Recent
<1> USE DEF due, past
<1> QED
  BY <1>5, <1>6

\* For any number of ranks, optimizers and crashes, a rank has made every update that is due
\* before its place in the training exactly once, those from before the crashes included.
THEOREM ResumeHolds == Spec => []ResumeIsExact
BY TrainAlways, InvResume, PTL

\* The invariant says where the ranks are and what they wait for.
LEMMA InvTypes == TrainInv => TypeOK
<1> SUFFICES ASSUME TrainInv PROVE TypeOK
  OBVIOUS
<1>1. /\ conf \in Scenarios /\ DOMAIN rank = Ranks /\ DOMAIN asked = Ranks /\ DOMAIN prep = Ranks
      /\ \A d \in DOMAIN cache : cache[d] \in {"nothing", "directory", "index"}
  BY DEF TrainInv, CacheInv, PrepOK
<1>2. ASSUME NEW r \in Ranks
      PROVE  /\ rank[r].iter \in 0..MaxIteration
             /\ rank[r].turn \in 1..(Len(conf.opts) + 1)
             /\ rank[r].pending \in {0} \cup Turns
             /\ asked[r] # NoCall <=> (prep[r] \in {"enter", "leave"}
                                        \/ At(r, "sum cost") \/ At(r, "sum error") \/ At(r, "reduce"))
  <2>1. Typed(rank[r]) /\ asked[r] = Waits(prep[r], rank[r])
    BY DEF TrainInv, RankInv, RankOK
  <2>2. asked[r] # NoCall <=> (prep[r] \in {"enter", "leave"}
                                \/ At(r, "sum cost") \/ At(r, "sum error") \/ At(r, "reduce"))
    BY <2>1, BarriersDiffer, CollectivesDiffer DEF Waits, At
  <2> QED
    BY <2>1, <2>2 DEF Typed, Number
<1>3. ASSUME NEW S, NEW c, S \subseteq {c} PROVE Cardinality(S) <= 1
  <2>1. Cardinality({}) <= 1
    BY FS_EmptySet
  <2>2. Cardinality({c}) <= 1
    BY FS_Singleton
  <2>3. S = {} \/ S = {c}
    BY <1>3
  <2> QED
    BY <2>1, <2>2, <2>3
<1>4. Cardinality(disk.current) <= 1 /\ Cardinality(disk.best) <= 1
  BY <1>3 DEF TrainInv, DiskOK
<1> QED
  BY <1>1, <1>2, <1>4 DEF TypeOK

\* The types of the training.
THEOREM TypesHold == Spec => []TypeOK
BY TrainAlways, InvTypes, PTL

-----------------------------------------------------------------------------
(* results.nnp is of the best epoch. *)

NoZero(judged) == \A k \in DOMAIN judged : judged[k] # 0

\* The lowest error so far.
LowestOf(best, judged) ==
    /\ best \in Elements(judged)
    /\ \A k \in DOMAIN judged : best <= judged[k]

\* What rank 1 remembers and what results.nnp is of.
BestOK(R, files) ==
    /\ R.judged = <<>> => R.best = 0
    /\ R.judged # <<>> => LowestOf(R.best, R.judged)
    /\ R.judged # <<>> /\ R.pc \in {"best", "close best"} => Error(Epoch(R.iter)) = R.best
    /\ R.judged # <<>> /\ R.pc # "best" => \A c \in files : Error(c.epoch) = R.best

BestInv == conf.saveBest /\ NoZero(rank[1].judged) => BestOK(rank[1], disk.best)

\* A step that judges nothing and does not touch results.nnp.
LEMMA BestStays ==
    ASSUME BestInv, UNCHANGED conf, disk'.best = disk.best,
           \/ rank'[1] = rank[1]
           \/ /\ rank'[1].judged = rank[1].judged /\ rank'[1].best = rank[1].best
              /\ rank[1].judged = <<>> \/ (rank[1].pc # "best" /\ rank'[1].pc \notin {"best", "close best"})
    PROVE  BestInv'
<1>1. \A e : Error(e)' = Error(e) /\ Epoch(e)' = Epoch(e)
  BY SameProject DEF Error, Epoch
<1>2. rank'[1].judged = rank[1].judged /\ rank'[1].best = rank[1].best
  OBVIOUS
<1>3. ASSUME conf.saveBest, NoZero(rank[1].judged) PROVE BestOK(rank[1], disk.best)'
  <2>1. BestOK(rank[1], disk.best)
    BY <1>3 DEF BestInv
  <2>2. LowestOf(rank[1].best, rank[1].judged)' <=> LowestOf(rank[1].best, rank[1].judged)
    BY <1>2 DEF LowestOf, Elements
  <2>3. CASE rank'[1] = rank[1]
    BY <1>1, <2>1, <2>2, <2>3 DEF BestOK
  <2>4. CASE rank[1].judged = <<>>
    BY <1>2, <2>1, <2>4 DEF BestOK
  <2>5. CASE rank[1].pc # "best" /\ rank'[1].pc \notin {"best", "close best"}
    BY <1>1, <1>2, <2>1, <2>2, <2>5 DEF BestOK
  <2> QED
    BY <2>3, <2>4, <2>5
<1>4. NoZero(rank[1].judged)' <=> NoZero(rank[1].judged)
  BY <1>2 DEF NoZero
<1> QED
  BY <1>3, <1>4 DEF BestInv

\* The lowest error, when one more is judged.
LEMMA AppendLowest ==
    \A s \in Seq(Int), e \in Int :
        /\ Append(s, e) # <<>>
        /\ NoZero(Append(s, e)) => NoZero(s) /\ e # 0
        /\ \A b \in Int : LowestOf(b, s) /\ b <= e => LowestOf(b, Append(s, e))
        /\ \A b \in Int : LowestOf(b, s) /\ e <= b => LowestOf(e, Append(s, e))
        /\ s = <<>> => LowestOf(e, Append(s, e))
<1> SUFFICES ASSUME NEW s \in Seq(Int), NEW e \in Int
             PROVE  /\ Append(s, e) # <<>>
                    /\ NoZero(Append(s, e)) => NoZero(s) /\ e # 0
                    /\ \A b \in Int : LowestOf(b, s) /\ b <= e => LowestOf(b, Append(s, e))
                    /\ \A b \in Int : LowestOf(b, s) /\ e <= b => LowestOf(e, Append(s, e))
                    /\ s = <<>> => LowestOf(e, Append(s, e))
  OBVIOUS
<1> DEFINE t == Append(s, e)
           n == Len(s)
<1>1. /\ n \in Nat /\ DOMAIN s = 1..n /\ DOMAIN t = 1..(n + 1)
      /\ \A k \in 1..n : t[k] = s[k] /\ s[k] \in Int
      /\ t[n + 1] = e
      /\ s = <<>> => n = 0
      /\ t # <<>>
  OBVIOUS
<1>2. \A m \in Nat : /\ \A k \in 1..m : k \in 1..(m + 1)
                     /\ m + 1 \in 1..(m + 1)
                     /\ \A k \in 1..(m + 1) : k = m + 1 \/ k \in 1..m
                     /\ m = 0 => ~(\E k \in 1..m : TRUE)
  OBVIOUS
<1> HIDE DEF t, n
<1>3. /\ \A k \in DOMAIN s : k \in DOMAIN t /\ t[k] = s[k] /\ s[k] \in Int
      /\ n + 1 \in DOMAIN t /\ t[n + 1] = e
      /\ \A k \in DOMAIN t : k = n + 1 \/ k \in DOMAIN s
  BY <1>1, <1>2
<1>4. NoZero(t) => NoZero(s) /\ e # 0
  BY <1>3 DEF NoZero
<1>5. ASSUME NEW b \in Int, LowestOf(b, s), b <= e PROVE LowestOf(b, t)
  BY <1>3, <1>5 DEF LowestOf, Elements
<1>6. ASSUME NEW b \in Int, LowestOf(b, s), e <= b PROVE LowestOf(e, t)
  <2>1. \A k \in DOMAIN s : b <= s[k] /\ s[k] \in Int
    BY <1>3, <1>6 DEF LowestOf
  <2>2. \A k \in DOMAIN t : e <= t[k]
    BY <1>3, <1>6, <2>1
  <2> QED
    BY <1>3, <2>2 DEF LowestOf, Elements
<1>7. ASSUME s = <<>> PROVE LowestOf(e, t)
  <2>1. \A k \in DOMAIN t : k = n + 1
    BY <1>1, <1>2, <1>3, <1>7
  <2> QED
    BY <1>3, <2>1 DEF LowestOf, Elements
<1> QED
  BY <1>1, <1>4, <1>5, <1>6, <1>7 DEF t

\* The state of every rank is a record.
LEMMA RankRecord ==
    ASSUME TrainInv, NEW r \in Ranks
    PROVE  /\ DOMAIN rank = Ranks /\ DOMAIN rank[r] = Fields /\ conf \in Scenarios /\ 1 \in Ranks
           /\ rank[r].judged \in Seq(Int) /\ rank[r].best \in Int
           /\ DOMAIN disk = {"current", "best", "report", "newest"}
<1>1. Typed(rank[r]) /\ conf \in Scenarios
  BY DEF TrainInv, RankInv, RankOK, CacheInv, PrepOK
<1> QED
  BY <1>1, Project DEF Typed, TrainInv, DiskOK

\* The next iteration judges nothing.
LEMMA NextIterationQuiet ==
    \A R, r : DOMAIN R = Fields =>
        /\ NextIteration(R, r).judged = R.judged /\ NextIteration(R, r).best = R.best
        /\ NextIteration(R, r).pc \in {"turn", "unlink", "done"}
BY DEF NextIteration, Fields

\* A step of a rank that judges nothing and saves nothing best.
Quiet(R, X) ==
    /\ X.judged = R.judged /\ X.best = R.best
    /\ R.pc # "best" /\ X.pc \notin {"best", "close best"}

\* The steps of _update.
LEMMA UpdateQuiet ==
    ASSUME TrainInv, NEW r \in Ranks,
           \/ SkipOptimizer(r) \/ MonitorLoss(r) \/ Step(r) \/ ApplyUpdate(r) \/ ReserveLoss(r)
           \/ EndUpdate(r)
    PROVE  /\ conf' = conf /\ disk' = disk /\ \A s \in Ranks \ {r} : rank'[s] = rank[s]
           /\ Quiet(rank[r], rank'[r])
<1>1. DOMAIN rank = Ranks /\ DOMAIN rank[r] = Fields
  BY RankRecord
<1>2. CASE SkipOptimizer(r)
  BY <1>1, <1>2 DEF SkipOptimizer, Local, At, NextTurn, Quiet, Fields
<1>3. CASE MonitorLoss(r)
  BY <1>1, <1>3 DEF MonitorLoss, Same, At, Quiet, Fields
<1>4. CASE Step(r)
  BY <1>1, <1>4 DEF Step, Same, At, Quiet, Fields
<1>5. CASE ApplyUpdate(r)
  BY <1>1, <1>5 DEF ApplyUpdate, Local, At, Quiet, Fields
<1>6. CASE ReserveLoss(r)
  <2> DEFINE P == [rank[r] EXCEPT !.pending = rank[r].turn]
  <2>1. DOMAIN P = Fields /\ P.judged = rank[r].judged /\ P.best = rank[r].best
    BY <1>1 DEF Fields
  <2>2. /\ rank'[r] = NextTurn(P) /\ rank[r].pc = "reserve" /\ conf' = conf /\ disk' = disk
        /\ \A s \in Ranks \ {r} : rank'[s] = rank[s]
    BY <1>1, <1>6 DEF ReserveLoss, Local, At
  <2> HIDE DEF P
  <2>3. NextTurn(P).judged = P.judged /\ NextTurn(P).best = P.best /\ NextTurn(P).pc = "turn"
    BY <2>1 DEF NextTurn, Fields
  <2> QED
    BY <2>1, <2>2, <2>3 DEF Quiet
<1>7. CASE EndUpdate(r)
  BY <1>1, <1>7 DEF EndUpdate, Same, At, Quiet, Fields
<1> QED
  BY <1>2, <1>3, <1>4, <1>5, <1>6, <1>7

\* The steps at the end of an epoch that leave the disk alone.
LEMMA EpochQuiet ==
    ASSUME TrainInv, NEW r \in Ranks,
           \/ Fail(r) \/ Continue(r) \/ EndEpoch(r) \/ MonitorError(r) \/ ForwardMonitor(r)
           \/ CheckTrainingTime(r)
    PROVE  /\ conf' = conf /\ disk' = disk /\ \A s \in Ranks \ {r} : rank'[s] = rank[s]
           /\ Quiet(rank[r], rank'[r])
<1>1. DOMAIN rank = Ranks /\ DOMAIN rank[r] = Fields
  BY RankRecord
<1>2. CASE Fail(r)
  BY <1>1, <1>2 DEF Fail, Local, At, Quiet, Fields
<1>3. CASE Continue(r)
  <2>1. /\ rank'[r] = NextIteration(rank[r], r) /\ rank[r].pc = "updated" /\ conf' = conf /\ disk' = disk
        /\ \A s \in Ranks \ {r} : rank'[s] = rank[s]
    BY <1>1, <1>3 DEF Continue, Local, At
  <2> DEFINE N == NextIteration(rank[r], r)
  <2>2. N.judged = rank[r].judged /\ N.best = rank[r].best /\ N.pc \in {"turn", "unlink", "done"}
    BY <1>1, NextIterationQuiet
  <2>3. rank'[r] = N
    BY <2>1
  <2> HIDE DEF N
  <2>4. Quiet(rank[r], rank'[r])
    BY <2>1, <2>2, <2>3 DEF Quiet
  <2> QED
    BY <2>1, <2>4
<1>4. CASE EndEpoch(r)
  BY <1>1, <1>4 DEF EndEpoch, Local, At, Quiet, Fields
<1>5. CASE MonitorError(r)
  BY <1>1, <1>5 DEF MonitorError, Same, At, Quiet, Fields
<1>6. CASE ForwardMonitor(r)
  BY <1>1, <1>6 DEF ForwardMonitor, Local, At, Quiet, Fields
<1>7. CASE CheckTrainingTime(r)
  <2>1. /\ rank[r].pc = "saved" /\ conf' = conf /\ disk' = disk
        /\ \A s \in Ranks \ {r} : rank'[s] = rank[s]
        /\ \/ rank'[r] = NextIteration(rank[r], r)
           \/ rank'[r] = [rank[r] EXCEPT !.pc = "unlink", !.then = "stopped"]
    BY <1>1, <1>7 DEF CheckTrainingTime, Local, At
  <2>2. CASE rank'[r] = NextIteration(rank[r], r)
    <3> DEFINE N == NextIteration(rank[r], r)
    <3>1. N.judged = rank[r].judged /\ N.best = rank[r].best /\ N.pc \in {"turn", "unlink", "done"}
      BY <1>1, NextIterationQuiet
    <3>2. rank'[r] = N
      BY <2>2
    <3> HIDE DEF N
    <3>3. Quiet(rank[r], rank'[r])
      BY <2>1, <3>1, <3>2 DEF Quiet
    <3> QED
      BY <2>1, <3>3
  <2>3. CASE rank'[r] = [rank[r] EXCEPT !.pc = "unlink", !.then = "stopped"]
    <3>1. /\ rank'[r].judged = rank[r].judged /\ rank'[r].best = rank[r].best
          /\ rank'[r].pc = "unlink"
      BY <1>1, <2>3 DEF Fields
    <3> QED
      BY <2>1, <3>1 DEF Quiet
  <2> QED
    BY <2>1, <2>2, <2>3
<1> QED
  BY <1>2, <1>3, <1>4, <1>5, <1>6, <1>7

\* The reports and the current parameters.
LEMMA SavingQuiet ==
    ASSUME TrainInv, NEW r \in Ranks,
           Report(r) \/ Unlink(r) \/ OpenCurrent(r) \/ CloseCurrent(r)
    PROVE  /\ conf' = conf /\ disk'.best = disk.best /\ \A s \in Ranks \ {r} : rank'[s] = rank[s]
           /\ Quiet(rank[r], rank'[r])
<1> DEFINE R == rank[r]
           X == rank'[r]
<1>1. DOMAIN rank = Ranks /\ DOMAIN R = Fields /\ DOMAIN disk = {"current", "best", "report", "newest"}
  BY RankRecord
<1>2. CASE Report(r)
  <2> DEFINE S == [R EXCEPT !.average = <<>>, !.errors = <<>>, !.count = 0]
  <2>1. DOMAIN S = Fields /\ S.judged = R.judged /\ S.best = R.best
    BY <1>1 DEF Fields
  <2>2. conf' = conf /\ disk'.best = disk.best /\ R.pc = "report"
    BY <1>1, <1>2 DEF Report, Same, At
  <2>3. \E late \in BOOLEAN :
            rank' = [rank EXCEPT ![r] =
                        IF r # 1 THEN NextIteration(S, r)
                        ELSE IF MaySave(R) /\ (late \/ MustSave(R))
                        THEN [S EXCEPT !.pc = "unlink", !.then = "next"]
                        ELSE [S EXCEPT !.pc = "saved"]]
    BY <1>2 DEF Report
  <2> HIDE DEF S
  <2>4. /\ \A s \in Ranks \ {r} : rank'[s] = rank[s]
        /\ X \in {NextIteration(S, r), [S EXCEPT !.pc = "unlink", !.then = "next"], [S EXCEPT !.pc = "saved"]}
    BY <1>1, <2>3
  <2>5. X.judged = S.judged /\ X.best = S.best /\ X.pc \notin {"best", "close best"}
    <3> HIDE DEF X
    <3>1. CASE X = NextIteration(S, r)
      BY <2>1, <3>1, NextIterationQuiet
    <3>2. CASE X = [S EXCEPT !.pc = "unlink", !.then = "next"]
      BY <2>1, <3>2 DEF Fields
    <3>3. CASE X = [S EXCEPT !.pc = "saved"]
      BY <2>1, <3>3 DEF Fields
    <3> QED
      BY <2>4, <3>1, <3>2, <3>3
  <2> QED
    BY <2>1, <2>2, <2>4, <2>5 DEF Quiet
<1>3. CASE Unlink(r)
  <2>1. /\ conf' = conf /\ disk'.best = disk.best /\ \A s \in Ranks \ {r} : rank'[s] = rank[s]
        /\ R.pc = "unlink" /\ X = [R EXCEPT !.pc = "open"]
    BY <1>1, <1>3 DEF Unlink, Same, At
  <2> HIDE DEF R, X
  <2>2. Quiet(R, X)
    BY <1>1, <2>1 DEF Quiet, Fields
  <2> QED
    BY <2>1, <2>2 DEF R, X
<1>4. CASE OpenCurrent(r)
  <2>1. /\ conf' = conf /\ disk'.best = disk.best /\ \A s \in Ranks \ {r} : rank'[s] = rank[s]
        /\ R.pc = "open" /\ X = [R EXCEPT !.pc = "close"]
    BY <1>1, <1>4 DEF OpenCurrent, Same, At
  <2> HIDE DEF R, X
  <2>2. Quiet(R, X)
    BY <1>1, <2>1 DEF Quiet, Fields
  <2> QED
    BY <2>1, <2>2 DEF R, X
<1>5. CASE CloseCurrent(r)
  <2>1. /\ conf' = conf /\ disk'.best = disk.best /\ \A s \in Ranks \ {r} : rank'[s] = rank[s]
        /\ R.pc = "close"
        /\ X = [R EXCEPT !.saved = Epoch(R.iter), !.pc = IF R.then = "next" THEN "saved" ELSE R.then]
    BY <1>1, <1>5 DEF CloseCurrent, Same, At
  <2>2. PerEpoch # 0 /\ Trained(R)
    <3>1. PerEpoch # 0
      BY <2>1, AtWork
    <3> QED
      BY <2>1, <3>1, AtWork
  <2>3. R.then \in {"next", "done", "stopped"}
    BY <2>1, <2>2 DEF Trained
  <2> HIDE DEF R, X
  <2>4. Quiet(R, X)
    BY <1>1, <2>1, <2>3 DEF Quiet, Fields
  <2> QED
    BY <2>1, <2>4 DEF R, X
<1> QED
  BY <1>2, <1>3, <1>4, <1>5

\* A quiet step of a rank keeps the best.
LEMMA QuietKeepsBest ==
    ASSUME TrainInv, BestInv, NEW r \in Ranks, conf' = conf, disk'.best = disk.best,
           \A s \in Ranks \ {r} : rank'[s] = rank[s], Quiet(rank[r], rank'[r])
    PROVE  BestInv'
<1>1. 1 \in Ranks
  BY RankRecord
<1>2. CASE r = 1
  BY <1>2, BestStays DEF Quiet
<1>3. CASE r # 1
  BY <1>1, <1>3, BestStays
<1> QED
  BY <1>2, <1>3

\* A lower error, or the first, becomes the best.
LEMMA JudgeBest ==
    ASSUME TrainInv, BestInv, NEW r \in Ranks, Judge(r)
    PROVE  BestInv'
<1> DEFINE R == rank[r]
           X == rank'[r]
           error == IF R.count = 0 THEN 0 ELSE Error(Epoch(R.iter))
           judged == Append(R.judged, error)
           J == [R EXCEPT !.judged = Append(R.judged, error)]
<1>1. /\ DOMAIN rank = Ranks /\ DOMAIN R = Fields /\ 1 \in Ranks
      /\ R.judged \in Seq(Int) /\ R.best \in Int
  BY RankRecord
<1>2. R.pc = "judge" /\ conf' = conf /\ disk' = disk
  BY DEF Judge, At, Local
<1>3. /\ \A s \in Ranks \ {r} : rank'[s] = rank[s]
      /\ X = IF r = 1 /\ IsBest(R, error) THEN [J EXCEPT !.best = error, !.pc = "best"]
             ELSE [J EXCEPT !.pc = "report"]
  BY <1>1 DEF Judge
<1>4. CASE r # 1
  BY <1>1, <1>2, <1>3, <1>4, BestStays
<1>5. ASSUME r = 1, conf.saveBest, NoZero(X.judged) PROVE BestOK(X, disk.best)
  <2>1. error \in Int /\ (error # 0 => error = Error(Epoch(R.iter)))
    <3>1. R.iter \in Nat /\ R.iter < MaxIteration /\ PerEpoch # 0 /\ conf \in Scenarios
      <4>1. RankOK(R) /\ conf \in Scenarios /\ PerEpoch # 0 /\ Trained(R)
        BY <1>2, AtWork
      <4> HIDE DEF R
      <4> QED
        BY <1>2, <4>1, RankNumbers, TurnsDone DEF EndingEpoch
    <3>2. Error(Epoch(R.iter)) \in Int
      <4> HIDE DEF R
      <4> QED
        BY <3>1, ErrorIsNumber
    <3> QED
      BY <3>2
  <2>2. judged \in Seq(Int)
    <3> HIDE DEF R, error
    <3> QED
      BY <1>1, <2>1, Appended, Zenon
  <2>3. DOMAIN J = Fields /\ J.judged = judged /\ J.best = R.best /\ J.iter = R.iter
    <3> HIDE DEF error, R
    <3> QED
      BY <1>1 DEF Fields
  <2> HIDE DEF J
  <2>4. /\ X.judged = judged /\ X.iter = R.iter
        /\ IF IsBest(R, error) THEN X.best = error /\ X.pc = "best"
           ELSE X.best = R.best /\ X.pc = "report"
    <3> HIDE DEF X, error, judged, R
    <3> QED
      BY <1>3, <1>5, <2>3 DEF Fields
  <2> HIDE DEF X, error
  <2>5. /\ judged # <<>> /\ NoZero(R.judged) /\ error # 0
        /\ LowestOf(R.best, R.judged) /\ R.best <= error => LowestOf(R.best, judged)
    <3>1. NoZero(judged)
      BY <1>5, <2>4, Zenon
    <3> HIDE DEF R
    <3> QED
      BY <1>1, <2>1, <3>1, AppendLowest
  <2>6. /\ LowestOf(R.best, R.judged) /\ error <= R.best => LowestOf(error, judged)
        /\ R.judged = <<>> => LowestOf(error, judged)
    <3> HIDE DEF R
    <3> QED
      BY <1>1, <2>1, AppendLowest
  <2>7. BestOK(R, disk.best)
    BY <1>5, <2>5, Zenon DEF BestInv
  <2> HIDE DEF R, judged
  <2>8. CASE R.judged = <<>>
    <3>1. R.best = 0 /\ LowestOf(error, judged)
      BY <2>6, <2>7, <2>8, Zenon DEF BestOK
    <3>2. X.best = error /\ X.pc = "best"
      BY <2>4, <3>1 DEF IsBest
    <3> QED
      BY <2>1, <2>4, <2>5, <3>1, <3>2, Zenon DEF BestOK
  <2>9. CASE R.judged # <<>>
    <3>1. LowestOf(R.best, R.judged) /\ \A c \in disk.best : Error(c.epoch) = R.best
      BY <1>2, <2>7, <2>9, Zenon DEF BestOK
    <3>2. R.best # 0
      BY <2>5, <3>1 DEF LowestOf, Elements, NoZero
    <3>3. CASE error <= R.best
      <4>1. X.best = error /\ X.pc = "best" /\ LowestOf(error, judged)
        BY <2>4, <2>6, <3>1, <3>3 DEF IsBest
      <4> QED
        BY <2>1, <2>4, <2>5, <4>1, Zenon DEF BestOK
    <3>4. CASE ~(error <= R.best)
      <4>1. X.best = R.best /\ X.pc = "report"
        BY <1>5, <2>4, <3>2, <3>4 DEF IsBest
      <4>2. R.best <= error
        BY <1>1, <2>1, <3>4
      <4>3. LowestOf(R.best, judged)
        BY <2>5, <3>1, <4>2
      <4>4. X.pc \notin {"best", "close best"}
        BY <4>1
      <4> QED
        BY <2>4, <2>5, <3>1, <4>1, <4>3, <4>4, Zenon DEF BestOK
    <3> QED
      BY <3>3, <3>4
  <2> QED
    BY <2>8, <2>9
<1>6. CASE r = 1
  <2>1. \A e : Error(e)' = Error(e) /\ Epoch(e)' = Epoch(e)
    BY <1>2, SameProject DEF Error, Epoch
  <2>2. conf.saveBest /\ NoZero(rank'[1].judged) => BestOK(rank'[1], disk.best)
    BY <1>5, <1>6
  <2> HIDE DEF X, J, R, error
  <2>3. NoZero(rank[1].judged)' <=> NoZero(rank'[1].judged)
    BY DEF NoZero
  <2>4. BestOK(rank[1], disk.best)' <=> BestOK(rank'[1], disk.best)
    BY <1>2, <2>1 DEF BestOK, LowestOf, Elements
  <2> QED
    BY <1>2, <2>2, <2>3, <2>4 DEF BestInv
<1> QED
  BY <1>4, <1>6

\* results.nnp is written for the epoch just judged.
LEMMA SaveBest ==
    ASSUME TrainInv, BestInv, NEW r \in Ranks, OpenBest(r) \/ CloseBest(r)
    PROVE  BestInv'
<1> DEFINE R == rank[r]
           X == rank'[r]
<1>1. R.pc \in {"best", "close best"}
  BY DEF OpenBest, CloseBest, At
<1>2. /\ DOMAIN rank = Ranks /\ DOMAIN R = Fields /\ r = 1
      /\ DOMAIN disk = {"current", "best", "report", "newest"}
  BY <1>1, AtWork, RankRecord DEF Saving
<1>3. PICK whole \in BOOLEAN : disk' = [disk EXCEPT !.best = {Archive(R, whole)}]
  BY DEF OpenBest, CloseBest
<1>4. \A c \in disk'.best : c.epoch = Epoch(R.iter)
  BY <1>2, <1>3 DEF Archive
<1>5. conf' = conf
  BY DEF OpenBest, CloseBest, Same
<1>6. \A e : Error(e)' = Error(e) /\ Epoch(e)' = Epoch(e)
  BY <1>5, SameProject DEF Error, Epoch
<1>7. X.judged = R.judged /\ X.best = R.best /\ X.iter = R.iter /\ X.pc # "best"
  <2>1. \/ X = [R EXCEPT !.pc = "close best"]
        \/ X = [R EXCEPT !.pc = IF R.then = "done" THEN "done" ELSE "report"]
    <3>1. CASE OpenBest(r)
      BY <1>2, <3>1 DEF OpenBest
    <3>2. CASE CloseBest(r)
      BY <1>2, <3>2 DEF CloseBest
    <3> QED
      BY <3>1, <3>2
  <2> HIDE DEF R, X
  <2> QED
    BY <1>2, <2>1 DEF Fields
<1>8. ASSUME conf.saveBest, NoZero(R.judged) PROVE BestOK(X, disk'.best)
  <2>1. BestOK(R, disk.best)
    BY <1>2, <1>8 DEF BestInv
  <2> HIDE DEF R, X
  <2>2. R.judged # <<>> => Error(Epoch(R.iter)) = R.best
    BY <1>1, <2>1 DEF BestOK
  <2>3. R.judged # <<>> => \A c \in disk'.best : Error(c.epoch) = R.best
    BY <1>4, <2>2
  <2> QED
    BY <1>7, <2>1, <2>2, <2>3, Zenon DEF BestOK
<1>9. NoZero(rank[1].judged)' <=> NoZero(R.judged)
  BY <1>2, <1>7 DEF NoZero
<1>10. BestOK(rank[1], disk.best)' <=> BestOK(X, disk'.best)
  BY <1>2, <1>6 DEF BestOK, LowestOf, Elements
<1> HIDE DEF R, X
<1> QED
  BY <1>5, <1>8, <1>9, <1>10 DEF BestInv

\* The collectives judge nothing.
LEMMA TogetherKeepsBest ==
    ASSUME TrainInv, BestInv, Together
    PROVE  BestInv'
<1>1. conf' = conf /\ disk' = disk
  BY DEF Together, SumCost, ReduceGradients, SumError, Same
<1>2. DOMAIN rank = Ranks /\ 1 \in Ranks
  BY Project DEF TrainInv, CacheInv, PrepOK
<1>3. DOMAIN rank[1] = Fields
  BY <1>2, RankRecord
<1>4. rank[1].pc \in {"sum cost", "reduce", "sum error"}
  <2>1. \E q \in Ranks : rank[q].pc \in {"sum cost", "reduce", "sum error"} /\ AllIn(asked[q])
    BY DEF Together, SumCost, ReduceGradients, SumError, At
  <2>2. PICK q \in Ranks : rank[q].pc \in {"sum cost", "reduce", "sum error"} /\ AllIn(asked[q])
    BY <2>1
  <2>3. rank[1].pc = rank[q].pc
    BY <1>2, <2>2, Gathered
  <2> QED
    BY <2>2, <2>3
<1>5. CASE SumCost
  <2>1. /\ rank'[1].judged = rank[1].judged /\ rank'[1].best = rank[1].best
        /\ rank'[1].pc \in {"updated", "step"}
    BY <1>2, <1>3, <1>5 DEF SumCost, Fields
  <2> QED
    BY <1>1, <1>4, <2>1, BestStays
<1>6. CASE ReduceGradients
  <2>1. \E grads : rank'[1] = [rank[1] EXCEPT !.grads = grads, !.pc = "apply"]
    BY <1>2, <1>6 DEF ReduceGradients
  <2>2. /\ rank'[1].judged = rank[1].judged /\ rank'[1].best = rank[1].best
        /\ rank'[1].pc = "apply"
    BY <1>3, <2>1 DEF Fields
  <2> QED
    BY <1>1, <1>4, <2>2, BestStays
<1>7. CASE SumError
  <2>1. \E errors : \E pc \in {"judge", "forward"} : rank'[1] = [rank[1] EXCEPT !.errors = errors, !.pc = pc]
    BY <1>2, <1>7 DEF SumError
  <2>2. /\ rank'[1].judged = rank[1].judged /\ rank'[1].best = rank[1].best
        /\ rank'[1].pc \in {"judge", "forward"}
    BY <1>3, <2>1 DEF Fields
  <2> QED
    BY <1>1, <1>4, <2>2, BestStays
<1> QED
  BY <1>5, <1>6, <1>7 DEF Together

\* A training that begins has judged nothing.
LEMMA StartKeepsBest ==
    ASSUME TrainInv, BestInv, NEW r \in Ranks, Begin(r) \/ SaveUntrained(r)
    PROVE  BestInv'
<1>1. rank[r].pc = "start" /\ conf' = conf /\ disk' = disk
  BY DEF Begin, SaveUntrained, At, Local
<1>2. rank[r].judged = <<>> /\ DOMAIN rank = Ranks /\ DOMAIN rank[r] = Fields /\ 1 \in Ranks
  BY <1>1, RankRecord DEF TrainInv, RankInv, RankOK
<1>3. CASE Begin(r)
  <2>1. /\ \A s \in Ranks \ {r} : rank'[s] = rank[s]
        /\ \E pc, iter, applied, states :
             \/ rank'[r] = [rank[r] EXCEPT !.pc = pc]
             \/ rank'[r] = [rank[r] EXCEPT !.pc = pc, !.iter = iter, !.from = iter,
                                           !.applied = applied, !.states = states]
    BY <1>2, <1>3 DEF Begin
  <2>2. rank'[r].judged = rank[r].judged /\ rank'[r].best = rank[r].best
    BY <1>2, <2>1 DEF Fields
  <2> QED
    BY <1>1, <1>2, <2>1, <2>2, BestStays
<1>4. CASE SaveUntrained(r)
  <2>1. /\ \A s \in Ranks \ {r} : rank'[s] = rank[s]
        /\ \E pc : rank'[r] = [rank[r] EXCEPT !.pc = pc, !.then = "done"]
    BY <1>2, <1>4 DEF SaveUntrained
  <2>2. rank'[r].judged = rank[r].judged /\ rank'[r].best = rank[r].best
    BY <1>2, <2>1 DEF Fields
  <2> QED
    BY <1>1, <1>2, <2>1, <2>2, BestStays
<1> QED
  BY <1>3, <1>4

\* Nothing is judged when a process starts.
LEMMA FreshKeepsBest ==
    ASSUME TrainInv, Crash
    PROVE  BestInv'
<1>1. rank'[1] = Fresh
  BY Project DEF TrainInv, CacheInv, PrepOK, Crash
<1>2. Fresh.judged = <<>> /\ Fresh.best = 0
  BY DEF Fresh
<1> HIDE DEF Fresh
<1>3. rank'[1].judged = <<>> /\ rank'[1].best = 0
  BY <1>1, <1>2
<1> QED
  BY <1>3 DEF BestInv, BestOK

\* Every step keeps the best.
LEMMA BestNext ==
    ASSUME TrainInv, BestInv, [Next]_vars
    PROVE  BestInv'
<1>1. ASSUME NEW r \in Ranks, Train(r) PROVE BestInv'
  <2>1. CASE \/ SkipOptimizer(r) \/ MonitorLoss(r) \/ Step(r) \/ ApplyUpdate(r) \/ ReserveLoss(r)
             \/ EndUpdate(r)
    BY <2>1, UpdateQuiet, QuietKeepsBest
  <2>2. CASE \/ Fail(r) \/ Continue(r) \/ EndEpoch(r) \/ MonitorError(r) \/ ForwardMonitor(r)
             \/ CheckTrainingTime(r)
    BY <2>2, EpochQuiet, QuietKeepsBest
  <2>3. CASE Report(r) \/ Unlink(r) \/ OpenCurrent(r) \/ CloseCurrent(r)
    BY <2>3, SavingQuiet, QuietKeepsBest
  <2> QED
    BY <1>1, <2>1, <2>2, <2>3, JudgeBest, SaveBest, StartKeepsBest DEF Train
<1>2. CASE Prepare /\ UNCHANGED <<rank, disk, crashes>>
  <2>1. conf' = conf
    BY <1>2 DEF Prepare, LookForCache, LookForDirectory, CheckNode, WriteCacheFiles, WriteCacheIndex,
                OpenCache, EnterTogether, LeaveTogether
  <2> QED
    BY <1>2, <2>1, BestStays
<1>3. CASE UNCHANGED vars
  BY <1>3, BestStays DEF vars
<1> QED
  BY <1>1, <1>2, <1>3, TogetherKeepsBest, FreshKeepsBest DEF Next, Run

\* What rank 1 remembers is what results.nnp is of.
LEMMA InvBest == TrainInv /\ BestInv => BestIsLowest
<1> SUFFICES ASSUME TrainInv, BestInv, conf.saveBest, rank[1].judged # <<>>, rank[1].pc # "best",
                    NoZero(rank[1].judged), NEW c \in disk.best
             PROVE  Error(c.epoch) = Min(Elements(rank[1].judged))
  BY DEF BestIsLowest, NoZero, At
<1> DEFINE b == rank[1].best
           E == Elements(rank[1].judged)
<1>1. BestOK(rank[1], disk.best)
  BY DEF BestInv
<1>2. Error(c.epoch) = b /\ LowestOf(b, rank[1].judged)
  BY <1>1 DEF BestOK
<1>3. rank[1].judged \in Seq(Int)
  <2>1. 1 \in Ranks
    BY Project DEF TrainInv, CacheInv, PrepOK
  <2> QED
    BY <2>1, RankRecord
<1>4. b \in E /\ \A e \in E : b <= e /\ e \in Int
  <2>1. \A k \in DOMAIN rank[1].judged : rank[1].judged[k] \in Int
    BY <1>3
  <2> QED
    BY <1>2, <2>1 DEF LowestOf, Elements
<1> HIDE DEF b, E
<1>5. \A e \in E : (\A x \in E : e <= x) => e = b
  BY <1>4
<1>6. Min(E) = b
  BY <1>4, <1>5 DEF Min
<1> QED
  BY <1>2, <1>6 DEF E

\* For any number of epochs, errors and crashes, results.nnp of a training with save_best is of
\* the epoch with the lowest error since the start, unless an error was 0.
THEOREM BestHolds == Spec => []BestIsLowest
<1>1. Init => BestInv
  <2> SUFFICES ASSUME Init PROVE BestInv
    OBVIOUS
  <2>1. rank[1] = Fresh
    BY Project DEF Init
  <2>2. Fresh.judged = <<>> /\ Fresh.best = 0
    BY DEF Fresh
  <2> HIDE DEF Fresh
  <2> QED
    BY <2>1, <2>2 DEF BestInv, BestOK
<1>2. TrainInv /\ BestInv /\ [Next]_vars => BestInv'
  BY BestNext
<1> QED
  BY <1>1, <1>2, TrainAlways, InvBest, PTL DEF Spec
=============================================================================

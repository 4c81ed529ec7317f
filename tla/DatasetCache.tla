----------------------------- MODULE DatasetCache -----------------------------
(* _create_dataset of load.py: every rank makes sure that the directory of    *)
(* cache files of its dataset is there before it opens it. Ranks run on hosts; *)
(* hosts share a disk or have their own.                                      *)
EXTENDS Collectives, Sequences, FiniteSetsExt

CONSTANT Scenarios      \* the trainings, see conf of Training

VARIABLES
    conf,       \* the scenario
    cache,      \* what each disk has: nothing, a directory, or all files and the index
    prep        \* how far each rank is

\* A group of ranks, those of a host on one disk. With a communicator the cache is made
\* explicitly, so without there is one process.
ASSUME ClusterAssumption ==
    \A c \in Scenarios :
        /\ Len(c.disks) \in Nat \ {0} /\ DOMAIN c.disks = 1..Len(c.disks)
        /\ \A r, s \in DOMAIN c.disks : c.hosts[r] = c.hosts[s] => c.disks[r] = c.disks[s]
        /\ c.explicit \/ DOMAIN c.disks = {1}
        /\ c.perEpoch \in Nat

Ranks == DOMAIN conf.disks
Size == Cardinality(Ranks)

\* The iterations of an epoch are shared out; without any nothing is read.
PerEpoch == conf.perEpoch \div Size
Cached(r) == cache[conf.disks[r]]
\* The first rank of a host is its local rank 0.
LocalRankZero(r) == \A s \in Ranks : conf.hosts[s] = conf.hosts[r] => r <= s

PrepareInit ==
    /\ cache = [d \in {conf.disks[r] : r \in Ranks} |-> "nothing"]
    /\ prep = [r \in Ranks |-> "look"]

\* Mutant: the directory is looked at instead of the index.
IsThereDirectory(found) == found # "nothing"

IsThere(found) == found = "index"

\* The index is written last. Rank 0 makes the directory before the barrier.
LookForCache(r) ==
    /\ prep[r] = "look"
    /\ conf.explicit
    /\ LET create == ~IsThere(Cached(r))
       IN  /\ prep' = [prep EXCEPT ![r] = IF create THEN "enter" ELSE "open"]
           /\ cache' = IF create /\ r = 1 /\ Cached(r) = "nothing"
                       THEN [cache EXCEPT ![conf.disks[r]] = "directory"] ELSE cache
           /\ IF create THEN Calls(r, <<"enter">>) ELSE UNCHANGED asked
    /\ UNCHANGED conf

\* Without MPI and create_cache_explicitly the iterator makes the cache when it is opened, if
\* it ever is, in a directory that is absent or empty.
LookForDirectory(r) ==
    /\ prep[r] = "look"
    /\ ~conf.explicit
    /\ prep' = [prep EXCEPT ![r] = IF Cached(r) = "nothing" /\ PerEpoch > 0
                                   THEN "create" ELSE "open"]
    /\ UNCHANGED <<conf, cache, asked>>

EnterTogether ==
    /\ AllIn(<<"enter">>)
    /\ AllReturn
    /\ prep' = [r \in Ranks |-> "node"]
    /\ UNCHANGED <<conf, cache>>

\* "Check whether cache directory needs to be created on each node."
CheckNode(r) ==
    /\ prep[r] = "node"
    /\ LET node == LocalRankZero(r) /\ r # 1 /\ Cached(r) = "nothing"
       IN  /\ prep' = [prep EXCEPT ![r] = IF r = 1 \/ node THEN "create" ELSE "leave"]
           /\ cache' = IF node THEN [cache EXCEPT ![conf.disks[r]] = "directory"] ELSE cache
           /\ IF r = 1 \/ node THEN UNCHANGED asked ELSE Calls(r, <<"leave">>)
    /\ UNCHANGED conf

\* The cache files, one after the other ...
WriteCacheFiles(r) ==
    /\ prep[r] = "create"
    /\ cache' = [cache EXCEPT ![conf.disks[r]] = "directory"]
    /\ prep' = [prep EXCEPT ![r] = "files"]
    /\ UNCHANGED <<conf, asked>>

\* ... and then the index.
WriteCacheIndex(r) ==
    /\ prep[r] = "files"
    /\ cache' = [cache EXCEPT ![conf.disks[r]] = "index"]
    /\ prep' = [prep EXCEPT ![r] = IF conf.explicit THEN "leave" ELSE "opened"]
    /\ IF conf.explicit THEN Calls(r, <<"leave">>) ELSE UNCHANGED asked
    /\ UNCHANGED conf

LeaveTogether ==
    /\ AllIn(<<"leave">>)
    /\ AllReturn
    /\ prep' = [r \in Ranks |-> "open"]
    /\ UNCHANGED <<conf, cache>>

\* Without an index the cache is whatever files the directory happens to hold.
OpenCache(r) ==
    /\ prep[r] = "open"
    /\ PerEpoch > 0
    /\ prep' = [prep EXCEPT ![r] = IF Cached(r) = "index" THEN "opened" ELSE "opened in part"]
    /\ UNCHANGED <<conf, cache, asked>>

Prepare ==
    \/ \E r \in Ranks :
        \/ LookForCache(r)
        \/ LookForDirectory(r)
        \/ CheckNode(r)
        \/ WriteCacheFiles(r)
        \/ WriteCacheIndex(r)
        \/ OpenCache(r)
    \/ EnterTogether
    \/ LeaveTogether
=============================================================================

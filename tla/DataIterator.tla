---------------------------- MODULE DataIterator ----------------------------
(* nnabla.utils.data_iterator: a main thread that takes batches, the thread  *)
(* every iterator keeps one batch ahead of it, and the slices of an iterator, *)
(* each an iterator with a thread of its own over the same data source.      *)
EXTENDS DataSources

CONSTANT Scenarios      \* the iterators a program builds, see conf

ASSUME ScenarioAssumption ==
    \A c \in Scenarios : c.batch \in Nat \ {0} /\ c.failures \in Nat

VARIABLES
    conf,       \* the scenario: stacks of sources, sizes, options and bounds
    h,          \* the data sources
    it,         \* the iterators, 0 is the one the others are slices of
    main,       \* what the main thread is doing, and with which iterator
    spread      \* how many generations the slices have been apart (history)

vars == <<conf, h, it, main, spread>>

Failures == {"past end", "out of step", "mutated", "torn"}
Finished == Failures \cup {"done"}

Threaded(i) == i # 0 \/ conf.thread
StopExhausted(i) == i = 0 /\ conf.stop

\* get_slice_start_end
SliceRange(size, slices, rank, dropLast) ==
    LET part == IF dropLast THEN size \div slices ELSE (size + slices - 1) \div slices
        start == (part * rank) % size
        over == Max({0, start + part - size})
    IN  IF dropLast THEN <<part * rank, part * rank + part>>
        ELSE <<start - over, start + part - over>>

Bounds(i) == IF i = 0 THEN <<0, conf.size>>
             ELSE SliceRange(conf.size, conf.slices, i - 1, conf.dropLast)
Size(i) == Bounds(i)[2] - Bounds(i)[1]

\* data_iterator() and slice() stack their sources like this, the top one first.
Own(i) == LET stack == IF i = 0 THEN conf.stack ELSE conf.sliceStack
          IN  [k \in DOMAIN stack |-> <<stack[k], i>>]
Chain(i) == IF i = 0 THEN Own(0) ELSE Own(i) \o Own(0)
Top(i) == Chain(i)[1]
Leaf(i) == Chain(i)[Len(Chain(i))]

Layers == {"simple", "csv", "concat", "cache", "file", "memory", "spilled", "sliced"}

\* A stack of sources stands on one that has the data, and only such a one does without;
\* slice() puts a slice on it, and whatever caches on the slice.
Leaves == {"simple", "csv", "concat", "cache"}

ASSUME StackAssumption ==
    \A c \in Scenarios :
        /\ c.size \in Nat \ {0} /\ c.slices \in Nat \ {0} /\ c.ranks \subseteq Nat \ {0}
        /\ c.stack \in Seq(Layers \ {"sliced"})
        /\ c.stack # <<>> /\ c.stack[Len(c.stack)] \in Leaves
        /\ c.sliceStack \in Seq(Layers) /\ (c.ranks # {} => c.sliceStack # <<>>)
        /\ \A k \in DOMAIN c.sliceStack : c.sliceStack[k] = "sliced" <=> k = Len(c.sliceStack)

\* What the random generators of a chain may draw, when they are asked.
NoDraw == [l \in Layers |-> 0]
DrawsOf(chain, asked) ==
    IF asked /\ conf.shuffle
    THEN {Changed(NoDraw, d) : d \in
            [{chain[n][1] : n \in DOMAIN chain} \ {"simple", "sliced", "spilled"} -> Draws]}
    ELSE {NoDraw}

Made == DOMAIN it
Slices == Made \ {0}

\* A new thread runs _next; its first test is only about stop_exhausted.
Started(r, i) == [r EXCEPT !.pc = IF StopExhausted(i) THEN "check" ELSE "item"]

\* What a read has found so far: who answers, the orders it walks, the place in a cache file.
NothingSeen == [level |-> 0, appended |-> 0, file |-> NoFile, slot |-> 0]

\* Its last step, with which the locals of _next go.
PutIn(r, data, resets) ==
    [r EXCEPT !.pc = "done", !.queue = Append(@, [data |-> data, resets |-> resets]),
              !.batch = <<>>, !.resets = 0, !.seen = NothingSeen]

NewIterator(i) ==
    LET r == [pc |-> "done", batch |-> <<>>, resets |-> 0, seen |-> NothingSeen,
              queue |-> <<>>, epoch |-> 0, ended |-> FALSE, closed |-> FALSE,
              delivered |-> <<>>, given |-> {}, read |-> 0, failures |-> 0]
    IN  IF Threaded(i) THEN Started(r, i) ELSE r

Init ==
    /\ conf \in Scenarios
    /\ \E draw \in DrawsOf(Own(0), TRUE) :
            h = LET g == AddAll(<<>>, Own(0), Len(Own(0)), conf, <<0, 0>>, draw)
                IN  AfterFill(AfterReset(g, Own(0), draw), Own(0), draw)
    /\ it = [i \in {0} |-> NewIterator(i)]
    /\ main = [pc |-> "idle", at |-> 0]
    /\ spread = 0

---------------------------------------------------------------------------
\* The thread: DataIterator._next.

Exhausted(i) == StopExhausted(i) /\ h[Top(i)].position + conf.batch > Size(i)

Check(i) ==
    /\ it[i].pc = "check"
    /\ it' = [it EXCEPT ![i] = IF Exhausted(i) THEN PutIn(@, <<>>, 0)
                                               ELSE [@ EXCEPT !.pc = "item"]]
    /\ UNCHANGED <<conf, h, main, spread>>

\* Where a read begins, and the source that answers it or is about to.
Position(i) == h[Top(i)].position
Answerer(i) == h[Chain(i)[it[i].seen.level]]
AskedOf(g, i, n) == Asked(g, Chain(i), n, Position(i))

\* A slice does not look at its own bounds: the first source below that has an order does, and
\* raises IndexError.
AtEndOfData(i) ==
    LET ordered == {n \in DOMAIN Chain(i) : Chain(i)[n][1] \notin {"sliced", "spilled"}}
        n == Min(ordered)
    IN  AskedOf(h, i, n) >= h[Chain(i)[n]].size

\* The order of the source that is to answer has been emptied.
NoOrder(i) == ~h[Chain(i)[Answering(h, Chain(i), Position(i))]].filled

\* A read that has found the source that answers, and in a cache the place.
Begun(r, n, source, place) ==
    [r EXCEPT !.pc = CASE source.layer = "simple" -> "scan"
                       [] source.layer = "cache" -> "compare"
                       [] OTHER -> "read",
              !.seen = [level |-> n, appended |-> source.appended,
                        file |-> place[1], slot |-> place[2]]]

\* _get_data goes down the chain to the source that answers: a memory cache has been asked
\* whether it has the sample, SimpleDataSource begins to walk its deque, CacheDataSource has
\* looked the place up.
BeginRead(i) ==
    /\ it[i].pc = "item"
    /\ ~AtEndOfData(i)
    /\ ~NoOrder(i)
    /\ \E n \in {Answering(h, Chain(i), Position(i))} :
       \E source \in {h[Chain(i)[n]]} :
       \E place \in {IF source.layer = "cache" THEN FilePlace(source, AskedOf(h, i, n))
                                               ELSE <<NoFile, 0>>} :
            it' = [it EXCEPT ![i] = Begun(@, n, source, place)]
    /\ UNCHANGED <<conf, h, main, spread>>

\* CacheDataSource._get_data, without a lock: is the file the one whose content is there ...
Compare(i) ==
    /\ it[i].pc = "compare"
    /\ it' = [it EXCEPT ![i].pc = IF h[Leaf(i)].named = it[i].seen.file THEN "fetch" ELSE "load"]
    /\ UNCHANGED <<conf, h, main, spread>>

\* ... and if not, its content comes first,
LoadFile(i) ==
    /\ it[i].pc = "load"
    /\ h' = [h EXCEPT ![Leaf(i)].held = it[i].seen.file]
    /\ it' = [it EXCEPT ![i].pc = "name"]
    /\ UNCHANGED <<conf, main, spread>>

\* then its name.
NameFile(i) ==
    /\ it[i].pc = "name"
    /\ h' = [h EXCEPT ![Leaf(i)].named = it[i].seen.file]
    /\ it' = [it EXCEPT ![i].pc = "fetch"]
    /\ UNCHANGED <<conf, main, spread>>

Reading == {"scan", "read", "fetch"}

\* What was found is still there: the order of the generation in the deque, the sample in the
\* memory cache whose order may be another by now, the slot in the content of the file.
Readable(i) ==
    LET source == Answerer(i)
    IN  CASE it[i].pc = "scan" -> Synchronized(h, Chain(i), it[i].seen.level)
          [] it[i].pc = "read" -> Holds(source, AskedOf(h, i, it[i].seen.level))
          [] it[i].pc = "fetch" -> /\ source.held # NoFile
                                   /\ it[i].seen.slot \in DOMAIN source.cache[source.held]

MayRead(i) == it[i].pc \in Reading /\ Readable(i)

\* _current_data is whatever file's content is there.
Found(i) ==
    IF it[i].pc = "fetch" THEN Answerer(i).cache[Answerer(i).held][it[i].seen.slot]
    ELSE SampleFrom(h, Chain(i), it[i].seen.level, Position(i), conf.parts)

\* On with the loop over the batch; a full one is put, unless an epoch ended in it.
Continued(r) ==
    CASE Len(r.batch) < conf.batch -> [r EXCEPT !.pc = "item"]
      [] Len(r.batch) = conf.batch /\ r.resets > 0 -> [r EXCEPT !.pc = "order"]
      [] OTHER -> PutIn(r, r.batch, r.resets)

\* The batch grows by a sample, and the source is reset at the end of the data.
WithSample(r, generation, sample, wraps) ==
    LET s == [r EXCEPT !.read = @ + 1, !.given = @ \cup {<<generation, sample>>},
                       !.batch = Append(@, sample), !.seen = NothingSeen]
    IN  IF wraps THEN [s EXCEPT !.pc = "reset"] ELSE Continued(s)

ReadItem(i) ==
    /\ MayRead(i)
    /\ \E sample \in {Found(i)} \ {NoData} :
       \E after \in {AfterNext(h, Chain(i), it[i].seen.level, sample)} :
        LET wraps == after[Top(i)].position >= Size(i) /\ ~StopExhausted(i)
        IN  /\ h' = after
            /\ it' = [it EXCEPT ![i] = WithSample(@, h[Top(i)].generation, sample, wraps)]
    /\ UNCHANGED <<conf, main, spread>>

\* An epoch more in this batch.
WithReset(r) == [r EXCEPT !.resets = @ + 1]

\* _reset: CacheDataSource waits for the lock of its reset, empties its order ...
Reset(i) ==
    /\ it[i].pc = "reset"
    /\ Emptied(h, Chain(i)) = {}
    /\ \E draw \in DrawsOf(Chain(i), TRUE) : h' = AfterReset(h, Chain(i), draw)
    /\ it' = [it EXCEPT ![i] = IF Emptied(h', Chain(i)) = {} THEN Continued(WithReset(@))
                               ELSE [WithReset(@) EXCEPT !.pc = "fill"]]
    /\ UNCHANGED <<conf, main, spread>>

\* ... and fills it again, while others read.
Fill(i) ==
    /\ it[i].pc = "fill"
    /\ \E draw \in DrawsOf(Chain(i), TRUE) : h' = AfterFill(h, Chain(i), draw)
    /\ it' = [it EXCEPT ![i] = Continued(@)]
    /\ UNCHANGED <<conf, main, spread>>

\* A load may fail where samples are loaded: not in a memory cache, and CacheDataSource ends
\* the process.
LoadFails(i) ==
    \/ it[i].failures < conf.failures /\ Answerer(i).layer \notin {"memory", "cache"}
    \/ Found(i) = NoData

\* Mutant: try the same sample again, without an end.
ReadNothingAgain(i) ==
    /\ MayRead(i)
    /\ LoadFails(i)
    /\ it' = [it EXCEPT ![i].pc = "item", ![i].seen = NothingSeen]
    /\ UNCHANGED <<conf, h, main, spread>>

\* The data source returned None: what the batch had so far is dropped.
WithoutSample(r) == PutIn([r EXCEPT !.read = @ + 1, !.failures = @ + 1], <<>>, 0)

ReadNothing(i) ==
    /\ MayRead(i)
    /\ LoadFails(i)
    /\ h' = AfterNext(h, Chain(i), it[i].seen.level, NoData)
    /\ it' = [it EXCEPT ![i] = WithoutSample(@)]
    /\ UNCHANGED <<conf, main, spread>>

\* The order has no entry there, which ends the thread.
PastEnd(i) ==
    /\ it[i].pc = "item"
    /\ AtEndOfData(i)
    /\ it' = [it EXCEPT ![i].pc = "past end"]
    /\ UNCHANGED <<conf, h, main, spread>>

\* "Its client is not synchronized!" does too.
OutOfStep(i) ==
    /\ it[i].pc = "scan"
    /\ ~Readable(i)
    /\ it' = [it EXCEPT ![i].pc = "out of step"]
    /\ UNCHANGED <<conf, h, main, spread>>

\* So do an order or a content that another thread has replaced (IndexError, KeyError).
Torn(i) ==
    /\ \/ it[i].pc = "item" /\ ~AtEndOfData(i) /\ NoOrder(i)
       \/ it[i].pc \in {"read", "fetch"} /\ ~Readable(i)
    /\ it' = [it EXCEPT ![i].pc = "torn"]
    /\ UNCHANGED <<conf, h, main, spread>>

\* So does a deque that changes while it is walked (RuntimeError).
Mutated(i) ==
    /\ it[i].pc \in {"scan", "append"}
    /\ \E n \in DOMAIN Chain(i) : /\ h[Chain(i)[n]].layer = "simple"
                                  /\ h[Chain(i)[n]].appended # it[i].seen.appended
    /\ it' = [it EXCEPT ![i].pc = "mutated"]
    /\ UNCHANGED <<conf, h, main, spread>>

Generations(g, slices) == {g[Top(i)].generation : i \in slices}

\* How far apart the slices have been, now that the sources are g.
Widened(g, slices) ==
    IF slices = {} THEN spread
    ELSE Max({spread, Max(Generations(g, slices)) - Min(Generations(g, slices))})

\* apply_order: the generation moves, then its order is looked up below ...
ApplyOrder(i) ==
    LET g == AfterApplyOrder(h, Chain(i))
        missing == {x \in Generator(h, Chain(i)) : ~HasOrder(g[x], g[Top(i)].generation)}
    IN  /\ it[i].pc = "order"
        /\ h' = g
        /\ it' = [it EXCEPT ![i] =
                    IF missing = {} THEN PutIn(@, @.batch, @.resets)
                    ELSE [@ EXCEPT !.pc = "append",
                                   !.seen.appended = g[CHOOSE x \in missing : TRUE].appended]]
        /\ spread' = Widened(g, Slices)
        /\ UNCHANGED <<conf, main>>

\* ... and, if it was not there, drawn and appended.
GenerateOrder(i) ==
    /\ it[i].pc = "append"
    /\ \E x \in Generator(h, Chain(i)) :
            h' = [h EXCEPT ![x] = AppendOrder(@, h[Top(i)].generation)]
    /\ it' = [it EXCEPT ![i] = PutIn(@, @.batch, @.resets)]
    /\ UNCHANGED <<conf, main, spread>>

Thread(i) ==
    \/ Check(i)
    \/ BeginRead(i)
    \/ Compare(i)
    \/ LoadFile(i)
    \/ NameFile(i)
    \/ ReadItem(i)
    \/ Reset(i)
    \/ Fill(i)
    \/ ReadNothing(i)
    \/ PastEnd(i)
    \/ OutOfStep(i)
    \/ Torn(i)
    \/ Mutated(i)
    \/ ApplyOrder(i)
    \/ GenerateOrder(i)

---------------------------------------------------------------------------
\* The main thread: next, slice, close.

\* Bound on the batches a program takes; one that sliced an iterator goes on with the slices.
Satisfied(i) ==
    \/ Len(it[i].delivered) >= conf.batches[i + 1] * conf.batch
    \/ i = 0 /\ Slices # {}

\* The constructor of a slice is not back from the first reset.
Constructing == \E i \in Slices : it[i].pc = "fill" /\ it[i].read = 0

Call(i) ==
    /\ main.pc = "idle"
    /\ ~Constructing
    /\ ~it[i].closed
    /\ ~Satisfied(i)
    /\ main' = [pc |-> "get", at |-> i]
    /\ it' = [it EXCEPT ![i] = IF Threaded(i) THEN @ ELSE Started(@, i)]
    /\ UNCHANGED <<conf, h, spread>>

\* queue.get() and join(): the thread's last step is the put.
Ready(i) == it[i].queue # <<>> /\ it[i].pc = "done"

\* Mutant: one epoch per batch at most.
TakenOnce(i) ==
    LET got == Head(it[i].queue)
        r == [it[i] EXCEPT !.queue = Tail(@),
                           !.delivered = @ \o got.data,
                           !.epoch = @ + (IF got.resets > 0 THEN 1 ELSE 0)]
    IN  IF Threaded(i) THEN Started(r, i) ELSE r

Taken(i) ==
    LET got == Head(it[i].queue)
        r == [it[i] EXCEPT !.queue = Tail(@),
                           !.delivered = @ \o got.data,
                           !.epoch = @ + got.resets]
    IN  IF Threaded(i) THEN Started(r, i) ELSE r

\* next() starts the thread on the following batch and runs the callbacks of the epochs.
Take(i) ==
    /\ main = [pc |-> "get", at |-> i]
    /\ Ready(i)
    /\ Head(it[i].queue).data # <<>>
    /\ it' = [it EXCEPT ![i] = Taken(i)]
    /\ main' = [main EXCEPT !.pc = "idle"]
    /\ UNCHANGED <<conf, h, spread>>

AtEnd(i) == StopExhausted(i) /\ h[Top(i)].position + conf.batch >= Size(i)

StopIteration(i) ==
    /\ main = [pc |-> "get", at |-> i]
    /\ Ready(i)
    /\ Head(it[i].queue).data = <<>>
    /\ AtEnd(i)
    /\ it' = [it EXCEPT ![i].queue = Tail(@), ![i].ended = TRUE]
    /\ main' = [main EXCEPT !.pc = "idle"]
    /\ UNCHANGED <<conf, h, spread>>

\* What came is dropped, and the thread, if there is one, makes another batch.
Again(i) ==
    LET r == [it[i] EXCEPT !.queue = Tail(@)]
    IN  IF Threaded(i) THEN Started(r, i) ELSE r

\* Mutant: what came is not looked at.
RetryAlways(i) ==
    /\ main = [pc |-> "get", at |-> i]
    /\ Ready(i)
    /\ ~AtEnd(i)
    /\ it' = [it EXCEPT ![i] = Again(i)]
    /\ main' = [main EXCEPT !.pc = IF Threaded(i) THEN "retry" ELSE "idle"]
    /\ UNCHANGED <<conf, h, spread>>

\* Mutant: no thread is started to try again.
RetryIdle(i) ==
    /\ main = [pc |-> "get", at |-> i]
    /\ Ready(i)
    /\ Head(it[i].queue).data = <<>>
    /\ ~AtEnd(i)
    /\ it' = [it EXCEPT ![i].queue = Tail(@)]
    /\ main' = [main EXCEPT !.pc = IF Threaded(i) THEN "retry" ELSE "idle"]
    /\ UNCHANGED <<conf, h, spread>>

\* "next() got None retrying...": once more, if there is a thread to do it.
Retry(i) ==
    /\ main = [pc |-> "get", at |-> i]
    /\ Ready(i)
    /\ Head(it[i].queue).data = <<>>
    /\ ~AtEnd(i)
    /\ it' = [it EXCEPT ![i] = Again(i)]
    /\ main' = [main EXCEPT !.pc = IF Threaded(i) THEN "retry" ELSE "idle"]
    /\ UNCHANGED <<conf, h, spread>>

\* Whatever the second try brought is returned.
TakeRetried(i) ==
    /\ main = [pc |-> "retry", at |-> i]
    /\ Ready(i)
    /\ it' = [it EXCEPT ![i] = Taken(i)]
    /\ main' = [main EXCEPT !.pc = "idle"]
    /\ UNCHANGED <<conf, h, spread>>

\* slice(): new sources on top of those of the iterator, and an iterator over them.
Slice(i) ==
    /\ main.pc = "idle"
    /\ ~Constructing
    /\ ~it[0].closed
    /\ i \in conf.ranks \ Made
    /\ \A j \in conf.ranks \ Made : i <= j
    /\ Emptied(h, Own(0)) = {}
    /\ \E draw \in DrawsOf(Chain(i), TRUE) :
            h' = AfterReset(AddAll(h, Chain(i), Len(Own(i)), conf, Bounds(i), draw), Chain(i), draw)
    /\ LET r == IF Emptied(h', Chain(i)) = {} THEN NewIterator(i)
                ELSE [NewIterator(i) EXCEPT !.pc = "fill"]
       IN  it' = [j \in Made \cup {i} |-> IF j = i THEN r ELSE it[j]]
    /\ spread' = Widened(h', Slices \cup {i})
    /\ UNCHANGED <<conf, main>>

\* Mutant: without the join.
CloseUnjoined(i) ==
    /\ main.pc = "idle"
    /\ ~Constructing
    /\ ~it[i].closed
    /\ Satisfied(i) \/ it[i].ended
    /\ i = 0 => \A j \in Slices : it[j].closed
    /\ it' = [it EXCEPT ![i].closed = TRUE]
    /\ h' = CloseAll(h, {Own(i)[k] : k \in DOMAIN Own(i)})
    /\ UNCHANGED <<conf, main, spread>>

\* close() joins the thread and closes the sources, down to the slice if there is one.
\* The program closes an iterator when it is done with it, and with its slices.
Close(i) ==
    /\ main.pc = "idle"
    /\ ~Constructing
    /\ ~it[i].closed
    /\ Satisfied(i) \/ it[i].ended
    /\ i = 0 => \A j \in Slices : it[j].closed
    /\ it[i].pc \in Finished
    /\ it' = [it EXCEPT ![i].closed = TRUE]
    /\ h' = CloseAll(h, {Own(i)[k] : k \in DOMAIN Own(i)})
    /\ UNCHANGED <<conf, main, spread>>

Return(i) == Take(i) \/ StopIteration(i) \/ Retry(i) \/ TakeRetried(i)

Next ==
    \/ \E i \in Made : Thread(i) \/ Call(i) \/ Return(i) \/ Close(i)
    \/ \E i \in conf.ranks : Slice(i)

\* The interpreter runs every runnable thread, and the main thread once it has its batch.
Fairness ==
    /\ \A i \in 0..2 : WF_vars(i \in Made /\ Thread(i))
    /\ WF_vars(\E i \in Made : Return(i))

Spec == Init /\ [][Next]_vars /\ Fairness

---------------------------------------------------------------------------
\* Every sample the source was asked for is delivered, in the queue or in the batch in
\* the making; a load that fails costs no more than the batch it was in
\* (DataIterator._next and the retry in next).
LossIsBounded ==
    \A i \in Made :
        LET queued == IF it[i].queue = <<>> THEN 0 ELSE Len(Head(it[i].queue).data)
            lost == it[i].read - Len(it[i].delivered) - queued - Len(it[i].batch)
        IN  lost \in 0..(it[i].failures * conf.batch)

\* Whose loads have all succeeded, and who has a sample at all: a slice of none serves
\* those of others, as one does that a failed load has taken past its end.
Served(i) == it[i].failures = 0 /\ Size(i) # 0

\* Slices of a cache share what it has read with each other and with the iterator they slice.
SharesCache == Slices # {} /\ \E k \in DOMAIN Own(0) : Own(0)[k][1] \in {"cache", "memory"}

\* A source that serves every sample once an epoch however the epochs and the batches
\* fall together. A shuffled SimpleDataSource moves to the next order only at the end
\* of the batch, and slices of other shuffled sources share one order they all redraw.
InOrder(i) ==
    LET leaf == Leaf(i)[1]
        cached == \E k \in DOMAIN Own(0) : Own(0)[k][1] \in {"memory", "spilled", "file"}
    IN  /\ i # 0 => ~SharesCache
        /\ \/ ~conf.shuffle
           \/ leaf # "simple" /\ Cardinality(conf.ranks) <= 1
           \/ leaf = "simple" /\ (cached \/ Size(i) % conf.batch = 0)

\* Each run of Size samples an iterator delivers holds Size different samples, and those
\* of its own range if nothing is shuffled: no epoch repeats or misses a sample, though
\* batches cross its end and the caches change order there (DataSourceWithMemoryCache.reset).
EveryPassIsComplete ==
    \A i \in Made : (InOrder(i) /\ Served(i)) =>
        \A w \in 0..(Len(it[i].delivered) \div Size(i) - 1) :
            LET pass == {it[i].delivered[w * Size(i) + k] : k \in 1..Size(i)}
            IN  /\ Cardinality(pass) = Size(i)
                /\ (i = 0 \/ ~conf.shuffle) => pass = Bounds(i)[1]..(Bounds(i)[2] - 1)

\* While the slices stay together, what one of them serves of a generation no other
\* one serves ("It only assumes that each slice at each epoch have different dataset.",
\* test_sliced_data_iterator.py): they look the generation's one order up, or the first
\* one there draws it.
SlicesAreDisjoint ==
    (conf.dropLast /\ Leaf(0)[1] = "simple"
        /\ Len(Own(0)) = 1 /\ spread < Kept \div conf.slices) =>
            \A i, j \in {k \in Slices : Served(k)} :
                i # j => it[i].given \cap it[j].given = {}

\* A thread ends with an exception only if the slices have been generations apart, more than
\* the deque of SimpleDataSource is sure to remember when each slice may append the same
\* generation, or are as far ahead of the iterator they slice, if a slice used the deque at
\* once, after the last sample failed to load, or if it shares a cache: what CacheDataSource
\* reads and resets, and what a memory cache keeps, no lock protects.
FailsOnlyOutOfStep ==
    \A i \in Made :
        /\ it[i].pc = "out of step" =>
                \/ spread >= Kept \div conf.slices
                \/ i = 0 /\ \E g \in Generations(h, Slices) : g - h[Top(0)].generation >= Kept \div conf.slices
        /\ it[i].pc = "past end" => it[i].failures > 0
        /\ it[i].pc = "mutated" => Cardinality(Slices) >= 1
        /\ it[i].pc = "torn" => SharesCache

\* next() waits for a batch nobody makes only after StopIteration or the end of the thread
\* by an exception: the retry and the start of the next thread leave no other gap.
Stuck(i) == main.pc # "idle" /\ main.at = i /\ it[i].queue = <<>>
            /\ it[i].pc \in Finished
BlocksOnlyWhenEnded ==
    \A i \in Made : Stuck(i) => it[i].pc \in Failures \/ (it[i].ended /\ Threaded(i))

\* No thread reads a source that was closed: close() joins first (DataIterator.close).
ClosedIsQuiet ==
    \A i \in Made :
        it[i].pc \notin Finished =>
            \A k \in DOMAIN Chain(i) : ~h[Chain(i)[k]].closed

\* A slice over unshuffled data delivers samples of its own portion only ("newly generated
\* data iterator has access to limited portion of the original data", slice()).
WithinSlice ==
    \A i \in Slices : ~conf.shuffle =>
        \A k \in DOMAIN it[i].delivered :
            it[i].delivered[k] \in Bounds(i)[1]..(Bounds(i)[2] - 1)

\* Every call of next() returns or stops the iteration, unless its thread is gone.
CallsReturn == main.pc # "idle" ~> (main.pc = "idle" \/ Stuck(main.at))

---------------------------------------------------------------------------
(* What an iterator promises, without thread and queue: see BatchStream.     *)
Stream ==
    [i \in {j \in Made : Served(j)} |->
        [size |-> Size(i), batch |-> conf.batch, stop |-> StopExhausted(i),
         passed |-> Len(it[i].delivered), epoch |-> it[i].epoch, ended |-> it[i].ended]]

Promise == INSTANCE BatchStream WITH stream <- Stream
\* Though the thread is a batch ahead and resets the source before the main thread knows,
\* next() delivers batch after batch, epoch counts the passes that were delivered, and
\* StopIteration comes when no whole batch is left.
ImplementsBatchStream == Promise!Spec
=============================================================================

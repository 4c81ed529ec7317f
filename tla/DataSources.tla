---------------------------- MODULE DataSources ----------------------------
(* The data sources of nnabla.utils: the order in which each of them serves  *)
(* its samples, when it draws a new order, and what the caches and slices    *)
(* stacked on top of one another remember. A sample is the number of its     *)
(* row; loading, normalising and the formats of the files are left out.      *)
EXTENDS Integers, Sequences, SequencesExt, FiniteSets, FiniteSetsExt

CONSTANTS
    Kept,       \* generations of orders SimpleDataSource remembers (15)
    FileSize,   \* samples in one cache file
    Draws       \* the shuffles numpy.random may draw

ASSUME SourceConstants ==
    /\ Kept \in Nat \ {0}
    /\ FileSize \in Nat \ {0}
    /\ Draws \in {0..0, 0..1, 0..2}

NoData == -1        \* _get_data returned None
NoFile == -1        \* no cache file

Identity(n) == [p \in 0..(n - 1) |-> p]

\* A shuffle of an order: as it is, rotated by one, or reversed.
Permuted(order, draw) ==
    LET n == Cardinality(DOMAIN order)
    IN  CASE draw = 0 -> order
          [] draw = 1 -> [p \in DOMAIN order |-> order[(p + 1) % n]]
          [] draw = 2 -> [p \in DOMAIN order |-> order[n - 1 - p]]

ShuffledBy(source, order, draw) ==
    IF source.shuffle THEN Permuted(order, draw) ELSE order

(***************************************************************************)
(* A source is a record. chain is the source with the sources below it, the *)
(* one that is asked first in front; every operator takes the heap h of all  *)
(* sources, because slices share what is below them.                         *)
(***************************************************************************)

\* The fields every source starts with.
DataSource(chain, size, shuffle) ==
    [layer |-> chain[1][1], chain |-> chain, size |-> size, shuffle |-> shuffle,
     position |-> 0, generation |-> 0, start |-> 0, order |-> Identity(size),
     orders |-> <<>>, appended |-> 0, cache |-> <<>>, held |-> NoFile, named |-> NoFile,
     filled |-> TRUE, closed |-> FALSE]

Below(source) == source.chain[2]

\* Some of the sources change, or there is one more.
Changed(h, g) == [x \in DOMAIN h \cup DOMAIN g |-> IF x \in DOMAIN g THEN g[x] ELSE h[x]]
Added(h, x, source) == [y \in DOMAIN h \cup {x} |-> IF y = x THEN source ELSE h[y]]

---------------------------------------------------------------------------
\* SimpleDataSource keeps the orders of the last generations.

HasOrder(source, generation) ==
    \E k \in DOMAIN source.orders : source.orders[k].generation = generation

\* Mutant: the last snapshot of the generation instead of the first.
OrderOfLast(source, generation) ==
    LET k == Max({j \in DOMAIN source.orders :
                    source.orders[j].generation = generation})
    IN  source.orders[k].order

OrderOf(source, generation) ==
    LET k == Min({j \in DOMAIN source.orders :
                    source.orders[j].generation = generation})
    IN  source.orders[k].order

\* The deque drops its oldest snapshot when it is full. The draws take turns, so that
\* an order drawn again is another one.
AppendOrder(source, generation) ==
    LET draw == source.appended % Cardinality(Draws)
        snapshot == [generation |-> generation,
                     order |-> ShuffledBy(source, Identity(source.size), draw)]
        all == Append(source.orders, snapshot)
    IN  [source EXCEPT !.orders = IF Len(all) > Kept THEN Tail(all) ELSE all,
                       !.appended = @ + 1]

SimpleDataSource(chain, size, shuffle) ==
    AppendOrder(DataSource(chain, size, shuffle), 0)

---------------------------------------------------------------------------
\* CsvDataSource and ConcatDataSource index their rows by one order.

CsvDataSource(chain, size, shuffle, draw) ==
    [DataSource(chain, size, shuffle)
     EXCEPT !.order = ShuffledBy([shuffle |-> shuffle], @, draw)]

\* The position a concatenated list of datasets hands to the dataset that holds idx.
InPart(parts, idx) ==
    LET bound(k) == MapThenSumSet(LAMBDA j : parts[j], 1..k)
        part == Min({k \in DOMAIN parts : idx < bound(k)})
    IN  <<part, idx - bound(part - 1)>>

\* The sample a dataset of the list holds there, numbered over the whole list.
PartSample(parts, at) ==
    at[2] + MapThenSumSet(LAMBDA j : parts[j], 1..(at[1] - 1))

---------------------------------------------------------------------------
\* Cache files: files[f] holds the samples of file f; order = [files, slots] is
\* the order of the files and, for each, the order of the samples in it. CacheDataSource
\* has the content of file held in _current_data, and takes it for that of file named.

FilesOf(samples) ==
    LET n == Cardinality(DOMAIN samples)
        number == (n + FileSize - 1) \div FileSize
    IN  [f \in 0..(number - 1) |->
            [j \in 0..(Min({FileSize, n - f * FileSize}) - 1) |->
                samples[f * FileSize + j]]]

FileOrder(files) ==
    [files |-> Identity(Cardinality(DOMAIN files)),
     slots |-> [f \in DOMAIN files |-> Identity(Cardinality(DOMAIN files[f]))]]

DrawFileOrder(order, draw) ==
    [files |-> Permuted(order.files, draw),
     slots |-> [f \in DOMAIN order.slots |-> Permuted(order.slots[f], draw)]]

\* _create_cache_file_position_table: the file that serves a position, and its slot.
FilePlace(source, position) ==
    LET length(f) == Cardinality(DOMAIN source.order.slots[f])
        from(k) == MapThenSumSet(LAMBDA j : length(source.order.files[j]), 0..(k - 1))
        k == Max({j \in DOMAIN source.order.files : from(j) <= position})
        f == source.order.files[k]
    IN  <<f, source.order.slots[f][position - from(k)]>>

FileSample(source, position) ==
    LET place == FilePlace(source, position) IN source.cache[place[1]][place[2]]

CacheDataSource(chain, size, shuffle, draw) ==
    LET files == FilesOf(Identity(size))
        order == FileOrder(files)
    IN  [DataSource(chain, size, shuffle)
         EXCEPT !.cache = files,
                !.order = IF shuffle THEN DrawFileOrder(order, draw) ELSE order]

---------------------------------------------------------------------------
\* Reading. A wrapper hands the position on, a slice shifts it; the first source
\* of the chain that holds the sample answers.

Asked(h, chain, n, position) ==
    position + MapThenSumSet(LAMBDA m : h[chain[m]].start, 1..(n - 1))

OnMemory(source) == source.layer = "memory"

Holds(source, position) ==
    CASE OnMemory(source) -> source.order[position] < Len(source.cache)
      [] source.layer \in {"sliced", "spilled"} -> FALSE
      [] OTHER -> TRUE

Answering(h, chain, position) ==
    Min({n \in DOMAIN chain : Holds(h[chain[n]], Asked(h, chain, n, position))})

\* A slice asks for the order of its own generation, everybody else for the latest.
GenerationAsked(h, chain, n) ==
    IF n > 1 /\ h[chain[n - 1]].layer = "sliced"
    THEN h[chain[n - 1]].generation ELSE h[chain[n]].generation

\* Not "Its client is not synchronized!", if the n-th source of the chain answers.
Synchronized(h, chain, n) ==
    h[chain[n]].layer = "simple" => HasOrder(h[chain[n]], GenerationAsked(h, chain, n))

\* What the n-th source of the chain answers.
SampleFrom(h, chain, n, position, parts) ==
    LET source == h[chain[n]]
        p == Asked(h, chain, n, position)
    IN  CASE source.layer = "simple" -> OrderOf(source, GenerationAsked(h, chain, n))[p]
          [] source.layer = "csv" -> source.order[p]
          [] source.layer = "concat" -> PartSample(parts, InPart(parts, source.order[p]))
          [] source.layer \in {"cache", "file"} -> FileSample(source, p)
          [] source.layer = "memory" -> source.cache[source.order[p] + 1]

Sample(h, chain, position, parts) ==
    SampleFrom(h, chain, Answering(h, chain, position), position, parts)

\* Every source on the way notes the position, every memory cache that missed keeps the data.
AfterAnswer(h, chain, n, position, sample) ==
    LET visited(m, source) ==
            [source EXCEPT
                !.position = IF source.layer \in {"simple", "csv", "concat"}
                             THEN @ ELSE Asked(h, chain, m, position),
                !.cache = IF OnMemory(source) /\ m < n THEN Append(@, sample) ELSE @]
        way == {m \in DOMAIN chain : m <= n}
    IN  Changed(h, [x \in {chain[m] : m \in way} |->
                        visited(CHOOSE m \in way : chain[m] = x, h[x])])

\* A read from start to end, as the constructors make it.
AfterGetData(h, chain, position, sample) ==
    LET n == Answering(h, chain, position)
        file == FilePlace(h[chain[n]], Asked(h, chain, n, position))[1]
        g == AfterAnswer(h, chain, n, position, sample)
    IN  IF h[chain[n]].layer = "cache"
        THEN [g EXCEPT ![chain[n]].held = file, ![chain[n]].named = file]
        ELSE g

\* DataSource.next, when the n-th source has answered.
AfterNext(h, chain, n, sample) ==
    LET position == h[chain[1]].position
        read == AfterAnswer(h, chain, n, position, sample)
    IN  [read EXCEPT ![chain[1]].position = position + 1]

---------------------------------------------------------------------------
\* Resetting. A memory cache at position 0 does not reset what is below it.

AtStart(source) == OnMemory(source) /\ source.position = 0

Reached(h, chain) ==
    {chain[n] : n \in {k \in DOMAIN chain : \A m \in 1..(k - 1) : ~AtStart(h[chain[m]])}}

\* Mutant: it shuffles from the first reset on.
MemoryResetEager(source, draw) ==
    LET generation == source.generation + 1
    IN  [source EXCEPT
            !.order = IF source.shuffle
                      THEN Permuted(Identity(source.size), draw) ELSE Identity(source.size),
            !.generation = IF AtStart(source) THEN -1 ELSE generation,
            !.position = 0]

\* A memory cache shuffles from its second reset on: the first leaves it at generation 0.
MemoryReset(source, draw) ==
    LET generation == source.generation + 1
    IN  [source EXCEPT
            !.order = IF source.shuffle /\ generation > 0
                      THEN Permuted(Identity(source.size), draw) ELSE Identity(source.size),
            !.generation = IF AtStart(source) THEN -1 ELSE generation,
            !.position = 0]

\* Mutant: a source without an order of its own is left where it is.
SourceResetOrders(source, draw) ==
    CASE source.layer = "memory" -> MemoryReset(source, draw)
      [] source.layer \in {"csv", "concat"} ->
            [source EXCEPT !.order = ShuffledBy(source, Identity(source.size), draw),
                           !.position = 0]
      [] OTHER -> source

\* CacheDataSource only empties its order here: filling it again is a step of its own.
SourceReset(source, draw) ==
    CASE source.layer = "memory" -> MemoryReset(source, draw)
      [] source.layer \in {"csv", "concat"} ->
            [source EXCEPT !.order = ShuffledBy(source, Identity(source.size), draw),
                           !.position = 0]
      [] source.layer = "cache" ->
            [source EXCEPT !.filled = FALSE, !.position = 0]
      [] source.layer = "file" ->
            [source EXCEPT !.order = IF source.shuffle THEN DrawFileOrder(@, draw) ELSE @,
                           !.position = 0]
      [] OTHER -> [source EXCEPT !.position = 0]

\* The source with everything below it; a slice leaves the source below at its own start.
AfterReset(h, chain, draw) ==
    LET reached == Reached(h, chain)
        slices == {x \in reached : h[x].layer = "sliced"}
        clean(x) == SourceReset(h[x], draw[x[1]])
        over(x) == {y \in slices : Below(h[y]) = x}
    IN  Changed(h, [x \in reached |->
            IF over(x) = {} THEN clean(x)
            ELSE [clean(x) EXCEPT !.position = h[CHOOSE y \in over(x) : TRUE].start]])

Emptied(h, chain) == {x \in {chain[n] : n \in DOMAIN chain} : ~h[x].filled}

\* The rest of CacheDataSource.reset: the files and the samples in them in a new order, and
\* no content.
FillOrder(source, draw) ==
    [source EXCEPT !.order = IF source.shuffle
                             THEN DrawFileOrder(FileOrder(source.cache), draw) ELSE @,
                   !.held = NoFile, !.named = NoFile, !.filled = TRUE]

AfterFill(h, chain, draw) ==
    Changed(h, [x \in Emptied(h, chain) |-> FillOrder(h[x], draw[x[1]])])

---------------------------------------------------------------------------
\* apply_order, at the end of a batch that ended an epoch: the source of the
\* iterator moves to a new generation, which is generated below if nobody has.

AfterApplyOrder(h, chain) ==
    IF h[chain[1]].layer \in {"simple", "sliced"}
    THEN [h EXCEPT ![chain[1]].generation = @ + 1]
    ELSE h

\* The source whose _generate_order has something to do.
Generator(h, chain) ==
    LET x == IF h[chain[1]].layer = "sliced" THEN chain[2] ELSE chain[1]
    IN  IF h[chain[1]].layer \in {"simple", "sliced"} /\ h[x].layer = "simple"
        THEN {x} ELSE {}

---------------------------------------------------------------------------
\* Constructing.

SlicedDataSource(chain, bounds, shuffle) ==
    [DataSource(chain, bounds[2] - bounds[1], shuffle) EXCEPT !.start = bounds[1]]

\* The constructor reads one sample to learn its size.
MemoryCache(h, chain, shuffle, parts) ==
    LET below == Tail(chain)
        source == [DataSource(chain, h[below[1]].size, shuffle) EXCEPT !.generation = -1]
    IN  Added(AfterGetData(h, below, 0, Sample(h, below, 0, parts)), chain[1], source)

\* _create_cache reads everything below once.
FileCache(h, chain, shuffle, parts) ==
    LET below == Tail(chain)
        n == h[below[1]].size
        read(r, p) ==
            LET sample == Sample(r.h, below, p, parts)
            IN  [h |-> AfterGetData(r.h, below, p, sample), samples |-> Added(r.samples, p, sample)]
        all == FoldLeft(read, [h |-> h, samples |-> <<>>], [k \in 1..n |-> k - 1])
        files == FilesOf(all.samples)
        source == [DataSource(chain, n, shuffle)
                   EXCEPT !.cache = files, !.order = FileOrder(files)]
    IN  Added(all.h, chain[1], source)

\* The source of a layer on top of the chain below it.
AddSource(h, chain, conf, range, draw) ==
    CASE chain[1][1] = "simple" ->
            Added(h, chain[1], SimpleDataSource(chain, conf.size, conf.shuffle))
      [] chain[1][1] \in {"csv", "concat"} ->
            Added(h, chain[1], CsvDataSource(chain, conf.size, conf.shuffle, draw))
      [] chain[1][1] = "cache" ->
            Added(h, chain[1], CacheDataSource(chain, conf.size, conf.shuffle, draw))
      [] chain[1][1] = "file" -> FileCache(h, chain, conf.shuffle, conf.parts)
      [] chain[1][1] \in {"memory", "spilled"} -> MemoryCache(h, chain, conf.shuffle, conf.parts)
      [] chain[1][1] = "sliced" ->
            Added(h, chain[1], SlicedDataSource(chain, range, conf.shuffle))

\* The stacks the functions of data_iterator.py build, the top source first.
Wrapped(leaf, memory, file) ==
    (IF memory THEN <<"memory">> ELSE <<>>) \o (IF file THEN <<"file">> ELSE <<>>) \o <<leaf>>
IteratorSimple(memory, file) == Wrapped("simple", memory, file)
IteratorCsv(memory, file) == Wrapped("csv", memory, file)
IteratorCache(memory) == Wrapped("cache", memory, FALSE)
IteratorConcat(memory, file) == Wrapped("concat", memory, file)

\* slice() takes the cache directory of a file cache it finds below.
SliceStack(stack, useCache, cacheDir) ==
    IF ~useCache THEN <<"sliced">>
    ELSE Wrapped("sliced", TRUE, cacheDir \/ "file" \in ToSet(stack))

\* All of them, the lowest first.
AddAll(h, chain, new, conf, range, draw) ==
    FoldLeft(LAMBDA g, k : AddSource(g, SubSeq(chain, k, Len(chain)), conf, range, draw[chain[k][1]]),
             h, [j \in 1..new |-> new + 1 - j])

\* Closing an iterator closes its sources down to the slice, or all of them.
CloseAll(h, closing) ==
    Changed(h, [x \in closing |-> [h[x] EXCEPT !.closed = TRUE]])
=============================================================================

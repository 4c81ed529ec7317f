------------------------- MODULE DataIteratorProofs -------------------------
(***************************************************************************)
(* The hand-over between the thread of an iterator and the main thread is  *)
(* right for every stack of sources, every size of batch and every number  *)
(* of slices: no sample read is lost but in a batch that failed, and       *)
(* next() waits only where a thread has ended.  So far whatever the data   *)
(* sources answer is left open.  The second part is about the sources: no  *)
(* thread reads one that was closed, whatever they are stacked from.  The  *)
(* third puts both together: what next() delivers, the epochs it counts    *)
(* and where it stops are as BatchStream says.                             *)
(***************************************************************************)
EXTENDS DataIterator, FoldProofs, SequenceTheorems

Fields == {"pc", "batch", "resets", "seen", "queue", "epoch", "ended", "closed",
           "delivered", "given", "read", "failures"}

\* At its turn of the loop, and at the end of it.
InLoop == {"item", "scan", "compare", "load", "name", "read", "fetch"}
Working == InLoop \cup {"check", "reset", "fill", "order", "append"}

Sequence(s) == \E S : s \in Seq(S)

\* A queue holds a batch at most.
Single(q) == q # <<>> => Tail(q) = <<>> /\ Sequence(Head(q).data)

Queued(q) == IF q = <<>> THEN 0 ELSE Len(Head(q).data)
Lost(r) == r.read - Len(r.delivered) - Queued(r.queue) - Len(r.batch)

\* An iterator whose batches are of b samples.
Sound(r, b) ==
    /\ DOMAIN r = Fields
    /\ r.pc \in Working \cup Finished
    /\ Sequence(r.batch) /\ Sequence(r.delivered) /\ Single(r.queue)
    /\ r.read \in Nat /\ r.failures \in Nat
    /\ Len(r.batch) <= b
    /\ r.pc \in InLoop => Len(r.batch) < b
    /\ r.pc \in {"done", "check"} => r.batch = <<>>
    /\ r.pc # "done" => r.queue = <<>>
    /\ Lost(r) >= 0 /\ Lost(r) <= r.failures * b

MainOK == /\ DOMAIN main = {"pc", "at"}
          /\ main.pc \in {"idle", "get", "retry"}
          /\ main.at \in Made

\* Main waits for iterator i.
Waiting(i) == main.pc # "idle" /\ main.at = i

\* The thread of an iterator stops with a batch in the queue, or for good; an iterator
\* without a thread works while main waits for it, and only then.
HandOver(i) ==
    /\ Threaded(i) /\ it[i].pc = "done" /\ it[i].queue = <<>> => it[i].ended
    /\ ~Threaded(i) /\ Waiting(i) =>
            main.pc = "get" /\ (it[i].pc = "done" => it[i].queue # <<>>)
    /\ ~Threaded(i) /\ ~Waiting(i) => it[i].pc = "done" /\ it[i].queue = <<>>

Inv ==
    /\ conf \in Scenarios
    /\ MainOK
    /\ \A i \in Made : Sound(it[i], conf.batch) /\ HandOver(i)

-----------------------------------------------------------------------------
(* Sequences. *)

\* What the lemmas of the library say of a sequence, whatever it is one of.
LEMMA SequenceLen ==
    ASSUME NEW s, Sequence(s)
    PROVE  Len(s) \in Nat /\ (Len(s) = 0 <=> s = <<>>)
<1>1. PICK S : s \in Seq(S)
  BY DEF Sequence
<1> QED
  BY <1>1, EmptySeq, LenProperties

\* append() makes the batch one longer, whatever the sample is.
LEMMA SequenceAppend ==
    ASSUME NEW s, NEW x, Sequence(s)
    PROVE  Sequence(Append(s, x)) /\ Len(Append(s, x)) = Len(s) + 1
<1>1. PICK S : s \in Seq(S)
  BY DEF Sequence
<1>2. s \in Seq(S \cup {x})
  BY <1>1, SeqMonotonic, S \subseteq S \cup {x}
<1> QED
  BY <1>2, AppendProperties DEF Sequence

\* A batch is delivered after those before it.
LEMMA SequenceConcat ==
    ASSUME NEW s, NEW t, Sequence(s), Sequence(t)
    PROVE  Sequence(s \o t) /\ Len(s \o t) = Len(s) + Len(t)
<1>1. PICK S : s \in Seq(S)
  BY DEF Sequence
<1>2. PICK T : t \in Seq(T)
  BY DEF Sequence
<1>3. s \in Seq(S \cup T) /\ t \in Seq(S \cup T)
  BY <1>1, <1>2, SeqMonotonic, S \subseteq S \cup T, T \subseteq S \cup T
<1> QED
  BY <1>3, ConcatProperties DEF Sequence

\* put() into an empty queue.
LEMMA QueueOfOne ==
    ASSUME NEW data, NEW resets, Sequence(data)
    PROVE  LET q == Append(<<>>, [data |-> data, resets |-> resets])
           IN  Single(q) /\ q # <<>> /\ Queued(q) = Len(data)
<1> DEFINE e == [data |-> data, resets |-> resets]
<1>1. <<>> \in Seq({e})
  BY EmptySeq
<1>2. Append(<<>>, e) # <<>>
  BY <1>1, AppendProperties
<1>3. Head(Append(<<>>, e)) = e /\ Tail(Append(<<>>, e)) = <<>>
  BY <1>1, HeadTailAppend
<1>4. e.data = data
  OBVIOUS
<1> HIDE DEF e
<1> QED
  BY <1>2, <1>3, <1>4 DEF Single, Queued, e

\* The empty batch and the empty queue.
LEMMA Empty == Sequence(<<>>) /\ Len(<<>>) = 0 /\ Single(<<>>) /\ Queued(<<>>) = 0
BY EmptySeq DEF Sequence, Single, Queued

-----------------------------------------------------------------------------
(* What happens to one iterator. *)

\* The thread starts with an empty batch and an empty queue.
LEMMA StartSound ==
    ASSUME NEW r, NEW b \in Nat \ {0}, NEW i, Sound(r, b), r.batch = <<>>, r.queue = <<>>
    PROVE  LET s == Started(r, i)
           IN  Sound(s, b) /\ s.pc \in {"check", "item"} /\ s.queue = <<>> /\ s.ended = r.ended
<1> DEFINE s == Started(r, i)
<1>1. /\ DOMAIN s = Fields /\ s.pc \in {"check", "item"}
      /\ \A f \in Fields \ {"pc"} : s[f] = r[f]
  BY DEF Started, Sound, Fields
<1> HIDE DEF s
<1>2. /\ s.batch = <<>> /\ s.queue = <<>> /\ s.delivered = r.delivered /\ s.read = r.read
      /\ s.failures = r.failures /\ s.ended = r.ended
  BY <1>1 DEF Fields
<1>3. Lost(s) = Lost(r)
  BY <1>2 DEF Lost
<1> QED
  BY <1>1, <1>2, <1>3, Empty DEF Sound, Working, InLoop, s

\* The last step of the thread moves a sequence of samples to the queue.
LEMMA PutSound ==
    ASSUME NEW r, NEW b \in Nat \ {0}, NEW data, NEW resets,
           DOMAIN r = Fields, r.queue = <<>>, Sequence(data), Sequence(r.delivered),
           r.read \in Nat, r.failures \in Nat,
           r.read - Len(r.delivered) - Len(data) >= 0,
           r.read - Len(r.delivered) - Len(data) <= r.failures * b
    PROVE  LET s == PutIn(r, data, resets)
           IN  Sound(s, b) /\ s.pc = "done" /\ s.queue # <<>> /\ s.ended = r.ended
<1> DEFINE s == PutIn(r, data, resets)
<1>1. /\ DOMAIN s = Fields /\ s.pc = "done" /\ s.batch = <<>>
      /\ s.queue = Append(<<>>, [data |-> data, resets |-> resets])
      /\ s.delivered = r.delivered /\ s.read = r.read /\ s.failures = r.failures
      /\ s.ended = r.ended
  BY DEF PutIn, Fields
<1>2. Single(s.queue) /\ s.queue # <<>> /\ Queued(s.queue) = Len(data)
  BY <1>1, QueueOfOne
<1> HIDE DEF s
<1>3. Len(data) \in Nat /\ Len(r.delivered) \in Nat
  BY SequenceLen
<1>4. Lost(s) = r.read - Len(r.delivered) - Len(data)
  BY <1>1, <1>2, <1>3, Empty DEF Lost
<1> QED
  BY <1>1, <1>2, <1>4, Empty DEF Sound, Finished, InLoop, s

\* A turn of the loop reads one sample.
LEMMA ReadSound ==
    ASSUME NEW r, NEW b \in Nat \ {0}, NEW sample, NEW given, NEW seen,
           Sound(r, b), r.pc \in InLoop
    PROVE  Sound([[r EXCEPT !.read = @ + 1, !.given = given, !.batch = Append(r.batch, sample),
                            !.seen = seen] EXCEPT !.pc = "reset"], b)
<1> DEFINE s == [[r EXCEPT !.read = @ + 1, !.given = given, !.batch = Append(r.batch, sample),
                            !.seen = seen] EXCEPT !.pc = "reset"]
<1>1. /\ DOMAIN s = Fields /\ s.pc = "reset" /\ s.batch = Append(r.batch, sample)
      /\ s.queue = r.queue /\ s.delivered = r.delivered /\ s.read = r.read + 1
      /\ s.failures = r.failures
  BY DEF Sound, Fields
<1>2. Sequence(s.batch) /\ Len(s.batch) = Len(r.batch) + 1
  BY <1>1, SequenceAppend DEF Sound
<1> HIDE DEF s
<1>3. /\ Len(r.batch) \in Nat /\ Len(r.delivered) \in Nat /\ r.read \in Nat
      /\ r.queue = <<>> /\ Len(r.batch) < b
  BY SequenceLen DEF Sound, InLoop
<1>4. Lost(s) = Lost(r)
  <2>1. Queued(s.queue) = 0 /\ Queued(r.queue) = 0
    BY <1>1, <1>3, Empty
  <2>2. Len(s.delivered) = Len(r.delivered) /\ s.read = r.read + 1
    BY <1>1
  <2>3. Lost(r) = r.read - Len(r.delivered) - 0 - Len(r.batch)
    BY <2>1, Zenon DEF Lost
  <2>4. Lost(s) = (r.read + 1) - Len(r.delivered) - 0 - (Len(r.batch) + 1)
    BY <1>2, <2>1, <2>2, Zenon DEF Lost
  <2>5. \A a, d, k \in Nat : (a + 1) - d - 0 - (k + 1) = a - d - 0 - k
    OBVIOUS
  <2> QED
    BY <1>3, <2>3, <2>4, <2>5, Zenon
<1> QED
  BY <1>1, <1>2, <1>3, <1>4 DEF Sound, Working, InLoop, s

\* next() takes the batch out of the queue, and starts the thread on the next one.
LEMMA TakeSound ==
    ASSUME NEW i \in Made, NEW b \in Nat \ {0}, Sound(it[i], b), Ready(i)
    PROVE  /\ Sound(Taken(i), b)
           /\ Taken(i).queue = <<>>
           /\ IF Threaded(i) THEN Taken(i).pc \in {"check", "item"} ELSE Taken(i).pc = "done"
<1> DEFINE got == Head(it[i].queue)
           r == [it[i] EXCEPT !.queue = Tail(@), !.delivered = @ \o got.data,
                              !.epoch = @ + got.resets]
<1>1. /\ DOMAIN r = Fields /\ r.pc = "done" /\ r.batch = <<>> /\ r.queue = Tail(it[i].queue)
      /\ r.delivered = it[i].delivered \o got.data /\ r.read = it[i].read
      /\ r.failures = it[i].failures
  BY DEF Sound, Fields, Ready
<1>2. r.queue = <<>> /\ Sequence(got.data)
  BY <1>1 DEF Sound, Single, Ready
<1>3. Sequence(r.delivered) /\ Len(r.delivered) = Len(it[i].delivered) + Len(got.data)
  BY <1>1, <1>2, SequenceConcat DEF Sound
<1>4. Taken(i) = IF Threaded(i) THEN Started(r, i) ELSE r
  BY DEF Taken
<1>5. Queued(it[i].queue) = Len(got.data) /\ it[i].batch = <<>>
  BY DEF Queued, Ready, Sound
<1> HIDE DEF r, got
<1>6. Len(it[i].delivered) \in Nat /\ Len(got.data) \in Nat /\ it[i].read \in Nat
  BY <1>2, SequenceLen DEF Sound
<1>7. Lost(r) = Lost(it[i])
  <2>1. Queued(r.queue) = 0 /\ Len(r.batch) = 0 /\ Len(it[i].batch) = 0
    BY <1>1, <1>2, <1>5, Empty
  <2>2. r.read = it[i].read
    BY <1>1
  <2>3. Lost(r) = it[i].read - (Len(it[i].delivered) + Len(got.data)) - 0 - 0
    BY <1>3, <2>1, <2>2, Zenon DEF Lost
  <2>4. Lost(it[i]) = it[i].read - Len(it[i].delivered) - Len(got.data) - 0
    BY <1>5, <2>1, Zenon DEF Lost
  <2>5. \A a, d, k \in Nat : a - (d + k) - 0 - 0 = a - d - k - 0
    OBVIOUS
  <2> QED
    BY <1>6, <2>3, <2>4, <2>5, Zenon
<1>8. Sound(r, b)
  BY <1>1, <1>2, <1>3, <1>7, Empty DEF Sound, Finished, InLoop
<1> QED
  BY <1>1, <1>2, <1>4, <1>8, StartSound

\* A new iterator has nothing and has lost nothing.
LEMMA NewSound ==
    ASSUME NEW i, NEW b \in Nat \ {0}
    PROVE  LET s == NewIterator(i)
           IN  /\ Sound(s, b) /\ s.queue = <<>> /\ s.batch = <<>>
               /\ IF Threaded(i) THEN s.pc \in {"check", "item"} ELSE s.pc = "done"
<1> DEFINE r == [pc |-> "done", batch |-> <<>>, resets |-> 0, seen |-> NothingSeen, queue |-> <<>>,
                 epoch |-> 0, ended |-> FALSE, closed |-> FALSE,
                 delivered |-> <<>>, given |-> {}, read |-> 0, failures |-> 0]
<1>1. /\ DOMAIN r = Fields /\ r.pc = "done" /\ r.batch = <<>> /\ r.queue = <<>>
      /\ r.delivered = <<>> /\ r.read = 0 /\ r.failures = 0
  BY DEF Fields
<1>2. NewIterator(i) = IF Threaded(i) THEN Started(r, i) ELSE r
  BY DEF NewIterator
<1> HIDE DEF r
<1>3. Sound(r, b)
  BY <1>1, Empty DEF Sound, Finished, InLoop, Lost
<1>4. Started(r, i).batch = <<>>
  BY <1>1 DEF Started, Fields
<1> QED
  BY <1>1, <1>2, <1>3, <1>4, StartSound

\* So does one whose constructor is still filling the order of a cache.
LEMMA FillingSound ==
    ASSUME NEW r, NEW b \in Nat \ {0}, Sound(r, b), r.batch = <<>>, r.queue = <<>>
    PROVE  LET s == [r EXCEPT !.pc = "fill"]
           IN  Sound(s, b) /\ s.queue = <<>> /\ s.pc = "fill"
<1> DEFINE s == [r EXCEPT !.pc = "fill"]
<1>1. /\ DOMAIN s = Fields /\ s.pc = "fill"
      /\ \A f \in Fields \ {"pc"} : s[f] = r[f]
  BY DEF Sound, Fields
<1> HIDE DEF s
<1>2. /\ s.batch = <<>> /\ s.queue = <<>> /\ s.delivered = r.delivered /\ s.read = r.read
      /\ s.failures = r.failures
  BY <1>1 DEF Fields
<1>3. Lost(s) = Lost(r)
  BY <1>2 DEF Lost
<1> QED
  BY <1>1, <1>2, <1>3, Empty DEF Sound, Working, InLoop, s

-----------------------------------------------------------------------------
(* Steps. *)

\* What a step of iterator i has to show of itself, when it leaves the others alone.
LEMMA OneIterator ==
    ASSUME Inv, NEW i \in Made, NEW r, it' = [it EXCEPT ![i] = r], UNCHANGED conf,
           MainOK', main'.at = i \/ main' = main,
           main.at # i => ~Waiting(main.at) \/ main' = main,
           Sound(r, conf.batch), HandOver(i)'
    PROVE  Inv'
<1>1. Made' = Made /\ it'[i] = r /\ \A j \in Made \ {i} : it'[j] = it[j]
  BY DEF Made
<1>2. ASSUME NEW j \in Made, j # i
      PROVE  (Sound(it[j], conf.batch) /\ HandOver(j))'
  <2>1. it'[j] = it[j] /\ conf' = conf /\ Sound(it[j], conf.batch) /\ HandOver(j)
    BY <1>1, <1>2 DEF Inv
  <2>2. Waiting(j)' <=> Waiting(j)
    BY <1>2 DEF Waiting, MainOK
  <2>3. Threaded(j)' <=> Threaded(j)
    BY <2>1 DEF Threaded
  <2>4. ~Threaded(j) /\ Waiting(j) => main' = main
    BY <1>2 DEF Waiting
  <2> QED
    BY <2>1, <2>2, <2>3, <2>4 DEF HandOver
<1> QED
  BY <1>1, <1>2 DEF Inv

\* The thread leaves main where it is; the thread of an iterator without one of its own
\* runs while main waits for it.
LEMMA ThreadKeeps ==
    ASSUME Inv, NEW i \in Made, it[i].pc # "done", NEW r, it' = [it EXCEPT ![i] = r],
           UNCHANGED <<conf, main>>, Sound(r, conf.batch), r.pc = "done" => r.queue # <<>>
    PROVE  Inv'
<1>1. Made' = Made /\ it'[i] = r /\ main' = main /\ conf' = conf
  BY DEF Made
<1>2. HandOver(i)
  BY DEF Inv
<1>3. ~Threaded(i) => Waiting(i)
  BY <1>2 DEF HandOver
<1>4. (Threaded(i)' <=> Threaded(i)) /\ (Waiting(i)' <=> Waiting(i))
  BY <1>1 DEF Threaded, Waiting
<1>5. HandOver(i)'
  BY <1>1, <1>2, <1>3, <1>4 DEF HandOver
<1>6. MainOK'
  BY <1>1 DEF Inv, MainOK
<1> QED
  BY <1>1, <1>5, <1>6, OneIterator

\* The product grows by a batch with each failure.
LEMMA OneMore ==
    ASSUME NEW f \in Nat, NEW b \in Nat
    PROVE  f * b \in Nat /\ (f + 1) * b = f * b + b
OBVIOUS

\* A step of the thread that only moves on in _next.
LEMMA MoveSound ==
    ASSUME NEW r, NEW s, NEW b, Sound(r, b), DOMAIN s = Fields, r.pc # "done",
           \A f \in Fields \ {"pc", "seen", "resets"} : s[f] = r[f],
           s.pc \in (Working \cup Failures) \ {"check"},
           s.pc \in InLoop => Len(r.batch) < b
    PROVE  Sound(s, b)
<1>1. /\ s.batch = r.batch /\ s.queue = r.queue /\ s.delivered = r.delivered
      /\ s.read = r.read /\ s.failures = r.failures
  BY DEF Fields
<1>2. Lost(s) = Lost(r)
  BY <1>1, Zenon DEF Lost
<1>3. s.pc # "done" /\ s.pc # "check" /\ s.pc \in Working \cup Finished
  BY DEF Working, InLoop, Finished, Failures
<1>4. r.queue = <<>>
  BY DEF Sound
<1> QED
  BY <1>1, <1>2, <1>3, <1>4 DEF Sound

\* A step that puts the batch there is.
LEMMA PutBatch ==
    ASSUME NEW r, NEW b \in Nat \ {0}, NEW resets, Sound(r, b), r.pc # "done"
    PROVE  /\ Sound(PutIn(r, r.batch, resets), b)
           /\ PutIn(r, r.batch, resets).queue # <<>>
<1>1. r.queue = <<>> /\ DOMAIN r = Fields /\ Sequence(r.batch) /\ Sequence(r.delivered)
      /\ r.read \in Nat /\ r.failures \in Nat
  BY DEF Sound
<1>2. Len(r.batch) \in Nat /\ Len(r.delivered) \in Nat
  BY <1>1, SequenceLen
<1>3. r.read - Len(r.delivered) - Len(r.batch) = Lost(r)
  <2>1. Lost(r) = r.read - Len(r.delivered) - 0 - Len(r.batch)
    BY <1>1, Empty, Zenon DEF Lost
  <2> QED
    BY <1>1, <1>2, <2>1
<1>4. Lost(r) >= 0 /\ Lost(r) <= r.failures * b
  BY DEF Sound
<1> QED
  BY <1>1, <1>3, <1>4, PutSound

\* A step that drops the batch after a failed load: the sample asked for is lost, and those
\* of the batch, which are fewer than a batch is to have.
LEMMA DropBatch ==
    ASSUME NEW r, NEW b \in Nat \ {0}, Sound(r, b), r.pc \in InLoop
    PROVE  Sound(WithoutSample(r), b) /\ WithoutSample(r).queue # <<>>
<1> DEFINE u == [r EXCEPT !.read = @ + 1, !.failures = @ + 1]
<1>1. /\ r.queue = <<>> /\ DOMAIN r = Fields /\ Sequence(r.batch) /\ Sequence(r.delivered)
      /\ r.read \in Nat /\ r.failures \in Nat /\ Len(r.batch) < b
  BY DEF Sound, InLoop
<1>2. /\ DOMAIN u = Fields /\ u.queue = <<>> /\ u.delivered = r.delivered
      /\ u.read = r.read + 1 /\ u.failures = r.failures + 1
  BY <1>1 DEF Fields
<1>3. Len(r.batch) \in Nat /\ Len(r.delivered) \in Nat
  BY <1>1, SequenceLen
<1>4. r.read - Len(r.delivered) - 0 - Len(r.batch) >= 0
      /\ r.read - Len(r.delivered) - 0 - Len(r.batch) <= r.failures * b
  BY <1>1, Empty, Zenon DEF Lost, Sound
<1> HIDE DEF u
<1>5. \A n, d, k, f \in Nat : \A m \in Nat :
          k < b /\ n - d - 0 - k >= 0 /\ n - d - 0 - k <= m =>
              (n + 1) - d - 0 >= 0 /\ (n + 1) - d - 0 <= m + b
  OBVIOUS
<1>6. r.failures * b \in Nat /\ (r.failures + 1) * b = r.failures * b + b
  BY <1>1, OneMore
<1>7. (r.read + 1) - Len(r.delivered) - 0 >= 0
      /\ (r.read + 1) - Len(r.delivered) - 0 <= r.failures * b + b
  BY <1>1, <1>3, <1>4, <1>5, <1>6
<1>8. u.read - Len(u.delivered) - Len(<<>>) >= 0
      /\ u.read - Len(u.delivered) - Len(<<>>) <= u.failures * b
  BY <1>2, <1>6, <1>7, Empty, Zenon
<1>9. u.read \in Nat /\ u.failures \in Nat
  BY <1>1, <1>2
<1>10. Sound(PutIn(u, <<>>, 0), b) /\ PutIn(u, <<>>, 0).queue # <<>>
  BY <1>1, <1>2, <1>8, <1>9, Empty, PutSound
<1> QED
  BY <1>10 DEF u, WithoutSample

\* On with the loop, or the batch is put.
LEMMA ContinuedSound ==
    ASSUME NEW r, Sound(r, conf.batch), conf.batch \in Nat \ {0}, r.pc # "done"
    PROVE  LET s == Continued(r)
           IN  Sound(s, conf.batch) /\ (s.pc = "done" => s.queue # <<>>)
<1> DEFINE b == conf.batch
           t(pc) == [r EXCEPT !.pc = pc]
<1>1. DOMAIN r = Fields /\ Len(r.batch) \in Nat /\ Len(r.batch) <= b
  BY SequenceLen DEF Sound
<1>2. ASSUME NEW pc \in {"item", "order"}
      PROVE  DOMAIN t(pc) = Fields /\ t(pc).pc = pc /\ \A f \in Fields \ {"pc"} : t(pc)[f] = r[f]
  BY <1>1 DEF Fields
<1>3. Continued(r) \in {t("order"), PutIn(r, r.batch, r.resets)}
                      \cup (IF Len(r.batch) < b THEN {t("item")} ELSE {})
  BY DEF Continued
<1>4. Sound(PutIn(r, r.batch, r.resets), b) /\ PutIn(r, r.batch, r.resets).queue # <<>>
  BY PutBatch
<1> HIDE DEF t
<1>5. Sound(t("order"), b) /\ t("order").pc = "order"
  BY <1>2, MoveSound DEF Working, InLoop
<1>6. Len(r.batch) < b => Sound(t("item"), b) /\ t("item").pc = "item"
  BY <1>2, MoveSound DEF Working, InLoop
<1> QED
  BY <1>3, <1>4, <1>5, <1>6

\* A sample is read into the batch.
LEMMA ReadStep ==
    ASSUME Inv, NEW i \in Made, ReadItem(i)
    PROVE  Inv'
<1> DEFINE b == conf.batch
           R == it[i]
<1>1. Sound(R, b) /\ b \in Nat \ {0}
  BY ScenarioAssumption DEF Inv
<1>2. R.pc \in InLoop /\ UNCHANGED <<conf, main>> /\ R.pc # "done"
  BY DEF ReadItem, MayRead, Reading, InLoop
<1>3. DOMAIN R = Fields
  BY <1>1 DEF Sound
<1>4. PICK generation, sample, wraps :
        it' = [it EXCEPT ![i] = WithSample(R, generation, sample, wraps)]
  BY DEF ReadItem
<1> DEFINE given == R.given \cup {<<generation, sample>>}
           s == [R EXCEPT !.read = @ + 1, !.given = given,
                          !.batch = Append(R.batch, sample), !.seen = NothingSeen]
           t == [s EXCEPT !.pc = "reset"]
<1>5. Sound(t, b)
  <2> HIDE DEF R, given
  <2> QED
    BY <1>1, <1>2, ReadSound
<1>6. DOMAIN s = Fields /\ t.pc = "reset"
  BY <1>3 DEF Fields
<1>7. WithSample(R, generation, sample, wraps) = IF wraps THEN t ELSE Continued(s)
  BY DEF WithSample
<1> HIDE DEF s
<1>8. Continued(s) = Continued(t)
  BY <1>6 DEF Continued, PutIn, Fields
<1>9. Sound(Continued(t), b) /\ (Continued(t).pc = "done" => Continued(t).queue # <<>>)
  BY <1>1, <1>5, <1>6, ContinuedSound
<1>10. it' = [it EXCEPT ![i] = IF wraps THEN t ELSE Continued(t)]
  BY <1>4, <1>7, <1>8
<1> HIDE DEF t, R
<1>11. CASE wraps
  BY <1>2, <1>5, <1>6, <1>10, <1>11, ThreadKeeps DEF R
<1>12. CASE ~wraps
  BY <1>2, <1>9, <1>10, <1>12, ThreadKeeps DEF R
<1> QED
  BY <1>11, <1>12

\* The source is reset, and its order filled again.
LEMMA ResetStep ==
    ASSUME Inv, NEW i \in Made, Reset(i) \/ Fill(i)
    PROVE  Inv'
<1> DEFINE b == conf.batch
           R == it[i]
<1>1. Sound(R, b) /\ b \in Nat \ {0}
  BY ScenarioAssumption DEF Inv
<1>2. R.pc \in {"reset", "fill"} /\ UNCHANGED <<conf, main>>
  BY DEF Reset, Fill
<1>3. DOMAIN R = Fields /\ Len(R.batch) <= b
  BY <1>1 DEF Sound
<1> DEFINE s == WithReset(R)
           t == [s EXCEPT !.pc = "fill"]
<1>4. /\ DOMAIN s = Fields /\ s.pc = R.pc /\ \A f \in Fields \ {"pc", "seen", "resets"} : s[f] = R[f]
      /\ DOMAIN t = Fields /\ t.pc = "fill" /\ \A f \in Fields \ {"pc", "seen", "resets"} : t[f] = R[f]
  BY <1>3 DEF WithReset, Fields
<1>5. \/ it' = [it EXCEPT ![i] = Continued(s)]
      \/ it' = [it EXCEPT ![i] = t]
      \/ it' = [it EXCEPT ![i] = Continued(R)]
  BY DEF Reset, Fill
<1> HIDE DEF s, t
<1>6. Sound(s, b) /\ Sound(t, b)
  BY <1>1, <1>2, <1>4, MoveSound DEF Working, InLoop
<1>7. /\ Sound(Continued(s), b) /\ (Continued(s).pc = "done" => Continued(s).queue # <<>>)
      /\ Sound(Continued(R), b) /\ (Continued(R).pc = "done" => Continued(R).queue # <<>>)
  BY <1>1, <1>2, <1>4, <1>6, ContinuedSound
<1> QED
  BY <1>2, <1>4, <1>5, <1>6, <1>7, ThreadKeeps

\* _get_data begins, in one way or another.
LEMMA Begins ==
    ASSUME NEW i, BeginRead(i)
    PROVE  /\ it[i].pc = "item" /\ UNCHANGED <<conf, h, main>>
           /\ \E pc, seen : /\ pc \in {"scan", "compare", "read"}
                            /\ it' = [it EXCEPT ![i] = [it[i] EXCEPT !.pc = pc, !.seen = seen]]
<1> DEFINE R == it[i]
<1>1. R.pc = "item" /\ UNCHANGED <<conf, h, main>>
  BY DEF BeginRead
<1>2. PICK n, source, place : it' = [it EXCEPT ![i] = Begun(R, n, source, place)]
  <2> DEFINE step(n, source, place) == it' = [it EXCEPT ![i] = Begun(R, n, source, place)]
             places(n, source) == IF source.layer = "cache" THEN FilePlace(source, AskedOf(h, i, n))
                                                            ELSE <<NoFile, 0>>
  <2>1. \E n \in {Answering(h, Chain(i), Position(i))} :
        \E source \in {h[Chain(i)[n]]} :
        \E place \in {places(n, source)} : step(n, source, place)
    BY DEF BeginRead
  <2> HIDE DEF step, places
  <2>2. \E n, source, place : step(n, source, place)
    BY <2>1
  <2> QED
    BY <2>2 DEF step
<1> DEFINE pc == CASE source.layer = "simple" -> "scan"
                   [] source.layer = "cache" -> "compare"
                   [] OTHER -> "read"
           seen == [level |-> n, appended |-> source.appended,
                    file |-> place[1], slot |-> place[2]]
<1>3. pc \in {"scan", "compare", "read"}
  OBVIOUS
<1>4. Begun(R, n, source, place) = [R EXCEPT !.pc = pc, !.seen = seen]
  BY DEF Begun
<1> HIDE DEF pc, seen
<1>5. it' = [it EXCEPT ![i] = [it[i] EXCEPT !.pc = pc, !.seen = seen]]
  BY <1>2, <1>4
<1> DEFINE step(other, noted) ==
               it' = [it EXCEPT ![i] = [it[i] EXCEPT !.pc = other, !.seen = noted]]
<1>6. step(pc, seen)
  BY <1>5
<1> HIDE DEF step
<1>7. \E other, noted : other \in {"scan", "compare", "read"} /\ step(other, noted)
  BY <1>3, <1>6
<1> QED
  BY Zenon, <1>1, <1>7 DEF step

\* _next tests for the end of the data, reads, gives up or dies, and moves on to the next
\* order: it puts one batch, with all it has read since the one before.
LEMMA ThreadStep ==
    ASSUME Inv, NEW i \in Made, Thread(i)
    PROVE  Inv'
<1> DEFINE b == conf.batch
           R == it[i]
<1>1. Sound(R, b) /\ b \in Nat \ {0}
  BY ScenarioAssumption DEF Inv
<1>2. DOMAIN R = Fields
  BY <1>1 DEF Sound
<1>3. CASE Check(i)
  <2>1. R.pc = "check" /\ UNCHANGED <<conf, main>>
    BY <1>3 DEF Check
  <2>2. R.batch = <<>>
    BY <1>1, <2>1 DEF Sound
  <2>3. CASE Exhausted(i)
    <3>1. it' = [it EXCEPT ![i] = PutIn(R, R.batch, 0)]
      BY <1>3, <2>2, <2>3 DEF Check
    <3> QED
      BY <1>1, <2>1, <3>1, PutBatch, ThreadKeeps
  <2>4. CASE ~Exhausted(i)
    <3> DEFINE s == [R EXCEPT !.pc = "item"]
    <3>1. it' = [it EXCEPT ![i] = s]
      BY <1>3, <2>4 DEF Check
    <3>2. DOMAIN s = Fields /\ s.pc = "item" /\ \A f \in Fields \ {"pc", "seen"} : s[f] = R[f]
      BY <1>2 DEF Fields
    <3> HIDE DEF s
    <3>3. Sound(s, b)
      BY <1>1, <2>1, <2>2, <3>2, Empty, MoveSound DEF Working, InLoop
    <3> QED
      BY <2>1, <3>1, <3>2, <3>3, ThreadKeeps
  <2> QED
    BY <2>3, <2>4
<1>4. ASSUME NEW pc \in (InLoop \ {"item"}) \cup {"append"} \cup Failures, NEW seen,
             it' = [it EXCEPT ![i] = [R EXCEPT !.pc = pc, !.seen = seen]],
             UNCHANGED <<conf, main>>, R.pc \in InLoop \cup {"order", "append"},
             pc \in InLoop => R.pc \in InLoop
      PROVE  Inv'
  <2> DEFINE s == [R EXCEPT !.pc = pc, !.seen = seen]
  <2>1. DOMAIN s = Fields /\ s.pc = pc /\ \A f \in Fields \ {"pc", "seen"} : s[f] = R[f]
    BY <1>2 DEF Fields
  <2> HIDE DEF s
  <2>2. pc \in (Working \cup Failures) \ {"check"} /\ pc # "done" /\ R.pc # "done"
    BY <1>4 DEF Working, InLoop, Failures
  <2>3. pc \in InLoop => Len(R.batch) < b
    BY <1>1, <1>4 DEF Sound
  <2>4. Sound(s, b)
    BY <1>1, <2>1, <2>2, <2>3, MoveSound
  <2>5. it' = [it EXCEPT ![i] = s]
    BY <1>4 DEF s
  <2> QED
    BY <1>4, <2>1, <2>2, <2>4, <2>5, ThreadKeeps
<1>5. CASE BeginRead(i)
  <2>1. PICK pc, seen :
            /\ pc \in {"scan", "compare", "read"}
            /\ it' = [it EXCEPT ![i] = [R EXCEPT !.pc = pc, !.seen = seen]]
    BY <1>5, Begins
  <2>2. R.pc = "item" /\ UNCHANGED <<conf, main>>
    BY <1>5, Begins
  <2>3. pc \in InLoop \ {"item"} /\ R.pc \in InLoop
    BY <2>1, <2>2 DEF InLoop
  <2> QED
    BY <1>4, <2>1, <2>2, <2>3
<1>6. ASSUME NEW pc \in (InLoop \ {"item"}) \cup Failures, it' = [it EXCEPT ![i] = [R EXCEPT !.pc = pc]],
             UNCHANGED <<conf, main>>, R.pc \in InLoop \cup {"append"},
             pc \in InLoop => R.pc \in InLoop
      PROVE  Inv'
  <2>1. [R EXCEPT !.pc = pc] = [R EXCEPT !.pc = pc, !.seen = R.seen]
    BY <1>2 DEF Fields
  <2> QED
    BY <1>4, <1>6, <2>1
<1>14. CASE Compare(i) \/ LoadFile(i) \/ NameFile(i)
  <2>1. PICK pc \in {"fetch", "load", "name"} : it' = [it EXCEPT ![i] = [R EXCEPT !.pc = pc]]
    BY <1>14 DEF Compare, LoadFile, NameFile
  <2>2. R.pc \in {"compare", "load", "name"} /\ UNCHANGED <<conf, main>>
    BY <1>14 DEF Compare, LoadFile, NameFile
  <2>3. pc \in InLoop \ {"item"} /\ R.pc \in InLoop
    BY <2>1, <2>2 DEF InLoop
  <2> QED
    BY <1>6, <2>1, <2>2, <2>3
<1>15. CASE Torn(i)
  <2>1. it' = [it EXCEPT ![i] = [R EXCEPT !.pc = "torn"]] /\ UNCHANGED <<conf, main>>
        /\ R.pc \in {"item", "read", "fetch"}
    BY <1>15 DEF Torn
  <2>2. "torn" \in Failures /\ "torn" \notin InLoop /\ R.pc \in InLoop
    BY <2>1 DEF Failures, InLoop
  <2> QED
    BY <1>6, <2>1, <2>2
<1>16. CASE Reset(i) \/ Fill(i)
  BY <1>16, ResetStep
<1>7. CASE PastEnd(i)
  <2>1. it' = [it EXCEPT ![i] = [R EXCEPT !.pc = "past end"]]
    BY <1>7 DEF PastEnd
  <2> QED
    BY <1>6, <1>7, <2>1 DEF PastEnd, Failures, InLoop
<1>8. CASE OutOfStep(i)
  <2>1. it' = [it EXCEPT ![i] = [R EXCEPT !.pc = "out of step"]]
    BY <1>8 DEF OutOfStep
  <2> QED
    BY <1>6, <1>8, <2>1 DEF OutOfStep, Failures, InLoop
<1>9. CASE Mutated(i)
  <2>1. it' = [it EXCEPT ![i] = [R EXCEPT !.pc = "mutated"]]
    BY <1>9 DEF Mutated
  <2> QED
    BY <1>6, <1>9, <2>1 DEF Mutated, Failures, InLoop
<1>10. CASE ReadItem(i)
  BY <1>10, ReadStep
<1>11. CASE ReadNothing(i)
  <2>1. R.pc \in InLoop /\ R.pc # "done" /\ UNCHANGED <<conf, main>>
    BY <1>11 DEF ReadNothing, MayRead, Reading, InLoop
  <2>2. it' = [it EXCEPT ![i] = WithoutSample(R)]
    BY <1>11 DEF ReadNothing
  <2> QED
    BY <1>1, <2>1, <2>2, DropBatch, ThreadKeeps
<1>12. CASE ApplyOrder(i)
  <2>1. R.pc = "order" /\ UNCHANGED <<conf, main>>
    BY <1>12 DEF ApplyOrder
  <2>2. \/ it' = [it EXCEPT ![i] = PutIn(R, R.batch, R.resets)]
        \/ \E seen : it' = [it EXCEPT ![i] = [R EXCEPT !.pc = "append", !.seen = seen]]
    BY <1>12 DEF ApplyOrder
  <2>3. CASE it' = [it EXCEPT ![i] = PutIn(R, R.batch, R.resets)]
    BY <1>1, <2>1, <2>3, PutBatch, ThreadKeeps
  <2>4. ASSUME NEW seen, it' = [it EXCEPT ![i] = [R EXCEPT !.pc = "append", !.seen = seen]]
        PROVE  Inv'
    <3>1. "append" \in (InLoop \ {"item"}) \cup {"append"} \cup Failures /\ "append" \notin InLoop
      BY DEF InLoop
    <3> QED
      BY <1>4, <2>1, <2>4, <3>1
  <2> QED
    BY <2>2, <2>3, <2>4
<1>13. CASE GenerateOrder(i)
  <2>1. R.pc = "append" /\ it' = [it EXCEPT ![i] = PutIn(R, R.batch, R.resets)]
        /\ UNCHANGED <<conf, main>>
    BY <1>13 DEF GenerateOrder
  <2> QED
    BY <1>1, <2>1, PutBatch, ThreadKeeps
<1> QED
  BY <1>3, <1>5, <1>7, <1>8, <1>9, <1>10, <1>11, <1>12, <1>13, <1>14, <1>15, <1>16 DEF Thread

\* next() of an iterator without a thread calls _next itself.
LEMMA CallStep ==
    ASSUME Inv, NEW i \in Made, Call(i)
    PROVE  Inv'
<1> DEFINE b == conf.batch
           r == IF Threaded(i) THEN it[i] ELSE Started(it[i], i)
<1>1. Sound(it[i], b) /\ HandOver(i) /\ b \in Nat \ {0} /\ MainOK
  BY ScenarioAssumption DEF Inv
<1>2. main.pc = "idle" /\ main' = [pc |-> "get", at |-> i] /\ UNCHANGED conf
  BY DEF Call
<1>3. it' = [it EXCEPT ![i] = r]
  BY DEF Call
<1>4. ~Waiting(i) /\ ~Waiting(main.at)
  BY <1>2 DEF Waiting
<1>5. ~Threaded(i) => Sound(r, b) /\ r.pc \in {"check", "item"}
  <2> SUFFICES ASSUME ~Threaded(i)
               PROVE  Sound(r, b) /\ r.pc \in {"check", "item"}
    OBVIOUS
  <2>1. it[i].pc = "done" /\ it[i].queue = <<>>
    BY <1>1, <1>4 DEF HandOver
  <2>2. it[i].batch = <<>>
    BY <1>1, <2>1 DEF Sound
  <2> QED
    BY <1>1, <2>1, <2>2, StartSound
<1>6. it'[i] = r /\ Made' = Made
  BY <1>3 DEF Made
<1>7. MainOK'
  BY <1>2, <1>6 DEF MainOK
<1>8. (Threaded(i)' <=> Threaded(i)) /\ Waiting(i)' /\ main'.pc = "get" /\ main'.at = i
  BY <1>2 DEF Threaded, Waiting
<1>9. Sound(r, b) /\ (Threaded(i) => r = it[i])
  BY <1>1, <1>5
<1>10. HandOver(i)'
  BY <1>1, <1>5, <1>6, <1>8, <1>9 DEF HandOver
<1> HIDE DEF r
<1> QED
  BY <1>2, <1>3, <1>4, <1>7, <1>8, <1>9, <1>10, OneIterator

\* When next() goes on, with a batch or without, the queue is empty, and the thread works
\* unless there is none or the data have ended.
LEMMA Returns ==
    ASSUME Inv, NEW i \in Made, NEW r, NEW pc \in {"idle", "retry"},
           main.at = i, it' = [it EXCEPT ![i] = r], main' = [main EXCEPT !.pc = pc],
           UNCHANGED conf, Sound(r, conf.batch), r.queue = <<>>,
           Threaded(i) => r.pc # "done" \/ r.ended,
           ~Threaded(i) => r.pc = "done" /\ pc = "idle"
    PROVE  Inv'
<1>1. it'[i] = r /\ Made' = Made /\ (Threaded(i)' <=> Threaded(i))
  BY DEF Made, Threaded
<1>2. MainOK' /\ main'.pc = pc /\ main'.at = i
  BY <1>1 DEF Inv, MainOK
<1>3. HandOver(i)'
  BY <1>1, <1>2 DEF HandOver, Waiting
<1> QED
  BY <1>2, <1>3, OneIterator

\* next() returns the batch, at the first try or the second.
LEMMA TakeStep ==
    ASSUME Inv, NEW i \in Made, Take(i) \/ TakeRetried(i)
    PROVE  Inv'
<1>1. Sound(it[i], conf.batch) /\ conf.batch \in Nat \ {0} /\ HandOver(i)
  BY ScenarioAssumption DEF Inv
<1>2. /\ Ready(i) /\ main.at = i /\ it' = [it EXCEPT ![i] = Taken(i)]
      /\ main' = [main EXCEPT !.pc = "idle"] /\ UNCHANGED conf
  BY DEF Take, TakeRetried
<1>3. /\ Sound(Taken(i), conf.batch) /\ Taken(i).queue = <<>>
      /\ Threaded(i) => Taken(i).pc # "done"
      /\ ~Threaded(i) => Taken(i).pc = "done"
  BY <1>1, <1>2, TakeSound
<1> QED
  BY <1>2, <1>3, Returns

\* What is left of an iterator when an empty batch was taken.
LEMMA DroppedSound ==
    ASSUME NEW r, NEW s, NEW b \in Nat \ {0}, Sound(r, b), r.pc = "done", r.queue # <<>>,
           Head(r.queue).data = <<>>, DOMAIN s = Fields, s.queue = Tail(r.queue),
           \A f \in Fields \ {"queue", "ended"} : s[f] = r[f]
    PROVE  Sound(s, b) /\ s.queue = <<>> /\ s.pc = "done" /\ s.batch = <<>>
<1>1. /\ s.pc = "done" /\ s.batch = r.batch /\ s.delivered = r.delivered /\ s.read = r.read
      /\ s.failures = r.failures
  BY DEF Fields
<1>2. s.queue = <<>> /\ r.batch = <<>>
  BY DEF Sound, Single
<1>3. Queued(r.queue) = 0 /\ Queued(s.queue) = 0
  BY <1>2, Empty DEF Queued
<1>4. Lost(s) = Lost(r)
  BY <1>1, <1>3, Zenon DEF Lost
<1> QED
  BY <1>1, <1>2, <1>4, Empty DEF Sound, Finished

\* next() raises StopIteration.
LEMMA StopStep ==
    ASSUME Inv, NEW i \in Made, StopIteration(i)
    PROVE  Inv'
<1>1. Sound(it[i], conf.batch) /\ conf.batch \in Nat \ {0} /\ DOMAIN it[i] = Fields
  BY ScenarioAssumption DEF Inv, Sound
<1> DEFINE r == [it[i] EXCEPT !.queue = Tail(@), !.ended = TRUE]
<1>2. /\ it[i].pc = "done" /\ it[i].queue # <<>> /\ Head(it[i].queue).data = <<>>
      /\ main.at = i /\ main' = [main EXCEPT !.pc = "idle"] /\ UNCHANGED conf
      /\ it' = [it EXCEPT ![i] = r]
  BY DEF StopIteration, Ready
<1>3. /\ DOMAIN r = Fields /\ r.queue = Tail(it[i].queue) /\ r.ended
      /\ \A f \in Fields \ {"queue", "ended"} : r[f] = it[i][f]
  BY <1>1 DEF Fields
<1> HIDE DEF r
<1>4. Sound(r, conf.batch) /\ r.queue = <<>> /\ r.pc = "done"
  BY <1>1, <1>2, <1>3, DroppedSound
<1> QED
  BY <1>2, <1>3, <1>4, Returns

\* next() got None and tries again, or returns it if there is no thread.
LEMMA RetryStep ==
    ASSUME Inv, NEW i \in Made, Retry(i)
    PROVE  Inv'
<1>1. Sound(it[i], conf.batch) /\ conf.batch \in Nat \ {0} /\ DOMAIN it[i] = Fields
  BY ScenarioAssumption DEF Inv, Sound
<1> DEFINE r == [it[i] EXCEPT !.queue = Tail(@)]
           pc == IF Threaded(i) THEN "retry" ELSE "idle"
<1>2. /\ it[i].pc = "done" /\ it[i].queue # <<>> /\ Head(it[i].queue).data = <<>>
      /\ main.at = i /\ main' = [main EXCEPT !.pc = pc] /\ UNCHANGED conf
      /\ it' = [it EXCEPT ![i] = Again(i)]
  BY DEF Retry, Ready
<1>3. /\ DOMAIN r = Fields /\ r.queue = Tail(it[i].queue)
      /\ \A f \in Fields \ {"queue", "ended"} : r[f] = it[i][f]
  BY <1>1 DEF Fields
<1>4. Again(i) = IF Threaded(i) THEN Started(r, i) ELSE r
  BY DEF Again
<1> HIDE DEF r
<1>5. Sound(r, conf.batch) /\ r.queue = <<>> /\ r.pc = "done" /\ r.batch = <<>>
  BY <1>1, <1>2, <1>3, DroppedSound
<1>6. CASE Threaded(i)
  <2>1. /\ Sound(Again(i), conf.batch) /\ Again(i).queue = <<>>
        /\ Again(i).pc \in {"check", "item"}
    BY <1>1, <1>4, <1>5, <1>6, StartSound
  <2> QED
    BY <1>2, <1>6, <2>1, Returns
<1>7. CASE ~Threaded(i)
  BY <1>2, <1>4, <1>5, <1>7, Returns
<1> QED
  BY <1>6, <1>7

\* A slice begins like every iterator; main does not wait for it yet.
LEMMA SliceStep ==
    ASSUME Inv, NEW i \in conf.ranks, Slice(i)
    PROVE  Inv'
<1>0. PICK r \in {NewIterator(i), [NewIterator(i) EXCEPT !.pc = "fill"]} :
        it' = [j \in Made \cup {i} |-> IF j = i THEN r ELSE it[j]]
  BY DEF Slice
<1>1. UNCHANGED <<conf, main>> /\ i \notin Made /\ main.pc = "idle"
  BY DEF Slice
<1>2. /\ Made' = Made \cup {i} /\ it'[i] = r
      /\ \A j \in Made : it'[j] = it[j]
  BY <1>0, <1>1 DEF Made
<1>3. conf.batch \in Nat \ {0} /\ MainOK /\ conf' = conf /\ main' = main
  BY <1>1, ScenarioAssumption DEF Inv
<1>4. ASSUME NEW j \in Made
      PROVE  Sound(it'[j], conf.batch) /\ HandOver(j)'
  <2>1. it'[j] = it[j] /\ Sound(it[j], conf.batch) /\ HandOver(j)
    BY <1>2 DEF Inv
  <2> QED
    BY <1>3, <2>1 DEF HandOver, Waiting, Threaded
<1>5. Sound(it'[i], conf.batch) /\ HandOver(i)'
  <2>0. Threaded(i)
    BY <1>3, StackAssumption DEF Inv, Threaded
  <2>1. Sound(it'[i], conf.batch) /\ it'[i].queue = <<>> /\ it'[i].pc # "done"
    BY <1>2, <1>3, <2>0, NewSound, FillingSound
  <2>2. (Threaded(i)' <=> Threaded(i)) /\ ~Waiting(i)'
    BY <1>1, <1>3 DEF Threaded, Waiting
  <2> QED
    BY <2>0, <2>1, <2>2 DEF HandOver
<1>6. MainOK'
  BY <1>2, <1>3 DEF MainOK
<1> QED
  BY <1>2, <1>3, <1>4, <1>5, <1>6 DEF Inv

\* close() has nothing to do with the batches.
LEMMA CloseStep ==
    ASSUME Inv, NEW i \in Made, Close(i)
    PROVE  Inv'
<1>1. UNCHANGED <<conf, main>> /\ main.pc = "idle" /\ it' = [it EXCEPT ![i].closed = TRUE]
  BY DEF Close
<1> DEFINE r == [it[i] EXCEPT !.closed = TRUE]
<1>2. Sound(it[i], conf.batch) /\ HandOver(i) /\ MainOK /\ DOMAIN it[i] = Fields
  BY DEF Inv, Sound
<1>3. it' = [it EXCEPT ![i] = r]
  BY <1>1
<1>4. /\ DOMAIN r = Fields /\ r.pc = it[i].pc /\ r.batch = it[i].batch
      /\ r.queue = it[i].queue /\ r.delivered = it[i].delivered /\ r.read = it[i].read
      /\ r.failures = it[i].failures /\ r.ended = it[i].ended
  BY <1>2 DEF Fields
<1> HIDE DEF r
<1>5. Lost(r) = Lost(it[i])
  BY <1>4, Zenon DEF Lost
<1>6. Sound(r, conf.batch)
  BY <1>2, <1>4, <1>5 DEF Sound
<1>7. it'[i] = r /\ Made' = Made /\ main' = main /\ conf' = conf
  BY <1>1, <1>3 DEF Made
<1>8. HandOver(i)' /\ MainOK'
  BY <1>2, <1>4, <1>7 DEF HandOver, MainOK, Threaded, Waiting
<1> QED
  BY <1>3, <1>6, <1>7, <1>8, OneIterator

-----------------------------------------------------------------------------
(* The theorems. *)

\* Every step keeps the invariant.
LEMMA InvNext == Inv /\ [Next]_vars => Inv'
<1> SUFFICES ASSUME Inv, [Next]_vars
             PROVE  Inv'
  OBVIOUS
<1>1. ASSUME NEW i \in Made, Thread(i) \/ Call(i) \/ Return(i) \/ Close(i)
      PROVE  Inv'
  BY <1>1, ThreadStep, CallStep, TakeStep, StopStep, RetryStep, CloseStep DEF Return
<1>2. ASSUME NEW i \in conf.ranks, Slice(i)
      PROVE  Inv'
  BY <1>2, SliceStep
<1>3. CASE UNCHANGED vars
  <2>1. conf' = conf /\ it' = it /\ main' = main
    BY <1>3 DEF vars
  <2> QED
    BY <2>1 DEF Inv, MainOK, HandOver, Made, Waiting, Threaded
<1> QED
  BY <1>1, <1>2, <1>3 DEF Next

\* The first iterator is made like every other.
LEMMA InvInit == Init => Inv
<1> SUFFICES ASSUME Init
             PROVE  Inv
  OBVIOUS
<1>1. /\ conf \in Scenarios /\ it = [i \in {0} |-> NewIterator(i)]
      /\ main = [pc |-> "idle", at |-> 0]
  BY DEF Init
<1>2. Made = {0} /\ it[0] = NewIterator(0)
  BY <1>1 DEF Made
<1>3. MainOK /\ ~Waiting(0)
  BY <1>1, <1>2 DEF MainOK, Waiting
<1>4. conf.batch \in Nat \ {0}
  BY <1>1, ScenarioAssumption
<1>5. /\ Sound(it[0], conf.batch) /\ it[0].queue = <<>>
      /\ Threaded(0) => it[0].pc # "done"
      /\ ~Threaded(0) => it[0].pc = "done"
  BY <1>2, <1>4, NewSound
<1>6. HandOver(0)
  BY <1>3, <1>5 DEF HandOver
<1> QED
  BY <1>1, <1>2, <1>3, <1>5, <1>6 DEF Inv

\* The invariant of the hand-over.
THEOREM InvAlways == Spec => []Inv
BY InvInit, InvNext, PTL DEF Spec

\* No sample that was read is lost, but in a batch in which a load failed, and then no more
\* than a batch (DataIterator._next and the retry in next).
THEOREM LossHolds == Spec => []LossIsBounded
<1>1. Inv => LossIsBounded
  <2> SUFFICES ASSUME Inv, NEW i \in Made
               PROVE  LET queued == IF it[i].queue = <<>> THEN 0
                                    ELSE Len(Head(it[i].queue).data)
                          lost == it[i].read - Len(it[i].delivered) - queued
                                  - Len(it[i].batch)
                      IN  lost \in 0..(it[i].failures * conf.batch)
    BY DEF LossIsBounded
  <2>1. Sound(it[i], conf.batch)
    BY DEF Inv
  <2>2. Lost(it[i]) >= 0 /\ Lost(it[i]) <= it[i].failures * conf.batch
    BY <2>1 DEF Sound
  <2>3. Lost(it[i]) \in Int
    <3>1. it[i].read \in Nat /\ Len(it[i].delivered) \in Nat /\ Len(it[i].batch) \in Nat
      BY <2>1, SequenceLen DEF Sound
    <3>2. Queued(it[i].queue) \in Nat
      BY <2>1, SequenceLen DEF Sound, Single, Queued
    <3>3. \A a, d, q, k \in Nat : a - d - q - k \in Int
      OBVIOUS
    <3> QED
      BY <3>1, <3>2, <3>3, Zenon DEF Lost
  <2>4. Lost(it[i]) \in 0..(it[i].failures * conf.batch)
    <3>1. it[i].failures \in Nat /\ conf.batch \in Nat
      BY <2>1, ScenarioAssumption DEF Sound, Inv
    <3> QED
      BY <2>2, <2>3, <3>1, OneMore
  <2> QED
    BY <2>4, Zenon DEF Lost, Queued
<1> QED
  BY <1>1, InvAlways, PTL

\* next() waits for a batch nobody makes only after StopIteration or the end of the thread by
\* an exception (DataIterator.next).
THEOREM BlocksHolds == Spec => []BlocksOnlyWhenEnded
<1>1. Inv => BlocksOnlyWhenEnded
  <2> SUFFICES ASSUME Inv, NEW i \in Made, Stuck(i)
               PROVE  it[i].pc \in Failures \/ (it[i].ended /\ Threaded(i))
    BY DEF BlocksOnlyWhenEnded
  <2>1. HandOver(i) /\ Waiting(i) /\ it[i].queue = <<>>
    BY DEF Inv, Stuck, Waiting
  <2>2. it[i].pc \in Failures \/ it[i].pc = "done"
    BY DEF Stuck, Finished
  <2> QED
    BY <2>1, <2>2 DEF HandOver
<1> QED
  BY <1>1, InvAlways, PTL

-----------------------------------------------------------------------------
(***************************************************************************)
(* The data sources, as far as closing them goes: whatever is read, reset, *)
(* drawn or built, only close() closes a source.                           *)
(***************************************************************************)

SourceFields == {"layer", "chain", "size", "shuffle", "position", "generation", "start",
                 "order", "orders", "appended", "cache", "held", "named", "filled", "closed"}

\* The source a slice is of is one of the iterator that was sliced.
OnWhole(s, x) == x[1] = "sliced" => Below(s)[2] = 0

Heap(g) == \A x \in DOMAIN g : /\ DOMAIN g[x] = SourceFields /\ g[x].layer = x[1]
                                /\ g[x].size \in Int /\ OnWhole(g[x], x)

\* g has the sources of f, as they are, but for what they serve, and perhaps new ones.
Extends(f, g) ==
    /\ Heap(g)
    /\ DOMAIN f \subseteq DOMAIN g
    /\ \A x \in DOMAIN f : g[x].closed = f[x].closed
    /\ \A x \in DOMAIN g \ DOMAIN f : ~g[x].closed

\* g has the very sources of f.
Keeps(f, g) == Extends(f, g) /\ DOMAIN g = DOMAIN f

\* Of the sources of f, only those of C have changed.
Frames(f, g, C) == \A x \in DOMAIN f \ C : g[x] = f[x]

Builds(f, g, C) == Extends(f, g) /\ Frames(f, g, C)

\* The sources of a chain are there, the last one on the data themselves.
Grounded(g, chain) ==
    chain \in Seq(DOMAIN g) /\ chain # <<>> /\ chain[Len(chain)][1] \in Leaves

\* A source that is changed in place.
SameSource(s, t) ==
    /\ DOMAIN t = DOMAIN s /\ t.layer = s.layer /\ t.chain = s.chain
    /\ t.size = s.size /\ t.closed = s.closed

\* Some sources change in place.
LEMMA ChangeExtends ==
    ASSUME NEW f, Heap(f), NEW g, DOMAIN g = DOMAIN f,
           \A x \in DOMAIN f : SameSource(f[x], g[x])
    PROVE  Extends(f, g)
BY DEF Extends, Heap, SameSource, OnWhole, Below

\* A new source.
LEMMA OneMoreExtends ==
    ASSUME NEW f, Heap(f), NEW x, NEW s, x \notin DOMAIN f,
           DOMAIN s = SourceFields, s.layer = x[1], s.size \in Int, ~s.closed, OnWhole(s, x)
    PROVE  Extends(f, Added(f, x, s)) /\ DOMAIN Added(f, x, s) = DOMAIN f \cup {x}
<1> DEFINE g == Added(f, x, s)
<1>1. /\ DOMAIN g = DOMAIN f \cup {x} /\ g[x] = s
      /\ \A y \in DOMAIN f : g[y] = f[y]
  BY DEF Added
<1> HIDE DEF g
<1>2. Extends(f, g)
  BY <1>1 DEF Extends, Heap
<1> QED
  BY <1>1, <1>2 DEF g

\* One after the other.
LEMMA ExtendsTransitive ==
    ASSUME NEW f, NEW g, NEW k, Extends(f, g), Extends(g, k)
    PROVE  Extends(f, k)
BY DEF Extends

\* And all the while the sources off the chain are left alone.
LEMMA BuildsTransitive ==
    ASSUME NEW f, NEW g, NEW k, NEW C, Builds(f, g, C), Builds(g, k, C)
    PROVE  Builds(f, k, C)
<1>1. Extends(f, k)
  BY ExtendsTransitive DEF Builds
<1>2. Frames(f, k, C)
  BY DEF Builds, Frames, Extends
<1> QED
  BY <1>1, <1>2 DEF Builds

\* Chains stay.
LEMMA StaysGrounded ==
    ASSUME NEW f, NEW g, Extends(f, g), NEW chain, Grounded(f, chain)
    PROVE  Grounded(g, chain)
<1>1. chain \in Seq(DOMAIN g)
  BY SeqMonotonic DEF Grounded, Extends
<1> QED
  BY <1>1 DEF Grounded

\* The members of a chain are there.
LEMMA Members ==
    ASSUME NEW f, NEW chain, Grounded(f, chain)
    PROVE  /\ Len(chain) \in Nat \ {0} /\ DOMAIN chain = 1 .. Len(chain)
           /\ \A n \in DOMAIN chain : chain[n] \in DOMAIN f
<1>1. chain \in Seq(DOMAIN f) /\ chain # <<>>
  BY DEF Grounded
<1>2. Len(chain) \in Nat \ {0}
  BY <1>1, EmptySeq
<1>3. DOMAIN chain = 1 .. Len(chain)
  BY <1>1, LenProperties
<1>4. \A n \in 1 .. Len(chain) : chain[n] \in DOMAIN f
  BY <1>1, ElementOfSeq
<1> QED
  BY <1>2, <1>3, <1>4

\* Some source of a chain answers: the last one always does.
LEMMA AnsweringIn ==
    ASSUME NEW f, Heap(f), NEW chain, Grounded(f, chain), NEW position
    PROVE  Answering(f, chain, position) \in DOMAIN chain
<1> DEFINE A == {n \in DOMAIN chain : Holds(f[chain[n]], Asked(f, chain, n, position))}
           n == Len(chain)
<1>1. n \in Nat \ {0} /\ DOMAIN chain = 1 .. n /\ chain[n] \in DOMAIN f
  BY Members
<1>2. f[chain[n]].layer \in Leaves
  BY <1>1 DEF Grounded, Heap
<1>3. Holds(f[chain[n]], Asked(f, chain, n, position))
  BY <1>2 DEF Holds, OnMemory, Leaves
<1>4. A \in SUBSET Nat /\ A # {}
  BY <1>1, <1>3
<1> HIDE DEF A
<1>5. Min(A) \in A
  BY <1>4, MinIs
<1> QED
  BY <1>5 DEF A, Answering

\* A part of the sources changes in place.
LEMMA PartExtends ==
    ASSUME NEW f, Heap(f), NEW g, DOMAIN g \subseteq DOMAIN f,
           \A x \in DOMAIN g : SameSource(f[x], g[x])
    PROVE  Extends(f, Changed(f, g)) /\ DOMAIN Changed(f, g) = DOMAIN f
<1> DEFINE k == Changed(f, g)
<1>1. DOMAIN k = DOMAIN f /\ \A x \in DOMAIN f : k[x] = IF x \in DOMAIN g THEN g[x] ELSE f[x]
  BY DEF Changed
<1>2. \A x \in DOMAIN f : SameSource(f[x], k[x])
  BY <1>1 DEF SameSource
<1> HIDE DEF k
<1>3. Extends(f, k)
  BY <1>1, <1>2, ChangeExtends
<1> QED
  BY <1>1, <1>3 DEF k

\* The members of a chain.
On(chain) == {chain[n] : n \in DOMAIN chain}

\* Reading: the sources on the way note the position, the caches keep the sample.
LEMMA AnswerExtends ==
    ASSUME NEW f, Heap(f), NEW chain, Grounded(f, chain), NEW n, NEW position, NEW sample
    PROVE  LET g == AfterAnswer(f, chain, n, position, sample)
           IN  Extends(f, g) /\ DOMAIN g = DOMAIN f
<1> DEFINE visited(m, source) ==
               [source EXCEPT
                !.position = IF source.layer \in {"simple", "csv", "concat"}
                             THEN @ ELSE Asked(f, chain, m, position),
                !.cache = IF OnMemory(source) /\ m < n THEN Append(@, sample) ELSE @]
           way == {m \in DOMAIN chain : m <= n}
           g == [x \in {chain[m] : m \in way} |->
                    visited(CHOOSE m \in way : chain[m] = x, f[x])]
<1>2. \A m \in way : chain[m] \in DOMAIN f
  BY Members
<1>3. AfterAnswer(f, chain, n, position, sample) = Changed(f, g)
  BY DEF AfterAnswer
<1>4. ASSUME NEW x \in DOMAIN f, NEW m
      PROVE  SameSource(f[x], visited(m, f[x]))
  BY DEF Heap, SourceFields, SameSource
<1> HIDE DEF way
<1>5. DOMAIN g \subseteq DOMAIN f /\ \A x \in DOMAIN g : g[x] = visited(CHOOSE m \in way : chain[m] = x, f[x])
  BY <1>2
<1> HIDE DEF visited
<1>6. \A x \in DOMAIN g : SameSource(f[x], g[x])
  BY <1>4, <1>5
<1> HIDE DEF g
<1> QED
  BY <1>3, <1>5, <1>6, PartExtends

\* It leaves alone the sources off the chain.
LEMMA AnswerBuilds ==
    ASSUME NEW f, Heap(f), NEW chain, Grounded(f, chain), NEW n, NEW position, NEW sample,
           NEW C, On(chain) \subseteq C
    PROVE  LET g == AfterAnswer(f, chain, n, position, sample)
           IN  Builds(f, g, C) /\ DOMAIN g = DOMAIN f
<1> DEFINE g == AfterAnswer(f, chain, n, position, sample)
<1>2. PICK k : DOMAIN k = {chain[m] : m \in {j \in DOMAIN chain : j <= n}} /\ g = Changed(f, k)
  BY DEF AfterAnswer
<1> HIDE DEF g
<1>3. DOMAIN k \subseteq C
  BY <1>2 DEF On
<1>4. Frames(f, g, C)
  BY <1>2, <1>3 DEF Frames, Changed
<1>5. Extends(f, g) /\ DOMAIN g = DOMAIN f
  BY AnswerExtends DEF g
<1> QED
  BY <1>4, <1>5 DEF Builds, g

\* A field of one source changes.
LEMMA OneExtends ==
    ASSUME NEW f, Heap(f), NEW x \in DOMAIN f, NEW s, SameSource(f[x], s)
    PROVE  Keeps(f, [f EXCEPT ![x] = s])
<1> DEFINE g == [f EXCEPT ![x] = s]
<1>1. DOMAIN g = DOMAIN f /\ \A y \in DOMAIN f : g[y] = IF y = x THEN s ELSE f[y]
  OBVIOUS
<1>2. \A y \in DOMAIN f : SameSource(f[y], g[y])
  BY <1>1 DEF SameSource
<1> HIDE DEF g
<1>3. Extends(f, g)
  BY <1>1, <1>2, ChangeExtends
<1> QED
  BY <1>1, <1>3 DEF g, Keeps

\* Each of the fields that serving changes.
LEMMA InPlace ==
    ASSUME NEW f, Heap(f), NEW x \in DOMAIN f, NEW value
    PROVE  /\ SameSource(f[x], [f[x] EXCEPT !.position = value])
           /\ SameSource(f[x], [f[x] EXCEPT !.generation = value])
BY DEF Heap, SourceFields, SameSource

\* The content of a cache file is there, or its name.
LEMMA FileKnown ==
    ASSUME NEW f, Heap(f), NEW x \in DOMAIN f, NEW file,
           NEW s \in {[f[x] EXCEPT !.held = file], [f[x] EXCEPT !.named = file]}
    PROVE  LET g == [f EXCEPT ![x] = s]
           IN  Keeps(f, g) /\ \A C : x \in C => Frames(f, g, C)
<1> DEFINE g == [f EXCEPT ![x] = s]
<1>1. SameSource(f[x], s)
  BY DEF Heap, SourceFields, SameSource
<1>2. DOMAIN g = DOMAIN f /\ \A y \in DOMAIN f : g[y] = IF y = x THEN s ELSE f[y]
  OBVIOUS
<1>3. Keeps(f, g)
  BY <1>1, OneExtends
<1> HIDE DEF g
<1>4. \A C : x \in C => Frames(f, g, C)
  BY <1>2 DEF Frames
<1> QED
  BY <1>3, <1>4 DEF g

\* What the constructors read, the file they have then included.
LEMMA GetDataBuilds ==
    ASSUME NEW f, Heap(f), NEW chain, Grounded(f, chain), NEW position, NEW sample,
           NEW C, On(chain) \subseteq C
    PROVE  LET g == AfterGetData(f, chain, position, sample)
           IN  Builds(f, g, C) /\ DOMAIN g = DOMAIN f
<1> DEFINE n == Answering(f, chain, position)
           x == chain[n]
           file == FilePlace(f[x], Asked(f, chain, n, position))[1]
           g == AfterAnswer(f, chain, n, position, sample)
           s == [g[x] EXCEPT !.held = file]
           k == [g EXCEPT ![x] = s]
           t == [k[x] EXCEPT !.named = file]
<1>1. x \in DOMAIN f /\ x \in C
  BY AnsweringIn, Members DEF On
<1>2. AfterGetData(f, chain, position, sample) \in {g, [k EXCEPT ![x] = t]}
  BY DEF AfterGetData
<1> HIDE DEF n
<1>8. Builds(f, g, C) /\ DOMAIN g = DOMAIN f
  <2> HIDE DEF x, file
  <2>1. \A m : LET a == AfterAnswer(f, chain, m, position, sample)
                IN  Builds(f, a, C) /\ DOMAIN a = DOMAIN f
    BY AnswerBuilds
  <2> QED
    BY Zenon, <2>1
<1> HIDE DEF x
<1> HIDE DEF g, file
<1>3. Builds(f, g, C) /\ DOMAIN g = DOMAIN f /\ Heap(g)
  BY <1>8 DEF Builds, Extends
<1>4. Keeps(g, k) /\ Frames(g, k, C)
  BY <1>1, <1>3, FileKnown
<1> HIDE DEF k
<1>9. Builds(g, k, C) /\ DOMAIN k = DOMAIN f
  BY <1>3, <1>4 DEF Builds, Keeps
<1>10. Builds(f, k, C)
  BY Zenon, <1>3, <1>9, BuildsTransitive
<1>5. Builds(f, k, C) /\ DOMAIN k = DOMAIN f /\ Heap(k)
  BY <1>9, <1>10 DEF Builds, Extends
<1>6. Keeps(k, [k EXCEPT ![x] = t]) /\ Frames(k, [k EXCEPT ![x] = t], C)
  BY <1>1, <1>5, FileKnown
<1>7. Builds(f, [k EXCEPT ![x] = t], C) /\ DOMAIN [k EXCEPT ![x] = t] = DOMAIN f
  BY <1>5, <1>6, BuildsTransitive DEF Builds, Keeps
<1> QED
  BY <1>2, <1>3, <1>7

\* DataSource.next
LEMMA NextExtends ==
    ASSUME NEW f, Heap(f), NEW chain, Grounded(f, chain), NEW n, NEW sample
    PROVE  Keeps(f, AfterNext(f, chain, n, sample))
<1> DEFINE position == f[chain[1]].position
           g == AfterAnswer(f, chain, n, position, sample)
           s == [g[chain[1]] EXCEPT !.position = position + 1]
           k == [g EXCEPT ![chain[1]] = s]
<1>1. Extends(f, g) /\ DOMAIN g = DOMAIN f
  BY AnswerExtends
<1>2. AfterNext(f, chain, n, sample) = k
  BY DEF AfterNext
<1>3. chain[1] \in DOMAIN f
  BY Members
<1> HIDE DEF g, position
<1>4. Heap(g) /\ chain[1] \in DOMAIN g
  BY <1>1, <1>3 DEF Extends
<1>5. SameSource(g[chain[1]], s)
  BY <1>4, InPlace
<1> HIDE DEF s
<1>6. Keeps(g, k)
  BY <1>4, <1>5, OneExtends
<1> QED
  BY <1>1, <1>2, <1>6, ExtendsTransitive DEF Keeps

\* It leaves alone the sources off the chain, and moves the first one on.
LEMMA NextBuilds ==
    ASSUME NEW f, Heap(f), NEW chain, Grounded(f, chain), NEW n, NEW sample
    PROVE  LET g == AfterNext(f, chain, n, sample)
           IN  /\ Frames(f, g, On(chain))
               /\ g[chain[1]].position = f[chain[1]].position + 1
<1> DEFINE position == f[chain[1]].position
           g == AfterAnswer(f, chain, n, position, sample)
           k == [g EXCEPT ![chain[1]].position = position + 1]
<1>1. AfterNext(f, chain, n, sample) = k
  BY DEF AfterNext
<1>2. Builds(f, g, On(chain)) /\ DOMAIN g = DOMAIN f
  BY AnswerBuilds
<1>3. chain[1] \in DOMAIN f /\ chain[1] \in On(chain)
  BY Members DEF On
<1> HIDE DEF g, position
<1>4. DOMAIN g[chain[1]] = SourceFields
  BY <1>2, <1>3 DEF Builds, Extends, Heap
<1>5. k[chain[1]].position = position + 1
  BY <1>2, <1>3, <1>4 DEF SourceFields
<1>6. \A x \in DOMAIN f \ On(chain) : k[x] = f[x]
  BY <1>2, <1>3 DEF Builds, Frames
<1> QED
  BY <1>1, <1>5, <1>6 DEF Frames, position

\* reset() of one source.
LEMMA ResetSame ==
    ASSUME NEW s, NEW draw, DOMAIN s = SourceFields
    PROVE  SameSource(s, SourceReset(s, draw))
<1>1. ASSUME NEW order, NEW generation, NEW position
      PROVE  SameSource(s, [s EXCEPT !.order = order, !.generation = generation,
                                     !.position = position])
  BY DEF SourceFields, SameSource
<1>a. SameSource(s, [s EXCEPT !.position = 0])
  BY DEF SourceFields, SameSource
<1>2. CASE s.layer = "memory"
  <2>1. SourceReset(s, draw) = MemoryReset(s, draw)
    BY <1>2 DEF SourceReset
  <2>2. SameSource(s, MemoryReset(s, draw))
    BY <1>1, Zenon DEF MemoryReset
  <2> QED
    BY <2>1, <2>2
<1>b. CASE s.layer = "cache"
  <2>1. SourceReset(s, draw) = [s EXCEPT !.filled = FALSE, !.position = 0]
    BY <1>b DEF SourceReset
  <2>2. SameSource(s, [s EXCEPT !.filled = FALSE, !.position = 0])
    BY DEF SourceFields, SameSource
  <2> QED
    BY <2>1, <2>2
<1>3. CASE s.layer \in {"csv", "concat", "file"}
  <2> DEFINE order == IF s.layer \in {"csv", "concat"} THEN ShuffledBy(s, Identity(s.size), draw)
                      ELSE IF ~s.shuffle THEN s.order
                      ELSE DrawFileOrder(s.order, draw)
  <2>1. SourceReset(s, draw) = [s EXCEPT !.order = order, !.position = 0]
    BY <1>3 DEF SourceReset
  <2> HIDE DEF order
  <2>2. SameSource(s, [s EXCEPT !.order = order, !.position = 0])
    BY DEF SourceFields, SameSource
  <2> QED
    BY <2>1, <2>2
<1>4. CASE s.layer \notin {"memory", "csv", "concat", "cache", "file"}
  <2>1. SourceReset(s, draw) = [s EXCEPT !.position = 0]
    BY <1>4 DEF SourceReset
  <2> QED
    BY <1>a, <2>1
<1> QED
  BY <1>2, <1>b, <1>3, <1>4

\* The order of a cache is filled again, and nothing else happens.
LEMMA FillBuilds ==
    ASSUME NEW f, Heap(f), NEW chain, Grounded(f, chain), NEW draw
    PROVE  LET g == AfterFill(f, chain, draw)
           IN  /\ Keeps(f, g) /\ Frames(f, g, On(chain))
               /\ \A x \in DOMAIN f : g[x].position = f[x].position
<1> DEFINE emptied == Emptied(f, chain)
           k == [x \in emptied |-> FillOrder(f[x], draw[x[1]])]
           g == AfterFill(f, chain, draw)
<1>1. g = Changed(f, k) /\ DOMAIN k = emptied
  BY DEF AfterFill
<1>2. emptied \subseteq DOMAIN f /\ emptied \subseteq On(chain)
  BY Members DEF Emptied, On
<1>3. ASSUME NEW x \in emptied
      PROVE  SameSource(f[x], k[x]) /\ k[x].position = f[x].position
  <2> DEFINE s == f[x]
             order == IF s.shuffle THEN DrawFileOrder(FileOrder(s.cache), draw[x[1]]) ELSE s.order
  <2>1. k[x] = [s EXCEPT !.order = order, !.held = NoFile, !.named = NoFile, !.filled = TRUE]
    BY DEF FillOrder
  <2>2. DOMAIN s = SourceFields
    BY <1>2 DEF Heap
  <2> HIDE DEF s, order, k
  <2>3. SameSource(s, k[x]) /\ k[x].position = s.position
    BY <2>1, <2>2 DEF SourceFields, SameSource
  <2> QED
    BY <2>3 DEF s
<1> HIDE DEF emptied, k, g
<1>4. Keeps(f, g)
  BY <1>1, <1>2, <1>3, PartExtends DEF Keeps
<1>5. Frames(f, g, On(chain)) /\ \A x \in DOMAIN f : g[x].position = f[x].position
  BY <1>1, <1>2, <1>3 DEF Frames, Changed
<1> QED
  BY <1>4, <1>5 DEF g

\* It leaves the source at its start.
LEMMA ResetStarts ==
    ASSUME NEW s, NEW draw, DOMAIN s = SourceFields
    PROVE  SourceReset(s, draw).position = 0
<1>1. CASE s.layer = "memory"
  BY <1>1 DEF SourceReset, MemoryReset, SourceFields
<1>2. CASE s.layer \in {"csv", "concat"}
  BY <1>2 DEF SourceReset, SourceFields
<1>3. CASE s.layer = "cache"
  BY <1>3 DEF SourceReset, SourceFields
<1>4. CASE s.layer = "file"
  BY <1>4 DEF SourceReset, SourceFields
<1>5. CASE s.layer \notin {"memory", "csv", "concat", "cache", "file"}
  BY <1>5 DEF SourceReset, SourceFields
<1> QED
  BY <1>1, <1>2, <1>3, <1>4, <1>5

\* Resetting a chain.
LEMMA ResetExtends ==
    ASSUME NEW f, Heap(f), NEW chain, Grounded(f, chain), NEW draw
    PROVE  Keeps(f, AfterReset(f, chain, draw))
<1> DEFINE reached == Reached(f, chain)
           slices == {x \in reached : f[x].layer = "sliced"}
           clean(x) == SourceReset(f[x], draw[x[1]])
           over(x) == {y \in slices : Below(f[y]) = x}
           g == [x \in reached |->
                    IF over(x) = {} THEN clean(x)
                    ELSE [clean(x) EXCEPT !.position = f[CHOOSE y \in over(x) : TRUE].start]]
<1>1. AfterReset(f, chain, draw) = Changed(f, g)
  BY DEF AfterReset
<1>2. reached \subseteq DOMAIN f
  BY Members DEF Reached
<1>3. ASSUME NEW x \in reached, NEW position
      PROVE  /\ SameSource(f[x], clean(x))
             /\ SameSource(f[x], [clean(x) EXCEPT !.position = position])
  <2>1. DOMAIN f[x] = SourceFields
    BY <1>2 DEF Heap
  <2>2. SameSource(f[x], clean(x))
    BY <2>1, ResetSame
  <2> HIDE DEF clean
  <2> QED
    BY <2>1, <2>2 DEF SameSource, SourceFields
<1> HIDE DEF clean, reached
<1>4. DOMAIN g = reached /\ \A x \in reached : SameSource(f[x], g[x])
  <2>1. ASSUME NEW x \in reached PROVE SameSource(f[x], g[x])
    <3>1. CASE over(x) = {}
      BY <1>3, <3>1
    <3>2. CASE over(x) # {}
      <4>1. g[x] = [clean(x) EXCEPT !.position = f[CHOOSE y \in over(x) : TRUE].start]
        BY <3>2
      <4> QED
        BY <1>3, <4>1, Zenon
    <3> QED
      BY <3>1, <3>2
  <2> QED
    BY <2>1
<1> HIDE DEF g
<1> QED
  BY <1>1, <1>2, <1>4, PartExtends DEF Keeps

\* It leaves alone the sources off the chain, and the first one back at its start, unless that
\* is what a slice reads.
LEMMA ResetBuilds ==
    ASSUME NEW f, Heap(f), NEW chain, Grounded(f, chain), NEW draw
    PROVE  LET g == AfterReset(f, chain, draw)
           IN  /\ Frames(f, g, On(chain))
               /\ (\A x \in On(chain) : x[1] = "sliced" => Below(f[x]) # chain[1]) =>
                      g[chain[1]].position = 0
<1> DEFINE reached == Reached(f, chain)
           slices == {x \in reached : f[x].layer = "sliced"}
           clean(x) == SourceReset(f[x], draw[x[1]])
           over(x) == {y \in slices : Below(f[y]) = x}
           k == [x \in reached |->
                    IF over(x) = {} THEN clean(x)
                    ELSE [clean(x) EXCEPT !.position = f[CHOOSE y \in over(x) : TRUE].start]]
           g == AfterReset(f, chain, draw)
           top == chain[1]
<1>1. g = Changed(f, k) /\ DOMAIN k = reached
  BY DEF AfterReset
<1>2. reached \subseteq On(chain) /\ top \in reached /\ top \in DOMAIN f
  <2>1. Len(chain) \in Nat \ {0} /\ DOMAIN chain = 1 .. Len(chain) /\ top \in DOMAIN f
    BY Members
  <2>2. 1 \in DOMAIN chain /\ 1 .. (1 - 1) = {}
    BY <2>1
  <2> QED
    BY <2>1, <2>2 DEF Reached, On
<1>3. Frames(f, g, On(chain))
  <2> HIDE DEF k, reached
  <2> QED
    BY <1>1, <1>2 DEF Changed, Frames
<1>4. ASSUME \A x \in On(chain) : x[1] = "sliced" => Below(f[x]) # top
      PROVE  g[top].position = 0
  <2>1. \A x \in On(chain) : x \in DOMAIN f /\ f[x].layer = x[1]
    BY Members DEF On, Heap
  <2>2. over(top) = {}
    <3> HIDE DEF reached, top
    <3> QED
      BY <1>2, <1>4, <2>1
  <2>3. k[top] = clean(top)
    <3> HIDE DEF clean
    <3> QED
      BY <1>2, <2>2
  <2>4. DOMAIN f[top] = SourceFields
    BY <1>2 DEF Heap
  <2>5. clean(top).position = 0
    BY <2>4, ResetStarts
  <2> HIDE DEF k, clean, reached
  <2> QED
    BY <1>1, <1>2, <2>3, <2>5 DEF Changed
<1> QED
  BY <1>3, <1>4

\* apply_order() moves the generation of the first source.
LEMMA ApplyOrderExtends ==
    ASSUME NEW f, Heap(f), NEW chain, Grounded(f, chain)
    PROVE  Keeps(f, AfterApplyOrder(f, chain))
<1> DEFINE x == chain[1]
           s == [f[x] EXCEPT !.generation = @ + 1]
<1>1. x \in DOMAIN f
  BY Members
<1>2. SameSource(f[x], s)
  BY <1>1, InPlace
<1>3. AfterApplyOrder(f, chain) = IF f[x].layer \in {"simple", "sliced"} THEN [f EXCEPT ![x] = s] ELSE f
  BY DEF AfterApplyOrder
<1> HIDE DEF x, s
<1>4. Keeps(f, [f EXCEPT ![x] = s])
  BY <1>1, <1>2, OneExtends
<1>5. Keeps(f, f)
  BY DEF Extends, Keeps
<1> QED
  BY <1>3, <1>4, <1>5

\* A slice has a source below it.
LEMMA GeneratorIn ==
    ASSUME NEW f, Heap(f), NEW chain, Grounded(f, chain), NEW x \in Generator(f, chain)
    PROVE  x \in DOMAIN f
<1>1. /\ Len(chain) \in Nat \ {0} /\ DOMAIN chain = 1 .. Len(chain)
      /\ \A n \in 1 .. Len(chain) : chain[n] \in DOMAIN f
  BY Members
<1>2. f[chain[1]].layer = "sliced" => Len(chain) # 1
  BY <1>1 DEF Heap, Grounded, Leaves
<1>3. x = IF f[chain[1]].layer = "sliced" THEN chain[2] ELSE chain[1]
  BY DEF Generator
<1> QED
  BY <1>1, <1>2, <1>3

\* _generate_order appends to the deque.
LEMMA AppendOrderExtends ==
    ASSUME NEW f, Heap(f), NEW x \in DOMAIN f, NEW generation
    PROVE  Keeps(f, [f EXCEPT ![x] = AppendOrder(@, generation)])
<1>1. SameSource(f[x], AppendOrder(f[x], generation))
  <2> DEFINE source == f[x]
             draw == source.appended % Cardinality(Draws)
             snapshot == [generation |-> generation,
                          order |-> ShuffledBy(source, Identity(source.size), draw)]
             all == Append(source.orders, snapshot)
             orders == IF Len(all) > Kept THEN Tail(all) ELSE all
             appended == source.appended + 1
  <2>1. AppendOrder(source, generation) = [source EXCEPT !.orders = orders, !.appended = appended]
    BY DEF AppendOrder
  <2>2. DOMAIN source = SourceFields
    BY DEF Heap
  <2> HIDE DEF source, orders, appended
  <2>3. SameSource(source, [source EXCEPT !.orders = orders, !.appended = appended])
    BY <2>2 DEF SameSource, SourceFields
  <2>4. SameSource(source, AppendOrder(source, generation))
    BY <2>1, <2>3
  <2> QED
    BY <2>4 DEF source
<1> QED
  BY <1>1, OneExtends

-----------------------------------------------------------------------------
(* Building the sources. *)

\* A source as its constructor leaves it.
New(s, x) ==
    /\ DOMAIN s = SourceFields /\ s.layer = x[1] /\ s.size \in Int /\ ~s.closed
    /\ OnWhole(s, x)

\* A slice is put on the top source of the iterator that is sliced.
SlicesWhole(chain) == chain[1][1] = "sliced" => chain[2][2] = 0

\* The fields every source starts with, and those its own constructor sets.
LEMMA DataSourceNew ==
    ASSUME NEW chain, SlicesWhole(chain), NEW size \in Int, NEW shuffle
    PROVE  New(DataSource(chain, size, shuffle), chain[1])
BY DEF DataSource, New, SourceFields, OnWhole, Below, SlicesWhole

\* What is set in a new source leaves it open.
LEMMA SetNew ==
    ASSUME NEW s, NEW x, New(s, x), NEW value, NEW other
    PROVE  /\ New([s EXCEPT !.order = value], x)
           /\ New([s EXCEPT !.start = value], x)
           /\ New([s EXCEPT !.generation = value], x)
           /\ New([s EXCEPT !.cache = value, !.order = other], x)
           /\ New([s EXCEPT !.orders = value, !.appended = other], x)
BY DEF New, SourceFields, OnWhole, Below

\* The order in which a fold goes through a sequence: all so far without the last.
LEMMA LastOf ==
    ASSUME NEW k \in Nat \ {0}, NEW T \in SUBSET (1 .. k), k \in T
    PROVE  Max(T) = k /\ T \ {k} \in SUBSET (1 .. (k - 1))
<1>1. T \in SUBSET Nat /\ T # {} /\ \A n \in T : n <= k
  OBVIOUS
<1>2. Max(T) \in T /\ \A n \in T : Max(T) >= n
  BY <1>1, MaxIs
<1>3. Max(T) = k
  <2> DEFINE m == Max(T)
  <2>1. m \in T /\ m >= k /\ m <= k /\ m \in Nat
    BY <1>1, <1>2
  <2> HIDE DEF m
  <2>2. m = k
    BY <2>1
  <2> QED
    BY <2>2 DEF m
<1>4. ASSUME NEW n \in T \ {k}
      PROVE  n \in 1 .. (k - 1)
  BY <1>1
<1> QED
  BY <1>3, <1>4

\* One step of the two loops: a source is put on the chain, a sample is put in the files.
Step(op, g, k) ==
    IF op.adding
    THEN AddSource(g, SubSeq(op.chain, k, Len(op.chain)), op.conf, op.range, op.draw[op.chain[k][1]])
    ELSE [h |-> AfterGetData(g.h, op.chain, k, Sample(g.h, op.chain, k, op.parts)),
          samples |-> Added(g.samples, k, Sample(g.h, op.chain, k, op.parts))]

\* The recursive function of FoldLeft.
Loop(f, op, base, seq, n) ==
    f = [T \in SUBSET (1 .. n) |->
            IF T = {} THEN base ELSE Step(op, f[T \ {Max(T)}], seq[Max(T)])]

\* It exists.
LEMMA LoopExists ==
    ASSUME NEW n \in Nat, NEW op, NEW base, NEW seq
    PROVE  \E f : Loop(f, op, base, seq, n)
<1> DEFINE G == {m \in Nat : \E f : Loop(f, op, base, seq, m)}
<1>1. 0 \in G
  <2> DEFINE f == [T \in {{}} |-> base]
  <2>1. SUBSET (1 .. 0) = {{}}
    OBVIOUS
  <2>2. Loop(f, op, base, seq, 0)
    BY <2>1 DEF Loop
  <2> QED
    BY <2>2
<1>2. ASSUME NEW m \in G, m \in Nat
      PROVE  m + 1 \in G
  <2>1. PICK f : Loop(f, op, base, seq, m)
    OBVIOUS
  <2> DEFINE g == [T \in SUBSET (1 .. (m + 1)) |->
                     IF m + 1 \in T THEN Step(op, f[T \ {m + 1}], seq[m + 1]) ELSE f[T]]
  <2>2. ASSUME NEW T \in SUBSET (1 .. (m + 1))
        PROVE  g[T] = IF T = {} THEN base ELSE Step(op, g[T \ {Max(T)}], seq[Max(T)])
    <3>1. CASE m + 1 \in T
      <4>1. Max(T) = m + 1 /\ T \ {m + 1} \in SUBSET (1 .. m)
        BY <3>1, LastOf
      <4>2. g[T \ {m + 1}] = f[T \ {m + 1}]
        BY <4>1
      <4>3. g[T] = Step(op, f[T \ {m + 1}], seq[m + 1])
        BY <3>1
      <4> HIDE DEF g
      <4> QED
        BY <3>1, <4>1, <4>2, <4>3
    <3>2. CASE m + 1 \notin T
      <4>1. T \in SUBSET (1 .. m)
        BY <3>2
      <4>2. f[T] = IF T = {} THEN base ELSE Step(op, f[T \ {Max(T)}], seq[Max(T)])
        BY <2>1, <4>1 DEF Loop
      <4>3. g[T] = f[T] /\ \A x : g[T \ {x}] = f[T \ {x}]
        BY <3>2
      <4> HIDE DEF g
      <4> QED
        BY <4>2, <4>3
    <3> QED
      BY <3>1, <3>2
  <2>3. DOMAIN g = SUBSET (1 .. (m + 1)) /\ g = [T \in SUBSET (1 .. (m + 1)) |-> g[T]]
    OBVIOUS
  <2> HIDE DEF g
  <2>4. Loop(g, op, base, seq, m + 1)
    BY <2>2, <2>3 DEF Loop
  <2> QED
    BY <2>4
<1> HIDE DEF G
<1>3. Nat \subseteq G
  BY <1>1, <1>2, SetByNumbers
<1>4. n \in G
  BY <1>3
<1> QED
  BY <1>4 DEF G

\* It takes the members of the sequence one by one.
LEMMA LoopSteps ==
    ASSUME NEW n \in Nat, NEW op, NEW base, NEW seq, NEW f, Loop(f, op, base, seq, n)
    PROVE  /\ f[1 .. 0] = base
           /\ \A k \in 1 .. n : f[1 .. k] = Step(op, f[1 .. (k - 1)], seq[k])
<1>1. f[1 .. 0] = base
  <2>1. 1 .. 0 = {} /\ {} \in SUBSET (1 .. n)
    OBVIOUS
  <2> QED
    BY <2>1 DEF Loop
<1>2. ASSUME NEW k \in 1 .. n
      PROVE  f[1 .. k] = Step(op, f[1 .. (k - 1)], seq[k])
  <2> DEFINE T == 1 .. k
  <2>1. k \in Nat \ {0} /\ T \in SUBSET (1 .. k) /\ k \in T /\ T \ {k} = 1 .. (k - 1)
        /\ T \in SUBSET (1 .. n) /\ T # {}
    OBVIOUS
  <2> HIDE DEF T
  <2>2. Max(T) = k
    BY <2>1, LastOf
  <2>3. f[T] = Step(op, f[T \ {Max(T)}], seq[Max(T)])
    BY <2>1 DEF Loop
  <2>4. f[T] = Step(op, f[1 .. (k - 1)], seq[k])
    BY <2>1, <2>2, <2>3
  <2> QED
    BY <2>4 DEF T
<1> QED
  BY <1>1, <1>2

\* A source that does not read those below when it is made.
LEMMA PlainNew ==
    ASSUME NEW chain, SlicesWhole(chain), NEW size \in Int, NEW shuffle, NEW draw
    PROVE  /\ New(SimpleDataSource(chain, size, shuffle), chain[1])
           /\ New(CsvDataSource(chain, size, shuffle, draw), chain[1])
           /\ New(CacheDataSource(chain, size, shuffle, draw), chain[1])
<1> DEFINE s == DataSource(chain, size, shuffle)
<1>1. New(s, chain[1])
  BY DataSourceNew
<1> HIDE DEF s
<1>2. New(AppendOrder(s, 0), chain[1])
  <2> DEFINE draw0 == s.appended % Cardinality(Draws)
             snapshot == [generation |-> 0, order |-> ShuffledBy(s, Identity(s.size), draw0)]
             all == Append(s.orders, snapshot)
             orders == IF Len(all) > Kept THEN Tail(all) ELSE all
             appended == s.appended + 1
  <2>1. AppendOrder(s, 0) = [s EXCEPT !.orders = orders, !.appended = appended]
    BY DEF AppendOrder
  <2> HIDE DEF orders, appended
  <2>2. New([s EXCEPT !.orders = orders, !.appended = appended], chain[1])
    BY <1>1, SetNew
  <2> QED
    BY <2>1, <2>2
<1>3. New([s EXCEPT !.order = ShuffledBy([shuffle |-> shuffle], s.order, draw)], chain[1])
  <2> DEFINE order == ShuffledBy([shuffle |-> shuffle], s.order, draw)
  <2> HIDE DEF order
  <2>1. New([s EXCEPT !.order = order], chain[1])
    BY <1>1, SetNew
  <2> QED
    BY <2>1 DEF order
<1>4. CsvDataSource(chain, size, shuffle, draw)
          = [s EXCEPT !.order = ShuffledBy([shuffle |-> shuffle], s.order, draw)]
  BY DEF CsvDataSource, s
<1>5. New(CacheDataSource(chain, size, shuffle, draw), chain[1])
  <2> DEFINE files == FilesOf(Identity(size))
             first == FileOrder(files)
             order == IF shuffle THEN DrawFileOrder(first, draw) ELSE first
  <2>1. CacheDataSource(chain, size, shuffle, draw) = [s EXCEPT !.cache = files, !.order = order]
    BY DEF CacheDataSource, s
  <2> HIDE DEF files, order
  <2>2. New([s EXCEPT !.cache = files, !.order = order], chain[1])
    BY <1>1, SetNew
  <2> QED
    BY <2>1, <2>2
<1> QED
  BY <1>2, <1>3, <1>4, <1>5 DEF SimpleDataSource, s

\* g has a source more than f.
Joined(f, g, x) == DOMAIN g = DOMAIN f \cup {x}

\* A new source on top of what is there.
LEMMA AddedExtends ==
    ASSUME NEW f, NEW g, NEW C, Builds(f, g, C), NEW x, x \notin DOMAIN f, NEW s, New(s, x)
    PROVE  Builds(f, Added(g, x, s), C) /\ Joined(g, Added(g, x, s), x)
<1> DEFINE k == Added(g, x, s)
<1>1. DOMAIN k = DOMAIN g \cup {x} /\ \A y \in DOMAIN k : k[y] = IF y = x THEN s ELSE g[y]
  BY DEF Added
<1>a. Extends(f, g) /\ Frames(f, g, C)
  BY DEF Builds
<1> HIDE DEF k
<1>2. Heap(k)
  BY <1>1, <1>a DEF Extends, Heap, New
<1>3. \A y \in DOMAIN f : k[y].closed = f[y].closed
  BY <1>1, <1>a DEF Extends
<1>4. \A y \in DOMAIN k \ DOMAIN f : ~k[y].closed
  BY <1>1, <1>a DEF Extends, New
<1>5. Extends(f, k)
  BY <1>1, <1>2, <1>3, <1>4, <1>a DEF Extends
<1>6. Frames(f, k, C)
  BY <1>1, <1>a DEF Frames, Extends
<1> QED
  BY <1>1, <1>5, <1>6 DEF k, Joined, Builds

\* The constructor of a memory cache reads a sample of what is below.
LEMMA MemoryCacheExtends ==
    ASSUME NEW first, NEW f, NEW C, Builds(first, f, C), NEW chain, Grounded(f, Tail(chain)),
           On(Tail(chain)) \subseteq C, chain[1] \notin DOMAIN first, SlicesWhole(chain),
           NEW shuffle, NEW parts
    PROVE  LET g == MemoryCache(f, chain, shuffle, parts)
           IN  Builds(first, g, C) /\ Joined(f, g, chain[1])
<1>0. Heap(f) /\ Extends(first, f)
  BY DEF Extends, Builds
<1> DEFINE below == Tail(chain)
           size == f[below[1]].size
           s == DataSource(chain, size, shuffle)
           source == [s EXCEPT !.generation = -1]
           sample == Sample(f, below, 0, parts)
           g == AfterGetData(f, below, 0, sample)
<1>1. below[1] \in DOMAIN f
  <2>1. Grounded(f, below)
    OBVIOUS
  <2> HIDE DEF below
  <2> QED
    BY <2>1, Members
<1>2. size \in Int
  BY <1>0, <1>1 DEF Heap
<1>3. New(s, chain[1])
  <2> HIDE DEF size
  <2> QED
    BY <1>2, DataSourceNew
<1>4. MemoryCache(f, chain, shuffle, parts) = Added(g, chain[1], source)
  BY DEF MemoryCache
<1> HIDE DEF s
<1>5. New(source, chain[1])
  BY <1>3, SetNew
<1> HIDE DEF source, sample
<1>6. Builds(f, g, C) /\ DOMAIN g = DOMAIN f
  BY <1>0, GetDataBuilds
<1> HIDE DEF g
<1>7. Builds(first, g, C)
  BY <1>6, BuildsTransitive
<1> DEFINE e == Added(g, chain[1], source)
<1>8. Builds(first, e, C) /\ Joined(g, e, chain[1])
  BY <1>5, <1>7, AddedExtends
<1> HIDE DEF e
<1>9. Joined(f, e, chain[1])
  BY <1>6, <1>8 DEF Joined
<1> QED
  BY <1>4, <1>8, <1>9 DEF e

\* The constructor of a file cache reads all samples of what is below.
LEMMA FileCacheExtends ==
    ASSUME NEW first, NEW f, NEW C, Builds(first, f, C), NEW chain, Grounded(f, Tail(chain)),
           On(Tail(chain)) \subseteq C, chain[1] \notin DOMAIN first, SlicesWhole(chain),
           NEW shuffle, NEW parts
    PROVE  LET g == FileCache(f, chain, shuffle, parts)
           IN  Builds(first, g, C) /\ Joined(f, g, chain[1])
<1>0. Heap(f) /\ Extends(first, f)
  BY DEF Extends, Builds
<1> DEFINE below == Tail(chain)
           n == f[below[1]].size
           seq == [k \in 1 .. n |-> k - 1]
           base == [h |-> f, samples |-> <<>>]
           op == [adding |-> FALSE, chain |-> below, parts |-> parts]
           m == IF n >= 0 THEN n ELSE 0
           loop == CHOOSE r : Loop(r, op, base, seq, m)
           all == loop[1 .. m]
           files == FilesOf(all.samples)
           order == FileOrder(files)
           s == DataSource(chain, n, shuffle)
           source == [s EXCEPT !.cache = files, !.order = order]
<1>1. n \in Int
  <2>1. Grounded(f, below)
    OBVIOUS
  <2> HIDE DEF below
  <2>2. below[1] \in DOMAIN f
    BY <2>1, Members
  <2> QED
    BY <1>0, <2>2 DEF Heap
<1>2. m \in Nat /\ 1 .. m = 1 .. n
  <2> HIDE DEF n
  <2> QED
    BY <1>1
<1>3. FileCache(f, chain, shuffle, parts) = Added(all.h, chain[1], source)
  <2> DEFINE D == DOMAIN seq
             read(g, p) == [h |-> AfterGetData(g.h, below, p, Sample(g.h, below, p, parts)),
                            samples |-> Added(g.samples, p, Sample(g.h, below, p, parts))]
             run == CHOOSE r : r = [T \in SUBSET D |->
                        IF T = {} THEN base ELSE read(r[T \ {Max(T)}], seq[Max(T)])]
  <2>1. FileCache(f, chain, shuffle, parts)
            = Added(run[D].h, chain[1],
                    [s EXCEPT !.cache = FilesOf(run[D].samples),
                              !.order = FileOrder(FilesOf(run[D].samples))])
    BY DEF FileCache, FoldLeft, MapThenFoldSet
  <2>2. D = 1 .. m
    BY <1>2
  <2>3. \A g, p : read(g, p) = Step(op, g, p)
    BY DEF Step
  <2>4. run = loop
    <3> HIDE DEF D, read, base, seq, op, m
    <3> QED
      BY <2>2, <2>3, Zenon DEF Loop
  <2> HIDE DEF D, loop, run, m
  <2> QED
    BY <2>1, <2>2, <2>4
<1>4. Loop(loop, op, base, seq, m)
  <2> HIDE DEF m, op, base, seq
  <2>1. \E r : Loop(r, op, base, seq, m)
    BY <1>2, LoopExists
  <2> QED
    BY <2>1
<1> HIDE DEF loop
<1>5. loop[1 .. 0] = base /\ \A k \in 1 .. m : loop[1 .. k] = Step(op, loop[1 .. (k - 1)], seq[k])
  <2> HIDE DEF m, op, base, seq
  <2> QED
    BY <1>2, <1>4, LoopSteps
<1>6. \A g, p : Step(op, g, p).h = AfterGetData(g.h, below, p, Sample(g.h, below, p, parts))
  BY DEF Step
<1>7. base.h = f /\ Grounded(f, below) /\ On(below) \subseteq C
  OBVIOUS
<1> HIDE DEF op, base, seq, m, below
<1> DEFINE G == {k \in Nat : k <= m => Builds(f, loop[1 .. k].h, C)
                                       /\ DOMAIN loop[1 .. k].h = DOMAIN f}
<1>8. 0 \in G
  BY <1>0, <1>5, <1>7 DEF Extends, Builds, Frames
<1>9. ASSUME NEW k \in G, k \in Nat
      PROVE  k + 1 \in G
  <2> SUFFICES ASSUME k + 1 <= m
               PROVE  Builds(f, loop[1 .. (k + 1)].h, C) /\ DOMAIN loop[1 .. (k + 1)].h = DOMAIN f
    OBVIOUS
  <2> DEFINE g == loop[1 .. k].h
             e == loop[1 .. (k + 1)].h
             p == seq[k + 1]
  <2>1. Builds(f, g, C) /\ DOMAIN g = DOMAIN f
    BY <1>2, <1>9
  <2>2. k + 1 \in 1 .. m /\ (k + 1) - 1 = k
    BY <1>2, <1>9
  <2>3. e = AfterGetData(g, below, p, Sample(g, below, p, parts))
    BY <1>5, <1>6, <2>2
  <2> HIDE DEF G, g, e, p
  <2>4. Heap(g) /\ Grounded(g, below)
    BY <1>7, <2>1, StaysGrounded DEF Extends, Builds
  <2>5. Builds(g, e, C) /\ DOMAIN e = DOMAIN g
    BY <1>7, <2>3, <2>4, GetDataBuilds
  <2>6. Builds(f, e, C)
    BY <2>1, <2>5, BuildsTransitive
  <2> QED
    BY <2>1, <2>5, <2>6 DEF e
<1>10. m \in G
  <2> HIDE DEF G
  <2>1. Nat \subseteq G
    BY <1>8, <1>9, SetByNumbers
  <2> QED
    BY <1>2, <2>1
<1>11. Builds(f, all.h, C) /\ DOMAIN all.h = DOMAIN f
  BY <1>2, <1>10
<1>12. New(source, chain[1])
  <2> HIDE DEF n, files, order
  <2>1. New(s, chain[1])
    BY <1>1, DataSourceNew
  <2> HIDE DEF s
  <2> QED
    BY <2>1, SetNew
<1> HIDE DEF all, source
<1>13. Builds(first, all.h, C)
  BY <1>11, BuildsTransitive
<1> DEFINE e == Added(all.h, chain[1], source)
<1>14. Builds(first, e, C) /\ Joined(all.h, e, chain[1])
  BY <1>12, <1>13, AddedExtends
<1> HIDE DEF e
<1>15. Joined(f, e, chain[1])
  BY <1>11, <1>14 DEF Joined
<1> QED
  BY <1>3, <1>14, <1>15 DEF e

\* The constructors.
LEMMA AddSourceExtends ==
    ASSUME NEW first, NEW f, NEW C, Builds(first, f, C), NEW chain, chain[1] \notin DOMAIN first,
           SlicesWhole(chain), On(Tail(chain)) \subseteq C, chain[1][1] \in Layers, chain[1][1] \in Leaves \/ Grounded(f, Tail(chain)),
           NEW c, c.size \in Int, NEW range, range[1] \in Int, range[2] \in Int, NEW draw
    PROVE  LET g == AddSource(f, chain, c, range, draw)
           IN  Builds(first, g, C) /\ Joined(f, g, chain[1])
<1> DEFINE l == chain[1][1]
           g == AddSource(f, chain, c, range, draw)
           Good(k) == Builds(first, k, C) /\ Joined(f, k, chain[1])
<1>1. ASSUME NEW s, New(s, chain[1]), g = Added(f, chain[1], s)
      PROVE  Good(g)
  <2> HIDE DEF g
  <2> QED
    BY <1>1, AddedExtends
<1>2. CASE l = "simple"
  <2>1. g = Added(f, chain[1], SimpleDataSource(chain, c.size, c.shuffle))
    BY <1>2 DEF AddSource
  <2> QED
    BY <1>1, <2>1, PlainNew
<1>3. CASE l \in {"csv", "concat"}
  <2>1. g = Added(f, chain[1], CsvDataSource(chain, c.size, c.shuffle, draw))
    BY <1>3 DEF AddSource
  <2> QED
    BY <1>1, <2>1, PlainNew
<1>4. CASE l = "cache"
  <2>1. g = Added(f, chain[1], CacheDataSource(chain, c.size, c.shuffle, draw))
    BY <1>4 DEF AddSource
  <2> QED
    BY <1>1, <2>1, PlainNew
<1>5. CASE l = "file"
  <2>1. g = FileCache(f, chain, c.shuffle, c.parts)
    BY <1>5 DEF AddSource
  <2>2. Grounded(f, Tail(chain))
    BY <1>5 DEF Leaves
  <2>3. Good(g)
    <3> HIDE DEF g
    <3> QED
      BY <2>1, <2>2, FileCacheExtends
  <2> QED
    BY <2>3
<1>6. CASE l \in {"memory", "spilled"}
  <2>1. g = MemoryCache(f, chain, c.shuffle, c.parts)
    BY <1>6 DEF AddSource
  <2>2. Grounded(f, Tail(chain))
    BY <1>6 DEF Leaves
  <2>3. Good(g)
    <3> HIDE DEF g
    <3> QED
      BY <2>1, <2>2, MemoryCacheExtends
  <2> QED
    BY <2>3
<1>7. CASE l = "sliced"
  <2> DEFINE s == DataSource(chain, range[2] - range[1], c.shuffle)
             start == range[1]
  <2>1. g = Added(f, chain[1], [s EXCEPT !.start = start])
    BY <1>7 DEF AddSource, SlicedDataSource
  <2>2. range[2] - range[1] \in Int
    OBVIOUS
  <2>3. New(s, chain[1])
    BY <2>2, DataSourceNew
  <2> HIDE DEF s, start
  <2>4. New([s EXCEPT !.start = start], chain[1])
    BY <2>3, SetNew
  <2>5. Good(g)
    <3> HIDE DEF g, Good
    <3> QED
      BY <1>1, <2>1, <2>4
  <2> QED
    BY <2>5
<1> QED
  BY <1>2, <1>3, <1>4, <1>5, <1>6, <1>7 DEF Layers

\* All sources of a new iterator, the lowest first.
LEMMA AddAllBuilds ==
    ASSUME NEW f, Heap(f), NEW S, NEW chain \in Seq(S), NEW new \in 0 .. Len(chain),
           chain # <<>>, chain[Len(chain)][1] \in Leaves,
           \A k \in 1 .. new : chain[k][1] \in Layers /\ chain[k] \notin DOMAIN f,
           \A k \in 1 .. new : chain[k][1] = "sliced" => chain[k + 1][2] = 0,
           \A k \in new + 1 .. Len(chain) : chain[k] \in DOMAIN f,
           NEW c, c.size \in Int, NEW range, range[1] \in Int, range[2] \in Int, NEW draw
    PROVE  LET g == AddAll(f, chain, new, c, range, draw)
           IN  /\ Builds(f, g, On(chain)) /\ Grounded(g, chain)
               /\ \A x \in DOMAIN g : x \in DOMAIN f \/ \E j \in 1 .. new : x = chain[j]
<1> DEFINE L == Len(chain)
           seq == [j \in 1 .. new |-> new + 1 - j]
           op == [adding |-> TRUE, chain |-> chain, conf |-> c, range |-> range, draw |-> draw]
           loop == CHOOSE r : Loop(r, op, f, seq, new)
<1>1. L \in Nat \ {0} /\ new \in Nat /\ new <= L
  BY EmptySeq
<1>2. AddAll(f, chain, new, c, range, draw) = loop[1 .. new]
  <2> DEFINE D == DOMAIN seq
             add(g, k) == AddSource(g, SubSeq(chain, k, Len(chain)), c, range, draw[chain[k][1]])
             run == CHOOSE r : r = [T \in SUBSET D |->
                        IF T = {} THEN f ELSE add(r[T \ {Max(T)}], seq[Max(T)])]
  <2>1. AddAll(f, chain, new, c, range, draw) = run[D]
    BY DEF AddAll, FoldLeft, MapThenFoldSet
  <2>2. D = 1 .. new
    OBVIOUS
  <2>3. \A g, k : add(g, k) = Step(op, g, k)
    BY DEF Step
  <2>4. run = loop
    <3> HIDE DEF D, add, seq, op
    <3> QED
      BY <2>2, <2>3, Zenon DEF Loop
  <2> HIDE DEF D, loop, run
  <2> QED
    BY <2>1, <2>2, <2>4
<1>3. Loop(loop, op, f, seq, new)
  <2> HIDE DEF op, seq
  <2>1. \E r : Loop(r, op, f, seq, new)
    BY <1>1, LoopExists
  <2> QED
    BY <2>1
<1> HIDE DEF loop
<1>4. loop[1 .. 0] = f
      /\ \A k \in 1 .. new : loop[1 .. k] = Step(op, loop[1 .. (k - 1)], seq[k])
  <2> HIDE DEF op, seq
  <2> QED
    BY <1>1, <1>3, LoopSteps
<1>5. \A g, k : Step(op, g, k) = AddSource(g, SubSeq(chain, k, L), c, range, draw[chain[k][1]])
  BY DEF Step
<1>6. \A k \in 1 .. new : seq[k] = new + 1 - k
  OBVIOUS
<1> HIDE DEF op, seq
<1> DEFINE Known(x) == x \in DOMAIN f \/ \E j \in 1 .. new : x = chain[j]
           C == On(chain)
           Upto(g, k) == /\ Builds(f, g, C) /\ \A j \in (new + 1 - k) .. L : chain[j] \in DOMAIN g
                         /\ \A x \in DOMAIN g : Known(x)
           G == {k \in Nat : k <= new => Upto(loop[1 .. k], k)}
<1>7. 0 \in G
  <2>1. Builds(f, f, C)
    BY DEF Extends, Builds, Frames
  <2>2. loop[1 .. 0] = f
    BY <1>4
  <2>3. \A j \in (new + 1 - 0) .. L : chain[j] \in DOMAIN f
    BY <1>1
  <2>4. Upto(f, 0)
    BY <2>1, <2>3
  <2> HIDE DEF Upto
  <2>5. 0 \in Nat /\ Upto(loop[1 .. 0], 0)
    BY <2>2, <2>4
  <2> QED
    BY <2>5
<1>8. ASSUME NEW k \in G, k \in Nat
      PROVE  k + 1 \in G
  <2> SUFFICES ASSUME k + 1 <= new
               PROVE  Upto(loop[1 .. (k + 1)], k + 1)
    OBVIOUS
  <2> DEFINE g == loop[1 .. k]
             e == loop[1 .. (k + 1)]
             p == new - k
             sub == SubSeq(chain, p, L)
  <2>1. /\ Builds(f, g, C) /\ \A j \in (p + 1) .. L : chain[j] \in DOMAIN g
        /\ \A x \in DOMAIN g : Known(x)
    <3>1. k <= new /\ new + 1 - k = p + 1
      BY <1>1, <1>8
    <3> QED
      BY <1>8, <3>1
  <2>2. k + 1 \in 1 .. new /\ (k + 1) - 1 = k /\ new + 1 - (k + 1) = p /\ p \in 1 .. new
        /\ p \in 1 .. L
    BY <1>1, <1>8
  <2>3. e = AddSource(g, sub, c, range, draw[chain[p][1]])
    BY <1>4, <1>5, <1>6, <2>2
  <2>4. sub[1] = chain[p] /\ Tail(sub) = SubSeq(chain, p + 1, L)
    <3>1. \A j \in p .. L : chain[j] \in S
      BY <2>2, ElementOfSeq
    <3>2. \A j \in 1 .. L - p + 1 : SubSeq(chain, p, L)[j] = chain[p + j - 1]
      BY <1>1, <2>2, <3>1, SubSeqProperties
    <3>3. 1 \in 1 .. L - p + 1 /\ p + 1 - 1 = p
      BY <1>1, <2>2
    <3>4. Tail(sub) = SubSeq(chain, p + 1, L)
      <4>1. p \in 1 .. L /\ L \in p .. L
        BY <1>1, <2>2
      <4> HIDE DEF p
      <4>2. Tail(SubSeq(chain, p, L)) = SubSeq(chain, p + 1, L)
        BY ONLY chain \in Seq(S), <4>1, HeadTailOfSubSeq
      <4> QED
        BY <4>2
    <3> QED
      BY <3>2, <3>3, <3>4
  <2>5. p < L => Grounded(g, Tail(sub))
    <3> SUFFICES ASSUME p < L PROVE Grounded(g, SubSeq(chain, p + 1, L))
      BY <2>4
    <3> DEFINE t == SubSeq(chain, p + 1, L)
               q == p + 1
    <3>1. q \in Int /\ L \in Int /\ q <= L /\ \A j \in q .. L : chain[j] \in DOMAIN g
      BY <1>1, <2>1, <2>2
    <3> HIDE DEF q, g
    <3>2. /\ SubSeq(chain, q, L) \in Seq(DOMAIN g) /\ Len(SubSeq(chain, q, L)) = L - q + 1
          /\ \A j \in 1 .. L - q + 1 : SubSeq(chain, q, L)[j] = chain[q + j - 1]
      BY <3>1, SubSeqProperties
    <3>3. L - q + 1 \in 1 .. L - q + 1 /\ q + (L - q + 1) - 1 = L
      BY <3>1
    <3>4. t \in Seq(DOMAIN g) /\ t[Len(t)] = chain[L] /\ Len(t) # 0
      BY <3>1, <3>2, <3>3 DEF q
    <3>5. t # <<>>
      BY <3>4, EmptySeq
    <3> QED
      BY <3>4, <3>5 DEF Grounded
  <2>6. sub[1] \notin DOMAIN f /\ sub[1][1] \in Layers
    BY <2>2, <2>4
  <2>7. sub[1][1] \in Leaves \/ Grounded(g, Tail(sub))
    BY <1>1, <2>2, <2>4, <2>5
  <2>a. On(Tail(sub)) \subseteq C
    <3> DEFINE q == p + 1
               T == SubSeq(chain, q, L)
    <3>0. Tail(sub) = T
      BY <2>4
    <3>1. q \in Int /\ L \in Int /\ p \in 1 .. L /\ DOMAIN chain = 1 .. L
      BY <1>1, <2>2, LenProperties
    <3> HIDE DEF p
    <3>2. \A j \in q .. L : chain[j] \in C
      BY <3>1 DEF On
    <3> HIDE DEF q, C
    <3>3. T \in Seq(C)
      BY <3>1, <3>2, SubSeqProperties
    <3> HIDE DEF T
    <3>4. \A j \in DOMAIN T : T[j] \in C
      BY <3>3, LenProperties, ElementOfSeq
    <3> QED
      BY <3>0, <3>4, Zenon DEF On
  <2>b. SlicesWhole(sub)
    <3>1. SUFFICES ASSUME chain[p][1] = "sliced" PROVE sub[2][2] = 0
      BY <2>4 DEF SlicesWhole
    <3>2. chain[p + 1][2] = 0 /\ p # L
      BY <2>2, <3>1 DEF Leaves
    <3>3. \A j \in p .. L : chain[j] \in S
      BY <2>2, ElementOfSeq
    <3>4. \A j \in 1 .. L - p + 1 : SubSeq(chain, p, L)[j] = chain[p + j - 1]
      BY <1>1, <2>2, <3>3, SubSeqProperties
    <3>5. 2 \in 1 .. L - p + 1 /\ p + 2 - 1 = p + 1
      BY <1>1, <2>2, <3>2
    <3> QED
      BY <3>2, <3>4, <3>5
  <2> HIDE DEF G, g, e, sub, p
  <2>8. Builds(f, e, C) /\ Joined(g, e, sub[1])
    <3> HIDE DEF C
    <3> QED
      BY <2>1, <2>3, <2>6, <2>7, <2>a, <2>b, AddSourceExtends
  <2>9. \A j \in p .. L : chain[j] \in DOMAIN e
    <3>1. \A j \in p .. L : j = p \/ j \in p + 1 .. L
      BY <1>1, <2>2
    <3> QED
      BY <2>1, <2>4, <2>8, <3>1 DEF Joined
  <2>10. \A x \in DOMAIN e : Known(x)
    BY <2>1, <2>2, <2>4, <2>8 DEF Joined
  <2> HIDE DEF Known
  <2> QED
    BY <2>2, <2>8, <2>9, <2>10 DEF e
<1>9. new \in G
  <2> HIDE DEF G
  <2>1. Nat \subseteq G
    BY <1>7, <1>8, SetByNumbers
  <2> QED
    BY <1>1, <2>1
<1>10. /\ Builds(f, loop[1 .. new], C) /\ \A j \in 1 .. L : chain[j] \in DOMAIN loop[1 .. new]
       /\ \A x \in DOMAIN loop[1 .. new] : Known(x)
  <2>1. new + 1 - new = 1
    BY <1>1
  <2> QED
    BY <1>1, <1>9, <2>1
<1> DEFINE g == loop[1 .. new]
<1>11. chain \in Seq(DOMAIN g)
  <2> HIDE DEF g
  <2>1. L \in Int /\ 1 \in Int /\ SubSeq(chain, 1, L) = chain
    BY <1>1, SubSeqFull
  <2>2. \A j \in 1 .. L : chain[j] \in DOMAIN g
    BY <1>10 DEF g
  <2>3. SubSeq(chain, 1, L) \in Seq(DOMAIN g)
    BY <2>1, <2>2, SubSeqProperties
  <2> QED
    BY <2>1, <2>3
<1> QED
  BY <1>2, <1>10, <1>11 DEF Grounded

\* What closing needs to know of it.
LEMMA AddAllExtends ==
    ASSUME NEW f, Heap(f), NEW S, NEW chain \in Seq(S), NEW new \in 0 .. Len(chain),
           chain # <<>>, chain[Len(chain)][1] \in Leaves,
           \A k \in 1 .. new : chain[k][1] \in Layers /\ chain[k] \notin DOMAIN f,
           \A k \in 1 .. new : chain[k][1] = "sliced" => chain[k + 1][2] = 0,
           \A k \in new + 1 .. Len(chain) : chain[k] \in DOMAIN f,
           NEW c, c.size \in Int, NEW range, range[1] \in Int, range[2] \in Int, NEW draw
    PROVE  LET g == AddAll(f, chain, new, c, range, draw)
           IN  /\ Extends(f, g) /\ Grounded(g, chain)
               /\ \A x \in DOMAIN g : x \in DOMAIN f \/ \E j \in 1 .. new : x = chain[j]
BY AddAllBuilds DEF Builds

-----------------------------------------------------------------------------
(* No thread reads a closed source. *)

\* What an iterator puts on top of the sources it is made of.
LEMMA OwnSources ==
    ASSUME conf \in Scenarios, NEW i
    PROVE  /\ Own(i) \in Seq(Layers \X {i})
           /\ i = 0 => Own(i) # <<>> /\ Own(i)[Len(Own(i))][1] \in Leaves
<1> DEFINE stack == IF i = 0 THEN conf.stack ELSE conf.sliceStack
           n == Len(stack)
<1>1. stack \in Seq(Layers)
  BY StackAssumption
<1>2. n \in Nat /\ DOMAIN stack = 1 .. n /\ \A k \in 1 .. n : stack[k] \in Layers
  BY <1>1, LenProperties, ElementOfSeq
<1>3. Own(i) = [k \in DOMAIN stack |-> <<stack[k], i>>]
  BY DEF Own
<1>4. i = 0 => n # 0 /\ stack[n] \in Leaves
  BY StackAssumption, EmptySeq
<1> HIDE DEF stack, n
<1>5. Own(i) \in [1 .. n -> Layers \X {i}]
  BY <1>2, <1>3
<1>6. Own(i) \in Seq(Layers \X {i})
  BY <1>2, <1>5, SeqDef
<1>7. Len(Own(i)) = n
  BY <1>2, <1>5, <1>6, LenProperties
<1>8. i = 0 => Own(i) # <<>>
  BY <1>4, <1>6, <1>7, EmptySeq
<1>9. i = 0 => Own(i)[n] = <<stack[n], i>>
  BY <1>2, <1>3, <1>4
<1> QED
  BY <1>4, <1>6, <1>7, <1>8, <1>9

\* A chain: the iterator's own sources, and those of the iterator it is a slice of.
LEMMA ChainOf ==
    ASSUME conf \in Scenarios, NEW i
    PROVE  LET n == Len(Own(i))
               chain == Chain(i)
           IN  /\ chain \in Seq(Layers \X {i, 0}) /\ chain # <<>>
               /\ n \in 0 .. Len(chain) /\ chain[Len(chain)][1] \in Leaves
               /\ \A k \in 1 .. n : chain[k] \in Layers \X {i} /\ chain[k] = Own(i)[k]
               /\ \A k \in n + 1 .. Len(chain) :
                      \E j \in 1 .. Len(Own(0)) : chain[k] = Own(0)[j]
<1> DEFINE S == Layers \X {i, 0}
           s == Own(i)
           t == Own(0)
<1>1. s \in Seq(Layers \X {i}) /\ t \in Seq(Layers \X {0}) /\ t # <<>> /\ t[Len(t)][1] \in Leaves
  BY OwnSources
<1>2. s \in Seq(S) /\ t \in Seq(S)
  <2>1. Layers \X {i} \subseteq S /\ Layers \X {0} \subseteq S
    OBVIOUS
  <2> HIDE DEF s, t, S
  <2> QED
    BY <1>1, <2>1, SeqMonotonic
<1>3. Len(s) \in Nat /\ Len(t) \in Nat \ {0}
  BY <1>1, EmptySeq, LenProperties
<1>4. \A k \in 1 .. Len(s) : s[k] \in Layers \X {i}
  BY <1>1, ElementOfSeq
<1>5. CASE i = 0
  <2>1. Chain(i) = s /\ s = t
    BY <1>5 DEF Chain
  <2> HIDE DEF s, t, S
  <2>2. Len(s) \in 0 .. Len(s) /\ Len(s) + 1 .. Len(s) = {}
    BY <1>3
  <2> QED
    BY <1>1, <1>2, <1>4, <2>1, <2>2 DEF s, t, S
<1>6. CASE i # 0
  <2>1. Chain(i) = s \o t
    BY <1>6 DEF Chain
  <2> DEFINE c == s \o t
  <2> HIDE DEF s, t, S
  <2>2. /\ c \in Seq(S) /\ Len(c) = Len(s) + Len(t)
        /\ \A k \in 1 .. Len(s) + Len(t) : c[k] = IF k <= Len(s) THEN s[k] ELSE t[k - Len(s)]
    BY <1>2, ConcatProperties
  <2> HIDE DEF c
  <2>3. \A k \in 1 .. Len(s) : c[k] = s[k]
    BY <1>3, <2>2
  <2>4. \A k \in Len(s) + 1 .. Len(c) : k - Len(s) \in 1 .. Len(t) /\ c[k] = t[k - Len(s)]
    BY <1>3, <2>2
  <2>5. Len(c) \in Len(s) + 1 .. Len(c) /\ Len(c) - Len(s) = Len(t) /\ Len(s) \in 0 .. Len(c)
        /\ Len(c) # 0
    BY <1>3, <2>2
  <2>6. c[Len(c)] = t[Len(t)]
    BY <2>4, <2>5
  <2>7. c # <<>>
    BY <2>2, <2>5, EmptySeq
  <2> QED
    BY <1>1, <1>4, <2>1, <2>2, <2>3, <2>4, <2>5, <2>6, <2>7 DEF c, s, t, S
<1> QED
  BY <1>5, <1>6

\* Only slice() makes slices, which stand on the sources of the iterator that is sliced.
LEMMA SliceIsLast ==
    ASSUME conf \in Scenarios, NEW i, NEW k \in 1 .. Len(Own(i)), Chain(i)[k][1] = "sliced"
    PROVE  i # 0 /\ Chain(i)[k + 1][2] = 0
<1> DEFINE stack == IF i = 0 THEN conf.stack ELSE conf.sliceStack
           chain == Chain(i)
           n == Len(Own(i))
<1>1. /\ stack \in Seq(Layers) /\ Own(i) = [m \in DOMAIN stack |-> <<stack[m], i>>]
      /\ Own(i) \in Seq(Layers \X {i})
  BY OwnSources, StackAssumption DEF Own
<1>2. DOMAIN stack = 1 .. Len(stack) /\ Len(stack) \in Nat /\ DOMAIN Own(i) = 1 .. n /\ n \in Nat
  <2> HIDE DEF stack
  <2> QED
    BY <1>1, LenProperties
<1>3. n = Len(stack)
  <2>1. 1 .. n = 1 .. Len(stack)
    BY <1>1, <1>2
  <2>2. \A a, b \in Nat : (\A m \in 1 .. a : m \in 1 .. b) => a <= b
    OBVIOUS
  <2> HIDE DEF n, stack
  <2>3. n <= Len(stack) /\ Len(stack) <= n
    BY <1>2, <2>1, <2>2
  <2>4. \A a, b \in Nat : a <= b /\ b <= a => a = b
    OBVIOUS
  <2> QED
    BY <1>2, <2>3, <2>4, Zenon
<1>4. /\ chain[k] = Own(i)[k] /\ n \in 0 .. Len(chain) /\ Len(chain) \in Nat
      /\ chain[Len(chain)][1] \in Leaves
      /\ \A m \in n + 1 .. Len(chain) : \E j \in 1 .. Len(Own(0)) : chain[m] = Own(0)[j]
  <2>1. chain \in Seq(Layers \X {i, 0})
    BY ChainOf
  <2> QED
    BY <2>1, ChainOf, LenProperties
<1>5. stack[k] = "sliced"
  BY <1>1, <1>2, <1>3, <1>4
<1>6. i # 0
  <2> SUFFICES ASSUME i = 0 PROVE FALSE
    OBVIOUS
  <2>1. conf.stack \in Seq(Layers \ {"sliced"}) /\ stack = conf.stack
    BY StackAssumption
  <2> HIDE DEF stack
  <2>2. stack[k] \in Layers \ {"sliced"}
    BY <1>2, <1>3, <2>1, ElementOfSeq
  <2> QED
    BY <1>5, <2>2
<1>7. k = n
  <2>1. k \in DOMAIN conf.sliceStack => (conf.sliceStack[k] = "sliced" <=> k = Len(conf.sliceStack))
    BY StackAssumption
  <2> QED
    BY <1>2, <1>3, <1>5, <1>6, <2>1
<1>8. k # Len(chain)
  BY <1>1, <1>2, <1>3, <1>4, <1>5 DEF Leaves
<1>9. k + 1 \in n + 1 .. Len(chain)
  BY <1>2, <1>4, <1>7, <1>8
<1>10. PICK j \in 1 .. Len(Own(0)) : chain[k + 1] = Own(0)[j]
  BY <1>4, <1>9
<1>11. Own(0)[j] \in Layers \X {0}
  <2> DEFINE own == Own(0)
  <2>1. own \in Seq(Layers \X {0})
    BY OwnSources
  <2> HIDE DEF own
  <2> QED
    BY <2>1, ElementOfSeq DEF own
<1> QED
  BY <1>6, <1>10, <1>11

\* A closed source is one of an iterator that is closed, which has no thread at work and is
\* not called any more, and neither are those that read its sources.
Quiet ==
    /\ Inv
    /\ 0 \in Made
    /\ Heap(h)
    /\ \A i \in Made : Grounded(h, Chain(i))
    /\ \A x \in DOMAIN h : x[2] \in Made /\ (h[x].closed => it[x[2]].closed)
    /\ \A i \in Made : it[i].closed => it[i].pc \in Finished /\ ~Waiting(i)
    /\ it[0].closed => \A i \in Made : it[i].closed

\* A chain depends on the scenario alone.
LEMMA SameChains ==
    ASSUME conf' = conf
    PROVE  \A i : Chain(i)' = Chain(i) /\ Own(i)' = Own(i)
BY DEF Chain, Own

\* A step of an iterator that is open and stays so.
LEMMA OpenStep ==
    ASSUME Quiet, Inv', NEW i \in Made, NEW r, it' = [it EXCEPT ![i] = r], UNCHANGED conf,
           ~it[i].closed, ~r.closed, Keeps(h, h'), main' = main \/ main'.at = i
    PROVE  Quiet'
<1>1. Made' = Made /\ it'[i] = r /\ \A j \in Made \ {i} : it'[j] = it[j]
  BY DEF Made
<1>2. Heap(h') /\ DOMAIN h' = DOMAIN h /\ \A x \in DOMAIN h : h'[x].closed = h[x].closed
  BY DEF Keeps, Extends
<1>3. ASSUME NEW j \in Made PROVE Grounded(h', Chain(j)')
  <2>1. Grounded(h, Chain(j))
    BY DEF Quiet
  <2>2. Grounded(h', Chain(j))
    BY <2>1, StaysGrounded DEF Keeps
  <2> QED
    BY <2>2, SameChains
<1>4. \A x \in DOMAIN h : x[2] \in Made /\ (h'[x].closed => it'[x[2]].closed)
  BY <1>1, <1>2 DEF Quiet
<1>5. \A j \in Made : it'[j].closed => j # i /\ it'[j] = it[j] /\ it[j].closed
  BY <1>1
<1>6. \A j \in Made : it'[j].closed => it'[j].pc \in Finished /\ ~Waiting(j)'
  BY <1>5 DEF Quiet, Waiting
<1>7. ~it[0].closed /\ ~it'[0].closed
  BY <1>1, <1>5 DEF Quiet
<1>8. (\A j \in Made : Grounded(h, Chain(j)))' /\ (0 \in Made)'
  BY <1>1, <1>3 DEF Quiet
<1> QED
  BY <1>1, <1>2, <1>4, <1>6, <1>7, <1>8 DEF Quiet

\* An iterator at work is open.
LEMMA WorkingIsOpen ==
    ASSUME Quiet, NEW i \in Made, it[i].pc \in Working
    PROVE  ~it[i].closed
<1>1. it[i].closed => it[i].pc \in Finished
  BY Zenon DEF Quiet
<1> QED
  BY <1>1 DEF Working, Finished, Failures, InLoop

\* A step in the loop of _next, or out of it, leaves alone what next() and close() write.
Untouched(r, s) ==
    /\ DOMAIN s = Fields
    /\ s.closed = r.closed /\ s.failures = r.failures /\ s.delivered = r.delivered
    /\ s.epoch = r.epoch /\ s.ended = r.ended

\* So do all the parts of such a step.
LEMMA PartsKeep ==
    ASSUME NEW r, DOMAIN r = Fields
    PROVE  /\ \A data, resets : Untouched(r, PutIn(r, data, resets))
           /\ \A pc : Untouched(r, [r EXCEPT !.pc = pc])
           /\ Untouched(r, WithReset(r))
           /\ \A given, batch : Untouched(r, [r EXCEPT !.read = @ + 1, !.given = given,
                                                       !.batch = batch, !.seen = NothingSeen])
<1>1. \A data, resets : Untouched(r, PutIn(r, data, resets))
  BY DEF Untouched, PutIn, Fields
<1>2. \A pc : Untouched(r, [r EXCEPT !.pc = pc])
  BY DEF Untouched, Fields
<1>3. Untouched(r, WithReset(r))
  BY DEF Untouched, WithReset, Fields
<1>4. \A given, batch : Untouched(r, [r EXCEPT !.read = @ + 1, !.given = given,
                                                !.batch = batch, !.seen = NothingSeen])
  BY DEF Untouched, Fields
<1> QED
  BY <1>1, <1>2, <1>3, <1>4

\* One after the other.
LEMMA UntouchedTwice ==
    ASSUME NEW r, NEW s, NEW t, Untouched(r, s), Untouched(s, t)
    PROVE  Untouched(r, t)
BY DEF Untouched

\* Going on with the loop.
LEMMA ContinuedKeeps ==
    ASSUME NEW r, DOMAIN r = Fields
    PROVE  Untouched(r, Continued(r))
<1>1. Continued(r) \in {[r EXCEPT !.pc = "item"], [r EXCEPT !.pc = "order"],
                        PutIn(r, r.batch, r.resets)}
  BY DEF Continued
<1>2. /\ \A data, resets : Untouched(r, PutIn(r, data, resets))
      /\ \A pc : Untouched(r, [r EXCEPT !.pc = pc])
  BY PartsKeep
<1> QED
  BY <1>1, <1>2

\* The whole steps.
LEMMA LoopKeeps ==
    ASSUME NEW r, DOMAIN r = Fields
    PROVE  /\ Untouched(r, Continued(WithReset(r)))
           /\ Untouched(r, [WithReset(r) EXCEPT !.pc = "fill"])
           /\ \A generation, sample, wraps : Untouched(r, WithSample(r, generation, sample, wraps))
<1>1. Untouched(r, WithReset(r)) /\ DOMAIN WithReset(r) = Fields
  BY PartsKeep DEF Untouched
<1>2. Untouched(r, Continued(WithReset(r)))
  BY <1>1, ContinuedKeeps, UntouchedTwice
<1>3. Untouched(r, [WithReset(r) EXCEPT !.pc = "fill"])
  BY <1>1, PartsKeep, UntouchedTwice
<1>4. ASSUME NEW generation, NEW sample, NEW wraps
      PROVE  Untouched(r, WithSample(r, generation, sample, wraps))
  <2> DEFINE given == r.given \cup {<<generation, sample>>}
             batch == Append(r.batch, sample)
             s == [r EXCEPT !.read = @ + 1, !.given = given, !.batch = batch,
                            !.seen = NothingSeen]
  <2>1. Untouched(r, s) /\ DOMAIN s = Fields
    <3> HIDE DEF given, batch
    <3> QED
      BY PartsKeep DEF Untouched
  <2>2. WithSample(r, generation, sample, wraps)
            = IF wraps THEN [s EXCEPT !.pc = "reset"] ELSE Continued(s)
    BY DEF WithSample
  <2> HIDE DEF s
  <2>3. Untouched(s, [s EXCEPT !.pc = "reset"]) /\ Untouched(s, Continued(s))
    BY <2>1, PartsKeep, ContinuedKeeps
  <2> QED
    BY <2>1, <2>2, <2>3, UntouchedTwice
<1> QED
  BY <1>2, <1>3, <1>4

\* What the thread and next() do to an iterator leaves it open.
LEMMA StaysOpen ==
    ASSUME NEW r, DOMAIN r = Fields, ~r.closed
    PROVE  /\ \A data, resets : ~PutIn(r, data, resets).closed
           /\ \A i : ~Started(r, i).closed
           /\ \A generation, sample, wraps : ~WithSample(r, generation, sample, wraps).closed
           /\ ~WithoutSample(r).closed
<1>1. \A data, resets : ~PutIn(r, data, resets).closed
  BY PartsKeep DEF Untouched
<1>2. ASSUME NEW i PROVE ~Started(r, i).closed
  BY DEF Started, Fields
<1>3. \A generation, sample, wraps : ~WithSample(r, generation, sample, wraps).closed
  BY LoopKeeps DEF Untouched
<1>4. ~WithoutSample(r).closed
  <2> DEFINE s == [r EXCEPT !.read = @ + 1, !.failures = @ + 1]
  <2>1. DOMAIN s = Fields /\ ~s.closed
    BY DEF Fields
  <2>2. WithoutSample(r) = PutIn(s, <<>>, 0)
    BY DEF WithoutSample
  <2> HIDE DEF s
  <2> QED
    BY <2>1, <2>2, PartsKeep DEF Untouched
<1> QED
  BY <1>1, <1>2, <1>3, <1>4

\* The thread reads, resets and draws; it closes nothing.
LEMMA QuietThread ==
    ASSUME Quiet, Inv', NEW i \in Made, Thread(i)
    PROVE  Quiet'
<1> DEFINE R == it[i]
           chain == Chain(i)
<1>1. DOMAIN R = Fields /\ Heap(h) /\ Grounded(h, chain)
  BY DEF Quiet, Inv, Sound
<1>2. Keeps(h, h)
  BY <1>1 DEF Keeps, Extends
<1>3. UNCHANGED <<conf, main>>
  BY DEF Thread, Check, BeginRead, Compare, LoadFile, NameFile, ReadItem, Reset, Fill,
         ReadNothing, PastEnd, OutOfStep, Torn, Mutated, ApplyOrder, GenerateOrder
<1>4. R.pc \in Working
  BY DEF Thread, Check, BeginRead, Compare, LoadFile, NameFile, ReadItem, Reset, Fill,
         ReadNothing, PastEnd, OutOfStep, Torn, Mutated, ApplyOrder, GenerateOrder,
         MayRead, Reading, Working, InLoop
<1>5. ~R.closed
  BY <1>4, WorkingIsOpen
<1>6. \A pc : ~[R EXCEPT !.pc = pc].closed
  BY <1>1, <1>5 DEF Fields
<1>7. \A pc, seen : ~[R EXCEPT !.pc = pc, !.seen = seen].closed
  BY <1>1, <1>5 DEF Fields
<1>8. ASSUME NEW r, it' = [it EXCEPT ![i] = r], ~r.closed, Keeps(h, h')
      PROVE  Quiet'
  BY <1>3, <1>5, <1>8, OpenStep
<1>9. /\ \A data, resets : ~PutIn(R, data, resets).closed
      /\ \A generation, sample, wraps : ~WithSample(R, generation, sample, wraps).closed
      /\ ~WithoutSample(R).closed
  BY <1>1, <1>5, StaysOpen
<1>10. CASE Check(i)
  <2> DEFINE r == IF Exhausted(i) THEN PutIn(R, <<>>, 0) ELSE [R EXCEPT !.pc = "item"]
  <2>1. it' = [it EXCEPT ![i] = r] /\ h' = h
    BY <1>10 DEF Check
  <2>2. ~r.closed
    BY <1>6, <1>9
  <2> HIDE DEF r
  <2> QED
    BY <1>2, <1>8, <2>1, <2>2
<1>11. CASE BeginRead(i)
  <2>1. /\ h' = h
        /\ \E pc, seen : /\ pc \in {"scan", "compare", "read"}
                         /\ it' = [it EXCEPT ![i] = [it[i] EXCEPT !.pc = pc, !.seen = seen]]
    BY <1>11, Begins
  <2>2. PICK pc, seen : it' = [it EXCEPT ![i] = [R EXCEPT !.pc = pc, !.seen = seen]]
    BY Zenon, <2>1
  <2> QED
    BY <1>2, <1>7, <1>8, <2>1, <2>2
<1>12. CASE ReadItem(i)
  <2>1. PICK level, sample, generation, wraps :
            /\ h' = AfterNext(h, chain, level, sample)
            /\ it' = [it EXCEPT ![i] = WithSample(R, generation, sample, wraps)]
    BY <1>12 DEF ReadItem
  <2>2. Keeps(h, h')
    BY <1>1, <2>1, NextExtends
  <2> DEFINE r == WithSample(R, generation, sample, wraps)
  <2>3. ~r.closed /\ it' = [it EXCEPT ![i] = r]
    BY <1>9, <2>1
  <2> HIDE DEF r
  <2> QED
    BY <1>8, <2>2, <2>3
<1>19. CASE Compare(i) \/ Torn(i)
  <2>1. (\E pc : it' = [it EXCEPT ![i] = [R EXCEPT !.pc = pc]]) /\ h' = h
    BY <1>19 DEF Compare, Torn
  <2> QED
    BY <1>2, <1>6, <1>8, <2>1
<1>20. CASE LoadFile(i) \/ NameFile(i)
  <2> DEFINE x == Leaf(i)
             file == R.seen.file
  <2>1. PICK s \in {[h[x] EXCEPT !.held = file], [h[x] EXCEPT !.named = file]} :
            h' = [h EXCEPT ![x] = s]
    BY <1>20 DEF LoadFile, NameFile
  <2>2. x \in DOMAIN h
    BY <1>1, Members DEF Leaf
  <2> HIDE DEF file, x
  <2>3. Keeps(h, h')
    BY <1>1, <2>1, <2>2, FileKnown
  <2>4. \E pc : it' = [it EXCEPT ![i] = [R EXCEPT !.pc = pc]]
    BY <1>20 DEF LoadFile, NameFile
  <2> QED
    BY <1>6, <1>8, <2>3, <2>4
<1>21. CASE Reset(i)
  <2>1. PICK draw : h' = AfterReset(h, chain, draw)
    BY <1>21 DEF Reset
  <2>2. Keeps(h, h')
    BY <1>1, <2>1, ResetExtends
  <2>3. PICK r \in {Continued(WithReset(R)), [WithReset(R) EXCEPT !.pc = "fill"]} :
            it' = [it EXCEPT ![i] = r]
    BY <1>21 DEF Reset
  <2>4. Untouched(R, r)
    <3> HIDE DEF R
    <3>1. /\ Untouched(R, Continued(WithReset(R)))
          /\ Untouched(R, [WithReset(R) EXCEPT !.pc = "fill"])
      BY <1>1, LoopKeeps
    <3> QED
      BY <2>3, <3>1
  <2>5. ~r.closed
    BY <1>5, <2>4 DEF Untouched
  <2> QED
    BY <1>8, <2>2, <2>3, <2>5
<1>22. CASE Fill(i)
  <2>1. PICK draw : h' = AfterFill(h, chain, draw)
    BY <1>22 DEF Fill
  <2>2. Keeps(h, h')
    BY <1>1, <2>1, FillBuilds
  <2>3. it' = [it EXCEPT ![i] = Continued(R)]
    BY <1>22 DEF Fill
  <2>4. ~Continued(R).closed
    BY <1>1, <1>5, ContinuedKeeps DEF Untouched
  <2> QED
    BY <1>8, <2>2, <2>3, <2>4
<1>13. CASE ReadNothing(i)
  <2>1. PICK level : /\ h' = AfterNext(h, chain, level, NoData)
                     /\ it' = [it EXCEPT ![i] = WithoutSample(R)]
    BY <1>13 DEF ReadNothing
  <2>2. Keeps(h, h')
    BY <1>1, <2>1, NextExtends
  <2> QED
    BY <1>8, <1>9, <2>1, <2>2
<1>14. CASE PastEnd(i)
  <2>1. it' = [it EXCEPT ![i] = [R EXCEPT !.pc = "past end"]] /\ h' = h
    BY <1>14 DEF PastEnd
  <2> QED
    BY <1>2, <1>6, <1>8, <2>1
<1>15. CASE OutOfStep(i)
  <2>1. it' = [it EXCEPT ![i] = [R EXCEPT !.pc = "out of step"]] /\ h' = h
    BY <1>15 DEF OutOfStep
  <2> QED
    BY <1>2, <1>6, <1>8, <2>1
<1>16. CASE Mutated(i)
  <2>1. it' = [it EXCEPT ![i] = [R EXCEPT !.pc = "mutated"]] /\ h' = h
    BY <1>16 DEF Mutated
  <2> QED
    BY <1>2, <1>6, <1>8, <2>1
<1>17. CASE ApplyOrder(i)
  <2>1. h' = AfterApplyOrder(h, chain)
    BY <1>17 DEF ApplyOrder
  <2>2. Keeps(h, h')
    BY <1>1, <2>1, ApplyOrderExtends
  <2>3. \/ it' = [it EXCEPT ![i] = PutIn(R, R.batch, R.resets)]
        \/ \E seen : it' = [it EXCEPT ![i] = [R EXCEPT !.pc = "append", !.seen = seen]]
    BY <1>17 DEF ApplyOrder
  <2>4. ASSUME NEW seen, it' = [it EXCEPT ![i] = [R EXCEPT !.pc = "append", !.seen = seen]]
        PROVE  Quiet'
    BY <1>7, <1>8, <2>2, <2>4
  <2>5. CASE it' = [it EXCEPT ![i] = PutIn(R, R.batch, R.resets)]
    BY <1>8, <1>9, <2>2, <2>5
  <2> QED
    BY <2>3, <2>4, <2>5
<1>18. CASE GenerateOrder(i)
  <2>1. PICK x \in Generator(h, chain) : h' = [h EXCEPT ![x] = AppendOrder(@, h[Top(i)].generation)]
    BY <1>18 DEF GenerateOrder
  <2>2. x \in DOMAIN h
    BY <1>1, GeneratorIn
  <2>3. Keeps(h, h')
    BY <1>1, <2>1, <2>2, AppendOrderExtends
  <2>4. it' = [it EXCEPT ![i] = PutIn(R, R.batch, R.resets)]
    BY <1>18 DEF GenerateOrder
  <2> QED
    BY <1>8, <1>9, <2>3, <2>4
<1> QED
  BY <1>10, <1>11, <1>12, <1>13, <1>14, <1>15, <1>16, <1>17, <1>18, <1>19, <1>20, <1>21,
     <1>22 DEF Thread

\* next() is not called of a closed iterator, and goes on with an open one.
LEMMA QuietCall ==
    ASSUME Quiet, Inv', NEW i \in Made, Call(i) \/ Return(i)
    PROVE  Quiet'
<1> DEFINE R == it[i]
<1>1. DOMAIN R = Fields /\ Heap(h)
  BY DEF Quiet, Inv, Sound
<1>2. Keeps(h, h') /\ UNCHANGED conf
  BY <1>1 DEF Keeps, Extends, Call, Return, Take, StopIteration, Retry, TakeRetried
<1>3. main'.at = i /\ ~R.closed
  <2>1. CASE Call(i)
    BY <2>1 DEF Call
  <2>2. CASE Return(i)
    <3>1. main.pc # "idle" /\ main.at = i /\ main'.at = i
      BY <2>2 DEF Return, Take, StopIteration, Retry, TakeRetried, Inv, MainOK, Quiet
    <3> QED
      BY <3>1 DEF Quiet, Waiting
  <2> QED
    BY <2>1, <2>2
<1>4. ASSUME NEW r, it' = [it EXCEPT ![i] = r], ~r.closed
      PROVE  Quiet'
  BY <1>2, <1>3, <1>4, OpenStep
<1>5. CASE Call(i)
  <2> DEFINE r == IF Threaded(i) THEN R ELSE Started(R, i)
  <2>1. it' = [it EXCEPT ![i] = r]
    BY <1>5 DEF Call
  <2>2. ~r.closed
    BY <1>1, <1>3, StaysOpen
  <2> HIDE DEF r
  <2> QED
    BY <1>4, <2>1, <2>2
<1>6. ASSUME NEW s, DOMAIN s = Fields, ~s.closed,
             it' = [it EXCEPT ![i] = IF Threaded(i) THEN Started(s, i) ELSE s]
      PROVE  Quiet'
  <2> DEFINE r == IF Threaded(i) THEN Started(s, i) ELSE s
  <2>1. ~r.closed /\ it' = [it EXCEPT ![i] = r]
    BY <1>6, StaysOpen
  <2> HIDE DEF r
  <2> QED
    BY <1>4, <2>1
<1>7. CASE Take(i) \/ TakeRetried(i)
  <2> DEFINE got == Head(R.queue)
             s == [R EXCEPT !.queue = Tail(@), !.delivered = @ \o got.data,
                            !.epoch = @ + got.resets]
  <2>1. it' = [it EXCEPT ![i] = IF Threaded(i) THEN Started(s, i) ELSE s]
    BY <1>7 DEF Take, TakeRetried, Taken
  <2>2. DOMAIN s = Fields /\ ~s.closed
    BY <1>1, <1>3 DEF Fields
  <2> HIDE DEF s
  <2> QED
    BY <1>6, <2>1, <2>2
<1>8. CASE StopIteration(i)
  <2> DEFINE s == [R EXCEPT !.queue = Tail(@), !.ended = TRUE]
  <2>1. it' = [it EXCEPT ![i] = s]
    BY <1>8 DEF StopIteration
  <2>2. ~s.closed
    BY <1>1, <1>3 DEF Fields
  <2> HIDE DEF s
  <2> QED
    BY <1>4, <2>1, <2>2
<1>9. CASE Retry(i)
  <2> DEFINE s == [R EXCEPT !.queue = Tail(@)]
  <2>1. it' = [it EXCEPT ![i] = IF Threaded(i) THEN Started(s, i) ELSE s]
    BY <1>9 DEF Retry, Again
  <2>2. DOMAIN s = Fields /\ ~s.closed
    BY <1>1, <1>3 DEF Fields
  <2> HIDE DEF s
  <2> QED
    BY <1>6, <2>1, <2>2
<1> QED
  BY <1>5, <1>7, <1>8, <1>9 DEF Return

\* The bounds of a slice are numbers, and it may have no sample at all.
LEMMA BoundsInt ==
    ASSUME conf \in Scenarios, NEW i \in Int
    PROVE  Bounds(i)[1] \in Int /\ Bounds(i)[2] \in Int /\ Size(i) \in Nat
<1> DEFINE size == conf.size
           slices == conf.slices
           rank == i - 1
           part == IF conf.dropLast THEN size \div slices ELSE (size + slices - 1) \div slices
           start == (part * rank) % size
           over == Max({0, start + part - size})
<1>1. size \in Nat \ {0} /\ slices \in Nat \ {0} /\ rank \in Int
  BY StackAssumption
<1>2. part \in Nat
  <2>1. \A a \in Nat : a \div slices \in Nat
    BY <1>1
  <2>2. size \in Nat /\ size + slices - 1 \in Nat
    BY <1>1
  <2> HIDE DEF size, slices
  <2> QED
    BY <2>1, <2>2
<1> HIDE DEF part
<1>3. part * rank \in Int
  <2>1. \A a, b \in Int : a * b \in Int
    OBVIOUS
  <2> HIDE DEF rank
  <2> QED
    BY <1>1, <1>2, <2>1
<1>4. start \in Int
  <2> DEFINE a == part * rank
  <2> HIDE DEF a, size
  <2>1. a \in Int
    BY <1>3 DEF a
  <2>2. a % size \in Int
    BY <1>1, <2>1
  <2> QED
    BY <2>2 DEF a
<1> HIDE DEF start
<1>5. over \in Int
  <2> DEFINE x == start + part - size
  <2>1. x \in Int
    BY <1>1, <1>2, <1>4
  <2> HIDE DEF x
  <2>2. \E m \in {0, x} : \A k \in {0, x} : m >= k
    <3>1. CASE x >= 0
      BY <2>1, <3>1
    <3>2. CASE ~(x >= 0)
      BY <2>1, <3>2
    <3> QED
      BY <3>1, <3>2
  <2>3. Max({0, x}) \in {0, x}
    BY <2>2 DEF Max
  <2> QED
    BY <2>1, <2>3 DEF x
<1> HIDE DEF over
<1>6. CASE i = 0
  <2>1. Bounds(i) = <<0, size>>
    BY <1>6 DEF Bounds
  <2> QED
    BY <1>1, <2>1 DEF Size
<1>7. CASE i # 0
  <2>1. Bounds(i) = IF conf.dropLast THEN <<part * rank, part * rank + part>>
                    ELSE <<start - over, start + part - over>>
    BY <1>7 DEF Bounds, SliceRange, part, start, over
  <2> DEFINE a == part * rank
  <2>2. Bounds(i) = IF conf.dropLast THEN <<a, a + part>> ELSE <<start - over, start + part - over>>
    BY <2>1
  <2>3. a \in Int
    BY <1>3
  <2> HIDE DEF a
  <2> QED
    BY <1>2, <1>4, <1>5, <2>2, <2>3 DEF Size
<1> QED
  BY <1>6, <1>7

\* A new iterator is open.
LEMMA NewIsOpen ==
    ASSUME NEW i
    PROVE  DOMAIN NewIterator(i) = Fields /\ ~NewIterator(i).closed
<1> DEFINE r == [pc |-> "done", batch |-> <<>>, resets |-> 0, seen |-> NothingSeen, queue |-> <<>>,
                 epoch |-> 0, ended |-> FALSE, closed |-> FALSE,
                 delivered |-> <<>>, given |-> {}, read |-> 0, failures |-> 0]
<1>1. DOMAIN r = Fields /\ ~r.closed
  BY DEF Fields
<1>2. NewIterator(i) = IF Threaded(i) THEN Started(r, i) ELSE r
  BY DEF NewIterator
<1> HIDE DEF r
<1>3. DOMAIN Started(r, i) = Fields
  BY <1>1 DEF Started
<1> QED
  BY <1>1, <1>2, <1>3, StaysOpen

\* A new iterator and its sources are open, and what it reads is.
LEMMA QuietSlice ==
    ASSUME Quiet, Inv', NEW i \in conf.ranks, Slice(i)
    PROVE  Quiet'
<1> DEFINE chain == Chain(i)
           n == Len(Own(i))
<1>1. PICK draw : h' = AfterReset(AddAll(h, chain, n, conf, Bounds(i), draw), chain, draw)
  BY DEF Slice
<1> DEFINE g == AddAll(h, chain, n, conf, Bounds(i), draw)
<1>2. /\ i \notin Made /\ ~it[0].closed /\ main.pc = "idle" /\ UNCHANGED <<conf, main>>
      /\ \E r \in {NewIterator(i), [NewIterator(i) EXCEPT !.pc = "fill"]} :
            it' = [j \in Made \cup {i} |-> IF j = i THEN r ELSE it[j]]
  BY DEF Slice
<1>3. conf \in Scenarios /\ Heap(h) /\ 0 \in Made /\ Grounded(h, Chain(0))
  BY DEF Quiet, Inv
<1>4. i \in Nat \ {0} /\ conf.size \in Int
  BY <1>3, StackAssumption
<1>5. Bounds(i)[1] \in Int /\ Bounds(i)[2] \in Int
  BY <1>3, <1>4, BoundsInt
<1>6. /\ chain \in Seq(Layers \X {i, 0}) /\ chain # <<>>
      /\ n \in 0 .. Len(chain) /\ chain[Len(chain)][1] \in Leaves
      /\ \A k \in 1 .. n : chain[k] \in Layers \X {i} /\ chain[k] = Own(i)[k]
      /\ \A k \in n + 1 .. Len(chain) : \E j \in 1 .. Len(Own(0)) : chain[k] = Own(0)[j]
  BY <1>3, ChainOf
<1>7. \A k \in n + 1 .. Len(chain) : chain[k] \in DOMAIN h
  <2>1. Chain(0) = Own(0)
    BY DEF Chain
  <2>2. \A j \in 1 .. Len(Own(0)) : Own(0)[j] \in DOMAIN h
    BY <1>3, <2>1, Members
  <2> HIDE DEF chain, n
  <2> QED
    BY <1>6, <2>2
<1>8. \A k \in 1 .. n : chain[k][1] \in Layers /\ chain[k][2] = i /\ chain[k] \notin DOMAIN h
  <2>1. \A x \in DOMAIN h : x[2] # i
    BY <1>2 DEF Quiet
  <2> HIDE DEF chain, n
  <2> QED
    BY <1>6, <2>1
<1>a. \A k \in 1 .. n : chain[k][1] = "sliced" => chain[k + 1][2] = 0
  BY <1>3, SliceIsLast
<1>9. /\ Extends(h, g) /\ Grounded(g, chain)
      /\ \A x \in DOMAIN g : x \in DOMAIN h \/ \E j \in 1 .. n : x = chain[j]
  <2> DEFINE S == Layers \X {i, 0}
             b == Bounds(i)
  <2>1. chain \in Seq(S)
    BY <1>6
  <2> HIDE DEF chain, n, S, b
  <2>2. /\ Extends(h, AddAll(h, chain, n, conf, b, draw))
        /\ Grounded(AddAll(h, chain, n, conf, b, draw), chain)
        /\ \A x \in DOMAIN AddAll(h, chain, n, conf, b, draw) :
               x \in DOMAIN h \/ \E j \in 1 .. n : x = chain[j]
    <3>1. b[1] \in Int /\ b[2] \in Int
      BY <1>5 DEF b
    <3>2. /\ Heap(h) /\ n \in 0 .. Len(chain) /\ chain # <<>>
          /\ chain[Len(chain)][1] \in Leaves /\ conf.size \in Int
          /\ \A k \in 1 .. n : chain[k][1] \in Layers /\ chain[k] \notin DOMAIN h
          /\ \A k \in 1 .. n : chain[k][1] = "sliced" => chain[k + 1][2] = 0
          /\ \A k \in n + 1 .. Len(chain) : chain[k] \in DOMAIN h
      BY <1>3, <1>4, <1>6, <1>7, <1>8, <1>a
    <3> QED
      BY ONLY <3>1, <3>2, <2>1, AddAllExtends
  <2> QED
    BY <2>2 DEF b
<1> HIDE DEF g
<1>10. Keeps(g, h')
  BY <1>1, <1>9, ResetExtends DEF g, Extends
<1>11. Extends(h, h') /\ DOMAIN h' = DOMAIN g
  BY <1>9, <1>10, ExtendsTransitive DEF Keeps
<1>12. Grounded(h', chain)
  BY <1>9, <1>10, StaysGrounded DEF Keeps
<1>13. /\ Made' = Made \cup {i} /\ \A j \in Made : it'[j] = it[j]
       /\ it'[i] \in {NewIterator(i), [NewIterator(i) EXCEPT !.pc = "fill"]}
  BY <1>2 DEF Made
<1>14. ~it'[i].closed
  <2>1. DOMAIN NewIterator(i) = Fields /\ ~NewIterator(i).closed
    BY NewIsOpen
  <2> DEFINE u == NewIterator(i)
  <2> HIDE DEF u
  <2>2. Untouched(u, [u EXCEPT !.pc = "fill"])
    BY <2>1, PartsKeep DEF u
  <2> QED
    BY <1>13, <2>1, <2>2 DEF Untouched, u
<1>15. ASSUME NEW j \in Made \cup {i} PROVE Grounded(h', Chain(j)')
  <2>1. Chain(j)' = Chain(j)
    BY <1>2, SameChains
  <2>2. CASE j = i
    BY <1>12, <2>1, <2>2
  <2>3. CASE j \in Made
    <3>1. Grounded(h, Chain(j))
      BY <2>3 DEF Quiet
    <3>2. Grounded(h', Chain(j))
      BY <1>11, <3>1, StaysGrounded
    <3> QED
      BY <2>1, <3>2
  <2> QED
    BY <2>2, <2>3
<1> HIDE DEF n
<1>16. ASSUME NEW x \in DOMAIN h'
       PROVE  x[2] \in Made \cup {i} /\ (h'[x].closed => it'[x[2]].closed)
  <2>1. CASE x \in DOMAIN h
    <3>1. x[2] \in Made /\ (h[x].closed => it[x[2]].closed)
      BY <2>1 DEF Quiet
    <3>2. h'[x].closed = h[x].closed
      BY <1>11, <2>1 DEF Extends
    <3> QED
      BY <1>13, <3>1, <3>2
  <2>2. CASE x \notin DOMAIN h
    <3>1. \E j \in 1 .. n : x = chain[j]
      BY <1>9, <1>11, <2>2
    <3>2. x[2] = i /\ ~h'[x].closed
      BY <1>8, <1>11, <2>2, <3>1 DEF Extends
    <3> QED
      BY <3>2
  <2> QED
    BY <2>1, <2>2
<1>17. \A j \in Made : it'[j].closed => it'[j].pc \in Finished /\ ~Waiting(j)'
  BY <1>2, <1>13 DEF Quiet, Waiting
<1>18. (\A j \in Made : Grounded(h, Chain(j)))' /\ Heap(h')
  BY <1>11, <1>13, <1>15 DEF Extends
<1>19. ~it'[0].closed /\ 0 \in Made'
  BY <1>2, <1>3, <1>13
<1>20. \A j \in Made' : it'[j].closed => it'[j].pc \in Finished /\ ~Waiting(j)'
  BY <1>13, <1>14, <1>17
<1> QED
  BY <1>13, <1>16, <1>18, <1>19, <1>20 DEF Quiet

\* close() comes after the thread, and for the iterator that was sliced after the slices.
LEMMA QuietClose ==
    ASSUME Quiet, Inv', NEW i \in Made, Close(i)
    PROVE  Quiet'
<1> DEFINE r == [it[i] EXCEPT !.closed = TRUE]
           closing == {Own(i)[k] : k \in DOMAIN Own(i)}
           g == [x \in closing |-> [h[x] EXCEPT !.closed = TRUE]]
<1>1. /\ main.pc = "idle" /\ it[i].pc \in Finished /\ UNCHANGED <<conf, main>>
      /\ i = 0 => \A j \in Made \ {0} : it[j].closed
      /\ it' = [it EXCEPT ![i] = r]
      /\ h' = CloseAll(h, closing)
  BY DEF Close, Slices
<1>2. conf \in Scenarios /\ Heap(h) /\ 0 \in Made /\ Grounded(h, Chain(i)) /\ DOMAIN it[i] = Fields
  BY DEF Quiet, Inv, Sound
<1>3. \A x \in closing : x \in DOMAIN h /\ x[2] = i
  <2>1. Own(i) \in Seq(Layers \X {i})
    BY <1>2, OwnSources
  <2>2. DOMAIN Own(i) = 1 .. Len(Own(i)) /\ Len(Own(i)) \in Nat
    BY <2>1, LenProperties
  <2>3. /\ Len(Own(i)) \in 0 .. Len(Chain(i))
        /\ \A k \in 1 .. Len(Own(i)) : Chain(i)[k] \in Layers \X {i} /\ Chain(i)[k] = Own(i)[k]
    BY <1>2, ChainOf
  <2>4. Len(Chain(i)) \in Nat /\ \A k \in 1 .. Len(Chain(i)) : Chain(i)[k] \in DOMAIN h
    BY <1>2, Members
  <2>5. \A k \in 1 .. Len(Own(i)) : Own(i)[k] \in DOMAIN h /\ Own(i)[k][2] = i
    BY <2>2, <2>3, <2>4
  <2> QED
    BY <2>2, <2>5
<1>4. h' = Changed(h, g)
  BY <1>1 DEF CloseAll
<1> HIDE DEF closing
<1>5. /\ DOMAIN h' = DOMAIN h
      /\ \A x \in DOMAIN h : h'[x] = IF x \in closing THEN [h[x] EXCEPT !.closed = TRUE] ELSE h[x]
  BY <1>3, <1>4 DEF Changed
<1>6. Heap(h')
  <2>1. ASSUME NEW x \in DOMAIN h
        PROVE  /\ DOMAIN h'[x] = SourceFields /\ h'[x].layer = x[1] /\ h'[x].size \in Int
               /\ OnWhole(h'[x], x)
    BY <1>2, <1>5 DEF Heap, SourceFields, OnWhole, Below
  <2> QED
    BY <1>5, <2>1 DEF Heap
<1>7. /\ Made' = Made /\ it'[i] = r /\ \A j \in Made \ {i} : it'[j] = it[j]
      /\ r.closed /\ r.pc = it[i].pc
  BY <1>1, <1>2 DEF Made, Fields
<1> HIDE DEF r
<1>8. ASSUME NEW x \in DOMAIN h
      PROVE  x[2] \in Made /\ (h'[x].closed => it'[x[2]].closed)
  <2>1. x[2] \in Made /\ (h[x].closed => it[x[2]].closed)
    BY DEF Quiet
  <2>2. CASE x[2] = i
    BY <1>7, <2>1, <2>2
  <2>3. CASE x[2] # i
    BY <1>3, <1>5, <1>7, <2>1, <2>3
  <2> QED
    BY <2>2, <2>3
<1>9. ASSUME NEW j \in Made PROVE Grounded(h', Chain(j)')
  <2>1. Grounded(h, Chain(j))
    BY DEF Quiet
  <2>2. Grounded(h', Chain(j))
    BY <1>5, <2>1 DEF Grounded
  <2> QED
    BY <1>1, <2>2, SameChains
<1>10. \A j \in Made : it'[j].closed => it'[j].pc \in Finished /\ ~Waiting(j)'
  BY <1>1, <1>7 DEF Quiet, Waiting
<1>11. it'[0].closed => \A j \in Made : it'[j].closed
  BY <1>1, <1>2, <1>7 DEF Quiet
<1>12. (\A j \in Made : Grounded(h, Chain(j)))'
  BY <1>7, <1>9
<1> QED
  BY <1>2, <1>5, <1>6, <1>7, <1>8, <1>10, <1>11, <1>12 DEF Quiet

\* The sources the first iterator is built of.
LEMMA QuietInit == Init => Quiet
<1> SUFFICES ASSUME Init
             PROVE  Quiet
  OBVIOUS
<1>1. Inv
  BY InvInit
<1> DEFINE chain == Own(0)
           n == Len(chain)
           f == <<>>
           b == <<0, 0>>
<1>2. PICK draw :
        h = AfterFill(AfterReset(AddAll(f, chain, n, conf, b, draw), chain, draw), chain, draw)
  BY DEF Init
<1>3. /\ conf \in Scenarios /\ it = [i \in {0} |-> NewIterator(i)]
      /\ main = [pc |-> "idle", at |-> 0]
  BY DEF Init
<1>4. /\ chain \in Seq(Layers \X {0}) /\ chain # <<>> /\ chain[n][1] \in Leaves
      /\ Chain(0) = chain
  BY <1>3, OwnSources DEF Chain
<1>5. n \in Nat \ {0} /\ \A k \in 1 .. n : chain[k] \in Layers \X {0}
  <2> HIDE DEF chain
  <2> QED
    BY <1>4, EmptySeq, ElementOfSeq
<1>a. \A k \in 1 .. n : chain[k][1] = "sliced" => chain[k + 1][2] = 0
  BY <1>3, <1>4, SliceIsLast
<1>6. Heap(f) /\ DOMAIN f = {} /\ b[1] \in Int /\ b[2] \in Int /\ conf.size \in Int
  BY <1>3, StackAssumption DEF Heap
<1> DEFINE g == AddAll(f, chain, n, conf, b, draw)
<1>7. /\ Extends(f, g) /\ Grounded(g, chain)
      /\ \A x \in DOMAIN g : x \in DOMAIN f \/ \E j \in 1 .. n : x = chain[j]
  <2>1. n \in 0 .. n /\ n + 1 .. n = {}
    BY <1>5
  <2> HIDE DEF f, b, chain
  <2> QED
    <3>1. /\ Heap(f) /\ n \in 0 .. n /\ chain \in Seq(Layers \X {0}) /\ chain # <<>>
          /\ chain[n][1] \in Leaves /\ conf.size \in Int /\ b[1] \in Int /\ b[2] \in Int
          /\ \A k \in 1 .. n : chain[k][1] \in Layers /\ chain[k] \notin DOMAIN f
          /\ \A k \in 1 .. n : chain[k][1] = "sliced" => chain[k + 1][2] = 0
          /\ \A k \in n + 1 .. n : chain[k] \in DOMAIN f
      BY <1>4, <1>5, <1>6, <1>a, <2>1
    <3> QED
      BY ONLY <3>1, AddAllExtends
<1> HIDE DEF g
<1> DEFINE e == AfterReset(g, chain, draw)
<1>b. Keeps(g, e)
  BY <1>7, ResetExtends DEF Extends
<1> HIDE DEF e
<1>c. Heap(e) /\ Grounded(e, chain)
  BY <1>7, <1>b, StaysGrounded DEF Keeps, Extends
<1>8. Keeps(g, h)
  <2>1. h = AfterFill(e, chain, draw)
    BY <1>2 DEF e, g
  <2>2. Keeps(e, h)
    BY <1>c, <2>1, FillBuilds
  <2> QED
    BY <1>b, <2>2, ExtendsTransitive DEF Keeps
<1>9. Grounded(h, Chain(0)) /\ Heap(h)
  BY <1>4, <1>7, <1>8, StaysGrounded DEF Keeps, Extends
<1> HIDE DEF f, chain
<1>10. \A x \in DOMAIN h : x[2] = 0 /\ ~h[x].closed
  BY <1>5, <1>6, <1>7, <1>8 DEF Keeps, Extends
<1>11. Made = {0} /\ it[0] = NewIterator(0)
  BY <1>3 DEF Made
<1>12. ~it[0].closed
  BY <1>11, NewIsOpen
<1> QED
  BY <1>1, <1>9, <1>10, <1>11, <1>12 DEF Quiet

\* Every step keeps it.
LEMMA QuietNext == Quiet /\ [Next]_vars => Quiet'
<1> SUFFICES ASSUME Quiet, [Next]_vars
             PROVE  Quiet'
  OBVIOUS
<1>1. Inv'
  BY InvNext DEF Quiet
<1>2. ASSUME NEW i \in Made, Thread(i) \/ Call(i) \/ Return(i) \/ Close(i)
      PROVE  Quiet'
  BY <1>1, <1>2, QuietThread, QuietCall, QuietClose
<1>3. ASSUME NEW i \in conf.ranks, Slice(i)
      PROVE  Quiet'
  BY <1>1, <1>3, QuietSlice
<1>4. CASE UNCHANGED vars
  <2>1. conf' = conf /\ h' = h /\ it' = it /\ main' = main
    BY <1>4 DEF vars
  <2>2. \A i : Chain(i)' = Chain(i)
    BY <2>1, SameChains
  <2>3. (\A i \in Made : Grounded(h, Chain(i)))'
    BY <2>1, <2>2 DEF Quiet, Made
  <2> QED
    BY <1>1, <2>1, <2>3 DEF Quiet, Made, Waiting
<1> QED
  BY <1>2, <1>3, <1>4 DEF Next

\* No thread reads a source that was closed: close() joins the thread first, and the program
\* closes the slices before the iterator they are slices of (DataIterator.close).
THEOREM ClosedHolds == Spec => []ClosedIsQuiet
<1>1. Quiet => ClosedIsQuiet
  <2> SUFFICES ASSUME Quiet, NEW i \in Made, it[i].pc \notin Finished, NEW k \in DOMAIN Chain(i),
                      h[Chain(i)[k]].closed
               PROVE  FALSE
    BY DEF ClosedIsQuiet
  <2> DEFINE x == Chain(i)[k]
  <2>1. x \in DOMAIN h
    BY Members DEF Quiet
  <2>2. it[x[2]].closed /\ ~it[i].closed /\ ~it[0].closed
    BY <2>1 DEF Quiet
  <2>3. x[2] \in {i, 0}
    <3>1. Chain(i) \in Seq(Layers \X {i, 0})
      BY ChainOf DEF Quiet, Inv
    <3>2. DOMAIN Chain(i) = 1 .. Len(Chain(i))
      BY <3>1, LenProperties
    <3>3. x \in Layers \X {i, 0}
      BY <3>1, <3>2, ElementOfSeq
    <3> QED
      BY <3>3
  <2> QED
    BY <2>2, <2>3
<1> QED
  BY <1>1, QuietInit, QuietNext, PTL DEF Spec

-----------------------------------------------------------------------------
(***************************************************************************)
(* What the caller sees of an iterator whose loads succeed: batch after    *)
(* batch, the epochs as they are delivered, and the end.  The thread is a  *)
(* batch ahead of the caller, so the invariant counts what was drawn from  *)
(* the data source, wherever it is now, against where the source stands.   *)
(***************************************************************************)

QueuedResets(q) == IF q = <<>> THEN 0 ELSE Head(q).resets

\* Samples drawn and epochs ended, those the caller does not know of yet included.
Drawn(r) == Len(r.delivered) + Queued(r.queue) + Len(r.batch)
Epochs(r) == r.epoch + QueuedResets(r.queue) + r.resets

\* A source of n samples that is asked for the one at p; at the end it is reset, unless the
\* iterator stops there.
Tally(r, n, p, stop) ==
    /\ r.resets \in Nat /\ r.epoch \in Nat /\ QueuedResets(r.queue) \in Nat
    /\ p \in Nat /\ p <= n
    /\ stop => Epochs(r) = 0 /\ Drawn(r) = p
    /\ ~stop => Drawn(r) = n * Epochs(r) + p

\* Where the source stands: it is at the end only until it is reset, and an iterator that stops
\* begins a batch only when there is one.
Stands(r, b, n, p, stop) ==
    /\ stop => /\ r.pc \notin {"reset", "fill"}
               /\ r.pc \in InLoop => p + b <= n + Len(r.batch)
    /\ ~stop => IF r.pc = "reset" THEN p = n ELSE p < n

\* A batch is b samples, or none when less than that is left.
Counts(r, b, n, p, stop) ==
    /\ Tally(r, n, p, stop)
    /\ Stands(r, b, n, p, stop)
    /\ r.pc \in {"done", "check"} => r.resets = 0
    /\ r.pc \in {"order", "append"} => Len(r.batch) = b
    /\ r.queue # <<>> => \/ Len(Head(r.queue).data) = b
                         \/ Head(r.queue).data = <<>> /\ stop /\ p + b > n
    /\ r.ended => /\ stop /\ p + b > n /\ r.pc \in {"done", "check"}
                  /\ r.queue # <<>> => Head(r.queue).data = <<>>

\* What is put is what is got.
LEMMA QueueHead ==
    ASSUME NEW data, NEW resets
    PROVE  LET q == Append(<<>>, [data |-> data, resets |-> resets])
           IN  q # <<>> /\ Head(q).data = data /\ Head(q).resets = resets /\ Tail(q) = <<>>
<1> DEFINE e == [data |-> data, resets |-> resets]
<1>1. e.data = data /\ e.resets = resets
  OBVIOUS
<1> HIDE DEF e
<1>2. <<>> \in Seq({e})
  BY EmptySeq
<1>3. Append(<<>>, e) # <<>> /\ Head(Append(<<>>, e)) = e /\ Tail(Append(<<>>, e)) = <<>>
  BY <1>2, AppendProperties, HeadTailAppend
<1> QED
  BY <1>1, <1>3 DEF e

\* Lengths are numbers.
LEMMA Lengths ==
    ASSUME NEW r, NEW b, Sound(r, b)
    PROVE  Len(r.delivered) \in Nat /\ Queued(r.queue) \in Nat /\ Len(r.batch) \in Nat
BY SequenceLen DEF Sound, Single, Queued

\* A step that only moves on in _next.
LEMMA CountsMove ==
    ASSUME NEW r, NEW s, NEW b, NEW n, NEW p, NEW stop, Counts(r, b, n, p, stop), ~r.ended,
           \A f \in Fields \ {"pc", "seen"} : s[f] = r[f],
           r.pc # "reset", s.pc \notin {"done", "check", "reset", "fill"},
           s.pc \in {"order", "append"} => Len(r.batch) = b,
           s.pc \in InLoop /\ stop => p + b <= n + Len(r.batch)
    PROVE  Counts(s, b, n, p, stop)
<1>1. /\ s.resets = r.resets /\ s.epoch = r.epoch /\ s.queue = r.queue
      /\ s.delivered = r.delivered /\ s.batch = r.batch /\ s.ended = r.ended
  BY DEF Fields
<1>2. Epochs(s) = Epochs(r) /\ Drawn(s) = Drawn(r)
  BY <1>1, Zenon DEF Epochs, Drawn
<1>3. Tally(s, n, p, stop)
  BY <1>1, <1>2, Zenon DEF Counts, Tally
<1>4. Stands(s, b, n, p, stop)
  BY <1>1, Zenon DEF Counts, Stands
<1> QED
  BY <1>1, <1>3, <1>4, Zenon DEF Counts

\* The thread starts on the next batch.
LEMMA CountsStarted ==
    ASSUME NEW r, NEW b, NEW n, NEW p, NEW i, Counts(r, b, n, p, StopExhausted(i)),
           DOMAIN r = Fields, r.pc = "done"
    PROVE  Counts(Started(r, i), b, n, p, StopExhausted(i))
<1> DEFINE s == Started(r, i)
           stop == StopExhausted(i)
<1>1. /\ s.pc = IF stop THEN "check" ELSE "item"
      /\ \A f \in Fields \ {"pc"} : s[f] = r[f]
  BY DEF Started
<1> HIDE DEF s, stop
<1>2. /\ s.resets = r.resets /\ s.epoch = r.epoch /\ s.queue = r.queue
      /\ s.delivered = r.delivered /\ s.batch = r.batch /\ s.ended = r.ended
  BY <1>1 DEF Fields
<1>3. Epochs(s) = Epochs(r) /\ Drawn(s) = Drawn(r)
  BY <1>2, Zenon DEF Epochs, Drawn
<1>4. Counts(r, b, n, p, stop)
  BY DEF stop
<1>5. Tally(s, n, p, stop)
  BY <1>2, <1>3, <1>4, Zenon DEF Counts, Tally
<1>6. r.resets = 0 /\ (r.ended => stop)
  BY <1>4 DEF Counts
<1>7. s.pc \in {"check", "item"} /\ (stop => s.pc = "check")
  BY <1>1
<1>9. Stands(s, b, n, p, stop)
  BY <1>4, <1>7 DEF Counts, Stands, InLoop
<1>8. Counts(s, b, n, p, stop)
  BY <1>2, <1>4, <1>5, <1>6, <1>7, <1>9 DEF Counts
<1> QED
  BY <1>8 DEF s, stop

\* The full batch is put, and with it the epochs that ended in it.
LEMMA CountsPut ==
    ASSUME NEW r, NEW b \in Nat \ {0}, NEW n \in Nat, NEW p, NEW stop, Tally(r, n, p, stop),
           DOMAIN r = Fields, r.queue = <<>>, ~r.ended, Sequence(r.batch),
           Sequence(r.delivered), Len(r.batch) = b, ~stop => p < n
    PROVE  Counts(PutIn(r, r.batch, r.resets), b, n, p, stop)
<1> DEFINE s == PutIn(r, r.batch, r.resets)
           q == Append(<<>>, [data |-> r.batch, resets |-> r.resets])
<1>1. /\ s.pc = "done" /\ s.batch = <<>> /\ s.resets = 0 /\ s.queue = q
      /\ s.delivered = r.delivered /\ s.epoch = r.epoch /\ s.ended = r.ended
  BY DEF PutIn, Fields
<1>2. q # <<>> /\ Head(q).data = r.batch /\ Head(q).resets = r.resets
  BY QueueHead
<1> HIDE DEF s, q
<1>3. Queued(s.queue) = b /\ QueuedResets(s.queue) = r.resets
  BY <1>1, <1>2 DEF Queued, QueuedResets
<1>4. Queued(r.queue) = 0 /\ QueuedResets(r.queue) = 0 /\ Len(s.batch) = 0
  BY <1>1, Empty DEF QueuedResets
<1>5. Len(r.delivered) \in Nat /\ r.resets \in Nat /\ r.epoch \in Nat
  BY SequenceLen DEF Tally
<1>6. Drawn(s) = Drawn(r)
  BY <1>1, <1>3, <1>4, <1>5 DEF Drawn
<1>7. Epochs(s) = Epochs(r)
  BY <1>1, <1>3, <1>4, <1>5 DEF Epochs
<1>8. Tally(s, n, p, stop)
  BY <1>1, <1>3, <1>5, <1>6, <1>7 DEF Tally
<1>10. Stands(s, b, n, p, stop)
  BY <1>1 DEF Stands, InLoop
<1>9. Counts(s, b, n, p, stop)
  BY <1>1, <1>2, <1>8, <1>10 DEF Counts
<1> QED
  BY <1>9 DEF s

\* No whole batch is left.
LEMMA CountsNone ==
    ASSUME NEW r, NEW b \in Nat \ {0}, NEW n \in Nat, NEW p, NEW stop, Counts(r, b, n, p, stop),
           Sound(r, b), r.pc = "check", stop, p + b > n
    PROVE  Counts(PutIn(r, <<>>, 0), b, n, p, stop)
<1> DEFINE s == PutIn(r, <<>>, 0)
           q == Append(<<>>, [data |-> <<>>, resets |-> 0])
<1>0. DOMAIN r = Fields /\ r.queue = <<>> /\ r.batch = <<>> /\ r.resets = 0 /\ Tally(r, n, p, stop)
  BY DEF Sound, Counts
<1>1. /\ s.pc = "done" /\ s.batch = <<>> /\ s.resets = 0 /\ s.queue = q
      /\ s.delivered = r.delivered /\ s.epoch = r.epoch /\ s.ended = r.ended
  BY <1>0 DEF PutIn, Fields
<1>2. q # <<>> /\ Head(q).data = <<>> /\ Head(q).resets = 0
  BY QueueHead
<1> HIDE DEF s, q
<1>3. Queued(s.queue) = 0 /\ QueuedResets(s.queue) = 0
  BY <1>1, <1>2, Empty DEF Queued, QueuedResets
<1>4. Queued(r.queue) = 0 /\ QueuedResets(r.queue) = 0
  BY <1>0, Empty DEF QueuedResets
<1>6. Drawn(s) = Drawn(r) /\ Epochs(s) = Epochs(r)
  BY <1>0, <1>1, <1>3, <1>4, Zenon DEF Drawn, Epochs
<1>8. Tally(s, n, p, stop)
  BY <1>0, <1>1, <1>3, <1>4, <1>6, Zenon DEF Tally
<1>10. Stands(s, b, n, p, stop)
  BY <1>1 DEF Stands, InLoop
<1>9. Counts(s, b, n, p, stop)
  BY <1>1, <1>2, <1>8, <1>10 DEF Counts
<1> QED
  BY <1>9 DEF s

\* A pass more.
LEMMA OnePassMore ==
    ASSUME NEW n \in Nat, NEW e \in Nat
    PROVE  n * e \in Nat /\ n * (e + 1) = n * e + n /\ n * 0 = 0
OBVIOUS

\* The loop goes on, or ends with a whole batch.
LEMMA CountsContinued ==
    ASSUME NEW r, NEW n \in Nat, NEW p, NEW stop, conf.batch \in Nat \ {0},
           Tally(r, n, p, stop), DOMAIN r = Fields, r.queue = <<>>, ~r.ended,
           Sequence(r.batch), Sequence(r.delivered), Len(r.batch) <= conf.batch,
           stop => p + conf.batch <= n + Len(r.batch), ~stop => p < n
    PROVE  Counts(Continued(r), conf.batch, n, p, stop)
<1> DEFINE b == conf.batch
<1>1. Len(r.batch) \in Nat
  BY SequenceLen
<1>2. ASSUME NEW pc \in {"item", "order"}, pc = "order" => Len(r.batch) = b
       PROVE  Counts([r EXCEPT !.pc = pc], b, n, p, stop)
  <2> DEFINE t == [r EXCEPT !.pc = pc]
  <2>1. t.pc = pc /\ \A f \in Fields \ {"pc"} : t[f] = r[f]
    BY DEF Fields
  <2> HIDE DEF t, b
  <2>2. /\ t.resets = r.resets /\ t.epoch = r.epoch /\ t.queue = r.queue
        /\ t.delivered = r.delivered /\ t.batch = r.batch /\ t.ended = r.ended
    BY <2>1 DEF Fields
  <2>3. Epochs(t) = Epochs(r) /\ Drawn(t) = Drawn(r)
    BY <2>2, Zenon DEF Epochs, Drawn
  <2>4. Tally(t, n, p, stop)
    BY <2>2, <2>3, Zenon DEF Tally
  <2>5. /\ t.pc \notin {"done", "check", "reset", "fill"}
        /\ t.pc \in {"order", "append"} => Len(t.batch) = b
    BY <1>2, <2>1, <2>2
  <2>6. Stands(t, b, n, p, stop)
    BY <2>2, <2>5 DEF Stands, b
  <2>7. Counts(t, b, n, p, stop)
    BY <2>2, <2>4, <2>5, <2>6, Zenon DEF Counts
  <2> QED
    BY <2>7 DEF t
<1>3. Len(r.batch) = b => Counts(PutIn(r, r.batch, r.resets), b, n, p, stop)
  BY CountsPut
<1>4. Continued(r) =
          CASE Len(r.batch) < b -> [r EXCEPT !.pc = "item"]
            [] Len(r.batch) = b /\ r.resets > 0 -> [r EXCEPT !.pc = "order"]
            [] OTHER -> PutIn(r, r.batch, r.resets)
  BY DEF Continued
<1>5. Counts([r EXCEPT !.pc = "item"], b, n, p, stop)
      /\ (Len(r.batch) = b => Counts([r EXCEPT !.pc = "order"], b, n, p, stop))
  BY <1>2
<1>6. Len(r.batch) < b \/ Len(r.batch) = b
  BY <1>1
<1> HIDE DEF b
<1> QED
  BY <1>3, <1>4, <1>5, <1>6 DEF b

\* One more sample; with the one at the end of the data the source is to be reset.
LEMMA CountsRead ==
    ASSUME NEW r, NEW n \in Nat, NEW p, NEW stop, NEW generation, NEW sample,
           NEW wraps, conf.batch \in Nat \ {0},
           Counts(r, conf.batch, n, p, stop), Sound(r, conf.batch), r.pc \in InLoop,
           wraps <=> p + 1 >= n /\ ~stop
    PROVE  Counts(WithSample(r, generation, sample, wraps), conf.batch, n, p + 1, stop)
<1> DEFINE b == conf.batch
           batch == Append(r.batch, sample)
           given == r.given \cup {<<generation, sample>>}
           s == [r EXCEPT !.read = @ + 1, !.given = given, !.batch = batch,
                          !.seen = NothingSeen]
<1>1. /\ DOMAIN r = Fields /\ r.queue = <<>> /\ Sequence(r.batch) /\ Sequence(r.delivered)
      /\ Len(r.batch) < b /\ ~r.ended /\ Tally(r, n, p, stop)
      /\ Stands(r, b, n, p, stop)
  BY DEF Sound, Counts, InLoop
<1>2. /\ DOMAIN s = Fields /\ s.batch = batch /\ s.resets = r.resets /\ s.queue = <<>> /\ ~s.ended
      /\ s.delivered = r.delivered /\ s.epoch = r.epoch
  BY <1>1 DEF Fields
<1>3. Sequence(batch) /\ Len(batch) = Len(r.batch) + 1 /\ Len(r.batch) \in Nat
      /\ Len(r.delivered) \in Nat
  BY <1>1, SequenceAppend, SequenceLen
<1>4. WithSample(r, generation, sample, wraps)
          = IF wraps THEN [s EXCEPT !.pc = "reset"] ELSE Continued(s)
  BY DEF WithSample
<1> HIDE DEF s, batch, given
<1>5. Queued(<<>>) = 0 /\ QueuedResets(<<>>) = 0
  BY Empty DEF QueuedResets
<1>6. p \in Nat /\ r.epoch \in Nat /\ r.resets \in Nat
  BY <1>1 DEF Tally
<1>7. Drawn(s) = Drawn(r) + 1 /\ Drawn(r) \in Nat
  BY <1>1, <1>2, <1>3, <1>5 DEF Drawn
<1>8. Epochs(s) = Epochs(r) /\ Epochs(r) \in Nat
  BY <1>1, <1>2, <1>5, <1>6 DEF Epochs
<1>9. p < n /\ (stop => p + b <= n + Len(r.batch)) /\ r.pc # "reset"
  <2>1. (stop => p + b <= n + Len(r.batch)) /\ (~stop => p < n) /\ r.pc # "reset"
    BY <1>1 DEF Stands, InLoop
  <2> QED
    BY <1>1, <1>3, <1>6, <2>1
<1>10. Tally(s, n, p + 1, stop)
  <2>1. p + 1 \in Nat /\ p + 1 <= n
    BY <1>6, <1>9
  <2>2. stop => Epochs(s) = 0 /\ Drawn(s) = p + 1
    BY <1>1, <1>6, <1>7, <1>8 DEF Tally
  <2>3. ASSUME ~stop PROVE Drawn(s) = n * Epochs(s) + (p + 1)
    <3>1. Drawn(r) = n * Epochs(r) + p
      BY <1>1, <2>3 DEF Tally
    <3>2. n * Epochs(r) \in Nat
      BY <1>8, OnePassMore
    <3> QED
      BY <1>6, <1>7, <1>8, <3>1, <3>2
  <2> QED
    BY <1>2, <1>5, <1>6, <2>1, <2>2, <2>3 DEF Tally
<1>11. CASE wraps
  <2> DEFINE t == [s EXCEPT !.pc = "reset"]
  <2>1. t.pc = "reset" /\ \A f \in Fields \ {"pc"} : t[f] = s[f]
    BY <1>2 DEF Fields
  <2> HIDE DEF t
  <2>2. /\ t.resets = s.resets /\ t.epoch = s.epoch /\ t.queue = s.queue
        /\ t.delivered = s.delivered /\ t.batch = s.batch /\ t.ended = s.ended
    BY <2>1 DEF Fields
  <2>3. Epochs(t) = Epochs(s) /\ Drawn(t) = Drawn(s)
    BY <2>2, Zenon DEF Epochs, Drawn
  <2>4. Tally(t, n, p + 1, stop)
    BY <1>10, <2>2, <2>3, Zenon DEF Tally
  <2>5. ~stop /\ p + 1 = n
    BY <1>6, <1>9, <1>11
  <2>6. Stands(t, b, n, p + 1, stop)
    BY <2>1, <2>5 DEF Stands
  <2>7. t.pc \notin {"done", "check", "order", "append"}
    BY <2>1
  <2>8. Counts(t, b, n, p + 1, stop)
    BY <1>2, <2>2, <2>4, <2>6, <2>7, Zenon DEF Counts
  <2> QED
    BY <1>4, <1>11, <2>8 DEF t
<1>12. CASE ~wraps
  <2>1. stop => p + 1 + b <= n + Len(batch)
    BY <1>3, <1>6, <1>9
  <2>2. ~stop => p + 1 < n
    BY <1>6, <1>12
  <2>3. Len(s.batch) <= b /\ Sequence(s.batch) /\ Sequence(s.delivered)
    BY <1>1, <1>2, <1>3
  <2>4. Counts(Continued(s), b, n, p + 1, stop)
    BY <1>2, <1>10, <2>1, <2>2, <2>3, CountsContinued
  <2> QED
    BY <1>4, <1>12, <2>4
<1> QED
  BY <1>11, <1>12

\* The reset ends an epoch, whether the order is there at once or to be filled again.
LEMMA CountsReset ==
    ASSUME NEW r, NEW n \in Nat \ {0}, NEW p, NEW stop, conf.batch \in Nat \ {0},
           Counts(r, conf.batch, n, p, stop), Sound(r, conf.batch), r.pc = "reset"
    PROVE  /\ Counts(Continued(WithReset(r)), conf.batch, n, 0, stop)
           /\ Counts([WithReset(r) EXCEPT !.pc = "fill"], conf.batch, n, 0, stop)
<1> DEFINE b == conf.batch
           s == WithReset(r)
           t == [s EXCEPT !.pc = "fill"]
<1>1. /\ DOMAIN r = Fields /\ r.queue = <<>> /\ Sequence(r.batch) /\ Sequence(r.delivered)
      /\ Len(r.batch) <= b /\ ~r.ended /\ Tally(r, n, p, stop) /\ ~stop /\ p = n
  BY DEF Sound, Counts, Stands
<1>2. /\ DOMAIN s = Fields /\ s.batch = r.batch /\ s.resets = r.resets + 1 /\ s.queue = r.queue
      /\ s.delivered = r.delivered /\ s.epoch = r.epoch /\ s.ended = r.ended
  BY <1>1 DEF WithReset, Fields
<1>3. /\ DOMAIN t = Fields /\ t.batch = s.batch /\ t.resets = s.resets /\ t.queue = s.queue
      /\ t.delivered = s.delivered /\ t.epoch = s.epoch /\ t.ended = s.ended /\ t.pc = "fill"
  BY <1>2 DEF Fields
<1> HIDE DEF s, t
<1>4. QueuedResets(r.queue) = 0 /\ r.epoch \in Nat /\ r.resets \in Nat
  BY <1>1 DEF Tally, QueuedResets
<1>5. Epochs(s) = Epochs(r) + 1 /\ Epochs(r) \in Nat /\ Drawn(s) = Drawn(r)
  BY <1>2, <1>4 DEF Epochs, Drawn
<1>6. Drawn(s) = n * Epochs(s) + 0
  <2>1. Drawn(r) = n * Epochs(r) + n
    BY <1>1 DEF Tally
  <2>2. n * Epochs(r) \in Nat /\ n * (Epochs(r) + 1) = n * Epochs(r) + n
    BY <1>5, OnePassMore
  <2> QED
    BY <1>5, <2>1, <2>2
<1>7. Tally(s, n, 0, stop)
  BY <1>1, <1>2, <1>4, <1>6 DEF Tally
<1>8. Counts(Continued(s), b, n, 0, stop)
  BY <1>1, <1>2, <1>7, CountsContinued
<1>9. Epochs(t) = Epochs(s) /\ Drawn(t) = Drawn(s)
  BY <1>3, Zenon DEF Epochs, Drawn
<1>10. Tally(t, n, 0, stop)
  BY <1>3, <1>7, <1>9, Zenon DEF Tally
<1>11. Stands(t, b, n, 0, stop)
  BY <1>1, <1>3 DEF Stands
<1>12. Counts(t, b, n, 0, stop)
  BY <1>1, <1>2, <1>3, <1>10, <1>11 DEF Counts
<1> QED
  BY <1>8, <1>12 DEF s, t

\* The order is filled again while the loop stands still.
LEMMA CountsFill ==
    ASSUME NEW r, NEW n \in Nat, NEW p, NEW stop, conf.batch \in Nat \ {0},
           Counts(r, conf.batch, n, p, stop), Sound(r, conf.batch), r.pc = "fill"
    PROVE  Counts(Continued(r), conf.batch, n, p, stop)
<1>1. /\ DOMAIN r = Fields /\ r.queue = <<>> /\ Sequence(r.batch) /\ Sequence(r.delivered)
      /\ Len(r.batch) <= conf.batch /\ ~r.ended /\ Tally(r, n, p, stop) /\ ~stop /\ p < n
  BY DEF Sound, Counts, Stands
<1> QED
  BY <1>1, CountsContinued

\* A number falls into one pass only.
LEMMA PassOf ==
    ASSUME NEW n \in Nat \ {0}, NEW e \in Nat, NEW p \in Nat, p < n
    PROVE  (n * e + p) \div n = e
<1> DEFINE x == n * e + p
           d == x \div n
           m == x % n
<1>1. x \in Nat /\ d \in Int /\ m \in Int /\ m >= 0 /\ m < n /\ x = n * d + m
  <2>1. n * e \in Nat
    BY OnePassMore
  <2>2. x \in Nat
    BY <2>1
  <2> HIDE DEF x
  <2> QED
    BY <2>2
<1>2. ASSUME NEW a \in Int, NEW c \in Int, a < c
      PROVE  n * c >= n * a + n
  <2>1. n * (a + 1) = n * a + n /\ n * (a + 1) <= n * c
    BY <1>2
  <2> QED
    BY <2>1
<1>3. n * d \in Int /\ n * e \in Int
  BY <1>1
<1>4. n * d + m = n * e + p
  BY <1>1
<1> HIDE DEF d, m, x
<1>5. ~(d < e) /\ ~(e < d)
  BY <1>1, <1>2, <1>3, <1>4
<1> QED
  BY <1>1, <1>5 DEF d, x

\* next() takes a batch: it is a whole one, within the pass of an iterator that stops, and the
\* epoch is that of the samples delivered.
LEMMA CountsTaken ==
    ASSUME NEW i \in Made, NEW b \in Nat \ {0}, NEW n \in Nat, NEW p, Sound(it[i], b),
           Counts(it[i], b, n, p, StopExhausted(i)), Ready(i), Head(it[i].queue).data # <<>>
    PROVE  LET r == Taken(i)
               passed == Len(it[i].delivered) + b
           IN  /\ Counts(r, b, n, p, StopExhausted(i))
               /\ ~it[i].ended /\ r.ended = it[i].ended /\ r.failures = it[i].failures
               /\ Len(r.delivered) = passed
               /\ StopExhausted(i) => passed <= n
               /\ r.epoch = IF StopExhausted(i) THEN 0 ELSE passed \div n
<1> DEFINE R == it[i]
           got == Head(R.queue)
           s == [R EXCEPT !.queue = Tail(@), !.delivered = @ \o got.data,
                          !.epoch = @ + got.resets]
           stop == StopExhausted(i)
           passed == Len(R.delivered) + b
<1>1. /\ DOMAIN R = Fields /\ R.pc = "done" /\ R.batch = <<>> /\ R.queue # <<>>
      /\ Tail(R.queue) = <<>> /\ Sequence(R.delivered) /\ Sequence(got.data)
  BY DEF Sound, Ready, Single
<1>2. /\ DOMAIN s = Fields /\ s.pc = "done" /\ s.batch = <<>> /\ s.queue = <<>>
      /\ s.delivered = R.delivered \o got.data /\ s.epoch = R.epoch + got.resets
      /\ s.resets = R.resets /\ s.ended = R.ended /\ s.failures = R.failures
  BY <1>1 DEF Fields
<1>3. Taken(i) = IF Threaded(i) THEN Started(s, i) ELSE s
  BY DEF Taken
<1>4. /\ Tally(R, n, p, stop) /\ R.resets = 0 /\ Len(got.data) = b /\ ~R.ended
  BY <1>1 DEF Counts
<1>5. Queued(R.queue) = b /\ QueuedResets(R.queue) = got.resets /\ got.resets \in Nat
  BY <1>1, <1>4 DEF Queued, QueuedResets, Tally
<1> HIDE DEF s, got, stop
<1>6. Queued(s.queue) = 0 /\ QueuedResets(s.queue) = 0 /\ Len(s.batch) = 0 /\ Len(R.batch) = 0
  BY <1>1, <1>2, Empty DEF QueuedResets
<1>7. Len(s.delivered) = passed /\ Len(R.delivered) \in Nat
  <2>1. Len(R.delivered \o got.data) = Len(R.delivered) + Len(got.data)
    BY <1>1, SequenceConcat
  <2>2. Len(R.delivered) \in Nat
    BY <1>1, SequenceLen
  <2> QED
    BY <1>2, <1>4, <2>1, <2>2
<1>8. R.epoch \in Nat /\ p \in Nat /\ p <= n
  BY <1>4 DEF Tally
<1>9. Drawn(s) = passed /\ Drawn(R) = passed
  BY <1>5, <1>6, <1>7 DEF Drawn
<1>10. Epochs(s) = s.epoch /\ Epochs(R) = s.epoch /\ s.epoch \in Nat
  BY <1>2, <1>4, <1>5, <1>6, <1>8 DEF Epochs
<1>11. Tally(s, n, p, stop)
  BY <1>2, <1>4, <1>6, <1>8, <1>9, <1>10 DEF Tally
<1>17. Stands(s, b, n, p, stop) /\ (~stop => p < n)
  BY <1>1, <1>2 DEF Counts, Stands, InLoop, stop
<1>12. Counts(s, b, n, p, stop)
  BY <1>2, <1>4, <1>11, <1>17 DEF Counts
<1>13. stop => passed <= n /\ s.epoch = 0
  BY <1>8, <1>9, <1>10, <1>11 DEF Tally
<1>14. ASSUME ~stop PROVE s.epoch = passed \div n
  <2>1. p < n /\ passed = n * s.epoch + p
    BY <1>9, <1>10, <1>11, <1>14, <1>17 DEF Tally
  <2>2. n # 0
    BY <1>8, <2>1
  <2> QED
    BY <1>8, <1>10, <2>1, <2>2, PassOf
<1>15. CASE Threaded(i)
  <2> DEFINE t == Started(s, i)
  <2>1. \A f \in Fields \ {"pc"} : t[f] = s[f]
    BY <1>2 DEF Started
  <2>2. Counts(t, b, n, p, stop)
    BY <1>2, <1>12, CountsStarted DEF stop
  <2>3. Taken(i) = t
    BY <1>3, <1>15
  <2> HIDE DEF t
  <2>4. /\ t.delivered = s.delivered /\ t.epoch = s.epoch /\ t.ended = s.ended
        /\ t.failures = s.failures
    BY <2>1 DEF Fields
  <2> QED
    BY <1>2, <1>4, <1>7, <1>13, <1>14, <2>2, <2>3, <2>4 DEF stop
<1>16. CASE ~Threaded(i)
  BY <1>2, <1>3, <1>4, <1>7, <1>12, <1>13, <1>14, <1>16 DEF stop
<1> QED
  BY <1>15, <1>16

\* StopIteration.
LEMMA CountsStopped ==
    ASSUME NEW r, NEW b, NEW n, NEW p, NEW stop, Sound(r, b), Counts(r, b, n, p, stop),
           r.pc = "done", r.queue # <<>>, Head(r.queue).data = <<>>, stop, b \in Nat \ {0}
    PROVE  /\ Counts([r EXCEPT !.queue = Tail(@), !.ended = TRUE], b, n, p, stop)
           /\ Len(r.delivered) + b > n
<1> DEFINE s == [r EXCEPT !.queue = Tail(@), !.ended = TRUE]
<1>1. DOMAIN r = Fields /\ Tail(r.queue) = <<>> /\ r.batch = <<>>
  BY DEF Sound, Single
<1>2. /\ s.pc = "done" /\ s.batch = r.batch /\ s.queue = <<>> /\ s.delivered = r.delivered
      /\ s.epoch = r.epoch /\ s.resets = r.resets /\ s.ended
  BY <1>1 DEF Fields
<1>3. Tally(r, n, p, stop) /\ p + b > n
  BY Empty DEF Counts
<1>4. Queued(r.queue) = 0 /\ Queued(s.queue) = 0 /\ QueuedResets(s.queue) = 0 /\ Len(r.batch) = 0
  BY <1>1, <1>2, Empty DEF Queued, QueuedResets
<1> HIDE DEF s
<1>5. Drawn(s) = Drawn(r)
  BY <1>2, <1>4, Zenon DEF Drawn
<1>6. Len(r.delivered) \in Nat /\ Drawn(r) = p /\ Epochs(r) = 0
  BY <1>3, Lengths DEF Tally
<1>7. /\ r.epoch \in Nat /\ QueuedResets(r.queue) \in Nat /\ r.resets \in Nat /\ p \in Nat /\ p <= n
      /\ r.epoch = 0
  BY <1>3, <1>6 DEF Tally, Epochs
<1>8. Epochs(s) = 0
  BY <1>2, <1>4, <1>6, <1>7 DEF Epochs
<1>9. Tally(s, n, p, stop)
  BY <1>2, <1>4, <1>5, <1>6, <1>7, <1>8 DEF Tally
<1>10. r.resets = 0
  BY DEF Counts
<1>13. Stands(s, b, n, p, stop)
  BY <1>2 DEF Stands, InLoop
<1>11. Counts(s, b, n, p, stop)
  BY <1>2, <1>3, <1>9, <1>10, <1>13 DEF Counts
<1>12. Len(r.delivered) = p
  BY <1>4, <1>6 DEF Drawn
<1> QED
  BY <1>3, <1>11, <1>12 DEF s

\* A new iterator is at the start.
LEMMA CountsNew ==
    ASSUME NEW i, NEW b \in Nat \ {0}, NEW n \in Nat \ {0}
    PROVE  LET r == NewIterator(i)
               s == [r EXCEPT !.pc = "fill"]
           IN  /\ Counts(r, b, n, 0, StopExhausted(i))
               /\ i # 0 => Counts(s, b, n, 0, StopExhausted(i))
<1> DEFINE r == [pc |-> "done", batch |-> <<>>, resets |-> 0, seen |-> NothingSeen, queue |-> <<>>,
                 epoch |-> 0, ended |-> FALSE, closed |-> FALSE,
                 delivered |-> <<>>, given |-> {}, read |-> 0, failures |-> 0]
           stop == StopExhausted(i)
           u == NewIterator(i)
           s == [u EXCEPT !.pc = "fill"]
<1>1. /\ DOMAIN r = Fields /\ r.pc = "done" /\ r.batch = <<>> /\ r.queue = <<>> /\ r.resets = 0
      /\ r.delivered = <<>> /\ r.epoch = 0 /\ ~r.ended /\ r.failures = 0
  BY DEF Fields
<1>2. u = IF Threaded(i) THEN Started(r, i) ELSE r
  BY DEF NewIterator
<1> HIDE DEF r, u, stop
<1>3. Drawn(r) = 0 /\ Epochs(r) = 0 /\ QueuedResets(r.queue) = 0
  BY <1>1, Empty DEF Drawn, Epochs, QueuedResets
<1>4. Tally(r, n, 0, stop)
  BY <1>1, <1>3, OnePassMore DEF Tally
<1>5. Stands(r, b, n, 0, stop)
  BY <1>1 DEF Stands, InLoop
<1>6. Counts(r, b, n, 0, stop)
  BY <1>1, <1>4, <1>5 DEF Counts
<1>7. Counts(Started(r, i), b, n, 0, stop)
  BY <1>1, <1>6, CountsStarted DEF stop
<1>8. Counts(u, b, n, 0, stop)
  BY <1>2, <1>6, <1>7
<1>9. DOMAIN u = Fields /\ \A f \in Fields \ {"pc"} : u[f] = r[f]
  BY <1>1, <1>2 DEF Started
<1>10. s.pc = "fill" /\ \A f \in Fields \ {"pc"} : s[f] = r[f]
  BY <1>9 DEF Fields
<1> HIDE DEF s
<1>11. /\ s.resets = r.resets /\ s.epoch = r.epoch /\ s.queue = r.queue
       /\ s.delivered = r.delivered /\ s.batch = r.batch /\ s.ended = r.ended
  BY <1>10 DEF Fields
<1>12. Epochs(s) = Epochs(r) /\ Drawn(s) = Drawn(r)
  BY <1>11, Zenon DEF Epochs, Drawn
<1>13. Tally(s, n, 0, stop)
  BY <1>4, <1>11, <1>12, Zenon DEF Tally
<1>14. i # 0 => Stands(s, b, n, 0, stop)
  BY <1>10 DEF Stands, InLoop, stop, StopExhausted
<1>15. i # 0 => Counts(s, b, n, 0, stop)
  BY <1>1, <1>10, <1>11, <1>13, <1>14 DEF Counts
<1> QED
  BY <1>8, <1>15 DEF s, u, stop

\* Nothing has been delivered yet.
LEMMA NewShows ==
    ASSUME NEW i, NEW r \in {NewIterator(i), [NewIterator(i) EXCEPT !.pc = "fill"]}
    PROVE  r.failures = 0 /\ Len(r.delivered) = 0 /\ r.epoch = 0 /\ ~r.ended
<1> DEFINE u == [pc |-> "done", batch |-> <<>>, resets |-> 0, seen |-> NothingSeen, queue |-> <<>>,
                 epoch |-> 0, ended |-> FALSE, closed |-> FALSE,
                 delivered |-> <<>>, given |-> {}, read |-> 0, failures |-> 0]
<1>1. /\ DOMAIN u = Fields /\ u.delivered = <<>> /\ u.epoch = 0 /\ u.ended = FALSE
      /\ u.failures = 0
  BY DEF Fields
<1>2. NewIterator(i) = IF Threaded(i) THEN Started(u, i) ELSE u
  BY DEF NewIterator
<1> HIDE DEF u
<1>3. DOMAIN NewIterator(i) = Fields /\ \A f \in Fields \ {"pc"} : NewIterator(i)[f] = u[f]
  BY <1>1, <1>2 DEF Started
<1>4. \A f \in Fields \ {"pc"} : r[f] = u[f]
  BY <1>3 DEF Fields
<1>5. /\ r.delivered = u.delivered /\ r.epoch = u.epoch /\ r.ended = u.ended
      /\ r.failures = u.failures
  BY <1>4 DEF Fields
<1> QED
  BY <1>1, <1>5, Empty

\* Whose loads have all succeeded; an iterator that was sliced is not called any more.
Active(i) == Served(i) /\ (i = 0 => Slices = {})

InStep(i) ==
    /\ Counts(it[i], conf.batch, Size(i), h[Top(i)].position, StopExhausted(i))
    /\ ~(main.pc = "retry" /\ main.at = i)

Tracked ==
    /\ Quiet
    /\ Made \subseteq conf.ranks \cup {0}
    /\ Slices # {} => ~Waiting(0)
    /\ \A i \in Made : Active(i) => InStep(i)

\* The scenario and who is there.
LEMMA Iterators ==
    ASSUME Tracked, NEW i \in Made
    PROVE  /\ conf \in Scenarios /\ conf.batch \in Nat \ {0} /\ i \in Nat /\ Size(i) \in Nat
           /\ Sound(it[i], conf.batch) /\ DOMAIN it[i] = Fields
           /\ i # 0 => i \in conf.ranks
           /\ Heap(h) /\ Grounded(h, Chain(i)) /\ Top(i) \in DOMAIN h /\ Top(i) \in On(Chain(i))
<1>1. conf \in Scenarios /\ Sound(it[i], conf.batch) /\ Heap(h) /\ Grounded(h, Chain(i))
  BY DEF Tracked, Quiet, Inv
<1>2. conf.batch \in Nat \ {0}
  BY <1>1, ScenarioAssumption
<1>3. (i # 0 => i \in conf.ranks) /\ i \in Nat
  BY <1>1, StackAssumption DEF Tracked
<1>4. Size(i) \in Nat
  BY <1>1, <1>3, BoundsInt
<1>5. Top(i) \in DOMAIN h /\ Top(i) \in On(Chain(i))
  BY <1>1, Members DEF Top, On
<1> QED
  BY <1>1, <1>2, <1>3, <1>4, <1>5 DEF Sound

\* A slice has a source of its own.
LEMMA OwnTop ==
    ASSUME conf \in Scenarios, NEW i \in conf.ranks
    PROVE  Top(i)[2] = i /\ i # 0
<1> DEFINE own == Own(i)
           n == Len(own)
<1>1. i # 0 /\ conf.sliceStack # <<>> /\ conf.sliceStack \in Seq(Layers)
  BY StackAssumption
<1>2. own \in Seq(Layers \X {i})
  BY OwnSources
<1>3. own # <<>>
  <2>1. DOMAIN own = DOMAIN conf.sliceStack
    BY <1>1 DEF Own
  <2>2. DOMAIN conf.sliceStack # {}
    <3>1. Len(conf.sliceStack) \in Nat \ {0} /\ DOMAIN conf.sliceStack = 1 .. Len(conf.sliceStack)
      BY <1>1, EmptySeq, LenProperties
    <3> QED
      BY <3>1
  <2> QED
    BY <2>1, <2>2
<1>4. n \in Nat \ {0}
  <2> HIDE DEF own
  <2> QED
    BY <1>2, <1>3, EmptySeq, LenProperties
<1>5. \A k \in 1 .. n : Chain(i)[k] \in Layers \X {i}
  BY ChainOf
<1> QED
  BY <1>1, <1>4, <1>5 DEF Top

\* The sources of a chain belong to the iterator or to the one it is a slice of.
LEMMA ChainMembers ==
    ASSUME conf \in Scenarios, NEW i
    PROVE  \A x \in On(Chain(i)) : x[2] \in {i, 0}
<1> DEFINE chain == Chain(i)
<1>1. chain \in Seq(Layers \X {i, 0})
  BY ChainOf
<1> HIDE DEF chain
<1>2. \A n \in DOMAIN chain : chain[n] \in Layers \X {i, 0}
  BY <1>1, LenProperties, ElementOfSeq
<1> QED
  BY <1>2 DEF On, chain

\* Nobody else's thread touches the first source of an active iterator.
LEMMA Alone ==
    ASSUME Tracked, NEW i \in Made, NEW j \in Made, j # i, Active(j)
    PROVE  Top(j) \notin On(Chain(i))
<1>1. j # 0
  BY DEF Active, Slices
<1>2. j \in conf.ranks /\ conf \in Scenarios
  BY <1>1, Iterators
<1>3. Top(j)[2] = j
  BY <1>2, OwnTop
<1>4. \A x \in On(Chain(i)) : x[2] \in {i, 0}
  BY <1>2, ChainMembers
<1> QED
  BY <1>1, <1>3, <1>4

\* What of an iterator depends on the scenario alone.
LEMMA SameOptions ==
    ASSUME conf' = conf
    PROVE  \A i : /\ Size(i)' = Size(i) /\ StopExhausted(i)' = StopExhausted(i)
                  /\ Top(i)' = Top(i) /\ Chain(i)' = Chain(i) /\ Threaded(i)' = Threaded(i)
BY DEF Size, Bounds, SliceRange, StopExhausted, Top, Chain, Own, Threaded

\* A step of one iterator, which reads its chain at most.
LEMMA TrackedStep ==
    ASSUME Tracked, Quiet', NEW i \in Made, NEW r, it' = [it EXCEPT ![i] = r], UNCHANGED conf,
           Frames(h, h', On(Chain(i))), main' = main \/ main'.at = i,
           Slices # {} => ~Waiting(0)',
           r.failures = 0 => it[i].failures = 0,
           r.failures = 0 /\ Active(i) =>
               /\ Counts(r, conf.batch, Size(i), h'[Top(i)].position, StopExhausted(i))
               /\ ~(main'.pc = "retry" /\ main'.at = i)
    PROVE  Tracked'
<1>1. Made' = Made /\ it'[i] = r /\ \A j \in Made \ {i} : it'[j] = it[j]
  BY DEF Made
<1>2. Slices' = Slices
  BY <1>1 DEF Slices
<1>3. ASSUME NEW j \in Made, j # i, Active(j)'
      PROVE  InStep(j)'
  <2>1. it'[j] = it[j] /\ Active(j)
    BY <1>1, <1>2, <1>3, SameOptions DEF Active, Served
  <2>2. InStep(j)
    BY <2>1 DEF Tracked
  <2>3. Top(j) \notin On(Chain(i)) /\ Top(j) \in DOMAIN h
    BY <1>3, <2>1, Alone, Iterators
  <2>4. h'[Top(j)] = h[Top(j)]
    BY <2>3 DEF Frames
  <2>5. Counts(it'[j], conf'.batch, Size(j)', h'[Top(j)'].position, StopExhausted(j)')
    BY <2>1, <2>2, <2>4, SameOptions DEF InStep
  <2>6. ~(main'.pc = "retry" /\ main'.at = j)
    BY <1>3, <2>2 DEF InStep
  <2> QED
    BY <2>5, <2>6 DEF InStep
<1>4. Active(i)' => InStep(i)'
  <2> SUFFICES ASSUME Active(i)' PROVE InStep(i)'
    OBVIOUS
  <2>1. r.failures = 0 /\ Active(i)
    BY <1>1, <1>2, SameOptions DEF Active, Served
  <2>2. Counts(it'[i], conf'.batch, Size(i)', h'[Top(i)'].position, StopExhausted(i)')
    BY <1>1, <2>1, SameOptions
  <2> QED
    BY <2>1, <2>2 DEF InStep
<1>5. (Made \subseteq conf.ranks \cup {0})' /\ (Slices # {} => ~Waiting(0))'
  BY <1>1, <1>2 DEF Tracked
<1> QED
  BY <1>1, <1>3, <1>4, <1>5 DEF Tracked

\* A slice of the chain is not of its first source.
LEMMA TopIsNotSliced ==
    ASSUME Tracked, NEW i \in Made, NEW g, Heap(g), DOMAIN g = DOMAIN h,
           NEW x \in On(Chain(i)), x[1] = "sliced"
    PROVE  Below(g[x]) # Top(i)
<1>1. conf \in Scenarios /\ (i # 0 => i \in conf.ranks) /\ Grounded(h, Chain(i))
  BY Iterators
<1>2. PICK k \in DOMAIN Chain(i) : x = Chain(i)[k]
  BY DEF On
<1>3. x \in DOMAIN g
  BY <1>1, <1>2, Members
<1>4. Below(g[x])[2] = 0
  BY <1>3 DEF Heap, OnWhole
<1>5. CASE i # 0
  BY <1>1, <1>4, <1>5, OwnTop
<1>6. CASE i = 0
  <2>1. Chain(0) = Own(0) /\ DOMAIN Chain(0) = 1 .. Len(Chain(0))
    BY <1>1, <1>6, Members DEF Chain
  <2>2. k \in 1 .. Len(Own(0)) /\ Chain(0)[k][1] = "sliced"
    BY <1>2, <1>6, <2>1
  <2> QED
    BY <1>1, <2>2, SliceIsLast
<1> QED
  BY <1>5, <1>6

\* apply_order() leaves the positions.
LEMMA ApplyOrderPositions ==
    ASSUME NEW f, Heap(f), NEW chain, Grounded(f, chain)
    PROVE  LET g == AfterApplyOrder(f, chain)
           IN  Frames(f, g, On(chain)) /\ \A x \in DOMAIN f : g[x].position = f[x].position
<1> DEFINE x == chain[1]
           s == [f[x] EXCEPT !.generation = @ + 1]
           g == AfterApplyOrder(f, chain)
<1>1. x \in DOMAIN f /\ x \in On(chain) /\ DOMAIN f[x] = SourceFields
  BY Members DEF On, Heap
<1>2. s.position = f[x].position
  BY <1>1 DEF SourceFields
<1>3. g = [f EXCEPT ![x] = s] \/ g = f
  BY DEF AfterApplyOrder
<1> HIDE DEF x, s, g
<1> QED
  BY <1>1, <1>2, <1>3 DEF Frames, g

\* And so does the order that is appended.
LEMMA GeneratorPositions ==
    ASSUME NEW f, Heap(f), NEW chain, Grounded(f, chain), NEW x \in Generator(f, chain),
           NEW generation
    PROVE  LET g == [f EXCEPT ![x] = AppendOrder(@, generation)]
           IN  Frames(f, g, On(chain)) /\ \A y \in DOMAIN f : g[y].position = f[y].position
<1> DEFINE s == AppendOrder(f[x], generation)
<1>1. x \in DOMAIN f
  BY GeneratorIn
<1>2. x \in On(chain)
  <2>1. /\ Len(chain) \in Nat \ {0} /\ DOMAIN chain = 1 .. Len(chain)
        /\ \A n \in 1 .. Len(chain) : chain[n] \in DOMAIN f
    BY Members
  <2>2. f[chain[1]].layer = "sliced" => Len(chain) # 1
    BY <2>1 DEF Heap, Grounded, Leaves
  <2>3. x = IF f[chain[1]].layer = "sliced" THEN chain[2] ELSE chain[1]
    BY DEF Generator
  <2> QED
    BY <2>1, <2>2, <2>3 DEF On
<1>3. s.position = f[x].position
  <2>1. DOMAIN f[x] = SourceFields
    BY <1>1 DEF Heap
  <2> DEFINE source == f[x]
             all == Append(source.orders, [generation |-> generation,
                        order |-> ShuffledBy(source, Identity(source.size),
                                             source.appended % Cardinality(Draws))])
             orders == IF Len(all) > Kept THEN Tail(all) ELSE all
             appended == source.appended + 1
  <2>2. s = [source EXCEPT !.orders = orders, !.appended = appended]
    BY DEF AppendOrder
  <2> HIDE DEF source, orders, appended, s
  <2>3. s.position = source.position
    BY <2>1, <2>2 DEF SourceFields, source
  <2> QED
    BY <2>3 DEF source
<1> HIDE DEF s
<1>4. [f EXCEPT ![x] = AppendOrder(@, generation)] = [f EXCEPT ![x] = s]
  BY DEF s
<1> QED
  BY <1>1, <1>2, <1>3, <1>4 DEF Frames

\* Whatever the thread does, it counts right.
LEMMA TrackedThread ==
    ASSUME Tracked, Quiet', NEW i \in Made, Thread(i)
    PROVE  Tracked'
<1> DEFINE R == it[i]
           b == conf.batch
           n == Size(i)
           p == h[Top(i)].position
           stop == StopExhausted(i)
           chain == Chain(i)
<1>1. /\ conf \in Scenarios /\ b \in Nat \ {0} /\ n \in Nat /\ Sound(R, b) /\ DOMAIN R = Fields
      /\ Heap(h) /\ Grounded(h, chain) /\ Top(i) \in DOMAIN h /\ Top(i) = chain[1]
  BY Iterators DEF Top
<1>2. UNCHANGED <<conf, main>>
  BY DEF Thread, Check, BeginRead, Compare, LoadFile, NameFile, ReadItem, Reset, Fill,
         ReadNothing, PastEnd, OutOfStep, Torn, Mutated, ApplyOrder, GenerateOrder
<1>3. Active(i) => Counts(R, b, n, p, stop) /\ ~(main'.pc = "retry" /\ main'.at = i)
  BY <1>2 DEF Tracked, InStep
<1>4. Slices # {} => ~Waiting(0)'
  BY <1>2 DEF Tracked, Waiting
<1>5. ASSUME NEW r, it' = [it EXCEPT ![i] = r], Frames(h, h', On(chain)), r.failures = R.failures,
             Active(i) => Counts(r, b, n, h'[Top(i)].position, stop)
      PROVE  Tracked'
  BY <1>2, <1>3, <1>4, <1>5, TrackedStep
<1>6. Frames(h, h, On(chain))
  BY DEF Frames
<1>7. ASSUME NEW pc \in InLoop \cup {"append"} \cup Failures, NEW seen,
             it' = [it EXCEPT ![i] = [R EXCEPT !.pc = pc, !.seen = seen]],
             R.pc \in InLoop \cup {"check", "order", "append"},
             R.pc = "check" => ~Exhausted(i),
             pc \in InLoop => R.pc \in InLoop \cup {"check"},
             pc = "append" => R.pc = "order",
             Frames(h, h', On(chain)), h'[Top(i)].position = p
      PROVE  Tracked'
  <2> DEFINE s == [R EXCEPT !.pc = pc, !.seen = seen]
  <2>1. s.pc = pc /\ s.failures = R.failures /\ \A f \in Fields \ {"pc", "seen"} : s[f] = R[f]
    BY <1>1 DEF Fields
  <2>2. pc \notin {"done", "check", "order", "reset", "fill"} /\ R.pc # "reset"
    BY <1>7 DEF Failures, InLoop
  <2> HIDE DEF s
  <2>3. ASSUME Active(i) PROVE Counts(s, b, n, p, stop)
    <3>1. Counts(R, b, n, p, stop)
      BY <1>3, <2>3
    <3>2. ~R.ended
      BY <1>7, <3>1 DEF Counts, Exhausted, InLoop
    <3>3. s.pc \in {"order", "append"} => Len(R.batch) = b
      BY <1>7, <2>1, <2>2, <3>1 DEF Counts
    <3>4. s.pc \notin {"done", "check", "reset", "fill"} /\ R.pc # "reset"
      BY <2>1, <2>2
    <3>5. ASSUME s.pc \in InLoop, stop PROVE p + b <= n + Len(R.batch)
      <4>1. CASE R.pc \in InLoop
        BY <3>1, <3>5, <4>1 DEF Counts, Stands
      <4>2. CASE R.pc = "check"
        <5>1. p \in Nat /\ Len(R.batch) = 0
          BY <1>1, <3>1, <4>2, Empty DEF Counts, Tally, Sound
        <5>2. ~(p + b > n)
          BY <1>7, <3>5, <4>2 DEF Exhausted
        <5> QED
          BY <1>1, <5>1, <5>2
      <4> QED
        BY <1>7, <2>1, <3>5, <4>1, <4>2
    <3> HIDE DEF R, b, n, p, stop
    <3> QED
      BY <2>1, <3>1, <3>2, <3>3, <3>4, <3>5, CountsMove
  <2>4. it' = [it EXCEPT ![i] = s]
    BY <1>7 DEF s
  <2> QED
    BY <1>5, <1>7, <2>1, <2>3, <2>4
<1>8. ASSUME NEW pc \in InLoop \cup Failures, it' = [it EXCEPT ![i] = [R EXCEPT !.pc = pc]],
             R.pc \in InLoop \cup {"append"}, pc \in InLoop => R.pc \in InLoop,
             Frames(h, h', On(chain)), h'[Top(i)].position = p
      PROVE  Tracked'
  <2>1. [R EXCEPT !.pc = pc] = [R EXCEPT !.pc = pc, !.seen = R.seen]
    BY <1>1 DEF Fields
  <2>2. pc # "append" /\ R.pc # "check"
    BY <1>8 DEF Failures, InLoop
  <2> QED
    BY <1>7, <1>8, <2>1, <2>2
<1>19. h' = h => Frames(h, h', On(chain)) /\ h'[Top(i)].position = p
  BY <1>6
<1>9. ASSUME it' = [it EXCEPT ![i] = PutIn(R, R.batch, R.resets)], R.pc \in {"order", "append"},
             Frames(h, h', On(chain)), h'[Top(i)].position = p
      PROVE  Tracked'
  <2> DEFINE s == PutIn(R, R.batch, R.resets)
  <2>1. s.failures = R.failures
    BY <1>1 DEF PutIn, Fields
  <2> HIDE DEF s
  <2>2. ASSUME Active(i) PROVE Counts(s, b, n, p, stop)
    <3>1. /\ Tally(R, n, p, stop) /\ ~R.ended /\ Len(R.batch) = b
          /\ ~stop => p < n
      BY <1>3, <1>9, <2>2 DEF Counts, Stands
    <3>2. R.queue = <<>> /\ Sequence(R.batch) /\ Sequence(R.delivered)
      BY <1>1, <1>9 DEF Sound
    <3> HIDE DEF R, b, n, p, stop
    <3> QED
      BY <1>1, <3>1, <3>2, CountsPut DEF s
  <2>3. it' = [it EXCEPT ![i] = s]
    BY <1>9 DEF s
  <2> QED
    BY <1>5, <1>9, <2>1, <2>2, <2>3
<1>10. CASE Check(i)
  <2>1. R.pc = "check" /\ h' = h
    BY <1>10 DEF Check
  <2>2. CASE Exhausted(i)
    <3> DEFINE s == PutIn(R, <<>>, 0)
    <3>1. it' = [it EXCEPT ![i] = s]
      BY <1>10, <2>2 DEF Check
    <3>2. s.failures = R.failures
      BY <1>1 DEF PutIn, Fields
    <3>3. stop /\ p + b > n
      BY <2>2 DEF Exhausted
    <3> HIDE DEF s
    <3>4. ASSUME Active(i) PROVE Counts(s, b, n, p, stop)
      <4>1. Counts(R, b, n, p, stop)
        BY <1>3, <3>4
      <4> HIDE DEF R, b, n, p, stop
      <4> QED
        BY <1>1, <2>1, <3>3, <4>1, CountsNone DEF s
    <3> QED
      BY <1>5, <1>6, <2>1, <3>1, <3>2, <3>4
  <2>3. CASE ~Exhausted(i)
    <3>1. it' = [it EXCEPT ![i] = [R EXCEPT !.pc = "item"]]
      BY <1>10, <2>3 DEF Check
    <3>2. [R EXCEPT !.pc = "item"] = [R EXCEPT !.pc = "item", !.seen = R.seen]
      BY <1>1 DEF Fields
    <3>3. it' = [it EXCEPT ![i] = [R EXCEPT !.pc = "item", !.seen = R.seen]]
      BY <3>1, <3>2
    <3>4. "item" \in InLoop \cup {"append"} \cup Failures /\ "item" # "append"
          /\ R.pc \in InLoop \cup {"check", "order", "append"} /\ R.pc \in InLoop \cup {"check"}
      BY <2>1 DEF InLoop
    <3>5. Frames(h, h', On(chain)) /\ h'[Top(i)].position = p
      BY <1>6, <2>1
    <3> HIDE DEF R, chain, p
    <3> QED
      BY <1>7, <2>3, <3>3, <3>4, <3>5, Zenon
  <2> QED
    BY <2>2, <2>3
<1>11. CASE BeginRead(i)
  <2>1. PICK pc, seen :
            /\ pc \in {"scan", "compare", "read"}
            /\ it' = [it EXCEPT ![i] = [R EXCEPT !.pc = pc, !.seen = seen]]
    BY <1>11, Begins
  <2>2. R.pc = "item" /\ h' = h
    BY <1>11, Begins
  <2>3. pc \in InLoop \cup {"append"} \cup Failures /\ pc # "append"
        /\ R.pc \in InLoop \cup {"check", "order", "append"} /\ R.pc # "check"
        /\ R.pc \in InLoop \cup {"check"}
    BY <2>1, <2>2 DEF InLoop
  <2> HIDE DEF R, chain, p
  <2> QED
    BY <1>7, <1>19, <2>1, <2>2, <2>3, Zenon
<1>12. CASE ReadItem(i)
  <2>1. R.pc \in InLoop
    BY <1>12 DEF ReadItem, MayRead, Reading, InLoop
  <2>2. PICK level, sample, wraps, generation :
            /\ h' = AfterNext(h, chain, level, sample)
            /\ wraps = (h'[Top(i)].position >= n /\ ~stop)
            /\ it' = [it EXCEPT ![i] = WithSample(R, generation, sample, wraps)]
    BY <1>12 DEF ReadItem
  <2>3. Frames(h, h', On(chain)) /\ h'[Top(i)].position = p + 1
    BY <1>1, <2>2, NextBuilds
  <2> DEFINE r == WithSample(R, generation, sample, wraps)
  <2>4. r.failures = R.failures
    BY <1>1, LoopKeeps DEF Untouched
  <2>5. it' = [it EXCEPT ![i] = r]
    BY <2>2
  <2>6. wraps <=> p + 1 >= n /\ ~stop
    BY <2>2, <2>3
  <2>7. ASSUME Active(i) PROVE Counts(r, b, n, h'[Top(i)].position, stop)
    <3>1. Counts(R, b, n, p, stop)
      BY <1>3, <2>7
    <3> HIDE DEF R, n, p, stop
    <3> QED
      BY <1>1, <2>1, <2>3, <2>6, <3>1, CountsRead
  <2> HIDE DEF r
  <2> QED
    BY <1>5, <2>3, <2>4, <2>5, <2>7
<1>20. CASE Compare(i)
  <2>1. PICK pc \in {"fetch", "load"} : it' = [it EXCEPT ![i] = [R EXCEPT !.pc = pc]]
    BY <1>20 DEF Compare
  <2>2. R.pc = "compare" /\ h' = h
    BY <1>20 DEF Compare
  <2>3. pc \in InLoop \cup Failures /\ R.pc \in InLoop
    BY <2>1, <2>2 DEF InLoop
  <2> QED
    BY <1>8, <1>19, <2>1, <2>2, <2>3
<1>21. CASE LoadFile(i) \/ NameFile(i)
  <2> DEFINE x == Leaf(i)
             file == R.seen.file
  <2>1. PICK s \in {[h[x] EXCEPT !.held = file], [h[x] EXCEPT !.named = file]} :
            h' = [h EXCEPT ![x] = s]
    BY <1>21 DEF LoadFile, NameFile
  <2>2. x \in DOMAIN h /\ x \in On(chain)
    BY <1>1, Members DEF Leaf, On
  <2>3. PICK pc \in {"name", "fetch"} : it' = [it EXCEPT ![i] = [R EXCEPT !.pc = pc]]
    BY <1>21 DEF LoadFile, NameFile
  <2>4. R.pc \in {"load", "name"}
    BY <1>21 DEF LoadFile, NameFile
  <2> HIDE DEF file, x
  <2>7. s.position = h[x].position
    BY <1>1, <2>1, <2>2 DEF Heap, SourceFields
  <2>8. h' = [h EXCEPT ![x] = s]
    BY <2>1
  <2>5. Frames(h, h', On(chain)) /\ h'[Top(i)].position = p
    <3> HIDE DEF chain
    <3>1. Frames(h, h', On(chain))
      BY <2>2, <2>8 DEF Frames
    <3> QED
      BY <1>1, <2>2, <2>7, <2>8, <3>1
  <2>6. pc \in InLoop \cup Failures /\ R.pc \in InLoop
    BY <2>3, <2>4 DEF InLoop
  <2> QED
    BY <1>8, <2>3, <2>5, <2>6
<1>22. CASE Reset(i)
  <2>1. PICK draw : h' = AfterReset(h, chain, draw)
    BY <1>22 DEF Reset
  <2>2. \A x \in On(chain) : x[1] = "sliced" => Below(h[x]) # chain[1]
    BY <1>1, TopIsNotSliced
  <2>3. Frames(h, h', On(chain)) /\ h'[Top(i)].position = 0
    BY <1>1, <2>1, <2>2, ResetBuilds
  <2>4. PICK r \in {Continued(WithReset(R)), [WithReset(R) EXCEPT !.pc = "fill"]} :
            it' = [it EXCEPT ![i] = r]
    BY <1>22 DEF Reset
  <2>5. r.failures = R.failures
    BY <1>1, <2>4, LoopKeeps DEF Untouched
  <2>6. R.pc = "reset"
    BY <1>22 DEF Reset
  <2>7. ASSUME Active(i) PROVE Counts(r, b, n, 0, stop)
    <3>1. Counts(R, b, n, p, stop) /\ n \in Nat \ {0}
      BY <1>1, <1>3, <2>7 DEF Active, Served
    <3> HIDE DEF R, n, p, stop
    <3>2. /\ Counts(Continued(WithReset(R)), b, n, 0, stop)
          /\ Counts([WithReset(R) EXCEPT !.pc = "fill"], b, n, 0, stop)
      BY <1>1, <2>6, <3>1, CountsReset
    <3> QED
      BY <2>4, <3>2
  <2> QED
    BY <1>5, <2>3, <2>4, <2>5, <2>7
<1>23. CASE Fill(i)
  <2>1. PICK draw : h' = AfterFill(h, chain, draw)
    BY <1>23 DEF Fill
  <2>2. Frames(h, h', On(chain)) /\ h'[Top(i)].position = p
    BY <1>1, <2>1, FillBuilds
  <2>3. it' = [it EXCEPT ![i] = Continued(R)] /\ R.pc = "fill"
    BY <1>23 DEF Fill
  <2>4. Continued(R).failures = R.failures
    BY <1>1, ContinuedKeeps DEF Untouched
  <2>5. ASSUME Active(i) PROVE Counts(Continued(R), b, n, p, stop)
    <3>1. Counts(R, b, n, p, stop)
      BY <1>3, <2>5
    <3> HIDE DEF R, n, p, stop
    <3> QED
      BY <1>1, <2>3, <3>1, CountsFill
  <2> QED
    BY <1>5, <2>2, <2>3, <2>4, <2>5
<1>13. CASE ReadNothing(i)
  <2> DEFINE r == WithoutSample(R)
  <2>1. PICK level : h' = AfterNext(h, chain, level, NoData) /\ it' = [it EXCEPT ![i] = r]
    BY <1>13 DEF ReadNothing
  <2>2. Frames(h, h', On(chain))
    BY <1>1, <2>1, NextBuilds
  <2>3. r.failures = R.failures + 1 /\ R.failures \in Nat
    BY <1>1 DEF WithoutSample, PutIn, Fields, Sound
  <2>4. r.failures # 0
    BY <2>3
  <2> HIDE DEF r
  <2> QED
    BY <1>2, <1>4, <2>1, <2>2, <2>4, TrackedStep
<1>14. CASE PastEnd(i) \/ OutOfStep(i) \/ Torn(i) \/ Mutated(i)
  <2>1. PICK pc \in Failures : it' = [it EXCEPT ![i] = [R EXCEPT !.pc = pc]]
    BY <1>14, Zenon DEF PastEnd, OutOfStep, Torn, Mutated, Failures
  <2>2. h' = h /\ R.pc \in {"item", "scan", "read", "fetch", "append"}
    BY <1>14, Zenon DEF PastEnd, OutOfStep, Torn, Mutated
  <2>3. pc \notin InLoop /\ R.pc \in InLoop \cup {"append"}
    BY <2>1, <2>2 DEF Failures, InLoop
  <2> QED
    BY <1>8, <1>19, <2>1, <2>2, <2>3
<1>17. CASE ApplyOrder(i)
  <2>1. h' = AfterApplyOrder(h, chain) /\ R.pc = "order"
    BY <1>17 DEF ApplyOrder
  <2>2. Frames(h, h', On(chain)) /\ h'[Top(i)].position = p
    BY <1>1, <2>1, ApplyOrderPositions
  <2>3. \/ it' = [it EXCEPT ![i] = PutIn(R, R.batch, R.resets)]
        \/ \E seen : it' = [it EXCEPT ![i] = [R EXCEPT !.pc = "append", !.seen = seen]]
    BY <1>17 DEF ApplyOrder
  <2>4. ASSUME NEW seen, it' = [it EXCEPT ![i] = [R EXCEPT !.pc = "append", !.seen = seen]]
        PROVE  Tracked'
    <3>1. "append" \in InLoop \cup {"append"} \cup Failures /\ "append" \notin InLoop
          /\ R.pc \in InLoop \cup {"check", "order", "append"} /\ R.pc # "check"
      BY <2>1 DEF InLoop
    <3> HIDE DEF R, chain, p
    <3> QED
      BY <1>7, <2>1, <2>2, <2>4, <3>1
  <2>5. CASE it' = [it EXCEPT ![i] = PutIn(R, R.batch, R.resets)]
    BY <1>9, <2>1, <2>2, <2>5
  <2> QED
    BY <2>3, <2>4, <2>5
<1>18. CASE GenerateOrder(i)
  <2>1. PICK x \in Generator(h, chain) : h' = [h EXCEPT ![x] = AppendOrder(@, h[Top(i)].generation)]
    BY <1>18 DEF GenerateOrder
  <2> DEFINE generation == h[Top(i)].generation
             g == [h EXCEPT ![x] = AppendOrder(@, generation)]
  <2>4. h' = g
    BY <2>1
  <2>5. Frames(h, g, On(chain)) /\ \A y \in DOMAIN h : g[y].position = h[y].position
    <3> HIDE DEF generation, chain
    <3> QED
      BY <1>1, GeneratorPositions
  <2> HIDE DEF g
  <2>2. Frames(h, h', On(chain)) /\ h'[Top(i)].position = p
    BY <1>1, <2>4, <2>5
  <2>3. it' = [it EXCEPT ![i] = PutIn(R, R.batch, R.resets)] /\ R.pc = "append"
    BY <1>18 DEF GenerateOrder
  <2> QED
    BY <1>9, <2>2, <2>3
<1> QED
  BY <1>10, <1>11, <1>12, <1>13, <1>14, <1>17, <1>18, <1>20, <1>21, <1>22, <1>23 DEF Thread

\* Closing an iterator, or whatever else it does, is not a matter of counting.
LEMMA CountsSame ==
    ASSUME NEW r, NEW s, NEW b, NEW n, NEW p, NEW stop, Counts(r, b, n, p, stop),
           \A f \in Fields \ {"closed"} : s[f] = r[f]
    PROVE  Counts(s, b, n, p, stop)
<1>1. /\ s.resets = r.resets /\ s.epoch = r.epoch /\ s.queue = r.queue /\ s.pc = r.pc
      /\ s.delivered = r.delivered /\ s.batch = r.batch /\ s.ended = r.ended
  BY DEF Fields
<1>2. Epochs(s) = Epochs(r) /\ Drawn(s) = Drawn(r)
  BY <1>1, Zenon DEF Epochs, Drawn
<1>3. Tally(s, n, p, stop)
  BY <1>1, <1>2, Zenon DEF Counts, Tally
<1>4. Stands(s, b, n, p, stop)
  BY <1>1, Zenon DEF Counts, Stands
<1> QED
  BY <1>1, <1>3, <1>4, Zenon DEF Counts

\* Starting a thread, or taking a batch, counts no failure.
LEMMA KeepsFailures ==
    ASSUME NEW i, DOMAIN it[i] = Fields
    PROVE  /\ \A r : DOMAIN r = Fields =>
                  /\ Started(r, i).failures = r.failures /\ Started(r, i).delivered = r.delivered
                  /\ Started(r, i).epoch = r.epoch /\ Started(r, i).ended = r.ended
           /\ Taken(i).failures = it[i].failures
           /\ Again(i).failures = it[i].failures
<1>1. ASSUME NEW r, DOMAIN r = Fields
      PROVE  /\ Started(r, i).failures = r.failures /\ Started(r, i).delivered = r.delivered
             /\ Started(r, i).epoch = r.epoch /\ Started(r, i).ended = r.ended
  BY <1>1 DEF Started, Fields
<1>2. Taken(i).failures = it[i].failures
  <2> DEFINE s == [it[i] EXCEPT !.queue = Tail(@), !.delivered = @ \o Head(it[i].queue).data,
                                !.epoch = @ + Head(it[i].queue).resets]
  <2>1. DOMAIN s = Fields /\ s.failures = it[i].failures
    BY DEF Fields
  <2>2. Taken(i) = IF Threaded(i) THEN Started(s, i) ELSE s
    BY DEF Taken
  <2> HIDE DEF s
  <2> QED
    BY <1>1, <2>1, <2>2
<1>3. Again(i).failures = it[i].failures
  <2> DEFINE s == [it[i] EXCEPT !.queue = Tail(@)]
  <2>1. DOMAIN s = Fields /\ s.failures = it[i].failures
    BY DEF Fields
  <2>2. Again(i) = IF Threaded(i) THEN Started(s, i) ELSE s
    BY DEF Again
  <2> HIDE DEF s
  <2> QED
    BY <1>1, <2>1, <2>2
<1> QED
  BY <1>1, <1>2, <1>3

\* next() gives a batch only if one was made, and retries only after a failure.
LEMMA TrackedCall ==
    ASSUME Tracked, Quiet', NEW i \in Made, Call(i) \/ Return(i)
    PROVE  Tracked'
<1> DEFINE R == it[i]
           b == conf.batch
           n == Size(i)
           p == h[Top(i)].position
           stop == StopExhausted(i)
<1>1. conf \in Scenarios /\ b \in Nat \ {0} /\ n \in Nat /\ Sound(R, b) /\ DOMAIN R = Fields
  BY Iterators
<1>2. UNCHANGED <<conf, h>> /\ main'.at = i
  <2>1. CASE Call(i)
    BY <2>1 DEF Call
  <2>2. CASE Return(i)
    BY <2>2 DEF Return, Take, StopIteration, Retry, TakeRetried, Tracked, Quiet, Inv, MainOK
  <2> QED
    BY <2>1, <2>2
<1>3. Active(i) => Counts(R, b, n, p, stop) /\ ~(main.pc = "retry" /\ main.at = i)
  BY DEF Tracked, InStep
<1>4. Frames(h, h', On(Chain(i)))
  BY <1>2 DEF Frames
<1>5. ASSUME NEW r, it' = [it EXCEPT ![i] = r], r.failures = R.failures,
             Slices # {} => ~Waiting(0)',
             Active(i) => Counts(r, b, n, p, stop) /\ main'.pc # "retry"
      PROVE  Tracked'
  BY <1>2, <1>4, <1>5, TrackedStep
<1>6. CASE Call(i)
  <2> DEFINE r == IF Threaded(i) THEN R ELSE Started(R, i)
  <2>1. /\ main.pc = "idle" /\ main' = [pc |-> "get", at |-> i] /\ it' = [it EXCEPT ![i] = r]
        /\ ~Satisfied(i)
    BY <1>6 DEF Call
  <2>2. Slices # {} => ~Waiting(0)'
    BY <2>1 DEF Satisfied, Waiting
  <2>3. r.failures = R.failures
    BY <1>1, KeepsFailures
  <2>4. ASSUME Active(i) PROVE Counts(r, b, n, p, stop)
    <3>1. Counts(R, b, n, p, stop)
      BY <1>3, <2>4
    <3>2. ~Threaded(i) => R.pc = "done"
      BY <2>1 DEF Tracked, Quiet, Inv, HandOver, Waiting
    <3>3. ~Threaded(i) => Counts(Started(R, i), b, n, p, stop)
      BY <1>1, <3>1, <3>2, CountsStarted
    <3> QED
      BY <3>1, <3>3
  <2> HIDE DEF r
  <2> QED
    BY <1>5, <2>1, <2>2, <2>3, <2>4
<1>7. CASE Take(i)
  <2>1. /\ Ready(i) /\ Head(R.queue).data # <<>> /\ it' = [it EXCEPT ![i] = Taken(i)]
        /\ main' = [main EXCEPT !.pc = "idle"]
    BY <1>7 DEF Take
  <2>2. main'.pc = "idle"
    BY <2>1 DEF Tracked, Quiet, Inv, MainOK
  <2>3. Active(i) => Counts(Taken(i), b, n, p, stop)
    BY <1>1, <1>3, <2>1, CountsTaken
  <2> QED
    BY <1>1, <1>5, <2>1, <2>2, <2>3, KeepsFailures DEF Waiting
<1>8. CASE StopIteration(i)
  <2> DEFINE r == [R EXCEPT !.queue = Tail(@), !.ended = TRUE]
  <2>1. /\ Ready(i) /\ Head(R.queue).data = <<>> /\ it' = [it EXCEPT ![i] = r] /\ AtEnd(i)
        /\ main' = [main EXCEPT !.pc = "idle"]
    BY <1>8 DEF StopIteration
  <2>2. main'.pc = "idle"
    BY <2>1 DEF Tracked, Quiet, Inv, MainOK
  <2>3. r.failures = R.failures
    BY <1>1 DEF Fields
  <2>4. stop /\ R.queue # <<>> /\ R.pc = "done"
    BY <2>1 DEF AtEnd, Ready
  <2>5. ASSUME Active(i) PROVE Counts(r, b, n, p, stop)
    <3>1. Counts(R, b, n, p, stop)
      BY <1>3, <2>5
    <3> HIDE DEF R, b, n, p, stop
    <3> QED
      BY <1>1, <2>1, <2>4, <3>1, CountsStopped
  <2> HIDE DEF r
  <2> QED
    BY <1>5, <2>1, <2>2, <2>3, <2>5 DEF Waiting
<1>9. CASE Retry(i)
  <2>1. /\ Ready(i) /\ Head(R.queue).data = <<>> /\ it' = [it EXCEPT ![i] = Again(i)] /\ ~AtEnd(i)
        /\ main = [pc |-> "get", at |-> i]
    BY <1>9 DEF Retry
  <2>2. Waiting(i)
    BY <2>1 DEF Waiting
  <2>3. Slices # {} => ~Waiting(0)'
    BY <1>2, <2>2 DEF Tracked, Waiting
  <2>4. ~Active(i)
    <3> SUFFICES ASSUME Active(i) PROVE FALSE
      OBVIOUS
    <3>1. Counts(R, b, n, p, stop)
      BY <1>3
    <3>2. R.queue # <<>> /\ Len(Head(R.queue).data) = 0
      BY <2>1, Empty DEF Ready
    <3>3. stop /\ p + b > n /\ p \in Nat
      BY <1>1, <3>1, <3>2 DEF Counts, Tally
    <3>4. AtEnd(i)
      BY <1>1, <3>3 DEF AtEnd
    <3> QED
      BY <2>1, <3>4
  <2> QED
    BY <1>1, <1>5, <2>1, <2>3, <2>4, KeepsFailures
<1>10. CASE TakeRetried(i)
  <2>1. /\ main = [pc |-> "retry", at |-> i] /\ it' = [it EXCEPT ![i] = Taken(i)]
        /\ main' = [main EXCEPT !.pc = "idle"]
    BY <1>10 DEF TakeRetried
  <2>2. main'.pc = "idle" /\ ~Active(i)
    BY <1>3, <2>1
  <2> QED
    BY <1>1, <1>5, <2>1, <2>2, KeepsFailures DEF Waiting
<1> QED
  BY <1>6, <1>7, <1>8, <1>9, <1>10 DEF Return

\* close() leaves what was delivered.
LEMMA TrackedClose ==
    ASSUME Tracked, Quiet', NEW i \in Made, Close(i)
    PROVE  Tracked'
<1> DEFINE r == [it[i] EXCEPT !.closed = TRUE]
           closing == {Own(i)[k] : k \in DOMAIN Own(i)}
           g == [x \in closing |-> [h[x] EXCEPT !.closed = TRUE]]
           chain == Chain(i)
<1>1. /\ UNCHANGED <<conf, main>> /\ it' = [it EXCEPT ![i] = r] /\ h' = Changed(h, g)
  BY DEF Close, CloseAll
<1>2. /\ conf \in Scenarios /\ Heap(h) /\ Grounded(h, chain) /\ DOMAIN it[i] = Fields
      /\ Top(i) \in DOMAIN h
  BY Iterators
<1>3. closing \subseteq On(chain)
  <2>1. Own(i) \in Seq(Layers \X {i})
    BY <1>2, OwnSources
  <2>2. DOMAIN Own(i) = 1 .. Len(Own(i)) /\ Len(Own(i)) \in Nat
    BY <2>1, LenProperties
  <2>3. /\ Len(Own(i)) \in 0 .. Len(chain) /\ \A k \in 1 .. Len(Own(i)) : chain[k] = Own(i)[k]
    BY <1>2, ChainOf
  <2>4. Len(chain) \in Nat /\ DOMAIN chain = 1 .. Len(chain)
    BY <1>2, Members
  <2> HIDE DEF chain
  <2>5. \A k \in 1 .. Len(Own(i)) : Own(i)[k] \in On(chain)
    BY <2>2, <2>3, <2>4 DEF On
  <2> QED
    BY <2>2, <2>5
<1> HIDE DEF closing
<1>4. Frames(h, h', On(chain))
  BY <1>1, <1>3 DEF Frames, Changed
<1>5. h'[Top(i)].position = h[Top(i)].position
  <2>1. DOMAIN h[Top(i)] = SourceFields
    BY <1>2 DEF Heap
  <2>2. h'[Top(i)] \in {h[Top(i)], [h[Top(i)] EXCEPT !.closed = TRUE]}
    BY <1>1, <1>2 DEF Changed
  <2> QED
    BY <2>1, <2>2 DEF SourceFields
<1>6. /\ r.failures = it[i].failures /\ \A f \in Fields \ {"closed"} : r[f] = it[i][f]
  BY <1>2 DEF Fields
<1> HIDE DEF r
<1>7. ASSUME Active(i)
      PROVE  /\ Counts(r, conf.batch, Size(i), h'[Top(i)].position, StopExhausted(i))
             /\ ~(main'.pc = "retry" /\ main'.at = i)
  <2>1. InStep(i)
    BY <1>7 DEF Tracked
  <2> QED
    BY <1>1, <1>5, <1>6, <2>1, CountsSame DEF InStep
<1>8. Slices # {} => ~Waiting(0)'
  BY <1>1 DEF Tracked, Waiting
<1> QED
  BY <1>1, <1>4, <1>6, <1>7, <1>8, TrackedStep

\* A slice begins at its first sample, and the slices that are there do not notice.
LEMMA TrackedSlice ==
    ASSUME Tracked, Quiet', NEW i \in conf.ranks, Slice(i)
    PROVE  /\ Tracked' /\ i \notin Made /\ UNCHANGED conf
           /\ \E r \in {NewIterator(i), [NewIterator(i) EXCEPT !.pc = "fill"]} :
                 it' = [j \in Made \cup {i} |-> IF j = i THEN r ELSE it[j]]
<1> DEFINE chain == Chain(i)
           n == Len(Own(i))
<1>1. PICK draw : h' = AfterReset(AddAll(h, chain, n, conf, Bounds(i), draw), chain, draw)
  BY DEF Slice
<1> DEFINE g == AddAll(h, chain, n, conf, Bounds(i), draw)
<1>2. /\ i \notin Made /\ main.pc = "idle" /\ UNCHANGED <<conf, main>>
      /\ \E r \in {NewIterator(i), [NewIterator(i) EXCEPT !.pc = "fill"]} :
            it' = [j \in Made \cup {i} |-> IF j = i THEN r ELSE it[j]]
  BY DEF Slice
<1>3. conf \in Scenarios /\ Heap(h) /\ 0 \in Made /\ Grounded(h, Chain(0))
  BY DEF Tracked, Quiet, Inv
<1>4. i \in Nat \ {0} /\ conf.size \in Int
  BY <1>3, StackAssumption
<1>5. Bounds(i)[1] \in Int /\ Bounds(i)[2] \in Int /\ Size(i) \in Nat
  BY <1>3, <1>4, BoundsInt
<1>6. /\ chain \in Seq(Layers \X {i, 0}) /\ chain # <<>>
      /\ n \in 0 .. Len(chain) /\ chain[Len(chain)][1] \in Leaves
      /\ \A k \in 1 .. n : chain[k] \in Layers \X {i} /\ chain[k] = Own(i)[k]
      /\ \A k \in n + 1 .. Len(chain) : \E j \in 1 .. Len(Own(0)) : chain[k] = Own(0)[j]
  BY <1>3, ChainOf
<1>7. \A k \in n + 1 .. Len(chain) : chain[k] \in DOMAIN h
  <2>1. Chain(0) = Own(0)
    BY DEF Chain
  <2>2. \A j \in 1 .. Len(Own(0)) : Own(0)[j] \in DOMAIN h
    BY <1>3, <2>1, Members
  <2> HIDE DEF chain, n
  <2> QED
    BY <1>6, <2>2
<1>8. \A k \in 1 .. n : chain[k][1] \in Layers /\ chain[k] \notin DOMAIN h
  <2>1. \A x \in DOMAIN h : x[2] # i
    BY <1>2 DEF Tracked, Quiet
  <2> HIDE DEF chain, n
  <2> QED
    BY <1>6, <2>1
<1>9. \A k \in 1 .. n : chain[k][1] = "sliced" => chain[k + 1][2] = 0
  BY <1>3, SliceIsLast
<1>10. Builds(h, g, On(chain)) /\ Grounded(g, chain)
  <2> DEFINE S == Layers \X {i, 0}
             b == Bounds(i)
  <2>1. chain \in Seq(S) /\ b[1] \in Int /\ b[2] \in Int
    BY <1>5, <1>6
  <2> HIDE DEF chain, n, S, b
  <2>2. /\ Heap(h) /\ n \in 0 .. Len(chain) /\ chain # <<>>
        /\ chain[Len(chain)][1] \in Leaves /\ conf.size \in Int
        /\ \A k \in 1 .. n : chain[k][1] \in Layers /\ chain[k] \notin DOMAIN h
        /\ \A k \in 1 .. n : chain[k][1] = "sliced" => chain[k + 1][2] = 0
        /\ \A k \in n + 1 .. Len(chain) : chain[k] \in DOMAIN h
    BY <1>3, <1>4, <1>6, <1>7, <1>8, <1>9
  <2>3. /\ Builds(h, AddAll(h, chain, n, conf, b, draw), On(chain))
        /\ Grounded(AddAll(h, chain, n, conf, b, draw), chain)
    BY ONLY <2>1, <2>2, AddAllBuilds
  <2> QED
    BY <2>3 DEF b
<1> HIDE DEF g, n
<1>11. h' = AfterReset(g, chain, draw) /\ Heap(g)
  BY <1>1, <1>10 DEF g, Builds, Extends
<1>12. chain[1] = Top(i) /\ Top(i)[2] = i
  BY <1>3, OwnTop DEF Top
<1>13. Frames(g, h', On(chain)) /\ h'[Top(i)].position = 0
  <2>1. \A x \in On(chain) : x[1] = "sliced" => Below(g[x]) # chain[1]
    <3>1. \A x \in On(chain) : x \in DOMAIN g
      BY <1>10, Members DEF On
    <3>2. \A x \in On(chain) : x[1] = "sliced" => Below(g[x])[2] = 0
      BY <1>11, <3>1 DEF Heap, OnWhole
    <3> QED
      BY <1>4, <1>12, <3>2
  <2>2. /\ Frames(g, AfterReset(g, chain, draw), On(chain))
        /\ AfterReset(g, chain, draw)[chain[1]].position = 0
    BY <1>10, <1>11, <2>1, ResetBuilds
  <2> QED
    BY <1>11, <1>12, <2>2
<1>14. /\ Made' = Made \cup {i} /\ \A j \in Made : it'[j] = it[j]
       /\ it'[i] \in {NewIterator(i), [NewIterator(i) EXCEPT !.pc = "fill"]}
  BY <1>2 DEF Made
<1>15. i \in Slices'
  BY <1>4, <1>14 DEF Slices
<1>16. Active(i)' => InStep(i)'
  <2> SUFFICES ASSUME Active(i)' PROVE InStep(i)'
    OBVIOUS
  <2>1. conf.batch \in Nat \ {0} /\ Size(i) \in Nat \ {0}
    BY <1>2, <1>3, <1>5, ScenarioAssumption, SameOptions DEF Active, Served
  <2>2. Counts(it'[i], conf.batch, Size(i), 0, StopExhausted(i))
    <3>1. /\ Counts(NewIterator(i), conf.batch, Size(i), 0, StopExhausted(i))
          /\ Counts([NewIterator(i) EXCEPT !.pc = "fill"], conf.batch, Size(i), 0, StopExhausted(i))
      BY <1>4, <2>1, CountsNew
    <3> QED
      BY <1>14, <3>1
  <2>3. Counts(it'[i], conf'.batch, Size(i)', h'[Top(i)'].position, StopExhausted(i)')
    BY <1>2, <1>13, <1>14, <2>2, SameOptions
  <2> QED
    BY <1>2, <2>3 DEF InStep
<1>17. ASSUME NEW j \in Made, Active(j)'
       PROVE  InStep(j)'
  <2>1. j # 0 /\ it'[j] = it[j] /\ Active(j)
    BY <1>2, <1>14, <1>15, <1>17, SameOptions DEF Active, Served
  <2>2. InStep(j) /\ j \in conf.ranks /\ j # i
    BY <1>2, <2>1 DEF Tracked
  <2>3. Top(j)[2] = j /\ Top(j) \in DOMAIN h
    BY <1>3, <2>2, OwnTop, Iterators
  <2>4. Top(j) \notin On(chain)
    BY <1>3, <2>1, <2>2, <2>3, ChainMembers
  <2>5. h'[Top(j)] = h[Top(j)]
    BY <1>10, <1>13, <2>3, <2>4 DEF Builds, Extends, Frames
  <2>6. Counts(it'[j], conf'.batch, Size(j)', h'[Top(j)'].position, StopExhausted(j)')
    BY <1>2, <2>1, <2>2, <2>5, SameOptions DEF InStep
  <2> QED
    BY <1>2, <2>2, <2>6 DEF InStep
<1>18. (Made \subseteq conf.ranks \cup {0})' /\ (Slices # {} => ~Waiting(0))'
  BY <1>2, <1>14 DEF Tracked, Waiting
<1>19. Tracked'
  BY <1>14, <1>16, <1>17, <1>18 DEF Tracked
<1> QED
  BY <1>2, <1>19

\* The first iterator begins at its first sample.
LEMMA TrackedInit ==
    ASSUME Init
    PROVE  /\ Tracked /\ Made = {0} /\ it[0] = NewIterator(0)
<1>1. Quiet
  BY QuietInit
<1> DEFINE chain == Own(0)
           n == Len(chain)
           f == <<>>
           b == <<0, 0>>
<1>2. PICK draw :
        h = AfterFill(AfterReset(AddAll(f, chain, n, conf, b, draw), chain, draw), chain, draw)
  BY DEF Init
<1>3. /\ conf \in Scenarios /\ it = [i \in {0} |-> NewIterator(i)]
      /\ main = [pc |-> "idle", at |-> 0]
  BY DEF Init
<1>4. /\ chain \in Seq(Layers \X {0}) /\ chain # <<>> /\ chain[n][1] \in Leaves
      /\ Chain(0) = chain
  BY <1>3, OwnSources DEF Chain
<1>5. n \in Nat \ {0} /\ \A k \in 1 .. n : chain[k] \in Layers \X {0}
  <2> HIDE DEF chain
  <2> QED
    BY <1>4, EmptySeq, ElementOfSeq
<1>6. \A k \in 1 .. n : chain[k][1] # "sliced"
  BY <1>3, <1>4, SliceIsLast
<1>7. Heap(f) /\ DOMAIN f = {} /\ b[1] \in Int /\ b[2] \in Int /\ conf.size \in Int
  BY <1>3, StackAssumption DEF Heap
<1> DEFINE g == AddAll(f, chain, n, conf, b, draw)
<1>8. Builds(f, g, On(chain)) /\ Grounded(g, chain)
  <2>1. n \in 0 .. n /\ n + 1 .. n = {}
    BY <1>5
  <2> HIDE DEF f, b, chain
  <2>2. /\ Heap(f) /\ n \in 0 .. n /\ chain \in Seq(Layers \X {0}) /\ chain # <<>>
        /\ chain[n][1] \in Leaves /\ conf.size \in Int /\ b[1] \in Int /\ b[2] \in Int
        /\ \A k \in 1 .. n : chain[k][1] \in Layers /\ chain[k] \notin DOMAIN f
        /\ \A k \in 1 .. n : chain[k][1] = "sliced" => chain[k + 1][2] = 0
        /\ \A k \in n + 1 .. n : chain[k] \in DOMAIN f
    BY <1>4, <1>5, <1>6, <1>7, <2>1
  <2> QED
    BY ONLY <2>2, AddAllBuilds
<1> HIDE DEF g, f
<1> DEFINE e == AfterReset(g, chain, draw)
<1>9. h = AfterFill(e, chain, draw) /\ Heap(g) /\ Top(0) = chain[1]
  BY <1>2, <1>4, <1>8 DEF g, Builds, Extends, Top
<1> HIDE DEF e
<1>a. Keeps(g, e)
  BY <1>8, <1>9, ResetExtends DEF e
<1>b. Heap(e) /\ Grounded(e, chain)
  BY <1>8, <1>a, StaysGrounded DEF Keeps, Extends
<1>10. h[Top(0)].position = 0
  <2>1. DOMAIN chain = 1 .. n
    BY <1>8, Members
  <2>2. \A x \in On(chain) : x[1] # "sliced"
    BY <1>6, <2>1 DEF On
  <2> HIDE DEF chain
  <2>3. e[chain[1]].position = 0
    BY <1>8, <1>9, <2>2, ResetBuilds DEF e
  <2>4. chain[1] \in DOMAIN e
    BY <1>b, Members
  <2>5. h[chain[1]].position = e[chain[1]].position
    BY <1>9, <1>b, <2>4, FillBuilds
  <2> QED
    BY <1>9, <2>3, <2>5
<1> HIDE DEF chain
<1>11. Made = {0} /\ it[0] = NewIterator(0) /\ Slices = {}
  BY <1>3 DEF Made, Slices
<1>12. InStep(0)
  <2>1. conf.batch \in Nat \ {0} /\ Size(0) \in Nat \ {0}
    <3>1. conf.size \in Nat \ {0}
      BY <1>3, StackAssumption
    <3>2. Size(0) = conf.size
      BY <3>1 DEF Size, Bounds
    <3> QED
      BY <1>3, <3>1, <3>2, ScenarioAssumption
  <2>2. Counts(NewIterator(0), conf.batch, Size(0), 0, StopExhausted(0))
    BY <2>1, CountsNew
  <2> QED
    BY <1>3, <1>10, <1>11, <2>2 DEF InStep
<1> QED
  BY <1>1, <1>11, <1>12 DEF Tracked

\* Every step keeps it.
LEMMA TrackedNext == Tracked /\ [Next]_vars => Tracked'
<1> SUFFICES ASSUME Tracked, [Next]_vars
             PROVE  Tracked'
  OBVIOUS
<1>1. Quiet'
  BY QuietNext DEF Tracked
<1>2. ASSUME NEW i \in Made, Thread(i) \/ Call(i) \/ Return(i) \/ Close(i)
      PROVE  Tracked'
  BY <1>1, <1>2, TrackedThread, TrackedCall, TrackedClose
<1>3. ASSUME NEW i \in conf.ranks, Slice(i)
      PROVE  Tracked'
  BY <1>1, <1>3, TrackedSlice
<1>4. CASE UNCHANGED vars
  <2>1. conf' = conf /\ h' = h /\ it' = it /\ main' = main
    BY <1>4 DEF vars
  <2>2. Made' = Made /\ Slices' = Slices /\ Waiting(0)' = Waiting(0)
    BY <2>1 DEF Made, Slices, Waiting
  <2>3. \A i : InStep(i)' = InStep(i) /\ Active(i)' = Active(i)
    BY <2>1, <2>2, SameOptions DEF InStep, Active, Served
  <2> QED
    BY <1>1, <2>1, <2>2, <2>3 DEF Tracked
<1> QED
  BY <1>2, <1>3, <1>4 DEF Next

-----------------------------------------------------------------------------
(* Every step is one of BatchStream, or none that the caller sees. *)

\* What the caller sees of iterator i when its record is r.
Shown(i, r) ==
    [size |-> Size(i), batch |-> conf.batch, stop |-> StopExhausted(i),
     passed |-> Len(r.delivered), epoch |-> r.epoch, ended |-> r.ended]

Sure == {j \in Made : Served(j)}

Alike(r, s) ==
    /\ s.failures = r.failures /\ s.delivered = r.delivered
    /\ s.epoch = r.epoch /\ s.ended = r.ended

\* The stream is of the iterators that have samples and whose loads have all succeeded.
LEMMA StreamIs ==
    /\ Stream = [i \in Sure |-> Shown(i, it[i])]
    /\ DOMAIN Stream = Sure
    /\ \A i \in Sure : Stream[i] = Shown(i, it[i])
BY DEF Stream, Sure, Shown

\* A step of one iterator.
LEMMA StreamStep ==
    ASSUME UNCHANGED conf, NEW i \in Made, NEW r, it' = [it EXCEPT ![i] = r]
    PROVE  /\ Sure' = IF r.failures = 0 /\ Size(i) # 0 THEN Sure \cup {i} ELSE Sure \ {i}
           /\ Stream' = [j \in Sure' |-> IF j = i THEN Shown(i, r) ELSE Shown(j, it[j])]
<1>1. Made' = Made /\ it'[i] = r /\ \A j \in Made \ {i} : it'[j] = it[j]
  BY DEF Made
<1>2. Sure' = IF r.failures = 0 /\ Size(i) # 0 THEN Sure \cup {i} ELSE Sure \ {i}
  BY <1>1, SameOptions DEF Sure, Served
<1>3. Stream' = [j \in Sure' |-> Shown(j, it'[j])]
  BY SameOptions DEF Stream, Sure, Shown
<1>4. \A j \in Sure' \ {i} : j \in Made
  BY <1>1 DEF Sure
<1> QED
  BY <1>1, <1>2, <1>3, <1>4

\* One that shows nothing.
LEMMA NothingShown ==
    ASSUME UNCHANGED conf, NEW i \in Made, NEW r, it' = [it EXCEPT ![i] = r],
           (it[i].failures # 0 /\ r.failures # 0) \/ Size(i) = 0 \/ Alike(it[i], r)
    PROVE  Stream' = Stream
<1>1. Sure' = Sure
  BY StreamStep DEF Alike, Sure, Served
<1>2. i \in Sure => Shown(i, r) = Shown(i, it[i])
  BY DEF Alike, Sure, Served, Shown
<1>3. Stream' = [j \in Sure |-> IF j = i THEN Shown(i, r) ELSE Shown(j, it[j])]
  BY <1>1, StreamStep
<1>4. Stream' = [j \in Sure |-> Shown(j, it[j])]
  BY <1>2, <1>3
<1> QED
  BY <1>4, StreamIs

\* After a failed load nothing more is promised.
LEMMA Broken ==
    ASSUME UNCHANGED conf, NEW i \in Made, NEW r, it' = [it EXCEPT ![i] = r],
           r.failures # 0
    PROVE  Promise!GiveUp(i) \/ Stream' = Stream
<1>1. CASE ~Served(i)
  BY <1>1, NothingShown DEF Served
<1>2. CASE Served(i)
  <2>1. i \in Sure /\ Sure' = Sure \ {i}
    BY <1>2, StreamStep DEF Sure
  <2>2. Stream' = [j \in Sure \ {i} |-> Shown(j, it[j])]
    BY <2>1, StreamStep
  <2>3. Stream' = [j \in DOMAIN Stream \ {i} |-> Stream[j]]
    BY <2>2, StreamIs
  <2> QED
    BY <2>1, <2>3, StreamIs DEF Promise!GiveUp
<1> QED
  BY <1>1, <1>2

\* The caller sees nothing of the thread, unless a load fails.
LEMMA ThreadStream ==
    ASSUME Tracked, NEW i \in Made, Thread(i)
    PROVE  Promise!GiveUp(i) \/ Stream' = Stream
<1> DEFINE R == it[i]
<1>1. DOMAIN R = Fields /\ R.failures \in Nat
  BY Iterators DEF Sound
<1>2. UNCHANGED conf
  BY DEF Thread, Check, BeginRead, Compare, LoadFile, NameFile, ReadItem, Reset, Fill,
         ReadNothing, PastEnd, OutOfStep, Torn, Mutated, ApplyOrder, GenerateOrder
<1>3. ASSUME NEW pc, NEW seen
      PROVE  Alike(R, [R EXCEPT !.pc = pc]) /\ Alike(R, [R EXCEPT !.pc = pc, !.seen = seen])
  BY <1>1 DEF Alike, Fields
<1>4. ASSUME NEW data, NEW resets
      PROVE  Alike(R, PutIn(R, data, resets))
  BY <1>1 DEF Alike, Fields, PutIn
<1>5. ASSUME NEW r, it' = [it EXCEPT ![i] = r], Alike(R, r)
      PROVE  Stream' = Stream
  BY <1>2, <1>5, NothingShown
<1>6. CASE Check(i)
  <2>1. it' \in {[it EXCEPT ![i] = PutIn(R, <<>>, 0)], [it EXCEPT ![i] = [R EXCEPT !.pc = "item"]]}
    BY <1>6 DEF Check
  <2> HIDE DEF R
  <2> QED
    BY <1>3, <1>4, <1>5, <2>1
<1>7. CASE BeginRead(i)
  <2>1. \E pc, seen : it' = [it EXCEPT ![i] = [R EXCEPT !.pc = pc, !.seen = seen]]
    BY <1>7, Begins
  <2> HIDE DEF R
  <2> QED
    BY <1>3, <1>5, <2>1
<1>8. CASE ReadItem(i)
  <2>1. \E generation, sample, wraps :
            it' = [it EXCEPT ![i] = WithSample(R, generation, sample, wraps)]
    BY <1>8 DEF ReadItem
  <2>2. \A generation, sample, wraps : Alike(R, WithSample(R, generation, sample, wraps))
    BY <1>1, LoopKeeps DEF Alike, Untouched
  <2> HIDE DEF R
  <2> QED
    BY <1>5, <2>1, <2>2
<1>13. CASE Reset(i) \/ Fill(i)
  <2>1. PICK r \in {Continued(WithReset(R)), [WithReset(R) EXCEPT !.pc = "fill"], Continued(R)} :
            it' = [it EXCEPT ![i] = r]
    BY <1>13 DEF Reset, Fill
  <2>2. Untouched(R, r)
    <3> HIDE DEF R
    <3>1. /\ Untouched(R, Continued(WithReset(R))) /\ Untouched(R, Continued(R))
          /\ Untouched(R, [WithReset(R) EXCEPT !.pc = "fill"])
      BY <1>1, LoopKeeps, ContinuedKeeps
    <3> QED
      BY <2>1, <3>1
  <2>3. Alike(R, r)
    BY <2>2 DEF Alike, Untouched
  <2> QED
    BY <1>5, <2>1, <2>3
<1>9. CASE ReadNothing(i)
  <2> DEFINE r == WithoutSample(R)
  <2>1. it' = [it EXCEPT ![i] = r]
    BY <1>9 DEF ReadNothing
  <2>2. r.failures = R.failures + 1
    BY <1>1 DEF WithoutSample, PutIn, Fields
  <2>3. r.failures # 0
    BY <1>1, <2>2
  <2> HIDE DEF r
  <2> QED
    BY <1>2, <2>1, <2>3, Broken
<1>10. CASE PastEnd(i) \/ OutOfStep(i) \/ Torn(i) \/ Mutated(i)
  <2>1. \E pc : it' = [it EXCEPT ![i] = [R EXCEPT !.pc = pc]]
    BY <1>10, Zenon DEF PastEnd, OutOfStep, Torn, Mutated
  <2> HIDE DEF R
  <2> QED
    BY <1>3, <1>5, <2>1
<1>14. CASE Compare(i) \/ LoadFile(i) \/ NameFile(i)
  <2>1. \E pc : it' = [it EXCEPT ![i] = [R EXCEPT !.pc = pc]]
    BY <1>14 DEF Compare, LoadFile, NameFile
  <2> HIDE DEF R
  <2> QED
    BY <1>3, <1>5, <2>1
<1>11. CASE ApplyOrder(i)
  <2>1. \/ it' = [it EXCEPT ![i] = PutIn(R, R.batch, R.resets)]
        \/ \E seen : it' = [it EXCEPT ![i] = [R EXCEPT !.pc = "append", !.seen = seen]]
    BY <1>11 DEF ApplyOrder
  <2> HIDE DEF R
  <2> QED
    BY <1>3, <1>4, <1>5, <2>1
<1>12. CASE GenerateOrder(i)
  <2>1. it' = [it EXCEPT ![i] = PutIn(R, R.batch, R.resets)]
    BY <1>12 DEF GenerateOrder
  <2> HIDE DEF R
  <2> QED
    BY <1>4, <1>5, <2>1
<1> QED
  BY <1>6, <1>7, <1>8, <1>9, <1>10, <1>11, <1>12, <1>13, <1>14 DEF Thread

\* Who is waited for counts right.
LEMMA CalledIsInStep ==
    ASSUME Tracked, NEW i \in Made, Waiting(i), Served(i)
    PROVE  InStep(i)
BY DEF Tracked, Active

\* A call starts a batch, which nobody sees.
LEMMA CallStream ==
    ASSUME Tracked, NEW i \in Made, Call(i)
    PROVE  Stream' = Stream
<1> DEFINE R == it[i]
           r == IF Threaded(i) THEN R ELSE Started(R, i)
<1>1. DOMAIN R = Fields
  BY Iterators
<1>2. it' = [it EXCEPT ![i] = r] /\ UNCHANGED conf
  BY DEF Call
<1>3. Alike(R, r)
  BY <1>1, KeepsFailures DEF Alike
<1> HIDE DEF r
<1> QED
  BY <1>2, <1>3, NothingShown

\* close() neither.
LEMMA CloseStream ==
    ASSUME Tracked, NEW i \in Made, Close(i)
    PROVE  Stream' = Stream
<1> DEFINE R == it[i]
           r == [R EXCEPT !.closed = TRUE]
<1>1. DOMAIN R = Fields
  BY Iterators
<1>2. it' = [it EXCEPT ![i] = r] /\ UNCHANGED conf
  BY DEF Close
<1>3. Alike(R, r)
  BY <1>1 DEF Alike, Fields
<1> HIDE DEF r
<1> QED
  BY <1>2, <1>3, NothingShown

Forward(x, passed, epoch) == [x EXCEPT !.passed = passed, !.epoch = epoch]
Over(x, ended) == [x EXCEPT !.ended = ended]

\* What a step of it may change.
LEMMA ShownAfter ==
    ASSUME NEW i, NEW r, NEW s
    PROVE  /\ s.ended = r.ended =>
                  Shown(i, s) = Forward(Shown(i, r), Len(s.delivered), s.epoch)
           /\ s.delivered = r.delivered /\ s.epoch = r.epoch =>
                  Shown(i, s) = Over(Shown(i, r), s.ended)
<1> DEFINE n == Size(i)
           b == conf.batch
           stop == StopExhausted(i)
           d == Len(r.delivered)
           e == Len(s.delivered)
<1>1. /\ Shown(i, r) = [size |-> n, batch |-> b, stop |-> stop,
                        passed |-> d, epoch |-> r.epoch, ended |-> r.ended]
      /\ Shown(i, s) = [size |-> n, batch |-> b, stop |-> stop,
                        passed |-> e, epoch |-> s.epoch, ended |-> s.ended]
  BY DEF Shown
<1>2. s.delivered = r.delivered => e = d
  OBVIOUS
<1> DEFINE D == {"size", "batch", "stop", "passed", "epoch", "ended"}
           x == Shown(i, r)
           y == Shown(i, s)
<1> HIDE DEF n, b, stop, d, e
<1>3. /\ DOMAIN x = D /\ x.size = n /\ x.batch = b /\ x.stop = stop
      /\ x.passed = d /\ x.epoch = r.epoch /\ x.ended = r.ended
      /\ x = [k \in D |-> x[k]]
  BY <1>1
<1>4. /\ DOMAIN y = D /\ y.size = n /\ y.batch = b /\ y.stop = stop
      /\ y.passed = e /\ y.epoch = s.epoch /\ y.ended = s.ended
      /\ y = [k \in D |-> y[k]]
  BY <1>1
<1> HIDE DEF x, y
<1>5. s.ended = r.ended => y = Forward(x, e, s.epoch)
  BY <1>3, <1>4 DEF Forward
<1>6. s.delivered = r.delivered /\ s.epoch = r.epoch => y = Over(x, s.ended)
  BY <1>2, <1>3, <1>4 DEF Over
<1> QED
  BY <1>5, <1>6 DEF e, x, y

\* next() delivers a batch, and the epoch that goes with it.
LEMMA TakeStream ==
    ASSUME Tracked, NEW i \in Made, Take(i)
    PROVE  (Promise!Deliver(i) /\ i \in DOMAIN Stream) \/ Stream' = Stream
<1> DEFINE R == it[i]
           r == Taken(i)
           b == conf.batch
           n == Size(i)
           stop == StopExhausted(i)
           passed == Len(R.delivered) + b
<1>1. /\ it' = [it EXCEPT ![i] = r] /\ UNCHANGED conf
      /\ Waiting(i) /\ Ready(i) /\ Head(R.queue).data # <<>>
  BY DEF Take, Waiting
<1>2. DOMAIN R = Fields /\ b \in Nat \ {0} /\ n \in Nat /\ Sound(R, b)
  BY Iterators
<1>3. r.failures = R.failures
  BY <1>2, KeepsFailures
<1> HIDE DEF r
<1>4. CASE ~Served(i)
  BY <1>1, <1>3, <1>4, NothingShown DEF Served
<1>5. CASE Served(i)
  <2>1. Counts(R, b, n, h[Top(i)].position, stop)
    BY <1>1, <1>5, CalledIsInStep DEF InStep
  <2>2. /\ ~R.ended /\ r.ended = R.ended /\ Len(r.delivered) = passed
        /\ stop => passed <= n
        /\ r.epoch = IF stop THEN 0 ELSE passed \div n
    BY <1>1, <1>2, <2>1, CountsTaken DEF r
  <2>3. i \in Sure /\ Sure' = Sure
    BY <1>1, <1>3, <1>5, StreamStep DEF Sure, Served
  <2>4. Stream' = [j \in Sure |-> IF j = i THEN Shown(i, r) ELSE Shown(j, it[j])]
    BY <1>1, <2>3, StreamStep
  <2>5. Stream[i] = Shown(i, R)
    BY <2>3, StreamIs
  <2>6. /\ Stream[i].passed = Len(R.delivered) /\ Stream[i].batch = b /\ Stream[i].size = n
        /\ Stream[i].stop = stop /\ Stream[i].ended = R.ended
    BY <2>5 DEF Shown
  <2> DEFINE epoch == IF stop THEN 0 ELSE passed \div n
  <2>7. Len(r.delivered) = passed /\ r.epoch = epoch /\ r.ended = R.ended
    BY <2>2
  <2> HIDE DEF epoch, passed, n, stop, b, R
  <2>8. Shown(i, r) = [Shown(i, R) EXCEPT !.passed = passed, !.epoch = epoch]
    <3>1. Shown(i, r) = Forward(Shown(i, R), Len(r.delivered), r.epoch)
      BY <2>7, ShownAfter
    <3> QED
      BY <2>7, <3>1, Zenon DEF Forward
  <2>9. Stream' = [Stream EXCEPT ![i] = [Stream[i] EXCEPT !.passed = passed, !.epoch = epoch]]
    <3>1. Stream = [j \in Sure |-> Shown(j, it[j])]
      BY StreamIs
    <3> QED
      BY <2>4, <2>5, <2>8, <3>1
  <2>10. Stream' = [Stream EXCEPT ![i].passed = passed, ![i].epoch = epoch]
    BY <2>9
  <2>11. passed = Stream[i].passed + Stream[i].batch
    BY <2>6 DEF passed
  <2>12. epoch = IF Stream[i].stop THEN 0 ELSE passed \div Stream[i].size
    BY <2>6 DEF epoch
  <2>13. ~Stream[i].ended /\ (Stream[i].stop => passed <= Stream[i].size)
    BY <2>2, <2>6
  <2>14. Promise!Deliver(i)
    BY <2>10, <2>11, <2>12, <2>13 DEF Promise!Deliver
  <2> QED
    BY <2>3, <2>14, StreamIs
<1> QED
  BY <1>4, <1>5

\* It stops the iteration when no whole batch is left.
LEMMA StopStream ==
    ASSUME Tracked, NEW i \in Made, StopIteration(i)
    PROVE  (Promise!End(i) /\ i \in DOMAIN Stream) \/ Stream' = Stream
<1> DEFINE R == it[i]
           r == [R EXCEPT !.queue = Tail(@), !.ended = TRUE]
           b == conf.batch
           n == Size(i)
           stop == StopExhausted(i)
<1>1. /\ it' = [it EXCEPT ![i] = r] /\ UNCHANGED conf
      /\ Waiting(i) /\ R.pc = "done" /\ R.queue # <<>> /\ Head(R.queue).data = <<>> /\ stop
  BY DEF StopIteration, Waiting, Ready, AtEnd
<1>2. DOMAIN R = Fields /\ b \in Nat \ {0} /\ n \in Nat /\ Sound(R, b)
  BY Iterators
<1>3. /\ r.failures = R.failures /\ r.delivered = R.delivered /\ r.epoch = R.epoch /\ r.ended = TRUE
  BY <1>2 DEF Fields
<1> HIDE DEF r
<1>4. CASE ~Served(i)
  BY <1>1, <1>3, <1>4, NothingShown DEF Served
<1>5. CASE Served(i)
  <2>1. Counts(R, b, n, h[Top(i)].position, stop)
    BY <1>1, <1>5, CalledIsInStep DEF InStep
  <2>2. Len(R.delivered) + b > n
    BY <1>1, <1>2, <2>1, CountsStopped
  <2>3. i \in Sure /\ Sure' = Sure
    BY <1>1, <1>3, <1>5, StreamStep DEF Sure, Served
  <2>4. Stream' = [j \in Sure |-> IF j = i THEN Shown(i, r) ELSE Shown(j, it[j])]
    BY <1>1, <2>3, StreamStep
  <2>5. Stream[i] = Shown(i, R)
    BY <2>3, StreamIs
  <2>6. /\ Stream[i].passed = Len(R.delivered) /\ Stream[i].batch = b /\ Stream[i].size = n
        /\ Stream[i].stop = stop
    BY <2>5 DEF Shown
  <2> HIDE DEF n, stop, b, R
  <2>7. Shown(i, r) = [Shown(i, R) EXCEPT !.ended = TRUE]
    <3>1. Shown(i, r) = Over(Shown(i, R), r.ended)
      BY <1>3, ShownAfter DEF R
    <3> QED
      BY <1>3, <3>1, Zenon DEF Over, R
  <2>8. Stream' = [Stream EXCEPT ![i] = [Stream[i] EXCEPT !.ended = TRUE]]
    <3>1. Stream = [j \in Sure |-> Shown(j, it[j])]
      BY StreamIs
    <3> QED
      BY <2>4, <2>5, <2>7, <3>1
  <2>9. Promise!End(i)
    BY <1>1, <2>2, <2>6, <2>8 DEF Promise!End
  <2> QED
    BY <2>3, <2>9, StreamIs
<1> QED
  BY <1>4, <1>5

\* And it tries again only when a load has failed.
LEMMA RetryStream ==
    ASSUME Tracked, NEW i \in Made, Retry(i) \/ TakeRetried(i)
    PROVE  Stream' = Stream
<1> DEFINE R == it[i]
           b == conf.batch
           n == Size(i)
           p == h[Top(i)].position
           stop == StopExhausted(i)
<1>1. DOMAIN R = Fields /\ b \in Nat \ {0} /\ n \in Nat /\ UNCHANGED conf
  BY Iterators DEF Retry, TakeRetried
<1>2. CASE TakeRetried(i)
  <2>1. it' = [it EXCEPT ![i] = Taken(i)] /\ Waiting(i) /\ main.pc = "retry" /\ main.at = i
    BY <1>2 DEF TakeRetried, Waiting
  <2>2. ~Served(i)
    BY <2>1, CalledIsInStep DEF InStep
  <2> QED
    BY <1>1, <2>1, <2>2, KeepsFailures, NothingShown DEF Served
<1>3. CASE Retry(i)
  <2>1. /\ it' = [it EXCEPT ![i] = Again(i)] /\ Waiting(i) /\ ~AtEnd(i)
        /\ R.queue # <<>> /\ Head(R.queue).data = <<>>
    BY <1>3 DEF Retry, Ready, Waiting
  <2>2. ~Served(i)
    <3> SUFFICES ASSUME Served(i) PROVE FALSE
      OBVIOUS
    <3>1. Counts(R, b, n, p, stop)
      BY <2>1, CalledIsInStep DEF InStep
    <3>2. Len(Head(R.queue).data) = 0
      BY <2>1, Empty
    <3>3. stop /\ p + b > n /\ p \in Nat
      BY <1>1, <2>1, <3>1, <3>2 DEF Counts, Tally
    <3>4. AtEnd(i)
      BY <1>1, <3>3 DEF AtEnd
    <3> QED
      BY <2>1, <3>4
  <2> QED
    BY <1>1, <2>1, <2>2, KeepsFailures, NothingShown DEF Served
<1> QED
  BY <1>2, <1>3

\* slice() opens a stream and disturbs no other; there is none if the slice has no sample.
LEMMA SliceStream ==
    ASSUME Tracked, Quiet', NEW i \in conf.ranks, Slice(i)
    PROVE  (Promise!Open(i) /\ i \in DOMAIN Stream') \/ Stream' = Stream
<1>1. /\ i \notin Made /\ UNCHANGED conf
      /\ \E r \in {NewIterator(i), [NewIterator(i) EXCEPT !.pc = "fill"]} :
            it' = [j \in Made \cup {i} |-> IF j = i THEN r ELSE it[j]]
  BY TrackedSlice
<1>2. /\ Made' = Made \cup {i} /\ \A j \in Made : it'[j] = it[j]
      /\ it'[i] \in {NewIterator(i), [NewIterator(i) EXCEPT !.pc = "fill"]}
  BY <1>1 DEF Made
<1>3. /\ it'[i].failures = 0 /\ Len(it'[i].delivered) = 0
      /\ it'[i].epoch = 0 /\ ~it'[i].ended
  BY <1>2, NewShows
<1>4. i \notin Sure /\ Sure' = IF Size(i) # 0 THEN Sure \cup {i} ELSE Sure
  BY <1>1, <1>2, <1>3, SameOptions DEF Sure, Served
<1>5. Stream' = [j \in Sure' |-> Shown(j, it'[j])]
  BY <1>1, SameOptions DEF Stream, Sure, Shown
<1>6. /\ DOMAIN Stream = Sure /\ \A j \in Sure : Stream[j] = Shown(j, it[j])
      /\ Stream = [j \in Sure |-> Shown(j, it[j])]
  BY StreamIs
<1>7. \A j \in Sure : j \in Made
  BY DEF Sure
<1>8. CASE Size(i) = 0
  BY <1>2, <1>4, <1>5, <1>6, <1>7, <1>8
<1>9. CASE Size(i) # 0
  <2>1. Sure' = Sure \cup {i}
    BY <1>4, <1>9
  <2>2. Promise!Only(i)
    BY <1>2, <1>4, <1>5, <1>6, <1>7, <2>1 DEF Promise!Only
  <2>3. Stream'[i] = Shown(i, it'[i])
    BY <1>5, <2>1
  <2>4. Stream'[i].passed = 0 /\ Stream'[i].epoch = 0 /\ ~Stream'[i].ended
    BY <1>3, <2>3 DEF Shown
  <2> QED
    BY <1>4, <1>5, <1>6, <2>1, <2>2, <2>4 DEF Promise!Open
<1> QED
  BY <1>8, <1>9

\* Though a thread is a batch ahead of the caller and resets the sources before the caller knows,
\* next() delivers whole batches, epoch counts the passes that were delivered, StopIteration
\* comes when no whole batch is left, and slice() leaves the other iterators where they are, for
\* any stack of sources, size, batch and number of slices (DataIterator.next, _next and slice).
THEOREM Refinement == Spec => ImplementsBatchStream
<1>1. Init => Promise!Init
  <2> SUFFICES ASSUME Init PROVE Promise!Init
    OBVIOUS
  <2>1. Made = {0} /\ it[0] = NewIterator(0)
    BY TrackedInit
  <2>2. /\ Len(it[0].delivered) = 0 /\ it[0].epoch = 0 /\ ~it[0].ended
    BY <2>1, NewShows
  <2>3. \A i \in DOMAIN Stream : i = 0 /\ Stream[i] = Shown(0, it[0])
    BY <2>1, StreamIs DEF Sure
  <2>4. Shown(0, it[0]).passed = 0 /\ Shown(0, it[0]).epoch = 0 /\ ~Shown(0, it[0]).ended
    BY <2>2 DEF Shown
  <2> QED
    BY <2>3, <2>4 DEF Promise!Init
<1>2. Tracked /\ [Next]_vars => [Promise!Next]_Stream
  <2> SUFFICES ASSUME Tracked, [Next]_vars
               PROVE  Promise!Next \/ Stream' = Stream
    OBVIOUS
  <2>1. ASSUME NEW i \in Made, Thread(i)
        PROVE  Promise!Next \/ Stream' = Stream
    <3>1. Promise!GiveUp(i) => i \in DOMAIN Stream
      BY DEF Promise!GiveUp
    <3> QED
      BY <2>1, <3>1, ThreadStream DEF Promise!Next
  <2>2. ASSUME NEW i \in Made, Call(i) \/ Close(i)
        PROVE  Stream' = Stream
    BY <2>2, CallStream, CloseStream
  <2>3. ASSUME NEW i \in Made, Return(i)
        PROVE  Promise!Next \/ Stream' = Stream
    BY <2>3, TakeStream, StopStream, RetryStream DEF Return, Promise!Next
  <2>4. ASSUME NEW i \in conf.ranks, Slice(i)
        PROVE  Promise!Next \/ Stream' = Stream
    <3>1. Quiet'
      BY QuietNext DEF Tracked
    <3> QED
      BY <2>4, <3>1, SliceStream DEF Promise!Next
  <2>5. CASE UNCHANGED vars
    <3>1. Made' = Made /\ it' = it /\ conf' = conf
      BY <2>5 DEF vars, Made
    <3> QED
      BY <3>1, SameOptions DEF Stream, Served
  <2> QED
    BY <2>1, <2>2, <2>3, <2>4, <2>5 DEF Next
<1> QED
  BY <1>1, <1>2, TrackedInit, TrackedNext, PTL DEF Spec, ImplementsBatchStream, Promise!Spec

=============================================================================

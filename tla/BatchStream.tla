----------------------------- MODULE BatchStream -----------------------------
(* What the documentation of nnabla.utils.data_iterator promises to the       *)
(* caller: batches without end, the epoch counted as they are delivered, or,  *)
(* with stop_exhausted, the whole batches of one pass and then StopIteration. *)
EXTENDS Integers

VARIABLE stream     \* for each iterator: its options, samples passed, epoch, ended

Init == \A i \in DOMAIN stream :
            stream[i].passed = 0 /\ stream[i].epoch = 0 /\ ~stream[i].ended

Only(i) == \A j \in DOMAIN stream' : j # i => j \in DOMAIN stream /\ stream'[j] = stream[j]

Open(i) ==
    /\ i \notin DOMAIN stream
    /\ Only(i)
    /\ i \in DOMAIN stream'
    /\ stream'[i].passed = 0 /\ stream'[i].epoch = 0 /\ ~stream'[i].ended

Deliver(i) ==
    LET passed == stream[i].passed + stream[i].batch
    IN  /\ ~stream[i].ended
        /\ stream[i].stop => passed <= stream[i].size
        /\ stream' = [stream EXCEPT
                        ![i].passed = passed,
                        ![i].epoch = IF stream[i].stop THEN 0 ELSE passed \div stream[i].size]

End(i) ==
    /\ stream[i].stop
    /\ stream[i].passed + stream[i].batch > stream[i].size
    /\ stream' = [stream EXCEPT ![i].ended = TRUE]

\* An iterator whose data source failed promises nothing any more.
GiveUp(i) == i \in DOMAIN stream /\ stream' = [j \in DOMAIN stream \ {i} |-> stream[j]]

Next ==
    \/ \E i \in DOMAIN stream : Deliver(i) \/ End(i) \/ GiveUp(i)
    \/ \E i \in DOMAIN stream' : Open(i)

Spec == Init /\ [][Next]_stream
=============================================================================

----------------------------- MODULE Collectives -----------------------------
(* The collective calls of the communicator the ranks of a training share:   *)
(* barrier and all_reduce come back on every rank once all of them have      *)
(* called. The communicator of the CUDA extension is outside this repository. *)
EXTENDS Naturals

VARIABLE asked      \* the collective each rank waits in

NoCall == <<>>

Calls(r, collective) == asked' = [asked EXCEPT ![r] = collective]

\* Every rank has come to this collective.
AllIn(collective) ==
    /\ collective # NoCall
    /\ \A r \in DOMAIN asked : asked[r] = collective

AllReturn == asked' = [r \in DOMAIN asked |-> NoCall]

\* Ranks that wait, wait for the same thing: a communicator would otherwise add up
\* what does not belong together, or never return.
CallsMatch ==
    \A r, s \in DOMAIN asked :
        (asked[r] # NoCall /\ asked[s] # NoCall) => asked[r] = asked[s]
=============================================================================

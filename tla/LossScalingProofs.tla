------------------------- MODULE LossScalingProofs -------------------------
(***************************************************************************)
(* Dynamic loss scaling learns what an unscaled training learns, and the   *)
(* ranks agree, for every program, number of ranks, batches and bounds.    *)
(* What follows an attempt is determined by the attempt (ChainOK), and the *)
(* attempts of all ranks are the same (HeadersAgree): by both, ranks that  *)
(* decide alone decide alike.                                              *)
(***************************************************************************)
EXTENDS LossScaling, FiniteSetTheorems, WellFoundedInduction, TLAPS

\* What an attempt began with.
Header(r, a) ==
    [call |-> log[r][a].call, scale |-> log[r][a].scale,
     counter |-> log[r][a].counter, recursive |-> log[r][a].recursive]

\* The types.
Entry == [call : Nat \ {0}, scale : Int, counter : Nat, recursive : Nat, batches : Seq(Batches)]

Stages == {"idle", "again", "feed", "reduce", "check"}

ControlOK ==
    /\ conf \in Programs
    /\ at \in [Ranks -> Nat \ {0}]
    /\ pc \in [Ranks -> Stages]
    /\ scale \in [Ranks -> Int]
    /\ counter \in [Ranks -> Nat]
    /\ recursive \in [Ranks -> Nat]
    /\ log \in [Ranks -> Seq(Entry)]

InRange == \A r \in Ranks : at[r] <= Len(conf.calls) + 1

\* A solver between updates, and the parameters it has when a program makes its i-th call.
Made(P, st) == [params |-> P, states |-> st, rate |-> FALSE]
Params(i) == {k \in Keys : Registered(k, i)}

SolverOf(r) ==
    /\ solver[r] = Made(Params(at[r]), solver[r].states)
    /\ DOMAIN solver[r].states = Params(at[r])

DomainsOK == DOMAIN solver = Ranks /\ DOMAIN grad = Ranks /\ DOMAIN data = Ranks

\* A rank that is in an attempt, and how many of its attempts are past the all_reduce.
Busy(r) == pc[r] \in {"feed", "reduce", "check"}
Reduced(r) == IF pc[r] \in {"feed", "reduce"} THEN Attempt(r) - 1 ELSE Attempt(r)

Lockstep == \A r, s \in Ranks : Reduced(r) = Reduced(s)

\* The entries of the log.
EntriesOf(r) ==
    \A a \in 1..Attempt(r) :
        /\ Len(log[r][a].batches) <= conf.accumGrad
        /\ log[r][a].call <= at[r]
        /\ log[r][a].call \in 1..Len(conf.calls)
        /\ conf.calls[log[r][a].call].op = "update"
        /\ a < Attempt(r) => Complete(r, a) \/ conf.size = 1
EntriesOK == \A r \in Ranks : EntriesOf(r)

\* The last entry and the stage.
StageOf(r) ==
    /\ pc[r] # "idle" =>
        /\ Attempt(r) >= 1
        /\ log[r][Attempt(r)].call = at[r]
    /\ Busy(r) =>
        /\ log[r][Attempt(r)].scale = scale[r]
        /\ log[r][Attempt(r)].counter = counter[r]
        /\ log[r][Attempt(r)].recursive = recursive[r]
    /\ pc[r] = "feed" => Len(log[r][Attempt(r)].batches) < conf.accumGrad
    /\ pc[r] \in {"reduce", "check", "again"} => Len(log[r][Attempt(r)].batches) = conf.accumGrad
    /\ pc[r] = "reduce" => conf.size > 1
    /\ (pc[r] = "idle" /\ Attempt(r) >= 1) =>
          /\ log[r][Attempt(r)].call < at[r]
          /\ Complete(r, Attempt(r)) \/ conf.size = 1
StageOK == \A r \in Ranks : StageOf(r)

FloorOf(r) ==
    /\ -MaxExp <= scale[r]
    /\ \A a \in 1..Attempt(r) :
        /\ -MaxExp <= log[r][a].scale
        /\ \A i \in 1..Len(log[r][a].batches) :
             log[r][a].scale <= log[r][a].batches[i].limit \/ -MaxExp < log[r][a].scale
FloorOK == \A r \in Ranks : FloorOf(r)

NoUpdate(i, j) == \A m \in i..j : m \in DOMAIN conf.calls => conf.calls[m].op # "update"

\* The updater after an attempt.
ScaleAfter(r, a) ==
    IF ~Complete(r, a) THEN log[r][a].scale
    ELSE IF ~Good(r, a) THEN log[r][a].scale - 1
    ELSE IF Grows(log[r][a].counter) THEN log[r][a].scale + 1 ELSE log[r][a].scale
CounterAfter(r, a) ==
    IF ~Complete(r, a) THEN log[r][a].counter
    ELSE IF ~Good(r, a) THEN 0
    ELSE IF Grows(log[r][a].counter) THEN 1 ELSE log[r][a].counter + 1
Again(r, a) == Complete(r, a) /\ ~Good(r, a) /\ ~Exhausted(log[r][a].recursive + 1)
RecursiveAfter(r, a) ==
    IF ~Complete(r, a) THEN log[r][a].recursive
    ELSE IF Again(r, a) THEN log[r][a].recursive + 1 ELSE 0

\* The scale, counter, retries and call that come after attempt a (0: the start).
Follows(r, a, sc, co, re, ca) ==
    IF a = 0 THEN sc = Scale /\ co = 0 /\ re = 0 /\ NoUpdate(1, ca - 1)
    ELSE /\ sc = ScaleAfter(r, a)
         /\ co = CounterAfter(r, a)
         /\ re = RecursiveAfter(r, a)
         /\ IF Again(r, a) THEN ca = log[r][a].call
            ELSE log[r][a].call < ca /\ NoUpdate(log[r][a].call + 1, ca - 1)

ChainOf(r) ==
    /\ \A a \in 1..Attempt(r) :
        Follows(r, a - 1, log[r][a].scale, log[r][a].counter, log[r][a].recursive, log[r][a].call)
    /\ ~Busy(r) => Follows(r, Attempt(r), scale[r], counter[r], recursive[r], at[r])
    /\ (pc[r] = "again") => Again(r, Attempt(r))
    /\ (pc[r] = "idle" /\ Attempt(r) >= 1) => ~Again(r, Attempt(r))
ChainOK == \A r \in Ranks : ChainOf(r)

HeadersAgree ==
    \A r, s \in Ranks : \A a \in 1..Attempt(r) : a <= Attempt(s) => Header(r, a) = Header(s, a)

\* The greatest scale with which a batch is finite.
Limit(r, a, i) == log[r][a].batches[i].limit

\* The gradient of a parameter on a rank that feeds, and after all have met in all_reduce.
Own(r, k) ==
    [zeroing |-> Reaching(r, Attempt(r), k) = {},
     terms |-> {Term(r, Attempt(r), i, log[r][Attempt(r)].scale) : i \in Reaching(r, Attempt(r), k)},
     finite |-> \A i \in Reaching(r, Attempt(r), k) :
                    log[r][Attempt(r)].scale <= Limit(r, Attempt(r), i)]
Total(r, k) ==
    [zeroing |-> conf.size = 1 /\ Reaching(r, Attempt(r), k) = {},
     terms |-> Gathered(Attempt(r), k, log[r][Attempt(r)].scale),
     finite |-> \A s \in Ranks : \A i \in Reaching(s, Attempt(r), k) :
                    log[r][Attempt(r)].scale <= Limit(s, Attempt(r), i)]
GradOf(r) ==
    \A k \in Keys : Registered(k, at[r]) =>
        /\ pc[r] \in {"feed", "reduce"} => grad[r][k] = Own(r, k)
        /\ pc[r] = "check" => grad[r][k] = Total(r, k)
GradExact == \A r \in Ranks : GradOf(r)

\* The updates since a parameter was given its state.
Momentum(r, k) == {b \in Due(r, k) : ~\E j \in (log[r][b].call)..(at[r] - 1) : Anew(j, k)}
StatesOf(r) ==
    solver[r] = Made(Params(at[r]), [k \in Params(at[r]) |-> Momentum(r, k)])
StatesExact == \A r \in Ranks : StatesOf(r)

DataOf(r) == data[r] = [k \in Keys |-> {Unscaled(r, k, a) : a \in Due(r, k)}]
DataExact == \A r \in Ranks : DataOf(r)

---------------------------------------------------------------------------
\* A sequence and one more element.
LEMMA AppendFacts ==
    ASSUME NEW T, NEW q \in Seq(T), NEW x \in T
    PROVE  /\ Append(q, x) \in Seq(T)
           /\ Len(Append(q, x)) = Len(q) + 1
           /\ Append(q, x)[Len(q) + 1] = x
           /\ \A i \in 1..Len(q) : Append(q, x)[i] = q[i]
           /\ Len(q) \in Nat
OBVIOUS

\* A function changed at one argument keeps its type and its other values.
LEMMA ExceptFacts ==
    ASSUME NEW S, NEW T, NEW f \in [S -> T], NEW r \in S, NEW x \in T
    PROVE  /\ [f EXCEPT ![r] = x] \in [S -> T]
           /\ [f EXCEPT ![r] = x][r] = x
           /\ \A s \in S \ {r} : [f EXCEPT ![r] = x][s] = f[s]
OBVIOUS

\* What is assumed of a program.
LEMMA ConfFields ==
    ASSUME conf \in Programs
    PROVE  /\ conf.size \in Nat \ {0}
           /\ conf.accumGrad \in Nat \ {0}
           /\ conf.fails => conf.size = 1
           /\ conf.calls \in Seq(Calls)
           /\ 1 \in Ranks
BY ProgramAssumption DEF Ranks

\* The log of a rank is a sequence of attempts.
LEMMA Attempts ==
    ASSUME ControlOK
    PROVE  \A s \in Ranks : log[s] \in Seq(Entry) /\ Attempt(s) \in Nat
BY DEF ControlOK, Attempt

\* update() begins an attempt without batches and changes no earlier one.
LEMMA LogBegin ==
    ASSUME ControlOK, NEW r \in Ranks, Begin(r)
    PROVE  /\ Attempt(r) \in Nat
           /\ log' \in [Ranks -> Seq(Entry)]
           /\ Attempt(r)' = Attempt(r) + 1
           /\ \A a \in 1..Attempt(r) : log'[r][a] = log[r][a]
           /\ log'[r][Attempt(r) + 1] = [call |-> at[r], scale |-> scale[r], counter |-> counter[r],
                                recursive |-> recursive[r], batches |-> <<>>]
           /\ \A s \in Ranks \ {r} : log'[s] = log[s]
<1> DEFINE e == [call |-> at[r], scale |-> scale[r], counter |-> counter[r],
                 recursive |-> recursive[r], batches |-> <<>>]
<1>1. e \in Entry
  BY DEF ControlOK, Entry
<1>2. log[r] \in Seq(Entry) /\ log \in [Ranks -> Seq(Entry)]
  BY DEF ControlOK
<1>3. log' = [log EXCEPT ![r] = Append(log[r], e)]
  BY DEF Begin
<1>4. log'[r] = Append(log[r], e) /\ \A s \in Ranks \ {r} : log'[s] = log[s]
  BY <1>2, <1>3
<1> HIDE DEF e
<1>5. Append(log[r], e) \in Seq(Entry) /\ Len(Append(log[r], e)) = Len(log[r]) + 1
      /\ (\A a \in 1..Len(log[r]) : Append(log[r], e)[a] = log[r][a])
      /\ Append(log[r], e)[Len(log[r]) + 1] = e /\ Len(log[r]) \in Nat
  BY <1>1, <1>2
<1>6. log' \in [Ranks -> Seq(Entry)]
  BY <1>2, <1>3, <1>5
<1> QED BY <1>4, <1>5, <1>6 DEF Attempt, e

\* A fed batch is the last of the attempt the rank is in.
LEMMA LogFeed ==
    ASSUME ControlOK, StageOK, NEW r \in Ranks, FeedForwardBackward(r)
    PROVE  /\ Attempt(r) \in Nat \ {0}
           /\ Fed(r) \in Nat /\ log[r][Attempt(r)].batches \in Seq(Batches)
           /\ log' \in [Ranks -> Seq(Entry)]
           /\ Attempt(r)' = Attempt(r)
           /\ \A a \in 1..(Attempt(r) - 1) : log'[r][a] = log[r][a]
           /\ \E b \in Batches :
                /\ scale[r] <= b.limit \/ -MaxExp < scale[r]
                /\ grad' = [grad EXCEPT ![r] = Backward(grad[r], b, Term(r, Attempt(r), Fed(r) + 1, scale[r]))]
                /\ Len(log'[r][Attempt(r)].batches) = Fed(r) + 1
                /\ log'[r][Attempt(r)].batches[Fed(r) + 1] = b
                /\ \A i \in 1..Fed(r) : log'[r][Attempt(r)].batches[i] = log[r][Attempt(r)].batches[i]
           /\ log'[r][Attempt(r)].call = log[r][Attempt(r)].call
           /\ log'[r][Attempt(r)].scale = log[r][Attempt(r)].scale
           /\ log'[r][Attempt(r)].counter = log[r][Attempt(r)].counter
           /\ log'[r][Attempt(r)].recursive = log[r][Attempt(r)].recursive
           /\ \A s \in Ranks \ {r} : log'[s] = log[s]
<1> DEFINE n == Attempt(r)
<1>1. log[r] \in Seq(Entry) /\ log \in [Ranks -> Seq(Entry)]
  BY DEF ControlOK
<1>2. n \in 1..Len(log[r]) /\ n \in Nat \ {0} /\ n = Len(log[r])
  BY <1>1 DEF StageOK, StageOf, FeedForwardBackward, Attempt
<1>3. log[r][n] \in Entry
  BY <1>1, <1>2
<1>4. PICK b \in Batches :
        /\ scale[r] <= b.limit \/ -MaxExp < scale[r]
        /\ grad' = [grad EXCEPT ![r] = Backward(grad[r], b, Term(r, n, Fed(r) + 1, scale[r]))]
        /\ log' = [log EXCEPT ![r] =
                    [log[r] EXCEPT ![n] =
                        [log[r][n] EXCEPT !.batches = Append(log[r][n].batches, b)]]]
  BY DEF FeedForwardBackward
<1>5. log[r][n].batches \in Seq(Batches) /\ Append(log[r][n].batches, b) \in Seq(Batches)
      /\ Len(Append(log[r][n].batches, b)) = Len(log[r][n].batches) + 1
      /\ Append(log[r][n].batches, b)[Len(log[r][n].batches) + 1] = b
      /\ (\A i \in 1..Len(log[r][n].batches) :
            Append(log[r][n].batches, b)[i] = log[r][n].batches[i])
      /\ Len(log[r][n].batches) \in Nat
  <2>1. log[r][n].batches \in Seq(Batches)
    BY <1>3 DEF Entry
  <2> QED BY <2>1, AppendFacts
<1> DEFINE e == [log[r][n] EXCEPT !.batches = Append(log[r][n].batches, b)]
<1>6. e \in Entry /\ e.batches = Append(log[r][n].batches, b) /\ e.call = log[r][n].call
      /\ e.scale = log[r][n].scale /\ e.counter = log[r][n].counter
      /\ e.recursive = log[r][n].recursive
  BY <1>3, <1>5 DEF Entry
<1>7. log' = [log EXCEPT ![r] = [log[r] EXCEPT ![n] = e]]
  BY <1>4
<1> HIDE DEF e
<1>8. /\ [log[r] EXCEPT ![n] = e] \in Seq(Entry)
      /\ Len([log[r] EXCEPT ![n] = e]) = n
      /\ [log[r] EXCEPT ![n] = e][n] = e
      /\ \A a \in 1..(n - 1) : [log[r] EXCEPT ![n] = e][a] = log[r][a]
  BY <1>1, <1>2, <1>6
<1>9. log' \in [Ranks -> Seq(Entry)] /\ log'[r] = [log[r] EXCEPT ![n] = e]
      /\ \A s \in Ranks \ {r} : log'[s] = log[s]
  BY <1>1, <1>7, <1>8
<1>10. /\ Attempt(r)' = n
       /\ \A a \in 1..(n - 1) : log'[r][a] = log[r][a]
       /\ log'[r][n] = e
  BY <1>8, <1>9 DEF Attempt
<1>12. /\ log'[r][n].call = log[r][n].call
       /\ log'[r][n].scale = log[r][n].scale
       /\ log'[r][n].counter = log[r][n].counter
       /\ log'[r][n].recursive = log[r][n].recursive
  BY <1>6, <1>10
<1>13. Fed(r) = Len(log[r][n].batches)
  BY DEF Fed
<1>14. log'[r][n].batches = Append(log[r][n].batches, b)
  BY <1>6, <1>10
<1>15. /\ Len(log'[r][n].batches) = Fed(r) + 1
       /\ log'[r][n].batches[Fed(r) + 1] = b
       /\ \A i \in 1..Fed(r) : log'[r][n].batches[i] = log[r][n].batches[i]
  BY <1>5, <1>13, <1>14
<1>16. \E c \in Batches :
        /\ scale[r] <= c.limit \/ -MaxExp < scale[r]
        /\ grad' = [grad EXCEPT ![r] = Backward(grad[r], c, Term(r, n, Fed(r) + 1, scale[r]))]
        /\ Len(log'[r][n].batches) = Fed(r) + 1
        /\ log'[r][n].batches[Fed(r) + 1] = c
        /\ \A i \in 1..Fed(r) : log'[r][n].batches[i] = log[r][n].batches[i]
  <2> HIDE DEF n
  <2> QED BY <1>4, <1>14, <1>15
<1>17. Fed(r) \in Nat
  BY <1>5, <1>13
<1> QED BY <1>2, <1>5, <1>17, <1>9, <1>10, <1>12, <1>16

---------------------------------------------------------------------------
\* An entry that stays keeps its header.
LEMMA HeaderSame ==
    ASSUME NEW s, NEW a, log'[s][a] = log[s][a]
    PROVE  Header(s, a)' = Header(s, a)
BY DEF Header

\* Entries with one header were begun alike.
LEMMA HeaderFields ==
    ASSUME NEW s, NEW a, NEW r, Header(s, a) = Header(r, a)
    PROVE  /\ log[s][a].call = log[r][a].call
           /\ log[s][a].scale = log[r][a].scale
           /\ log[s][a].counter = log[r][a].counter
           /\ log[s][a].recursive = log[r][a].recursive
BY DEF Header

\* A header that stays keeps its fields.
LEMMA HeaderFieldsStay ==
    ASSUME NEW s, NEW a, Header(s, a)' = Header(s, a)
    PROVE  /\ log'[s][a].call = log[s][a].call
           /\ log'[s][a].scale = log[s][a].scale
           /\ log'[s][a].counter = log[s][a].counter
           /\ log'[s][a].recursive = log[s][a].recursive
BY DEF Header

\* Steps that log nothing move no attempt.
LEMMA LogStays ==
    ASSUME ControlOK, log' = log
    PROVE  \A s \in Ranks :
            /\ Attempt(s) \in Nat /\ Attempt(s)' = Attempt(s)
            /\ \A a \in 1..Attempt(s) : Header(s, a)' = Header(s, a)
            /\ \A a \in 1..Reduced(s) : log'[s][a] = log[s][a]
<1>1. \A s \in Ranks : log[s] \in Seq(Entry)
  BY DEF ControlOK
<1> QED BY <1>1 DEF Attempt, Header

Moves(s) ==
    /\ Attempt(s) \in Nat /\ Attempt(s)' \in Nat /\ Attempt(s) <= Attempt(s)'
    /\ \A a \in 1..Attempt(s) : Header(s, a)' = Header(s, a)
    /\ \A a \in 1..Reduced(s) : log'[s][a] = log[s][a]

\* A step adds an attempt or a batch to the last one, and leaves what all ranks have reduced.
LEMMA LogMoves ==
    ASSUME ControlOK, StageOK, [Next]_vars
    PROVE  conf' = conf /\ Ranks' = Ranks /\ \A s \in Ranks : Moves(s)
<1>1. CASE UNCHANGED vars
  BY <1>1, LogStays DEF vars, Moves, Ranks
<1>2. CASE AllReduce
  BY <1>2, LogStays DEF AllReduce, Moves, Ranks
<1>3. ASSUME NEW r \in Ranks, Step(r)
      PROVE  conf' = conf /\ Ranks' = Ranks /\ \A s \in Ranks : Moves(s)
  <2>1. CASE ChangeParameters(r)
    BY <2>1, LogStays DEF ChangeParameters, Moves, Ranks
  <2>2. CASE Begin(r)
    <3>1. \A s \in Ranks \ {r} : Attempt(s) \in Nat /\ log'[s] = log[s]
      BY <2>2, LogBegin, Attempts
    <3>2. \A s \in Ranks \ {r} : Moves(s)
      BY <3>1 DEF Moves, Attempt, Header
    <3>3. /\ Attempt(r) \in Nat /\ Attempt(r)' = Attempt(r) + 1
          /\ \A a \in 1..Attempt(r) : log'[r][a] = log[r][a]
      BY <2>2, LogBegin
    <3>4. Reduced(r) = Attempt(r)
      BY <2>2 DEF Begin, Reduced
    <3>5. Moves(r)
      BY <3>3, <3>4, HeaderSame DEF Moves
    <3> QED BY <2>2, <3>2, <3>5 DEF Begin, Ranks
  <2>3. CASE FeedForwardBackward(r)
    <3>1. \A s \in Ranks \ {r} : Attempt(s) \in Nat /\ log'[s] = log[s]
      BY <2>3, LogFeed, Attempts
    <3>2. \A s \in Ranks \ {r} : Moves(s)
      BY <3>1 DEF Moves, Attempt, Header
    <3>3. /\ Attempt(r) \in Nat \ {0} /\ Attempt(r)' = Attempt(r)
          /\ \A a \in 1..(Attempt(r) - 1) : log'[r][a] = log[r][a]
          /\ log'[r][Attempt(r)].call = log[r][Attempt(r)].call
          /\ log'[r][Attempt(r)].scale = log[r][Attempt(r)].scale
          /\ log'[r][Attempt(r)].counter = log[r][Attempt(r)].counter
          /\ log'[r][Attempt(r)].recursive = log[r][Attempt(r)].recursive
      BY <2>3, LogFeed
    <3>4. Reduced(r) = Attempt(r) - 1
      BY <2>3 DEF FeedForwardBackward, Reduced
    <3>5. \A a \in 1..Attempt(r) : a \in 1..(Attempt(r) - 1) \/ a = Attempt(r)
      BY <3>3
    <3>6. \A a \in 1..Attempt(r) : Header(r, a)' = Header(r, a)
      <4> TAKE a \in 1..Attempt(r)
      <4>1. CASE a \in 1..(Attempt(r) - 1)
        BY <4>1, <3>3, HeaderSame
      <4>2. CASE a = Attempt(r)
        BY <4>2, <3>3 DEF Header
      <4> QED BY <4>1, <4>2, <3>5
    <3>8. Moves(r)
      BY <3>3, <3>4, <3>6 DEF Moves
    <3> QED BY <2>3, <3>2, <3>8 DEF FeedForwardBackward, Ranks
  <2>4. CASE FeederRaises(r)
    BY <2>4, LogStays DEF FeederRaises, Moves, Ranks
  <2>5. CASE Overflow(r)
    BY <2>5, LogStays DEF Overflow, Moves, Ranks
  <2>6. CASE Update(r)
    BY <2>6, LogStays DEF Update, Moves, Ranks
  <2> QED BY <1>3, <2>1, <2>2, <2>3, <2>4, <2>5, <2>6 DEF Step
<1> QED BY <1>1, <1>2, <1>3 DEF Next

\* What is registered when follows from the program alone.
LEMMA CallsStay ==
    ASSUME conf' = conf
    PROVE  /\ \A k, i : Registered(k, i)' = Registered(k, i)
           /\ \A k, i : Anew(i, k)' = Anew(i, k)
           /\ \A i, j : NoUpdate(i, j)' = NoUpdate(i, j)
<1>1. \A k, i : Sets(i, k)' = Sets(i, k) /\ Drops(i, k)' = Drops(i, k)
  BY DEF Sets, Drops
<1>2. \A k, i : Registered(k, i)' = Registered(k, i)
  BY <1>1 DEF Registered
<1>3. \A k, i : Anew(i, k)' = Anew(i, k)
  BY <1>1, <1>2 DEF Anew
<1> QED BY <1>2, <1>3 DEF NoUpdate

\* What was decided about an attempt does not change any more.
LEMMA PastStays ==
    ASSUME ControlOK, StageOK, Lockstep, [Next]_vars, NEW r \in Ranks, NEW a \in 1..Reduced(r)
    PROVE  /\ \A s \in Ranks : log'[s][a] = log[s][a]
           /\ Complete(r, a)' = Complete(r, a)
           /\ Good(r, a)' = Good(r, a)
           /\ \A s \in Ranks : \A k : Reaching(s, a, k)' = Reaching(s, a, k)
<1>1. conf' = conf /\ Ranks' = Ranks
  BY LogMoves
<1>2. \A s \in Ranks : log'[s][a] = log[s][a]
  BY LogMoves DEF Lockstep, Moves
<1>3. \A k, i : Registered(k, i)' = Registered(k, i)
  BY <1>1, CallsStay
<1>4. Complete(r, a)' = Complete(r, a)
  BY <1>1, <1>2 DEF Complete
<1>5. Good(r, a)' = Good(r, a)
  BY <1>1, <1>2, <1>3 DEF Good
<1>6. \A s \in Ranks : \A k : Reaching(s, a, k)' = Reaching(s, a, k)
  BY <1>2 DEF Reaching
<1> QED BY <1>1, <1>2, <1>4, <1>5, <1>6

---------------------------------------------------------------------------
\* A call that returns leads to the next one, or past the last.
LEMMA ReturnTypes ==
    ASSUME ControlOK, InRange, NEW r \in Ranks, at[r] <= Len(conf.calls), Len(conf.calls) \in Nat,
           at' = [at EXCEPT ![r] = at[r] + 1]
    PROVE  /\ at' \in [Ranks -> Nat \ {0}]
           /\ \A s \in Ranks : at'[s] <= Len(conf.calls) + 1
<1>1. at \in [Ranks -> Nat \ {0}] /\ \A s \in Ranks : at[s] <= Len(conf.calls) + 1
  BY DEF ControlOK, InRange
<1>2. at[r] + 1 \in Nat \ {0}
  BY <1>1
<1>3. /\ at' \in [Ranks -> Nat \ {0}]
      /\ at'[r] = at[r] + 1
      /\ \A s \in Ranks \ {r} : at'[s] = at[s]
  BY <1>1, <1>2, ExceptFacts
<1> QED BY <1>1, <1>3

\* Steps keep the types, and a rank stays within its program.
LEMMA ControlStep ==
    ASSUME ControlOK, InRange, StageOK, EntriesOK, [Next]_vars
    PROVE  ControlOK' /\ InRange'
<1>0. conf' = conf /\ Ranks' = Ranks
  BY LogMoves
<1>1. /\ conf \in Programs
      /\ at \in [Ranks -> Nat \ {0}]
      /\ pc \in [Ranks -> Stages]
      /\ scale \in [Ranks -> Int]
      /\ counter \in [Ranks -> Nat]
      /\ recursive \in [Ranks -> Nat]
      /\ log \in [Ranks -> Seq(Entry)]
      /\ \A r \in Ranks : at[r] <= Len(conf.calls) + 1
  BY DEF ControlOK, InRange
<1>2. Len(conf.calls) \in Nat /\ DOMAIN conf.calls = 1..Len(conf.calls)
  BY <1>1, ConfFields
<1>a. SUFFICES /\ at' \in [Ranks -> Nat \ {0}]
               /\ pc' \in [Ranks -> Stages]
               /\ scale' \in [Ranks -> Int]
               /\ counter' \in [Ranks -> Nat]
               /\ recursive' \in [Ranks -> Nat]
               /\ log' \in [Ranks -> Seq(Entry)]
               /\ \A r \in Ranks : at'[r] <= Len(conf.calls) + 1
  BY <1>0, <1>1 DEF ControlOK, InRange
<1>3. CASE UNCHANGED vars
  BY <1>3, <1>1 DEF vars, updater, memory
<1>4. CASE AllReduce
  BY <1>4, <1>1 DEF AllReduce, updater, Stages
<1>5. ASSUME NEW r \in Ranks, Step(r)
      PROVE  /\ at' \in [Ranks -> Nat \ {0}]
             /\ pc' \in [Ranks -> Stages]
             /\ scale' \in [Ranks -> Int]
             /\ counter' \in [Ranks -> Nat]
             /\ recursive' \in [Ranks -> Nat]
             /\ log' \in [Ranks -> Seq(Entry)]
             /\ \A s \in Ranks : at'[s] <= Len(conf.calls) + 1
  <2>0. pc[r] # "idle" => at[r] <= Len(conf.calls)
    <3>1. EntriesOf(r) /\ StageOf(r) /\ Attempt(r) \in Nat
      BY Attempts DEF StageOK, EntriesOK
    <3>2. \A a \in 1..Attempt(r) : log[r][a].call \in 1..Len(conf.calls)
      BY <3>1 DEF EntriesOf
    <3>3. pc[r] # "idle" => Attempt(r) >= 1 /\ log[r][Attempt(r)].call = at[r]
      BY <3>1 DEF StageOf
    <3> QED BY <3>1, <3>2, <3>3, <1>2
  <2>1. CASE ChangeParameters(r)
    <3>1. at' \in [Ranks -> Nat \ {0}] /\ \A s \in Ranks : at'[s] <= Len(conf.calls) + 1
      <4>1. at[r] \in DOMAIN conf.calls /\ at' = [at EXCEPT ![r] = at[r] + 1]
        BY <2>1 DEF ChangeParameters
      <4>2. at[r] <= Len(conf.calls)
        BY <4>1, <1>2
      <4> QED BY <4>1, <4>2, <1>2, ReturnTypes
    <3> QED BY <2>1, <3>1, <1>1 DEF ChangeParameters, updater
  <2>2. CASE Begin(r)
    <3>1. log' \in [Ranks -> Seq(Entry)]
      BY <2>2, LogBegin
    <3> QED BY <2>2, <3>1, <1>1 DEF Begin, updater, Stages
  <2>3. CASE FeedForwardBackward(r)
    <3>1. log' \in [Ranks -> Seq(Entry)]
      BY <2>3, LogFeed
    <3> QED BY <2>3, <3>1, <1>1 DEF FeedForwardBackward, updater, Stages
  <2>4. CASE FeederRaises(r)
    <3>1. at' \in [Ranks -> Nat \ {0}] /\ \A s \in Ranks : at'[s] <= Len(conf.calls) + 1
      BY <2>4, <2>0, <1>2, ReturnTypes DEF FeederRaises
    <3> QED BY <2>4, <3>1, <1>1 DEF FeederRaises, updater, Stages
  <2>5. CASE Overflow(r)
    <3>0. pc[r] = "check" /\ log' = log
      BY <2>5 DEF Overflow
    <3>1. scale' \in [Ranks -> Int] /\ counter' \in [Ranks -> Nat]
      BY <2>5, <1>1 DEF Overflow
    <3>4. \A x \in Stages : [pc EXCEPT ![r] = x] \in [Ranks -> Stages]
      BY <1>1, ExceptFacts
    <3>2. /\ at' \in [Ranks -> Nat \ {0}]
          /\ pc' \in [Ranks -> Stages]
          /\ recursive' \in [Ranks -> Nat]
          /\ \A s \in Ranks : at'[s] <= Len(conf.calls) + 1
      <4>1. CASE Exhausted(recursive[r] + 1)
        <5>1. /\ recursive' = [recursive EXCEPT ![r] = 0]
              /\ pc' = [pc EXCEPT ![r] = "idle"]
              /\ at' = [at EXCEPT ![r] = at[r] + 1]
          BY <4>1, <2>5 DEF Overflow
        <5>2. recursive' \in [Ranks -> Nat] /\ pc' \in [Ranks -> Stages]
          BY <5>1, <1>1, <3>4 DEF Stages
        <5> QED BY <5>1, <5>2, <3>0, <2>0, <1>2, ReturnTypes
      <4>2. CASE ~Exhausted(recursive[r] + 1)
        <5>1. /\ recursive' = [recursive EXCEPT ![r] = recursive[r] + 1]
              /\ pc' = [pc EXCEPT ![r] = "again"]
              /\ at' = at
          BY <4>2, <2>5 DEF Overflow
        <5>2. recursive' \in [Ranks -> Nat] /\ pc' \in [Ranks -> Stages]
          BY <5>1, <1>1, <3>4 DEF Stages
        <5> QED BY <5>1, <5>2, <1>1
      <4> QED BY <4>1, <4>2
    <3> QED BY <3>0, <3>1, <3>2, <1>1
  <2>6. CASE Update(r)
    <3>0. /\ pc[r] = "check" /\ log' = log
          /\ at' = [at EXCEPT ![r] = at[r] + 1]
          /\ pc' = [pc EXCEPT ![r] = "idle"]
          /\ recursive' = [recursive EXCEPT ![r] = 0]
      BY <2>6 DEF Update
    <3>1. scale' \in [Ranks -> Int] /\ counter' \in [Ranks -> Nat]
      <4>1. CASE Grows(counter[r])
        <5>1. scale' = [scale EXCEPT ![r] = scale[r] + 1] /\ counter' = [counter EXCEPT ![r] = 1]
          BY <4>1, <2>6 DEF Update
        <5> QED BY <5>1, <1>1
      <4>2. CASE ~Grows(counter[r])
        <5>1. scale' = scale /\ counter' = [counter EXCEPT ![r] = counter[r] + 1]
          BY <4>2, <2>6 DEF Update
        <5> QED BY <5>1, <1>1
      <4> QED BY <4>1, <4>2
    <3>2. recursive' \in [Ranks -> Nat] /\ pc' \in [Ranks -> Stages]
      BY <3>0, <1>1 DEF Stages
    <3> QED BY <3>0, <3>1, <3>2, <2>0, <1>1, <1>2, ReturnTypes
  <2> QED BY <1>5, <2>1, <2>2, <2>3, <2>4, <2>5, <2>6 DEF Step
<1> QED BY <1>3, <1>4, <1>5 DEF Next

---------------------------------------------------------------------------
\* What a rank does, it does to itself.
Still(s) ==
    /\ at'[s] = at[s] /\ pc'[s] = pc[s]
    /\ scale'[s] = scale[s] /\ counter'[s] = counter[s] /\ recursive'[s] = recursive[s]
    /\ log'[s] = log[s]
    /\ solver'[s] = solver[s] /\ grad'[s] = grad[s] /\ data'[s] = data[s]

\* A function changed at one argument, whatever its values.
LEMMA Elsewhere ==
    ASSUME NEW S, NEW f, DOMAIN f = S, NEW r \in S, NEW x
    PROVE  /\ DOMAIN [f EXCEPT ![r] = x] = S
           /\ [f EXCEPT ![r] = x][r] = x
           /\ \A s \in S \ {r} : [f EXCEPT ![r] = x][s] = f[s]
OBVIOUS

\* Every part of the updater has one value per rank.
LEMMA Domains ==
    ASSUME ControlOK
    PROVE  /\ DOMAIN at = Ranks /\ DOMAIN pc = Ranks /\ DOMAIN scale = Ranks
           /\ DOMAIN counter = Ranks /\ DOMAIN recursive = Ranks /\ DOMAIN log = Ranks
BY DEF ControlOK

\* A call of the solver, for the rank that makes it.
LEMMA ChangeFacts ==
    ASSUME ControlOK, DomainsOK, NEW r \in Ranks, ChangeParameters(r)
    PROVE  /\ pc[r] = "idle" /\ pc'[r] = "idle"
           /\ at[r] \in DOMAIN conf.calls /\ Call(r).op # "update"
           /\ at'[r] = at[r] + 1
           /\ scale'[r] = scale[r] /\ counter'[r] = counter[r] /\ recursive'[r] = recursive[r]
           /\ log' = log /\ grad' = grad /\ data' = data
           /\ solver'[r] = Changed(solver[r], Call(r))
           /\ \A s \in Ranks \ {r} : Still(s)
           /\ DOMAIN solver' = Ranks
BY Domains, Elsewhere DEF ChangeParameters, Still, DomainsOK, updater

\* The beginning of update(), for the rank that calls it.
LEMMA BeginFacts ==
    ASSUME ControlOK, DomainsOK, NEW r \in Ranks, Begin(r)
    PROVE  /\ \/ pc[r] = "again"
              \/ pc[r] = "idle" /\ at[r] \in DOMAIN conf.calls /\ Call(r).op = "update"
           /\ pc'[r] = "feed"
           /\ at'[r] = at[r]
           /\ scale'[r] = scale[r] /\ counter'[r] = counter[r] /\ recursive'[r] = recursive[r]
           /\ solver' = solver /\ data' = data
           /\ grad'[r] = ZeroGrad(solver[r], grad[r])
           /\ \A s \in Ranks \ {r} : Still(s)
           /\ DOMAIN grad' = Ranks
BY Domains, Elsewhere, LogBegin DEF Begin, Still, DomainsOK, updater

\* A batch: the rank feeds another, meets the others, or checks.
LEMMA FeedFacts ==
    ASSUME ControlOK, DomainsOK, StageOK, NEW r \in Ranks, FeedForwardBackward(r)
    PROVE  /\ pc[r] = "feed"
           /\ pc'[r] = IF Fed(r) + 1 < conf.accumGrad THEN "feed"
                       ELSE IF conf.size > 1 THEN "reduce" ELSE "check"
           /\ at'[r] = at[r]
           /\ scale'[r] = scale[r] /\ counter'[r] = counter[r] /\ recursive'[r] = recursive[r]
           /\ solver' = solver /\ data' = data
           /\ \A s \in Ranks \ {r} : Still(s)
           /\ DOMAIN grad' = Ranks
<1>1. PICK b \in Batches :
        grad' = [grad EXCEPT ![r] = Backward(grad[r], b, Term(r, Attempt(r), Fed(r) + 1, scale[r]))]
  BY DEF FeedForwardBackward
<1>2. DOMAIN grad' = Ranks /\ \A s \in Ranks \ {r} : grad'[s] = grad[s]
  BY <1>1, Elsewhere DEF DomainsOK
<1>3. \A s \in Ranks \ {r} : log'[s] = log[s]
  BY LogFeed
<1> QED BY <1>2, <1>3, Domains, Elsewhere DEF FeedForwardBackward, Still, DomainsOK, updater

\* A feeder that raises leaves update() and changes nothing else.
LEMMA RaiseFacts ==
    ASSUME ControlOK, DomainsOK, NEW r \in Ranks, FeederRaises(r)
    PROVE  /\ conf.size = 1
           /\ pc[r] = "feed" /\ pc'[r] = "idle"
           /\ at'[r] = at[r] + 1
           /\ scale' = scale /\ counter' = counter /\ recursive' = recursive
           /\ log' = log /\ solver' = solver /\ data' = data /\ grad' = grad
           /\ \A s \in Ranks \ {r} : Still(s)
<1>1. conf.size = 1
  BY ConfFields DEF FeederRaises, ControlOK
<1> QED BY <1>1, Domains, Elsewhere DEF FeederRaises, Still, DomainsOK, updater, memory

\* An inf or a nan: the scale halves, and the rank retries or gives up.
LEMMA OverflowFacts ==
    ASSUME ControlOK, DomainsOK, NEW r \in Ranks, Overflow(r)
    PROVE  /\ pc[r] = "check"
           /\ CheckInfOrNanGrad(solver[r], grad[r])
           /\ scale'[r] = scale[r] - 1 /\ counter'[r] = 0
           /\ Exhausted(recursive[r] + 1) =>
                recursive'[r] = 0 /\ pc'[r] = "idle" /\ at'[r] = at[r] + 1
           /\ ~Exhausted(recursive[r] + 1) =>
                recursive'[r] = recursive[r] + 1 /\ pc'[r] = "again" /\ at'[r] = at[r]
           /\ log' = log /\ solver' = solver /\ data' = data /\ grad' = grad
           /\ \A s \in Ranks \ {r} : Still(s)
<1>1. /\ pc[r] = "check" /\ CheckInfOrNanGrad(solver[r], grad[r])
      /\ scale' = [scale EXCEPT ![r] = scale[r] - 1]
      /\ counter' = [counter EXCEPT ![r] = 0]
      /\ log' = log /\ solver' = solver /\ data' = data /\ grad' = grad
  BY DEF Overflow, memory
<1>2. CASE Exhausted(recursive[r] + 1)
  <2>1. /\ recursive' = [recursive EXCEPT ![r] = 0]
        /\ pc' = [pc EXCEPT ![r] = "idle"]
        /\ at' = [at EXCEPT ![r] = at[r] + 1]
    BY <1>2 DEF Overflow
  <2> QED BY <1>1, <1>2, <2>1, Domains, Elsewhere DEF Still
<1>3. CASE ~Exhausted(recursive[r] + 1)
  <2>1. /\ recursive' = [recursive EXCEPT ![r] = recursive[r] + 1]
        /\ pc' = [pc EXCEPT ![r] = "again"]
        /\ at' = at
    BY <1>3 DEF Overflow
  <2> QED BY <1>1, <1>3, <2>1, Domains, Elsewhere DEF Still
<1> QED BY <1>2, <1>3

\* The gradients an update is made of, and the solver as it makes it.
Rescaled(r) == ScaleGrad(solver[r], grad[r], -scale[r])
Decayed(r) == IF conf.weightDecay = "none" THEN Rescaled(r)
              ELSE DecayedGrad(solver[r], Rescaled(r), conf.weightDecay = "fused")
Rated(r) == DecayRate(solver[r], conf.weightDecay = "fused")

\* An update, for the rank that makes it.
LEMMA UpdateFacts ==
    ASSUME ControlOK, DomainsOK, NEW r \in Ranks, Update(r)
    PROVE  /\ pc[r] = "check" /\ pc'[r] = "idle"
           /\ at'[r] = at[r] + 1
           /\ ~CheckInfOrNanGrad(solver[r], grad[r])
           /\ recursive'[r] = 0
           /\ Grows(counter[r]) => scale'[r] = scale[r] + 1 /\ counter'[r] = 1
           /\ ~Grows(counter[r]) => scale'[r] = scale[r] /\ counter'[r] = counter[r] + 1
           /\ log' = log
           /\ solver'[r] = UpdateStates(Rated(r), Decayed(r), Attempt(r))
           /\ data'[r] = UpdateData(Rated(r), Decayed(r), Attempt(r), data[r])
           /\ \A s \in Ranks \ {r} : Still(s)
           /\ DOMAIN solver' = Ranks /\ DOMAIN grad' = Ranks /\ DOMAIN data' = Ranks
<1>1. /\ pc[r] = "check" /\ ~CheckInfOrNanGrad(solver[r], grad[r])
      /\ recursive' = [recursive EXCEPT ![r] = 0]
      /\ pc' = [pc EXCEPT ![r] = "idle"]
      /\ at' = [at EXCEPT ![r] = at[r] + 1]
      /\ log' = log
  BY DEF Update
<1>2. /\ grad' = [grad EXCEPT ![r] = Decayed(r)]
      /\ data' = [data EXCEPT ![r] = UpdateData(Rated(r), Decayed(r), Attempt(r), data[r])]
      /\ solver' = [solver EXCEPT ![r] = UpdateStates(Rated(r), Decayed(r), Attempt(r))]
  BY DEF Update, Decayed, Rated, Rescaled
<1>3. CASE Grows(counter[r])
  <2>1. scale' = [scale EXCEPT ![r] = scale[r] + 1] /\ counter' = [counter EXCEPT ![r] = 1]
    BY <1>3 DEF Update
  <2> QED BY <1>1, <1>2, <1>3, <2>1, Domains, Elsewhere DEF Still, DomainsOK
<1>4. CASE ~Grows(counter[r])
  <2>1. scale' = scale /\ counter' = [counter EXCEPT ![r] = counter[r] + 1]
    BY <1>4 DEF Update
  <2> QED BY <1>1, <1>2, <1>4, <2>1, Domains, Elsewhere DEF Still, DomainsOK
<1> QED BY <1>3, <1>4

---------------------------------------------------------------------------
\* A rank that does nothing stays at its stage.
LEMMA StillOf ==
    ASSUME conf' = conf, NEW s, Still(s)
    PROVE  /\ EntriesOf(s) => EntriesOf(s)'
           /\ StageOf(s) => StageOf(s)'
           /\ Reduced(s)' = Reduced(s)
           /\ Attempt(s)' = Attempt(s)
<1>1. Attempt(s)' = Attempt(s) /\ \A a : Complete(s, a)' = Complete(s, a)
  BY DEF Still, Attempt, Complete
<1>2. EntriesOf(s) => EntriesOf(s)'
  BY <1>1 DEF EntriesOf, Still
<1>3. StageOf(s) => StageOf(s)'
  BY <1>1 DEF StageOf, Still, Busy
<1> QED BY <1>1, <1>2, <1>3 DEF Reduced, Still

\* A step that logs nothing leaves the attempts as they are.
LEMMA EntriesStay ==
    ASSUME conf' = conf, log' = log, NEW r, EntriesOf(r), at[r] \in Nat, at'[r] \in {at[r], at[r] + 1},
           Len(conf.calls) \in Nat
    PROVE  EntriesOf(r)'
<1>1. Attempt(r)' = Attempt(r) /\ \A a : Complete(r, a)' = Complete(r, a)
  BY DEF Attempt, Complete
<1>2. SUFFICES ASSUME NEW a \in 1..Attempt(r)
               PROVE  /\ Len(log[r][a].batches) <= conf.accumGrad
                      /\ log[r][a].call <= at'[r]
                      /\ log[r][a].call \in 1..Len(conf.calls)
                      /\ conf.calls[log[r][a].call].op = "update"
                      /\ a < Attempt(r) => Complete(r, a) \/ conf.size = 1
  BY <1>1 DEF EntriesOf
<1>3. /\ Len(log[r][a].batches) <= conf.accumGrad
      /\ log[r][a].call <= at[r]
      /\ log[r][a].call \in 1..Len(conf.calls)
      /\ conf.calls[log[r][a].call].op = "update"
      /\ a < Attempt(r) => Complete(r, a) \/ conf.size = 1
  BY DEF EntriesOf
<1>4. log[r][a].call <= at'[r]
  BY <1>3
<1> QED BY <1>3, <1>4

\* The stages a rank goes through fit the attempt in its log.
LEMMA StageStep ==
    ASSUME ControlOK, DomainsOK, StageOK, EntriesOK, Lockstep, NEW r \in Ranks, Step(r)
    PROVE  /\ EntriesOf(r)' /\ StageOf(r)' /\ (Reduced(r)' = Reduced(r) \/ conf.size = 1)
           /\ DomainsOK' /\ \A s \in Ranks \ {r} : Still(s)
<1>0. conf' = conf /\ Ranks' = Ranks /\ Attempt(r) \in Nat /\ Moves(r)
  BY LogMoves, Attempts DEF Next
<1>1. /\ EntriesOf(r) /\ StageOf(r)
      /\ conf.accumGrad \in Nat \ {0} /\ conf.size \in Nat \ {0}
      /\ pc[r] \in Stages /\ at[r] \in Nat \ {0}
      /\ Len(conf.calls) \in Nat /\ DOMAIN conf.calls = 1..Len(conf.calls)
  BY ConfFields DEF EntriesOK, StageOK, ControlOK
<1>2. ASSUME log' = log
      PROVE  /\ Attempt(r)' = Attempt(r)
             /\ \A a : log'[r][a] = log[r][a] /\ Complete(r, a)' = Complete(r, a)
  BY <1>2, <1>0 DEF Attempt, Complete
<1>3. CASE ChangeParameters(r)
  <2>1. /\ pc[r] = "idle" /\ pc'[r] = "idle" /\ at'[r] = at[r] + 1 /\ log' = log
        /\ \A s \in Ranks \ {r} : Still(s)
        /\ DomainsOK'
    BY <1>3, <1>0, ChangeFacts DEF DomainsOK
  <2>2. EntriesOf(r)'
    BY <2>1, <1>0, <1>1, EntriesStay
  <2>3. StageOf(r)'
    BY <2>1, <1>0, <1>1, <1>2 DEF StageOf, Busy, EntriesOf
  <2> QED BY <2>1, <2>2, <2>3, <1>2 DEF Reduced
<1>4. CASE Begin(r)
  <2>1. /\ \/ pc[r] = "again"
           \/ pc[r] = "idle" /\ at[r] \in DOMAIN conf.calls /\ Call(r).op = "update"
        /\ pc'[r] = "feed" /\ at'[r] = at[r]
        /\ scale'[r] = scale[r] /\ counter'[r] = counter[r] /\ recursive'[r] = recursive[r]
        /\ \A s \in Ranks \ {r} : Still(s)
        /\ DomainsOK'
    BY <1>4, <1>0, BeginFacts DEF DomainsOK
  <2>2. /\ Attempt(r)' = Attempt(r) + 1
        /\ \A a \in 1..Attempt(r) : log'[r][a] = log[r][a] /\ Complete(r, a)' = Complete(r, a)
        /\ log'[r][Attempt(r) + 1] = [call |-> at[r], scale |-> scale[r], counter |-> counter[r],
                                      recursive |-> recursive[r], batches |-> <<>>]
    BY <1>4, <1>0, LogBegin DEF Complete
  <2>3. at[r] \in 1..Len(conf.calls) /\ conf.calls[at[r]].op = "update"
    BY <2>1, <1>0, <1>1 DEF StageOf, EntriesOf, Call
  <2>4. Attempt(r) >= 1 => Complete(r, Attempt(r)) \/ conf.size = 1
    BY <2>1, <1>0, <1>1 DEF StageOf, Complete
  <2>5. EntriesOf(r)'
    <3>1. SUFFICES ASSUME NEW a \in 1..(Attempt(r) + 1)
                   PROVE  /\ Len(log'[r][a].batches) <= conf.accumGrad
                          /\ log'[r][a].call <= at[r]
                          /\ log'[r][a].call \in 1..Len(conf.calls)
                          /\ conf.calls[log'[r][a].call].op = "update"
                          /\ a < Attempt(r) + 1 => Complete(r, a)' \/ conf.size = 1
      BY <1>0, <2>1, <2>2 DEF EntriesOf
    <3>2. CASE a \in 1..Attempt(r)
      <4>1. log'[r][a] = log[r][a] /\ Complete(r, a)' = Complete(r, a)
        BY <3>2, <2>2
      <4>2. /\ Len(log[r][a].batches) <= conf.accumGrad
            /\ log[r][a].call <= at[r]
            /\ log[r][a].call \in 1..Len(conf.calls)
            /\ conf.calls[log[r][a].call].op = "update"
            /\ a < Attempt(r) => Complete(r, a) \/ conf.size = 1
        BY <3>2, <1>1 DEF EntriesOf
      <4>3. Complete(r, a) \/ conf.size = 1
        BY <3>2, <4>2, <2>4, <1>0
      <4> QED BY <4>1, <4>2, <4>3
    <3>3. CASE a = Attempt(r) + 1
      BY <3>3, <2>2, <2>3, <1>0, <1>1
    <3> QED BY <3>2, <3>3, <1>0
  <2>6. StageOf(r)'
    BY <2>1, <2>2, <1>0, <1>1 DEF StageOf, Busy
  <2>7. Reduced(r)' = Reduced(r)
    BY <2>1, <2>2, <1>0 DEF Reduced
  <2> QED BY <2>1, <2>5, <2>6, <2>7
<1>5. CASE FeedForwardBackward(r)
  <2>1. /\ pc[r] = "feed"
        /\ pc'[r] = IF Fed(r) + 1 < conf.accumGrad THEN "feed"
                    ELSE IF conf.size > 1 THEN "reduce" ELSE "check"
        /\ at'[r] = at[r]
        /\ scale'[r] = scale[r] /\ counter'[r] = counter[r] /\ recursive'[r] = recursive[r]
        /\ \A s \in Ranks \ {r} : Still(s)
        /\ DomainsOK'
    BY <1>5, <1>0, FeedFacts DEF DomainsOK
  <2>2. /\ Attempt(r) \in Nat \ {0} /\ Fed(r) \in Nat
        /\ Attempt(r)' = Attempt(r)
        /\ \A a \in 1..(Attempt(r) - 1) : log'[r][a] = log[r][a] /\ Complete(r, a)' = Complete(r, a)
        /\ Len(log'[r][Attempt(r)].batches) = Fed(r) + 1
        /\ log'[r][Attempt(r)].call = log[r][Attempt(r)].call
        /\ log'[r][Attempt(r)].scale = log[r][Attempt(r)].scale
        /\ log'[r][Attempt(r)].counter = log[r][Attempt(r)].counter
        /\ log'[r][Attempt(r)].recursive = log[r][Attempt(r)].recursive
    BY <1>5, <1>0, LogFeed DEF Complete
  <2>3. Fed(r) + 1 <= conf.accumGrad /\ Fed(r) = Len(log[r][Attempt(r)].batches)
    BY <2>1, <2>2, <1>1 DEF StageOf, Fed
  <2>4. EntriesOf(r)'
    <3>1. SUFFICES ASSUME NEW a \in 1..Attempt(r)
                   PROVE  /\ Len(log'[r][a].batches) <= conf.accumGrad
                          /\ log'[r][a].call <= at[r]
                          /\ log'[r][a].call \in 1..Len(conf.calls)
                          /\ conf.calls[log'[r][a].call].op = "update"
                          /\ a < Attempt(r) => Complete(r, a)' \/ conf.size = 1
      BY <1>0, <2>1, <2>2 DEF EntriesOf
    <3>2. CASE a \in 1..(Attempt(r) - 1)
      <4>1. log'[r][a] = log[r][a] /\ Complete(r, a)' = Complete(r, a)
        BY <3>2, <2>2
      <4>2. a \in 1..Attempt(r) /\ a < Attempt(r)
        BY <3>2, <2>2
      <4>3. /\ Len(log[r][a].batches) <= conf.accumGrad
            /\ log[r][a].call <= at[r]
            /\ log[r][a].call \in 1..Len(conf.calls)
            /\ conf.calls[log[r][a].call].op = "update"
            /\ Complete(r, a) \/ conf.size = 1
        BY <4>2, <1>1 DEF EntriesOf
      <4> QED BY <4>1, <4>3
    <3>3. CASE a = Attempt(r)
      BY <3>3, <2>2, <2>3, <1>0, <1>1, SMTT(20) DEF EntriesOf
    <3> QED BY <3>2, <3>3, <2>2
  <2>5. StageOf(r)'
    BY <2>1, <2>2, <2>3, <1>0, <1>1 DEF StageOf, Busy
  <2>6. Reduced(r)' = Reduced(r) \/ conf.size = 1
    BY <2>1, <2>2, <1>0, <1>1 DEF Reduced
  <2> QED BY <2>1, <2>4, <2>5, <2>6
<1>6. CASE FeederRaises(r)
  <2>1. /\ conf.size = 1
        /\ pc[r] = "feed" /\ pc'[r] = "idle"
        /\ at'[r] = at[r] + 1 /\ log' = log
        /\ \A s \in Ranks \ {r} : Still(s)
        /\ DomainsOK'
    BY <1>6, <1>0, RaiseFacts DEF DomainsOK
  <2>2. EntriesOf(r)'
    BY <2>1, <1>0, <1>1, EntriesStay
  <2>3. StageOf(r)'
    BY <2>1, <1>0, <1>1, <1>2 DEF StageOf, Busy
  <2> QED BY <2>1, <2>2, <2>3
<1>7. CASE Overflow(r)
  <2>1. /\ pc[r] = "check" /\ log' = log
        /\ \/ pc'[r] = "idle" /\ at'[r] = at[r] + 1
           \/ pc'[r] = "again" /\ at'[r] = at[r]
        /\ \A s \in Ranks \ {r} : Still(s)
        /\ DomainsOK'
    BY <1>7, <1>0, OverflowFacts DEF DomainsOK
  <2>2. EntriesOf(r)'
    BY <2>1, <1>0, <1>1, EntriesStay
  <2>3. StageOf(r)'
    BY <2>1, <1>0, <1>1, <1>2 DEF StageOf, Busy, Complete
  <2> QED BY <2>1, <2>2, <2>3, <1>2 DEF Reduced
<1>8. CASE Update(r)
  <2>1. /\ pc[r] = "check" /\ log' = log
        /\ pc'[r] = "idle" /\ at'[r] = at[r] + 1
        /\ \A s \in Ranks \ {r} : Still(s)
        /\ DomainsOK'
    BY <1>8, <1>0, UpdateFacts DEF DomainsOK
  <2>2. EntriesOf(r)'
    BY <2>1, <1>0, <1>1, EntriesStay
  <2>3. StageOf(r)'
    BY <2>1, <1>0, <1>1, <1>2 DEF StageOf, Busy, Complete
  <2> QED BY <2>1, <2>2, <2>3, <1>2 DEF Reduced
<1> QED BY <1>3, <1>4, <1>5, <1>6, <1>7, <1>8 DEF Step

\* all_reduce takes every rank from reduce to check, with one sum.
LEMMA ReduceFacts ==
    ASSUME ControlOK, DomainsOK, AllReduce
    PROVE  /\ \A r \in Ranks : pc[r] = "reduce" /\ pc'[r] = "check"
           /\ grad' = AllReduced(grad)
           /\ at' = at /\ scale' = scale /\ counter' = counter /\ recursive' = recursive
           /\ log' = log /\ solver' = solver /\ data' = data
           /\ DOMAIN grad' = Ranks
           /\ \A r \in Ranks : grad'[r] = [k \in Keys |->
                [zeroing |-> FALSE,
                 terms |-> UNION {grad[s][k].terms : s \in Ranks},
                 finite |-> \A s \in Ranks : grad[s][k].finite]]
<1>1. DOMAIN grad = Ranks
  BY DEF DomainsOK
<1>2. grad' = AllReduced(grad)
  BY DEF AllReduce
<1> QED BY <1>1, <1>2 DEF AllReduce, AllReduced, updater

\* The lemmas so far, as one invariant of the control.
Control == ControlOK /\ InRange /\ DomainsOK /\ EntriesOK /\ StageOK /\ Lockstep

\* The control is kept by every step.
LEMMA ControlInductive ==
    ASSUME Control, [Next]_vars
    PROVE  Control'
<1>1. ControlOK /\ InRange /\ DomainsOK /\ EntriesOK /\ StageOK /\ Lockstep
  BY DEF Control
<1>2. ControlOK' /\ InRange'
  BY <1>1, ControlStep
<1>3. conf' = conf /\ Ranks' = Ranks
  BY <1>1, LogMoves
<1>4. SUFFICES DomainsOK' /\ EntriesOK' /\ StageOK' /\ Lockstep'
  BY <1>2 DEF Control
<1>5. CASE UNCHANGED vars
  <2>1. \A s \in Ranks : Still(s)
    BY <1>5 DEF vars, updater, memory, Still
  <2>2. DomainsOK'
    BY <1>5, <1>1, <1>3 DEF vars, memory, DomainsOK
  <2>3. \A s \in Ranks : EntriesOf(s)' /\ StageOf(s)' /\ Reduced(s)' = Reduced(s)
    BY <2>1, <1>1, <1>3, StillOf DEF EntriesOK, StageOK
  <2> QED BY <2>2, <2>3, <1>1, <1>3 DEF EntriesOK, StageOK, Lockstep
<1>6. CASE AllReduce
  <2>1. /\ \A r \in Ranks : pc[r] = "reduce" /\ pc'[r] = "check"
        /\ at' = at /\ scale' = scale /\ counter' = counter /\ recursive' = recursive /\ log' = log
        /\ DomainsOK'
    BY <1>6, <1>1, <1>3, ReduceFacts DEF DomainsOK
  <2>2. \A s \in Ranks : Attempt(s)' = Attempt(s) /\ \A a : Complete(s, a)' = Complete(s, a)
    BY <2>1, <1>3 DEF Attempt, Complete
  <2>3. \A s \in Ranks : EntriesOf(s)'
    BY <2>1, <2>2, <1>1, <1>3 DEF EntriesOK, EntriesOf
  <2>4. \A s \in Ranks : StageOf(s)'
    BY <2>1, <2>2, <1>1, <1>3 DEF StageOK, StageOf, Busy
  <2>5. \A s \in Ranks : Reduced(s)' = Attempt(s) /\ Reduced(s) = Attempt(s) - 1 /\ Attempt(s) \in Nat
    BY <2>1, <2>2, <1>1, Attempts DEF Reduced
  <2>6. Lockstep'
    BY <2>5, <1>1, <1>3 DEF Lockstep
  <2> QED BY <2>1, <2>3, <2>4, <2>6, <1>3 DEF EntriesOK, StageOK
<1>7. ASSUME NEW r \in Ranks, Step(r)
      PROVE  DomainsOK' /\ EntriesOK' /\ StageOK' /\ Lockstep'
  <2>1. /\ EntriesOf(r)' /\ StageOf(r)' /\ (Reduced(r)' = Reduced(r) \/ conf.size = 1)
        /\ DomainsOK' /\ \A s \in Ranks \ {r} : Still(s)
    BY <1>7, <1>1, StageStep
  <2>2. \A s \in Ranks \ {r} : EntriesOf(s)' /\ StageOf(s)' /\ Reduced(s)' = Reduced(s)
    BY <2>1, <1>1, <1>3, StillOf DEF EntriesOK, StageOK
  <2>3. conf.size = 1 => \A s \in Ranks : s = r
    BY <1>7 DEF Ranks
  <2>4. Lockstep'
    BY <2>1, <2>2, <2>3, <1>1, <1>3 DEF Lockstep
  <2> QED BY <2>1, <2>2, <2>4, <1>3 DEF EntriesOK, StageOK
<1> QED BY <1>5, <1>6, <1>7 DEF Next

\* The control holds at the start.
LEMMA ControlInit == Init => Control
<1> SUFFICES ASSUME Init PROVE Control
  OBVIOUS
<1>1. conf \in Programs /\ conf.size \in Nat \ {0} /\ conf.calls \in Seq(Calls) /\ Len(conf.calls) \in Nat
  BY ConfFields DEF Init
<1>2. \A r \in Ranks : log[r] = <<>> /\ Attempt(r) = 0 /\ pc[r] = "idle" /\ at[r] = 1
  BY DEF Init, Attempt
<1>3. ControlOK
  <2>1. Scale \in Int /\ <<>> \in Seq(Entry)
    BY UpdaterAssumption
  <2> QED BY <1>1, <2>1 DEF Init, ControlOK, Stages
<1>4. InRange /\ DomainsOK
  BY <1>1, <1>2 DEF InRange, DomainsOK, Init
<1>5. EntriesOK
  BY <1>2 DEF EntriesOK, EntriesOf
<1>6. StageOK
  BY <1>2 DEF StageOK, StageOf, Busy
<1>7. Lockstep
  BY <1>2 DEF Lockstep, Reduced
<1> QED BY <1>3, <1>4, <1>5, <1>6, <1>7 DEF Control

---------------------------------------------------------------------------
\* What the calls of the solver make of its parameters and states.

\* The parts of a solver.
LEMMA MadeFacts ==
    ASSUME NEW P, NEW st
    PROVE  Made(P, st).params = P /\ Made(P, st).states = st /\ Made(P, st).rate = FALSE
BY DEF Made

\* remove_parameters leaves the states of the others.
LEMMA WithoutFacts ==
    ASSUME NEW P, NEW st, DOMAIN st = P, NEW keys
    PROVE  /\ Without(Made(P, st), keys) = Made(P \ keys, [k \in P \ keys |-> st[k]])
           /\ RemoveParameters(Made(P, st), keys) = Made(P \ keys, [k \in P \ keys |-> st[k]])
BY MadeFacts DEF Without, WithoutStates, RemoveParameters, Made

\* clear_parameters leaves none.
LEMMA ClearFacts ==
    ASSUME NEW P, NEW st, DOMAIN st = P
    PROVE  ClearParameters(Made(P, st)) = Made({}, [k \in {} |-> st[k]])
<1>1. P \ P = {} /\ Made(P, st).params = P
  BY MadeFacts
<1>2. ClearParameters(Made(P, st)) = Made(P \ P, [k \in P \ P |-> st[k]])
  BY <1>1, WithoutFacts DEF ClearParameters
<1>3. [k \in P \ P |-> st[k]] = [k \in {} |-> st[k]]
  BY <1>1
<1> QED BY <1>1, <1>2, <1>3

\* set_parameters gives a state to what is reset or new, and keeps the others.
LEMMA SetFacts ==
    ASSUME NEW P, NEW st, DOMAIN st = P, NEW keys, NEW reset \in BOOLEAN, NEW retain \in BOOLEAN,
           NEW Q, Q = IF reset THEN keys ELSE P \cup keys
    PROVE  SetParameters(Made(P, st), keys, reset, retain) =
            Made(Q, [k \in Q |-> IF k \in keys /\ (reset \/ ~retain \/ k \notin P) THEN {} ELSE st[k]])
<1> DEFINE S == Made(P, st)
           none == [k \in {} |-> st[k]]
<1>1. S.params = P /\ S.states = st /\ S.rate = FALSE
  BY DEF Made
<1>2. CASE reset
  <2>1. ClearParameters(S) = Made({}, none) /\ DOMAIN none = {}
    <3>1. ClearParameters(Made(P, st)) = Made({}, [k \in {} |-> st[k]])
      BY ClearFacts
    <3> QED BY <3>1
  <2>2. keys \ Retained(S, keys, reset, retain) = keys
    BY <1>2 DEF Retained
  <2>3. Made({}, none).params = {} /\ Made({}, none).states = none /\ Made({}, none).rate = FALSE
    <3> HIDE DEF none
    <3> QED BY DEF Made
  <2>4. SetParameters(S, keys, reset, retain) =
          Made({} \cup keys, WithStates(WithoutStates(none, keys \cap {}), keys))
    <3> HIDE DEF none, S
    <3> QED BY <1>2, <2>1, <2>2, <2>3 DEF SetParameters, Made
  <2>5. DOMAIN WithoutStates(none, keys \cap {}) = {}
    BY DEF WithoutStates
  <2>6. WithStates(WithoutStates(none, keys \cap {}), keys) = [k \in keys |-> {}]
    BY <2>5 DEF WithStates
  <2>7. [k \in keys |-> {}] =
          [k \in Q |-> IF k \in keys /\ (reset \/ ~retain \/ k \notin P) THEN {} ELSE st[k]]
    BY <1>2
  <2>8. {} \cup keys = Q
    BY <1>2
  <2> QED BY <2>4, <2>6, <2>7, <2>8
<1>3. CASE ~reset
  <2> DEFINE anew == IF retain THEN keys \ P ELSE keys
             kept == WithoutStates(st, anew \cap P)
  <2>1. keys \ Retained(S, keys, reset, retain) = anew
    BY <1>1, <1>3 DEF Retained
  <2>2. SetParameters(S, keys, reset, retain) = Made(P \cup anew, WithStates(kept, anew))
    <3> HIDE DEF anew, S
    <3> QED BY <1>1, <1>3, <2>1 DEF SetParameters, Made
  <2>3. DOMAIN kept = P \ anew /\ \A k \in P \ anew : kept[k] = st[k]
    BY DEF WithoutStates
  <2>4. P \cup anew = Q /\ (P \ anew) \cup anew = Q
    BY <1>3
  <2>5. WithStates(kept, anew) = [k \in Q |-> IF k \in anew THEN {} ELSE st[k]]
    <3> HIDE DEF anew, kept
    <3> QED BY <2>3, <2>4 DEF WithStates
  <2>6. [k \in Q |-> IF k \in anew THEN {} ELSE st[k]] =
          [k \in Q |-> IF k \in keys /\ (reset \/ ~retain \/ k \notin P) THEN {} ELSE st[k]]
    BY <1>3, <2>4
  <2> QED BY <2>2, <2>4, <2>5, <2>6
<1> QED BY <1>2, <1>3

\* Registered after a call, from what was registered before it.
LEMMA RegisteredNext ==
    ASSUME NEW k, NEW i \in Nat \ {0}
    PROVE  Registered(k, i + 1) <=> Sets(i, k) \/ (Registered(k, i) /\ ~Drops(i, k))
<1>1. ASSUME Sets(i, k) PROVE Registered(k, i + 1)
  BY <1>1 DEF Registered
<1>2. ASSUME Registered(k, i), ~Drops(i, k) PROVE Registered(k, i + 1)
  <2>1. PICK j \in 1..(i - 1) : Sets(j, k) /\ \A m \in (j + 1)..(i - 1) : ~Drops(m, k)
    BY <1>2 DEF Registered
  <2>2. \A m \in (j + 1)..(i + 1 - 1) : m \in (j + 1)..(i - 1) \/ m = i
    OBVIOUS
  <2> QED BY <1>2, <2>1, <2>2 DEF Registered
<1>3. ASSUME Registered(k, i + 1), ~Sets(i, k) PROVE Registered(k, i) /\ ~Drops(i, k)
  <2>1. PICK j \in 1..(i + 1 - 1) : Sets(j, k) /\ \A m \in (j + 1)..(i + 1 - 1) : ~Drops(m, k)
    BY <1>3 DEF Registered
  <2>2. j \in 1..(i - 1)
    BY <1>3, <2>1
  <2>3. i \in (j + 1)..(i + 1 - 1) /\ \A m \in (j + 1)..(i - 1) : m \in (j + 1)..(i + 1 - 1)
    BY <2>2
  <2> QED BY <2>1, <2>2, <2>3 DEF Registered
<1> QED BY <1>1, <1>2, <1>3

\* What each call of a program consists of.
LEMMA CallFields ==
    ASSUME NEW c \in Calls
    PROVE  /\ c.op \in {"update", "clear", "remove", "set"}
           /\ c.op \in {"remove", "set"} => c.keys \subseteq Keys
           /\ c.op = "set" => c.reset \in BOOLEAN /\ c.retain \in BOOLEAN
BY DEF Calls

\* A program consists of calls.
LEMMA CallOfProgram ==
    ASSUME conf \in Programs, NEW i \in DOMAIN conf.calls
    PROVE  conf.calls[i] \in Calls /\ i \in Nat \ {0}
BY ConfFields

\* update() registers nothing and resets nothing.
LEMMA ParamsAfterUpdate ==
    ASSUME NEW i \in Nat \ {0}, conf.calls[i].op = "update"
    PROVE  /\ Params(i + 1) = Params(i)
           /\ \A k : ~Anew(i, k)
           /\ \A k : Registered(k, i + 1) = Registered(k, i)
<1>1. \A k : ~Sets(i, k) /\ ~Drops(i, k)
  BY DEF Sets, Drops
<1>2. \A k : Registered(k, i + 1) = Registered(k, i)
  BY <1>1, RegisteredNext DEF Registered
<1> QED BY <1>1, <1>2 DEF Params, Anew

\* The solver after a call has what the program has registered, and what was not made anew.
LEMMA ChangeSolver ==
    ASSUME conf \in Programs, NEW i \in DOMAIN conf.calls, conf.calls[i].op # "update",
           NEW st, DOMAIN st = Params(i)
    PROVE  Changed(Made(Params(i), st), conf.calls[i]) =
            Made(Params(i + 1), [k \in Params(i + 1) |-> IF Anew(i, k) THEN {} ELSE st[k]])
<1> DEFINE c == conf.calls[i]
           P == Params(i)
           Q == Params(i + 1)
<1>1. c \in Calls /\ i \in Nat \ {0}
  BY CallOfProgram
<1>2. c.op \in {"clear", "remove", "set"} /\ c.op # "update"
  BY <1>1, CallFields
<1>3. \A k : Registered(k, i + 1) <=> Sets(i, k) \/ (Registered(k, i) /\ ~Drops(i, k))
  BY <1>1, RegisteredNext
<1>4. CASE c.op = "set"
  <2>1. c.keys \subseteq Keys /\ c.reset \in BOOLEAN /\ c.retain \in BOOLEAN
    BY <1>1, <1>4, CallFields
  <2>2. Q = IF c.reset THEN c.keys ELSE P \cup c.keys
    BY <1>3, <1>4, <2>1 DEF Params, Sets, Drops
  <2>3. Changed(Made(P, st), c) = SetParameters(Made(P, st), c.keys, c.reset, c.retain)
    BY <1>4 DEF Changed
  <2>4. SetParameters(Made(P, st), c.keys, c.reset, c.retain) =
          Made(Q, [k \in Q |-> IF k \in c.keys /\ (c.reset \/ ~c.retain \/ k \notin P) THEN {} ELSE st[k]])
    <3> HIDE DEF c, P, Q
    <3>1. DOMAIN st = P
      BY DEF P
    <3> QED BY <2>1, <2>2, <3>1, SetFacts
  <2>5. \A k \in Q : Anew(i, k) <=> k \in c.keys /\ (c.reset \/ ~c.retain \/ k \notin P)
    BY <1>4 DEF Anew, Sets, Params
  <2>6. [k \in Q |-> IF k \in c.keys /\ (c.reset \/ ~c.retain \/ k \notin P) THEN {} ELSE st[k]] =
          [k \in Q |-> IF Anew(i, k) THEN {} ELSE st[k]]
    <3> HIDE DEF c, P, Q
    <3> QED BY <2>5
  <2> QED BY <2>3, <2>4, <2>6
<1>5. CASE c.op # "set"
  <2> DEFINE gone == IF c.op = "clear" THEN P ELSE c.keys
  <2>1. \A k : ~Anew(i, k) /\ ~Sets(i, k)
    BY <1>5 DEF Anew, Sets
  <2>2. Q = P \ gone
    BY <1>2, <1>3, <1>5, <2>1 DEF Params, Drops
  <2>3. Changed(Made(P, st), c) = Made(P \ gone, [k \in P \ gone |-> st[k]])
    <3>1. CASE c.op = "clear"
      <4>1. Changed(Made(P, st), c) = ClearParameters(Made(P, st))
        BY <3>1 DEF Changed
      <4>2. ClearParameters(Made(P, st)) = Without(Made(P, st), P)
        BY MadeFacts DEF ClearParameters
      <4>3. Without(Made(P, st), P) = Made(P \ P, [k \in P \ P |-> st[k]])
        BY WithoutFacts
      <4> QED BY <3>1, <4>1, <4>2, <4>3
    <3>2. CASE c.op = "remove"
      <4>1. Changed(Made(P, st), c) = RemoveParameters(Made(P, st), c.keys)
        BY <3>2 DEF Changed
      <4>2. RemoveParameters(Made(P, st), c.keys) = Made(P \ c.keys, [k \in P \ c.keys |-> st[k]])
        BY WithoutFacts
      <4> QED BY <3>2, <4>1, <4>2
    <3> QED BY <1>2, <1>5, <3>1, <3>2
  <2>4. [k \in P \ gone |-> st[k]] = [k \in Q |-> IF Anew(i, k) THEN {} ELSE st[k]]
    <3> HIDE DEF gone, P, Q
    <3> QED BY <2>1, <2>2
  <2> QED BY <2>2, <2>3, <2>4
<1> QED BY <1>4, <1>5

---------------------------------------------------------------------------
\* What an update does to the gradients, the states and the parameters of a rank.
HasGrad(r, k) == k \in Params(at[r]) /\ ~grad[r][k].zeroing
Final(r, k) ==
    {Scaled(c, -scale[r]) : c \in grad[r][k].terms}
        \cup (IF conf.weightDecay = "none" THEN {} ELSE {Decay})
MadeBy(r, k) ==
    [attempt |-> Attempt(r), terms |-> Final(r, k), finite |-> TRUE,
     momentum |-> solver[r].states[k] \cup {Attempt(r)}]

\* A solver that has what the program has registered.
LEMMA SolverFields ==
    ASSUME NEW r, SolverOf(r)
    PROVE  /\ solver[r].params = Params(at[r]) /\ solver[r].rate = FALSE
           /\ DOMAIN solver[r].states = Params(at[r])
<1>1. /\ Made(Params(at[r]), solver[r].states).params = Params(at[r])
      /\ Made(Params(at[r]), solver[r].states).rate = FALSE
  BY DEF Made
<1> QED BY <1>1 DEF SolverOf

\* scale_grad takes the scale out of every gradient there is.
LEMMA RescaledFacts ==
    ASSUME NEW r \in Ranks, SolverOf(r), -scale[r] <= MaxExp,
           \A k \in Keys : HasGrad(r, k) => grad[r][k].finite = TRUE
    PROVE  /\ \A k \in Keys : ~HasGrad(r, k) => Rescaled(r)[k] = grad[r][k]
           /\ \A k \in Keys : HasGrad(r, k) =>
                Rescaled(r)[k] = [zeroing |-> FALSE,
                                  terms |-> {Scaled(c, -scale[r]) : c \in grad[r][k].terms},
                                  finite |-> TRUE]
<1>1. \A k : HasGrad(r, k) <=> k \in Computed(solver[r], grad[r])
  BY SolverFields DEF HasGrad, Computed
<1>2. \A k \in Keys : ~HasGrad(r, k) => Rescaled(r)[k] = grad[r][k]
  BY <1>1 DEF Rescaled, ScaleGrad
<1>3. ASSUME NEW k \in Keys, HasGrad(r, k)
      PROVE  Rescaled(r)[k] = [zeroing |-> FALSE,
                               terms |-> {Scaled(c, -scale[r]) : c \in grad[r][k].terms},
                               finite |-> TRUE]
  <2>1. (grad[r][k].finite /\ -scale[r] <= MaxExp) = TRUE
    BY <1>3
  <2>2. Rescaled(r)[k] = [zeroing |-> FALSE,
                          terms |-> {Scaled(c, -scale[r]) : c \in grad[r][k].terms},
                          finite |-> grad[r][k].finite /\ -scale[r] <= MaxExp]
    BY <1>1, <1>3 DEF Rescaled, ScaleGrad
  <2> QED BY <2>1, <2>2
<1> QED BY <1>2, <1>3

\* The decay is added once, to the gradient or as a rate.
LEMMA DecayedFacts ==
    ASSUME conf \in Programs, NEW r \in Ranks, SolverOf(r), -scale[r] <= MaxExp,
           \A k \in Keys : HasGrad(r, k) => grad[r][k].finite = TRUE
    PROVE  /\ \A k \in Keys : ~HasGrad(r, k) => Decayed(r)[k] = grad[r][k]
           /\ \A k \in Keys : HasGrad(r, k) =>
                /\ Decayed(r)[k].zeroing = FALSE
                /\ Decayed(r)[k].finite = TRUE
                /\ Decayed(r)[k].terms \cup (IF Rated(r).rate THEN {Decay} ELSE {}) = Final(r, k)
<1> DEFINE h == Rescaled(r)
<1>1. /\ \A k \in Keys : ~HasGrad(r, k) => h[k] = grad[r][k]
      /\ \A k \in Keys : HasGrad(r, k) =>
            /\ h[k].zeroing = FALSE
            /\ h[k].terms = {Scaled(c, -scale[r]) : c \in grad[r][k].terms}
            /\ h[k].finite = TRUE
  <2> HIDE DEF h
  <2>1. \A k \in Keys : ~HasGrad(r, k) => h[k] = grad[r][k]
    BY RescaledFacts DEF h
  <2>2. ASSUME NEW k \in Keys, HasGrad(r, k)
        PROVE  /\ h[k].zeroing = FALSE
               /\ h[k].terms = {Scaled(c, -scale[r]) : c \in grad[r][k].terms}
               /\ h[k].finite = TRUE
    <3> DEFINE t == {Scaled(c, -scale[r]) : c \in grad[r][k].terms}
    <3>1. h[k] = [zeroing |-> FALSE, terms |-> t, finite |-> TRUE]
      BY <2>2, RescaledFacts DEF h
    <3> HIDE DEF t
    <3>2. h[k].zeroing = FALSE /\ h[k].terms = t /\ h[k].finite = TRUE
      BY <3>1
    <3> QED BY <3>2 DEF t
  <2> QED BY <2>1, <2>2
<1>2. conf.weightDecay \in {"none", "plain", "fused"}
  BY ProgramAssumption
<1>3. Rated(r).rate <=> conf.weightDecay = "fused"
  BY SolverFields DEF Rated, DecayRate
<1>4. \A k \in Keys : HasGrad(r, k) <=> k \in Computed(solver[r], h)
  <2> HIDE DEF h
  <2>1. \A k \in Keys : k \in Computed(solver[r], h) <=> k \in Params(at[r]) /\ ~h[k].zeroing
    BY SolverFields DEF Computed
  <2> QED BY <1>1, <2>1 DEF HasGrad
<1>5. CASE conf.weightDecay = "none"
  <2>1. Decayed(r) = h
    BY <1>5 DEF Decayed
  <2> HIDE DEF h
  <2> QED BY <1>1, <1>3, <1>5, <2>1 DEF Final
<1>6. CASE conf.weightDecay = "fused"
  <2>1. \A k \in Keys : Decayed(r)[k] = h[k]
    BY <1>6 DEF Decayed, DecayedGrad
  <2> HIDE DEF h
  <2> QED BY <1>1, <1>3, <1>6, <2>1 DEF Final
<1>7. CASE conf.weightDecay = "plain"
  <2>1. \A k \in Keys : HasGrad(r, k) =>
          Decayed(r)[k] = [zeroing |-> FALSE, terms |-> h[k].terms \cup {Decay}, finite |-> h[k].finite]
    BY <1>4, <1>7 DEF Decayed, DecayedGrad
  <2>2. \A k \in Keys : ~HasGrad(r, k) => Decayed(r)[k] = h[k]
    BY <1>4, <1>7 DEF Decayed, DecayedGrad
  <2> HIDE DEF h
  <2>3. ~Rated(r).rate /\ \A k : Final(r, k) = {Scaled(c, -scale[r]) : c \in grad[r][k].terms} \cup {Decay}
    BY <1>3, <1>7 DEF Final
  <2>4. ASSUME NEW k \in Keys, HasGrad(r, k)
        PROVE  /\ Decayed(r)[k].zeroing = FALSE
               /\ Decayed(r)[k].finite = TRUE
               /\ Decayed(r)[k].terms \cup (IF Rated(r).rate THEN {Decay} ELSE {}) = Final(r, k)
    <3> DEFINE u == h[k].terms \cup {Decay}
    <3>0. h[k].finite = TRUE /\ h[k].terms = {Scaled(c, -scale[r]) : c \in grad[r][k].terms}
      BY <1>1, <2>4
    <3>1. Decayed(r)[k] = [zeroing |-> FALSE, terms |-> u, finite |-> TRUE]
      BY <2>1, <2>4, <3>0
    <3>2. Final(r, k) = u
      BY <2>3, <3>0
    <3> HIDE DEF u
    <3>3. Decayed(r)[k].zeroing = FALSE /\ Decayed(r)[k].terms = u /\ Decayed(r)[k].finite = TRUE
      BY <3>1
    <3> QED BY <2>3, <3>2, <3>3
  <2> QED BY <1>1, <2>2, <2>4
<1> QED BY <1>2, <1>5, <1>6, <1>7

\* An update adds its gradients to the states and the parameters that have one, and to no other.
LEMMA UpdateSolver ==
    ASSUME conf \in Programs, NEW r \in Ranks, SolverOf(r), -scale[r] <= MaxExp,
           \A k \in Keys : HasGrad(r, k) => grad[r][k].finite = TRUE
    PROVE  /\ UpdateStates(Rated(r), Decayed(r), Attempt(r)) =
                Made(Params(at[r]), [k \in Params(at[r]) |->
                    IF HasGrad(r, k) THEN solver[r].states[k] \cup {Attempt(r)} ELSE solver[r].states[k]])
           /\ UpdateData(Rated(r), Decayed(r), Attempt(r), data[r]) =
                [k \in Keys |-> IF HasGrad(r, k) THEN data[r][k] \cup {MadeBy(r, k)} ELSE data[r][k]]
<1> DEFINE S == solver[r]
           P == Params(at[r])
           d == Decayed(r)
           T == Rated(r)
<1>1. S.params = P /\ DOMAIN S.states = P /\ P \subseteq Keys
  BY SolverFields DEF Params
<1>2. T.params = P /\ T.states = S.states
  BY <1>1 DEF Rated, DecayRate
<1>3. /\ \A k \in Keys : ~HasGrad(r, k) => d[k] = grad[r][k]
      /\ \A k \in Keys : HasGrad(r, k) =>
            /\ d[k].zeroing = FALSE
            /\ d[k].finite = TRUE
            /\ d[k].terms \cup (IF T.rate THEN {Decay} ELSE {}) = Final(r, k)
  BY DecayedFacts
<1> HIDE DEF d, T
<1>4. \A k : HasGrad(r, k) <=> k \in Computed(T, d)
  <2>1. \A k : k \in Computed(T, d) <=> k \in P /\ ~d[k].zeroing
    BY <1>2 DEF Computed
  <2> QED BY <1>1, <1>3, <2>1 DEF HasGrad
<1>5. UpdateStates(T, d, Attempt(r)) =
        Made(P, [k \in P |-> IF HasGrad(r, k) THEN S.states[k] \cup {Attempt(r)} ELSE S.states[k]])
  <2> HIDE DEF P, S
  <2> QED BY <1>1, <1>2, <1>4 DEF UpdateStates, Made
<1>6. UpdateData(T, d, Attempt(r), data[r]) =
        [k \in Keys |-> IF HasGrad(r, k) THEN data[r][k] \cup {MadeBy(r, k)} ELSE data[r][k]]
  <2>1. \A k \in Keys : HasGrad(r, k) =>
          [attempt |-> Attempt(r), terms |-> d[k].terms \cup (IF T.rate THEN {Decay} ELSE {}),
           finite |-> d[k].finite, momentum |-> T.states[k] \cup {Attempt(r)}] = MadeBy(r, k)
    BY <1>2, <1>3 DEF MadeBy
  <2> QED BY <1>4, <2>1 DEF UpdateData
<1> QED BY <1>5, <1>6 DEF d, T

---------------------------------------------------------------------------
\* A rank checks, and finds an inf or a nan exactly if a gradient overflows on some rank.
LEMMA CheckFacts ==
    ASSUME Control, NEW r \in Ranks, GradOf(r), SolverOf(r), pc[r] = "check"
    PROVE  /\ CheckInfOrNanGrad(solver[r], grad[r]) <=> ~Good(r, Attempt(r))
           /\ Good(r, Attempt(r)) => \A k \in Keys : HasGrad(r, k) => grad[r][k].finite = TRUE
           /\ \A k \in Keys : HasGrad(r, k) <=>
                Registered(k, at[r]) /\ (conf.size > 1 \/ Reaching(r, Attempt(r), k) # {})
           /\ \A k \in Keys : Registered(k, at[r]) =>
                grad[r][k].terms = Gathered(Attempt(r), k, scale[r])
<1> DEFINE A == Attempt(r)
           Fine(k) == \A s \in Ranks : \A i \in Reaching(s, A, k) : log[r][A].scale <= Limit(s, A, i)
<1>1. /\ A \in Nat /\ log[r][A].call = at[r] /\ log[r][A].scale = scale[r]
      /\ conf.size \in Nat \ {0} /\ Ranks = 1..conf.size
  BY Attempts, ConfFields DEF Control, ControlOK, StageOK, StageOf, Busy, Ranks
<1>2. ASSUME NEW k \in Keys, Registered(k, at[r])
      PROVE  /\ grad[r][k].zeroing <=> conf.size = 1 /\ Reaching(r, A, k) = {}
             /\ grad[r][k].terms = Gathered(A, k, log[r][A].scale)
             /\ Fine(k) => grad[r][k].finite = TRUE
             /\ ~Fine(k) => grad[r][k].finite = FALSE
  <2> DEFINE z == conf.size = 1 /\ Reaching(r, A, k) = {}
             t == Gathered(A, k, log[r][A].scale)
  <2>1. grad[r][k] = [zeroing |-> z, terms |-> t, finite |-> Fine(k)]
    BY <1>2 DEF GradOf, Total
  <2>2. Fine(k) \in BOOLEAN /\ z \in BOOLEAN
    OBVIOUS
  <2> HIDE DEF z, t, Fine
  <2>3. grad[r][k].zeroing = z /\ grad[r][k].terms = t /\ grad[r][k].finite = Fine(k)
    BY <2>1
  <2>4. grad[r][k].zeroing <=> conf.size = 1 /\ Reaching(r, A, k) = {}
    BY <2>3 DEF z
  <2>5. grad[r][k].terms = Gathered(A, k, log[r][A].scale)
    BY <2>3 DEF t
  <2>6. /\ Fine(k) => grad[r][k].finite = TRUE
        /\ ~Fine(k) => grad[r][k].finite = FALSE
    BY <2>2, <2>3
  <2> QED BY <2>4, <2>5, <2>6
<1>3. ASSUME NEW k \in Keys
      PROVE  HasGrad(r, k) <=> Registered(k, at[r]) /\ (conf.size > 1 \/ Reaching(r, A, k) # {})
  <2>1. k \in Params(at[r]) <=> Registered(k, at[r])
    BY DEF Params
  <2>2. conf.size = 1 <=> ~(conf.size > 1)
    BY <1>1
  <2> HIDE DEF A, Fine
  <2> QED BY <1>2, <2>1, <2>2 DEF HasGrad
<1>4. CheckInfOrNanGrad(solver[r], grad[r]) <=> \E k \in Keys : HasGrad(r, k) /\ ~grad[r][k].finite
  <2>1. \A k : HasGrad(r, k) <=> k \in Computed(solver[r], grad[r])
    BY SolverFields DEF HasGrad, Computed
  <2>2. \A k : HasGrad(r, k) => k \in Keys
    BY DEF HasGrad, Params
  <2> QED BY <2>1, <2>2 DEF CheckInfOrNanGrad
<1>5. ASSUME NEW k \in Keys, HasGrad(r, k), ~Fine(k)
      PROVE  ~Good(r, A)
  <2>1. Registered(k, at[r])
    BY <1>3, <1>5
  <2>2. PICK s \in Ranks : \E i \in Reaching(s, A, k) : ~(log[r][A].scale <= Limit(s, A, i))
    BY <1>5
  <2>3. PICK i \in Reaching(s, A, k) : ~(log[r][A].scale <= Limit(s, A, i))
    BY <2>2
  <2>4. i \in DOMAIN log[s][A].batches /\ k \in log[s][A].batches[i].touches
    BY <2>3 DEF Reaching
  <2> QED BY <1>1, <2>1, <2>3, <2>4 DEF Good, Limit
<1>6. ASSUME ~Good(r, A)
      PROVE  \E k \in Keys : HasGrad(r, k) /\ ~Fine(k)
  <2>0. PICK s \in Ranks : ~\A i \in DOMAIN log[s][A].batches :
            \/ log[r][A].scale <= log[s][A].batches[i].limit
            \/ \A k \in log[s][A].batches[i].touches : ~Registered(k, log[r][A].call)
    BY <1>6 DEF Good
  <2>1. PICK i \in DOMAIN log[s][A].batches :
          /\ ~(log[r][A].scale <= log[s][A].batches[i].limit)
          /\ ~\A k \in log[s][A].batches[i].touches : ~Registered(k, log[r][A].call)
    BY <2>0
  <2>2. PICK k \in log[s][A].batches[i].touches : Registered(k, at[r])
    BY <1>1, <2>1
  <2>3. k \in Keys
    <3>1. s \in Ranks /\ log[s] \in Seq(Entry) /\ A \in 1..Len(log[s])
      <4>1. Lockstep /\ StageOf(r) /\ Reduced(r) = A
        BY DEF Control, StageOK, Reduced
      <4>2. A >= 1 /\ log[s] \in Seq(Entry)
        BY <4>1 DEF StageOf, Control, ControlOK
      <4>3. Reduced(s) = A
        BY <4>1 DEF Lockstep
      <4> QED BY <4>2, <4>3, <1>1 DEF Reduced, Attempt
    <3>a. log[s][A] \in Entry
      BY <3>1
    <3>2. log[s][A].batches \in Seq(Batches)
      BY <3>a DEF Entry
    <3>3. log[s][A].batches[i] \in Batches
      BY <2>1, <3>2
    <3> QED BY <2>2, <3>3, BatchAssumption
  <2>4. i \in Reaching(s, A, k)
    BY <2>1, <2>2 DEF Reaching
  <2>5. ~Fine(k)
    BY <2>1, <2>4 DEF Limit
  <2>6. conf.size > 1 \/ s = r
    BY <1>1
  <2>7. HasGrad(r, k)
    BY <1>3, <2>2, <2>3, <2>4, <2>6
  <2> QED BY <2>3, <2>5, <2>7
<1>7. \A k \in Keys : HasGrad(r, k) => Registered(k, at[r])
  BY <1>3
<1> HIDE DEF Fine
<1>8. CheckInfOrNanGrad(solver[r], grad[r]) <=> ~Good(r, A)
  BY <1>2, <1>4, <1>5, <1>6, <1>7
<1>9. Good(r, A) => \A k \in Keys : HasGrad(r, k) => grad[r][k].finite = TRUE
  BY <1>2, <1>5, <1>7
<1> QED BY <1>1, <1>2, <1>3, <1>8, <1>9

---------------------------------------------------------------------------
\* Ranks agree on an attempt they all have fed.

\* The ranks have reduced the same number of attempts.
LEMMA ReducedFacts ==
    ASSUME Control, NEW r \in Ranks
    PROVE  /\ Attempt(r) \in Nat /\ Reduced(r) \in Int
           /\ Reduced(r) <= Attempt(r) /\ Attempt(r) - 1 <= Reduced(r)
           /\ \A s \in Ranks : Reduced(s) = Reduced(r) /\ Attempt(s) \in Nat /\ Reduced(r) <= Attempt(s)
           /\ Reduced(r) \in Nat
<1>1. \A s \in Ranks : Attempt(s) \in Nat /\ Reduced(s) = Reduced(r)
  BY Attempts DEF Control, Lockstep
<1>2. \A s \in Ranks : Reduced(s) \in {Attempt(s), Attempt(s) - 1}
  BY DEF Reduced
<1>3. pc[r] # "idle" => Attempt(r) >= 1
  BY DEF Control, StageOK, StageOf
<1> QED BY <1>1, <1>2, <1>3 DEF Reduced

\* Every attempt was made in a call of update() the rank has come to.
LEMMA CallFacts ==
    ASSUME Control, NEW r \in Ranks
    PROVE  /\ DOMAIN conf.calls = 1..Len(conf.calls) /\ Len(conf.calls) \in Nat
           /\ at[r] \in Nat \ {0} /\ at[r] <= Len(conf.calls) + 1
           /\ \A a \in 1..Attempt(r) :
                /\ log[r][a].call \in DOMAIN conf.calls
                /\ log[r][a].call \in Nat \ {0}
                /\ log[r][a].call <= at[r]
                /\ conf.calls[log[r][a].call].op = "update"
<1>1. DOMAIN conf.calls = 1..Len(conf.calls) /\ Len(conf.calls) \in Nat
  <2>1. conf.calls \in Seq(Calls)
    BY ConfFields DEF Control, ControlOK
  <2> QED BY <2>1
<1>2. at[r] \in Nat \ {0} /\ at[r] <= Len(conf.calls) + 1
  BY DEF Control, ControlOK, InRange
<1>3. EntriesOf(r)
  BY DEF Control, EntriesOK
<1> QED BY <1>1, <1>2, <1>3 DEF EntriesOf

\* Where ranks meet, an attempt all have reduced is complete.
LEMMA Settled ==
    ASSUME Control, NEW r \in Ranks, NEW a \in 1..Reduced(r), conf.size # 1
    PROVE  Complete(r, a)
<1>1. EntriesOf(r) /\ StageOf(r) /\ Attempt(r) \in Nat /\ pc[r] \in Stages
  BY Attempts DEF Control, StageOK, EntriesOK, ControlOK
<1>2. CASE a < Attempt(r)
  <2>1. a \in 1..Attempt(r)
    BY <1>1, <1>2
  <2> QED BY <1>1, <1>2, <2>1 DEF EntriesOf
<1>3. CASE a = Attempt(r)
  <2>1. Reduced(r) = Attempt(r) /\ pc[r] \notin {"feed", "reduce"}
    BY <1>1, <1>3 DEF Reduced
  <2>2. pc[r] \in {"idle", "again", "check"} /\ Attempt(r) >= 1
    BY <1>1, <1>3, <2>1 DEF Stages
  <2> QED BY <1>1, <1>3, <2>2 DEF StageOf, Complete
<1>4. a <= Attempt(r) /\ a \in Nat
  BY <1>1 DEF Reduced
<1> QED BY <1>1, <1>2, <1>3, <1>4

\* Ranks decide alike about an attempt all have reduced.
LEMMA SameAttempt ==
    ASSUME Control, HeadersAgree, NEW r \in Ranks, NEW s \in Ranks, NEW a \in 1..Reduced(r)
    PROVE  /\ Complete(s, a) <=> Complete(r, a)
           /\ Good(s, a) <=> Good(r, a)
           /\ log[s][a].call = log[r][a].call
           /\ log[s][a].scale = log[r][a].scale
           /\ log[s][a].counter = log[r][a].counter
           /\ log[s][a].recursive = log[r][a].recursive
<1>1. a \in 1..Attempt(r) /\ a <= Attempt(s) /\ a \in 1..Reduced(s)
  BY ReducedFacts
<1>2. Header(r, a) = Header(s, a)
  BY <1>1 DEF HeadersAgree
<1>3. /\ log[s][a].call = log[r][a].call
      /\ log[s][a].scale = log[r][a].scale
      /\ log[s][a].counter = log[r][a].counter
      /\ log[s][a].recursive = log[r][a].recursive
  BY <1>2, HeaderFields
<1>4. Good(s, a) <=> Good(r, a)
  BY <1>3 DEF Good
<1>5. Complete(s, a) <=> Complete(r, a)
  <2>1. CASE conf.size = 1
    BY <2>1 DEF Ranks
  <2>2. CASE conf.size # 1
    BY <2>2, <1>1, Settled
  <2> QED BY <2>1, <2>2
<1> QED BY <1>3, <1>4, <1>5

\* There is one next update after a call.
LEMMA SameCall ==
    ASSUME Control, NEW lo \in Nat, NEW c \in DOMAIN conf.calls, NEW d \in DOMAIN conf.calls,
           lo <= c, lo <= d, conf.calls[c].op = "update", conf.calls[d].op = "update",
           NoUpdate(lo, c - 1), NoUpdate(lo, d - 1)
    PROVE  c = d
<1>1. c \in Nat /\ d \in Nat
  <2>1. conf.calls \in Seq(Calls)
    BY ConfFields DEF Control, ControlOK
  <2> QED BY <2>1
<1>2. ~(c \in lo..(d - 1)) /\ ~(d \in lo..(c - 1))
  BY DEF NoUpdate
<1> QED BY <1>1, <1>2

\* Of what follows an attempt, everything is known: the updater, and the next call of update.
LEMMA FollowsSame ==
    ASSUME Control, HeadersAgree, NEW r \in Ranks, NEW s \in Ranks, NEW a \in 0..Reduced(r),
           NEW sc, NEW co, NEW re, NEW ca, NEW sd, NEW cp, NEW rf, NEW cb,
           Follows(r, a, sc, co, re, ca), Follows(s, a, sd, cp, rf, cb)
    PROVE  /\ sc = sd /\ co = cp /\ re = rf
           /\ (/\ ca \in DOMAIN conf.calls /\ conf.calls[ca].op = "update"
               /\ cb \in DOMAIN conf.calls /\ conf.calls[cb].op = "update") => ca = cb
           /\ a # 0 => (Again(r, a) <=> Again(s, a))
<1>1. CASE a = 0
  <2>1. sc = sd /\ co = cp /\ re = rf /\ NoUpdate(1, ca - 1) /\ NoUpdate(1, cb - 1)
    BY <1>1 DEF Follows
  <2>2. DOMAIN conf.calls = 1..Len(conf.calls) /\ Len(conf.calls) \in Nat
    BY CallFacts
  <2>3. (/\ ca \in DOMAIN conf.calls /\ conf.calls[ca].op = "update"
         /\ cb \in DOMAIN conf.calls /\ conf.calls[cb].op = "update") => ca = cb
    <3>1. SUFFICES ASSUME ca \in DOMAIN conf.calls, conf.calls[ca].op = "update",
                          cb \in DOMAIN conf.calls, conf.calls[cb].op = "update"
                   PROVE  ca = cb
      OBVIOUS
    <3>2. 1 <= ca /\ 1 <= cb /\ 1 \in Nat
      BY <2>2, <3>1
    <3> QED BY <2>1, <3>1, <3>2, SameCall
  <2> QED BY <1>1, <2>1, <2>3
<1>2. CASE a # 0
  <2>1. a \in 1..Reduced(r) /\ a \in 1..Attempt(r)
    BY <1>2, ReducedFacts
  <2>2. /\ Complete(s, a) <=> Complete(r, a)
        /\ Good(s, a) <=> Good(r, a)
        /\ log[s][a].call = log[r][a].call
        /\ log[s][a].scale = log[r][a].scale
        /\ log[s][a].counter = log[r][a].counter
        /\ log[s][a].recursive = log[r][a].recursive
    BY <2>1, SameAttempt
  <2>3. ScaleAfter(s, a) = ScaleAfter(r, a)
    BY <2>2 DEF ScaleAfter
  <2>4. CounterAfter(s, a) = CounterAfter(r, a)
    BY <2>2 DEF CounterAfter
  <2>5. Again(s, a) <=> Again(r, a)
    BY <2>2 DEF Again
  <2>6. RecursiveAfter(s, a) = RecursiveAfter(r, a)
    BY <2>2, <2>5 DEF RecursiveAfter
  <2>7. sc = sd /\ co = cp /\ re = rf
    BY <1>2, <2>3, <2>4, <2>6 DEF Follows
  <2>8. ASSUME ca \in DOMAIN conf.calls, conf.calls[ca].op = "update",
               cb \in DOMAIN conf.calls, conf.calls[cb].op = "update"
        PROVE  ca = cb
    <3>1. CASE Again(r, a)
      BY <1>2, <2>2, <2>5, <3>1 DEF Follows
    <3>2. CASE ~Again(r, a)
      <4> DEFINE c == log[r][a].call
      <4>1. c < ca /\ NoUpdate(c + 1, ca - 1) /\ c < cb /\ NoUpdate(c + 1, cb - 1)
        BY <1>2, <2>2, <2>5, <3>2 DEF Follows
      <4>2. c \in Nat /\ ca \in Nat /\ cb \in Nat
        <5>1. c \in Nat
          BY <2>1, CallFacts
        <5>2. DOMAIN conf.calls \subseteq Nat
          BY CallFacts
        <5> QED BY <5>1, <5>2, <2>8
      <4>3. c + 1 \in Nat /\ c + 1 <= ca /\ c + 1 <= cb
        BY <4>1, <4>2
      <4> HIDE DEF c
      <4> QED BY <2>8, <4>1, <4>3, SameCall
    <3> QED BY <3>1, <3>2
  <2> QED BY <2>5, <2>7, <2>8
<1> QED BY <1>1, <1>2

\* What follows an attempt all have reduced does not change.
LEMMA FollowsStays ==
    ASSUME Control, [Next]_vars, NEW r \in Ranks, NEW a \in 0..Reduced(r)
    PROVE  /\ \A sc, co, re, ca : Follows(r, a, sc, co, re, ca)' <=> Follows(r, a, sc, co, re, ca)
           /\ a # 0 => (Again(r, a)' <=> Again(r, a))
<1>1. conf' = conf
  BY LogMoves DEF Control
<1>2. \A i, j : NoUpdate(i, j)' = NoUpdate(i, j)
  BY <1>1, CallsStay
<1>3. CASE a = 0
  BY <1>2, <1>3 DEF Follows
<1>4. CASE a # 0
  <2>1. a \in 1..Reduced(r)
    BY <1>4, ReducedFacts
  <2>2. log'[r][a] = log[r][a] /\ Complete(r, a)' = Complete(r, a) /\ Good(r, a)' = Good(r, a)
    BY <2>1, PastStays DEF Control
  <2>3. ScaleAfter(r, a)' = ScaleAfter(r, a)
    BY <2>2 DEF ScaleAfter
  <2>4. CounterAfter(r, a)' = CounterAfter(r, a)
    BY <2>2 DEF CounterAfter
  <2>5. Again(r, a)' <=> Again(r, a)
    BY <2>2 DEF Again
  <2>6. RecursiveAfter(r, a)' = RecursiveAfter(r, a)
    BY <2>2, <2>5 DEF RecursiveAfter
  <2> QED BY <1>2, <1>4, <2>2, <2>3, <2>4, <2>5, <2>6 DEF Follows
<1> QED BY <1>3, <1>4

---------------------------------------------------------------------------
\* What has followed an attempt is what its outcome asks for.

\* The attempts already in the log follow each other as they did.
LEMMA ChainPast ==
    ASSUME Control, [Next]_vars, NEW r \in Ranks, ChainOf(r), NEW a \in 1..Attempt(r)
    PROVE  Follows(r, a - 1, log[r][a].scale, log[r][a].counter, log[r][a].recursive, log[r][a].call)'
<1>1. a - 1 \in 0..Reduced(r)
  BY ReducedFacts
<1>2. Follows(r, a - 1, log[r][a].scale, log[r][a].counter, log[r][a].recursive, log[r][a].call)
  BY DEF ChainOf
<1>3. /\ log'[r][a].call = log[r][a].call
      /\ log'[r][a].scale = log[r][a].scale
      /\ log'[r][a].counter = log[r][a].counter
      /\ log'[r][a].recursive = log[r][a].recursive
  <2>1. Header(r, a)' = Header(r, a)
    BY LogMoves DEF Control, Moves
  <2> QED BY <2>1, HeaderFieldsStay
<1>4. Follows(r, a - 1, log[r][a].scale, log[r][a].counter, log[r][a].recursive, log[r][a].call)' <=>
      Follows(r, a - 1, log[r][a].scale, log[r][a].counter, log[r][a].recursive, log[r][a].call)
  BY <1>1, <1>3, FollowsStays
<1> QED BY <1>2, <1>4

\* A rank that does nothing keeps its chain.
LEMMA ChainStill ==
    ASSUME Control, [Next]_vars, NEW s \in Ranks, ChainOf(s), Still(s)
    PROVE  ChainOf(s)'
<1>1. conf' = conf /\ Attempt(s)' = Attempt(s) /\ Reduced(s)' = Reduced(s) /\ Attempt(s) \in Nat
  BY LogMoves, StillOf, ReducedFacts DEF Control
<1>2. \A a \in 1..Attempt(s)' : a \in 1..Attempt(s)
  BY <1>1
<1>3. Busy(s)' <=> Busy(s)
  BY DEF Busy, Still
<1>4. ~Busy(s) => Attempt(s) \in 0..Reduced(s)
  BY <1>1, ReducedFacts DEF Busy, Reduced
<1>5. ~Busy(s) => Follows(s, Attempt(s), scale[s], counter[s], recursive[s], at[s])'
  <2>1. ASSUME ~Busy(s)
        PROVE  Follows(s, Attempt(s), scale[s], counter[s], recursive[s], at[s])' <=>
               Follows(s, Attempt(s), scale[s], counter[s], recursive[s], at[s])
    BY <1>1, <1>4, <2>1, FollowsStays DEF Still
  <2> QED BY <2>1 DEF ChainOf
<1>6. (~Busy(s) /\ Attempt(s) # 0) => (Again(s, Attempt(s))' <=> Again(s, Attempt(s)))
  BY <1>1, <1>4, FollowsStays
<1>7. pc[s] = "again" => ~Busy(s) /\ Attempt(s) # 0
  BY DEF Busy, Control, StageOK, StageOf
<1>8. pc[s] = "idle" => ~Busy(s)
  BY DEF Busy
<1>9. pc'[s] = pc[s]
  BY DEF Still
<1>10. \A a \in 1..Attempt(s) :
        Follows(s, a - 1, log[s][a].scale, log[s][a].counter, log[s][a].recursive, log[s][a].call)'
  BY ChainPast
<1>11. /\ (pc[s] = "again") => Again(s, Attempt(s))
       /\ (pc[s] = "idle" /\ Attempt(s) >= 1) => ~Again(s, Attempt(s))
  BY DEF ChainOf
<1> QED BY <1>1, <1>2, <1>3, <1>5, <1>6, <1>7, <1>8, <1>9, <1>10, <1>11 DEF ChainOf

\* A decision about an attempt: the updater and the call that follow it.
LEMMA ChainDecided ==
    ASSUME Control, [Next]_vars, NEW r \in Ranks, ChainOf(r), Busy(r), log' = log, ~Busy(r)',
           Good(r, Attempt(r))' <=> Good(r, Attempt(r)),
           Follows(r, Attempt(r), scale'[r], counter'[r], recursive'[r], at'[r]),
           pc'[r] = "again" <=> Again(r, Attempt(r)), pc'[r] \in {"idle", "again"}
    PROVE  ChainOf(r)'
<1>1. conf' = conf /\ Attempt(r)' = Attempt(r) /\ Attempt(r) \in Nat \ {0}
  <2>1. pc[r] # "idle"
    BY DEF Busy
  <2>2. Attempt(r) >= 1
    BY <2>1 DEF Control, StageOK, StageOf
  <2> QED BY <2>2, LogMoves, ReducedFacts DEF Control, Attempt
<1> DEFINE A == Attempt(r)
<1>2. \A a \in 1..A : Follows(r, a - 1, log[r][a].scale, log[r][a].counter, log[r][a].recursive, log[r][a].call)'
  BY ChainPast
<1>3. \A i, j : NoUpdate(i, j)' = NoUpdate(i, j)
  BY <1>1, CallsStay
<1>4. Complete(r, A)' <=> Complete(r, A)
  BY <1>1 DEF Complete
<1>5. Again(r, A)' <=> Again(r, A)
  BY <1>1, <1>4 DEF Again
<1>6. ScaleAfter(r, A)' = ScaleAfter(r, A) /\ CounterAfter(r, A)' = CounterAfter(r, A)
      /\ RecursiveAfter(r, A)' = RecursiveAfter(r, A)
  BY <1>1, <1>4, <1>5 DEF ScaleAfter, CounterAfter, RecursiveAfter
<1>7. Follows(r, Attempt(r), scale[r], counter[r], recursive[r], at[r])'
  BY <1>1, <1>3, <1>5, <1>6 DEF Follows
<1> QED BY <1>1, <1>2, <1>5, <1>7 DEF ChainOf

\* A step of a rank continues its chain by the outcome of its attempt.
LEMMA ChainStep ==
    ASSUME Control, ChainOK, NEW r \in Ranks, Step(r),
           Overflow(r) => ~Good(r, Attempt(r)), Update(r) => Good(r, Attempt(r))
    PROVE  ChainOf(r)'
<1>0. /\ ControlOK /\ InRange /\ DomainsOK /\ EntriesOK /\ StageOK /\ Lockstep
      /\ [Next]_vars /\ Control'
  BY ControlInductive DEF Control, Next
<1>1. /\ conf' = conf /\ Ranks' = Ranks /\ Attempt(r) \in Nat /\ Moves(r)
      /\ ChainOf(r) /\ StageOf(r)
      /\ at[r] \in Nat \ {0}
  BY <1>0, LogMoves, ReducedFacts, CallFacts DEF ChainOK, StageOK
<1>2. \A a \in 1..Attempt(r) :
        Follows(r, a - 1, log[r][a].scale, log[r][a].counter, log[r][a].recursive, log[r][a].call)'
  BY <1>0, <1>1, ChainPast
<1>3. CASE ChangeParameters(r)
  <2>1. /\ pc[r] = "idle" /\ pc'[r] = "idle" /\ at'[r] = at[r] + 1
        /\ at[r] \in DOMAIN conf.calls /\ Call(r).op # "update"
        /\ scale'[r] = scale[r] /\ counter'[r] = counter[r] /\ recursive'[r] = recursive[r]
        /\ log' = log
    BY <1>0, <1>3, ChangeFacts
  <2> DEFINE A == Attempt(r)
  <2>2. Attempt(r)' = A /\ A \in 0..Reduced(r)
    BY <1>1, <2>1 DEF Attempt, Reduced
  <2>3. Follows(r, A, scale[r], counter[r], recursive[r], at[r])
    BY <1>1, <2>1 DEF ChainOf, Busy
  <2>4. \A i \in Nat : NoUpdate(i, at[r] - 1) => NoUpdate(i, (at[r] + 1) - 1)
    <3>1. \A i \in Nat : \A m \in i..((at[r] + 1) - 1) : m \in i..(at[r] - 1) \/ m = at[r]
      BY <1>1
    <3> QED BY <2>1, <3>1 DEF NoUpdate, Call
  <2>5. (A = 0 \/ ~Again(r, A)) /\ (A # 0 => log[r][A].call \in Nat \ {0})
    BY <1>1, <2>1, CallFacts DEF ChainOf
  <2>6. Follows(r, A, scale[r], counter[r], recursive[r], at[r] + 1)
    <3>1. CASE A = 0
      BY <2>3, <2>4, <3>1 DEF Follows
    <3>2. CASE A # 0
      <4> DEFINE c == log[r][A].call
      <4>1. c < at[r] /\ NoUpdate(c + 1, at[r] - 1)
        BY <2>3, <2>5, <3>2 DEF Follows
      <4>2. c \in Nat
        BY <2>5, <3>2
      <4>3. c < at[r] + 1 /\ NoUpdate(c + 1, (at[r] + 1) - 1)
        <5> HIDE DEF c
        <5> QED BY <1>1, <2>4, <4>1, <4>2
      <4> QED BY <2>3, <2>5, <3>2, <4>3 DEF Follows
    <3> QED BY <3>1, <3>2
  <2>7. /\ \A sc, co, re, ca : Follows(r, A, sc, co, re, ca)' <=> Follows(r, A, sc, co, re, ca)
        /\ A # 0 => (Again(r, A)' <=> Again(r, A))
    <3>1. A \in 0..Reduced(r)
      BY <2>2
    <3> QED BY <1>0, <2>2, <3>1, FollowsStays
  <2>8. Follows(r, Attempt(r), scale[r], counter[r], recursive[r], at[r])'
    BY <2>1, <2>2, <2>6, <2>7
  <2> QED BY <1>1, <1>2, <2>1, <2>2, <2>5, <2>7, <2>8 DEF ChainOf
<1>4. CASE Begin(r)
  <2>1. /\ pc[r] \in {"again", "idle"} /\ pc'[r] = "feed" /\ at'[r] = at[r]
    BY <1>0, <1>4, BeginFacts
  <2>0. PICK A \in Nat : A = Attempt(r)
    BY <1>1
  <2>2. /\ Attempt(r)' = A + 1
        /\ log'[r][A + 1] = [call |-> at[r], scale |-> scale[r], counter |-> counter[r],
                             recursive |-> recursive[r], batches |-> <<>>]
        /\ A \in 0..Reduced(r)
    BY <1>0, <1>1, <1>4, <2>0, <2>1, LogBegin DEF Reduced
  <2>3. Follows(r, A, scale[r], counter[r], recursive[r], at[r])
    BY <1>1, <2>0, <2>1 DEF ChainOf, Busy
  <2>4. \A sc, co, re, ca : Follows(r, A, sc, co, re, ca)' <=> Follows(r, A, sc, co, re, ca)
    BY <1>0, <2>2, FollowsStays
  <2>5. \A a \in 1..Attempt(r)' :
          Follows(r, a - 1, log[r][a].scale, log[r][a].counter, log[r][a].recursive, log[r][a].call)'
    <3> TAKE a \in 1..Attempt(r)'
    <3>1. CASE a \in 1..A
      BY <1>2, <2>0, <3>1
    <3>2. CASE a = A + 1
      <4>1. a - 1 = A
        BY <2>0, <3>2
      <4>2. /\ log'[r][a].scale = scale[r] /\ log'[r][a].counter = counter[r]
            /\ log'[r][a].recursive = recursive[r] /\ log'[r][a].call = at[r]
        BY <2>2, <3>2
      <4> QED BY <2>3, <2>4, <4>1, <4>2
    <3> QED BY <2>0, <2>2, <3>1, <3>2
  <2> QED BY <2>1, <2>5 DEF ChainOf, Busy
<1>5. CASE FeedForwardBackward(r)
  <2>1. pc'[r] \in {"feed", "reduce", "check"}
    BY <1>0, <1>5, FeedFacts
  <2>2. Attempt(r)' = Attempt(r)
    BY <1>0, <1>5, LogFeed
  <2> QED BY <1>2, <2>1, <2>2 DEF ChainOf, Busy
<1>6. CASE FeederRaises(r)
  <2>1. /\ pc[r] = "feed" /\ pc'[r] = "idle" /\ at'[r] = at[r] + 1 /\ log' = log
        /\ scale'[r] = scale[r] /\ counter'[r] = counter[r] /\ recursive'[r] = recursive[r]
    BY <1>0, <1>6, RaiseFacts
  <2> DEFINE A == Attempt(r)
  <2>2. /\ A # 0 /\ log[r][A].call = at[r] /\ log[r][A].scale = scale[r]
        /\ log[r][A].counter = counter[r] /\ log[r][A].recursive = recursive[r]
        /\ ~Complete(r, A)
    <3>1. Len(log[r][A].batches) < conf.accumGrad /\ A >= 1
      BY <1>1, <2>1 DEF StageOf
    <3>2. Len(log[r][A].batches) \in Nat /\ conf.accumGrad \in Nat
      <4>1. log[r] \in Seq(Entry) /\ A \in 1..Len(log[r])
        BY <1>0, <1>1, <3>1 DEF ControlOK, Attempt
      <4>2. log[r][A] \in Entry
        BY <4>1
      <4>3. log[r][A].batches \in Seq(Batches)
        BY <4>2 DEF Entry
      <4>4. conf.accumGrad \in Nat
        BY <1>0, ConfFields DEF ControlOK
      <4> QED BY <4>3, <4>4
    <3> QED BY <1>1, <2>1, <3>1, <3>2 DEF StageOf, Busy, Complete
  <2>3. ~Again(r, A)
    BY <2>2 DEF Again
  <2>4. NoUpdate(at[r] + 1, (at[r] + 1) - 1)
    BY <1>1 DEF NoUpdate
  <2>5. Follows(r, A, scale[r], counter[r], recursive[r], at[r] + 1)
    BY <1>1, <2>2, <2>3, <2>4 DEF Follows, ScaleAfter, CounterAfter, RecursiveAfter
  <2>6. Good(r, A)' <=> Good(r, A)
    <3>1. \A k, i : Registered(k, i)' = Registered(k, i)
      BY <1>1, CallsStay
    <3> QED BY <1>1, <2>1, <3>1 DEF Good, Attempt
  <2>7. Good(r, Attempt(r))' <=> Good(r, Attempt(r))
    BY <1>1, <2>1, <2>6 DEF Attempt
  <2> QED BY <1>0, <1>1, <2>1, <2>3, <2>5, <2>7, ChainDecided DEF Busy
<1>7. CASE Overflow(r)
  <2>1. /\ pc[r] = "check" /\ log' = log
        /\ scale'[r] = scale[r] - 1 /\ counter'[r] = 0
        /\ Exhausted(recursive[r] + 1) =>
                recursive'[r] = 0 /\ pc'[r] = "idle" /\ at'[r] = at[r] + 1
        /\ ~Exhausted(recursive[r] + 1) =>
                recursive'[r] = recursive[r] + 1 /\ pc'[r] = "again" /\ at'[r] = at[r]
    BY <1>0, <1>7, OverflowFacts
  <2> DEFINE A == Attempt(r)
  <2>2. /\ A # 0 /\ log[r][A].call = at[r] /\ log[r][A].scale = scale[r]
        /\ log[r][A].counter = counter[r] /\ log[r][A].recursive = recursive[r]
        /\ Complete(r, A)
    BY <1>1, <2>1 DEF StageOf, Busy, Complete
  <2>3. ~Good(r, A)
    BY <1>7
  <2>4. Again(r, A) <=> ~Exhausted(recursive[r] + 1)
    BY <2>2, <2>3 DEF Again
  <2>5. NoUpdate(at[r] + 1, (at[r] + 1) - 1)
    BY <1>1 DEF NoUpdate
  <2>6. Follows(r, A, scale'[r], counter'[r], recursive'[r], at'[r])
    BY <1>1, <2>1, <2>2, <2>3, <2>4, <2>5 DEF Follows, ScaleAfter, CounterAfter, RecursiveAfter
  <2>7. Good(r, Attempt(r))' <=> Good(r, Attempt(r))
    <3>1. \A k, i : Registered(k, i)' = Registered(k, i)
      BY <1>1, CallsStay
    <3> QED BY <1>1, <2>1, <3>1 DEF Good, Attempt
  <2>8. (pc'[r] = "again" <=> Again(r, A)) /\ pc'[r] \in {"idle", "again"}
    BY <2>1, <2>4
  <2> QED BY <1>0, <1>1, <2>1, <2>6, <2>7, <2>8, ChainDecided DEF Busy
<1>8. CASE Update(r)
  <2>1. /\ pc[r] = "check" /\ pc'[r] = "idle" /\ log' = log
        /\ at'[r] = at[r] + 1 /\ recursive'[r] = 0
        /\ Grows(counter[r]) => scale'[r] = scale[r] + 1 /\ counter'[r] = 1
        /\ ~Grows(counter[r]) => scale'[r] = scale[r] /\ counter'[r] = counter[r] + 1
    BY <1>0, <1>8, UpdateFacts
  <2> DEFINE A == Attempt(r)
  <2>2. /\ A # 0 /\ log[r][A].call = at[r] /\ log[r][A].scale = scale[r]
        /\ log[r][A].counter = counter[r] /\ log[r][A].recursive = recursive[r]
        /\ Complete(r, A)
    BY <1>1, <2>1 DEF StageOf, Busy, Complete
  <2>3. Good(r, A) /\ ~Again(r, A)
    BY <1>8 DEF Again
  <2>5. NoUpdate(at[r] + 1, (at[r] + 1) - 1)
    BY <1>1 DEF NoUpdate
  <2>6. Follows(r, A, scale'[r], counter'[r], recursive'[r], at'[r])
    BY <1>1, <2>1, <2>2, <2>3, <2>5 DEF Follows, ScaleAfter, CounterAfter, RecursiveAfter
  <2>7. Good(r, Attempt(r))' <=> Good(r, Attempt(r))
    <3>1. \A k, i : Registered(k, i)' = Registered(k, i)
      BY <1>1, CallsStay
    <3> QED BY <1>1, <2>1, <3>1 DEF Good, Attempt
  <2> QED BY <1>0, <1>1, <2>1, <2>3, <2>6, <2>7, ChainDecided DEF Busy
<1> QED BY <1>3, <1>4, <1>5, <1>6, <1>7, <1>8 DEF Step

---------------------------------------------------------------------------
\* The scale does not fall below the least with an inverse.

\* The fields of an attempt and of its batches.
LEMMA EntryFacts ==
    ASSUME Control, NEW r \in Ranks, NEW a \in 1..Attempt(r)
    PROVE  /\ log[r][a] \in Entry
           /\ log[r][a].scale \in Int
           /\ log[r][a].batches \in Seq(Batches)
           /\ Len(log[r][a].batches) \in Nat
           /\ DOMAIN log[r][a].batches = 1..Len(log[r][a].batches)
           /\ \A i \in 1..Len(log[r][a].batches) :
                /\ log[r][a].batches[i] \in Batches
                /\ Limit(r, a, i) \in Int
                /\ log[r][a].batches[i].touches \subseteq Keys
<1>1. log[r][a] \in Entry
  BY DEF Control, ControlOK, Attempt
<1>2. log[r][a].scale \in Int /\ log[r][a].batches \in Seq(Batches)
  BY <1>1 DEF Entry
<1>3. \A i \in 1..Len(log[r][a].batches) : log[r][a].batches[i] \in Batches
  BY <1>2
<1> QED BY <1>1, <1>2, <1>3, BatchAssumption DEF Limit

\* The types of the updater of a rank.
LEMMA ScaleFacts ==
    ASSUME Control, NEW r \in Ranks
    PROVE  /\ scale[r] \in Int /\ counter[r] \in Nat /\ recursive[r] \in Nat
           /\ MaxExp \in Int
BY SolverAssumption DEF Control, ControlOK

\* A scale halves only when some gradient overflowed, which the least one does not allow.
LEMMA FloorStep ==
    ASSUME Control, FloorOK, HeadersAgree, NEW r \in Ranks, Step(r),
           Overflow(r) => ~Good(r, Attempt(r))
    PROVE  FloorOf(r)'
<1>0. /\ ControlOK /\ InRange /\ DomainsOK /\ EntriesOK /\ StageOK /\ Lockstep /\ [Next]_vars
  BY DEF Control, Next
<1>1. /\ conf' = conf /\ Attempt(r) \in Nat
      /\ FloorOf(r) /\ StageOf(r)
      /\ scale[r] \in Int /\ MaxExp \in Int
  BY <1>0, LogMoves, ReducedFacts, ScaleFacts DEF FloorOK, StageOK
<1>2. ASSUME log' = log, -MaxExp <= scale'[r]
      PROVE  FloorOf(r)'
  BY <1>1, <1>2 DEF FloorOf, Attempt
<1>3. CASE ChangeParameters(r)
  <2>1. log' = log /\ scale'[r] = scale[r]
    BY <1>0, <1>3, ChangeFacts
  <2> QED BY <1>1, <1>2, <2>1 DEF FloorOf
<1>4. CASE Begin(r)
  <2>1. scale'[r] = scale[r]
    BY <1>0, <1>4, BeginFacts
  <2>2. /\ Attempt(r)' = Attempt(r) + 1
        /\ \A a \in 1..Attempt(r) : log'[r][a] = log[r][a]
        /\ log'[r][Attempt(r) + 1] = [call |-> at[r], scale |-> scale[r], counter |-> counter[r],
                             recursive |-> recursive[r], batches |-> <<>>]
    BY <1>0, <1>4, LogBegin
  <2>3. log'[r][Attempt(r) + 1].scale = scale[r] /\ Len(log'[r][Attempt(r) + 1].batches) = 0
    BY <2>2
  <2>4. \A a \in 1..Attempt(r)' : a \in 1..Attempt(r) \/ a = Attempt(r) + 1
    BY <1>1, <2>2
  <2>5. -MaxExp <= scale'[r]
    BY <1>1, <2>1 DEF FloorOf
  <2>6. ASSUME NEW a \in 1..Attempt(r)'
        PROVE  /\ -MaxExp <= log'[r][a].scale
               /\ \A i \in 1..Len(log'[r][a].batches) :
                    log'[r][a].scale <= log'[r][a].batches[i].limit \/ -MaxExp < log'[r][a].scale
    <3>1. CASE a \in 1..Attempt(r)
      BY <1>1, <2>2, <3>1 DEF FloorOf
    <3>2. CASE a = Attempt(r) + 1
      BY <2>1, <2>3, <2>5, <3>2
    <3> QED BY <2>4, <3>1, <3>2
  <2> QED BY <2>5, <2>6 DEF FloorOf
<1>5. CASE FeedForwardBackward(r)
  <2>1. scale'[r] = scale[r] /\ pc[r] = "feed"
    BY <1>0, <1>5, FeedFacts
  <2>2. /\ Attempt(r) \in Nat \ {0} /\ Fed(r) \in Nat
        /\ Attempt(r)' = Attempt(r)
        /\ \A a \in 1..(Attempt(r) - 1) : log'[r][a] = log[r][a]
        /\ log'[r][Attempt(r)].scale = log[r][Attempt(r)].scale
    BY <1>0, <1>5, LogFeed
  <2>3. PICK b \in Batches :
          /\ scale[r] <= b.limit \/ -MaxExp < scale[r]
          /\ Len(log'[r][Attempt(r)].batches) = Fed(r) + 1
          /\ log'[r][Attempt(r)].batches[Fed(r) + 1] = b
          /\ \A i \in 1..Fed(r) : log'[r][Attempt(r)].batches[i] = log[r][Attempt(r)].batches[i]
    BY <1>0, <1>5, LogFeed
  <2>4. log[r][Attempt(r)].scale = scale[r] /\ Fed(r) = Len(log[r][Attempt(r)].batches)
    BY <1>1, <2>1 DEF StageOf, Busy, Fed
  <2>5. \A a \in 1..Attempt(r) : a \in 1..(Attempt(r) - 1) \/ a = Attempt(r)
    BY <2>2
  <2>6. ASSUME NEW a \in 1..Attempt(r)
        PROVE  /\ -MaxExp <= log'[r][a].scale
               /\ \A i \in 1..Len(log'[r][a].batches) :
                    log'[r][a].scale <= log'[r][a].batches[i].limit \/ -MaxExp < log'[r][a].scale
    <3>1. CASE a \in 1..(Attempt(r) - 1)
      BY <1>1, <2>2, <3>1 DEF FloorOf
    <3>2. CASE a = Attempt(r)
      <4>1. \A i \in 1..(Fed(r) + 1) : i \in 1..Fed(r) \/ i = Fed(r) + 1
        BY <2>2
      <4>2. /\ -MaxExp <= log[r][a].scale
            /\ \A i \in 1..Fed(r) : scale[r] <= log[r][a].batches[i].limit \/ -MaxExp < scale[r]
        BY <1>1, <2>4, <3>2 DEF FloorOf
      <4> QED BY <2>2, <2>3, <2>4, <3>2, <4>1, <4>2
    <3> QED BY <2>5, <3>1, <3>2
  <2> QED BY <1>1, <2>1, <2>2, <2>6 DEF FloorOf
<1>6. CASE FeederRaises(r)
  <2>1. log' = log /\ scale'[r] = scale[r]
    BY <1>0, <1>6, RaiseFacts
  <2> QED BY <1>1, <1>2, <2>1 DEF FloorOf
<1>7. CASE Overflow(r)
  <2> DEFINE A == Attempt(r)
  <2>1. /\ log' = log /\ scale'[r] = scale[r] - 1 /\ pc[r] = "check"
    BY <1>0, <1>7, OverflowFacts
  <2>2. ~Good(r, A) /\ A = Reduced(r) /\ log[r][A].scale = scale[r] /\ A \in 1..A
    BY <1>1, <1>7, <2>1 DEF Reduced, StageOf, Busy
  <2>3. PICK s \in Ranks : ~\A i \in DOMAIN log[s][A].batches :
            \/ log[r][A].scale <= log[s][A].batches[i].limit
            \/ \A k \in log[s][A].batches[i].touches : ~Registered(k, log[r][A].call)
    BY <2>2 DEF Good
  <2>4. PICK i \in DOMAIN log[s][A].batches : ~(log[r][A].scale <= log[s][A].batches[i].limit)
    BY <2>3
  <2>5. A \in 1..Attempt(s) /\ log[s][A].scale = scale[r]
    BY <2>2, ReducedFacts, SameAttempt
  <2>6. i \in 1..Len(log[s][A].batches)
    BY <2>5, EntryFacts
  <2>7. -MaxExp < scale[r]
    BY <2>2, <2>4, <2>5, <2>6 DEF FloorOK, FloorOf
  <2>8. -MaxExp <= scale'[r]
    BY <1>1, <2>1, <2>7
  <2> QED BY <1>2, <2>1, <2>8
<1>8. CASE Update(r)
  <2>1. /\ log' = log
        /\ Grows(counter[r]) => scale'[r] = scale[r] + 1
        /\ ~Grows(counter[r]) => scale'[r] = scale[r]
    BY <1>0, <1>8, UpdateFacts
  <2>2. -MaxExp <= scale'[r]
    BY <1>1, <2>1 DEF FloorOf
  <2> QED BY <1>2, <2>1, <2>2
<1> QED BY <1>3, <1>4, <1>5, <1>6, <1>7, <1>8 DEF Step

---------------------------------------------------------------------------
\* A rank that begins an attempt begins it like those which began it before.
LEMMA HeadersBegin ==
    ASSUME Control, ChainOK, HeadersAgree, NEW r \in Ranks, Begin(r), NEW s \in Ranks \ {r},
           Attempt(r) + 1 <= Attempt(s)
    PROVE  Header(s, Attempt(r) + 1) =
            [call |-> at[r], scale |-> scale[r], counter |-> counter[r], recursive |-> recursive[r]]
<1> DEFINE A == Attempt(r)
<1>1. /\ \/ pc[r] = "again"
         \/ pc[r] = "idle" /\ at[r] \in DOMAIN conf.calls /\ Call(r).op = "update"
  BY BeginFacts DEF Control
<1>2. A \in Nat /\ Reduced(r) = A /\ A + 1 \in 1..Attempt(s) /\ A \in 0..Reduced(r)
  BY <1>1, ReducedFacts DEF Reduced
<1>3. Follows(r, A, scale[r], counter[r], recursive[r], at[r])
  BY <1>1 DEF ChainOK, ChainOf, Busy
<1>4. Follows(s, A, log[s][A + 1].scale, log[s][A + 1].counter, log[s][A + 1].recursive, log[s][A + 1].call)
  <2>1. (A + 1) - 1 = A
    BY <1>2
  <2> QED BY <1>2, <2>1 DEF ChainOK, ChainOf
<1>5. at[r] \in DOMAIN conf.calls /\ conf.calls[at[r]].op = "update"
  <2>1. CASE pc[r] = "again"
    <3>1. A >= 1 /\ log[r][A].call = at[r]
      BY <2>1 DEF Control, StageOK, StageOf
    <3>2. A \in 1..Attempt(r)
      BY <1>2, <3>1
    <3> QED BY <3>1, <3>2, CallFacts
  <2>2. CASE pc[r] # "again"
    BY <1>1, <2>2 DEF Call
  <2> QED BY <2>1, <2>2
<1>6. log[s][A + 1].call \in DOMAIN conf.calls /\ conf.calls[log[s][A + 1].call].op = "update"
  BY <1>2, CallFacts
<1>7. /\ scale[r] = log[s][A + 1].scale /\ counter[r] = log[s][A + 1].counter
      /\ recursive[r] = log[s][A + 1].recursive /\ at[r] = log[s][A + 1].call
  BY <1>2, <1>3, <1>4, <1>5, <1>6, FollowsSame
<1> QED BY <1>7 DEF Header

\* The attempts of all ranks have the same headers after every step.
LEMMA HeadersStep ==
    ASSUME Control, ChainOK, HeadersAgree, [Next]_vars
    PROVE  HeadersAgree'
<1>1. conf' = conf /\ Ranks' = Ranks /\ \A s \in Ranks : Moves(s)
  BY LogMoves DEF Control
<1>2. ASSUME NEW r \in Ranks, NEW s \in Ranks, NEW a \in 1..Attempt(r), a <= Attempt(s)
      PROVE  Header(r, a)' = Header(s, a)'
  <2>1. Header(r, a) = Header(s, a) /\ a \in 1..Attempt(s)
    BY <1>1, <1>2 DEF HeadersAgree, Moves
  <2> QED BY <1>1, <2>1 DEF Moves
<1>3. CASE \A s \in Ranks : Attempt(s)' = Attempt(s)
  BY <1>1, <1>2, <1>3 DEF HeadersAgree
<1>4. ASSUME NEW r \in Ranks, Begin(r)
      PROVE  HeadersAgree'
  <2>0. PICK A \in Nat : A = Attempt(r)
    BY <1>1 DEF Moves
  <2>1. /\ Attempt(r)' = A + 1
        /\ log'[r][A + 1] = [call |-> at[r], scale |-> scale[r], counter |-> counter[r],
                             recursive |-> recursive[r], batches |-> <<>>]
        /\ \A s \in Ranks \ {r} : log'[s] = log[s] /\ Attempt(s)' = Attempt(s)
    BY <1>4, <2>0, LogBegin DEF Control, Attempt
  <2> DEFINE h == [call |-> at[r], scale |-> scale[r], counter |-> counter[r], recursive |-> recursive[r]]
  <2>2. Header(r, A + 1)' = h
    BY <2>1 DEF Header
  <2>3. ASSUME NEW s \in Ranks \ {r}, A + 1 <= Attempt(s)
        PROVE  Header(s, A + 1)' = h
    <3>1. Header(s, A + 1) = h
      BY <1>4, <2>0, <2>3, HeadersBegin
    <3>2. A + 1 \in 1..Attempt(s) /\ Moves(s)
      BY <1>1, <2>3 DEF Moves
    <3> QED BY <3>1, <3>2 DEF Moves
  <2> HIDE DEF h
  <2>4. ASSUME NEW p \in Ranks, NEW s \in Ranks, NEW a \in 1..Attempt(p)', a <= Attempt(s)'
        PROVE  Header(p, a)' = Header(s, a)'
    <3>1. Attempt(p) \in Nat /\ Attempt(s) \in Nat /\ a \in Nat
      BY <1>1, <2>4 DEF Moves
    <3>2. CASE a <= Attempt(p) /\ a <= Attempt(s)
      <4>1. a \in 1..Attempt(p)
        BY <3>1, <3>2
      <4> QED BY <1>2, <3>2, <4>1
    <3>3. CASE ~(a <= Attempt(p) /\ a <= Attempt(s))
      <4>1. a = A + 1
        <5>1. p = r \/ s = r
          BY <2>1, <2>4, <3>1, <3>3
        <5>2. \A q \in {p, s} : Attempt(q)' = IF q = r THEN A + 1 ELSE Attempt(q)
          BY <2>1, <2>4
        <5> QED BY <2>0, <2>4, <3>1, <3>3, <5>1, <5>2
      <4>2. \A q \in {p, s} : Header(q, A + 1)' = h
        <5>1. \A q \in {p, s} : q # r => A + 1 <= Attempt(q)
          BY <2>1, <2>4, <4>1
        <5> QED BY <2>2, <2>3, <5>1
      <4> QED BY <4>1, <4>2
    <3> QED BY <3>2, <3>3
  <2> QED BY <1>1, <2>4 DEF HeadersAgree
<1>5. ASSUME NEW r \in Ranks, Step(r), ~Begin(r)
      PROVE  \A s \in Ranks : Attempt(s)' = Attempt(s)
  <2>1. CASE FeedForwardBackward(r)
    BY <2>1, LogFeed DEF Control, Attempt
  <2>2. CASE ~FeedForwardBackward(r)
    <3>1. log' = log
      BY <1>5, <2>2 DEF Step, ChangeParameters, FeederRaises, Overflow, Update
    <3> QED BY <3>1 DEF Attempt
  <2> QED BY <2>1, <2>2
<1>6. CASE UNCHANGED vars \/ AllReduce
  BY <1>3, <1>6 DEF vars, AllReduce, Attempt
<1> QED BY <1>3, <1>4, <1>5, <1>6 DEF Next

---------------------------------------------------------------------------
\* The gradients are those of the batches in the log.

\* A batch reaches what it touches, as the last of its attempt.
LEMMA FeedReaching ==
    ASSUME Control, NEW r \in Ranks, FeedForwardBackward(r), NEW A, A = Attempt(r),
           NEW F, F = Fed(r) + 1
    PROVE  \E b \in Batches :
            /\ grad'[r] = Backward(grad[r], b, Term(r, A, F, scale[r]))
            /\ \A k : Reaching(r, A, k)' =
                        IF k \in b.touches THEN Reaching(r, A, k) \cup {F} ELSE Reaching(r, A, k)
            /\ Limit(r, A, F)' = b.limit
            /\ \A k : \A i \in Reaching(r, A, k) : Limit(r, A, i)' = Limit(r, A, i)
            /\ log'[r][A].scale = scale[r] /\ log[r][A].scale = scale[r]
            /\ Attempt(r)' = A
            /\ b.limit \in Int
<1>1. /\ A \in Nat \ {0} /\ Fed(r) \in Nat /\ log[r][A].batches \in Seq(Batches)
      /\ log' \in [Ranks -> Seq(Entry)]
      /\ Attempt(r)' = A
      /\ log'[r][A].scale = log[r][A].scale
  BY LogFeed DEF Control
<1>2. PICK b \in Batches :
        /\ grad' = [grad EXCEPT ![r] = Backward(grad[r], b, Term(r, A, F, scale[r]))]
        /\ Len(log'[r][A].batches) = F
        /\ log'[r][A].batches[F] = b
        /\ \A i \in 1..Fed(r) : log'[r][A].batches[i] = log[r][A].batches[i]
  BY LogFeed DEF Control
<1>3. grad'[r] = Backward(grad[r], b, Term(r, A, F, scale[r]))
  BY <1>2, Elsewhere DEF Control, DomainsOK
<1>4. DOMAIN log[r][A].batches = 1..Fed(r)
  BY <1>1 DEF Fed
<1>5. DOMAIN log'[r][A].batches = 1..F
  <2>1. log'[r] \in Seq(Entry) /\ A \in 1..Len(log'[r])
    BY <1>1 DEF Attempt
  <2>2. log'[r][A] \in Entry
    BY <2>1
  <2>3. log'[r][A].batches \in Seq(Batches)
    BY <2>2 DEF Entry
  <2> QED BY <1>2, <2>3
<1>6. \A i : i \in 1..F <=> i \in 1..Fed(r) \/ i = F
  BY <1>1
<1>7. \A k : Reaching(r, A, k)' =
            IF k \in b.touches THEN Reaching(r, A, k) \cup {F} ELSE Reaching(r, A, k)
  <2>1. ASSUME NEW k
        PROVE  Reaching(r, A, k)' = IF k \in b.touches THEN Reaching(r, A, k) \cup {F} ELSE Reaching(r, A, k)
    <3>1. Reaching(r, A, k)' = {i \in 1..F : k \in log'[r][A].batches[i].touches}
      BY <1>5 DEF Reaching
    <3>2. Reaching(r, A, k) = {i \in 1..Fed(r) : k \in log[r][A].batches[i].touches}
      BY <1>4 DEF Reaching
    <3> QED BY <1>2, <1>6, <3>1, <3>2
  <2> QED BY <2>1
<1>8. /\ Limit(r, A, F)' = b.limit
      /\ \A k : \A i \in Reaching(r, A, k) : Limit(r, A, i)' = Limit(r, A, i)
  <2>1. \A k : \A i \in Reaching(r, A, k) : i \in 1..Fed(r)
    BY <1>4 DEF Reaching
  <2> QED BY <1>2, <2>1 DEF Limit
<1>9. log[r][A].scale = scale[r]
  <2>1. pc[r] = "feed"
    BY DEF FeedForwardBackward
  <2> QED BY <2>1 DEF Control, StageOK, StageOf, Busy
<1> QED BY <1>1, <1>2, <1>3, <1>7, <1>8, <1>9, BatchAssumption

\* backward adds to the gradients a batch touches.
LEMMA BackwardFacts ==
    ASSUME NEW g, NEW b, NEW term, NEW k \in Keys
    PROVE  /\ k \notin b.touches => Backward(g, b, term)[k] = g[k]
           /\ k \in b.touches =>
                Backward(g, b, term)[k] =
                    [zeroing |-> FALSE, terms |-> g[k].terms \cup {term},
                     finite |-> g[k].finite /\ term.exp <= b.limit]
BY DEF Backward

\* The gradient after a batch is that of the batches with it.
LEMMA OwnFed ==
    ASSUME Control, NEW r \in Ranks, FeedForwardBackward(r), NEW k \in Keys, grad[r][k] = Own(r, k)
    PROVE  grad'[r][k] = Own(r, k)'
<1>1. PICK A : A = Attempt(r)
  OBVIOUS
<1>2. PICK F : F = Fed(r) + 1
  OBVIOUS
<1> DEFINE R == Reaching(r, A, k)
           term == Term(r, A, F, scale[r])
           fine(x, i) == x <= Limit(r, A, i)
<1>3. PICK b \in Batches :
            /\ grad'[r] = Backward(grad[r], b, term)
            /\ Reaching(r, A, k)' = IF k \in b.touches THEN R \cup {F} ELSE R
            /\ Limit(r, A, F)' = b.limit
            /\ \A i \in R : Limit(r, A, i)' = Limit(r, A, i)
            /\ log'[r][A].scale = scale[r] /\ log[r][A].scale = scale[r]
            /\ Attempt(r)' = A
            /\ b.limit \in Int
  BY <1>1, <1>2, FeedReaching
<1>4. grad[r][k] = [zeroing |-> R = {},
                    terms |-> {Term(r, A, i, scale[r]) : i \in R},
                    finite |-> \A i \in R : scale[r] <= Limit(r, A, i)]
  BY <1>1, <1>3 DEF Own
<1>a. /\ k \notin b.touches => grad'[r][k] = grad[r][k]
      /\ k \in b.touches =>
            grad'[r][k] = [zeroing |-> FALSE, terms |-> grad[r][k].terms \cup {term},
                           finite |-> grad[r][k].finite /\ term.exp <= b.limit]
  <2> DEFINE g == grad[r]
             h == grad'[r]
  <2>1. h = Backward(g, b, term)
    BY <1>3
  <2> HIDE DEF g, h, term
  <2>2. /\ k \notin b.touches => Backward(g, b, term)[k] = g[k]
        /\ k \in b.touches =>
             Backward(g, b, term)[k] = [zeroing |-> FALSE, terms |-> g[k].terms \cup {term},
                                        finite |-> g[k].finite /\ term.exp <= b.limit]
    BY BackwardFacts
  <2>3. /\ k \notin b.touches => h[k] = g[k]
        /\ k \in b.touches =>
             h[k] = [zeroing |-> FALSE, terms |-> g[k].terms \cup {term},
                     finite |-> g[k].finite /\ term.exp <= b.limit]
    BY <2>1, <2>2
  <2> QED BY <2>3 DEF g, h
<1>5. CASE k \notin b.touches
  <2>1. grad'[r][k] = grad[r][k] /\ Reaching(r, A, k)' = R
    BY <1>3, <1>5, <1>a
  <2>2. Own(r, k)' = [zeroing |-> R = {},
                      terms |-> {Term(r, A, i, scale[r]) : i \in R},
                      finite |-> \A i \in R : scale[r] <= Limit(r, A, i)']
    BY <1>3, <2>1 DEF Own, Term
  <2>3. (\A i \in R : scale[r] <= Limit(r, A, i)') <=> (\A i \in R : scale[r] <= Limit(r, A, i))
    BY <1>3
  <2> QED BY <1>4, <2>1, <2>2, <2>3
<1>6. CASE k \in b.touches
  <2> DEFINE t == {Term(r, A, i, scale[r]) : i \in R}
             f == \A i \in R : scale[r] <= Limit(r, A, i)
             z == R = {}
  <2>1. grad[r][k].terms = t /\ grad[r][k].finite = f
    <3>1. f \in BOOLEAN /\ z \in BOOLEAN
      OBVIOUS
    <3>2. grad[r][k] = [zeroing |-> z, terms |-> t, finite |-> f]
      BY <1>4
    <3> HIDE DEF t, f, z
    <3> QED BY <3>1, <3>2
  <2>2. term.exp = scale[r]
    BY DEF Term
  <2>3. grad'[r][k] = [zeroing |-> FALSE, terms |-> t \cup {term}, finite |-> f /\ scale[r] <= b.limit]
    <3> HIDE DEF t, f, term
    <3>1. grad'[r][k] = [zeroing |-> FALSE, terms |-> grad[r][k].terms \cup {term},
                         finite |-> grad[r][k].finite /\ term.exp <= b.limit]
      BY <1>6, <1>a
    <3> QED BY <2>1, <2>2, <3>1
  <2>4. Reaching(r, A, k)' = R \cup {F}
    BY <1>3, <1>6
  <2>5. Own(r, k)' = [zeroing |-> R \cup {F} = {},
                      terms |-> {Term(r, A, i, scale[r]) : i \in R \cup {F}},
                      finite |-> \A i \in R \cup {F} : scale[r] <= Limit(r, A, i)']
    BY <1>3, <2>4 DEF Own, Term
  <2>6. (R \cup {F} = {}) = FALSE
    OBVIOUS
  <2>7. {Term(r, A, i, scale[r]) : i \in R \cup {F}} = t \cup {term}
    OBVIOUS
  <2>8. (\A i \in R \cup {F} : scale[r] <= Limit(r, A, i)') <=> f /\ scale[r] <= b.limit
    BY <1>3
  <2> QED BY <2>3, <2>5, <2>6, <2>7, <2>8
<1> QED BY <1>5, <1>6

\* A rank that does nothing keeps its gradients.
LEMMA GradStill ==
    ASSUME Control, [Next]_vars, NEW s \in Ranks, Still(s), GradOf(s)
    PROVE  GradOf(s)'
<1>1. /\ conf' = conf /\ Ranks' = Ranks /\ Attempt(s)' = Attempt(s) /\ Attempt(s) \in Nat
      /\ \A k, i : Registered(k, i)' = Registered(k, i)
  BY LogMoves, StillOf, ReducedFacts, CallsStay DEF Control
<1>2. SUFFICES ASSUME NEW k \in Keys, Registered(k, at[s])
               PROVE  /\ pc[s] \in {"feed", "reduce"} => grad[s][k] = Own(s, k)'
                      /\ pc[s] = "check" => grad[s][k] = Total(s, k)'
  BY <1>1 DEF GradOf, Still
<1>3. PICK A : A = Attempt(s)
  OBVIOUS
<1>4. ASSUME pc[s] \in {"feed", "reduce"}
      PROVE  grad[s][k] = Own(s, k)'
  <2>1. grad[s][k] = Own(s, k)
    BY <1>2, <1>4 DEF GradOf
  <2>2. Own(s, k)' = Own(s, k)
    BY <1>1 DEF Own, Still, Reaching, Limit, Term
  <2> QED BY <2>1, <2>2
<1>5. ASSUME pc[s] = "check"
      PROVE  grad[s][k] = Total(s, k)'
  <2>1. grad[s][k] = Total(s, k)
    BY <1>2, <1>5 DEF GradOf
  <2>2. A \in 1..Reduced(s)
    BY <1>1, <1>3, <1>5 DEF Reduced, Control, StageOK, StageOf
  <2>3. /\ \A q \in Ranks : log'[q][A] = log[q][A]
        /\ \A q \in Ranks : \A l : Reaching(q, A, l)' = Reaching(q, A, l)
    BY <2>2, PastStays DEF Control
  <2>4. \A q \in Ranks : \A i : Limit(q, A, i)' = Limit(q, A, i)
    BY <2>3 DEF Limit
  <2>5. \A x : Gathered(A, k, x)' = Gathered(A, k, x)
    BY <1>1, <2>3 DEF Gathered, Term
  <2>6. Total(s, k)' = Total(s, k)
    <3> DEFINE x == log[s][A].scale
               z == conf.size = 1 /\ Reaching(s, A, k) = {}
               f == \A q \in Ranks : \A i \in Reaching(q, A, k) : x <= Limit(q, A, i)
               g == \A q \in Ranks : \A i \in Reaching(q, A, k)' : x <= Limit(q, A, i)'
    <3>1. Total(s, k) = [zeroing |-> z, terms |-> Gathered(A, k, x), finite |-> f]
      BY <1>3 DEF Total
    <3>2. log'[s][A].scale = x /\ Reaching(s, A, k)' = Reaching(s, A, k)
      BY <2>3
    <3>3. Total(s, k)' = [zeroing |-> z, terms |-> Gathered(A, k, x)', finite |-> g]
      BY <1>1, <1>3, <3>2 DEF Total
    <3>4. f <=> g
      BY <2>3, <2>4
    <3>5. Gathered(A, k, x)' = Gathered(A, k, x)
      BY <2>5, <3>2
    <3> QED BY <3>1, <3>3, <3>4, <3>5
  <2> QED BY <2>1, <2>6
<1> QED BY <1>4, <1>5

\* A rank that is alone has the sum without reducing.
LEMMA TotalAlone ==
    ASSUME (conf.size)' = 1, NEW r, Ranks' = {r}, NEW k
    PROVE  Total(r, k)' = Own(r, k)'
<1>1. PICK A : A = Attempt(r)'
  OBVIOUS
<1> DEFINE R == Reaching(r, A, k)'
           x == (log[r][A].scale)'
<1>2. Own(r, k)' = [zeroing |-> R = {}, terms |-> {Term(r, A, i, x) : i \in R},
                    finite |-> \A i \in R : x <= Limit(r, A, i)']
  BY <1>1 DEF Own, Term
<1>3. Total(r, k)' =
        [zeroing |-> (conf.size)' = 1 /\ R = {},
         terms |-> UNION {{Term(s, A, i, x) : i \in Reaching(s, A, k)'} : s \in Ranks'},
         finite |-> \A s \in Ranks' : \A i \in Reaching(s, A, k)' : x <= Limit(s, A, i)']
  BY <1>1 DEF Total, Gathered, Term
<1>4. UNION {{Term(s, A, i, x) : i \in Reaching(s, A, k)'} : s \in Ranks'} = {Term(r, A, i, x) : i \in R}
  OBVIOUS
<1>5. (\A s \in Ranks' : \A i \in Reaching(s, A, k)' : x <= Limit(s, A, i)') <=>
      (\A i \in R : x <= Limit(r, A, i)')
  OBVIOUS
<1>6. ((conf.size)' = 1 /\ R = {}) <=> (R = {})
  OBVIOUS
<1> QED BY <1>2, <1>3, <1>4, <1>5, <1>6

\* After all_reduce, a gradient is the sum over all ranks.
LEMMA GradReduced ==
    ASSUME Control, HeadersAgree, GradExact, AllReduce, NEW r \in Ranks
    PROVE  GradOf(r)'
<1>0. /\ ControlOK /\ DomainsOK /\ StageOK /\ [Next]_vars
  BY DEF Control, Next
<1>1. /\ conf' = conf /\ Ranks' = Ranks
      /\ \A k, i : Registered(k, i)' = Registered(k, i)
  BY <1>0, LogMoves, CallsStay
<1>2. /\ \A s \in Ranks : pc[s] = "reduce" /\ pc'[s] = "check"
      /\ at' = at /\ log' = log
      /\ grad'[r] = [k \in Keys |->
            [zeroing |-> FALSE,
             terms |-> UNION {grad[s][k].terms : s \in Ranks},
             finite |-> \A s \in Ranks : grad[s][k].finite]]
  BY <1>0, ReduceFacts
<1>3. PICK A : A = Attempt(r)
  OBVIOUS
<1>4. A \in Nat /\ A >= 1 /\ conf.size > 1 /\ conf.size \in Nat
  BY <1>0, <1>2, <1>3, ReducedFacts, ConfFields DEF StageOK, StageOf, ControlOK
<1>5. ASSUME NEW s \in Ranks
      PROVE  Attempt(s) = A /\ at[s] = at[r] /\ log[s][A].scale = log[r][A].scale
  <2>1. Reduced(s) = Attempt(s) - 1 /\ Reduced(r) = A - 1 /\ Reduced(s) = Reduced(r) /\ Attempt(s) \in Nat
    BY <1>2, <1>3, ReducedFacts DEF Reduced
  <2>2. Attempt(s) = A /\ A \in 1..Attempt(r)
    BY <1>3, <1>4, <2>1
  <2>3. Header(r, A) = Header(s, A)
    BY <2>2 DEF HeadersAgree
  <2>4. log[s][A].call = at[s] /\ log[r][A].call = at[r]
    BY <1>0, <1>2, <1>3, <2>2 DEF StageOK, StageOf
  <2> QED BY <2>2, <2>3, <2>4, HeaderFields
<1>6. SUFFICES ASSUME NEW k \in Keys, Registered(k, at[r])
               PROVE  grad'[r][k] = Total(r, k)'
  BY <1>1, <1>2 DEF GradOf
<1> DEFINE x == log[r][A].scale
           f(s) == \A i \in Reaching(s, A, k) : x <= Limit(s, A, i)
           t(s) == {Term(s, A, i, x) : i \in Reaching(s, A, k)}
<1>7. ASSUME NEW s \in Ranks
      PROVE  grad[s][k].terms = t(s) /\ grad[s][k].finite = f(s)
  <2>1. Registered(k, at[s])
    BY <1>5, <1>6
  <2>2. grad[s][k] = Own(s, k)
    BY <1>2, <2>1 DEF GradExact, GradOf
  <2> DEFINE z == Reaching(s, A, k) = {}
             u == t(s)
             g == f(s)
  <2>3. grad[s][k] = [zeroing |-> z, terms |-> u, finite |-> g]
    BY <1>5, <2>2 DEF Own
  <2>4. g \in BOOLEAN
    OBVIOUS
  <2> HIDE DEF z, u, g
  <2>5. grad[s][k].terms = u /\ grad[s][k].finite = g
    BY <2>3, <2>4
  <2> QED BY <2>5 DEF u, g
<1>8. Total(r, k)' = [zeroing |-> conf.size = 1 /\ Reaching(r, A, k) = {},
                      terms |-> UNION {t(s) : s \in Ranks},
                      finite |-> \A s \in Ranks : f(s)]
  BY <1>1, <1>2, <1>3 DEF Total, Gathered, Attempt, Reaching, Limit, Term
<1>9. grad'[r][k] = [zeroing |-> FALSE,
                     terms |-> UNION {grad[s][k].terms : s \in Ranks},
                     finite |-> \A s \in Ranks : grad[s][k].finite]
  BY <1>2
<1>10. (conf.size = 1 /\ Reaching(r, A, k) = {}) = FALSE
  BY <1>4
<1> HIDE DEF t, f
<1>11. UNION {grad[s][k].terms : s \in Ranks} = UNION {t(s) : s \in Ranks}
  BY <1>7
<1>12. (\A s \in Ranks : grad[s][k].finite) <=> (\A s \in Ranks : f(s))
  BY <1>7
<1> QED BY <1>8, <1>9, <1>10, <1>11, <1>12

\* After a step of a rank, its gradients are those of the batches of its attempt.
LEMMA GradStep ==
    ASSUME Control, NEW r \in Ranks, GradOf(r), SolverOf(r), Step(r)
    PROVE  GradOf(r)'
<1>0. /\ ControlOK /\ DomainsOK /\ StageOK /\ [Next]_vars
  BY DEF Control, Next
<1>1. /\ conf' = conf /\ Ranks' = Ranks /\ Attempt(r) \in Nat
      /\ \A k, i : Registered(k, i)' = Registered(k, i)
  BY <1>0, LogMoves, CallsStay, ReducedFacts
<1>2. ASSUME pc'[r] \in {"idle", "again"}
      PROVE  GradOf(r)'
  BY <1>2 DEF GradOf
<1>3. CASE ChangeParameters(r)
  BY <1>0, <1>2, <1>3, ChangeFacts
<1>4. CASE Begin(r)
  <2>1. pc'[r] = "feed" /\ at'[r] = at[r] /\ grad'[r] = ZeroGrad(solver[r], grad[r])
    BY <1>0, <1>4, BeginFacts
  <2>2. PICK A \in Nat : A = Attempt(r)
    BY <1>1
  <2>3. Attempt(r)' = A + 1 /\ log'[r][A + 1].batches = <<>>
    <3>1. Attempt(r)' = A + 1 /\
          log'[r][A + 1] = [call |-> at[r], scale |-> scale[r], counter |-> counter[r],
                            recursive |-> recursive[r], batches |-> <<>>]
      BY <1>0, <1>4, <2>2, LogBegin
    <3> QED BY <3>1
  <2>4. \A k : Reaching(r, A + 1, k)' = {}
    BY <2>3 DEF Reaching
  <2>5. ASSUME NEW k \in Keys, Registered(k, at[r])
        PROVE  grad'[r][k] = Own(r, k)'
    <3>1. grad'[r][k] = Zeroed
      BY <2>1, <2>5, SolverFields DEF ZeroGrad, Params
    <3>2. Own(r, k)' = [zeroing |-> {} = {},
                        terms |-> {Term(r, A + 1, i, log'[r][A + 1].scale) : i \in {}},
                        finite |-> \A i \in {} : log'[r][A + 1].scale <= Limit(r, A + 1, i)']
      BY <2>3, <2>4 DEF Own, Term
    <3>3. {Term(r, A + 1, i, log'[r][A + 1].scale) : i \in {}} = {}
      OBVIOUS
    <3>4. ({} = {}) = TRUE /\ (\A i \in {} : log'[r][A + 1].scale <= Limit(r, A + 1, i)') = TRUE
      OBVIOUS
    <3> QED BY <3>1, <3>2, <3>3, <3>4 DEF Zeroed
  <2> QED BY <1>1, <2>1, <2>5 DEF GradOf
<1>5. CASE FeedForwardBackward(r)
  <2>1. /\ pc[r] = "feed" /\ at'[r] = at[r]
        /\ pc'[r] \in {"feed", "reduce"} \/ (pc'[r] = "check" /\ ~(conf.size > 1))
    BY <1>0, <1>5, FeedFacts
  <2>2. ASSUME NEW k \in Keys, Registered(k, at[r])
        PROVE  grad'[r][k] = Own(r, k)'
    BY <1>5, <2>1, <2>2, OwnFed DEF GradOf
  <2>3. ASSUME NEW k, ~(conf.size > 1)
        PROVE  Own(r, k)' = Total(r, k)'
    <3>1. conf.size \in Nat \ {0}
      BY <1>0, ConfFields DEF ControlOK
    <3>2. conf.size = 1
      BY <2>3, <3>1
    <3>3. (conf.size)' = 1 /\ Ranks' = {r}
      BY <1>1, <3>2 DEF Ranks
    <3> QED BY <3>3, TotalAlone
  <2> QED BY <1>1, <2>1, <2>2, <2>3 DEF GradOf
<1>6. CASE FeederRaises(r)
  BY <1>0, <1>2, <1>6, RaiseFacts
<1>7. CASE Overflow(r)
  BY <1>0, <1>2, <1>7, OverflowFacts
<1>8. CASE Update(r)
  BY <1>0, <1>2, <1>8, UpdateFacts
<1> QED BY <1>3, <1>4, <1>5, <1>6, <1>7, <1>8 DEF Step

---------------------------------------------------------------------------
\* The updates that are due change with an update and with nothing else.
Gets(r, k) == Registered(k, at[r]) /\ (conf.size > 1 \/ Reaching(r, Attempt(r), k) # {})

\* The attempts a rank has decided about.
LEMMA DecidedFacts ==
    ASSUME Control, NEW r \in Ranks
    PROVE  \A a : a \in Decided(r) <=>
            a \in 1..Attempt(r) /\ Complete(r, a) /\ (a < Attempt(r) \/ pc[r] \in {"idle", "again"})
<1>1. log[r] \in Seq(Entry)
  BY DEF Control, ControlOK
<1>2. DOMAIN log[r] = 1..Attempt(r)
  BY <1>1 DEF Attempt
<1> QED BY <1>2 DEF Decided

\* What was decided about is reduced, and over before the next check.
LEMMA DecidedPast ==
    ASSUME Control, NEW r \in Ranks, NEW a \in Decided(r)
    PROVE  /\ a \in 1..Reduced(r) /\ a \in 1..Attempt(r) /\ a \in Nat
           /\ pc[r] = "check" => a < Attempt(r)
<1>1. a \in 1..Attempt(r) /\ (a < Attempt(r) \/ pc[r] \in {"idle", "again"})
  BY DecidedFacts
<1>2. Attempt(r) \in Nat /\ Reduced(r) \in Int /\ Attempt(r) - 1 <= Reduced(r)
  BY ReducedFacts
<1>3. pc[r] \in {"idle", "again"} => Reduced(r) = Attempt(r)
  BY DEF Reduced
<1> QED BY <1>1, <1>2, <1>3

\* Whether a decided attempt is due does not change.
LEMMA DuePast ==
    ASSUME Control, [Next]_vars, NEW r \in Ranks, NEW a \in Decided(r)
    PROVE  /\ a \in Decided(r)' => \A k : a \in Due(r, k)' <=> a \in Due(r, k)
           /\ log'[r][a].call = log[r][a].call
           /\ log[r][a].call \in Nat /\ log[r][a].call <= at[r]
<1>1. a \in 1..Reduced(r) /\ a \in 1..Attempt(r)
  BY DecidedPast
<1>2. /\ conf' = conf /\ log'[r][a] = log[r][a] /\ Good(r, a)' = Good(r, a)
      /\ \A k : Reaching(r, a, k)' = Reaching(r, a, k)
      /\ \A k, i : Registered(k, i)' = Registered(k, i)
  BY <1>1, PastStays, LogMoves, CallsStay DEF Control
<1>3. a \in Decided(r)' => \A k : a \in Due(r, k)' <=> a \in Due(r, k)
  BY <1>2 DEF Due
<1>4. log[r][a].call \in Nat /\ log[r][a].call <= at[r]
  BY <1>1, CallFacts
<1> QED BY <1>2, <1>3, <1>4

\* A rank that does nothing gets no update.
LEMMA DueStill ==
    ASSUME Control, [Next]_vars, NEW s \in Ranks, Still(s)
    PROVE  /\ \A k : Due(s, k)' = Due(s, k)
           /\ Attempt(s)' = Attempt(s)
<1>1. conf' = conf /\ Attempt(s)' = Attempt(s)
  BY LogMoves, StillOf DEF Control
<1>2. Decided(s)' = Decided(s)
  BY <1>1 DEF Decided, Complete, Still
<1>3. \A k : \A a : a \in Due(s, k)' <=> a \in Due(s, k)
  <2>1. \A a : a \in Decided(s) => \A k : a \in Due(s, k)' <=> a \in Due(s, k)
    BY <1>2, DuePast
  <2>2. \A k, a : (a \in Due(s, k) => a \in Decided(s)) /\ (a \in Due(s, k)' => a \in Decided(s)')
    BY DEF Due
  <2> QED BY <1>2, <2>1, <2>2
<1>4. \A k : Due(s, k) \subseteq Decided(s) /\ Due(s, k)' \subseteq Decided(s)'
  BY DEF Due
<1> QED BY <1>1, <1>3, <1>4

\* Without a decision, no update becomes due.
LEMMA DecidedSame ==
    ASSUME Control, [Next]_vars, NEW r \in Ranks, Decided(r)' = Decided(r)
    PROVE  \A k : Due(r, k)' = Due(r, k)
<1>1. \A a : a \in Decided(r) => \A k : a \in Due(r, k)' <=> a \in Due(r, k)
  BY DuePast
<1>2. \A k : Due(r, k) \subseteq Decided(r) /\ Due(r, k)' \subseteq Decided(r)'
  BY DEF Due
<1> QED BY <1>1, <1>2

\* A decision about an attempt makes it due where it is good and reaches.
LEMMA DecidedMore ==
    ASSUME Control, [Next]_vars, NEW r \in Ranks, log' = log, pc[r] = "check",
           pc'[r] \in {"idle", "again"}, NEW A, A = Attempt(r)
    PROVE  /\ Decided(r)' = Decided(r) \cup {A} /\ A \notin Decided(r) /\ A \in Nat \ {0}
           /\ Attempt(r)' = A /\ log[r][A].call = at[r] /\ log[r][A].scale = scale[r]
           /\ Good(r, A)' <=> Good(r, A)
           /\ \A k : A \in Due(r, k)' <=> Good(r, A) /\ Gets(r, k)
<1>1. /\ conf' = conf /\ Attempt(r)' = A /\ A \in Nat /\ Control'
      /\ \A k, i : Registered(k, i)' = Registered(k, i)
      /\ Ranks' = Ranks
  BY LogMoves, ReducedFacts, ControlInductive, CallsStay DEF Control, Attempt
<1>2. A \in 1..A /\ Complete(r, A) /\ log[r][A].call = at[r] /\ log[r][A].scale = scale[r]
  BY <1>1 DEF Control, StageOK, StageOf, Busy, Complete
<1>3. \A a : Complete(r, a)' = Complete(r, a)
  BY <1>1 DEF Complete
<1>4. \A a : a \in Decided(r) <=> a \in 1..A /\ Complete(r, a) /\ a < A
  BY DecidedFacts
<1>5. \A a : a \in Decided(r)' <=> a \in 1..A /\ Complete(r, a)
  <2>1. DOMAIN log[r] = 1..A
    <3>1. log[r] \in Seq(Entry)
      BY DEF Control, ControlOK
    <3> QED BY <3>1 DEF Attempt
  <2>2. Decided(r)' = {a \in DOMAIN log[r] : Complete(r, a)' /\ (a < A \/ pc'[r] \in {"idle", "again"})}
    BY <1>1 DEF Decided
  <2> QED BY <1>3, <2>1, <2>2
<1>6. Decided(r)' = Decided(r) \cup {A} /\ A \notin Decided(r)
  <2>1. \A a \in 1..A : a < A \/ a = A
    BY <1>1
  <2>2. \A a : a \in Decided(r)' <=> a \in Decided(r) \/ a = A
    BY <1>2, <1>4, <1>5, <2>1
  <2>3. A \notin Decided(r)
    BY <1>1, <1>4
  <2> QED BY <2>2, <2>3
<1>7. Good(r, A)' <=> Good(r, A)
  BY <1>1 DEF Good
<1>8. \A k : A \in Due(r, k)' <=> Good(r, A) /\ Gets(r, k)
  <2>1. \A k : Reaching(r, A, k)' = Reaching(r, A, k)
    BY DEF Reaching
  <2>2. \A k : A \in Due(r, k)' <=>
            Good(r, A)' /\ Registered(k, at[r]) /\ (conf.size > 1 \/ Reaching(r, A, k) # {})
    BY <1>1, <1>2, <1>6, <2>1 DEF Due
  <2> QED BY <1>1, <1>2, <1>7, <2>1, <2>2 DEF Gets
<1> QED BY <1>1, <1>2, <1>6, <1>7, <1>8

\* An update is one more for those which get it; nothing else changes what is due.
LEMMA DueStep ==
    ASSUME Control, NEW r \in Ranks, Step(r),
           Overflow(r) => ~Good(r, Attempt(r)), Update(r) => Good(r, Attempt(r))
    PROVE  /\ ~Update(r) => \A k : Due(r, k)' = Due(r, k)
           /\ Update(r) => \A k : Due(r, k)' = IF Gets(r, k) THEN Due(r, k) \cup {Attempt(r)} ELSE Due(r, k)
<1>0. /\ ControlOK /\ DomainsOK /\ StageOK /\ EntriesOK /\ [Next]_vars /\ Control'
  BY ControlInductive DEF Control, Next
<1>1. /\ conf' = conf /\ Ranks' = Ranks /\ Attempt(r) \in Nat /\ StageOf(r)
  BY <1>0, LogMoves, ReducedFacts DEF StageOK
<1>2. PICK A \in Nat : A = Attempt(r)
  BY <1>1
<1>a. \A a : a \in Decided(r) <=>
        a \in 1..A /\ Complete(r, a) /\ (a < A \/ pc[r] \in {"idle", "again"})
  BY <1>2, DecidedFacts
<1>b. \A a : a \in Decided(r)' <=>
        a \in 1..(Attempt(r)') /\ Complete(r, a)' /\ (a < Attempt(r)' \/ pc'[r] \in {"idle", "again"})
  <2>1. log'[r] \in Seq(Entry)
    BY <1>0, <1>1 DEF Control, ControlOK
  <2>2. DOMAIN log'[r] = 1..(Attempt(r)')
    BY <2>1 DEF Attempt
  <2> QED BY <2>2 DEF Decided
<1>3. CASE ChangeParameters(r)
  <2>1. log' = log /\ pc'[r] = pc[r]
    BY <1>0, <1>3, ChangeFacts
  <2>2. Decided(r)' = Decided(r)
    BY <1>1, <2>1 DEF Decided, Complete, Attempt
  <2> QED BY <1>0, <1>3, <2>2, DecidedSame DEF ChangeParameters, Update
<1>4. CASE Begin(r)
  <2>1. pc[r] \in {"again", "idle"} /\ pc'[r] = "feed"
    BY <1>0, <1>4, BeginFacts
  <2>2. Attempt(r)' = A + 1 /\ \A a \in 1..A : log'[r][a] = log[r][a]
    BY <1>0, <1>2, <1>4, LogBegin
  <2>3. \A a \in 1..A : Complete(r, a)' = Complete(r, a)
    BY <1>1, <2>2 DEF Complete
  <2>4. \A a : a \in 1..(A + 1) /\ a < A + 1 <=> a \in 1..A
    BY <1>2
  <2>5. \A a : a \in Decided(r)' <=> a \in Decided(r)
    BY <1>a, <1>b, <2>1, <2>2, <2>3, <2>4
  <2>6. Decided(r)' = Decided(r)
    BY <2>5 DEF Decided
  <2> QED BY <1>0, <2>1, <2>6, DecidedSame DEF Update
<1>5. CASE FeedForwardBackward(r)
  <2>1. pc[r] = "feed" /\ pc'[r] \in {"feed", "reduce", "check"}
    BY <1>0, <1>5, FeedFacts
  <2>2. Attempt(r)' = A /\ \A a \in 1..(A - 1) : log'[r][a] = log[r][a]
    BY <1>0, <1>2, <1>5, LogFeed
  <2>3. \A a \in 1..(A - 1) : Complete(r, a)' = Complete(r, a)
    BY <1>1, <2>2 DEF Complete
  <2>4. \A a : a \in 1..A /\ a < A <=> a \in 1..(A - 1)
    BY <1>2
  <2>5. \A a : a \in Decided(r)' <=> a \in Decided(r)
    BY <1>a, <1>b, <2>1, <2>2, <2>3, <2>4
  <2>6. Decided(r)' = Decided(r)
    BY <2>5 DEF Decided
  <2> QED BY <1>0, <2>1, <2>6, DecidedSame DEF Update
<1>6. CASE FeederRaises(r)
  <2>1. pc[r] = "feed" /\ pc'[r] = "idle" /\ log' = log
    BY <1>0, <1>6, RaiseFacts
  <2>2. Attempt(r)' = A /\ \A a : Complete(r, a)' = Complete(r, a)
    BY <1>1, <1>2, <2>1 DEF Complete, Attempt
  <2>3. ~Complete(r, A)
    <3>1. A \in 1..Attempt(r) /\ Len(log[r][A].batches) < conf.accumGrad
      BY <1>1, <1>2, <2>1 DEF StageOf
    <3>2. Len(log[r][A].batches) \in Nat /\ conf.accumGrad \in Nat
      BY <1>0, <3>1, EntryFacts, ConfFields DEF ControlOK
    <3> QED BY <3>1, <3>2 DEF Complete
  <2>4. \A a \in 1..A : a < A \/ a = A
    BY <1>2
  <2>5. \A a : a \in Decided(r)' <=> a \in Decided(r)
    BY <1>a, <1>b, <2>1, <2>2, <2>3, <2>4
  <2>6. Decided(r)' = Decided(r)
    BY <2>5 DEF Decided
  <2> QED BY <1>0, <2>1, <2>6, DecidedSame DEF Update
<1>7. ASSUME Overflow(r) \/ Update(r)
      PROVE  /\ log' = log /\ pc[r] = "check" /\ pc'[r] \in {"idle", "again"}
             /\ \A k : A \in Due(r, k)' <=> Good(r, A) /\ Gets(r, k)
             /\ \A k, a : a # A => (a \in Due(r, k)' <=> a \in Due(r, k))
             /\ \A k : A \notin Due(r, k)
  <2>1. log' = log /\ pc[r] = "check" /\ pc'[r] \in {"idle", "again"}
    BY <1>0, <1>7, OverflowFacts, UpdateFacts
  <2>2. /\ Decided(r)' = Decided(r) \cup {A} /\ A \notin Decided(r)
        /\ \A k : A \in Due(r, k)' <=> Good(r, A) /\ Gets(r, k)
    BY <1>0, <1>2, <2>1, DecidedMore
  <2>3. \A a : a \in Decided(r) => \A k : a \in Due(r, k)' <=> a \in Due(r, k)
    BY <1>0, <2>2, DuePast
  <2>4. \A k : Due(r, k) \subseteq Decided(r) /\ Due(r, k)' \subseteq Decided(r)'
    BY DEF Due
  <2> QED BY <2>1, <2>2, <2>3, <2>4
<1>8. CASE Overflow(r)
  <2>1. ~Good(r, A)
    BY <1>2, <1>8
  <2>2. \A k : \A a : a \in Due(r, k)' <=> a \in Due(r, k)
    BY <1>7, <1>8, <2>1
  <2>3. \A k : Due(r, k)' = Due(r, k)
    BY <2>2 DEF Due
  <2>4. ~Update(r)
    BY <1>8 DEF Overflow, Update
  <2> QED BY <2>3, <2>4
<1>9. CASE Update(r)
  <2>1. Good(r, A)
    BY <1>2, <1>9
  <2>2. \A k : \A a : a \in Due(r, k)' <=> a \in Due(r, k) \/ (a = A /\ Gets(r, k))
    BY <1>7, <1>9, <2>1
  <2>3. \A k : Due(r, k)' = IF Gets(r, k) THEN Due(r, k) \cup {A} ELSE Due(r, k)
    BY <2>2
  <2> QED BY <1>2, <1>9, <2>3
<1> QED BY <1>3, <1>4, <1>5, <1>6, <1>8, <1>9 DEF Step

---------------------------------------------------------------------------
\* The states consist of the updates since they were created.

\* In update(), the call is update.
LEMMA InUpdate ==
    ASSUME Control, NEW r \in Ranks, pc[r] # "idle"
    PROVE  /\ at[r] \in DOMAIN conf.calls /\ conf.calls[at[r]].op = "update"
           /\ Params(at[r] + 1) = Params(at[r])
           /\ \A k : ~Anew(at[r], k)
<1>1. Attempt(r) >= 1 /\ log[r][Attempt(r)].call = at[r] /\ Attempt(r) \in Nat
  BY ReducedFacts DEF Control, StageOK, StageOf
<1>2. Attempt(r) \in 1..Attempt(r)
  BY <1>1
<1>3. at[r] \in DOMAIN conf.calls /\ conf.calls[at[r]].op = "update" /\ at[r] \in Nat \ {0}
  BY <1>1, <1>2, CallFacts
<1> QED BY <1>3, ParamsAfterUpdate

\* An update stays in a state unless the call made it anew.
LEMMA MomentumStep ==
    ASSUME Control, [Next]_vars, NEW r \in Ranks, at'[r] \in {at[r], at[r] + 1}, NEW k,
           NEW b \in Due(r, k), b \in Due(r, k)'
    PROVE  b \in Momentum(r, k)' <=> b \in Momentum(r, k) /\ (at'[r] = at[r] + 1 => ~Anew(at[r], k))
<1>1. b \in Decided(r)
  BY DEF Due
<1>2. log'[r][b].call = log[r][b].call /\ log[r][b].call \in Nat /\ log[r][b].call <= at[r]
  BY <1>1, DuePast
<1>3. at[r] \in Nat \ {0} /\ \A i : Anew(i, k)' = Anew(i, k)
  BY CallFacts, LogMoves, CallsStay DEF Control
<1> DEFINE c == log[r][b].call
<1>4. b \in Momentum(r, k) <=> ~\E j \in c..(at[r] - 1) : Anew(j, k)
  BY DEF Momentum
<1>5. b \in Momentum(r, k)' <=> ~\E j \in c..(at'[r] - 1) : Anew(j, k)
  <2> DEFINE d == log'[r][b].call
  <2>1. b \in Momentum(r, k)' <=> ~\E j \in d..(at'[r] - 1) : Anew(j, k)'
    BY DEF Momentum
  <2>2. d = c
    BY <1>2
  <2> HIDE DEF c, d
  <2> QED BY <1>3, <2>1, <2>2
<1> HIDE DEF c
<1>6. CASE at'[r] = at[r]
  BY <1>3, <1>4, <1>5, <1>6
<1>7. CASE at'[r] = at[r] + 1
  <2>1. c \in Nat /\ c <= at[r]
    BY <1>2 DEF c
  <2>2. \A j : j \in c..(at'[r] - 1) <=> j \in c..(at[r] - 1) \/ j = at[r]
    BY <1>3, <1>7, <2>1
  <2> QED BY <1>4, <1>5, <1>7, <2>2
<1> QED BY <1>6, <1>7

\* A call that makes a state anew empties it; any other keeps it.
LEMMA MomentumSame ==
    ASSUME Control, [Next]_vars, NEW r \in Ranks, at'[r] \in {at[r], at[r] + 1}, NEW k,
           Due(r, k)' = Due(r, k)
    PROVE  Momentum(r, k)' =
            IF at'[r] = at[r] + 1 /\ Anew(at[r], k) THEN {} ELSE Momentum(r, k)
<1>1. \A b \in Due(r, k) :
        b \in Momentum(r, k)' <=> b \in Momentum(r, k) /\ (at'[r] = at[r] + 1 => ~Anew(at[r], k))
  BY MomentumStep
<1>2. Momentum(r, k) \subseteq Due(r, k) /\ Momentum(r, k)' \subseteq Due(r, k)'
  BY DEF Momentum
<1> QED BY <1>1, <1>2

\* What is registered when does not change.
LEMMA ParamsStay ==
    ASSUME conf' = conf
    PROVE  \A i : Params(i)' = Params(i)
BY CallsStay DEF Params

\* Nothing but the time passes for the solver.
LEMMA StatesSame ==
    ASSUME Control, [Next]_vars, NEW r \in Ranks, StatesOf(r), solver'[r] = solver[r],
           \A k : Due(r, k)' = Due(r, k),
           \/ at'[r] = at[r]
           \/ at'[r] = at[r] + 1 /\ Params(at[r] + 1) = Params(at[r]) /\ \A k : ~Anew(at[r], k)
    PROVE  StatesOf(r)'
<1>1. conf' = conf /\ at[r] \in Nat
  BY LogMoves, CallFacts DEF Control
<1>2. \A k : Momentum(r, k)' = Momentum(r, k)
  BY <1>1, MomentumSame
<1>3. Params(at[r])' = Params(at[r])
  <2>1. Params(at[r])' = Params(at'[r])
    BY <1>1, ParamsStay
  <2> QED BY <2>1
<1>4. [k \in Params(at[r]) |-> Momentum(r, k)'] = [k \in Params(at[r]) |-> Momentum(r, k)]
  BY <1>2
<1>5. StatesOf(r)' <=> solver'[r] = Made(Params(at[r]), [k \in Params(at[r]) |-> Momentum(r, k)'])
  BY <1>3 DEF StatesOf, Made
<1> QED BY <1>4, <1>5 DEF StatesOf

\* Exact states are those of what is registered.
LEMMA StatesSolver ==
    ASSUME NEW r, StatesOf(r)
    PROVE  /\ SolverOf(r)
           /\ solver[r].states = [k \in Params(at[r]) |-> Momentum(r, k)]
<1> DEFINE st == [k \in Params(at[r]) |-> Momentum(r, k)]
<1>1. solver[r] = Made(Params(at[r]), st) /\ DOMAIN st = Params(at[r])
  BY DEF StatesOf
<1> HIDE DEF st
<1>2. solver[r].states = st
  BY <1>1 DEF Made
<1>3. solver[r] = Made(Params(at[r]), solver[r].states) /\ DOMAIN solver[r].states = Params(at[r])
  BY <1>1, <1>2
<1> QED BY <1>2, <1>3 DEF SolverOf, st

\* A rank that does nothing keeps its states.
LEMMA StatesStill ==
    ASSUME Control, [Next]_vars, NEW s \in Ranks, Still(s), StatesOf(s)
    PROVE  StatesOf(s)'
<1>1. \A k : Due(s, k)' = Due(s, k)
  BY DueStill
<1> QED BY <1>1, StatesSame DEF Still

\* After a step of a rank, its states are exact.
LEMMA StatesStep ==
    ASSUME Control, NEW r \in Ranks, StatesOf(r), GradOf(r), FloorOf(r), Step(r),
           Overflow(r) => ~Good(r, Attempt(r)), Update(r) => Good(r, Attempt(r))
    PROVE  StatesOf(r)'
<1>0. /\ ControlOK /\ DomainsOK /\ StageOK /\ [Next]_vars
  BY DEF Control, Next
<1>1. /\ conf' = conf /\ conf \in Programs /\ at[r] \in Nat \ {0}
      /\ SolverOf(r) /\ solver[r].states = [k \in Params(at[r]) |-> Momentum(r, k)]
  BY <1>0, LogMoves, CallFacts, StatesSolver DEF ControlOK
<1>2. ASSUME ~Update(r)
      PROVE  \A k : Due(r, k)' = Due(r, k)
  BY <1>2, DueStep
<1>3. CASE ChangeParameters(r)
  <2> DEFINE i == at[r]
             st == [k \in Params(i) |-> Momentum(r, k)]
  <2>1. /\ pc[r] = "idle" /\ i \in DOMAIN conf.calls /\ conf.calls[i].op # "update"
        /\ at'[r] = i + 1 /\ solver'[r] = Changed(solver[r], conf.calls[i])
    BY <1>0, <1>3, ChangeFacts DEF Call
  <2>2. \A k : Due(r, k)' = Due(r, k)
    BY <1>2, <2>1 DEF Update
  <2>3. solver[r] = Made(Params(i), st) /\ DOMAIN st = Params(i)
    BY DEF StatesOf
  <2>4. Changed(Made(Params(i), st), conf.calls[i]) =
          Made(Params(i + 1), [k \in Params(i + 1) |-> IF Anew(i, k) THEN {} ELSE st[k]])
    <3> HIDE DEF st, i
    <3> QED BY <1>1, <2>1, <2>3, ChangeSolver
  <2>5. ASSUME NEW k \in Params(i + 1)
        PROVE  Momentum(r, k)' = IF Anew(i, k) THEN {} ELSE st[k]
    <3>1. Momentum(r, k)' = IF Anew(i, k) THEN {} ELSE Momentum(r, k)
      BY <1>0, <2>1, <2>2, MomentumSame
    <3>2. ~Anew(i, k) => k \in Params(i)
      BY <1>1, <2>5, RegisteredNext DEF Params, Anew
    <3> QED BY <3>1, <3>2
  <2>6. Params(at[r])' = Params(i + 1)
    BY <1>1, <2>1, ParamsStay
  <2>7. [k \in Params(i + 1) |-> Momentum(r, k)'] =
        [k \in Params(i + 1) |-> IF Anew(i, k) THEN {} ELSE st[k]]
    <3> HIDE DEF st, i
    <3> QED BY <2>5
  <2>8. StatesOf(r)' <=> solver'[r] = Made(Params(i + 1), [k \in Params(i + 1) |-> Momentum(r, k)'])
    BY <2>6 DEF StatesOf, Made
  <2> QED BY <2>1, <2>3, <2>4, <2>7, <2>8
<1>4. CASE Begin(r)
  <2>1. at'[r] = at[r] /\ solver'[r] = solver[r] /\ pc[r] # "check"
    BY <1>0, <1>4, BeginFacts
  <2> QED BY <1>0, <1>2, <2>1, StatesSame DEF Update
<1>5. CASE FeedForwardBackward(r)
  <2>1. at'[r] = at[r] /\ solver'[r] = solver[r] /\ pc[r] # "check"
    BY <1>0, <1>5, FeedFacts
  <2> QED BY <1>0, <1>2, <2>1, StatesSame DEF Update
<1>6. CASE FeederRaises(r)
  <2>1. at'[r] = at[r] + 1 /\ solver'[r] = solver[r] /\ pc[r] = "feed"
    BY <1>0, <1>6, RaiseFacts
  <2> QED BY <1>0, <1>2, <2>1, InUpdate, StatesSame DEF Update
<1>7. CASE Overflow(r)
  <2>1. at'[r] \in {at[r], at[r] + 1} /\ solver'[r] = solver[r] /\ pc[r] = "check"
    BY <1>0, <1>7, OverflowFacts
  <2>2. ~Update(r)
    BY <1>7 DEF Overflow, Update
  <2> QED BY <1>0, <1>2, <2>1, <2>2, InUpdate, StatesSame
<1>8. CASE Update(r)
  <2>0. PICK A : A = Attempt(r)
    OBVIOUS
  <2>1. /\ pc[r] = "check" /\ pc'[r] = "idle" /\ at'[r] = at[r] + 1 /\ log' = log
        /\ solver'[r] = UpdateStates(Rated(r), Decayed(r), A)
    BY <1>0, <1>8, <2>0, UpdateFacts
  <2>2. /\ Params(at[r] + 1) = Params(at[r]) /\ \A k : ~Anew(at[r], k)
    BY <2>1, InUpdate
  <2>3. /\ \A k \in Keys : HasGrad(r, k) => grad[r][k].finite = TRUE
        /\ \A k \in Keys : HasGrad(r, k) <=> Gets(r, k)
    BY <1>1, <1>8, <2>1, CheckFacts DEF Gets
  <2>4. -scale[r] <= MaxExp
    BY ScaleFacts DEF FloorOf
  <2> DEFINE P == Params(at[r])
             st == [k \in P |-> Momentum(r, k)]
  <2>5. solver'[r] = Made(P, [k \in P |-> IF HasGrad(r, k) THEN solver[r].states[k] \cup {A}
                                          ELSE solver[r].states[k]])
    BY <1>1, <2>0, <2>1, <2>3, <2>4, UpdateSolver
  <2>6. ASSUME NEW k \in P
        PROVE  Momentum(r, k)' = IF HasGrad(r, k) THEN solver[r].states[k] \cup {A}
                                 ELSE solver[r].states[k]
    <3>1. solver[r].states[k] = Momentum(r, k) /\ k \in Keys
      BY <1>1, <2>6 DEF Params
    <3>2. Due(r, k)' = IF HasGrad(r, k) THEN Due(r, k) \cup {A} ELSE Due(r, k)
      BY <1>8, <2>0, <2>3, <3>1, DueStep
    <3>3. \A b \in Due(r, k) : b \in Momentum(r, k)' <=> b \in Momentum(r, k)
      BY <1>0, <2>1, <2>2, <3>2, MomentumStep
    <3>4. A \in Due(r, k)' => A \in Momentum(r, k)'
      <4>1. log'[r][A].call = at[r] /\ \A j : Anew(j, k)' = Anew(j, k)
        BY <1>0, <1>1, <2>0, <2>1, CallsStay DEF StageOK, StageOf
      <4>2. \A j \in (at[r])..(at'[r] - 1) : j = at[r]
        BY <1>1, <2>1
      <4>3. ~\E j \in (log'[r][A].call)..(at'[r] - 1) : Anew(j, k)'
        BY <2>2, <4>1, <4>2
      <4> QED BY <4>3 DEF Momentum
    <3>5. Momentum(r, k) \subseteq Due(r, k) /\ Momentum(r, k)' \subseteq Due(r, k)'
      BY DEF Momentum
    <3>6. Momentum(r, k)' = IF HasGrad(r, k) THEN Momentum(r, k) \cup {A} ELSE Momentum(r, k)
      BY <3>2, <3>3, <3>4, <3>5
    <3> QED BY <3>1, <3>6
  <2>7. Params(at[r])' = P
    <3>1. Params(at[r])' = Params(at'[r])
      BY <1>1, ParamsStay
    <3> QED BY <2>1, <2>2, <3>1
  <2>8. StatesOf(r)' <=> solver'[r] = Made(P, [k \in P |-> Momentum(r, k)'])
    BY <2>7 DEF StatesOf, Made
  <2>9. [k \in P |-> Momentum(r, k)'] =
        [k \in P |-> IF HasGrad(r, k) THEN solver[r].states[k] \cup {A} ELSE solver[r].states[k]]
    <3> HIDE DEF P
    <3> QED BY <2>6
  <2> QED BY <2>5, <2>8, <2>9
<1> QED BY <1>3, <1>4, <1>5, <1>6, <1>7, <1>8 DEF Step

---------------------------------------------------------------------------
\* The parameters are what the updates make of them, unscaled.

\* The sum of an attempt depends on what its batches reach.
LEMMA GatheredStay ==
    ASSUME conf' = conf, Ranks' = Ranks, NEW r, NEW a, NEW k,
           \A s \in Ranks : Reaching(s, a, k)' = Reaching(s, a, k)
    PROVE  \A x : Gathered(a, k, x)' = Gathered(a, k, x)
BY DEF Gathered, Term

\* The updates since a state was made, after a step.
LEMMA SinceNext ==
    ASSUME conf' = conf, NEW r, NEW k, NEW a, NEW c, log'[r][a].call = c
    PROVE  Since(r, k, a)' =
            {b \in Due(r, k)' : b <= a /\ ~\E j \in (log'[r][b].call)..c : Anew(j, k)}
<1>1. \A j, l : Anew(j, l)' = Anew(j, l)
  BY CallsStay
<1> QED BY <1>1 DEF Since

\* An update as it should be, after a step.
LEMMA UnscaledNext ==
    ASSUME conf' = conf, NEW r, NEW k, NEW a, NEW t, Gathered(a, k, 0)' = t,
           NEW m, Since(r, k, a)' = m
    PROVE  Unscaled(r, k, a)' =
            [attempt |-> a,
             terms |-> t \cup (IF conf.weightDecay = "none" THEN {} ELSE {Decay}),
             finite |-> TRUE,
             momentum |-> m]
BY DEF Unscaled

\* An update that was due stays what it was.
LEMMA UnscaledStays ==
    ASSUME Control, [Next]_vars, NEW r \in Ranks, NEW k, NEW a \in Due(r, k),
           Due(r, k) \subseteq Due(r, k)', \A b \in Due(r, k)' : b \in Due(r, k) \/ ~(b <= a)
    PROVE  Unscaled(r, k, a)' = Unscaled(r, k, a)
<1>1. Due(r, k) \subseteq Decided(r) /\ a \in Decided(r)
  BY DEF Due
<1>2. /\ conf' = conf /\ Ranks' = Ranks
      /\ \A b \in Due(r, k) : log'[r][b].call = log[r][b].call
      /\ \A s \in Ranks : Reaching(s, a, k)' = Reaching(s, a, k)
  BY <1>1, LogMoves, DuePast, DecidedPast, PastStays DEF Control
<1>3. Gathered(a, k, 0)' = Gathered(a, k, 0)
  BY <1>2, GatheredStay
<1> DEFINE c == log[r][a].call
           W == {b \in Due(r, k)' : b <= a /\ ~\E j \in (log'[r][b].call)..c : Anew(j, k)}
<1>4. Since(r, k, a) = W
  BY <1>2 DEF Since
<1>5. Since(r, k, a)' = W
  BY <1>2, SinceNext
<1> HIDE DEF W
<1>6. Since(r, k, a)' = Since(r, k, a)
  BY <1>4, <1>5
<1> QED BY <1>2, <1>3, <1>6, UnscaledNext DEF Unscaled

\* Parameters that stay are right if no update becomes due.
LEMMA DataSame ==
    ASSUME Control, [Next]_vars, NEW r \in Ranks, DataOf(r), data'[r] = data[r],
           \A k : Due(r, k)' = Due(r, k)
    PROVE  DataOf(r)'
<1>1. \A k : \A a \in Due(r, k) : Unscaled(r, k, a)' = Unscaled(r, k, a)
  BY UnscaledStays
<1>2. \A k : {Unscaled(r, k, a)' : a \in Due(r, k)} = {Unscaled(r, k, a) : a \in Due(r, k)}
  BY <1>1
<1>3. DataOf(r)' <=> data'[r] = [k \in Keys |-> {Unscaled(r, k, a)' : a \in Due(r, k)}]
  BY DEF DataOf
<1>4. [k \in Keys |-> {Unscaled(r, k, a)' : a \in Due(r, k)}] =
      [k \in Keys |-> {Unscaled(r, k, a) : a \in Due(r, k)}]
  BY <1>2
<1>5. data[r] = [k \in Keys |-> {Unscaled(r, k, a) : a \in Due(r, k)}]
  BY DEF DataOf
<1> QED BY <1>3, <1>4, <1>5

\* The gradients of an update, scaled back.
LEMMA ScaledBack ==
    ASSUME NEW x \in Int, NEW r, NEW a, NEW k
    PROVE  {Scaled(c, -x) : c \in Gathered(a, k, x)} = Gathered(a, k, 0)
<1>1. \A s, i : Scaled(Term(s, a, i, x), -x) = Term(s, a, i, 0)
  <2>1. x + (-x) = 0
    OBVIOUS
  <2> QED BY <2>1 DEF Scaled, Term
<1>2. \A c : c \in Gathered(a, k, x) <=> \E s \in Ranks : \E i \in Reaching(s, a, k) : c = Term(s, a, i, x)
  BY DEF Gathered
<1>3. \A c : c \in Gathered(a, k, 0) <=> \E s \in Ranks : \E i \in Reaching(s, a, k) : c = Term(s, a, i, 0)
  BY DEF Gathered
<1> DEFINE U == {Scaled(c, -x) : c \in Gathered(a, k, x)}
<1>4. ASSUME NEW u \in U
      PROVE  u \in Gathered(a, k, 0)
  <2>1. PICK c \in Gathered(a, k, x) : u = Scaled(c, -x)
    OBVIOUS
  <2>2. PICK s \in Ranks : \E i \in Reaching(s, a, k) : c = Term(s, a, i, x)
    BY <1>2
  <2>3. PICK i \in Reaching(s, a, k) : c = Term(s, a, i, x)
    BY <2>2
  <2>4. u = Term(s, a, i, 0)
    BY <1>1, <2>1, <2>3
  <2> QED BY <1>3, <2>4
<1>5. ASSUME NEW u \in Gathered(a, k, 0)
      PROVE  u \in U
  <2>1. PICK s \in Ranks : \E i \in Reaching(s, a, k) : u = Term(s, a, i, 0)
    BY <1>3
  <2>2. PICK i \in Reaching(s, a, k) : u = Term(s, a, i, 0)
    BY <2>1
  <2>3. Term(s, a, i, x) \in Gathered(a, k, x)
    BY <1>2
  <2>4. u = Scaled(Term(s, a, i, x), -x)
    BY <1>1, <2>2
  <2> QED BY <2>3, <2>4
<1> QED BY <1>4, <1>5

\* An update makes the parameters what one more unscaled update makes them.
LEMMA DataUpdated ==
    ASSUME Control, NEW r \in Ranks, StatesOf(r), GradOf(r), FloorOf(r), DataOf(r), Update(r),
           Good(r, Attempt(r))
    PROVE  DataOf(r)'
<1>0. /\ ControlOK /\ DomainsOK /\ StageOK /\ Step(r) /\ [Next]_vars
  BY DEF Control, Next, Step
<1>1. /\ conf' = conf /\ Ranks' = Ranks /\ conf \in Programs /\ at[r] \in Nat \ {0}
      /\ SolverOf(r) /\ solver[r].states = [k \in Params(at[r]) |-> Momentum(r, k)]
  BY <1>0, LogMoves, CallFacts, StatesSolver DEF ControlOK
<1>2. PICK A : A = Attempt(r)
  OBVIOUS
<1>3. /\ pc[r] = "check" /\ pc'[r] = "idle" /\ at'[r] = at[r] + 1 /\ log' = log
      /\ data'[r] = UpdateData(Rated(r), Decayed(r), A, data[r])
  BY <1>0, <1>2, UpdateFacts
<1>4. /\ \A k \in Keys : HasGrad(r, k) => grad[r][k].finite = TRUE
      /\ \A k \in Keys : HasGrad(r, k) <=> Gets(r, k)
      /\ \A k \in Keys : Registered(k, at[r]) => grad[r][k].terms = Gathered(A, k, scale[r])
  BY <1>1, <1>2, <1>3, CheckFacts DEF Gets
<1>5. -scale[r] <= MaxExp /\ scale[r] \in Int
  BY ScaleFacts DEF FloorOf
<1>6. data'[r] = [k \in Keys |-> IF HasGrad(r, k) THEN data[r][k] \cup {MadeBy(r, k)} ELSE data[r][k]]
  BY <1>1, <1>2, <1>3, <1>4, <1>5, UpdateSolver
<1>7. /\ A \notin Decided(r) /\ A \in Nat /\ log[r][A].call = at[r]
  BY <1>0, <1>2, <1>3, DecidedMore
<1>8. ASSUME NEW k \in Keys
      PROVE  Due(r, k)' = IF HasGrad(r, k) THEN Due(r, k) \cup {A} ELSE Due(r, k)
  <2>1. ~Overflow(r)
    BY DEF Overflow, Update
  <2> QED BY <1>0, <1>2, <1>4, <2>1, DueStep
<1>9. \A k : \A a \in Due(r, k) : a < A /\ a \in Nat
  <2>1. \A a \in Decided(r) : a < A /\ a \in Nat
    BY <1>2, <1>3, DecidedPast
  <2> QED BY <2>1 DEF Due
<1>10. ASSUME NEW k \in Keys, NEW a \in Due(r, k)
       PROVE  Unscaled(r, k, a)' = Unscaled(r, k, a)
  <2>1. Due(r, k) \subseteq Due(r, k)'
    BY <1>8
  <2>2. \A b \in Due(r, k)' : b \in Due(r, k) \/ ~(b <= a)
    BY <1>7, <1>8, <1>9
  <2> QED BY <1>0, <2>1, <2>2, UnscaledStays
<1>11. ASSUME NEW k \in Keys, HasGrad(r, k)
       PROVE  Unscaled(r, k, A)' = MadeBy(r, k)
  <2> DEFINE d == IF conf.weightDecay = "none" THEN {} ELSE {Decay}
             W == {b \in Due(r, k)' : b <= A /\ ~\E j \in (log'[r][b].call)..(at[r]) : Anew(j, k)}
  <2>1. k \in Params(at[r]) /\ Registered(k, at[r])
    BY <1>11 DEF HasGrad, Params
  <2>2. Final(r, k) = Gathered(A, k, 0) \cup d
    <3>1. grad[r][k].terms = Gathered(A, k, scale[r])
      BY <1>4, <2>1
    <3>2. {Scaled(c, -scale[r]) : c \in Gathered(A, k, scale[r])} = Gathered(A, k, 0)
      BY <1>5, ScaledBack
    <3> QED BY <3>1, <3>2 DEF Final
  <2>3. Gathered(A, k, 0)' = Gathered(A, k, 0)
    <3>1. \A s \in Ranks : Reaching(s, A, k)' = Reaching(s, A, k)
      BY <1>3 DEF Reaching
    <3> QED BY <1>1, <3>1, GatheredStay
  <2>4. W = Momentum(r, k) \cup {A}
    <3>1. ~Anew(at[r], k)
      BY <1>3, InUpdate
    <3>2. ASSUME NEW b \in Due(r, k)
          PROVE  b \in W <=> b \in Momentum(r, k)
      <4>1. b <= A /\ b \in Due(r, k)'
        BY <1>7, <1>8, <1>9, <3>2
      <4>2. b \in Decided(r)
        BY <3>2 DEF Due
      <4>3. log'[r][b].call = log[r][b].call /\ log[r][b].call \in Nat /\ log[r][b].call <= at[r]
        BY <1>0, <4>2, DuePast
      <4>4. \A j : j \in (log[r][b].call)..(at[r]) <=> j \in (log[r][b].call)..(at[r] - 1) \/ j = at[r]
        BY <1>1, <4>3
      <4>5. (\E j \in (log'[r][b].call)..(at[r]) : Anew(j, k)) <=>
            (\E j \in (log[r][b].call)..(at[r] - 1) : Anew(j, k))
        BY <3>1, <4>3, <4>4
      <4> QED BY <4>1, <4>5 DEF Momentum
    <3>3. A \in W
      <4>1. \A j \in (log'[r][A].call)..(at[r]) : j = at[r]
        BY <1>1, <1>3, <1>7
      <4>2. A \in Due(r, k)' /\ A <= A
        BY <1>7, <1>8, <1>11
      <4> QED BY <3>1, <4>1, <4>2
    <3>4. W \subseteq Due(r, k) \cup {A} /\ Momentum(r, k) \subseteq Due(r, k)
      BY <1>8 DEF Momentum
    <3> HIDE DEF W
    <3> QED BY <3>2, <3>3, <3>4
  <2>5. solver[r].states[k] = Momentum(r, k)
    BY <1>1, <2>1
  <2>6. MadeBy(r, k) = [attempt |-> A, terms |-> Final(r, k), finite |-> TRUE,
                       momentum |-> Momentum(r, k) \cup {A}]
    BY <1>2, <2>5 DEF MadeBy
  <2>7. log'[r][A].call = at[r]
    BY <1>3, <1>7
  <2>8. Unscaled(r, k, A)' =
          [attempt |-> A, terms |-> Gathered(A, k, 0) \cup d, finite |-> TRUE, momentum |-> W]
    <3>1. Since(r, k, A)' = W
      BY <1>1, <2>7, SinceNext
    <3> HIDE DEF W
    <3> QED BY <1>1, <2>3, <3>1, UnscaledNext
  <2> HIDE DEF d, W
  <2> QED BY <2>2, <2>4, <2>6, <2>8
<1>12. ASSUME NEW k \in Keys
       PROVE  {Unscaled(r, k, a)' : a \in Due(r, k)'} =
                IF HasGrad(r, k) THEN data[r][k] \cup {MadeBy(r, k)} ELSE data[r][k]
  <2>1. data[r][k] = {Unscaled(r, k, a) : a \in Due(r, k)}
    BY DEF DataOf
  <2>2. {Unscaled(r, k, a)' : a \in Due(r, k)} = {Unscaled(r, k, a) : a \in Due(r, k)}
    BY <1>10
  <2>3. CASE HasGrad(r, k)
    <3>1. {Unscaled(r, k, a)' : a \in Due(r, k)'} =
            {Unscaled(r, k, a)' : a \in Due(r, k)} \cup {Unscaled(r, k, A)'}
      BY <1>8, <2>3
    <3> QED BY <1>11, <2>1, <2>2, <2>3, <3>1
  <2>4. CASE ~HasGrad(r, k)
    BY <1>8, <2>1, <2>2, <2>4
  <2> QED BY <2>3, <2>4
<1>13. DataOf(r)' <=> data'[r] = [k \in Keys |-> {Unscaled(r, k, a)' : a \in Due(r, k)'}]
  BY DEF DataOf
<1>14. [k \in Keys |-> {Unscaled(r, k, a)' : a \in Due(r, k)'}] =
       [k \in Keys |-> IF HasGrad(r, k) THEN data[r][k] \cup {MadeBy(r, k)} ELSE data[r][k]]
  BY <1>12
<1> QED BY <1>6, <1>13, <1>14

---------------------------------------------------------------------------
\* The invariant.
IInv ==
    /\ Control /\ FloorOK /\ ChainOK /\ HeadersAgree
    /\ GradExact /\ StatesExact /\ DataExact

\* The invariant holds at the start.
LEMMA IInvInit == Init => IInv
<1> SUFFICES ASSUME Init PROVE IInv
  OBVIOUS
<1>1. Control
  BY ControlInit
<1>2. \A r \in Ranks : log[r] = <<>> /\ Attempt(r) = 0 /\ pc[r] = "idle" /\ at[r] = 1
                       /\ scale[r] = Scale /\ counter[r] = 0 /\ recursive[r] = 0
                       /\ solver[r] = NewSolver /\ data[r] = [k \in Keys |-> {}]
  BY DEF Init, Attempt
<1>3. FloorOK
  BY <1>2, UpdaterAssumption, SolverAssumption DEF FloorOK, FloorOf
<1>4. ChainOK
  <2>1. NoUpdate(1, 1 - 1)
    BY DEF NoUpdate
  <2> QED BY <1>2, <2>1 DEF ChainOK, ChainOf, Follows, Busy
<1>5. HeadersAgree
  BY <1>2 DEF HeadersAgree
<1>6. GradExact
  BY <1>2 DEF GradExact, GradOf
<1>7. \A r \in Ranks : \A k : Due(r, k) = {}
  <2>1. \A r \in Ranks : DOMAIN log[r] = {}
    BY <1>2
  <2> QED BY <2>1 DEF Due, Decided
<1>8. StatesExact
  <2>1. Params(1) = {}
    BY DEF Params, Registered
  <2>2. [k \in {} |-> {}] = [k \in Params(1) |-> {}]
    BY <2>1
  <2>3. ASSUME NEW r \in Ranks
        PROVE  StatesOf(r)
    <3>1. \A k : Momentum(r, k) = {}
      BY <1>7 DEF Momentum
    <3>2. [k \in Params(at[r]) |-> Momentum(r, k)] = [k \in {} |-> {}]
      BY <1>2, <2>1, <3>1
    <3> QED BY <1>2, <2>1, <3>2 DEF StatesOf, Made, NewSolver
  <2> QED BY <2>3 DEF StatesExact
<1>9. DataExact
  <2>1. ASSUME NEW r \in Ranks
        PROVE  DataOf(r)
    <3> DEFINE made(k) == {Unscaled(r, k, a) : a \in Due(r, k)}
    <3>1. \A k \in Keys : made(k) = {}
      BY <1>7
    <3>2. data[r] = [k \in Keys |-> {}]
      BY <1>2
    <3> HIDE DEF made
    <3>3. data[r] = [k \in Keys |-> made(k)]
      BY <3>1, <3>2
    <3> QED BY <3>3 DEF DataOf, made
  <2> QED BY <2>1 DEF DataExact
<1> QED BY <1>1, <1>3, <1>4, <1>5, <1>6, <1>8, <1>9 DEF IInv

\* A rank skips or retries exactly what overflows somewhere.
LEMMA Verdict ==
    ASSUME IInv, NEW r \in Ranks
    PROVE  /\ Overflow(r) => ~Good(r, Attempt(r))
           /\ Update(r) => Good(r, Attempt(r))
<1>1. Control /\ GradOf(r) /\ SolverOf(r)
  BY StatesSolver DEF IInv, GradExact, StatesExact
<1> QED BY <1>1, CheckFacts DEF Overflow, Update

\* Every step keeps the invariant.
LEMMA IInvInductive ==
    ASSUME IInv, [Next]_vars
    PROVE  IInv'
<1>1. /\ Control /\ FloorOK /\ ChainOK /\ HeadersAgree /\ GradExact /\ StatesExact /\ DataExact
      /\ ControlOK /\ DomainsOK
  BY DEF IInv, Control
<1>2. Control' /\ HeadersAgree'
  BY <1>1, ControlInductive, HeadersStep
<1>3. conf' = conf /\ Ranks' = Ranks
  BY <1>1, LogMoves DEF Control
<1>4. ASSUME NEW s \in Ranks, Still(s)
      PROVE  FloorOf(s)' /\ ChainOf(s)' /\ GradOf(s)' /\ StatesOf(s)' /\ DataOf(s)'
  <2>1. ChainOf(s)' /\ GradOf(s)' /\ StatesOf(s)'
    BY <1>1, <1>4, ChainStill, GradStill, StatesStill DEF ChainOK, GradExact, StatesExact
  <2>2. (\A k : Due(s, k)' = Due(s, k)) /\ Attempt(s)' = Attempt(s)
    BY <1>1, <1>4, DueStill
  <2>3. DataOf(s)'
    BY <1>1, <1>4, <2>2, DataSame DEF DataExact, Still
  <2>4. FloorOf(s)'
    <3>1. scale'[s] = scale[s] /\ log'[s] = log[s] /\ FloorOf(s)
      BY <1>1, <1>4 DEF Still, FloorOK
    <3> QED BY <2>2, <3>1 DEF FloorOf
  <2> QED BY <2>1, <2>3, <2>4
<1>5. SUFFICES \A s \in Ranks : FloorOf(s)' /\ ChainOf(s)' /\ GradOf(s)' /\ StatesOf(s)' /\ DataOf(s)'
  BY <1>2, <1>3 DEF IInv, FloorOK, ChainOK, GradExact, StatesExact, DataExact
<1>6. CASE UNCHANGED vars
  <2>1. \A s \in Ranks : Still(s)
    BY <1>6 DEF vars, updater, memory, Still
  <2> QED BY <1>4, <2>1
<1>7. CASE AllReduce
  <2>1. /\ \A s \in Ranks : pc[s] = "reduce" /\ pc'[s] = "check"
        /\ at' = at /\ scale' = scale /\ counter' = counter /\ recursive' = recursive
        /\ log' = log /\ solver' = solver /\ data' = data
    BY <1>1, <1>7, ReduceFacts
  <2>2. \A s \in Ranks : GradOf(s)'
    BY <1>1, <1>7, GradReduced
  <2>3. ASSUME NEW s \in Ranks
        PROVE  FloorOf(s)' /\ ChainOf(s)' /\ StatesOf(s)' /\ DataOf(s)'
    <3>1. Attempt(s)' = Attempt(s)
      BY <2>1 DEF Attempt
    <3>2. Decided(s)' = Decided(s)
      BY <1>3, <2>1, <3>1 DEF Decided, Complete
    <3>3. \A k : Due(s, k)' = Due(s, k)
      BY <1>1, <3>2, DecidedSame
    <3>4. FloorOf(s)'
      BY <1>1, <2>1, <3>1 DEF FloorOK, FloorOf
    <3>5. ChainOf(s)'
      <4>1. \A a \in 1..Attempt(s) :
              Follows(s, a - 1, log[s][a].scale, log[s][a].counter, log[s][a].recursive, log[s][a].call)'
        BY <1>1, ChainPast DEF ChainOK
      <4> QED BY <2>1, <3>1, <4>1 DEF ChainOf, Busy
    <3>6. StatesOf(s)'
      BY <1>1, <2>1, <3>3, StatesSame DEF StatesExact
    <3>7. DataOf(s)'
      BY <1>1, <2>1, <3>3, DataSame DEF DataExact
    <3> QED BY <3>4, <3>5, <3>6, <3>7
  <2> QED BY <2>2, <2>3
<1>8. ASSUME NEW r \in Ranks, Step(r)
      PROVE  \A s \in Ranks : FloorOf(s)' /\ ChainOf(s)' /\ GradOf(s)' /\ StatesOf(s)' /\ DataOf(s)'
  <2>1. \A s \in Ranks \ {r} : Still(s)
    BY <1>1, <1>8, StageStep DEF Control
  <2>2. /\ Overflow(r) => ~Good(r, Attempt(r))
        /\ Update(r) => Good(r, Attempt(r))
    BY Verdict
  <2>3. FloorOf(r) /\ ChainOf(r) /\ GradOf(r) /\ StatesOf(r) /\ DataOf(r) /\ SolverOf(r)
    BY <1>1, StatesSolver DEF FloorOK, ChainOK, GradExact, StatesExact, DataExact
  <2>4. FloorOf(r)' /\ ChainOf(r)'
    BY <1>1, <1>8, <2>2, FloorStep, ChainStep
  <2>5. GradOf(r)' /\ StatesOf(r)'
    BY <1>1, <1>8, <2>2, <2>3, GradStep, StatesStep
  <2>6. DataOf(r)'
    <3>1. CASE Update(r)
      BY <1>1, <2>2, <2>3, <3>1, DataUpdated
    <3>2. CASE ~Update(r)
      <4>1. \A k : Due(r, k)' = Due(r, k)
        BY <1>1, <1>8, <2>2, <3>2, DueStep
      <4>2. data'[r] = data[r]
        BY <1>8, <3>2 DEF Step, ChangeParameters, Begin, FeedForwardBackward, FeederRaises, Overflow, memory
      <4> QED BY <1>1, <2>3, <4>1, <4>2, DataSame
    <3> QED BY <3>1, <3>2
  <2> QED BY <1>4, <2>1, <2>4, <2>5, <2>6
<1> QED BY <1>6, <1>7, <1>8 DEF Next

\* The invariant says of the parameters what LearnsUnscaled does.
LEMMA IInvLearns ==
    ASSUME IInv
    PROVE  LearnsUnscaled
<1>1. ASSUME NEW r \in Ranks, NEW k \in Keys
      PROVE  data[r][k] = {Unscaled(r, k, a) : a \in Due(r, k)}
  BY DEF IInv, DataExact, DataOf
<1> QED BY <1>1 DEF LearnsUnscaled

\* Ranks with the same attempts behind them are the same (RanksAgree).
LEMMA IInvAgree ==
    ASSUME IInv
    PROVE  RanksAgree
<1>1. /\ Control /\ ChainOK /\ HeadersAgree /\ StatesExact /\ DataExact
      /\ StageOK
  BY DEF IInv, Control
<1>2. ASSUME NEW r \in Ranks, NEW s \in Ranks, pc[r] = "reduce", pc[s] = "reduce"
      PROVE  Attempt(r) = Attempt(s) /\ scale[r] = scale[s]
  <2>1. /\ Reduced(r) = Attempt(r) - 1 /\ Reduced(s) = Attempt(s) - 1 /\ Reduced(s) = Reduced(r)
        /\ Attempt(r) \in Nat /\ Attempt(s) \in Nat
    BY <1>1, <1>2, ReducedFacts DEF Reduced
  <2>2. Attempt(r) = Attempt(s)
    BY <2>1
  <2>3. Attempt(r) \in 1..Attempt(r) /\ Attempt(r) <= Attempt(s)
    BY <1>1, <1>2, <2>1, <2>2 DEF StageOK, StageOf
  <2>4. Header(r, Attempt(r)) = Header(s, Attempt(r))
    BY <1>1, <2>3 DEF HeadersAgree
  <2>5. log[r][Attempt(r)].scale = scale[r] /\ log[s][Attempt(s)].scale = scale[s]
    BY <1>1, <1>2 DEF StageOK, StageOf, Busy
  <2> QED BY <2>2, <2>4, <2>5, HeaderFields
<1>3. ASSUME NEW r \in Ranks, NEW s \in Ranks, pc[r] = "idle", pc[s] = "idle", at[r] = at[s]
      PROVE  /\ scale[r] = scale[s] /\ counter[r] = counter[s] /\ recursive[r] = recursive[s]
             /\ solver[r] = solver[s]
             /\ data[r] = data[s]
  <2>1. /\ Attempt(r) = Attempt(s) /\ Reduced(r) = Attempt(r) /\ Attempt(r) \in Nat
    BY <1>1, <1>3, ReducedFacts DEF Reduced
  <2>2. Attempt(r) \in 0..Reduced(r)
    BY <2>1
  <2>3. /\ Follows(r, Attempt(r), scale[r], counter[r], recursive[r], at[r])
        /\ Follows(s, Attempt(r), scale[s], counter[s], recursive[s], at[s])
    BY <1>1, <1>3, <2>1 DEF ChainOK, ChainOf, Busy
  <2>4. scale[r] = scale[s] /\ counter[r] = counter[s] /\ recursive[r] = recursive[s]
    BY <1>1, <2>2, <2>3, FollowsSame
  <2>5. \A a \in 1..Attempt(r) :
          /\ Complete(s, a) <=> Complete(r, a)
          /\ Good(s, a) <=> Good(r, a)
          /\ log[s][a].call = log[r][a].call
    BY <1>1, <2>1, SameAttempt
  <2>6. \A k : Due(r, k) = Due(s, k)
    <3>1. CASE r = s
      BY <3>1
    <3>2. CASE r # s
      <4>1. conf.size > 1
        BY <3>2, ConfFields DEF Ranks, Control, ControlOK, IInv
      <4>2. \A a : a \in Decided(r) <=> a \in Decided(s)
        BY <1>1, <1>3, <2>1, <2>5, DecidedFacts
      <4>3. \A a \in Decided(r) : a \in 1..Attempt(r)
        BY <1>1, DecidedFacts
      <4>4. \A k, a : a \in Due(r, k) <=> a \in Due(s, k)
        BY <2>5, <4>1, <4>2, <4>3 DEF Due
      <4>5. \A k : Due(r, k) \subseteq Decided(r) /\ Due(s, k) \subseteq Decided(s)
        BY DEF Due
      <4> QED BY <4>4, <4>5
    <3> QED BY <3>1, <3>2
  <2>7. \A k : \A b \in Due(r, k) : log[s][b].call = log[r][b].call
    <3>1. \A a \in Decided(r) : a \in 1..Attempt(r)
      BY <1>1, DecidedFacts
    <3> QED BY <2>5, <3>1 DEF Due
  <2>8. \A k : Momentum(r, k) = Momentum(s, k)
    BY <1>3, <2>6, <2>7 DEF Momentum
  <2>9. solver[r] = solver[s]
    <3>1. [k \in Params(at[r]) |-> Momentum(r, k)] = [k \in Params(at[s]) |-> Momentum(s, k)]
      BY <1>3, <2>8
    <3> QED BY <1>1, <1>3, <3>1 DEF StatesExact, StatesOf
  <2>10. \A k : \A a \in Due(r, k) : Unscaled(r, k, a) = Unscaled(s, k, a)
    <3>1. ASSUME NEW k, NEW a \in Due(r, k)
          PROVE  Unscaled(r, k, a) = Unscaled(s, k, a)
      <4>1. Since(r, k, a) = Since(s, k, a)
        BY <2>6, <2>7 DEF Since
      <4> QED BY <4>1 DEF Unscaled
    <3> QED BY <3>1
  <2>11. data[r] = data[s]
    <3>1. \A k : {Unscaled(r, k, a) : a \in Due(r, k)} = {Unscaled(s, k, a) : a \in Due(s, k)}
      BY <2>6, <2>10
    <3>2. [k \in Keys |-> {Unscaled(r, k, a) : a \in Due(r, k)}] =
          [k \in Keys |-> {Unscaled(s, k, a) : a \in Due(s, k)}]
      BY <3>1
    <3> QED BY <1>1, <3>2 DEF DataExact, DataOf
  <2> QED BY <2>4, <2>9, <2>11
<1> QED BY <1>2, <1>3 DEF RanksAgree

---------------------------------------------------------------------------
\* In every reachable state the parameters of every rank are those of a training without scales.
THEOREM LearnsHolds == Spec => []LearnsUnscaled
<1>1. Init => IInv
  BY IInvInit
<1>2. IInv /\ [Next]_vars => IInv'
  BY IInvInductive
<1>3. IInv => LearnsUnscaled
  BY IInvLearns
<1> QED BY <1>1, <1>2, <1>3, PTL DEF Spec

\* In every reachable state the ranks agree where they meet, and after the same calls.
THEOREM AgreeHolds == Spec => []RanksAgree
<1>1. Init => IInv
  BY IInvInit
<1>2. IInv /\ [Next]_vars => IInv'
  BY IInvInductive
<1>3. IInv => RanksAgree
  BY IInvAgree
<1> QED BY <1>1, <1>2, <1>3, PTL DEF Spec

-----------------------------------------------------------------------------
(* The scale falls with an overflow alone and does not grow too early.     *)

\* The counter an attempt begins with counts updates made with its scale, but for one: after
\* a growth it begins with 1.
Bounds(r, a) ==
    \E b \in 1..a : Steady(r, b, a) /\ Tried(r, b, a - 1) >= log[r][a].counter - 1

---------------------------------------------------------------------------
\* Attempts are counted one by one.
LEMMA TriedNext ==
    ASSUME NEW r, NEW b \in Nat, NEW a \in Nat
    PROVE  /\ Tried(r, b, a) \in Nat
           /\ b > a => Tried(r, b, a) = 0
           /\ b <= a => Tried(r, b, a) = Tried(r, b, a - 1) + IF Complete(r, a) THEN 1 ELSE 0
<1> DEFINE S(m) == {c \in b..m : Complete(r, c)}
<1>1. ASSUME NEW m \in Int
      PROVE  IsFiniteSet(S(m)) /\ Cardinality(S(m)) \in Nat
  <2>1. IsFiniteSet(b..m) /\ S(m) \in SUBSET (b..m)
    BY FS_Interval
  <2> HIDE DEF S
  <2>2. IsFiniteSet(S(m))
    BY <2>1, FS_Subset
  <2> QED BY <2>2, FS_CardinalityType
<1>2. ASSUME b > a
      PROVE  Tried(r, b, a) = 0
  <2>1. S(a) = {}
    BY <1>2
  <2> QED BY <2>1, FS_EmptySet DEF Tried
<1>3. ASSUME b <= a
      PROVE  Tried(r, b, a) = Tried(r, b, a - 1) + IF Complete(r, a) THEN 1 ELSE 0
  <2>1. a \notin S(a - 1)
    OBVIOUS
  <2>2. S(a) = IF Complete(r, a) THEN S(a - 1) \cup {a} ELSE S(a - 1)
    BY <1>3
  <2>3. IsFiniteSet(S(a - 1)) /\ Cardinality(S(a - 1)) \in Nat
    BY <1>1
  <2>4. Tried(r, b, a) = Cardinality(S(a)) /\ Tried(r, b, a - 1) = Cardinality(S(a - 1))
    BY DEF Tried
  <2> HIDE DEF S
  <2>5. Cardinality(S(a - 1) \cup {a}) = Cardinality(S(a - 1)) + 1
    BY <2>1, <2>3, FS_AddElement
  <2> QED BY <2>2, <2>3, <2>4, <2>5
<1>4. Tried(r, b, a) \in Nat
  BY <1>1 DEF Tried
<1> QED BY <1>2, <1>3, <1>4

\* What an attempt begins with.
LEMMA HeadTypes ==
    ASSUME Control, NEW r \in Ranks, NEW a \in 1..Attempt(r)
    PROVE  log[r][a].scale \in Int /\ log[r][a].counter \in Nat /\ a \in Nat /\ N \in Nat
<1>1. log[r][a] \in Entry /\ Attempt(r) \in Nat
  BY EntryFacts, Attempts DEF Control
<1> QED BY <1>1, UpdaterAssumption DEF Entry

\* An attempt and the next one have one scale, or the next begins to count.
LEMMA SteadyNext ==
    ASSUME NEW r, NEW a \in Nat \ {0}, NEW b \in 1..a
    PROVE  /\ log[r][a + 1].scale = log[r][a].scale => (Steady(r, b, a + 1) <=> Steady(r, b, a))
           /\ log[r][a + 1].scale # log[r][a].scale => ~Steady(r, b, a + 1)
<1>1. b..(a + 1) = (b..a) \cup {a + 1} /\ a \in b..a
  OBVIOUS
<1> QED BY <1>1 DEF Steady

\* An attempt by itself is steady.
LEMMA SteadyAlone ==
    ASSUME NEW r, NEW a \in Nat
    PROVE  Steady(r, a, a)
<1>1. a..a = {a}
  OBVIOUS
<1> QED BY <1>1 DEF Steady

\* The counter of an attempt, from that of the one before.
LEMMA BoundsNext ==
    ASSUME Control, NEW r \in Ranks, ChainOf(r), NEW a \in Nat, a + 1 <= Attempt(r),
           a >= 1 => Bounds(r, a)
    PROVE  Bounds(r, a + 1)
<1>0. Attempt(r) \in Nat /\ a + 1 \in 1..Attempt(r)
  BY Attempts DEF Control
<1>1. /\ log[r][a + 1].scale \in Int /\ log[r][a + 1].counter \in Nat /\ N \in Nat
  BY <1>0, HeadTypes
<1>2. Follows(r, a, log[r][a + 1].scale, log[r][a + 1].counter, log[r][a + 1].recursive,
              log[r][a + 1].call)
  <2>1. (a + 1) - 1 = a
    OBVIOUS
  <2> QED BY <1>0, <2>1 DEF ChainOf
<1>3. Steady(r, a + 1, a + 1) /\ Tried(r, a + 1, a) = 0
  BY SteadyAlone, TriedNext
<1>4. (a + 1) - 1 = a /\ a + 1 \in 1..(a + 1)
  OBVIOUS
<1>5. ASSUME log[r][a + 1].counter <= 1
      PROVE  Bounds(r, a + 1)
  <2>1. Tried(r, a + 1, a) >= log[r][a + 1].counter - 1
    BY <1>1, <1>3, <1>5
  <2> QED BY <1>3, <1>4, <1>5, <2>1 DEF Bounds
<1>6. CASE a = 0
  <2>1. log[r][a + 1].counter = 0
    BY <1>2, <1>6 DEF Follows
  <2> QED BY <1>1, <1>5, <2>1
<1>7. CASE a # 0
  <2>0. a \in 1..Attempt(r) /\ a \in Nat \ {0}
    BY <1>0, <1>7
  <2>1. log[r][a].scale \in Int /\ log[r][a].counter \in Nat
    BY <2>0, HeadTypes
  <2>2. log[r][a + 1].scale = ScaleAfter(r, a) /\ log[r][a + 1].counter = CounterAfter(r, a)
    BY <1>2, <1>7 DEF Follows
  <2>3. Bounds(r, a)
    BY <2>0
  <2>4. \A b \in 1..a : Tried(r, b, a) = Tried(r, b, a - 1) + IF Complete(r, a) THEN 1 ELSE 0
    BY <2>0, TriedNext
  <2>5. \A b \in 1..a : Tried(r, b, a - 1) \in Nat
    <3>1. a - 1 \in Nat
      BY <2>0
    <3> QED BY <3>1, TriedNext
  <2>7. CASE log[r][a + 1].scale # log[r][a].scale
    <3>2. log[r][a + 1].counter <= 1
      BY <2>2, <2>7 DEF ScaleAfter, CounterAfter
    <3> QED BY <1>5, <3>2
  <2>8. CASE log[r][a + 1].scale = log[r][a].scale
    <3> DEFINE more == IF Complete(r, a) THEN 1 ELSE 0
    <3>1. \A b \in 1..a : Steady(r, b, a + 1) <=> Steady(r, b, a)
      BY <2>0, <2>8, SteadyNext
    <3>2. log[r][a + 1].counter = log[r][a].counter + more
      BY <1>1, <2>1, <2>2, <2>8 DEF ScaleAfter, CounterAfter
    <3>3. more \in {0, 1}
      OBVIOUS
    <3>5. PICK b \in 1..a : Steady(r, b, a) /\ Tried(r, b, a - 1) >= log[r][a].counter - 1
      BY <2>3 DEF Bounds
    <3>7. \A c \in 1..a : Tried(r, c, a) = Tried(r, c, a - 1) + more
      BY <2>4
    <3> HIDE DEF more
    <3>8. Steady(r, b, a + 1) /\ Tried(r, b, a) >= log[r][a + 1].counter - 1
      BY <2>1, <2>5, <3>1, <3>2, <3>3, <3>5, <3>7
    <3>10. b \in 1..(a + 1)
      OBVIOUS
    <3> QED BY <1>4, <3>8, <3>10 DEF Bounds
  <2> QED BY <2>7, <2>8
<1> QED BY <1>6, <1>7

\* The bounds hold of every attempt: there is no first of which they do not.
LEMMA BoundsAll ==
    ASSUME Control, NEW r \in Ranks, ChainOf(r), NEW a \in 1..Attempt(r)
    PROVE  Bounds(r, a)
<1> DEFINE T == {b \in 1..Attempt(r) : ~Bounds(r, b)}
<1>0. Attempt(r) \in Nat
  BY Attempts DEF Control
<1>1. SUFFICES ASSUME T # {} PROVE FALSE
  OBVIOUS
<1>2. T \subseteq Nat
  OBVIOUS
<1> HIDE DEF T
<1>3. PICK z \in T : \A y \in T : ~(<<y, z>> \in OpToRel(<, Nat))
  BY <1>1, <1>2, NatLessThanWellFounded, WFMin, Zenon
<1>4. \A y \in T : ~(y < z)
  BY <1>2, <1>3 DEF OpToRel
<1>5. z \in 1..Attempt(r) /\ ~Bounds(r, z)
  BY DEF T
<1>6. (z - 1) \in Nat /\ (z - 1) + 1 = z /\ (z - 1) + 1 <= Attempt(r)
  BY <1>0, <1>5
<1>7. z - 1 >= 1 => Bounds(r, z - 1)
  <2>1. z - 1 >= 1 => z - 1 \in 1..Attempt(r) /\ z - 1 < z
    BY <1>0, <1>5
  <2> QED BY <1>4, <2>1 DEF T
<1>8. Bounds(r, (z - 1) + 1)
  BY <1>6, <1>7, BoundsNext
<1> QED BY <1>5, <1>6, <1>8

\* An attempt, its bounds and what follows it say when the scale changes.
LEMMA Earned ==
    ASSUME Control, ChainOK
    PROVE  ScaleIsEarned
<1>1. ASSUME NEW r \in Ranks, NEW a \in 1..(Attempt(r) - 1)
      PROVE  /\ a \in Nat \ {0} /\ a \in 1..Attempt(r) /\ Bounds(r, a) /\ N \in Nat
             /\ log[r][a].scale \in Int /\ log[r][a].counter \in Nat
             /\ log[r][a + 1].scale = ScaleAfter(r, a)
  <2>1. Attempt(r) \in Nat
    BY Attempts DEF Control
  <2>2. a \in 1..Attempt(r) /\ a + 1 \in 1..Attempt(r) /\ (a + 1) - 1 = a /\ a # 0
    BY <2>1
  <2>3. ChainOf(r)
    BY DEF ChainOK
  <2>4. Follows(r, a, log[r][a + 1].scale, log[r][a + 1].counter, log[r][a + 1].recursive,
                log[r][a + 1].call)
    BY <2>2, <2>3 DEF ChainOf
  <2>5. log[r][a + 1].scale = ScaleAfter(r, a)
    BY <2>2, <2>4 DEF Follows
  <2> QED BY <2>2, <2>3, <2>5, HeadTypes, BoundsAll
<1>2. ASSUME NEW r \in Ranks, NEW a \in 1..(Attempt(r) - 1)
      PROVE  LET next == log[r][a + 1].scale
                 overflows == Complete(r, a) /\ ~Good(r, a)
             IN  /\ next \in {log[r][a].scale - 1, log[r][a].scale, log[r][a].scale + 1}
                 /\ next < log[r][a].scale <=> overflows
                 /\ next > log[r][a].scale =>
                        \E b \in 1..a : Steady(r, b, a) /\ Tried(r, b, a) >= N
  <2>1. /\ a \in Nat \ {0} /\ Bounds(r, a) /\ N \in Nat
        /\ log[r][a].scale \in Int /\ log[r][a].counter \in Nat
        /\ log[r][a + 1].scale = ScaleAfter(r, a)
    BY <1>1
  <2>2. ASSUME log[r][a + 1].scale > log[r][a].scale
        PROVE  \E b \in 1..a : Steady(r, b, a) /\ Tried(r, b, a) >= N
    <3>1. Complete(r, a) /\ log[r][a].counter > N
      BY <2>1, <2>2 DEF ScaleAfter, Grows
    <3>2. PICK b \in 1..a : Steady(r, b, a) /\ Tried(r, b, a - 1) >= log[r][a].counter - 1
      BY <2>1 DEF Bounds
    <3>3. a - 1 \in Nat
      BY <2>1
    <3>4. Tried(r, b, a) = Tried(r, b, a - 1) + 1 /\ Tried(r, b, a - 1) \in Nat
      BY <2>1, <3>1, <3>3, TriedNext
    <3>5. Tried(r, b, a) >= N
      BY <2>1, <3>1, <3>2, <3>4
    <3> QED BY <3>2, <3>5
  <2>3. /\ log[r][a + 1].scale \in {log[r][a].scale - 1, log[r][a].scale, log[r][a].scale + 1}
        /\ log[r][a + 1].scale < log[r][a].scale <=> Complete(r, a) /\ ~Good(r, a)
    BY <2>1 DEF ScaleAfter
  <2> QED BY <2>2, <2>3
<1> QED BY <1>2 DEF ScaleIsEarned

---------------------------------------------------------------------------
\* In every reachable state the scale of every rank has changed only where it was due.
THEOREM EarnedHolds == Spec => []ScaleIsEarned
<1>1. Init => IInv
  BY IInvInit
<1>2. IInv /\ [Next]_vars => IInv'
  BY IInvInductive
<1>3. IInv => ScaleIsEarned
  BY Earned DEF IInv
<1> QED BY <1>1, <1>2, <1>3, PTL DEF Spec

=============================================================================

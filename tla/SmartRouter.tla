---------------------------- MODULE SmartRouter ----------------------------
(***************************************************************************)
(* The provider failover router of sheri-ml-cli                            *)
(* (src/providers/smart-router.ts).  generate sorts the configured         *)
(* providers so that the deprioritized ones come last, then awaits each    *)
(* provider in turn until one answers; every answer updates that          *)
(* provider's health record.  A provider is deprioritized while it has     *)
(* failed at least three times in a row and its deprioritizedAt stamp is   *)
(* less than DEPRIORITIZE_DURATION old.                                    *)
(*                                                                         *)
(* The CLI awaits each generate before reading the next prompt, so calls   *)
(* never overlap; time passes (Tick) between and during provider calls.    *)
(* The fields available (always true) and lastError (only logged) are left *)
(* out: no decision reads them.                                            *)
(***************************************************************************)
EXTENDS Naturals, Sequences, FiniteSets, SequencesExt

CONSTANTS
  Providers,    \* config.providers: a sequence of distinct provider names
  Cooldown,     \* DEPRIORITIZE_DURATION_MS, in clock ticks
  MaxTime,      \* bound on the clock
  MaxRequests,  \* bound on the number of generate calls
  NoTime        \* an undefined timestamp

ASSUME IsInjective(Providers)
ASSUME Cooldown \in Nat \ {0} /\ MaxTime \in Nat /\ MaxRequests \in Nat
ASSUME NoTime \notin Nat

\* DEPRIORITIZE_AFTER_FAILURES
Threshold == 3

ProviderSet == ToSet(Providers)

VARIABLES
  now,             \* Date.now(), in ticks
  failCount,       \* health.get(p).failCount
  deprioritizedAt, \* health.get(p).deprioritizedAt
  lastSuccessAt,   \* health.get(p).lastSuccessAt
  phase,           \* "idle" or "calling": where the CLI's generate is
  ordered,         \* the sorted copy of providers of the current call
  idx,             \* position in ordered of the provider being awaited
  errors,          \* providers named in the errors array, in order
  result,          \* outcome of the last call: "none", "served", "allFailed"
  requests,        \* generate calls so far
  failTimes,       \* times of each provider's failures since its last success
  demoted          \* the providers deprioritized when the current call sorted

vars == <<now, failCount, deprioritizedAt, lastSuccessAt, phase, ordered, idx,
          errors, result, requests, failTimes, demoted>>

(***************************************************************************)
(* isDeprioritized and the sort.                                           *)
(***************************************************************************)
IsDeprioritized(p, t) ==
  /\ failCount[p] >= Threshold
  /\ deprioritizedAt[p] # NoTime
  /\ t - deprioritizedAt[p] < Cooldown

\* Mutant: the comparator with its operands swapped.
CompareSwapped(p, q, tp, tq) ==
  (IF IsDeprioritized(q, tq) THEN 1 ELSE 0) - (IF IsDeprioritized(p, tp) THEN 1 ELSE 0)

\* The comparator Number(da) - Number(db): da is read at time tp, db at tq.
Compare(p, q, tp, tq) ==
  (IF IsDeprioritized(p, tp) THEN 1 ELSE 0) - (IF IsDeprioritized(q, tq) THEN 1 ELSE 0)

(***************************************************************************)
(* Array.prototype.sort as V8 (Node) runs it on fewer than 64 elements:    *)
(* TimSort with one run, which is CountAndMakeRun (the longest ascending  *)
(* or strictly descending prefix, reversed when descending) followed by   *)
(* BinaryInsertionSort of the rest.  Every call of the comparator reads   *)
(* Date.now() twice, once in each isDeprioritized.  The sort starts at     *)
(* time t0; reads numbered k and later (from 0) see t0 + 1, so the clock  *)
(* may pass a cool-down's end in the middle of the sort.  Indices in the  *)
(* helpers are 0-based, as in V8; they return the comparisons made in c.  *)
(***************************************************************************)
ReadAt(i, t0, k) == IF i < k THEN t0 ELSE t0 + 1

\* comparefn(x, y) as the c-th call of the sort.
CompareAt(x, y, c, t0, k) == Compare(x, y, ReadAt(2 * c, t0, k), ReadAt(2 * c + 1, t0, k))

\* The loop of CountAndMakeRun from index i: where the run ends.
RECURSIVE RunEnd(_, _, _, _, _, _)
RunEnd(s, i, desc, c, t0, k) ==
  IF i >= Len(s) THEN [end |-> i, c |-> c]
  ELSE LET order == CompareAt(s[i + 1], s[i], c, t0, k)
       IN IF IF desc THEN order >= 0 ELSE order < 0
            THEN [end |-> i, c |-> c + 1]
            ELSE RunEnd(s, i + 1, desc, c + 1, t0, k)

CountAndMakeRun(s, t0, k) ==
  LET desc == CompareAt(s[2], s[1], 0, t0, k) < 0
      r == RunEnd(s, 2, desc, 1, t0, k)
      run == SubSeq(s, 1, r.end)
  IN [seq |-> (IF desc THEN Reverse(run) ELSE run) \o SubSeq(s, r.end + 1, Len(s)),
      len |-> r.end, c |-> r.c]

\* The binary search for the insertion point of pivot in s[left..right).
RECURSIVE BinarySearch(_, _, _, _, _, _, _)
BinarySearch(pivot, s, left, right, c, t0, k) ==
  IF left >= right THEN [pos |-> left, c |-> c]
  ELSE LET mid == left + (right - left) \div 2
       IN IF CompareAt(pivot, s[mid + 1], c, t0, k) < 0
            THEN BinarySearch(pivot, s, left, mid, c + 1, t0, k)
            ELSE BinarySearch(pivot, s, mid + 1, right, c + 1, t0, k)

RECURSIVE BinaryInsertionSort(_, _, _, _, _)
BinaryInsertionSort(s, start, c, t0, k) ==
  IF start >= Len(s) THEN s
  ELSE LET pivot == s[start + 1]
           b == BinarySearch(pivot, s, 0, start, c, t0, k)
       IN BinaryInsertionSort(SubSeq(s, 1, b.pos) \o <<pivot>> \o
                                SubSeq(s, b.pos + 1, start) \o SubSeq(s, start + 2, Len(s)),
                              start + 1, b.c, t0, k)

SortProviders(s, t0, k) ==
  IF Len(s) < 2 THEN s
  ELSE LET r == CountAndMakeRun(s, t0, k)
       IN BinaryInsertionSort(r.seq, r.len, r.c, t0, k)

\* A bound on the clock reads of one sort: n(n-1) comparisons at most.
MaxReads == 2 * Len(Providers) * Len(Providers)

\* The providers deprioritized at time t: the ones a consistent sort puts last.
DemotedAt(t) == {p \in ProviderSet : IsDeprioritized(p, t)}

(***************************************************************************)
(* onSuccess and onFailure                                                 *)
(***************************************************************************)
OnSuccess(p) ==
  /\ failCount' = [failCount EXCEPT ![p] = 0]
  /\ lastSuccessAt' = [lastSuccessAt EXCEPT ![p] = now]
  /\ deprioritizedAt' = [deprioritizedAt EXCEPT ![p] = NoTime]
  /\ failTimes' = [failTimes EXCEPT ![p] = <<>>]

\* Mutant: the stamp is written on every failure past the threshold.
OnFailureRestamps(p) ==
  /\ failCount' = [failCount EXCEPT ![p] = @ + 1]
  /\ deprioritizedAt' =
       IF failCount[p] + 1 >= Threshold
         THEN [deprioritizedAt EXCEPT ![p] = now]
         ELSE deprioritizedAt
  /\ failTimes' = [failTimes EXCEPT ![p] = Append(@, now)]
  /\ UNCHANGED lastSuccessAt

OnFailure(p) ==
  /\ failCount' = [failCount EXCEPT ![p] = @ + 1]
  /\ deprioritizedAt' =
       IF failCount[p] + 1 >= Threshold /\ deprioritizedAt[p] = NoTime
         THEN [deprioritizedAt EXCEPT ![p] = now]
         ELSE deprioritizedAt
  /\ failTimes' = [failTimes EXCEPT ![p] = Append(@, now)]
  /\ UNCHANGED lastSuccessAt

(***************************************************************************)
(* generate                                                                *)
(***************************************************************************)
Init ==
  /\ now = 0
  /\ failCount = [p \in ProviderSet |-> 0]
  /\ deprioritizedAt = [p \in ProviderSet |-> NoTime]
  /\ lastSuccessAt = [p \in ProviderSet |-> NoTime]
  /\ phase = "idle"
  /\ ordered = <<>>
  /\ idx = 1
  /\ errors = <<>>
  /\ result = "none"
  /\ requests = 0
  /\ failTimes = [p \in ProviderSet |-> <<>>]
  /\ demoted = {}

\* generate up to its first await: sort, and start with the first provider.
\* The clock either stays at now for the whole sort, or moves on by one
\* tick at the k-th read (GenerateAcrossTick).
\* Mutant: the errors array outlives a call (kept on the router).
StartCallKeepsErrors(k, later) ==
  /\ phase = "idle"
  /\ requests < MaxRequests
  /\ phase' = "calling"
  /\ ordered' = SortProviders(Providers, now, k)
  /\ idx' = 1
  /\ requests' = requests + 1
  /\ demoted' = {DemotedAt(t) : t \in {now, later}}
  /\ now' = later
  /\ UNCHANGED <<failCount, deprioritizedAt, lastSuccessAt, result, failTimes,
                 errors>>

StartCall(k, later) ==
  /\ phase = "idle"
  /\ requests < MaxRequests
  /\ phase' = "calling"
  /\ ordered' = SortProviders(Providers, now, k)
  /\ idx' = 1
  /\ errors' = <<>>
  /\ requests' = requests + 1
  /\ demoted' = {DemotedAt(t) : t \in {now, later}}
  /\ now' = later
  /\ UNCHANGED <<failCount, deprioritizedAt, lastSuccessAt, result, failTimes>>

Generate == StartCall(MaxReads, now)

GenerateAcrossTick ==
  /\ now < MaxTime
  /\ \E k \in 1..MaxReads - 1 : StartCall(k, now + 1)

\* provider.generate resolves: record the success and return its text.
ProviderSucceeds ==
  /\ phase = "calling"
  /\ idx <= Len(ordered)
  /\ OnSuccess(ordered[idx])
  /\ phase' = "idle"
  /\ result' = "served"
  /\ UNCHANGED <<now, ordered, idx, errors, requests, demoted>>

\* provider.generate rejects: record the failure and try the next one.
ProviderFails ==
  /\ phase = "calling"
  /\ idx <= Len(ordered)
  /\ OnFailure(ordered[idx])
  /\ errors' = Append(errors, ordered[idx])
  /\ idx' = idx + 1
  /\ UNCHANGED <<now, phase, ordered, result, requests, demoted>>

\* Mutant: the loop gives up before the last provider.
AllFailedOneEarly ==
  /\ phase = "calling"
  /\ idx >= Len(ordered)
  /\ phase' = "idle"
  /\ result' = "allFailed"
  /\ UNCHANGED <<now, failCount, deprioritizedAt, lastSuccessAt, ordered, idx,
                 errors, requests, failTimes, demoted>>

\* Mutant: the exhaustion test waits for one index past the end.
AllFailedOneLate ==
  /\ phase = "calling"
  /\ idx > Len(ordered) + 1
  /\ phase' = "idle"
  /\ result' = "allFailed"
  /\ UNCHANGED <<now, failCount, deprioritizedAt, lastSuccessAt, ordered, idx,
                 errors, requests, failTimes, demoted>>

\* The loop is exhausted: throw 'All providers failed' with every error.
AllFailed ==
  /\ phase = "calling"
  /\ idx > Len(ordered)
  /\ phase' = "idle"
  /\ result' = "allFailed"
  /\ UNCHANGED <<now, failCount, deprioritizedAt, lastSuccessAt, ordered, idx,
                 errors, requests, failTimes, demoted>>

Tick ==
  /\ now < MaxTime
  /\ now' = now + 1
  /\ UNCHANGED <<failCount, deprioritizedAt, lastSuccessAt, phase, ordered,
                 idx, errors, result, requests, failTimes, demoted>>

Next == Generate \/ GenerateAcrossTick \/ ProviderSucceeds \/ ProviderFails \/ AllFailed \/ Tick

Spec == Init /\ [][Next]_vars

(***************************************************************************)
(* Properties                                                              *)
(***************************************************************************)
Times == 0..MaxTime \cup {NoTime}

TypeOK ==
  /\ now \in 0..MaxTime
  /\ failCount \in [ProviderSet -> Nat]
  /\ deprioritizedAt \in [ProviderSet -> Times]
  /\ lastSuccessAt \in [ProviderSet -> Times]
  /\ phase \in {"idle", "calling"}
  /\ ordered \in Seq(ProviderSet)
  /\ idx \in 1..Len(Providers) + 1
  /\ errors \in Seq(ProviderSet)
  /\ result \in {"none", "served", "allFailed"}
  /\ requests \in 0..MaxRequests

\* The stamp marks the third failure (spec 3, 8): deprioritizedAt is set
\* exactly while the provider has failed at least three times since its
\* last success, and then it is the time of the third of those failures:
\* later failures do not re-stamp it and a success clears it.
StampIsThirdFailure ==
  \A p \in ProviderSet :
    /\ failCount[p] = Len(failTimes[p])
    /\ (deprioritizedAt[p] # NoTime) <=> (Len(failTimes[p]) >= Threshold)
    /\ deprioritizedAt[p] # NoTime => deprioritizedAt[p] = failTimes[p][Threshold]

\* The order spec 8 and the comment at smart-router.ts:57 promise when the
\* set D of providers is deprioritized: the active ones, then the others,
\* each group in configured order.
Partition(D) ==
  LET IsActive(p)  == p \notin D
      IsDemoted(p) == p \in D
  IN SelectSeq(Providers, IsActive) \o SelectSeq(Providers, IsDemoted)

\* The sort against its reference: when the clock does not move during a
\* sort, V8's sort with the code's comparator puts the providers in the
\* order Partition gives, at every instant of the clock to come.
SortMatchesReference ==
  \A t \in now..MaxTime : SortProviders(Providers, t, MaxReads) = Partition(DemotedAt(t))

\* Attempt order (spec 8): a call tries the active providers first, then the
\* deprioritized ones, each group in configured order, as they stood at some
\* instant of the sort, also when a cool-down ends while the sort runs.
ActiveFirst ==
  phase = "calling" => \E D \in demoted : ordered = Partition(D)

\* All providers failed (spec 8): the thrown error names every configured
\* provider exactly once, in the order they were tried.
AllFailedNamesEveryProvider ==
  result = "allFailed" /\ phase = "idle" =>
    /\ errors = ordered
    /\ ToSet(errors) = ProviderSet
    /\ Len(errors) = Len(Providers)

(***************************************************************************)
(* Refinement: the router implements RouterFailover.  The providers tried  *)
(* in a call are those its errors array names; between calls none are.     *)
(***************************************************************************)
Failover == INSTANCE RouterFailover
              WITH Providers <- ProviderSet,
                   tried <- IF phase = "calling" THEN ToSet(errors) ELSE {},
                   last <- result

\* Failover contract (spec 8): each call tries distinct providers one at a
\* time and ends served by one not yet failed, or with 'All providers
\* failed' only after every provider failed; checked as a property.
ImplementsRouterFailover == Failover!Spec

=============================================================================

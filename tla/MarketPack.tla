------------------------------ MODULE MarketPack ------------------------------
(***************************************************************************)
(* DailyMarketPackService.collect: the series of the daily report, each    *)
(* from the freshest (US) or the first (CN) provider that has two complete *)
(* daily points at the cutoff.  One thread collects a series; a US series  *)
(* asks its providers in threads of their own, so answers come in any      *)
(* order.                                                                  *)
(*                                                                         *)
(* An instant is three times the UTC day plus a phase: Shanghai closes at  *)
(* phase 1, New York at phase 2.  Instants pass while providers answer.    *)
(***************************************************************************)
EXTENDS Integers, Sequences, FiniteSets, Missing

CONSTANTS
  SeriesRegion,  \* the region of each series: "US" or "CN"
  Identifiers,   \* the providers that each series has an identifier for
  PackCutoffs,   \* the cutoffs that may be asked for
  PackStart, PackEnd  \* the first and the last instant of a run

Series == DOMAIN SeriesRegion

ASSUME PackAssumption == /\ \A s \in Series : SeriesRegion[s] \in {"US", "CN"}
                         /\ {PackStart, PackEnd} \cup PackCutoffs \subseteq Nat

VARIABLES
  packTime,  \* the instant
  cutoff,    \* of the request, and when it was made: None before
  threads,   \* what the thread of each series has
  pack       \* the answer, None before

packVars == <<packTime, cutoff, threads, pack>>

\* The order of _collect_one.
Providers(region) == IF region = "US" THEN <<"fred", "yahoo_finance">>
                     ELSE <<"tencent", "eastmoney", "yahoo_finance">>

\* The instant a trading day ends at; its bar is on offer while it runs.
CompletedAt(region, day) == 3 * day + (IF region = "CN" THEN 1 ELSE 2)
BegunAt(region, day) == CompletedAt(region, day) - 1

\* When the value of a day does not change any more; FRED may revise it until midnight.
FinalAt(provider, region, day) ==
  IF provider = "fred" THEN 3 * (day + 1) ELSE CompletedAt(region, day)

\* What each provider's fetch keeps of the days it was sent.
Complete(provider, region, day, at) ==
  IF provider = "fred" THEN day < at \div 3 ELSE CompletedAt(region, day) <= at

\* A response: the days it has values for, {} when it fails.  Every day may be missing.
Responses(region) == SUBSET {d \in 0 .. PackEnd \div 3 : BegunAt(region, d) <= packTime}

\* _last_two: the two latest complete days, or an error.
LastTwo(provider, region, days) ==
  LET complete == {d \in days : Complete(provider, region, d, cutoff.at)} IN
    {d \in complete : Cardinality({e \in complete : e > d}) < 2}

\* fetch: Yahoo asks a second host when the first fails or has too little.
Fetched(provider, region, first, second) ==
  LET one == LastTwo(provider, region, first)
      two == LastTwo(provider, region, second)
      days == IF provider = "yahoo_finance" /\ Cardinality(one) < 2 THEN two ELSE one
  IN IF Cardinality(days) < 2 THEN None
     ELSE [provider |-> provider, days |-> days,
           asOf |-> CHOOSE d \in days : \A e \in days : e <= d,
           final |-> \A d \in days : FinalAt(provider, region, d) <= packTime]

NewThread(s) ==
  [attempts |-> [p \in {Providers(SeriesRegion[s])[i] : i \in DOMAIN Providers(SeriesRegion[s])} |->
                   IF p \in Identifiers[s] THEN "open" ELSE "not_supported"],
   found |-> <<>>,  \* the candidates in the order they came in
   done |-> FALSE]

PackInit ==
  /\ packTime = PackStart
  /\ cutoff = None
  /\ threads = [s \in Series |-> NewThread(s)]
  /\ pack = None

PackPass ==
  /\ packTime < PackEnd
  /\ packTime' = packTime + 1
  /\ UNCHANGED <<cutoff, threads, pack>>

\* main: the cutoff is any instant, of the past or not.
Collect(at) ==
  /\ cutoff = None
  /\ cutoff' = [at |-> at, asked |-> packTime]
  /\ UNCHANGED <<packTime, threads, pack>>

Pending(s, p) == /\ cutoff # None /\ ~threads[s].done
              /\ p \in DOMAIN threads[s].attempts /\ threads[s].attempts[p] = "open"

Note(s, p, candidate) ==
  /\ threads' = [threads EXCEPT ![s].attempts[p] = IF candidate = None THEN "failed" ELSE "ok",
                                ![s].found = IF candidate = None THEN @ ELSE Append(@, candidate)]
  /\ UNCHANGED <<packTime, cutoff, pack>>

\* _collect_freshest: the providers answer in any order.
FetchAny(s, p, first, second) ==
  /\ SeriesRegion[s] = "US" /\ Pending(s, p)
  /\ Note(s, p, Fetched(p, "US", first, second))

\* _collect_first: the next provider is asked when those before it failed.
FetchNext(s, p, first, second) ==
  /\ SeriesRegion[s] = "CN" /\ Pending(s, p)
  /\ threads[s].found = <<>>
  /\ \A i, j \in DOMAIN Providers("CN") :
       i < j /\ Providers("CN")[j] = p => threads[s].attempts[Providers("CN")[i]] # "open"
  /\ Note(s, p, Fetched(p, "CN", first, second))

Priority(s, p) == CHOOSE i \in DOMAIN Providers(SeriesRegion[s]) : Providers(SeriesRegion[s])[i] = p

\* Mutant: of equally fresh candidates the first to come in is taken.
Chosen_FirstIn(s, found) ==
  found[CHOOSE i \in DOMAIN found :
          \A j \in DOMAIN found : \/ found[i].asOf > found[j].asOf
                                  \/ found[i].asOf = found[j].asOf /\ i <= j]

\* The freshest candidate, by the providers' order when equally fresh.
Chosen(s, found) ==
  found[CHOOSE i \in DOMAIN found :
          \A j \in DOMAIN found :
             \/ found[i].asOf > found[j].asOf
             \/ /\ found[i].asOf = found[j].asOf
                /\ Priority(s, found[i].provider) <= Priority(s, found[j].provider)]

\* The thread of a series ends: a CN series at its first candidate.
EndThread(s) ==
  /\ cutoff # None /\ ~threads[s].done
  /\ \/ \A p \in DOMAIN threads[s].attempts : threads[s].attempts[p] # "open"
     \/ SeriesRegion[s] = "CN" /\ threads[s].found # <<>>
  /\ threads' = [threads EXCEPT ![s].done = TRUE]
  /\ UNCHANGED <<packTime, cutoff, pack>>

\* collect ends: a series without a candidate raised MarketSeriesUnavailable.
AnswerPack ==
  /\ pack = None /\ cutoff # None
  /\ \A s \in Series : threads[s].done
  /\ LET good == {s \in Series : threads[s].found # <<>>} IN
       pack' = [markets |-> [s \in good |-> Chosen(s, threads[s].found)],
                failures |-> Series \ good,
                status |-> IF good = Series THEN "ok" ELSE IF good # {} THEN "partial" ELSE "failed"]
  /\ UNCHANGED <<packTime, cutoff, threads>>

PackNext ==
  \/ PackPass
  \/ \E at \in PackCutoffs : Collect(at)
  \/ \E s \in Series : \/ \E p \in Identifiers[s], first, second \in Responses(SeriesRegion[s]) :
                             \/ FetchAny(s, p, first, second)
                             \/ FetchNext(s, p, first, second)
                       \/ EndThread(s)
  \/ AnswerPack

PackSpec == PackInit /\ [][PackNext]_packVars
-----------------------------------------------------------------------------
(* Properties. *)

\* Both closes of an item are of days that had ended at the cutoff, and no provider may
\* still change them, unless the cutoff lies in the future of the request: a cutoff is
\* not compared with the clock, and a running bar then passes for a close.
ClosesAreFinal ==
  \A s \in DOMAIN pack.markets :
    /\ \A d \in pack.markets[s].days : CompletedAt(SeriesRegion[s], d) <= cutoff.at
    /\ cutoff.at <= cutoff.asked => pack.markets[s].final

\* What an item shows does not depend on the order its providers answered in: nobody
\* has something fresher, and an equally fresh one comes later in the policy.
ItemsFollowPolicy ==
  \A s \in DOMAIN pack.markets :
    LET item == pack.markets[s]
        found == threads[s].found
    IN /\ \A i \in DOMAIN found :
            \/ found[i].asOf < item.asOf
            \/ found[i].asOf = item.asOf /\ Priority(s, found[i].provider) >= Priority(s, item.provider)
       /\ SeriesRegion[s] = "CN" =>
            \A p \in DOMAIN threads[s].attempts :
              Priority(s, p) < Priority(s, item.provider) => threads[s].attempts[p] \in {"failed", "not_supported"}

\* The pack tells what the providers had, whatever order the threads end in: closes that
\* are final, by the policy, and a failure only where no provider had two closes.
\* (_collect_freshest, _collect_first, collect)
PackTold ==
  pack # None =>
    /\ ClosesAreFinal
    /\ ItemsFollowPolicy
    /\ \A s \in pack.failures : \A p \in DOMAIN threads[s].attempts : threads[s].attempts[p] # "ok"
=============================================================================

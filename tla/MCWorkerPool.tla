---------------------------- MODULE MCWorkerPool ----------------------------
(* The releases that TLC deploys. *)
EXTENDS WorkerPool

NoExtra == [absent |-> TRUE]

Release(django, extra, tasks, crons) ==
  [django |-> django, extra |-> extra, tasks |-> tasks, crons |-> crons]

Workers(counts) == [WORKERS |-> counts]

(* No counts, some, a queue with none; a file with counts of its own or not. *)
Djangos == {[ATOMIC_JOBS |-> FALSE], Workers(<<2, 3>>), Workers(<<1, 0>>)}
Extras  == {NoExtra, Workers(<<2>>), [ENABLE_PROMETHEUS |-> TRUE]}

Olds == {Release(d, e, T, C) : d \in Djangos, e \in Extras, T \in {{3}}, C \in {{}, {2}}}

(* The new release is the old one, adds a queue at the end or at the        *)
(* beginning, or drops all that was configured.                             *)
PoolDeployments ==
  UNION {{<<r, r>>,
          <<r, Release(r.django, r.extra, r.tasks, {2, 4})>>,
          <<r, Release(r.django, r.extra, {1, 3, 4}, r.crons)>>,
          <<r, Release([ATOMIC_JOBS |-> FALSE], NoExtra, r.tasks, {})>>} : r \in Olds}

(* A file that says something about metrics. *)
MetricsDeployments ==
  {<<r, r>> : r \in {Release(Workers(<<1>>), [ENABLE_PROMETHEUS |-> b], {}, {}) : b \in BOOLEAN}}
=============================================================================

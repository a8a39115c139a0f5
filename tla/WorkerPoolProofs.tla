-------------------------- MODULE WorkerPoolProofs --------------------------
(***************************************************************************)
(* How the machines share the workers, for pools of every size and every   *)
(* pair of releases.                                                       *)
(***************************************************************************)
EXTENDS WorkerPool, FiniteSetTheorems, TLAPS

(* A dict of counts. *)
IsCounts(w) ==
  /\ IsFiniteSet(DOMAIN w) /\ DOMAIN w \subseteq Nat \ {0}
  /\ w \in [DOMAIN w -> Nat]

-----------------------------------------------------------------------------
(* Settings: where a name is found, and what contributing queues does.      *)
LEMMA TopIs ==
  ASSUME NEW ls, NEW n \in Nat, DOMAIN ls = 1..n, NEW name, NEW i \in 1..n,
         name \in DOMAIN ls[i],
         \A k \in 1..n : k > i => name \notin DOMAIN ls[k]
  PROVE  Top(ls, name) = i
<1> DEFINE Found(k) == /\ k \in DOMAIN ls /\ name \in DOMAIN ls[k]
                       /\ \A l \in DOMAIN ls : l > k => name \notin DOMAIN ls[l]
<1>1. Found(i)
  OBVIOUS
<1>2. \A k : Found(k) => k = i
  <2>1. SUFFICES ASSUME NEW k, Found(k)
                 PROVE  k = i
    OBVIOUS
  <2>2. ~ (k > i) /\ ~ (i > k)
    BY <2>1, <1>1
  <2>3. k \in 1..n
    BY <2>1
  <2> QED
    BY <2>2, <2>3
<1>3. Top(ls, name) = CHOOSE k : Found(k)
  BY Zenon DEF Top
<1> HIDE DEF Found
<1> QED
  BY <1>1, <1>2, <1>3

(* The settings that a master may have: two layers or three. *)
Layered(l) ==
  /\ l = <<l[1], l[2]>> \/ l = <<l[1], l[2], l[3]>>
  /\ "WORKERS" \in DOMAIN l[1]

Workers(l) == Setting(l, "WORKERS")

LEMMA LayeredTop ==
  ASSUME NEW l, Layered(l)
  PROVE  \E n \in 2..3 :
           /\ DOMAIN l = 1..n /\ Len(l) = n
           /\ \E i \in 1..n :
                /\ "WORKERS" \in DOMAIN l[i]
                /\ \A k \in 1..n : k > i => "WORKERS" \notin DOMAIN l[k]
                /\ Top(l, "WORKERS") = i
<1>1. PICK n \in 2..3 : DOMAIN l = 1..n /\ Len(l) = n
  <2>1. CASE l = <<l[1], l[2]>>
    <3>1. DOMAIN <<l[1], l[2]>> = 1..2 /\ Len(<<l[1], l[2]>>) = 2
      OBVIOUS
    <3> QED
      BY <2>1, <3>1
  <2>2. CASE l = <<l[1], l[2], l[3]>>
    <3>1. DOMAIN <<l[1], l[2], l[3]>> = 1..3 /\ Len(<<l[1], l[2], l[3]>>) = 3
      OBVIOUS
    <3> QED
      BY <2>2, <3>1
  <2> QED
    BY <2>1, <2>2 DEF Layered
<1>2. PICK i \in 1..n : /\ "WORKERS" \in DOMAIN l[i]
                        /\ \A k \in 1..n : k > i => "WORKERS" \notin DOMAIN l[k]
  <2>1. "WORKERS" \in DOMAIN l[1] /\ (n = 2 \/ n = 3)
    BY DEF Layered
  <2>2. CASE n = 2
    BY <2>1, <2>2
  <2>3. CASE n = 3
    BY <2>1, <2>3
  <2> QED
    BY <2>1, <2>2, <2>3
<1>3. Top(l, "WORKERS") = i
  BY <1>1, <1>2, TopIs
<1> QED
  BY <1>1, <1>2, <1>3

(* Contributing queues changes the counts and nothing that decides which    *)
(* layer they are found in.                                                 *)
LEMMA ContributeAdds ==
  ASSUME NEW l, Layered(l), NEW queues
  PROVE  /\ Layered(Contribute(l, queues)) /\ Len(Contribute(l, queues)) = Len(l)
         /\ Workers(Contribute(l, queues)) = setdefault(Workers(l), queues)
<1> DEFINE c == Contribute(l, queues)
<1>0. PICK n \in 2..3 :
        /\ DOMAIN l = 1..n /\ Len(l) = n
        /\ \E i \in 1..n :
             /\ "WORKERS" \in DOMAIN l[i]
             /\ \A k \in 1..n : k > i => "WORKERS" \notin DOMAIN l[k]
             /\ Top(l, "WORKERS") = i
  BY LayeredTop
<1>1. PICK i \in 1..n :
        /\ DOMAIN l = 1..n /\ Len(l) = n
        /\ "WORKERS" \in DOMAIN l[i]
        /\ \A k \in 1..n : k > i => "WORKERS" \notin DOMAIN l[k]
        /\ Top(l, "WORKERS") = i
  BY <1>0
<1> DEFINE new == [l[i] EXCEPT !["WORKERS"] = setdefault(@, queues)]
<1>2. c = [l EXCEPT ![i] = new]
  BY <1>1 DEF Contribute
<1>3. DOMAIN new = DOMAIN l[i] /\ new["WORKERS"] = setdefault(l[i]["WORKERS"], queues)
  BY <1>1
<1> HIDE DEF new, c
<1>4. DOMAIN c = 1..n /\ c[i] = new /\ \A k \in 1..n : k # i => c[k] = l[k]
  BY <1>1, <1>2
<1>5. \A k \in 1..n : DOMAIN c[k] = DOMAIN l[k]
  BY <1>3, <1>4
<1>6. Top(c, "WORKERS") = i
  BY <1>1, <1>4, <1>5, TopIs
<1>7. Workers(c) = setdefault(Workers(l), queues)
  BY <1>1, <1>3, <1>4, <1>6 DEF Workers, Setting
<1>8. Layered(c) /\ Len(c) = n
  <2>1. c = [k \in 1..n |-> c[k]]
    BY <1>1, <1>2
  <2>2. "WORKERS" \in DOMAIN c[1]
    BY <1>5 DEF Layered
  <2>3. CASE n = 2
    <3>1. c = <<c[1], c[2]>>
      BY <2>1, <2>3
    <3>2. Len(c) = 2
      BY <1>4, <2>3, <3>1
    <3> QED
      BY <2>2, <2>3, <3>1, <3>2 DEF Layered
  <2>4. CASE n = 3
    <3>1. c = <<c[1], c[2], c[3]>>
      BY <2>1, <2>4
    <3>2. Len(c) = 3
      BY <1>4, <2>4, <3>1
    <3> QED
      BY <2>2, <2>4, <3>1, <3>2 DEF Layered
  <2> QED
    BY <2>3, <2>4
<1> QED
  BY <1>1, <1>7, <1>8 DEF c

(* The counts that a layer gives. *)
Given_in(layer) == IF "WORKERS" \in DOMAIN layer THEN layer.WORKERS ELSE NoWorkers

LEMMA DjangoIs ==
  ASSUME NEW r
  PROVE  /\ Layered(Django(r)) /\ Len(Django(r)) = 2
         /\ Workers(Django(r)) = Given_in(r.django)
<1> DEFINE l == Django(r)
           d == r.django
<1>1. l = <<Defaults, d>>
  BY DEF Django
<1> HIDE DEF l, d
<1>2. /\ l[1] = Defaults /\ l[2] = d /\ DOMAIN l = 1..2 /\ Len(l) = 2
      /\ "WORKERS" \in DOMAIN Defaults /\ Defaults["WORKERS"] = NoWorkers
  <2>1. "WORKERS" \in DOMAIN Defaults /\ Defaults["WORKERS"] = NoWorkers
    BY DEF Defaults
  <2> QED
    BY <1>1, <2>1
<1>3. Layered(l)
  BY <1>1, <1>2 DEF Layered
<1>4. Top(l, "WORKERS") = IF "WORKERS" \in DOMAIN d THEN 2 ELSE 1
  <2>1. CASE "WORKERS" \in DOMAIN d
    <3>1. "WORKERS" \in DOMAIN l[2] /\ 2 \in 1..2 /\ \A k \in 1..2 : ~ (k > 2)
      BY <1>2, <2>1
    <3>2. Top(l, "WORKERS") = 2
      BY <1>2, <3>1, TopIs
    <3> QED
      BY <2>1, <3>2
  <2>2. CASE "WORKERS" \notin DOMAIN d
    <3>1. "WORKERS" \in DOMAIN l[1] /\ 1 \in 1..2
          /\ \A k \in 1..2 : k > 1 => "WORKERS" \notin DOMAIN l[k]
      BY <1>2, <2>2
    <3>2. Top(l, "WORKERS") = 1
      BY <1>2, <3>1, TopIs
    <3> QED
      BY <2>2, <3>2
  <2> QED
    BY <2>1, <2>2
<1>5. Workers(l) = Given_in(d)
  BY <1>2, <1>4 DEF Workers, Setting, Given_in
<1> QED
  BY <1>2, <1>3, <1>5 DEF l, d

LEMMA AppendToTwo ==
  ASSUME NEW x, NEW y, NEW e
  PROVE  Append(<<x, y>>, e) = <<x, y, e>>
<1> DEFINE S == {x, y, e}
           a == Append(<<x, y>>, e)
<1>1. <<x, y>> \in Seq(S) /\ e \in S
  OBVIOUS
<1>2. a \in Seq(S) /\ Len(a) = 3 /\ a[1] = x /\ a[2] = y /\ a[3] = e
  BY <1>1
<1>3. DOMAIN a = 1..3 /\ DOMAIN <<x, y, e>> = 1..3 /\ <<x, y, e>> \in Seq(S)
  BY <1>2
<1> HIDE DEF a, S
<1>4. a = [k \in 1..3 |-> a[k]]
  BY <1>2
<1>5. a = <<x, y, e>>
  BY <1>2, <1>3, <1>4
<1> QED
  BY <1>5 DEF a

LEMMA AddIs ==
  ASSUME NEW l, Layered(l), Len(l) = 2, NEW e
  PROVE  /\ Layered(add_layer(l, e)) /\ Len(add_layer(l, e)) = 3
         /\ Workers(add_layer(l, e)) = IF "WORKERS" \in DOMAIN e THEN e.WORKERS ELSE Workers(l)
<1> DEFINE a == add_layer(l, e)
<1>1. l = <<l[1], l[2]>> /\ DOMAIN l = 1..2 /\ "WORKERS" \in DOMAIN l[1]
  <2>1. Len(<<l[1], l[2], l[3]>>) = 3 /\ DOMAIN <<l[1], l[2]>> = 1..2
    OBVIOUS
  <2>2. l = <<l[1], l[2]>> /\ "WORKERS" \in DOMAIN l[1]
    BY <2>1 DEF Layered
  <2> QED
    BY <2>1, <2>2
<1>2. a = <<l[1], l[2], e>>
  <2>1. Append(<<l[1], l[2]>>, e) = <<l[1], l[2], e>>
    BY AppendToTwo
  <2> QED
    BY <1>1, <2>1 DEF add_layer
<1> HIDE DEF a
<1>3. a[1] = l[1] /\ a[2] = l[2] /\ a[3] = e /\ DOMAIN a = 1..3 /\ Len(a) = 3
  BY <1>2
<1>4. Layered(a)
  BY <1>1, <1>2, <1>3 DEF Layered
<1>5. CASE "WORKERS" \in DOMAIN e
  <2>1. "WORKERS" \in DOMAIN a[3] /\ 3 \in 1..3 /\ \A k \in 1..3 : k > 3 => "WORKERS" \notin DOMAIN a[k]
    BY <1>3, <1>5
  <2>2. Top(a, "WORKERS") = 3
    <3>1. 3 \in Nat /\ DOMAIN a = 1..3
      BY <1>3
    <3> QED
      BY <2>1, <3>1, TopIs
  <2> QED
    BY <1>3, <1>4, <1>5, <2>2 DEF Workers, Setting, a
<1>6. CASE "WORKERS" \notin DOMAIN e
  <2>1. PICK i \in 1..2 :
          /\ "WORKERS" \in DOMAIN l[i]
          /\ \A k \in 1..2 : k > i => "WORKERS" \notin DOMAIN l[k]
    BY <1>1
  <2>2. /\ i \in 1..3 /\ a[i] = l[i] /\ "WORKERS" \in DOMAIN a[i]
        /\ \A k \in 1..3 : k > i => "WORKERS" \notin DOMAIN a[k]
    BY <1>3, <1>6, <2>1
  <2>3. Top(l, "WORKERS") = i
    BY <1>1, <2>1, TopIs
  <2>4. Top(a, "WORKERS") = i
    BY <1>3, <2>2, TopIs
  <2> QED
    BY <1>3, <1>4, <1>6, <2>2, <2>3, <2>4 DEF Workers, Setting, a
<1> QED
  BY <1>5, <1>6

LEMMA CountsKept ==
  ASSUME NEW w, IsCounts(w), NEW queues, IsFiniteSet(queues), queues \subseteq Nat \ {0}
  PROVE  IsCounts(setdefault(w, queues))
<1> DEFINE s == setdefault(w, queues)
<1>1. s = [q \in DOMAIN w \cup queues |-> IF q \in DOMAIN w THEN w[q] ELSE 1]
  BY DEF setdefault
<1>2. DOMAIN s = DOMAIN w \cup queues /\ s \in [DOMAIN w \cup queues -> Nat]
  BY <1>1 DEF IsCounts
<1>3. IsFiniteSet(DOMAIN w \cup queues)
  BY FS_Union DEF IsCounts
<1> QED
  BY <1>2, <1>3 DEF IsCounts

-----------------------------------------------------------------------------
(* What a release comes to when everything is loaded. *)
Base(r) == IF r.extra # NoFile /\ "WORKERS" \in DOMAIN r.extra
           THEN r.extra.WORKERS
           ELSE setdefault(Given_in(r.django), r.tasks)
Full(r) == IF exact THEN Base(r) ELSE setdefault(Base(r), r.crons)
All(r)  == AllWorkers(Full(r))

LEMMA WantedIs ==
  ASSUME NEW v
  PROVE  Wanted(v) = IF exact /\ Refused(1) THEN {} ELSE All(releases[v])
<1> DEFINE r == releases[v]
<1>1. Base(r) = IF r.extra # NoFile /\ "WORKERS" \in DOMAIN r.extra
                THEN (IF "WORKERS" \in DOMAIN r.extra THEN r.extra.WORKERS ELSE NoWorkers)
                ELSE setdefault((IF "WORKERS" \in DOMAIN r.django THEN r.django.WORKERS ELSE NoWorkers), r.tasks)
  BY DEF Base, Given_in
<1>2. Wanted(v) = IF exact THEN IF Refused(1) THEN {} ELSE AllWorkers(Base(r))
                           ELSE AllWorkers(setdefault(Base(r), r.crons))
  BY <1>1 DEF Wanted
<1> QED
  BY <1>2 DEF All, Full

LEMMA FullCounts ==
  ASSUME releases \in Deployments, NEW v \in {1, 2}
  PROVE  IsCounts(Full(releases[v]))
<1> DEFINE r == releases[v]
<1>1. /\ IsFiniteSet(r.tasks) /\ r.tasks \subseteq Nat \ {0}
      /\ IsFiniteSet(r.crons) /\ r.crons \subseteq Nat \ {0}
      /\ "WORKERS" \in DOMAIN r.django => IsCounts(r.django.WORKERS)
      /\ r.extra # NoFile /\ "WORKERS" \in DOMAIN r.extra => IsCounts(r.extra.WORKERS)
  BY WorkerPoolAssumption DEF IsCounts
<1> HIDE DEF r
<1>2. IsCounts(Given_in(r.django))
  <2>1. IsCounts(NoWorkers)
    <3>1. DOMAIN NoWorkers = {} /\ NoWorkers \in [{} -> Nat]
      BY DEF NoWorkers
    <3> QED
      BY <3>1, FS_EmptySet DEF IsCounts
  <2> QED
    BY <1>1, <2>1 DEF Given_in
<1>3. IsCounts(setdefault(Given_in(r.django), r.tasks))
  BY <1>1, <1>2, CountsKept
<1>4. IsCounts(Base(r))
  BY <1>1, <1>3 DEF Base
<1>5. IsCounts(setdefault(Base(r), r.crons))
  BY <1>1, <1>4, CountsKept
<1> QED
  BY <1>4, <1>5 DEF Full, r

-----------------------------------------------------------------------------
(* The inductive invariant: how far the settings of a master have come, and *)
(* that its workers are its share of those that its release asks for.       *)
Share(m) == {x \in All(Loaded(m)) : exact \/ Mine(m, x, All(Loaded(m)))}

MasterOK(m) ==
  /\ Layered(layers[m])
  /\ phase[m] \in {"import", "handle"} => Len(layers[m]) = 2
  /\ phase[m] = "import" => Workers(layers[m]) = Given_in(Loaded(m).django)
  /\ phase[m] = "handle" =>
       Workers(layers[m]) = setdefault(Given_in(Loaded(m).django), Loaded(m).tasks)
  /\ phase[m] = "configure" => Workers(layers[m]) = Base(Loaded(m))
  /\ phase[m] = "enumerate" => Workers(layers[m]) = Full(Loaded(m))
  /\ phase[m] \in {"configure", "enumerate", "run"} => ~Refused(m)
  /\ phase[m] = "refused" => Refused(m)
  /\ worker_names[m] = IF phase[m] = "run" THEN Share(m) ELSE {}

Phases   == {"import", "handle", "configure", "enumerate", "run", "refused"}
ChildPCs == {"none", "imported", "ready", "served", "dead"}

ChildOK(m) ==
  /\ DOMAIN child[m] = {"pc", "layers", "job_duration", "atomic"}
  /\ child[m].pc \in ChildPCs
  /\ child[m] # Gone => phase[m] = "run" /\ worker_names[m] # {}

PoolShape ==
  /\ releases \in Deployments /\ exact \in BOOLEAN /\ only_queue \in OnlyQueues
  /\ release \in [Masters -> {1, 2}] /\ phase \in [Masters -> Phases]
  /\ DOMAIN layers = Masters /\ DOMAIN worker_names = Masters /\ DOMAIN child = Masters

PoolIInv ==
  /\ PoolShape
  /\ \A m \in Masters : MasterOK(m)
  /\ \A m \in Masters : ChildOK(m)

(* A step of one master leaves the others as they were. *)
Elsewhere(m) ==
  \A o \in Masters \ {m} :
    /\ release'[o] = release[o] /\ phase'[o] = phase[o] /\ layers'[o] = layers[o]
    /\ worker_names'[o] = worker_names[o] /\ child'[o] = child[o]

LEMMA OthersStay ==
  ASSUME PoolIInv, NEW m \in Masters, Elsewhere(m), UNCHANGED given, PoolShape',
         MasterOK(m)', ChildOK(m)'
  PROVE  PoolIInv'
<1>1. UNCHANGED <<releases, exact, only_queue>>
  BY DEF given
<1>2. ASSUME NEW o \in Masters, o # m
      PROVE  MasterOK(o)' /\ ChildOK(o)'
  <2>1. /\ release'[o] = release[o] /\ phase'[o] = phase[o] /\ layers'[o] = layers[o]
        /\ worker_names'[o] = worker_names[o] /\ child'[o] = child[o]
        /\ MasterOK(o) /\ ChildOK(o)
    BY <1>2 DEF Elsewhere, PoolIInv
  <2>2. Loaded(o)' = Loaded(o)
    BY <1>1, <2>1 DEF Loaded
  <2>3. Refused(o)' = Refused(o)
    BY <1>1, <2>2 DEF Refused
  <2>4. ASSUME NEW r
        PROVE  Full(r)' = Full(r) /\ All(r)' = All(r) /\ Base(r)' = Base(r)
    BY <1>1 DEF Full, All, AllWorkers, Base, Given_in
  <2>5. Share(o)' = Share(o) /\ Base(Loaded(o))' = Base(Loaded(o)) /\ Full(Loaded(o))' = Full(Loaded(o))
    BY <1>1, <2>2, <2>4 DEF Share, Mine, JobNumber, All, Full, AllWorkers, Base, Given_in
  <2>6. MasterOK(o)'
    BY <2>1, <2>2, <2>3, <2>5 DEF MasterOK, Layered, Workers, Setting
  <2>7. ChildOK(o)'
    BY <2>1 DEF ChildOK
  <2> QED
    BY <2>6, <2>7
<1> QED
  BY <1>2 DEF PoolIInv

(* While the settings are given, what a release comes to stays the same.    *)
LEMMA SameRelease ==
  ASSUME UNCHANGED given, NEW m, UNCHANGED release
  PROVE  /\ Loaded(m)' = Loaded(m) /\ Refused(m)' = Refused(m)
         /\ Base(Loaded(m))' = Base(Loaded(m)) /\ Full(Loaded(m))' = Full(Loaded(m))
         /\ Share(m)' = Share(m)
  BY DEF given, Loaded, Refused, Base, Full, Share, All, AllWorkers, Mine, JobNumber, Given_in

(* The steps of a master that is starting: its phase and its settings. *)
Starting(m, next, l) ==
  /\ phase[m] # "run" /\ next \in Phases \ {"import"}
  /\ phase' = [phase EXCEPT ![m] = next]
  /\ DOMAIN layers' = Masters /\ DOMAIN worker_names' = Masters
  /\ layers'[m] = l /\ worker_names'[m] = IF next = "run" THEN Share(m) ELSE {}
  /\ \A o \in Masters \ {m} : layers'[o] = layers[o] /\ worker_names'[o] = worker_names[o]
  /\ UNCHANGED <<given, release, child>>
  /\ Layered(l)
  /\ next = "handle" =>
       Len(l) = 2 /\ Workers(l) = setdefault(Given_in(Loaded(m).django), Loaded(m).tasks)
  /\ next = "configure" => Workers(l) = Base(Loaded(m))
  /\ next = "enumerate" => Workers(l) = Full(Loaded(m))
  /\ next \in {"configure", "enumerate", "run"} => ~Refused(m)
  /\ next = "refused" => Refused(m)

LEMMA StartingStep ==
  ASSUME PoolIInv, NEW m \in Masters, NEW next, NEW l, Starting(m, next, l)
  PROVE  PoolIInv'
<1> USE DEF Starting
<1>1. PoolShape /\ MasterOK(m) /\ ChildOK(m)
  BY DEF PoolIInv
<1>2. phase'[m] = next /\ layers'[m] = l /\ child'[m] = child[m]
  BY <1>1 DEF PoolShape
<1>3. PoolShape'
  BY <1>1 DEF PoolShape, given
<1>4. Elsewhere(m)
  BY <1>1 DEF PoolShape, Elsewhere
<1>5. /\ Loaded(m)' = Loaded(m) /\ Refused(m)' = Refused(m)
      /\ Base(Loaded(m))' = Base(Loaded(m)) /\ Full(Loaded(m))' = Full(Loaded(m))
      /\ Share(m)' = Share(m)
  BY SameRelease
<1>6. MasterOK(m)'
  <2>1. Layered(layers[m])' /\ Workers(layers[m])' = Workers(l)
    BY <1>2 DEF Layered, Workers, Setting
  <2>2. \/ next # "run" /\ worker_names'[m] = {}
        \/ next = "run" /\ worker_names'[m] = Share(m)'
    BY <1>5
  <2>3. Given_in(Loaded(m).django)' = Given_in(Loaded(m).django) /\ Loaded(m)'.tasks = Loaded(m).tasks
    BY <1>5 DEF Given_in
  <2> QED
    BY <1>2, <1>5, <2>1, <2>2, <2>3 DEF MasterOK, Phases
<1>7. child[m] = Gone
  BY <1>1 DEF ChildOK
<1>8. ChildOK(m)'
  BY <1>1, <1>2, <1>7 DEF ChildOK
<1> QED
  BY <1>3, <1>4, <1>6, <1>8, OthersStay

LEMMA ImportStep ==
  ASSUME PoolIInv, NEW m \in Masters, ImportTasks(m)
  PROVE  PoolIInv'
<1> DEFINE l == Contribute(layers[m], Loaded(m).tasks)
<1>1. PoolShape /\ MasterOK(m) /\ phase[m] = "import"
  BY DEF PoolIInv, ImportTasks
<1>2. /\ phase' = [phase EXCEPT ![m] = "handle"] /\ layers' = [layers EXCEPT ![m] = l]
      /\ UNCHANGED <<given, release, worker_names, child>>
  BY DEF ImportTasks, GoTo
<1>3. /\ Layered(l) /\ Len(l) = 2
      /\ Workers(l) = setdefault(Given_in(Loaded(m).django), Loaded(m).tasks)
  BY <1>1, ContributeAdds DEF MasterOK
<1>4. worker_names'[m] = {}
  BY <1>1, <1>2 DEF MasterOK
<1>5. /\ DOMAIN layers' = Masters /\ DOMAIN worker_names' = Masters /\ layers'[m] = l
      /\ \A o \in Masters \ {m} : layers'[o] = layers[o] /\ worker_names'[o] = worker_names[o]
  BY <1>1, <1>2 DEF PoolShape
<1> HIDE DEF l
<1>9. Starting(m, "handle", l)
  BY <1>1, <1>2, <1>3, <1>4, <1>5 DEF Starting, Phases
<1> QED
  BY <1>9, StartingStep

LEMMA HandleStep ==
  ASSUME PoolIInv, NEW m \in Masters, Handle(m)
  PROVE  PoolIInv'
<1> DEFINE l == IF Loaded(m).extra = NoFile THEN layers[m] ELSE add_layer(layers[m], Loaded(m).extra)
           next == IF Refused(m) THEN "refused" ELSE "configure"
<1>1. PoolShape /\ MasterOK(m) /\ phase[m] = "handle"
  BY DEF PoolIInv, Handle
<1>2. /\ phase' = [phase EXCEPT ![m] = next] /\ layers' = [layers EXCEPT ![m] = l]
      /\ UNCHANGED <<given, release, worker_names, child>>
  BY DEF Handle, GoTo
<1>3. /\ Layered(layers[m]) /\ Len(layers[m]) = 2
      /\ Workers(layers[m]) = setdefault(Given_in(Loaded(m).django), Loaded(m).tasks)
  BY <1>1 DEF MasterOK
<1>4. Layered(l) /\ Workers(l) = Base(Loaded(m))
  <2>1. CASE Loaded(m).extra = NoFile
    BY <1>3, <2>1 DEF Base
  <2>2. CASE Loaded(m).extra # NoFile
    BY <1>3, <2>2, AddIs DEF Base
  <2> QED
    BY <2>1, <2>2
<1>5. worker_names'[m] = {}
  BY <1>1, <1>2 DEF MasterOK
<1>7. /\ DOMAIN layers' = Masters /\ DOMAIN worker_names' = Masters /\ layers'[m] = l
      /\ \A o \in Masters \ {m} : layers'[o] = layers[o] /\ worker_names'[o] = worker_names[o]
  BY <1>1, <1>2 DEF PoolShape
<1>6. next \in {"refused", "configure"} /\ (next = "refused" <=> Refused(m))
  OBVIOUS
<1> HIDE DEF l, next
<1>9. Starting(m, next, l)
  BY <1>1, <1>2, <1>4, <1>5, <1>6, <1>7 DEF Starting, Phases
<1> QED
  BY <1>9, StartingStep

LEMMA ConfigureStep ==
  ASSUME PoolIInv, NEW m \in Masters, ConfigureCron(m)
  PROVE  PoolIInv'
<1> DEFINE l == IF exact THEN layers[m] ELSE Contribute(layers[m], Loaded(m).crons)
<1>1. PoolShape /\ MasterOK(m) /\ phase[m] = "configure"
  BY DEF PoolIInv, ConfigureCron
<1>2. /\ phase' = [phase EXCEPT ![m] = "enumerate"] /\ layers' = [layers EXCEPT ![m] = l]
      /\ UNCHANGED <<given, release, worker_names, child>>
  BY DEF ConfigureCron, GoTo
<1>3. Layered(layers[m]) /\ Workers(layers[m]) = Base(Loaded(m)) /\ ~Refused(m)
  BY <1>1 DEF MasterOK
<1>4. Layered(l) /\ Workers(l) = Full(Loaded(m))
  <2>1. CASE exact
    BY <1>3, <2>1 DEF Full
  <2>2. CASE ~exact
    BY <1>3, <2>2, ContributeAdds DEF Full
  <2> QED
    BY <2>1, <2>2
<1>5. worker_names'[m] = {}
  BY <1>1, <1>2 DEF MasterOK
<1>7. /\ DOMAIN layers' = Masters /\ DOMAIN worker_names' = Masters /\ layers'[m] = l
      /\ \A o \in Masters \ {m} : layers'[o] = layers[o] /\ worker_names'[o] = worker_names[o]
  BY <1>1, <1>2 DEF PoolShape
<1> HIDE DEF l
<1>9. Starting(m, "enumerate", l)
  BY <1>1, <1>2, <1>3, <1>4, <1>5, <1>7 DEF Starting, Phases
<1> QED
  BY <1>9, StartingStep

LEMMA EnumerateStep ==
  ASSUME PoolIInv, NEW m \in Masters, Enumerate(m)
  PROVE  PoolIInv'
<1>1. PoolShape /\ MasterOK(m) /\ phase[m] = "enumerate"
  BY DEF PoolIInv, Enumerate
<1> DEFINE all == AllWorkers(Setting(layers[m], "WORKERS"))
           mine == {x \in all : exact \/ Mine(m, x, all)}
<1>2. /\ phase' = [phase EXCEPT ![m] = "run"] /\ worker_names' = [worker_names EXCEPT ![m] = mine]
      /\ UNCHANGED <<given, release, layers, child>>
  BY DEF Enumerate, GoTo
<1>3. Layered(layers[m]) /\ Workers(layers[m]) = Full(Loaded(m)) /\ ~Refused(m)
  BY <1>1 DEF MasterOK
<1>4. mine = Share(m)
  BY <1>3 DEF Workers, Share, All
<1> HIDE DEF mine
<1>5. /\ DOMAIN layers' = Masters /\ DOMAIN worker_names' = Masters
      /\ layers'[m] = layers[m] /\ worker_names'[m] = Share(m)
      /\ \A o \in Masters \ {m} : layers'[o] = layers[o] /\ worker_names'[o] = worker_names[o]
  BY <1>1, <1>2, <1>4 DEF PoolShape
<1>9. Starting(m, "run", layers[m])
  BY <1>1, <1>2, <1>3, <1>5 DEF Starting, Phases
<1> QED
  BY <1>9, StartingStep

LEMMA RestartStep ==
  ASSUME PoolIInv, NEW m \in Masters, Restart(m)
  PROVE  PoolIInv'
<1>1. PoolShape
  BY DEF PoolIInv
<1>2. /\ release' = [release EXCEPT ![m] = 2] /\ layers' = [layers EXCEPT ![m] = Django(releases[2])]
      /\ worker_names' = [worker_names EXCEPT ![m] = {}] /\ child' = [child EXCEPT ![m] = Gone]
      /\ phase' = [phase EXCEPT ![m] = "import"] /\ UNCHANGED given
  BY DEF Restart, GoTo
<1>3. UNCHANGED <<releases, exact, only_queue>>
  BY <1>2 DEF given
<1>4. /\ release'[m] = 2 /\ layers'[m] = Django(releases[2]) /\ worker_names'[m] = {}
      /\ child'[m] = Gone /\ phase'[m] = "import"
  BY <1>1, <1>2 DEF PoolShape
<1>5. PoolShape'
  BY <1>1, <1>2, <1>3 DEF PoolShape, Phases
<1>6. Elsewhere(m)
  BY <1>1, <1>2 DEF PoolShape, Elsewhere
<1>7. MasterOK(m)'
  <2>1. Loaded(m)' = releases[2]
    BY <1>3, <1>4 DEF Loaded
  <2>2. Layered(layers[m])' /\ Len(layers'[m]) = 2 /\ Workers(layers[m])' = Given_in(Loaded(m)'.django)
    BY <1>4, <2>1, DjangoIs DEF Layered, Workers, Setting
  <2>3. Given_in(Loaded(m).django)' = Given_in(Loaded(m)'.django)
    BY DEF Given_in
  <2> QED
    BY <1>4, <2>2, <2>3 DEF MasterOK
<1>8. ChildOK(m)'
  <2>1. DOMAIN Gone = {"pc", "layers", "job_duration", "atomic"} /\ Gone.pc \in ChildPCs
    BY DEF Gone, ChildPCs
  <2> QED
    BY <1>4, <2>1 DEF ChildOK
<1> QED
  BY <1>2, <1>5, <1>6, <1>7, <1>8, OthersStay

(* The steps of a worker. *)
LEMMA ChildStep ==
  ASSUME PoolIInv, NEW m \in Masters, Spawn(m) \/ ChildHandles(m) \/ ChildServes(m)
  PROVE  PoolIInv'
<1>1. PoolShape /\ MasterOK(m) /\ ChildOK(m)
  BY DEF PoolIInv
<1>2. UNCHANGED <<releases, exact, only_queue, release, phase, layers, worker_names>>
  BY DEF Spawn, ChildHandles, ChildServes, given, master
<1>3. UNCHANGED given /\ UNCHANGED release
  BY <1>2 DEF given
<1>4. MasterOK(m)'
  <2>1. /\ Loaded(m)' = Loaded(m) /\ Refused(m)' = Refused(m)
        /\ Base(Loaded(m))' = Base(Loaded(m)) /\ Full(Loaded(m))' = Full(Loaded(m))
        /\ Share(m)' = Share(m)
    BY <1>3, SameRelease
  <2>2. Layered(layers[m])' = Layered(layers[m]) /\ Workers(layers[m])' = Workers(layers[m])
        /\ Given_in(Loaded(m).django)' = Given_in(Loaded(m).django)
    BY <1>2, <2>1 DEF Layered, Workers, Setting, Given_in
  <2> QED
    BY <1>1, <1>2, <2>1, <2>2 DEF MasterOK
<1>5. phase[m] = "run" /\ worker_names[m] # {}
  <2>1. child[m].pc \in {"imported", "ready"} => child[m] # Gone
    BY DEF Gone
  <2> QED
    BY <1>1, <2>1 DEF Spawn, ChildHandles, ChildServes, ChildOK
<1>6. \E r : /\ child' = [child EXCEPT ![m] = r]
             /\ DOMAIN r = {"pc", "layers", "job_duration", "atomic"} /\ r.pc \in ChildPCs
  <2>1. CASE Spawn(m)
    <3> DEFINE d == Django(Loaded(m))
               r == [pc |-> "imported", layers |-> d,
                     job_duration |-> Setting(d, "ENABLE_PROMETHEUS"), atomic |-> Setting(d, "ATOMIC_JOBS")]
    <3>1. child' = [child EXCEPT ![m] = r]
      BY <2>1 DEF Spawn
    <3>2. DOMAIN r = {"pc", "layers", "job_duration", "atomic"} /\ r.pc \in ChildPCs
      BY DEF ChildPCs
    <3> QED
      BY <3>1, <3>2
  <2>2. CASE ChildHandles(m)
    <3> DEFINE r == [child[m] EXCEPT !.pc = "ready", !.layers = @ \o Given(Loaded(m))]
    <3>1. child' = [child EXCEPT ![m] = r]
      BY <2>2 DEF ChildHandles
    <3>2. DOMAIN r = {"pc", "layers", "job_duration", "atomic"} /\ r.pc \in ChildPCs
      BY <1>1 DEF ChildOK, ChildPCs
    <3> QED
      BY <3>1, <3>2
  <2>3. CASE ChildServes(m)
    <3> DEFINE pc == IF Setting(child[m].layers, "ENABLE_PROMETHEUS") /\ ~child[m].job_duration
                     THEN "dead" ELSE "served"
               r == [child[m] EXCEPT !.pc = pc]
    <3>1. child' = [child EXCEPT ![m] = r]
      BY <2>3 DEF ChildServes
    <3>2. pc \in ChildPCs
      BY DEF ChildPCs
    <3> HIDE DEF pc
    <3>3. DOMAIN r = {"pc", "layers", "job_duration", "atomic"} /\ r.pc \in ChildPCs
      BY <1>1, <3>2 DEF ChildOK
    <3> QED
      BY <3>1, <3>3
  <2> QED
    BY <2>1, <2>2, <2>3
<1>7. PICK r : /\ child' = [child EXCEPT ![m] = r]
               /\ DOMAIN r = {"pc", "layers", "job_duration", "atomic"} /\ r.pc \in ChildPCs
  BY <1>6
<1>8. child'[m] = r /\ DOMAIN child' = Masters /\ \A o \in Masters \ {m} : child'[o] = child[o]
  BY <1>1, <1>7 DEF PoolShape
<1>9. ChildOK(m)'
  BY <1>2, <1>5, <1>7, <1>8 DEF ChildOK
<1>10. PoolShape' /\ Elsewhere(m)
  BY <1>1, <1>2, <1>8 DEF PoolShape, Elsewhere
<1> QED
  BY <1>3, <1>4, <1>9, <1>10, OthersStay

LEMMA PoolInit == Init => PoolIInv
<1> SUFFICES ASSUME Init
             PROVE  PoolIInv
  OBVIOUS
<1>1. PoolShape
  <2>1. releases \in Deployments /\ only_queue \in OnlyQueues /\ DOMAIN layers = Masters
        /\ DOMAIN worker_names = Masters /\ DOMAIN child = Masters
    BY DEF Init
  <2>2. exact \in BOOLEAN
    BY DEF Init
  <2>3. release \in [Masters -> {1, 2}] /\ phase \in [Masters -> Phases]
    BY DEF Init, Phases
  <2> QED
    BY <2>1, <2>2, <2>3 DEF PoolShape
<1>2. ASSUME NEW m \in Masters
      PROVE  MasterOK(m) /\ ChildOK(m)
  <2>1. /\ release[m] = 1 /\ phase[m] = "import" /\ layers[m] = Django(releases[1])
        /\ worker_names[m] = {} /\ child[m] = Gone
    BY <1>2 DEF Init
  <2>2. Loaded(m) = releases[1]
    BY <2>1 DEF Loaded
  <2>3. MasterOK(m)
    BY <2>1, <2>2, DjangoIs DEF MasterOK
  <2>4. ChildOK(m)
    BY <2>1 DEF ChildOK, Gone, ChildPCs
  <2> QED
    BY <2>3, <2>4
<1> QED
  BY <1>1, <1>2 DEF PoolIInv

LEMMA PoolStep == PoolIInv /\ [Next]_vars => PoolIInv'
<1> SUFFICES ASSUME PoolIInv, [Next]_vars
             PROVE  PoolIInv'
  OBVIOUS
<1>1. CASE Next
  BY <1>1, ImportStep, HandleStep, ConfigureStep, EnumerateStep, RestartStep, ChildStep DEF Next
<1>2. CASE UNCHANGED vars
  <2>1. UNCHANGED <<releases, exact, only_queue, release, phase, layers, worker_names, child>>
    BY <1>2 DEF vars, given, master
  <2>2. ASSUME NEW m \in Masters
        PROVE  MasterOK(m)' /\ ChildOK(m)'
    <3>1. UNCHANGED given /\ UNCHANGED release /\ MasterOK(m) /\ ChildOK(m)
      BY <2>1 DEF given, PoolIInv
    <3>2. /\ Loaded(m)' = Loaded(m) /\ Refused(m)' = Refused(m)
          /\ Base(Loaded(m))' = Base(Loaded(m)) /\ Full(Loaded(m))' = Full(Loaded(m))
          /\ Share(m)' = Share(m)
      BY <3>1, SameRelease
    <3>3. Layered(layers[m])' = Layered(layers[m]) /\ Workers(layers[m])' = Workers(layers[m])
          /\ Given_in(Loaded(m).django)' = Given_in(Loaded(m).django)
      BY <2>1, <3>2 DEF Layered, Workers, Setting, Given_in
    <3>4. MasterOK(m)'
      BY <2>1, <3>1, <3>2, <3>3 DEF MasterOK
    <3>5. ChildOK(m)'
      BY <2>1, <3>1 DEF ChildOK
    <3> QED
      BY <3>4, <3>5
  <2>3. PoolShape'
    BY <2>1 DEF PoolIInv, PoolShape
  <2> QED
    BY <2>2, <2>3 DEF PoolIInv
<1> QED
  BY <1>1, <1>2

(* The inductive invariant holds throughout. *)
THEOREM PoolInductive == Spec => []PoolIInv
<1> QED
  BY PoolInit, PoolStep, PTL DEF Spec

-----------------------------------------------------------------------------
(* The workers that counts ask for, and their numbers. *)
LEMMA AllWorkersAre ==
  ASSUME NEW w, IsCounts(w)
  PROVE  /\ IsFiniteSet(AllWorkers(w))
         /\ AllWorkers(w) \subseteq (Nat \ {0}) \X (Nat \ {0})
         /\ \A q, k : <<q, k>> \in AllWorkers(w) <=>
              q \in DOMAIN w /\ only_queue \in {NoQueue, q} /\ k \in 1..w[q]
<1> DEFINE Q == {p \in DOMAIN w : only_queue \in {NoQueue, p}}
           f == [q \in Q |-> {q} \X (1..w[q])]
           F == {{q} \X (1..w[q]) : q \in Q}
<1>1. AllWorkers(w) = UNION F
  BY DEF AllWorkers
<1>2. IsFiniteSet(Q) /\ \A q \in Q : q \in Nat \ {0} /\ w[q] \in Nat
  <2>1. Q \in SUBSET DOMAIN w
    OBVIOUS
  <2> QED
    BY <2>1, FS_Subset DEF IsCounts
<1>3. \A q \in Q : IsFiniteSet({q} \X (1..w[q]))
  <2>1. SUFFICES ASSUME NEW q \in Q
                 PROVE  IsFiniteSet({q} \X (1..w[q]))
    OBVIOUS
  <2>2. IsFiniteSet({q}) /\ IsFiniteSet(1..w[q])
    <3>1. w[q] \in Int /\ 1 \in Int
      BY <1>2
    <3> QED
      BY <3>1, FS_Singleton, FS_Interval
  <2> QED
    BY <2>2, FS_Product
<1>4. IsFiniteSet(F)
  <2>1. f \in Surjection(Q, F)
    BY DEF Surjection
  <2> HIDE DEF f, F, Q
  <2> QED
    BY <1>2, <2>1, FS_Surjection
<1>5. IsFiniteSet(UNION F)
  BY <1>3, <1>4, FS_UNION
<1>6. \A q, k : <<q, k>> \in UNION F <=> q \in Q /\ k \in 1..w[q]
  OBVIOUS
<1>7. UNION F \subseteq (Nat \ {0}) \X (Nat \ {0})
  <2>1. \A q \in Q : \A k \in 1..w[q] : q \in Nat \ {0} /\ k \in Nat \ {0}
    BY <1>2
  <2> QED
    BY <2>1
<1> QED
  BY <1>1, <1>5, <1>6, <1>7

(* Each worker is dealt to one machine, of the pool. *)
LEMMA DealtToOne ==
  ASSUME NEW all, IsFiniteSet(all), NEW x
  PROVE  /\ JobNumber(x, all) \in Nat
         /\ \E m \in Machines : Mine(m, x, all)
         /\ \A m : Mine(m, x, all) => m \in Machines
         /\ \A m, o : Mine(m, x, all) /\ Mine(o, x, all) => m = o
<1> DEFINE n == JobNumber(x, all)
<1>1. n \in Nat
  <2>1. {y \in all : y[1] < x[1] \/ (y[1] = x[1] /\ y[2] <= x[2])} \in SUBSET all
    OBVIOUS
  <2> QED
    BY <2>1, FS_Subset, FS_CardinalityType DEF JobNumber
<1> HIDE DEF n
<1>2. MachineCount \in Nat \ {0}
  BY WorkerPoolAssumption
<1>3. (n % MachineCount) + 1 \in 1..MachineCount
  BY <1>1, <1>2
<1>4. \A m : Mine(m, x, all) <=> (n % MachineCount) + 1 = m
  BY DEF Mine, n
<1> QED
  BY <1>1, <1>3, <1>4 DEF n, Machines

(* What a master runs. *)
LEMMA Runs ==
  ASSUME PoolIInv, NEW m \in Masters
  PROVE  LET all == All(Loaded(m)) IN
         /\ IsFiniteSet(all) /\ all \subseteq (Nat \ {0}) \X (Nat \ {0})
         /\ \A x \in worker_names[m] : /\ phase[m] = "run" /\ ~Refused(m) /\ x \in all
                                       /\ exact \/ Mine(m, x, all)
         /\ phase[m] = "run" => \A x \in all : exact \/ Mine(m, x, all) => x \in worker_names[m]
         /\ phase[m] = "run" => ~Refused(m)
<1>1. IsCounts(Full(Loaded(m)))
  <2>1. releases \in Deployments /\ release[m] \in {1, 2}
    BY DEF PoolIInv, PoolShape
  <2> QED
    BY <2>1, FullCounts DEF Loaded
<1>2. MasterOK(m)
  BY DEF PoolIInv
<1> QED
  BY <1>1, <1>2, AllWorkersAre DEF All, MasterOK, Share

(* The state of the pool keeps its type. *)
THEOREM WorkerPoolTypeCorrect == Spec => []TypeOK
<1>1. ASSUME PoolIInv
      PROVE  TypeOK
  <2>1. PoolShape
    BY <1>1 DEF PoolIInv
  <2>2. ASSUME NEW m \in Masters
        PROVE  /\ Len(layers[m]) \in 2..3
               /\ IsFiniteSet(worker_names[m]) /\ worker_names[m] \subseteq (Nat \ {0}) \X (Nat \ {0})
               /\ child[m].pc \in ChildPCs
               /\ child[m] # Gone => phase[m] = "run" /\ worker_names[m] # {}
    <3>1. MasterOK(m) /\ ChildOK(m)
      BY <1>1 DEF PoolIInv
    <3>2. Len(layers[m]) \in 2..3
      BY <3>1, LayeredTop DEF MasterOK
    <3>3. worker_names[m] \in SUBSET All(Loaded(m)) /\ IsFiniteSet(All(Loaded(m)))
          /\ All(Loaded(m)) \subseteq (Nat \ {0}) \X (Nat \ {0})
      BY <1>1, Runs
    <3>4. IsFiniteSet(worker_names[m])
      BY <3>3, FS_Subset
    <3> QED
      BY <3>1, <3>2, <3>3, <3>4 DEF ChildOK
  <2> QED
    BY <2>1, <2>2 DEF TypeOK, PoolShape, Phases, ChildPCs
<1> QED
  BY <1>1, PoolInductive, PTL

(* No two machines of a pool that is up with one release run the same       *)
(* worker, and together they run those that the release asks for.           *)
LEMMA UpRunsWanted ==
  ASSUME PoolIInv, NEW v \in {1, 2}, Up(v)
  PROVE  /\ UNION {worker_names[m] : m \in Masters} = Wanted(v)
         /\ \A m, o \in Masters : m # o => worker_names[m] \cap worker_names[o] = {}
<1>1. /\ MachineCount \in Nat \ {0} /\ Machines \subseteq Masters /\ 1 \in Machines
      /\ Masters \subseteq Int
  BY WorkerPoolAssumption DEF Machines
<1>2. \A m \in Masters : Loaded(m) = releases[v] /\ phase[m] \in {"run", "refused"}
  BY DEF Up, Loaded
<1>3. MasterOK(1)
  BY <1>1 DEF PoolIInv
<1> DEFINE all == All(releases[v])
<1>4. /\ IsFiniteSet(all)
      /\ \A m \in Masters :
           /\ \A x \in worker_names[m] : /\ phase[m] = "run" /\ ~Refused(m) /\ x \in all
                                         /\ exact \/ Mine(m, x, all)
           /\ phase[m] = "run" => \A x \in all : exact \/ Mine(m, x, all) => x \in worker_names[m]
           /\ phase[m] = "run" => ~Refused(m)
  BY <1>1, <1>2, Runs
<1>5. Wanted(v) = IF exact /\ Refused(1) THEN {} ELSE all
  BY WantedIs
<1>6. \A m \in Masters : phase[m] = "refused" => Refused(m)
  BY DEF PoolIInv, MasterOK
<1> HIDE DEF all
<1>7. CASE exact
  <2>1. \A m \in Masters : m # 1 => Refused(m)
    BY <1>7 DEF Refused
  <2>2. \A m \in Masters : m # 1 => worker_names[m] = {}
    BY <1>4, <2>1
  <2>3. \A m, o \in Masters : m # o => worker_names[m] \cap worker_names[o] = {}
    BY <2>2
  <2>4. 1 \in Masters
    BY <1>1
  <2>5. UNION {worker_names[m] : m \in Masters} = worker_names[1]
    BY <2>2, <2>4
  <2>6. CASE Refused(1)
    <3>1. worker_names[1] = {}
      BY <1>4, <2>4, <2>6
    <3> QED
      BY <1>5, <1>7, <2>3, <2>5, <2>6, <3>1
  <2>7. CASE ~Refused(1)
    <3>1. phase[1] = "run"
      BY <1>2, <1>6, <2>4, <2>7
    <3>2. worker_names[1] = all
      BY <1>4, <1>7, <2>4, <3>1
    <3> QED
      BY <1>5, <2>3, <2>5, <2>7, <3>2
  <2> QED
    BY <2>6, <2>7
<1>8. CASE ~exact
  <2>1. \A m \in Machines : ~Refused(m) /\ m \in Masters
    <3>1. \A m \in 1..MachineCount : ~ (m > MachineCount)
      BY <1>1
    <3> QED
      BY <1>1, <1>8, <3>1 DEF Refused, Machines
  <2>2. \A m \in Machines : phase[m] = "run"
    BY <1>2, <1>6, <2>1
  <2>3. \A m, o \in Masters : m # o => worker_names[m] \cap worker_names[o] = {}
    BY <1>4, <1>8, DealtToOne
  <2>4. ASSUME NEW x \in all
        PROVE  \E m \in Masters : x \in worker_names[m]
    <3>1. PICK m \in Machines : Mine(m, x, all)
      BY <1>4, DealtToOne
    <3> QED
      BY <1>4, <2>1, <2>2, <3>1
  <2>5. UNION {worker_names[m] : m \in Masters} = all
    BY <1>4, <2>4
  <2> QED
    BY <1>5, <1>8, <2>3, <2>5
<1> QED
  BY <1>7, <1>8

(* Every worker that is wanted is run, by one machine (README.md:145-150).  *)
THEOREM EveryWorkerRunsOnce == Spec => []EachWorkerOnce
<1>1. PoolIInv => EachWorkerOnce
  BY UpRunsWanted DEF EachWorkerOnce
<1> QED
  BY <1>1, PoolInductive, PTL

(* A new release can be rolled out when the workers it keeps have the same  *)
(* places: none is run by two machines on the way.                          *)
THEOREM RollingIsSafe == Spec => []SafeToRoll
<1>1. ASSUME PoolIInv, \A x \in Wanted(1) \cap Wanted(2) :
                         JobNumber(x, Wanted(1)) = JobNumber(x, Wanted(2)),
             NEW m \in Masters, NEW o \in Masters, m # o,
             NEW x \in worker_names[m] \cap worker_names[o]
      PROVE  FALSE
  <2>1. /\ ~Refused(m) /\ ~Refused(o)
        /\ x \in All(Loaded(m)) /\ (exact \/ Mine(m, x, All(Loaded(m))))
        /\ x \in All(Loaded(o)) /\ (exact \/ Mine(o, x, All(Loaded(o))))
        /\ IsFiniteSet(All(Loaded(m)))
    BY <1>1, Runs
  <2>2. ~exact
    BY <1>1, <2>1 DEF Refused
  <2>3. release[m] \in {1, 2} /\ release[o] \in {1, 2}
    BY <1>1 DEF PoolIInv, PoolShape
  <2>4. \A v \in {1, 2} : Wanted(v) = All(releases[v])
    BY <2>2, WantedIs
  <2>5. All(Loaded(m)) = Wanted(release[m]) /\ All(Loaded(o)) = Wanted(release[o])
    BY <2>3, <2>4 DEF Loaded
  <2>6. JobNumber(x, All(Loaded(m))) = JobNumber(x, All(Loaded(o)))
    <3>1. CASE release[m] = release[o]
      BY <2>5, <3>1
    <3>2. CASE release[m] # release[o]
      <4>1. x \in Wanted(1) \cap Wanted(2)
        BY <2>1, <2>3, <2>5, <3>2
      <4>2. JobNumber(x, Wanted(1)) = JobNumber(x, Wanted(2))
        BY <1>1, <4>1
      <4> QED
        BY <2>3, <2>5, <4>2
    <3> QED
      BY <3>1, <3>2
  <2>7. Mine(o, x, All(Loaded(m)))
    BY <2>1, <2>2, <2>6 DEF Mine
  <2> QED
    BY <1>1, <2>1, <2>2, <2>7, DealtToOne
<1>2. PoolIInv => SafeToRoll
  BY <1>1 DEF SafeToRoll
<1> QED
  BY <1>2, PoolInductive, PTL

(* Cron is run by one machine at most, and what it enqueues is looked after *)
(* by a worker, unless the settings or the command line say otherwise.      *)
THEOREM CronHasWorkers == Spec => []CronIsServed
<1> DEFINE crons == {m \in Masters : phase[m] = "run" /\ run_cron(m)}
<1>1. Cardinality(crons) <= 1
  <2>1. crons = {} \/ crons = {1}
    BY DEF run_cron
  <2>2. Cardinality({}) = 0 /\ Cardinality({1}) = 1
    BY FS_EmptySet, FS_Singleton
  <2> HIDE DEF crons
  <2> QED
    BY <2>1, <2>2
<1>2. ASSUME PoolIInv, NEW v \in {1, 2}, Up(v), crons # {}, NEW q \in releases[v].crons,
             only_queue \in {NoQueue, q},
             \A layer \in {releases[v].django, releases[v].extra} \ {NoFile} :
               ~ ("WORKERS" \in DOMAIN layer /\ q \in DOMAIN layer.WORKERS /\ layer.WORKERS[q] = 0)
      PROVE  \E m \in Masters : \E x \in worker_names[m] : x[1] = q
  <2> DEFINE r == releases[v]
             w == Full(r)
  <2>1. ~exact
    BY <1>2 DEF run_cron
  <2>2. w = setdefault(Base(r), r.crons)
    BY <2>1 DEF Full
  <2>3. IsCounts(w) /\ q \in DOMAIN w
    <3>1. IsCounts(w)
      BY <1>2, FullCounts DEF PoolIInv, PoolShape
    <3> QED
      BY <1>2, <2>2, <3>1 DEF setdefault
  <2>4. w[q] # 0
    <3>1. r.django # NoFile
      BY <1>2, WorkerPoolAssumption DEF PoolIInv, PoolShape
    <3>2. w[q] = IF q \in DOMAIN Base(r) THEN Base(r)[q] ELSE 1
      BY <2>2, <2>3 DEF setdefault
    <3>3. CASE r.extra # NoFile /\ "WORKERS" \in DOMAIN r.extra
      <4>1. Base(r) = r.extra.WORKERS
        BY <3>3 DEF Base
      <4> QED
        BY <1>2, <3>2, <3>3, <4>1
    <3>4. CASE ~ (r.extra # NoFile /\ "WORKERS" \in DOMAIN r.extra)
      <4> DEFINE given_counts == Given_in(r.django)
      <4>1. Base(r) = [p \in DOMAIN given_counts \cup r.tasks |->
                         IF p \in DOMAIN given_counts THEN given_counts[p] ELSE 1]
        BY <3>4 DEF Base, setdefault
      <4>2. q \in DOMAIN given_counts => given_counts[q] # 0
        <5>1. DOMAIN NoWorkers = {}
          BY DEF NoWorkers
        <5> QED
          BY <1>2, <3>1, <5>1 DEF Given_in
      <4> HIDE DEF given_counts
      <4>3. q \in DOMAIN Base(r) => Base(r)[q] # 0
        BY <4>1, <4>2
      <4> QED
        BY <3>2, <4>3
    <3> QED
      BY <3>3, <3>4
  <2>5. 1 \in 1..w[q]
    BY <2>3, <2>4 DEF IsCounts
  <2>6. <<q, 1>> \in Wanted(v)
    BY <1>2, <2>1, <2>3, <2>5, AllWorkersAre, WantedIs DEF All
  <2>7. \E m \in Masters : <<q, 1>> \in worker_names[m]
    BY <1>2, <2>6, UpRunsWanted
  <2> QED
    BY <2>7
<1>3. PoolIInv => CronIsServed
  BY <1>1, <1>2 DEF CronIsServed
<1> QED
  BY <1>3, PoolInductive, PTL

-----------------------------------------------------------------------------
(* Dealing cards: the numbers up to n in turn to N machines. *)
LEMMA Divides ==
  ASSUME NEW N \in Nat \ {0}, NEW k \in Nat
  PROVE  k = N * (k \div N) + (k % N) /\ k % N \in 0..(N - 1) /\ k \div N \in Nat
  OBVIOUS

LEMMA Rest ==
  ASSUME NEW N \in Nat \ {0}, NEW q \in Nat, NEW r \in 0..(N - 1)
  PROVE  (N * q + r) % N = r
  OBVIOUS

Dealt(n, N, m) == {k \in 1..n : (k % N) + 1 = m}

LEMMA DealtFinite ==
  ASSUME NEW n \in Nat, NEW N, NEW m
  PROVE  IsFiniteSet(Dealt(n, N, m)) /\ Cardinality(Dealt(n, N, m)) \in Nat
<1>1. IsFiniteSet(1..n) /\ Dealt(n, N, m) \in SUBSET (1..n)
  <2>1. n \in Int /\ 1 \in Int
    OBVIOUS
  <2> QED
    BY <2>1, FS_Interval DEF Dealt
<1> QED
  BY <1>1, FS_Subset, FS_CardinalityType

(* The turn before k's of another machine. *)
LEMMA TurnBefore ==
  ASSUME NEW N \in Nat \ {0}, NEW n \in Nat, NEW m \in 1..N, NEW o \in 1..N,
         NEW k \in Dealt(n, N, m), k # m - 1
  PROVE  LET b == IF o <= m THEN k + (o - m) ELSE k + (o - m) - N
         IN  b \in Dealt(n, N, o)
<1> DEFINE q == k \div N
<1>1. k \in 1..n /\ k % N = m - 1
  BY DEF Dealt
<1>2. k = N * q + (m - 1) /\ q \in Nat
  <2>1. k \in Nat
    BY <1>1
  <2>2. k = N * q + (k % N) /\ q \in Nat
    BY <2>1, Divides
  <2> QED
    BY <1>1, <2>2
<1> HIDE DEF q
<1>3. q # 0
  BY <1>2
<1>4. CASE o <= m
  <2>1. k + (o - m) = N * q + (o - 1) /\ o - 1 \in 0..(N - 1)
    BY <1>2
  <2>2. (k + (o - m)) % N = o - 1
    BY <1>2, <2>1, Rest
  <2>3. N * q >= N
    BY <1>2, <1>3
  <2>4. k + (o - m) \in 1..n
    BY <1>1, <1>4, <2>1, <2>3, <1>2
  <2> QED
    BY <1>4, <2>2, <2>4 DEF Dealt
<1>5. CASE ~ (o <= m)
  <2>1. k + (o - m) - N = N * (q - 1) + (o - 1) /\ o - 1 \in 0..(N - 1) /\ q - 1 \in Nat
    BY <1>2, <1>3
  <2>2. (k + (o - m) - N) % N = o - 1
    BY <2>1, Rest
  <2>3. N * (q - 1) >= 0 /\ N * (q - 1) \in Int
    BY <2>1
  <2>4. k + (o - m) - N >= 1
    BY <1>5, <2>1, <2>3
  <2>5. k + (o - m) - N <= n /\ k + (o - m) - N \in Int
    BY <1>1
  <2> QED
    BY <1>5, <2>2, <2>4, <2>5 DEF Dealt
<1> QED
  BY <1>4, <1>5

(* No machine has two turns more than another. *)
LEMMA FairlyDealt ==
  ASSUME NEW N \in Nat \ {0}, NEW n \in Nat, NEW m \in 1..N, NEW o \in 1..N
  PROVE  Cardinality(Dealt(n, N, m)) <= Cardinality(Dealt(n, N, o)) + 1
<1> DEFINE S == Dealt(n, N, m) \ {m - 1}
           T == Dealt(n, N, o)
           f == [k \in S |-> IF o <= m THEN k + (o - m) ELSE k + (o - m) - N]
<1>1. f \in [S -> T]
  BY TurnBefore
<1>2. ASSUME NEW j \in S, NEW k \in S, f[j] = f[k]
      PROVE  j = k
  <2>1. j \in Nat /\ k \in Nat
    BY DEF Dealt
  <2>2. \A i \in S : f[i] = IF o <= m THEN i + (o - m) ELSE i + (o - m) - N
    OBVIOUS
  <2> HIDE DEF f, S
  <2> QED
    BY <1>2, <2>1, <2>2
<1>3. IsFiniteSet(T) /\ Cardinality(T) \in Nat
      /\ IsFiniteSet(Dealt(n, N, m)) /\ Cardinality(Dealt(n, N, m)) \in Nat
  BY DealtFinite
<1>4. Cardinality(S) = IF m - 1 \in Dealt(n, N, m) THEN Cardinality(Dealt(n, N, m)) - 1
                                                   ELSE Cardinality(Dealt(n, N, m))
  BY <1>3, FS_RemoveElement
<1> HIDE DEF f, S, T
<1>5. f \in Injection(S, T)
  BY <1>1, <1>2 DEF Injection, IsInjective
<1>6. Cardinality(S) <= Cardinality(T)
  BY <1>3, <1>5, FS_Injection
<1>7. Cardinality(Dealt(n, N, m)) <= Cardinality(T) + 1
  BY <1>3, <1>4, <1>6
<1> QED
  BY <1>7 DEF T

(* The places of the workers in the order of the loops are 1, 2, ..., n.    *)
LEMMA PlacesInTurn ==
  ASSUME NEW all, IsFiniteSet(all), all \subseteq (Nat \ {0}) \X (Nat \ {0})
  PROVE  [x \in all |-> JobNumber(x, all)] \in Bijection(all, 1..Cardinality(all))
<1> DEFINE Low(x) == {y \in all : y[1] < x[1] \/ (y[1] = x[1] /\ y[2] <= x[2])}
           n == Cardinality(all)
           f == [x \in all |-> JobNumber(x, all)]
<1>1. n \in Nat
  BY FS_CardinalityType
<1>2. \A x \in all : x[1] \in Nat /\ x[2] \in Nat /\ x = <<x[1], x[2]>>
  OBVIOUS
<1>3. \A x : IsFiniteSet(Low(x)) /\ Cardinality(Low(x)) \in Nat /\ Cardinality(Low(x)) <= n
             /\ f = [y \in all |-> Cardinality(Low(y))]
  <2>1. \A x : Low(x) \in SUBSET all
    OBVIOUS
  <2> QED
    BY <2>1, FS_Subset, FS_CardinalityType DEF JobNumber
<1>4. \A x \in all : x \in Low(x)
  BY <1>2
<1>5. \A x \in all : Cardinality(Low(x)) # 0
  BY <1>3, <1>4, FS_EmptySet
<1>6. \A x \in all : f[x] = Cardinality(Low(x)) /\ f[x] \in 1..n
  <2>1. \A x \in all : f[x] = Cardinality(Low(x))
    BY DEF JobNumber
  <2> HIDE DEF f, Low, n
  <2> QED
    BY <1>1, <1>3, <1>5, <2>1
<1>7. ASSUME NEW x \in all, NEW y \in all, x[1] < y[1] \/ (x[1] = y[1] /\ x[2] < y[2])
      PROVE  Cardinality(Low(x)) < Cardinality(Low(y))
  <2>1. Low(x) \subseteq Low(y) /\ y \notin Low(x)
    BY <1>2, <1>7
  <2>2. Low(x) \in SUBSET (Low(y) \ {y}) /\ y \in Low(y)
    BY <1>4, <2>1
  <2> HIDE DEF Low
  <2>3. IsFiniteSet(Low(y) \ {y}) /\ Cardinality(Low(y) \ {y}) = Cardinality(Low(y)) - 1
    BY <1>3, <2>2, FS_RemoveElement
  <2>4. Cardinality(Low(x)) <= Cardinality(Low(y) \ {y})
    BY <2>2, <2>3, FS_Subset
  <2> QED
    BY <1>3, <2>3, <2>4
<1>8. ASSUME NEW x \in all, NEW y \in all, x # y
      PROVE  f[x] # f[y]
  <2>1. x[1] < y[1] \/ y[1] < x[1] \/ (x[1] = y[1] /\ x[2] < y[2]) \/ (x[1] = y[1] /\ y[2] < x[2])
    BY <1>2, <1>8
  <2>2. Cardinality(Low(x)) < Cardinality(Low(y)) \/ Cardinality(Low(y)) < Cardinality(Low(x))
    BY <1>7, <2>1
  <2> HIDE DEF f, Low
  <2> QED
    BY <1>3, <1>6, <2>2
<1> HIDE DEF f, Low
<1>9. f \in Injection(all, 1..n)
  <2>1. f \in [all -> 1..n]
    BY <1>6 DEF f
  <2> QED
    BY <1>8, <2>1 DEF Injection, IsInjective
<1>10. f \in Surjection(all, 1..n)
  <2>1. IsFiniteSet(1..n) /\ Cardinality(1..n) = n
    BY <1>1, FS_Interval
  <2> QED
    BY <1>9, <2>1, FS_Injection DEF n
<1> QED
  BY <1>9, <1>10 DEF Bijection, f

(* So a machine has as many workers as turns. *)
LEMMA AsManyAsTurns ==
  ASSUME NEW all, IsFiniteSet(all), all \subseteq (Nat \ {0}) \X (Nat \ {0}), NEW m
  PROVE  Cardinality({x \in all : Mine(m, x, all)}) =
           Cardinality(Dealt(Cardinality(all), MachineCount, m))
<1> DEFINE S == {x \in all : Mine(m, x, all)}
           n == Cardinality(all)
           T == Dealt(n, MachineCount, m)
           f == [x \in all |-> JobNumber(x, all)]
           g == [x \in S |-> f[x]]
<1>1. f \in Bijection(all, 1..n)
  BY PlacesInTurn
<1>2. \A x \in all : x \in S <=> f[x] \in T
  <2>1. \A x \in all : f[x] \in 1..n
    BY <1>1 DEF Bijection, Injection
  <2>2. \A x \in all : Mine(m, x, all) <=> (f[x] % MachineCount) + 1 = m
    BY DEF Mine
  <2> QED
    BY <2>1, <2>2 DEF Dealt
<1> HIDE DEF f, T
<1>3. g \in [S -> T]
  BY <1>2
<1>4. \A x, y \in S : g[x] = g[y] => x = y
  BY <1>1 DEF Bijection, Injection, IsInjective
<1>5. \A k \in T : \E x \in S : g[x] = k
  <2>1. SUFFICES ASSUME NEW k \in T
                 PROVE  \E x \in S : g[x] = k
    OBVIOUS
  <2>2. k \in 1..n
    BY DEF T, Dealt
  <2>3. PICK x \in all : f[x] = k
    BY <1>1, <2>2 DEF Bijection, Surjection
  <2> QED
    BY <1>2, <2>3
<1>6. S \in SUBSET all
  OBVIOUS
<1> HIDE DEF g, S
<1>7. ExistsBijection(S, T)
  <2>1. g \in Injection(S, T)
    BY <1>3, <1>4 DEF Injection, IsInjective
  <2>2. g \in Surjection(S, T)
    BY <1>3, <1>5 DEF Surjection
  <2> QED
    BY <2>1, <2>2 DEF ExistsBijection, Bijection
<1>8. IsFiniteSet(S)
  BY <1>6, FS_Subset
<1> QED
  BY <1>7, <1>8, FS_Bijection DEF S, T, n

(* The workers are dealt out evenly over the pool. *)
THEOREM SharesAreEven == Spec => []Balanced
<1>1. ASSUME PoolIInv, NEW v \in {1, 2}, Up(v), ~exact, NEW m \in Machines, NEW o \in Machines
      PROVE  Cardinality(worker_names[m]) <= Cardinality(worker_names[o]) + 1
  <2> DEFINE all == All(releases[v])
  <2>1. MachineCount \in Nat \ {0} /\ Machines = 1..MachineCount /\ Machines \subseteq Masters
    BY WorkerPoolAssumption DEF Machines
  <2>2. ASSUME NEW k \in Machines
        PROVE  /\ IsFiniteSet(all) /\ all \subseteq (Nat \ {0}) \X (Nat \ {0})
               /\ worker_names[k] = {x \in all : Mine(k, x, all)}
    <3>1. Loaded(k) = releases[v] /\ phase[k] \in {"run", "refused"} /\ MasterOK(k)
      BY <1>1, <2>1 DEF Up, Loaded, PoolIInv
    <3>2. ~Refused(k)
      BY <1>1, <2>1 DEF Refused
    <3>3. worker_names[k] = Share(k)
      BY <3>1, <3>2 DEF MasterOK
    <3> QED
      BY <1>1, <2>1, <3>1, <3>3, Runs DEF Share
  <2> HIDE DEF all
  <2>3. \A k \in Machines : Cardinality(worker_names[k]) = Cardinality(Dealt(Cardinality(all), MachineCount, k))
    BY <2>2, AsManyAsTurns
  <2>4. Cardinality(all) \in Nat
    BY <1>1, <2>2, FS_CardinalityType
  <2> QED
    BY <1>1, <2>1, <2>3, <2>4, FairlyDealt
<1>2. PoolIInv => Balanced
  BY <1>1 DEF Balanced
<1> QED
  BY <1>2, PoolInductive, PTL
=============================================================================

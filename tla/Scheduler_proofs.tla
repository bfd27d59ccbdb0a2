--------------------------- MODULE Scheduler_proofs ---------------------------
(***************************************************************************)
(* Proofs about the push scheduler, for any groups, rates and number of    *)
(* workers.                                                                *)
(***************************************************************************)
EXTENDS Scheduler, FiniteSetTheorems, TLAPS

Created == {g \in Groups : phase[g] # "none"}

\* The counter has given every group a key of its own.
KeysAreOwn ==
  /\ next_key = Cardinality(Created) + 1
  /\ \A g \in Created : key[g] \in 1..(next_key - 1)
  /\ \A g, h \in Created : key[g] = key[h] => g = h

\* The registry has one entry for each group between the two halves of its life,
\* under its key; a group that has not joined its bucket keeps its rate.
RegistryIsOfTheLiving ==
  /\ \A e \in registry : phase[e.job] \in {"new", "registered"} /\ e.key = key[e.job]
  /\ \A e, f \in registry : e.job = f.job => e = f
  /\ \A g \in Groups : phase[g] \in {"new", "registered"} => \E e \in registry : e.job = g
  /\ \A e \in registry : phase[e.job] = "new" => e.rate = Duration(update_rate[e.job])

\* A group is in the bucket of the rate it was registered with, and in no other.
BucketsAreOfTheLiving ==
  /\ \A d \in Durations : \A g \in bucket[d] : phase[g] \in {"registered", "dropping"}
  /\ \A e \in registry : phase[e.job] = "registered" =>
       \A d \in Durations : e.job \in bucket[d] <=> d = e.rate
  /\ \A g \in Groups : phase[g] = "dropping" =>
       \A d \in Durations : g \in bucket[d] <=> d = taken[g]

\* After a collection no bucket is later than the bound.
LagIsKept ==
  tick \in {"push", "sleep"} => \A d \in DOMAIN next_tick : next_tick[d] >= -MaxLag

Tables == KeysAreOwn /\ RegistryIsOfTheLiving /\ BucketsAreOfTheLiving

IInv == TypeOK /\ Tables /\ LagIsKept

tables == <<phase, update_rate, key, next_key, registry, bucket, taken>>

-----------------------------------------------------------------------------
LEMMA DurationsArePositive == SchedulerAssumption => Durations \subseteq Nat \ {0}
BY DEF SchedulerAssumption, Durations, Duration

LEMMA DurationOfARate == ASSUME NEW r \in Rates PROVE Duration(r) \in Durations
BY DEF Durations

\* There are never more keys given than there are groups.
LEMMA CreatedIsCounted ==
  ASSUME SchedulerAssumption
  PROVE  /\ IsFiniteSet(Created) /\ Cardinality(Created) \in Nat /\ Cardinality(Groups) \in Nat
         /\ Cardinality(Created) <= Cardinality(Groups)
         /\ \A g \in Groups \ Created :
              /\ Cardinality(Created \cup {g}) = Cardinality(Created) + 1
              /\ Cardinality(Created) + 1 <= Cardinality(Groups)
<1>1. IsFiniteSet(Groups) /\ Created \subseteq Groups
  BY DEF SchedulerAssumption, Created
<1>2. IsFiniteSet(Created) /\ Cardinality(Created) <= Cardinality(Groups)
  BY <1>1, FS_Subset
<1>3. Cardinality(Created) \in Nat /\ Cardinality(Groups) \in Nat
  BY <1>1, <1>2, FS_CardinalityType
<1>4. ASSUME NEW g \in Groups \ Created
      PROVE  /\ Cardinality(Created \cup {g}) = Cardinality(Created) + 1
             /\ Cardinality(Created) + 1 <= Cardinality(Groups)
  <2>1. Cardinality(Created \cup {g}) = Cardinality(Created) + 1
    BY <1>2, <1>4, FS_AddElement
  <2>2. Created \cup {g} \subseteq Groups
    BY <1>1, <1>4
  <2>3. Cardinality(Created \cup {g}) <= Cardinality(Groups)
    BY <1>1, <2>2, FS_Subset
  <2> QED BY <2>1, <2>3
<1> QED BY <1>2, <1>3, <1>4

LEMMA InitIInv == SchedulerAssumption /\ Init => IInv
<1> SUFFICES ASSUME SchedulerAssumption, Init PROVE IInv
  OBVIOUS
<1>1. Created = {}
  BY DEF Init, Created
<1>2. Cardinality(Created) = 0
  BY <1>1, FS_EmptySet
<1>3. next_key = 1 /\ 1 \in 1..(Cardinality(Groups) + 1)
  BY CreatedIsCounted DEF Init
<1>4. TypeOK
  <2>1. queue \in Seq(Jobs) /\ Len(queue) <= MaxQueue
    BY DEF Init, SchedulerAssumption
  <2>2. age \in 0..MaxLag
    BY DEF Init, SchedulerAssumption
  <2>3. bucket \in [Durations -> SUBSET Jobs] /\ taken \in [Groups -> Durations \cup {0}]
        /\ worker \in [Workers -> Jobs \cup {"ready", "asleep"}]
        /\ since \in [Groups -> Nat \cup {Never}] /\ key \in [Groups -> Keys \cup {0}]
        /\ phase \in [Groups -> {"none", "new", "registered", "dropping", "gone"}]
    BY DEF Init
  <2> QED BY <1>3, <2>1, <2>2, <2>3 DEF Init, TypeOK
<1>5. Tables
  BY <1>1, <1>2 DEF Init, Tables, KeysAreOwn, RegistryIsOfTheLiving, BucketsAreOfTheLiving
<1>6. LagIsKept
  BY DEF Init, LagIsKept
<1> QED BY <1>4, <1>5, <1>6 DEF IInv

-----------------------------------------------------------------------------
(* Groups come and go.                                                     *)

LEMMA RegisterKeyKeeps ==
  ASSUME SchedulerAssumption, IInv, NEW g \in Groups, RegisterKey(g)
  PROVE  IInv'
<1> USE DEF IInv
<1>1. /\ phase[g] = "none" /\ g \notin Created
      /\ phase' = [phase EXCEPT ![g] = "new"] /\ key' = [key EXCEPT ![g] = next_key]
      /\ next_key' = next_key + 1
      /\ registry' = {e \in registry : e.key # next_key} \cup
                     {[key |-> next_key, job |-> g, rate |-> Duration(update_rate[g])]}
      /\ UNCHANGED <<update_rate, bucket, next_tick, taken, tickVars, queue, worker, since>>
  BY DEF RegisterKey, SchedKey, Created
<1>2. Created' = Created \cup {g}
  BY <1>1 DEF Created, TypeOK
<1>3. /\ next_key' = Cardinality(Created') + 1 /\ next_key \in Keys
      /\ next_key' <= Cardinality(Groups) + 1
  BY <1>1, <1>2, CreatedIsCounted DEF Tables, KeysAreOwn, Keys
<1>4. \A e \in registry : e.key # next_key /\ e.job # g
  <2>1. \A e \in registry : e.job \in Created /\ e.key = key[e.job]
    BY DEF TypeOK, Jobs, Created, Tables, RegistryIsOfTheLiving
  <2> QED BY <1>1, <2>1, CreatedIsCounted DEF Tables, KeysAreOwn
<1> DEFINE new == [key |-> next_key, job |-> g, rate |-> Duration(update_rate[g])]
<1>5. registry' = registry \cup {new} /\ new \in [key : Keys, job : Jobs, rate : Durations]
  BY <1>1, <1>3, <1>4, DurationOfARate DEF TypeOK, Jobs
<1>6. TypeOK'
  <2>1. next_key' \in 1..(Cardinality(Groups) + 1)
    BY <1>1, <1>3, CreatedIsCounted DEF TypeOK
  <2>2. /\ phase' \in [Groups -> {"none", "new", "registered", "dropping", "gone"}]
        /\ key' \in [Groups -> Keys \cup {0}]
    BY <1>1, <1>3 DEF TypeOK
  <2> QED BY <1>1, <1>5, <2>1, <2>2 DEF TypeOK, tickVars
<1>7. KeysAreOwn'
  <2>1. \A h \in Created : key[h] \in 1..(next_key - 1) /\ key'[h] = key[h] /\ h # g
    BY <1>1 DEF TypeOK, Created, Tables, KeysAreOwn
  <2>2. key'[g] = next_key
    BY <1>1 DEF TypeOK
  <2>3. next_key \in Nat
    BY DEF TypeOK
  <2>4. \A h \in Created' : key'[h] \in 1..(next_key' - 1)
    BY <1>1, <1>2, <2>1, <2>2, <2>3, CreatedIsCounted DEF Tables, KeysAreOwn
  <2>5. \A h, i \in Created' : key'[h] = key'[i] => h = i
    BY <1>2, <2>1, <2>2, <2>3 DEF Tables, KeysAreOwn
  <2> QED BY <1>3, <2>4, <2>5 DEF KeysAreOwn
<1>8. /\ \A h \in Groups \ {g} : phase'[h] = phase[h] /\ key'[h] = key[h]
      /\ phase'[g] = "new" /\ key'[g] = next_key
  BY <1>1 DEF TypeOK
<1>9. RegistryIsOfTheLiving'
  <2>1. new.job = g /\ new.key = next_key /\ new.rate = Duration(update_rate[g])
    OBVIOUS
  <2>2. \A e \in registry : e.job \in Groups \ {g}
    BY <1>4 DEF TypeOK, Jobs
  <2> HIDE DEF new
  <2> QED BY <1>1, <1>5, <1>8, <2>1, <2>2 DEF Tables, RegistryIsOfTheLiving
<1>10. BucketsAreOfTheLiving'
  <2>1. \A d \in Durations : g \notin bucket[d]
    BY <1>1 DEF Tables, BucketsAreOfTheLiving
  <2>2. \A d \in Durations : bucket[d] \subseteq Groups
    BY DEF TypeOK, Jobs
  <2>3. \A e \in registry : e.job \in Groups \ {g}
    BY <1>4 DEF TypeOK, Jobs
  <2>4. new.job = g
    OBVIOUS
  <2> HIDE DEF new
  <2> QED BY <1>1, <1>5, <1>8, <2>1, <2>2, <2>3, <2>4 DEF Tables, BucketsAreOfTheLiving
<1> QED BY <1>1, <1>6, <1>7, <1>9, <1>10 DEF Tables, LagIsKept, tickVars

LEMMA RegisterBucketKeeps ==
  ASSUME SchedulerAssumption, IInv, NEW g \in Groups, RegisterBucket(g)
  PROVE  IInv'
<1> USE DEF IInv
<1> DEFINE r == Duration(update_rate[g])
<1>1. /\ phase[g] = "new" /\ phase' = [phase EXCEPT ![g] = "registered"]
      /\ bucket' = [bucket EXCEPT ![r] = @ \cup {g}]
      /\ next_tick' = [e \in DOMAIN next_tick \cup {r} |->
                         IF e \in DOMAIN next_tick THEN next_tick[e] ELSE r]
      /\ UNCHANGED <<update_rate, key, next_key, registry, taken, tickVars, queue, worker, since>>
  BY DEF RegisterBucket
<1>2. r \in Durations /\ r \in Nat \ {0} /\ MaxLag \in Nat
  BY DurationOfARate, DurationsArePositive DEF TypeOK, SchedulerAssumption
<1> HIDE DEF r
<1>3. Created' = Created
  BY <1>1 DEF Created, TypeOK
<1>4. TypeOK' /\ LagIsKept'
  <2>1. /\ phase' \in [Groups -> {"none", "new", "registered", "dropping", "gone"}]
        /\ bucket' \in [Durations -> SUBSET Jobs]
    BY <1>1, <1>2 DEF TypeOK, Jobs
  <2>2. DOMAIN next_tick' = DOMAIN next_tick \cup {r} /\ DOMAIN next_tick' \subseteq Durations
    BY <1>1, <1>2 DEF TypeOK
  <2>3. \A d \in DOMAIN next_tick' :
          next_tick'[d] = IF d \in DOMAIN next_tick THEN next_tick[d] ELSE d
    BY <1>1, <2>2
  <2>4. r \in (-MaxLag - 1)..r /\ r >= -MaxLag
    BY <1>2
  <2>5. \A d \in DOMAIN next_tick' : next_tick'[d] \in (-MaxLag - 1)..d
    BY <2>2, <2>3, <2>4 DEF TypeOK
  <2>6. LagIsKept'
    BY <1>1, <2>2, <2>3, <2>4 DEF LagIsKept, tickVars
  <2> QED BY <1>1, <2>1, <2>2, <2>5, <2>6 DEF TypeOK, tickVars
<1>5. KeysAreOwn'
  BY <1>1, <1>3 DEF Tables, KeysAreOwn
<1>6. \A h \in Groups \ {g} : phase'[h] = phase[h]
  BY <1>1 DEF TypeOK
<1>7. phase'[g] = "registered"
  BY <1>1 DEF TypeOK
<1>8. \A e \in registry : e.job \in Groups
  BY DEF TypeOK, Jobs
<1>9. RegistryIsOfTheLiving'
  BY <1>1, <1>6, <1>7, <1>8 DEF Tables, RegistryIsOfTheLiving
<1>10. \A d \in Durations : bucket[d] \subseteq Groups /\ g \notin bucket[d]
  BY <1>1 DEF TypeOK, Jobs, Tables, BucketsAreOfTheLiving
<1>11. \A d \in Durations : bucket'[d] = IF d = r THEN bucket[d] \cup {g} ELSE bucket[d]
  BY <1>1, <1>2 DEF TypeOK
<1>14. \A d \in Durations : /\ g \in bucket'[d] <=> d = r
                            /\ \A h \in Groups \ {g} : h \in bucket'[d] <=> h \in bucket[d]
                            /\ \A h \in bucket'[d] : h \in Groups
  <2> SUFFICES ASSUME NEW d \in Durations
               PROVE  /\ g \in bucket'[d] <=> d = r
                      /\ \A h \in Groups \ {g} : h \in bucket'[d] <=> h \in bucket[d]
                      /\ \A h \in bucket'[d] : h \in Groups
    OBVIOUS
  <2>1. CASE d = r
    BY <1>10, <1>11, <2>1
  <2>2. CASE d # r
    BY <1>10, <1>11, <2>2
  <2> QED BY <2>1, <2>2
<1>12. \A e \in registry : e.job = g => e.rate = r
  BY <1>1 DEF Tables, RegistryIsOfTheLiving, r
<1>13. BucketsAreOfTheLiving'
  <2>1. \A d \in Durations : \A h \in bucket'[d] : phase'[h] \in {"registered", "dropping"}
    BY <1>6, <1>7, <1>14 DEF Tables, BucketsAreOfTheLiving
  <2>2. \A e \in registry : phase'[e.job] = "registered" =>
          \A d \in Durations : e.job \in bucket'[d] <=> d = e.rate
    <3> SUFFICES ASSUME NEW e \in registry, phase'[e.job] = "registered", NEW d \in Durations
                 PROVE  e.job \in bucket'[d] <=> d = e.rate
      OBVIOUS
    <3>1. CASE e.job = g
      BY <1>12, <1>14, <3>1
    <3>2. CASE e.job # g
      BY <1>1, <1>6, <1>8, <1>14, <3>2 DEF Tables, BucketsAreOfTheLiving
    <3> QED BY <3>1, <3>2
  <2>3. \A h \in Groups : phase'[h] = "dropping" =>
          \A d \in Durations : h \in bucket'[d] <=> d = taken[h]
    BY <1>1, <1>6, <1>7, <1>14 DEF Tables, BucketsAreOfTheLiving
  <2> QED BY <1>1, <2>1, <2>2, <2>3 DEF BucketsAreOfTheLiving
<1> QED BY <1>4, <1>5, <1>9, <1>13 DEF Tables

LEMMA SetStateKeeps ==
  ASSUME SchedulerAssumption, IInv, NEW g \in Groups, NEW r \in Rates, SetState(g, r)
  PROVE  IInv'
<1> USE DEF IInv
<1>1. /\ phase[g] = "registered" /\ update_rate' = [update_rate EXCEPT ![g] = r]
      /\ UNCHANGED <<phase, key, next_key, registry, bucket, next_tick, taken, tick, age, due,
                     queue, worker, since>>
  BY DEF SetState, tickVars
<1>2. TypeOK' /\ LagIsKept'
  BY <1>1 DEF TypeOK, LagIsKept
<1>3. Created' = Created
  BY <1>1 DEF Created
<1>4. KeysAreOwn' /\ BucketsAreOfTheLiving'
  BY <1>1, <1>3 DEF Tables, KeysAreOwn, BucketsAreOfTheLiving
<1>5. \A e \in registry : phase[e.job] = "new" => update_rate'[e.job] = update_rate[e.job]
  BY <1>1 DEF TypeOK, Jobs
<1>6. RegistryIsOfTheLiving'
  BY <1>1, <1>5 DEF Tables, RegistryIsOfTheLiving
<1> QED BY <1>2, <1>4, <1>6 DEF Tables

\* The registry gives the rate a key was registered with.
LEMMA RateFound ==
  ASSUME IInv, NEW e \in registry
  PROVE  RateOf(key[e.job]) = e.rate
<1> USE DEF IInv
<1>1. \A f \in registry : f.key = key[e.job] => f = e
  <2>1. \A f \in registry : f.job \in Created /\ f.key = key[f.job]
    BY DEF TypeOK, Jobs, Created, Tables, RegistryIsOfTheLiving
  <2> QED BY <2>1 DEF Tables, KeysAreOwn, RegistryIsOfTheLiving
<1>2. e.key = key[e.job]
  BY DEF Tables, RegistryIsOfTheLiving
<1>3. (CHOOSE f \in registry : f.key = key[e.job]) = e
  BY <1>1, <1>2
<1> QED BY <1>2, <1>3 DEF RateOf

LEMMA UnregisterKeyKeeps ==
  ASSUME SchedulerAssumption, IInv, NEW g \in Groups, UnregisterKey(g)
  PROVE  IInv'
<1> USE DEF IInv
<1>1. /\ phase[g] = "registered" /\ phase' = [phase EXCEPT ![g] = "dropping"]
      /\ taken' = [taken EXCEPT ![g] = RateOf(key[g])]
      /\ registry' = {e \in registry : e.key # key[g]}
      /\ UNCHANGED <<update_rate, key, next_key, bucket, next_tick, tick, age, due, queue,
                     worker, since>>
  BY DEF UnregisterKey, tickVars
<1>2. PICK own \in registry : own.job = g
  BY <1>1 DEF Tables, RegistryIsOfTheLiving
<1>3. taken'[g] = own.rate /\ own.rate \in Durations
  BY <1>1, <1>2, RateFound DEF TypeOK
<1>4. \A h \in Groups \ {g} : phase'[h] = phase[h] /\ taken'[h] = taken[h]
  BY <1>1 DEF TypeOK
<1>5. phase'[g] = "dropping"
  BY <1>1 DEF TypeOK
<1>6. TypeOK' /\ LagIsKept'
  <2>1. /\ phase' \in [Groups -> {"none", "new", "registered", "dropping", "gone"}]
        /\ taken' \in [Groups -> Durations \cup {0}]
    BY <1>1, <1>3 DEF TypeOK
  <2>2. registry' \subseteq [key : Keys, job : Jobs, rate : Durations]
    BY <1>1 DEF TypeOK
  <2> QED BY <1>1, <2>1, <2>2 DEF TypeOK, LagIsKept
<1>7. Created' = Created
  BY <1>1 DEF Created, TypeOK
<1>8. KeysAreOwn'
  BY <1>1, <1>7 DEF Tables, KeysAreOwn
<1>9. registry' = {e \in registry : e.job # g}
  <2>1. \A e \in registry : e.job \in Created /\ e.key = key[e.job] /\ g \in Created
    BY <1>1 DEF TypeOK, Jobs, Created, Tables, RegistryIsOfTheLiving
  <2>2. \A e \in registry : e.key # key[g] <=> e.job # g
    BY <2>1 DEF Tables, KeysAreOwn
  <2> QED BY <1>1, <2>2
<1>10. \A e \in registry' : e \in registry /\ e.job \in Groups \ {g}
  BY <1>9 DEF TypeOK, Jobs
<1>11. RegistryIsOfTheLiving'
  <2>1. \A h \in Groups : phase'[h] \in {"new", "registered"} => \E e \in registry' : e.job = h
    BY <1>4, <1>5, <1>9 DEF Tables, RegistryIsOfTheLiving
  <2> QED BY <1>1, <1>4, <1>10, <2>1 DEF Tables, RegistryIsOfTheLiving
<1>12. BucketsAreOfTheLiving'
  <2>1. \A d \in Durations : \A h \in bucket[d] : h \in Groups
    BY DEF TypeOK, Jobs
  <2>2. \A d \in Durations : \A h \in bucket'[d] : phase'[h] \in {"registered", "dropping"}
    BY <1>1, <1>4, <1>5, <2>1 DEF Tables, BucketsAreOfTheLiving
  <2>3. \A e \in registry' : phase'[e.job] = "registered" =>
          \A d \in Durations : e.job \in bucket'[d] <=> d = e.rate
    BY <1>1, <1>4, <1>10 DEF Tables, BucketsAreOfTheLiving
  <2>4. \A d \in Durations : g \in bucket'[d] <=> d = taken'[g]
    BY <1>1, <1>2, <1>3 DEF Tables, BucketsAreOfTheLiving
  <2>5. \A h \in Groups : phase'[h] = "dropping" =>
          \A d \in Durations : h \in bucket'[d] <=> d = taken'[h]
    BY <1>1, <1>4, <2>4 DEF Tables, BucketsAreOfTheLiving
  <2> QED BY <2>2, <2>3, <2>5 DEF BucketsAreOfTheLiving
<1> QED BY <1>6, <1>8, <1>11, <1>12 DEF Tables

LEMMA UnregisterBucketKeeps ==
  ASSUME SchedulerAssumption, IInv, NEW g \in Groups, UnregisterBucket(g)
  PROVE  IInv'
<1> USE DEF IInv
<1>1. /\ phase[g] = "dropping" /\ phase' = [phase EXCEPT ![g] = "gone"]
      /\ bucket' = [d \in Durations |->
                      IF d = taken[g] THEN {j \in bucket[d] : key[j] # key[g]} ELSE bucket[d]]
      /\ taken' = [taken EXCEPT ![g] = 0] /\ since' = [since EXCEPT ![g] = Never]
      /\ UNCHANGED <<update_rate, key, next_key, registry, next_tick, tick, age, due, queue,
                     worker>>
  BY DEF UnregisterBucket, tickVars
<1>2. \A h \in Groups \ {g} : phase'[h] = phase[h] /\ taken'[h] = taken[h]
  BY <1>1 DEF TypeOK
<1>3. phase'[g] = "gone"
  BY <1>1 DEF TypeOK
<1>4. \A d \in Durations : \A h \in bucket[d] : h \in Groups /\ h \in Created /\ g \in Created
  BY <1>1 DEF TypeOK, Jobs, Created, Tables, BucketsAreOfTheLiving
<1>5. \A d \in Durations : bucket'[d] = bucket[d] \ {g}
  <2>1. \A d \in Durations : \A h \in bucket[d] : key[h] # key[g] <=> h # g
    BY <1>4 DEF Tables, KeysAreOwn
  <2>2. \A d \in Durations : d # taken[g] => g \notin bucket[d]
    BY <1>1 DEF Tables, BucketsAreOfTheLiving
  <2> QED BY <1>1, <2>1, <2>2
<1>6. TypeOK' /\ LagIsKept'
  <2>1. /\ phase' \in [Groups -> {"none", "new", "registered", "dropping", "gone"}]
        /\ taken' \in [Groups -> Durations \cup {0}] /\ since' \in [Groups -> Nat \cup {Never}]
    BY <1>1 DEF TypeOK
  <2>2. bucket' \in [Durations -> SUBSET Jobs]
    BY <1>1, <1>5 DEF TypeOK
  <2> QED BY <1>1, <2>1, <2>2 DEF TypeOK, LagIsKept
<1>7. Created' = Created
  BY <1>1 DEF Created, TypeOK
<1>8. KeysAreOwn'
  BY <1>1, <1>7 DEF Tables, KeysAreOwn
<1>9. \A e \in registry : e.job \in Groups \ {g}
  BY <1>1 DEF TypeOK, Jobs, Tables, RegistryIsOfTheLiving
<1>10. RegistryIsOfTheLiving'
  BY <1>1, <1>2, <1>3, <1>9 DEF Tables, RegistryIsOfTheLiving
<1>11. BucketsAreOfTheLiving'
  <2>1. \A d \in Durations : \A h \in bucket'[d] : phase'[h] \in {"registered", "dropping"}
    BY <1>2, <1>4, <1>5 DEF Tables, BucketsAreOfTheLiving
  <2>2. \A e \in registry : phase'[e.job] = "registered" =>
          \A d \in Durations : e.job \in bucket'[d] <=> d = e.rate
    BY <1>2, <1>5, <1>9 DEF Tables, BucketsAreOfTheLiving
  <2>3. \A h \in Groups : phase'[h] = "dropping" =>
          \A d \in Durations : h \in bucket'[d] <=> d = taken'[h]
    BY <1>2, <1>3, <1>5 DEF Tables, BucketsAreOfTheLiving
  <2> QED BY <1>1, <2>1, <2>2, <2>3 DEF BucketsAreOfTheLiving
<1> QED BY <1>6, <1>8, <1>10, <1>11 DEF Tables

-----------------------------------------------------------------------------
(* The clock, the tick thread and the workers leave the tables alone.      *)

LEMMA TablesUntouched ==
  ASSUME IInv, UNCHANGED tables PROVE Tables'
BY DEF IInv, tables, Tables, Created, KeysAreOwn, RegistryIsOfTheLiving, BucketsAreOfTheLiving

LEMMA PassKeeps ==
  ASSUME SchedulerAssumption, IInv, Pass PROVE IInv'
<1> USE DEF IInv
<1>1. UNCHANGED tables /\ UNCHANGED <<due, queue, worker>>
  BY DEF Pass, groupVars, tables
<1>2. MaxLag \in Nat /\ age \in 0..MaxLag
  BY DEF SchedulerAssumption, TypeOK
<1>3. age' \in 0..MaxLag
  BY <1>2 DEF Pass, TypeOK
<1>4. since' \in [Groups -> Nat \cup {Never}]
  BY DEF Pass, TypeOK, Never
<1>5. /\ DOMAIN next_tick' = DOMAIN next_tick
      /\ \A d \in DOMAIN next_tick : next_tick'[d] = next_tick[d] - 1
  BY DEF Pass
<1>6. \A d \in DOMAIN next_tick : next_tick[d] >= -MaxLag
  <2>1. \A d \in DOMAIN next_tick : next_tick[d] \in Int
    BY <1>2, DurationsArePositive DEF TypeOK
  <2> QED BY <1>2, <2>1 DEF Pass, LagIsKept
<1>7. \A d \in DOMAIN next_tick' : next_tick'[d] \in (-MaxLag - 1)..d
  <2>1. \A d \in DOMAIN next_tick : d \in Nat /\ next_tick[d] \in (-MaxLag - 1)..d
    BY DurationsArePositive DEF TypeOK
  <2> QED BY <1>2, <1>5, <1>6, <2>1
<1>8. tick' \in {"awake", "lock", "push"}
  BY DEF Pass, TypeOK
<1>9. TypeOK'
  BY <1>1, <1>3, <1>4, <1>5, <1>7, <1>8 DEF TypeOK, tables
<1>10. LagIsKept'
  <2>1. ASSUME tick' = "push" PROVE \A d \in DOMAIN next_tick : next_tick[d] > -MaxLag
    BY <2>1 DEF Pass
  <2>2. \A d \in DOMAIN next_tick : next_tick[d] \in Int
    BY <1>2, DurationsArePositive DEF TypeOK
  <2> QED BY <1>2, <1>5, <1>8, <2>1, <2>2 DEF LagIsKept
<1> QED BY <1>1, <1>9, <1>10, TablesUntouched

LEMMA CollectKeeps ==
  ASSUME SchedulerAssumption, IInv, TickCollect PROVE IInv'
<1> USE DEF IInv
<1> DEFINE chosen == {d \in DOMAIN next_tick : IsDue(d)}
<1>1. UNCHANGED tables /\ UNCHANGED <<queue, worker>> /\ tick' = "push" /\ age' = 0
  BY DEF TickCollect, groupVars, tables
<1>2. MaxLag \in Nat /\ age \in 0..MaxLag /\ 0 \in 0..MaxLag
  BY DEF SchedulerAssumption, TypeOK
<1>3. chosen \subseteq Durations /\ due' = UNION {bucket[d] : d \in chosen}
  BY DEF TickCollect, TypeOK
<1>4. due' \subseteq Jobs
  BY <1>3 DEF TypeOK
<1>5. since' \in [Groups -> Nat \cup {Never}]
  BY <1>2 DEF TickCollect, TypeOK
<1>6. /\ DOMAIN next_tick' = DOMAIN next_tick
      /\ \A d \in DOMAIN next_tick :
           next_tick'[d] = IF next_tick[d] <= -age THEN d - age ELSE next_tick[d]
  BY DEF TickCollect, IsDue, NextDue
<1>7. \A d \in DOMAIN next_tick : d \in Nat \ {0} /\ next_tick[d] \in (-MaxLag - 1)..d
  BY DurationsArePositive DEF TypeOK
<1>8. \A d \in DOMAIN next_tick' :
        next_tick'[d] \in (-MaxLag - 1)..d /\ next_tick'[d] >= -MaxLag
  BY <1>2, <1>6, <1>7
<1>9. TypeOK'
  BY <1>1, <1>2, <1>4, <1>5, <1>6, <1>8 DEF TypeOK, tables
<1>10. LagIsKept'
  BY <1>8 DEF LagIsKept
<1> QED BY <1>1, <1>9, <1>10, TablesUntouched

LEMMA TickKeeps ==
  ASSUME SchedulerAssumption, IInv, TickNow \/ (\E j \in Jobs : TickPush(j)) \/ TickSleep
  PROVE  IInv'
<1> USE DEF IInv
<1>1. UNCHANGED tables /\ UNCHANGED <<next_tick, since>>
  BY DEF TickNow, TickPush, TickSleep, groupVars, tables
<1>2. CASE TickNow
  <2>1. 0 \in 0..MaxLag
    BY DEF SchedulerAssumption
  <2> QED BY <1>1, <1>2, <2>1, TablesUntouched DEF TickNow, TypeOK, tables, LagIsKept
<1>3. ASSUME NEW j \in Jobs, TickPush(j) PROVE IInv'
  <2>1. queue' \in Seq(Jobs) /\ Len(queue') <= MaxQueue /\ due' \subseteq Jobs
    BY <1>3 DEF TickPush, TypeOK, SchedulerAssumption
  <2>2. worker' \in [Workers -> Jobs \cup {"ready", "asleep"}]
    BY <1>3 DEF TickPush, Notified, TypeOK
  <2> QED BY <1>1, <1>3, <2>1, <2>2, TablesUntouched DEF TickPush, TypeOK, tables, LagIsKept
<1>4. CASE TickSleep
  BY <1>1, <1>4, TablesUntouched DEF TickSleep, TypeOK, tables, LagIsKept
<1> QED BY <1>2, <1>3, <1>4

LEMMA WorkKeeps ==
  ASSUME SchedulerAssumption, IInv, NEW w \in Workers, Work(w) \/ SpuriousWake(w)
  PROVE  IInv'
<1> USE DEF IInv
<1>1. UNCHANGED tables /\ UNCHANGED <<next_tick, since, tick, age, due>>
  BY DEF Work, Pop, Wait, Pushed, SpuriousWake, groupVars, tickVars, tables
<1>2. /\ queue' \in Seq(Jobs) /\ Len(queue') <= MaxQueue
      /\ worker' \in [Workers -> Jobs \cup {"ready", "asleep"}]
  <2>1. CASE Pop(w)
    <3>1. Head(queue) \in Jobs /\ Tail(queue) \in Seq(Jobs) /\ Len(Tail(queue)) <= MaxQueue
      BY <2>1 DEF Pop, TypeOK, SchedulerAssumption
    <3> QED BY <2>1, <3>1 DEF Pop, TypeOK
  <2>2. CASE Wait(w) \/ Pushed(w) \/ SpuriousWake(w)
    BY <2>2 DEF Wait, Pushed, SpuriousWake, TypeOK
  <2> QED BY <2>1, <2>2 DEF Work
<1> QED BY <1>1, <1>2, TablesUntouched DEF TypeOK, tables, LagIsKept

LEMMA StepIInv == SchedulerAssumption /\ IInv /\ [Next]_vars => IInv'
<1> SUFFICES ASSUME SchedulerAssumption, IInv, [Next]_vars PROVE IInv'
  OBVIOUS
<1>1. CASE UNCHANGED vars
  <2>1. UNCHANGED tables
    BY <1>1 DEF vars, tables
  <2> QED BY <1>1, <2>1, TablesUntouched DEF vars, IInv, TypeOK, LagIsKept
<1>2. ASSUME NEW g \in Groups, Group(g) PROVE IInv'
  BY <1>2, RegisterKeyKeeps, RegisterBucketKeeps, SetStateKeeps, UnregisterKeyKeeps,
     UnregisterBucketKeeps DEF Group
<1> QED
  BY <1>1, <1>2, PassKeeps, CollectKeeps, TickKeeps, WorkKeeps DEF Next, Tick

\* The keys, the registry and the buckets agree with the lives of the groups, always.
THEOREM Invariance == Spec => []IInv
BY SchedulerAssumption, InitIInv, StepIInv, PTL DEF Spec

\* Every variable keeps its type; no bucket is later than the bound of the clock.
THEOREM TypeCorrect == Spec => []TypeOK
<1>1. IInv => TypeOK
  BY DEF IInv
<1> QED BY <1>1, Invariance, PTL

\* A registered group stays in the registry and in the one bucket of its rate whatever
\* other groups do, since no two groups of the process have the same key; one that is
\* gone is in none.
THEOREM StaysScheduled == Spec => []ScheduledWhileRegistered
<1>1. IInv => ScheduledWhileRegistered
  <2> SUFFICES ASSUME IInv, NEW g \in Groups
               PROVE  /\ phase[g] = "registered" =>
                           \E e \in registry :
                             /\ e.job = g /\ e.key = key[g]
                             /\ \A d \in Durations : g \in bucket[d] <=> d = e.rate
                      /\ phase[g] = "gone" =>
                           /\ \A e \in registry : e.job # g
                           /\ \A d \in Durations : g \notin bucket[d]
    BY DEF ScheduledWhileRegistered
  <2>1. ASSUME phase[g] = "registered"
        PROVE  \E e \in registry :
                 /\ e.job = g /\ e.key = key[g]
                 /\ \A d \in Durations : g \in bucket[d] <=> d = e.rate
    <3>1. PICK e \in registry : e.job = g
      BY <2>1 DEF IInv, Tables, RegistryIsOfTheLiving
    <3>2. e.key = key[g] /\ \A d \in Durations : g \in bucket[d] <=> d = e.rate
      BY <2>1, <3>1 DEF IInv, Tables, RegistryIsOfTheLiving, BucketsAreOfTheLiving
    <3> QED BY <3>1, <3>2
  <2>2. ASSUME phase[g] = "gone"
        PROVE  /\ \A e \in registry : e.job # g
               /\ \A d \in Durations : g \notin bucket[d]
    BY <2>2 DEF IInv, Tables, RegistryIsOfTheLiving, BucketsAreOfTheLiving
  <2> QED BY <2>1, <2>2
<1> QED BY <1>1, Invariance, PTL

-----------------------------------------------------------------------------
LEMMA InitAwake == Init => NoLostWakeup
BY DEF Init, NoLostWakeup

LEMMA StepAwake ==
  SchedulerAssumption /\ TypeOK /\ NoLostWakeup /\ [Next]_vars => NoLostWakeup'
<1> SUFFICES ASSUME SchedulerAssumption, TypeOK, NoLostWakeup, [Next]_vars PROVE NoLostWakeup'
  OBVIOUS
<1>1. CASE UNCHANGED <<queue, worker>>
  BY <1>1 DEF NoLostWakeup
<1>2. ASSUME NEW j \in Jobs, TickPush(j) PROVE NoLostWakeup'
  <2> DEFINE asleep == {w \in Workers : worker[w] = "asleep"}
  <2>1. CASE asleep = {}
    <3>1. worker' = worker
      BY <1>2, <2>1 DEF TickPush, Notified
    <3>2. PICK w \in Workers : TRUE
      BY DEF SchedulerAssumption
    <3> QED BY <2>1, <3>1, <3>2 DEF NoLostWakeup
  <2>2. CASE asleep # {}
    <3>1. worker' \in {[worker EXCEPT ![w] = "ready"] : w \in asleep}
      BY <1>2, <2>2 DEF TickPush, Notified
    <3>2. PICK w \in asleep : worker' = [worker EXCEPT ![w] = "ready"]
      BY <3>1
    <3>3. worker'[w] = "ready"
      BY <3>2 DEF TypeOK
    <3> QED BY <3>2, <3>3 DEF NoLostWakeup
  <2> QED BY <2>1, <2>2
<1>3. ASSUME NEW w \in Workers, Work(w) \/ SpuriousWake(w) PROVE NoLostWakeup'
  <2>1. CASE Wait(w)
    BY <2>1 DEF Wait, NoLostWakeup
  <2>2. CASE Pop(w)
    <3>1. Head(queue) \in Groups
      BY <2>2 DEF Pop, TypeOK, Jobs
    <3>2. worker'[w] = Head(queue) /\ Head(queue) # "asleep"
      BY <2>2, <3>1 DEF Pop, TypeOK, SchedulerAssumption
    <3> QED BY <3>2 DEF NoLostWakeup
  <2>3. CASE Pushed(w) \/ SpuriousWake(w)
    <3>1. worker'[w] = "ready"
      BY <2>3 DEF Pushed, SpuriousWake, TypeOK
    <3> QED BY <3>1 DEF NoLostWakeup
  <2> QED BY <1>3, <2>1, <2>2, <2>3 DEF Work
<1> QED
  BY <1>1, <1>2, <1>3 DEF Next, Tick, Group, RegisterKey, RegisterBucket, SetState, UnregisterKey,
     UnregisterBucket, Pass, TickNow, TickCollect, TickSleep, vars

\* A job never waits while every worker sleeps: the push notifies under the lock under
\* which a worker looks at the queue and goes to sleep.
THEOREM NoWakeupLost == Spec => []NoLostWakeup
BY SchedulerAssumption, InitAwake, StepAwake, TypeCorrect, PTL DEF Spec
-----------------------------------------------------------------------------
(* How far apart the instants are at which a job falls due.                *)

\* A bucket with jobs has an instant; of a job that was due, the bucket is due again no
\* sooner than its rate after that.
DueApart ==
  /\ \A d \in Durations : bucket[d] # {} => d \in DOMAIN next_tick
  /\ \A g \in Groups : since[g] # Never => phase[g] \in {"registered", "dropping"}
  /\ \A d \in Durations : \A g \in bucket[d] : since[g] # Never => since[g] + next_tick[d] >= d

LEMMA OneBucket ==
  ASSUME IInv, NEW d \in Durations, NEW e \in Durations, NEW g \in bucket[d], g \in bucket[e]
  PROVE  d = e
<1>1. g \in Groups /\ phase[g] \in {"registered", "dropping"}
  BY DEF IInv, TypeOK, Jobs, Tables, BucketsAreOfTheLiving
<1>2. CASE phase[g] = "registered"
  <2>1. PICK entry \in registry : entry.job = g
    BY <1>1, <1>2 DEF IInv, Tables, RegistryIsOfTheLiving
  <2> QED BY <1>2, <2>1 DEF IInv, Tables, BucketsAreOfTheLiving
<1>3. CASE phase[g] = "dropping"
  BY <1>1, <1>3 DEF IInv, Tables, BucketsAreOfTheLiving
<1> QED BY <1>1, <1>2, <1>3

LEMMA Instants ==
  ASSUME SchedulerAssumption, TypeOK
  PROVE  /\ MaxLag \in Nat /\ age \in Nat
         /\ \A d \in Durations : d \in Nat /\ bucket[d] \subseteq Groups
         /\ \A d \in DOMAIN next_tick : d \in Durations /\ next_tick[d] \in Int
         /\ \A g \in Groups : since[g] # Never => since[g] \in Nat
<1>1. MaxLag \in Nat /\ age \in Nat
  BY DEF SchedulerAssumption, TypeOK
<1>2. \A d \in Durations : d \in Nat /\ bucket[d] \subseteq Groups
  BY DurationsArePositive DEF TypeOK, Jobs
<1>3. \A d \in DOMAIN next_tick : d \in Durations /\ next_tick[d] \in Int
  BY <1>1, <1>2 DEF TypeOK
<1>4. \A g \in Groups : since[g] # Never => since[g] \in Nat
  BY DEF TypeOK
<1> QED BY <1>1, <1>2, <1>3, <1>4

LEMMA InitApart == SchedulerAssumption /\ Init => DueApart
BY DEF Init, DueApart

LEMMA RegisterBucketApart ==
  ASSUME SchedulerAssumption, IInv, DueApart, NEW g \in Groups, RegisterBucket(g)
  PROVE  DueApart'
<1> DEFINE r == Duration(update_rate[g])
<1>1. /\ phase[g] = "new" /\ phase' = [phase EXCEPT ![g] = "registered"]
      /\ bucket' = [bucket EXCEPT ![r] = @ \cup {g}]
      /\ next_tick' = [e \in DOMAIN next_tick \cup {r} |->
                         IF e \in DOMAIN next_tick THEN next_tick[e] ELSE r]
      /\ since' = since
  BY DEF RegisterBucket
<1>2. since[g] = Never
  BY <1>1 DEF DueApart
<1>3. r \in Durations
  BY DurationOfARate DEF IInv, TypeOK
<1> HIDE DEF r
<1>4. \A d \in Durations : bucket'[d] = IF d = r THEN bucket[d] \cup {g} ELSE bucket[d]
  BY <1>1, <1>3 DEF IInv, TypeOK
<1>5. /\ DOMAIN next_tick' = DOMAIN next_tick \cup {r}
      /\ \A d \in DOMAIN next_tick : next_tick'[d] = next_tick[d]
  BY <1>1
<1>6. \A d \in Durations : bucket'[d] # {} => d \in DOMAIN next_tick'
  BY <1>4, <1>5 DEF DueApart
<1>7. \A h \in Groups : since'[h] # Never => phase'[h] \in {"registered", "dropping"}
  BY <1>1, <1>2 DEF DueApart, IInv, TypeOK
<1>8. ASSUME NEW d \in Durations, NEW h \in bucket'[d], since'[h] # Never
      PROVE  since'[h] + next_tick'[d] >= d
  <2>1. h # g /\ h \in bucket[d]
    BY <1>1, <1>2, <1>4, <1>8
  <2> QED BY <1>1, <1>5, <1>8, <2>1 DEF DueApart
<1> QED BY <1>6, <1>7, <1>8 DEF DueApart

LEMMA UnregisterBucketApart ==
  ASSUME SchedulerAssumption, IInv, DueApart, NEW g \in Groups, UnregisterBucket(g)
  PROVE  DueApart'
<1>1. /\ phase' = [phase EXCEPT ![g] = "gone"] /\ since' = [since EXCEPT ![g] = Never]
      /\ next_tick' = next_tick
  BY DEF UnregisterBucket
<1>2. \A d \in Durations : bucket'[d] \subseteq bucket[d]
  BY DEF UnregisterBucket
<1>3. \A h \in Groups : since'[h] # Never => h # g /\ since'[h] = since[h] /\ phase'[h] = phase[h]
  BY <1>1 DEF IInv, TypeOK
<1>4. \A d \in Durations : bucket[d] \subseteq Groups
  BY Instants DEF IInv
<1> QED BY <1>1, <1>2, <1>3, <1>4 DEF DueApart

LEMMA PassApart ==
  ASSUME SchedulerAssumption, IInv, DueApart, Pass PROVE DueApart'
<1>1. /\ UNCHANGED <<phase, bucket>> /\ DOMAIN next_tick' = DOMAIN next_tick
      /\ \A d \in DOMAIN next_tick : next_tick'[d] = next_tick[d] - 1
      /\ \A g \in Groups : since'[g] = IF since[g] = Never THEN Never ELSE since[g] + 1
  BY DEF Pass, groupVars
<1>2. ASSUME NEW d \in Durations, NEW g \in bucket[d], since'[g] # Never
      PROVE  since'[g] + next_tick'[d] >= d
  <2>1. g \in Groups /\ d \in Nat /\ d \in DOMAIN next_tick
    BY Instants DEF IInv, DueApart
  <2>2. since[g] # Never /\ since'[g] = since[g] + 1 /\ next_tick'[d] = next_tick[d] - 1
    BY <1>1, <1>2, <2>1
  <2>3. since[g] \in Nat /\ next_tick[d] \in Int /\ since[g] + next_tick[d] >= d
    BY <2>1, <2>2, Instants DEF IInv, DueApart
  <2> QED BY <2>1, <2>2, <2>3
<1> QED BY <1>1, <1>2 DEF DueApart

\* What is due now was due a rate ago at least, and is due again a rate from now.
LEMMA CollectApart ==
  ASSUME SchedulerAssumption, IInv, DueApart, TickCollect
  PROVE  /\ DueApart'
         /\ \A g \in due' : since[g] # Never =>
              \E d \in Durations : g \in bucket[d] /\ since[g] - age >= d
<1> DEFINE chosen == {d \in DOMAIN next_tick : next_tick[d] <= -age}
<1>1. /\ UNCHANGED <<phase, bucket>> /\ DOMAIN next_tick' = DOMAIN next_tick
      /\ \A d \in DOMAIN next_tick :
           next_tick'[d] = IF d \in chosen THEN d - age ELSE next_tick[d]
      /\ due' = UNION {bucket[d] : d \in chosen}
      /\ \A g \in Groups : since'[g] = IF g \in due' THEN age ELSE since[g]
  BY DEF TickCollect, IsDue, NextDue, groupVars
<1>2. chosen \subseteq Durations /\ \A d \in chosen : d \in DOMAIN next_tick /\ next_tick[d] <= -age
  BY Instants DEF IInv
<1> HIDE DEF chosen
<1>3. \A d \in Durations : \A g \in bucket[d] :
        g \in Groups /\ d \in Nat /\ d \in DOMAIN next_tick /\ (g \in due' <=> d \in chosen)
  <2> SUFFICES ASSUME NEW d \in Durations, NEW g \in bucket[d]
               PROVE  g \in Groups /\ d \in Nat /\ d \in DOMAIN next_tick
                        /\ (g \in due' <=> d \in chosen)
    OBVIOUS
  <2>1. g \in Groups /\ d \in Nat /\ d \in DOMAIN next_tick
    BY Instants DEF IInv, DueApart
  <2>2. ASSUME g \in due' PROVE d \in chosen
    <3>1. PICK e \in chosen : g \in bucket[e]
      BY <1>1, <2>2
    <3> QED BY <1>2, <3>1, OneBucket
  <2> QED BY <1>1, <2>1, <2>2
<1>4. ASSUME NEW d \in Durations, NEW g \in bucket[d], since'[g] # Never
      PROVE  since'[g] + next_tick'[d] >= d
  <2>1. CASE d \in chosen
    <3>1. since'[g] = age /\ next_tick'[d] = d - age /\ age \in Nat /\ d \in Nat
      BY <1>1, <1>3, <2>1, Instants DEF IInv
    <3> QED BY <3>1
  <2>2. CASE d \notin chosen
    BY <1>1, <1>3, <1>4, <2>2 DEF DueApart
  <2> QED BY <2>1, <2>2
<1>5. \A g \in Groups : since'[g] # Never => phase[g] \in {"registered", "dropping"}
  <2>1. \A g \in due' : phase[g] \in {"registered", "dropping"}
    BY <1>1, <1>2 DEF IInv, Tables, BucketsAreOfTheLiving
  <2> QED BY <1>1, <2>1 DEF DueApart
<1>6. ASSUME NEW g \in due', since[g] # Never
      PROVE  \E d \in Durations : g \in bucket[d] /\ since[g] - age >= d
  <2>1. PICK d \in chosen : g \in bucket[d]
    BY <1>1
  <2>2. d \in Durations /\ next_tick[d] <= -age /\ g \in Groups /\ d \in Nat
    BY <1>2, <1>3, <2>1
  <2>3. since[g] \in Nat /\ next_tick[d] \in Int /\ age \in Nat /\ since[g] + next_tick[d] >= d
    BY <1>2, <1>6, <2>1, <2>2, Instants DEF IInv, DueApart
  <2>4. since[g] - age >= d
    BY <2>2, <2>3
  <2> QED BY <2>1, <2>2, <2>4
<1> QED BY <1>1, <1>3, <1>4, <1>5, <1>6 DEF DueApart

LEMMA StepApart ==
  ASSUME SchedulerAssumption, IInv, DueApart, [Next]_vars
  PROVE  DueApart' /\ (TickCollect \/ ~(tick = "lock" /\ tick' = "push"))
<1>1. CASE UNCHANGED vars
  BY <1>1 DEF vars, DueApart
<1>2. ASSUME NEW g \in Groups, Group(g) PROVE DueApart' /\ tick' = tick
  <2>1. ASSUME RegisterKey(g) \/ UnregisterKey(g) PROVE DueApart'
    <3>1. /\ \A h \in Groups \ {g} : phase'[h] = phase[h]
          /\ UNCHANGED <<bucket, next_tick, since>>
      BY <2>1 DEF RegisterKey, UnregisterKey, IInv, TypeOK
    <3>2. since[g] # Never => phase'[g] \in {"registered", "dropping"}
      BY <2>1 DEF RegisterKey, UnregisterKey, DueApart, IInv, TypeOK
    <3> QED BY <3>1, <3>2 DEF DueApart
  <2>2. ASSUME NEW r \in Rates, SetState(g, r) PROVE DueApart'
    BY <2>2 DEF SetState, DueApart
  <2>3. tick' = tick
    BY <1>2 DEF Group, RegisterKey, RegisterBucket, UnregisterKey, UnregisterBucket, SetState,
       tickVars
  <2> QED
    BY <1>2, <2>1, <2>2, <2>3, RegisterBucketApart, UnregisterBucketApart DEF Group
<1>3. CASE Pass
  <2>1. tick # "sleep" => tick' = tick
    BY <1>3 DEF Pass
  <2> QED BY <1>3, <2>1, PassApart
<1>4. CASE TickCollect
  BY <1>4, CollectApart
<1>5. ASSUME TickNow \/ (\E j \in Jobs : TickPush(j)) \/ TickSleep
      PROVE  DueApart' /\ ~(tick = "lock" /\ tick' = "push")
  BY <1>5 DEF TickNow, TickPush, TickSleep, groupVars, DueApart
<1>6. ASSUME NEW w \in Workers, Work(w) \/ SpuriousWake(w) PROVE DueApart' /\ tick' = tick
  BY <1>6 DEF Work, Pop, Wait, Pushed, SpuriousWake, groupVars, tickVars, DueApart
<1> QED BY <1>1, <1>2, <1>3, <1>4, <1>5, <1>6 DEF Next, Tick, vars

\* No catch-up storm: a tick thread that was late takes the jobs of a bucket once, and the
\* instants it takes them at are a rate apart.
THEOREM NoStorm == Spec => NoCatchUp
<1>1. SchedulerAssumption /\ IInv /\ DueApart /\ [Next]_vars => DueApart'
  BY StepApart
<1>2. SchedulerAssumption /\ IInv /\ DueApart /\ [Next]_vars =>
        [\A g \in Groups :
           tick = "lock" /\ tick' = "push" /\ g \in due' /\ since[g] # Never =>
             \E d \in Durations : g \in bucket[d] /\ since[g] - age >= d]_vars
  BY StepApart, CollectApart
<1> QED BY <1>1, <1>2, SchedulerAssumption, InitApart, Invariance, PTL DEF Spec, NoCatchUp
=============================================================================

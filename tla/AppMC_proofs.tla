----------------------------- MODULE AppMC_proofs -----------------------------
(***************************************************************************)
(* Proofs about the components that AppMC composes, for every value of     *)
(* their constants.  Each has an inductive invariant and a theorem of its  *)
(* own; the composition implements each of them, and inherits what was     *)
(* proved.  ObsQueue has its proofs in ObsQueue_proofs.                    *)
(***************************************************************************)
EXTENDS AppMC, ObsQueue_proofs, Sequences, FiniteSetTheorems

-----------------------------------------------------------------------------
(* The objects of the virtual camera.                                      *)

MakerHas(o) == IF making.object = o THEN 1 ELSE 0

(* Every reference is one the client has, or the maker's own; a call in    *)
(* progress keeps one, and so does the factory's while it makes a source.  *)
Counted ==
  /\ \A o \in Objects!Objects : ref[o] = held[o] + MakerHas(o)
  /\ making.object = "source" => held["factory"] > 0
  /\ IsFiniteSet(Objects!Inside) /\ Cardinality(Objects!Inside) <= held["source"]

(* What the client may hold beside a maker that has not yet asked.         *)
Bounded ==
  \A o \in Objects!Objects :
    /\ held[o] <= MaxHeld
    /\ making.object = o /\ ~making.asked => held[o] = 0

(* One thread initialises the source at a time, and none is inside while   *)
(* it does.                                                                *)
Guarded ==
  /\ \A t \in Callers : call[t] = "initialising" => objectReady = "running"
  /\ \A t \in Callers : call[t] = "inside" => objectReady = "done"
  /\ \A t, u \in Callers : call[t] = "initialising" /\ call[u] = "initialising" => t = u

ObjectsInv == Objects!TypeOK /\ Counted /\ Bounded /\ Guarded

LEMMA ObjectsConstants == MaxHeld \in Nat /\ MaxHeld > 0
BY ConstantsAssumption

LEMMA ObjectsInitially == Objects!Init => ObjectsInv
<1>. SUFFICES ASSUME Objects!Init PROVE ObjectsInv
  OBVIOUS
<1>1. Objects!Inside = {} /\ IsFiniteSet({}) /\ Cardinality({}) = 0
  BY FS_EmptySet DEF Objects!Init, Objects!Inside
<1>2. Objects!TypeOK /\ Bounded
  BY ObjectsConstants
  DEF Objects!Init, Objects!TypeOK, Objects!Objects, Objects!NoMaking, Bounded
<1>3. Counted
  BY <1>1 DEF Objects!Init, Objects!Objects, Objects!NoMaking, Counted, MakerHas
<1>4. Guarded
  BY DEF Objects!Init, Guarded
<1>. QED  BY <1>2, <1>3, <1>4 DEF ObjectsInv

(* What the types say of one object.                                       *)
LEMMA ObjectTyped ==
  ASSUME ObjectsInv
  PROVE  /\ ref \in [Objects!Objects -> Nat] /\ held \in [Objects!Objects -> Nat]
         /\ \A o \in Objects!Objects : ref[o] = held[o] + MakerHas(o) /\ MakerHas(o) \in {0, 1}
         /\ IsFiniteSet(Objects!Inside) /\ Cardinality(Objects!Inside) \in Nat
BY ObjectsConstants, FS_CardinalityType
DEF ObjectsInv, Objects!TypeOK, Counted, MakerHas

LEMMA SourceTyped ==
  ASSUME ObjectsInv
  PROVE  /\ {held["source"], held["factory"]} \subseteq Nat
         /\ ref["source"] \in Nat
BY ObjectTyped DEF Objects!Objects

LEMMA SameCardinality == \A S : Objects!Cardinality(S) = Cardinality(S)
BY DEF Objects!Cardinality, Cardinality

LEMMA ObjectUses ==
  /\ Objects!InUse("source") = Cardinality(Objects!Inside)
  /\ Objects!InUse("factory") \in {0, 1}
  /\ making # Objects!NoMaking /\ making.object = "source" => Objects!InUse("factory") = 1
BY SameCardinality DEF Objects!InUse

(* A step that leaves the calls alone, and so the count of those inside.   *)
LEMMA CallsKept ==
  ASSUME ObjectsInv, UNCHANGED call,
         objectReady' = objectReady \/ Objects!Inside = {}
  PROVE  Objects!Inside' = Objects!Inside /\ Guarded'
BY DEF ObjectsInv, Guarded, Objects!Inside

(* An object is made, when nobody has it.                                  *)
LEMMA ObjectMade ==
  ASSUME ObjectsInv, NEW o \in Objects!Objects, NEW has \in BOOLEAN, Objects!Make(o, has)
  PROVE  ObjectsInv'
<1>1. /\ making = Objects!NoMaking /\ ref[o] = 0 /\ held[o] = 0
      /\ o = "source" => held["factory"] > 0
      /\ ref' = [ref EXCEPT ![o] = 1] /\ UNCHANGED <<held, call>>
      /\ making' = [object |-> o, has |-> has, asked |-> FALSE]
      /\ objectReady' = IF o = "source" THEN "no" ELSE objectReady
  BY ObjectTyped DEF Objects!Make
<1>2. o = "source" => Objects!Inside = {}
  BY <1>1, ObjectTyped, FS_EmptySet DEF ObjectsInv, Counted
<1>3. Objects!TypeOK'
  BY <1>1, ObjectsConstants DEF ObjectsInv, Objects!TypeOK
<1>4. Objects!Inside' = Objects!Inside /\ Guarded'
  BY <1>1, <1>2, CallsKept
<1>5. \A p \in Objects!Objects : MakerHas(p)' = IF p = o THEN 1 ELSE 0
  BY <1>1 DEF MakerHas
<1>6. \A p \in Objects!Objects : MakerHas(p) = 0
  BY <1>1 DEF MakerHas, Objects!NoMaking, Objects!Objects
<1>7. Counted'
  BY <1>1, <1>4, <1>5, <1>6, ObjectTyped DEF ObjectsInv, Counted
<1>8. Bounded'
  BY <1>1 DEF ObjectsInv, Bounded, Objects!NoMaking, Objects!Objects
<1>. QED  BY <1>3, <1>4, <1>7, <1>8 DEF ObjectsInv

(* The maker asks for the interface, and lets its own reference go.        *)
LEMMA MakerStepped ==
  ASSUME ObjectsInv, Objects!MakerQueries \/ Objects!MakerReleases
  PROVE  ObjectsInv'
<1>1. PICK o \in Objects!Objects : making.object = o
  BY DEF ObjectsInv, Objects!TypeOK, Objects!MakerQueries, Objects!MakerReleases
<1>2. Objects!Inside' = Objects!Inside /\ Guarded'
  BY CallsKept DEF Objects!MakerQueries, Objects!MakerReleases
<1>3. making \in [object : Objects!Objects, has : BOOLEAN, asked : BOOLEAN]
  BY DEF ObjectsInv, Objects!TypeOK, Objects!MakerQueries, Objects!MakerReleases
<1>4. CASE Objects!MakerQueries
  <2>1. /\ ~making.asked /\ held[o] = 0 /\ ref[o] = 1
    BY <1>1, <1>4, ObjectTyped DEF Objects!MakerQueries, ObjectsInv, Bounded, MakerHas
  <2>2. /\ making' \in [object : Objects!Objects, has : BOOLEAN, asked : BOOLEAN]
        /\ making'.object = o /\ making'.asked
    BY <1>1, <1>3, <1>4 DEF Objects!MakerQueries
  <2>3. /\ UNCHANGED <<objectReady, call>>
        /\ \/ UNCHANGED <<ref, held>>
           \/ ref' = [ref EXCEPT ![o] = 2] /\ held' = [held EXCEPT ![o] = 1]
    BY <1>1, <1>4, <2>1, ObjectTyped DEF Objects!MakerQueries, Objects!QueryInterface
  <2>4. Objects!TypeOK'
    BY <2>2, <2>3, ObjectsConstants DEF ObjectsInv, Objects!TypeOK
  <2>5. Counted'
    <3>1. \A p \in Objects!Objects : MakerHas(p)' = MakerHas(p)
      BY <1>1, <2>2 DEF MakerHas
    <3>2. \A p \in Objects!Objects : ref'[p] = held'[p] + MakerHas(p) /\ held'[p] >= held[p]
      BY <2>1, <2>3, ObjectTyped
    <3>3. /\ held'["source"] \in Nat /\ held'["source"] >= held["source"]
          /\ held'["factory"] \in Nat /\ held'["factory"] >= held["factory"]
      BY <2>1, <2>3, ObjectTyped DEF Objects!Objects
    <3>4. /\ Cardinality(Objects!Inside) <= held'["source"]
          /\ making'.object = "source" => held'["factory"] > 0
      <4>1. /\ Cardinality(Objects!Inside) <= held["source"]
            /\ making.object = "source" => held["factory"] > 0
        BY DEF ObjectsInv, Counted
      <4>. QED  BY <1>1, <2>2, <3>3, <4>1, ObjectTyped, SourceTyped
    <3>. QED
      BY <1>2, <3>1, <3>2, <3>4, ObjectTyped DEF Counted
  <2>6. Bounded'
    BY <2>2, <2>3, ObjectTyped, ObjectsConstants DEF ObjectsInv, Bounded
  <2>. QED
    BY <1>2, <2>4, <2>5, <2>6 DEF ObjectsInv
<1>5. CASE Objects!MakerReleases
  <2>1. /\ ref' = [ref EXCEPT ![o] = @ - 1] /\ making' = Objects!NoMaking
        /\ UNCHANGED <<held, objectReady, call>> /\ ref[o] = held[o] + 1
    BY <1>1, <1>5, ObjectTyped DEF Objects!MakerReleases, Objects!Drop, MakerHas
  <2>2. Objects!TypeOK'
    <3>1. ref[o] - 1 \in 0 .. MaxHeld + 1
      BY <2>1, ObjectTyped, ObjectsConstants DEF ObjectsInv, Objects!TypeOK
    <3>. QED  BY <2>1, <3>1 DEF ObjectsInv, Objects!TypeOK
  <2>3. \A p \in Objects!Objects : MakerHas(p)' = 0 /\ MakerHas(p) = IF p = o THEN 1 ELSE 0
    BY <1>1, <2>1 DEF MakerHas, Objects!NoMaking, Objects!Objects
  <2>4. Counted'
    BY <1>2, <2>1, <2>3, ObjectTyped DEF ObjectsInv, Counted, Objects!NoMaking
  <2>5. Bounded'
    BY <2>1 DEF ObjectsInv, Bounded, Objects!NoMaking, Objects!Objects
  <2>. QED
    BY <1>2, <2>2, <2>4, <2>5 DEF ObjectsInv
<1>. QED  BY <1>4, <1>5

(* The client takes one more reference, or gives one back that no call     *)
(* needs.                                                                  *)
LEMMA ClientCounts ==
  ASSUME ObjectsInv, NEW o \in Objects!Objects, Objects!AddRef(o) \/ Objects!Release(o)
  PROVE  ObjectsInv'
<1>1. /\ UNCHANGED <<making, objectReady, call>>
      /\ \/ /\ held[o] \in 1 .. MaxHeld - 1
            /\ ref' = [ref EXCEPT ![o] = @ + 1] /\ held' = [held EXCEPT ![o] = @ + 1]
         \/ /\ held[o] > Objects!InUse(o)
            /\ ref' = [ref EXCEPT ![o] = @ - 1] /\ held' = [held EXCEPT ![o] = @ - 1]
  BY DEF Objects!AddRef, Objects!Release, Objects!QueryInterface, Objects!Drop
<1>2. Objects!Inside' = Objects!Inside /\ Guarded'
  BY <1>1, CallsKept
<1>3. Objects!InUse(o) \in Nat
  BY ObjectTyped, ObjectUses DEF Objects!Objects
<1>4. \A p \in Objects!Objects : MakerHas(p)' = MakerHas(p)
  BY <1>1 DEF MakerHas
<1>5. CASE /\ held[o] \in 1 .. MaxHeld - 1
           /\ ref' = [ref EXCEPT ![o] = @ + 1] /\ held' = [held EXCEPT ![o] = @ + 1]
  <2>1. ref[o] + 1 \in 0 .. MaxHeld + 1 /\ held[o] + 1 \in 0 .. MaxHeld
    BY <1>5, ObjectTyped, ObjectsConstants
  <2>2. Objects!TypeOK'
    BY <1>1, <1>5, <2>1, ObjectsConstants DEF ObjectsInv, Objects!TypeOK
  <2>3. Counted'
    BY <1>1, <1>2, <1>4, <1>5, ObjectTyped DEF ObjectsInv, Counted, Objects!Objects
  <2>4. Bounded'
    BY <1>1, <1>5, <2>1, ObjectTyped, ObjectsConstants DEF ObjectsInv, Bounded
  <2>. QED
    BY <1>2, <2>2, <2>3, <2>4 DEF ObjectsInv
<1>6. CASE /\ held[o] > Objects!InUse(o)
           /\ ref' = [ref EXCEPT ![o] = @ - 1] /\ held' = [held EXCEPT ![o] = @ - 1]
  <2>1. ref[o] - 1 \in 0 .. MaxHeld + 1 /\ held[o] - 1 \in 0 .. MaxHeld
    BY <1>3, <1>6, ObjectTyped, ObjectsConstants DEF ObjectsInv, Objects!TypeOK, Bounded
  <2>2. Objects!TypeOK'
    BY <1>1, <1>6, <2>1, ObjectsConstants DEF ObjectsInv, Objects!TypeOK
  <2>3. \A p \in Objects!Objects : ref'[p] = held'[p] + MakerHas(p)
    BY <1>6, ObjectTyped
  <2>4. making.object = "source" => held'["factory"] > 0
    <3>1. CASE o = "factory" /\ making.object = "source"
      BY <1>6, <3>1, ObjectTyped, ObjectUses DEF Objects!NoMaking
    <3>. QED  BY <1>6, <3>1, ObjectTyped DEF ObjectsInv, Counted, Objects!Objects
  <2>5. Cardinality(Objects!Inside) <= held'["source"]
    <3>1. CASE o = "source"
      BY <1>6, <3>1, ObjectTyped, ObjectUses
    <3>. QED  BY <1>6, <3>1, ObjectTyped DEF ObjectsInv, Counted, Objects!Objects
  <2>6. Counted'
    BY <1>1, <1>2, <1>4, <2>3, <2>4, <2>5, ObjectTyped DEF Counted
  <2>7. Bounded'
    BY <1>1, <1>6, <2>1, ObjectTyped, ObjectsConstants DEF ObjectsInv, Bounded
  <2>. QED
    BY <1>2, <2>2, <2>6, <2>7 DEF ObjectsInv
<1>. QED  BY <1>1, <1>5, <1>6

(* A thread enters a method or leaves it: the count of those inside        *)
(* changes by one, and never exceeds the references.                       *)
LEMMA CallMoves ==
  ASSUME ObjectsInv, NEW t \in Callers, NEW place \in {"outside", "ensure", "initialising", "inside"},
         NEW ready2 \in {"no", "running", "done", "failed"},
         call' = [call EXCEPT ![t] = place], objectReady' = ready2,
         UNCHANGED <<ref, held, making>>,
         call[t] = "outside" => Cardinality(Objects!Inside) < held["source"],
         place = "initialising" => ready2 = "running" /\ \A u \in Callers : call[u] # "initialising",
         place = "inside" => ready2 = "done",
         \A u \in Callers \ {t} : /\ call[u] = "initialising" => ready2 = "running"
                                  /\ call[u] = "inside" => ready2 = "done"
  PROVE  ObjectsInv'
<1>1. Objects!TypeOK'
  BY DEF ObjectsInv, Objects!TypeOK
<1>2. Guarded'
  BY DEF ObjectsInv, Objects!TypeOK, Guarded
<1>3. /\ Objects!Inside' \in {Objects!Inside \cup {t}, Objects!Inside \ {t}}
      /\ place # "outside" => Objects!Inside' = Objects!Inside \cup {t}
      /\ place = "outside" => Objects!Inside' = Objects!Inside \ {t}
      /\ (t \in Objects!Inside <=> call[t] # "outside")
  BY DEF ObjectsInv, Objects!TypeOK, Objects!Inside
<1>4. /\ IsFiniteSet(Objects!Inside') /\ Cardinality(Objects!Inside') \in Nat
      /\ Cardinality(Objects!Inside') <= held["source"]
  <2>1. CASE place = "outside"
    <3>1. /\ IsFiniteSet(Objects!Inside \ {t})
          /\ Cardinality(Objects!Inside \ {t}) =
               IF t \in Objects!Inside THEN Cardinality(Objects!Inside) - 1
               ELSE Cardinality(Objects!Inside)
      BY ObjectTyped, FS_RemoveElement
    <3>2. Cardinality(Objects!Inside \ {t}) \in Nat
      BY <3>1, FS_CardinalityType
    <3>3. Cardinality(Objects!Inside) <= held["source"]
      BY DEF ObjectsInv, Counted
    <3>. QED
      BY <1>3, <2>1, <3>1, <3>2, <3>3, ObjectTyped, SourceTyped
  <2>2. CASE place # "outside"
    <3>1. /\ IsFiniteSet(Objects!Inside \cup {t})
          /\ Cardinality(Objects!Inside \cup {t}) =
               IF t \in Objects!Inside THEN Cardinality(Objects!Inside)
               ELSE Cardinality(Objects!Inside) + 1
      BY ObjectTyped, FS_AddElement
    <3>2. Cardinality(Objects!Inside \cup {t}) \in Nat
      BY <3>1, FS_CardinalityType
    <3>3. Cardinality(Objects!Inside) <= held["source"]
      BY DEF ObjectsInv, Counted
    <3>. QED
      BY <1>3, <2>2, <3>1, <3>2, <3>3, ObjectTyped, SourceTyped
  <2>. QED  BY <2>1, <2>2
<1>5. Counted' /\ Bounded'
  <2>1. Cardinality(Objects!Inside)' = Cardinality(Objects!Inside')
    OBVIOUS
  <2>. QED  BY <1>4, <2>1, ObjectTyped DEF ObjectsInv, Counted, Bounded, MakerHas
<1>. QED  BY <1>1, <1>2, <1>5 DEF ObjectsInv

LEMMA CallStepped ==
  ASSUME ObjectsInv, NEW t \in Callers,
         \/ Objects!Call(t) \/ Objects!Attribute(t) \/ Objects!Initialise(t)
         \/ Objects!Ensured(t) \/ Objects!Return(t)
         \/ \E outcome \in {"done", "failed"} : Objects!Initialised(t, outcome)
  PROVE  ObjectsInv'
<1>1. objectReady \in {"no", "running", "done", "failed"}
  BY DEF ObjectsInv, Objects!TypeOK
<1>2. CASE Objects!Call(t) \/ Objects!Attribute(t)
  <2>1. Cardinality(Objects!Inside) < held["source"]
    BY <1>2, ObjectUses, ObjectTyped, SourceTyped DEF Objects!Call, Objects!Attribute
  <2>. QED
    BY <1>1, <1>2, <2>1, CallMoves DEF Objects!Call, Objects!Attribute, ObjectsInv, Guarded
<1>3. CASE Objects!Initialise(t)
  BY <1>3, CallMoves DEF Objects!Initialise, ObjectsInv, Guarded
<1>4. CASE Objects!Ensured(t) \/ Objects!Return(t)
  BY <1>1, <1>4, CallMoves DEF Objects!Ensured, Objects!Return, ObjectsInv, Guarded
<1>5. ASSUME NEW outcome \in {"done", "failed"}, Objects!Initialised(t, outcome)
      PROVE  ObjectsInv'
  BY <1>5, CallMoves DEF Objects!Initialised, ObjectsInv, Guarded
<1>. QED  BY <1>2, <1>3, <1>4, <1>5

LEMMA ObjectsPreserved == ObjectsInv /\ [Objects!Next]_(Objects!objectVars) => ObjectsInv'
<1>. SUFFICES ASSUME ObjectsInv, [Objects!Next]_(Objects!objectVars) PROVE ObjectsInv'
  OBVIOUS
<1>1. CASE UNCHANGED Objects!objectVars
  BY <1>1 DEF Objects!objectVars, ObjectsInv, Objects!TypeOK, Counted, Bounded, Guarded,
              MakerHas, Objects!Inside
<1>. QED
  BY <1>1, ObjectMade, MakerStepped, ClientCounts, CallStepped DEF Objects!Next

(* Every object of the camera lives exactly while its maker or the client  *)
(* has it, no call of any thread reaches a deleted one, and none finds it  *)
(* uninitialised; for any number of threads and references.                *)
THEOREM ObjectsAreSound == Objects!Spec => [](Objects!TypeOK /\ Objects!LivesWhileHeld)
<1>1. ObjectsInv => Objects!TypeOK
  BY DEF ObjectsInv
<1>2. ObjectsInv => Objects!LivesWhileHeld
  <2>. SUFFICES ASSUME ObjectsInv PROVE Objects!LivesWhileHeld
    OBVIOUS
  <2>1. \A o \in Objects!Objects : ref[o] = 0 <=> held[o] = 0 /\ making.object # o
    BY ObjectTyped DEF MakerHas
  <2>2. ASSUME Objects!Inside # {} PROVE ref["source"] > 0
    <3>1. Cardinality(Objects!Inside) # 0
      BY <2>2, ObjectTyped, FS_EmptySet
    <3>. QED  BY <3>1, ObjectTyped, SourceTyped DEF ObjectsInv, Counted, Objects!Objects
  <2>3. \A t \in Callers : call[t] = "inside" => objectReady = "done"
    BY DEF ObjectsInv, Guarded
  <2>. QED  BY <2>1, <2>2, <2>3 DEF Objects!LivesWhileHeld
<1>. QED
  BY <1>1, <1>2, ObjectsInitially, ObjectsPreserved, PTL DEF Objects!Spec

-----------------------------------------------------------------------------
(* The usage counters.                                                     *)

UsageInv == Usage!TypeOK /\ Usage!CpuIsMeasured

LEMMA UsageInitially == Usage!Init => UsageInv
BY DEF Usage!Init, UsageInv, Usage!TypeOK, Usage!CpuIsMeasured, Usage!Unavailable,
       Usage!Values, Usage!Providers

LEMMA Collected ==
  ASSUME UsageInv, NEW p \in Usage!Providers, NEW ok \in BOOLEAN, Usage!Collect(p, ok)
  PROVE  collected' \in [Usage!Providers -> 0 .. 2]
BY DEF UsageInv, Usage!TypeOK, Usage!Collect

(* What is published of a provider; of the processor, only a measurement   *)
(* as available.                                                           *)
LEMMA UsagePublished ==
  ASSUME UsageInv, NEW p \in Usage!Providers, NEW available \in BOOLEAN,
         NEW value \in Usage!Values, Usage!Publish(p, available, value),
         p = "cpu" /\ available => value = "measured"
  PROVE  /\ usageShown' \in [Usage!Providers -> [available : BOOLEAN, value : Usage!Values]]
         /\ Usage!CpuIsMeasured'
<1>1. usageShown \in [Usage!Providers -> [available : BOOLEAN, value : Usage!Values]]
  BY DEF UsageInv, Usage!TypeOK
<1>2. usageShown' = [usageShown EXCEPT ![p] = [available |-> available, value |-> value]]
  BY DEF Usage!Publish
<1>3. usageShown' \in [Usage!Providers -> [available : BOOLEAN, value : Usage!Values]]
  BY <1>1, <1>2
<1>4. CASE p = "cpu"
  BY <1>1, <1>2, <1>4 DEF Usage!CpuIsMeasured
<1>5. CASE p # "cpu"
  <2>1. usageShown'["cpu"] = usageShown["cpu"]
    BY <1>1, <1>2, <1>5
  <2>2. usageShown["cpu"].available => usageShown["cpu"].value = "measured"
    BY DEF UsageInv, Usage!CpuIsMeasured
  <2>. QED  BY <1>3, <2>1, <2>2, Zenon DEF Usage!CpuIsMeasured
<1>. QED  BY <1>3, <1>4, <1>5

LEMMA UsageKept ==
  ASSUME UsageInv, UNCHANGED usageShown
  PROVE  /\ usageShown' \in [Usage!Providers -> [available : BOOLEAN, value : Usage!Values]]
         /\ Usage!CpuIsMeasured'
BY DEF UsageInv, Usage!TypeOK, Usage!CpuIsMeasured

LEMMA GpuPublished ==
  ASSUME UsageInv, NEW value \in Usage!Values, Usage!PublishGpu(value)
  PROVE  /\ usageShown' \in [Usage!Providers -> [available : BOOLEAN, value : Usage!Values]]
         /\ Usage!CpuIsMeasured'
<1>1. "gpu" \in Usage!Providers /\ "initial" \in Usage!Values
  BY DEF Usage!Providers, Usage!Values
<1>. QED
  BY <1>1, UsagePublished DEF Usage!PublishGpu

LEMMA UsagePreserved == UsageInv /\ [Usage!Next]_(Usage!vars) => UsageInv'
<1>. SUFFICES ASSUME UsageInv, [Usage!Next]_(Usage!vars) PROVE UsageInv'
  OBVIOUS
<1>1. /\ {"cpu", "gpu", "disk"} = Usage!Providers /\ {"initial", "measured"} = Usage!Values
      /\ usageReady \in [Usage!Providers -> BOOLEAN] /\ seeded \in [Usage!Providers -> BOOLEAN]
      /\ collected \in [Usage!Providers -> 0 .. 2] /\ usage \in Usage!Values
      /\ \A p \in Usage!Providers : usageShown[p].value \in Usage!Values
  BY DEF UsageInv, Usage!TypeOK, Usage!Providers, Usage!Values
<1>2. ASSUME NEW p \in Usage!Providers, Usage!OpenFails(p)
      PROVE  UsageInv'
  BY <1>1, <1>2, UsageKept, UsagePublished DEF Usage!OpenFails, UsageInv, Usage!TypeOK
<1>3. ASSUME NEW p \in Usage!Providers, Usage!OpenAndSeed(p)
      PROVE  UsageInv'
  <2>1. /\ usageReady' \in [Usage!Providers -> BOOLEAN] /\ seeded' \in [Usage!Providers -> BOOLEAN]
        /\ collected' \in [Usage!Providers -> 0 .. 2] /\ usage' \in Usage!Values
    BY <1>1, <1>3, Collected DEF Usage!OpenAndSeed
  <2>2. \/ p = "cpu" /\ Usage!Publish(p, FALSE, usageShown[p].value)
        \/ Usage!PublishGpu(usage)
        \/ UNCHANGED usageShown
    BY <1>1, <1>3 DEF Usage!OpenAndSeed
  <2>3. /\ usageShown' \in [Usage!Providers -> [available : BOOLEAN, value : Usage!Values]]
        /\ Usage!CpuIsMeasured'
    BY <1>1, <2>2, UsageKept, UsagePublished, GpuPublished
  <2>. QED  BY <2>1, <2>3 DEF UsageInv, Usage!TypeOK
<1>4. CASE Usage!RefreshCpu
  <2>1. PICK ok \in BOOLEAN :
          /\ Usage!Collect("cpu", ok)
          /\ Usage!Publish("cpu", TRUE, "measured") \/ UNCHANGED usageShown
    BY <1>4 DEF Usage!RefreshCpu
  <2>2. collected' \in [Usage!Providers -> 0 .. 2]
    BY <1>1, <2>1, Collected
  <2>3. /\ usageShown' \in [Usage!Providers -> [available : BOOLEAN, value : Usage!Values]]
        /\ Usage!CpuIsMeasured'
    BY <1>1, <2>1, UsageKept, UsagePublished
  <2>. QED  BY <1>4, <2>2, <2>3 DEF Usage!RefreshCpu, UsageInv, Usage!TypeOK
<1>5. CASE Usage!RefreshGpu
  <2>1. PICK ok \in BOOLEAN : Usage!Collect("gpu", ok)
    BY <1>5 DEF Usage!RefreshGpu
  <2>2. usage' \in {"measured", usage} /\ Usage!PublishGpu(usage')
    BY <1>5 DEF Usage!RefreshGpu
  <2>3. collected' \in [Usage!Providers -> 0 .. 2] /\ usage' \in Usage!Values
    BY <1>1, <2>1, <2>2, Collected
  <2>4. /\ usageShown' \in [Usage!Providers -> [available : BOOLEAN, value : Usage!Values]]
        /\ Usage!CpuIsMeasured'
    BY <2>2, <2>3, GpuPublished
  <2>. QED  BY <1>5, <2>3, <2>4 DEF Usage!RefreshGpu, UsageInv, Usage!TypeOK
<1>6. CASE Usage!RefreshNoGpu
  BY <1>1, <1>6, UsagePublished DEF Usage!RefreshNoGpu, UsageInv, Usage!TypeOK
<1>7. CASE Usage!RefreshDisk
  <2>1. PICK ok \in BOOLEAN :
          /\ Usage!Collect("disk", ok)
          /\ \/ Usage!Publish("disk", TRUE, "measured")
             \/ Usage!Publish("disk", TRUE, "initial")
             \/ UNCHANGED usageShown
    BY <1>7 DEF Usage!RefreshDisk
  <2>2. collected' \in [Usage!Providers -> 0 .. 2]
    BY <1>1, <2>1, Collected
  <2>3. /\ usageShown' \in [Usage!Providers -> [available : BOOLEAN, value : Usage!Values]]
        /\ Usage!CpuIsMeasured'
    BY <1>1, <2>1, UsageKept, UsagePublished
  <2>. QED  BY <1>7, <2>2, <2>3 DEF Usage!RefreshDisk, UsageInv, Usage!TypeOK
<1>8. CASE UNCHANGED Usage!vars
  BY <1>8 DEF Usage!vars, UsageInv, Usage!TypeOK, Usage!CpuIsMeasured
<1>. QED
  BY <1>2, <1>3, <1>4, <1>5, <1>6, <1>7, <1>8 DEF Usage!Next

(* A processor usage shown as available was measured, whichever of the     *)
(* calls before it failed.                                                 *)
THEOREM UsageIsMeasured == Usage!Spec => [](Usage!TypeOK /\ Usage!CpuIsMeasured)
<1>1. UsageInv => Usage!TypeOK /\ Usage!CpuIsMeasured
  BY DEF UsageInv
<1>. QED
  BY <1>1, UsageInitially, UsagePreserved, PTL DEF Usage!Spec

-----------------------------------------------------------------------------
(* The rates of the network adapters.                                      *)

RatesNone == Rates!None

(* What the next sample would count of an index.                           *)
Uncounted(i) ==
  IF prev[i] # RatesNone /\ octets[i] > prev[i] THEN octets[i] - prev[i] ELSE 0

(* Neither what was counted, nor what the next sample adds, exceeds what   *)
(* was carried since the first sample of the index.                        *)
RatesInv ==
  /\ Rates!TypeOK
  /\ \A i \in Indices : counted[i] + Uncounted(i) <= carried[i]
  /\ \A i \in Indices : prev[i] = RatesNone => counted[i] = 0
  /\ Rates!UnmeasuredIsZero

LEMMA RatesConstants == MaxOctets \in Nat /\ Indices \subseteq Nat /\ RatesNone = -1
BY ConstantsAssumption DEF RatesNone, Rates!None

LEMMA RatesTyped ==
  ASSUME RatesInv, NEW i \in Indices
  PROVE  /\ octets[i] \in Int /\ octets[i] >= -1 /\ octets[i] <= MaxOctets
         /\ prev[i] \in Int /\ prev[i] >= -1 /\ prev[i] <= MaxOctets
         /\ carried[i] \in Nat /\ carried[i] <= MaxOctets /\ counted[i] \in Nat
         /\ counted[i] + Uncounted(i) <= carried[i]
         /\ (prev[i] = -1 => counted[i] = 0)
         /\ Uncounted(i) = IF prev[i] # -1 /\ octets[i] > prev[i]
                           THEN octets[i] - prev[i] ELSE 0
BY RatesConstants DEF RatesInv, Rates!TypeOK, Rates!None, Uncounted, RatesNone

LEMMA RatesInitially == Rates!Init => RatesInv
BY RatesConstants
DEF Rates!Init, RatesInv, Rates!TypeOK, Rates!None, Rates!Unlisted, Uncounted, RatesNone,
    Rates!UnmeasuredIsZero

(* What an adapter does: it carries an octet, leaves or arrives.           *)
LEMMA AdapterStepped ==
  ASSUME RatesInv, NEW i \in Indices, Rates!Carry(i) \/ Rates!Leave(i) \/ Rates!Arrive(i)
  PROVE  RatesInv'
<1>1. /\ UNCHANGED <<byIndex, prev, rateShown, measured, counted>>
      /\ \/ /\ octets[i] # -1 /\ octets[i] < MaxOctets /\ carried[i] < MaxOctets
            /\ octets' = [octets EXCEPT ![i] = octets[i] + 1]
            /\ carried' = [carried EXCEPT ![i] = IF prev[i] = -1 THEN 0 ELSE carried[i] + 1]
         \/ octets' = [octets EXCEPT ![i] = -1] /\ UNCHANGED carried
         \/ octets' = [octets EXCEPT ![i] = 0] /\ octets[i] = -1 /\ UNCHANGED carried
  BY DEF Rates!Carry, Rates!Leave, Rates!Arrive, Rates!Present, Rates!None
<1>2. Rates!TypeOK'
  <2>1. octets' \in [Indices -> -1 .. MaxOctets] /\ carried' \in [Indices -> 0 .. MaxOctets]
    BY <1>1, RatesTyped, RatesConstants DEF RatesInv, Rates!TypeOK, Rates!None
  <2>. QED  BY <1>1, <2>1 DEF RatesInv, Rates!TypeOK, Rates!None, Rates!Unlisted
<1>3. ASSUME NEW j \in Indices
      PROVE  /\ counted'[j] + Uncounted(j)' <= carried'[j]
             /\ prev'[j] = RatesNone => counted'[j] = 0
  <2>1. Uncounted(j)' = IF prev[j] # -1 /\ octets'[j] > prev[j]
                        THEN octets'[j] - prev[j] ELSE 0
    BY <1>1, RatesConstants DEF Uncounted
  <2>2. octets \in [Indices -> Int] /\ carried \in [Indices -> Nat]
    BY RatesTyped DEF RatesInv, Rates!TypeOK
  <2>3. CASE i = j
    BY <1>1, <2>1, <2>2, <2>3, RatesTyped, RatesConstants
  <2>4. CASE i # j
    BY <1>1, <2>1, <2>2, <2>4, RatesTyped, RatesConstants
  <2>. QED  BY <2>3, <2>4
<1>4. Rates!UnmeasuredIsZero'
  BY <1>1 DEF RatesInv, Rates!UnmeasuredIsZero
<1>. QED  BY <1>2, <1>3, <1>4 DEF RatesInv

(* A sample: the growth of each listed adapter is counted, and no longer   *)
(* uncounted.                                                              *)
LEMMA Sampled ==
  ASSUME RatesInv, Rates!Sample
  PROVE  RatesInv'
<1>. DEFINE growth(i, soon) ==
       IF i \in Rates!Sampled THEN Rates!Growth(i, soon) ELSE 0
<1>1. PICK soon \in BOOLEAN :
        /\ rateShown' = [i \in Indices |-> IF i \in byIndex THEN growth(i, soon) ELSE -1]
        /\ counted' = [i \in Indices |-> counted[i] + growth(i, soon)]
        /\ measured' = [i \in Indices |-> i \in Rates!Sampled /\ Rates!Comparable(i, soon)]
  BY DEF Rates!Sample, Rates!None
<1>2. /\ prev' = [i \in Indices |-> IF i \in Rates!Sampled THEN octets[i] ELSE prev[i]]
      /\ byIndex' = Rates!Unlisted /\ UNCHANGED <<octets, carried>>
  BY DEF Rates!Sample, Rates!Stored
<1>3. ASSUME NEW i \in Indices
      PROVE  /\ growth(i, soon) \in 0 .. Uncounted(i)
             /\ Uncounted(i) \in 0 .. MaxOctets
             /\ i \in Rates!Sampled => octets[i] # -1
             /\ prev[i] = -1 => growth(i, soon) = 0
             /\ ~(i \in Rates!Sampled /\ Rates!Comparable(i, soon)) => growth(i, soon) = 0
  <2>1. /\ Rates!Growth(i, soon) = IF Rates!Comparable(i, soon) THEN octets[i] - prev[i] ELSE 0
        /\ Rates!Comparable(i, soon) => prev[i] # -1 /\ octets[i] >= prev[i]
    BY DEF Rates!Growth, Rates!Comparable, Rates!None
  <2>2. i \in Rates!Sampled => octets[i] # -1
    BY DEF Rates!Sampled, Rates!Present, Rates!None
  <2>. QED  BY <2>1, <2>2, RatesTyped, RatesConstants
<1>. HIDE DEF growth
<1>4. ASSUME NEW i \in Indices
      PROVE  /\ counted'[i] = counted[i] + growth(i, soon)
             /\ prev'[i] = IF i \in Rates!Sampled THEN octets[i] ELSE prev[i]
             /\ rateShown'[i] \in -1 .. MaxOctets
             /\ counted'[i] \in Nat /\ prev'[i] \in -1 .. MaxOctets
             /\ measured'[i] \in BOOLEAN
             /\ measured'[i] \/ rateShown'[i] \in {-1, 0}
  <2>1. /\ counted'[i] = counted[i] + growth(i, soon)
        /\ prev'[i] = IF i \in Rates!Sampled THEN octets[i] ELSE prev[i]
        /\ rateShown'[i] = IF i \in byIndex THEN growth(i, soon) ELSE -1
        /\ measured'[i] = (i \in Rates!Sampled /\ Rates!Comparable(i, soon))
    BY <1>1, <1>2
  <2>2. measured'[i] \in BOOLEAN
    BY <2>1, Zenon
  <2>3. growth(i, soon) = 0 \/ measured'[i]
    BY <1>3, <2>1, Zenon
  <2>4. /\ rateShown'[i] \in -1 .. MaxOctets /\ counted'[i] \in Nat
        /\ prev'[i] \in -1 .. MaxOctets
    BY <1>3, <2>1, RatesTyped, RatesConstants
  <2>5. rateShown'[i] \in {growth(i, soon), -1}
    BY <2>1, Zenon
  <2>. QED  BY <2>1, <2>2, <2>3, <2>4, <2>5
<1>5. Rates!TypeOK'
  <2>1. /\ rateShown' \in [Indices -> -1 .. MaxOctets] /\ counted' \in [Indices -> Nat]
        /\ prev' \in [Indices -> -1 .. MaxOctets]
    BY <1>1, <1>2, <1>4
  <2>2. measured' \in [Indices -> BOOLEAN]
    BY <1>1, <1>4
  <2>. QED  BY <1>2, <2>1, <2>2 DEF RatesInv, Rates!TypeOK, Rates!None
<1>6. ASSUME NEW i \in Indices
      PROVE  /\ counted'[i] + Uncounted(i)' <= carried'[i]
             /\ prev'[i] = RatesNone => counted'[i] = 0
  <2>1. Uncounted(i)' = IF prev'[i] # -1 /\ octets[i] > prev'[i]
                        THEN octets[i] - prev'[i] ELSE 0
    BY <1>2, RatesConstants DEF Uncounted
  <2>2. CASE i \in Rates!Sampled
    BY <1>2, <1>3, <1>4, <2>1, <2>2, RatesTyped, RatesConstants
  <2>3. CASE i \notin Rates!Sampled
    <3>1. growth(i, soon) = 0
      BY <2>3 DEF growth
    <3>. QED  BY <1>2, <1>3, <1>4, <2>1, <2>3, <3>1, RatesTyped, RatesConstants
  <2>. QED  BY <2>2, <2>3
<1>7. Rates!UnmeasuredIsZero'
  BY <1>4 DEF Rates!UnmeasuredIsZero, Rates!None
<1>. QED  BY <1>5, <1>6, <1>7 DEF RatesInv

LEMMA RatesPreserved == RatesInv /\ [Rates!Next]_(Rates!vars) => RatesInv'
<1>. SUFFICES ASSUME RatesInv, [Rates!Next]_(Rates!vars) PROVE RatesInv'
  OBVIOUS
<1>1. ASSUME UNCHANGED <<octets, prev, carried, counted>>,
             rateShown' \in [Indices -> -1 .. MaxOctets],
             measured' \in [Indices -> BOOLEAN], Rates!UnmeasuredIsZero',
             byIndex' = Rates!Unlisted \/ byIndex' \subseteq Indices
      PROVE  RatesInv'
  BY <1>1 DEF RatesInv, Rates!TypeOK, Rates!None, Uncounted
<1>2. CASE Rates!ListFails \/ Rates!ListAdapters \/ Rates!SampleFails
  <2>1. /\ UNCHANGED <<octets, prev, carried, counted>>
        /\ byIndex' = Rates!Unlisted \/ byIndex' \subseteq Indices
    BY <1>2
    DEF Rates!ListFails, Rates!ListAdapters, Rates!SampleFails, Rates!Present
  <2>2. CASE UNCHANGED <<rateShown, measured>>
    BY <1>1, <2>1, <2>2 DEF RatesInv, Rates!TypeOK, Rates!None, Rates!UnmeasuredIsZero
  <2>3. CASE /\ measured' = [i \in Indices |-> FALSE]
             /\ \/ rateShown' = [i \in Indices |-> -1]
                \/ rateShown' = [i \in Indices |-> IF i \in byIndex THEN 0 ELSE -1]
    <3>1. /\ rateShown' \in [Indices -> -1 .. MaxOctets] /\ measured' \in [Indices -> BOOLEAN]
          /\ \A i \in Indices : rateShown'[i] \in {-1, 0}
      BY <2>3, RatesConstants
    <3>2. Rates!UnmeasuredIsZero'
      BY <3>1 DEF Rates!UnmeasuredIsZero, Rates!None
    <3>. QED  BY <1>1, <2>1, <3>1, <3>2
  <2>. QED
    BY <1>2, <2>2, <2>3
    DEF Rates!ListFails, Rates!ListAdapters, Rates!SampleFails, Rates!None
<1>3. CASE UNCHANGED Rates!vars
  BY <1>1, <1>3 DEF Rates!vars, RatesInv, Rates!TypeOK, Rates!None, Rates!UnmeasuredIsZero
<1>. QED
  BY <1>2, <1>3, AdapterStepped, Sampled DEF Rates!Next

(* No octet is shown twice, and a rate that is not 0 was measured, for any *)
(* number of adapters and whichever of them have had an index.             *)
THEOREM RatesAreSound ==
  Rates!Spec => [](Rates!TypeOK /\ Rates!NothingCountedTwice /\ Rates!UnmeasuredIsZero)
<1>1. RatesInv => Rates!TypeOK /\ Rates!UnmeasuredIsZero
  BY DEF RatesInv
<1>2. RatesInv => Rates!NothingCountedTwice
  <2>. SUFFICES ASSUME RatesInv, NEW i \in Indices PROVE counted[i] <= carried[i]
    BY DEF Rates!NothingCountedTwice
  <2>. QED  BY RatesTyped
<1>. QED
  BY <1>1, <1>2, RatesInitially, RatesPreserved, PTL DEF Rates!Spec

-----------------------------------------------------------------------------
(* The displays.                                                           *)

(* A set of naturals has a least: otherwise the initial segments below its *)
(* members would have none, which are finite sets.                         *)
LEMMA LeastNatural ==
  ASSUME NEW S \in SUBSET Nat, S # {}
  PROVE  \E x \in S : \A y \in S : x <= y
<1>. DEFINE below == {0 .. n : n \in S}
<1>1. \A n \in S : 0 .. n \in FiniteSubsetsOf(Nat)
  BY FS_Interval DEF FiniteSubsetsOf
<1>2. below \subseteq FiniteSubsetsOf(Nat) /\ below # {}
  BY <1>1
<1>3. IsWellFoundedOn(StrictSubsetOrdering(Nat), FiniteSubsetsOf(Nat))
  BY FS_StrictSubsetOrderingWellFounded
<1>4. \E low \in below : \A other \in below : <<other, low>> \notin StrictSubsetOrdering(Nat)
  <2>. HIDE DEF below
  <2>. QED  BY <1>2, <1>3, WFMin
<1>5. PICK x \in S : \A y \in S : <<0 .. y, 0 .. x>> \notin StrictSubsetOrdering(Nat)
  BY <1>4
<1>6. ASSUME NEW y \in S, y < x
      PROVE  FALSE
  <2>1. x \in 0 .. x /\ x \notin 0 .. y
    BY <1>6
  <2>2. 0 .. y \subseteq 0 .. x /\ 0 .. y # 0 .. x /\ 0 .. y \subseteq Nat /\ 0 .. x \subseteq Nat
    BY <1>6, <2>1
  <2>3. <<0 .. y, 0 .. x>> \in StrictSubsetOrdering(Nat)
    BY <2>2 DEF StrictSubsetOrdering
  <2>. QED  BY <1>5, <2>3
<1>. QED  BY <1>6

DisplayInv == Screen!TypeOK /\ Screen!EdidIsOfItsModel

LEMMA DisplayConstants ==
  /\ Models \subseteq Nat \ {0} /\ Instances \subseteq Nat \ {0}
  /\ Screen!Unknown = 0 /\ Screen!Unknown \notin Models
BY ConstantsAssumption DEF Screen!Unknown

(* Of several keys the first is taken, by model and by instance.           *)
LEMMA FirstKey ==
  ASSUME NEW keys \in SUBSET (Models \X Instances), keys # {}
  PROVE  \E k \in keys : \A other \in keys :
           k[1] < other[1] \/ (k[1] = other[1] /\ k[2] <= other[2])
<1>. DEFINE models == {k[1] : k \in keys}
<1>1. models \in SUBSET Nat /\ models # {}
  BY DisplayConstants
<1>2. PICK m \in models : \A other \in models : m <= other
  <2>. HIDE DEF models
  <2>. QED  BY <1>1, LeastNatural
<1>. DEFINE instances == {k[2] : k \in {key \in keys : key[1] = m}}
<1>3. instances \in SUBSET Nat /\ instances # {}
  BY DisplayConstants
<1>4. PICK i \in instances : \A other \in instances : i <= other
  <2>. HIDE DEF instances
  <2>. QED  BY <1>3, LeastNatural
<1>5. PICK k \in keys : k[1] = m /\ k[2] = i
  OBVIOUS
<1>6. ASSUME NEW other \in keys
      PROVE  k[1] < other[1] \/ (k[1] = other[1] /\ k[2] <= other[2])
  <2>1. other[1] \in Nat /\ k[1] \in Nat /\ k[1] <= other[1]
    BY <1>2, <1>5, DisplayConstants
  <2>2. other[1] = m => other[2] \in instances
    OBVIOUS
  <2>. QED  BY <1>4, <1>5, <2>1, <2>2
<1>. QED  BY <1>6

(* The EDID read is of the model, when the model is known.                 *)
LEMMA EdidRead ==
  ASSUME Screen!TypeOK, NEW model \in Screen!Told
  PROVE  /\ Screen!Edid(model) \in (Models \X Instances) \cup {Screen!NotKept}
         /\ model # Screen!Unknown => Screen!Edid(model)[1] \in {model, 0}
<1>. DEFINE keys == Screen!Matching(model)
<1>1. CASE keys = {}
  BY <1>1 DEF Screen!Edid, Screen!NotKept
<1>2. CASE keys # {}
  <2>1. keys \in SUBSET (Models \X Instances)
    BY DEF Screen!Matching, Screen!TypeOK
  <2>2. \E k \in keys : \A other \in keys :
          k[1] < other[1] \/ (k[1] = other[1] /\ k[2] <= other[2])
    BY <1>2, <2>1, FirstKey
  <2>3. Screen!Edid(model) \in keys
    BY <1>2, <2>2 DEF Screen!Edid
  <2>4. \A k \in keys : model # Screen!Unknown => k[1] = model
    BY DEF Screen!Matching
  <2>. QED  BY <2>1, <2>3, <2>4
<1>. QED  BY <1>1, <1>2

LEMMA DisplayPreserved == DisplayInv /\ [Screen!Next]_(Screen!displayVars) => DisplayInv'
<1>. SUFFICES ASSUME DisplayInv, [Screen!Next]_(Screen!displayVars) PROVE DisplayInv'
  OBVIOUS
<1>1. ASSUME NEW d \in Displays, NEW model \in Screen!Told, NEW monitor \in Models \X Instances,
             Screen!Connect(d, model, monitor)
      PROVE  DisplayInv'
  <2>1. /\ connected' = [e \in DOMAIN connected \cup {d} |-> IF e = d THEN model ELSE connected[e]]
        /\ kept' \in {kept, kept \cup {monitor}} /\ UNCHANGED displays
    BY <1>1 DEF Screen!Connect
  <2>2. connected \in [DOMAIN connected -> Screen!Told] /\ DOMAIN connected \subseteq Displays
    BY DEF DisplayInv, Screen!TypeOK
  <2>3. /\ DOMAIN connected' \subseteq Displays
        /\ connected' \in [DOMAIN connected' -> Screen!Told]
    BY <2>1, <2>2
  <2>. QED
    BY <2>1, <2>3 DEF DisplayInv, Screen!TypeOK, Screen!EdidIsOfItsModel
<1>2. ASSUME NEW d \in Displays, Screen!Disconnect(d)
      PROVE  DisplayInv'
  BY <1>2 DEF Screen!Disconnect, DisplayInv, Screen!TypeOK, Screen!EdidIsOfItsModel
<1>3. CASE Screen!Refresh
  <2>1. /\ UNCHANGED <<kept, connected>> /\ connected \in [DOMAIN connected -> Screen!Told]
        /\ displays' = [d \in DOMAIN connected |->
                          [model |-> connected[d], edid |-> Screen!Edid(connected[d])]]
    BY <1>3 DEF Screen!Refresh, DisplayInv, Screen!TypeOK
  <2>2. \A d \in DOMAIN connected :
          /\ connected[d] \in Screen!Told
          /\ Screen!Edid(connected[d]) \in (Models \X Instances) \cup {Screen!NotKept}
          /\ connected[d] # Screen!Unknown => Screen!Edid(connected[d])[1] \in {connected[d], 0}
    BY <2>1, EdidRead DEF DisplayInv
  <2>3. /\ DOMAIN displays' = DOMAIN connected
        /\ \A d \in DOMAIN connected : /\ displays'[d].model = connected[d]
                                       /\ displays'[d].edid = Screen!Edid(connected[d])
    BY <2>1
  <2>4. displays' \in [DOMAIN displays' ->
                         [model : Screen!Told, edid : (Models \X Instances) \cup {Screen!NotKept}]]
    BY <2>1, <2>2
  <2>5. Screen!EdidIsOfItsModel'
    BY <2>2, <2>3 DEF Screen!EdidIsOfItsModel
  <2>. QED
    BY <2>1, <2>4, <2>5 DEF DisplayInv, Screen!TypeOK
<1>4. CASE UNCHANGED Screen!displayVars
  BY <1>4 DEF Screen!displayVars, DisplayInv, Screen!TypeOK, Screen!EdidIsOfItsModel
<1>. QED
  BY <1>1, <1>2, <1>3, <1>4 DEF Screen!Next

(* A monitor of a known model is shown with the EDID of one of its model,  *)
(* for any displays, models and instances, whatever else was connected.    *)
THEOREM DisplayIsSound == Screen!Spec => [](Screen!TypeOK /\ Screen!EdidIsOfItsModel)
<1>1. Screen!Init => DisplayInv
  BY DEF Screen!Init, DisplayInv, Screen!TypeOK, Screen!EdidIsOfItsModel
<1>2. DisplayInv => Screen!TypeOK /\ Screen!EdidIsOfItsModel
  BY DEF DisplayInv
<1>. QED
  BY <1>1, <1>2, DisplayPreserved, PTL DEF Screen!Spec

-----------------------------------------------------------------------------
(* The icons.                                                              *)

(* Nothing is drawn while the cache is updated.                            *)
IconInv ==
  /\ Icon!TypeOK /\ Icon!ViewsAlive
  /\ iconsAt # "render" => drawn = {}

LEMMA IconConstants == MaxCached \in Nat
BY ConstantsAssumption

LEMMA IconCardinality == \A S : Icon!Cardinality(S) = Cardinality(S)
BY DEF Icon!Cardinality, Cardinality

LEMMA IconsPreserved == IconInv /\ [Icon!Next]_(Icon!iconVars) => IconInv'
<1>. SUFFICES ASSUME IconInv, [Icon!Next]_(Icon!iconVars) PROVE IconInv'
  OBVIOUS
<1>1. CASE Icon!Refresh
  <2>1. PICK opened \in SUBSET Programs : \E got, fails \in SUBSET opened :
          /\ got \cap fails = {} /\ Icon!MayTry(got, fails)
          /\ Icon!Cardinality(got) < MaxIcons => opened \ Icon!Tried = got \cup fails
          /\ extracted' = [n \in Icon!Tried \cup got \cup fails |->
               IF n \in got THEN TRUE ELSE n \in Icon!Tried /\ extracted[n]]
          /\ published' = {n \in DOMAIN extracted' : extracted'[n]}
          /\ UNCHANGED <<views, drawn, iconsAt>>
    BY <1>1 DEF Icon!Refresh
  <2>2. DOMAIN extracted \subseteq Programs /\ extracted \in [DOMAIN extracted -> BOOLEAN]
    BY DEF IconInv, Icon!TypeOK, Icon!Tried
  <2>3. /\ DOMAIN extracted' \subseteq Programs
        /\ extracted' \in [DOMAIN extracted' -> BOOLEAN]
        /\ published' \subseteq Programs
    BY <2>1, <2>2 DEF Icon!Tried
  <2>. QED
    BY <2>1, <2>3 DEF IconInv, Icon!TypeOK, Icon!ViewsAlive, Icon!Tried
<1>2. CASE Icon!Update
  <2>1. /\ iconsAt = "update" /\ iconsAt' = "rows" /\ drawn = {} /\ drawn' = {}
        /\ UNCHANGED <<extracted, published>>
    BY <1>2 DEF Icon!Update, IconInv
  <2>2. PICK new \in SUBSET published :
          IF Icon!Cardinality(views \cup new) <= MaxCached THEN views' = views \cup new
          ELSE \E kept2 \in SUBSET (views \cup new) :
                 Icon!Cardinality(kept2) = MaxCached /\ views' = kept2
    BY <1>2 DEF Icon!Update
  <2>3. views' \subseteq Programs
    BY <2>2 DEF IconInv, Icon!TypeOK
  <2>4. Icon!Cardinality(views') <= MaxCached
    BY <2>2, IconConstants
  <2>. QED
    BY <2>1, <2>3, <2>4 DEF IconInv, Icon!TypeOK, Icon!ViewsAlive, Icon!Tried
<1>3. CASE Icon!Rows
  BY <1>3 DEF Icon!Rows, IconInv, Icon!TypeOK, Icon!ViewsAlive, Icon!Tried
<1>4. CASE Icon!Render
  BY <1>4 DEF Icon!Render, IconInv, Icon!TypeOK, Icon!ViewsAlive, Icon!Tried
<1>5. CASE UNCHANGED Icon!iconVars
  BY <1>5 DEF Icon!iconVars, IconInv, Icon!TypeOK, Icon!ViewsAlive, Icon!Tried
<1>. QED
  BY <1>1, <1>2, <1>3, <1>4, <1>5 DEF Icon!Next

(* A frame draws no view that was let go, and no more are kept than may    *)
(* be, for any programs and limits.                                        *)
THEOREM IconsAreSound == Icon!Spec => [](Icon!TypeOK /\ Icon!ViewsAlive)
<1>1. Icon!Init => IconInv
  BY FS_EmptySet, IconCardinality, IconConstants
  DEF Icon!Init, IconInv, Icon!TypeOK, Icon!ViewsAlive, Icon!Tried
<1>2. IconInv => Icon!TypeOK /\ Icon!ViewsAlive
  BY DEF IconInv
<1>. QED
  BY <1>1, <1>2, IconsPreserved, PTL DEF Icon!Spec

-----------------------------------------------------------------------------
(* The list of the devices.                                                *)

(* Every request is of the present or earlier; a reading that nobody asked *)
(* about since it began has found all that was asked for, and so has the   *)
(* list it left.                                                           *)
DeviceInv ==
  /\ Device!TypeOK /\ Device!RequestSeen
  /\ \A d \in Devices : asked[d] <= change[d]
  /\ deviceAt = "read" /\ ~force => \A d \in Devices : info[d] >= asked[d]

LEMMA DeviceConstants == MaxChanges \in Nat
BY ConstantsAssumption

LEMMA DeviceInitially == Device!Init => DeviceInv
<1>. SUFFICES ASSUME Device!Init PROVE DeviceInv
  OBVIOUS
<1>1. change \in Device!Changed /\ info = change /\ asked = change
  BY DeviceConstants DEF Device!Init, Device!Changed
<1>2. Device!TypeOK
  BY <1>1 DEF Device!Init, Device!TypeOK
<1>3. Device!RequestSeen /\ \A d \in Devices : asked[d] <= change[d]
  BY <1>1, DeviceConstants DEF Device!Init, Device!RequestSeen, Device!Changed
<1>. QED
  BY <1>2, <1>3 DEF Device!Init, DeviceInv

LEMMA DeviceTyped ==
  ASSUME DeviceInv, NEW d \in Devices
  PROVE  /\ change[d] \in Nat /\ asked[d] \in Nat /\ info[d] \in Nat
         /\ asked[d] <= change[d]
BY DeviceConstants DEF DeviceInv, Device!TypeOK, Device!Changed

(* What changes of the devices, and who asks, disturbs no list.            *)
LEMMA DeviceAsked ==
  ASSUME DeviceInv,
         (\E d \in Devices : Device!Changes(d)) \/ Device!DrawWithoutList \/ Device!RefreshButton
  PROVE  DeviceInv'
<1>1. ASSUME NEW d \in Devices, Device!Changes(d)
      PROVE  DeviceInv'
  <2>1. /\ change' = [change EXCEPT ![d] = change[d] + 1] /\ change[d] + 1 \in 0 .. MaxChanges
        /\ present' \subseteq Devices
        /\ UNCHANGED <<force, age, deviceAt, unread, info, snapshot, failed, asked>>
    BY <1>1, DeviceTyped, DeviceConstants DEF Device!Changes, DeviceInv, Device!TypeOK
  <2>2. change' \in Device!Changed
    BY <2>1 DEF DeviceInv, Device!TypeOK, Device!Changed
  <2>3. \A e \in Devices : asked'[e] <= change'[e]
    BY <2>1, DeviceTyped DEF DeviceInv, Device!TypeOK, Device!Changed
  <2>. QED
    BY <2>1, <2>2, <2>3 DEF DeviceInv, Device!TypeOK, Device!RequestSeen
<1>2. CASE Device!Request
  BY <1>2, DeviceTyped
  DEF Device!Request, Device!system, DeviceInv, Device!TypeOK, Device!RequestSeen
<1>. QED
  BY <1>1, <1>2 DEF Device!DrawWithoutList, Device!RefreshButton

(* A reading.                                                              *)
LEMMA DeviceStepped ==
  ASSUME DeviceInv,
         \/ Device!Begin \/ Device!Open \/ Device!OpenFails \/ Device!Store
         \/ Device!AMinutePasses \/ \E d \in Devices : Device!Read(d)
  PROVE  DeviceInv'
<1>1. CASE Device!Begin \/ Device!AMinutePasses
  BY <1>1
  DEF Device!Begin, Device!AMinutePasses, Device!system, DeviceInv, Device!TypeOK,
      Device!RequestSeen
<1>2. CASE Device!Open
  BY <1>2, DeviceTyped
  DEF Device!Open, Device!system, DeviceInv, Device!TypeOK, Device!RequestSeen
<1>3. CASE Device!OpenFails
  BY <1>3, DeviceConstants
  DEF Device!OpenFails, Device!system, DeviceInv, Device!TypeOK, Device!RequestSeen,
      Device!Changed
<1>4. CASE Device!Store
  BY <1>4
  DEF Device!Store, Device!system, DeviceInv, Device!TypeOK, Device!RequestSeen
<1>5. ASSUME NEW d \in Devices, Device!Read(d)
      PROVE  DeviceInv'
  <2>1. info' = [info EXCEPT ![d] = change[d]] /\ info' \in Device!Changed
    BY <1>5 DEF Device!Read, DeviceInv, Device!TypeOK, Device!Changed
  <2>2. ~force => \A e \in Devices : info'[e] >= asked[e]
    BY <1>5, <2>1, DeviceTyped DEF Device!Read, DeviceInv, Device!TypeOK, Device!Changed
  <2>. QED
    BY <1>5, <2>1, <2>2
    DEF Device!Read, Device!system, DeviceInv, Device!TypeOK, Device!RequestSeen
<1>. QED  BY <1>1, <1>2, <1>3, <1>4, <1>5

LEMMA DevicePreserved == DeviceInv /\ [Device!Next]_(Device!vars) => DeviceInv'
<1>. SUFFICES ASSUME DeviceInv, [Device!Next]_(Device!vars) PROVE DeviceInv'
  OBVIOUS
<1>1. CASE UNCHANGED Device!vars
  BY <1>1 DEF Device!vars, DeviceInv, Device!TypeOK, Device!RequestSeen
<1>. QED
  BY <1>1, DeviceAsked, DeviceStepped DEF Device!Next

(* Who asks is shown what has changed by then, also when the request comes *)
(* in the middle of a reading; for any devices and changes.                *)
THEOREM DeviceIsSound == Device!Spec => [](Device!TypeOK /\ Device!RequestSeen)
<1>1. DeviceInv => Device!TypeOK /\ Device!RequestSeen
  BY DEF DeviceInv
<1>. QED
  BY <1>1, DeviceInitially, DevicePreserved, PTL DEF Device!Spec

-----------------------------------------------------------------------------
(* The preview of the camera page.                                         *)

(* The generation counts the frames written by this engine at most; while  *)
(* it was not begun anew the page has looked at it or at an earlier one.   *)
GenerationFollows ==
  /\ mem.generation <= written
  /\ engine = "data" => mem.generation < written
  /\ ~reset /\ previewReady /\ engine # "off"
       => page # "unmapped" /\ lastGen <= mem.generation

(* What was copied of the frame the page looked at last is in the texture, *)
(* as long as the engine has not begun another; if it was copied at all.   *)
TextureFollows ==
  ~reset /\ ~missed /\ previewReady /\ engine = "between" /\ lastGen = mem.generation
    => \A c \in Preview!Chunks :
         page = "idle" \/ (page = "copy" /\ c <= copied) => texture[c] = mem.data[c]

PreviewInv == Preview!TypeOK /\ GenerationFollows /\ TextureFollows

LEMMA PreviewConstants == NumChunks \in Nat /\ NumChunks > 0 /\ MaxWritten \in Nat
BY NumChunksAssumption, ConstantsAssumption

(* The memory, as a record.                                                *)
Headers == [magic : BOOLEAN, generation : 0 .. MaxWritten, data : Preview!Frames]

LEMMA PreviewZeroed ==
  Preview!Nothing \in Preview!Frames /\ Preview!Zeroed \in Headers /\ Preview!Zeroed.generation = 0
<1>1. Preview!Nothing \in Preview!Frames
  BY PreviewConstants DEF Preview!Nothing, Preview!Frames
<1>. QED
  BY <1>1, PreviewConstants DEF Preview!Zeroed, Headers

LEMMA PreviewInitially == Preview!Init => PreviewInv
<1>. SUFFICES ASSUME Preview!Init PROVE PreviewInv
  OBVIOUS
<1>1. Preview!TypeOK
  <2>1. mem \in Headers /\ texture \in Preview!Frames
    BY PreviewZeroed DEF Preview!Init
  <2>2. /\ written = 0 /\ chunk = 0 /\ copied = 0 /\ lastGen = 0
        /\ engine = "off" /\ page = "unmapped" /\ previewReady = FALSE /\ reset = FALSE
        /\ target = "none" /\ missed = FALSE
    BY DEF Preview!Init
  <2>3. /\ engine \in {"off", "between", "data"} /\ page \in {"unmapped", "idle", "copy"}
        /\ previewReady \in BOOLEAN /\ reset \in BOOLEAN
        /\ target \in {"none", "texture", "view"} /\ missed \in BOOLEAN
    BY <2>2
  <2>4. written \in 0 .. MaxWritten /\ lastGen \in 0 .. MaxWritten
    BY <2>2, PreviewConstants
  <2>5. chunk \in 0 .. NumChunks /\ copied \in 0 .. NumChunks
    BY <2>2, PreviewConstants
  <2>. QED
    BY <2>1, <2>3, <2>4, <2>5 DEF Preview!TypeOK, Headers
<1>2. GenerationFollows /\ TextureFollows
  BY PreviewZeroed DEF Preview!Init, GenerationFollows, TextureFollows
<1>. QED
  BY <1>1, <1>2 DEF PreviewInv

LEMMA PreviewTyped ==
  ASSUME PreviewInv
  PROVE  /\ mem.magic \in BOOLEAN /\ mem.data \in Preview!Frames
         /\ mem.generation \in Nat /\ mem.generation <= written
         /\ written \in Nat /\ written <= MaxWritten /\ lastGen \in Nat
         /\ chunk \in Nat /\ copied \in Nat /\ copied <= NumChunks
BY PreviewConstants DEF PreviewInv, Preview!TypeOK, GenerationFollows

(* The engine starts, ends, or writes the header.                          *)
LEMMA EngineStepped ==
  ASSUME PreviewInv, Preview!Start \/ Preview!WriteHeader \/ Preview!End
  PROVE  PreviewInv'
<1>1. CASE Preview!Start
  BY <1>1 DEF Preview!Start, Preview!pageVars, PreviewInv, Preview!TypeOK,
              GenerationFollows, TextureFollows
<1>2. CASE Preview!WriteHeader
  <2>2. /\ mem'.generation = 0 /\ mem'.data = mem.data
        /\ mem' \in [magic : BOOLEAN, generation : 0 .. MaxWritten, data : Preview!Frames]
    BY <1>2, PreviewTyped, PreviewConstants DEF Preview!WriteHeader
  <2>. QED
    BY <1>2, <2>2, PreviewTyped
    DEF Preview!WriteHeader, Preview!pageVars, PreviewInv, Preview!TypeOK,
        GenerationFollows, TextureFollows
<1>3. CASE Preview!End
  <2>1. /\ mem'.generation <= written
        /\ mem' \in [magic : BOOLEAN, generation : 0 .. MaxWritten, data : Preview!Frames]
    BY <1>3, PreviewTyped, PreviewConstants
    DEF Preview!End, PreviewInv, Preview!TypeOK, Preview!Zeroed, Preview!Nothing,
        Preview!Frames
  <2>. QED
    BY <1>3, <2>1, PreviewConstants
    DEF Preview!End, Preview!pageVars, PreviewInv, Preview!TypeOK, GenerationFollows,
        TextureFollows
<1>. QED  BY <1>1, <1>2, <1>3

(* The engine writes: the generation moves past what the page looked at.   *)
LEMMA EngineWrote ==
  ASSUME PreviewInv, Preview!WriteChunk \/ Preview!Bump
  PROVE  PreviewInv'
<1>1. CASE Preview!WriteChunk
  <2>1. /\ chunk' \in 1 .. NumChunks /\ written' \in 0 .. MaxWritten
        /\ written' >= written /\ mem.generation < written'
        /\ engine' = "data" /\ previewReady
        /\ UNCHANGED <<previewReady, page, copied, lastGen, texture, target, missed, reset>>
        /\ engine # "off"
    BY <1>1, PreviewTyped, PreviewConstants
    DEF Preview!WriteChunk, Preview!pageVars, PreviewInv, Preview!TypeOK, GenerationFollows
  <2>2. /\ mem'.generation = mem.generation
        /\ mem' \in [magic : BOOLEAN, generation : 0 .. MaxWritten, data : Preview!Frames]
    <3>1. mem' = [mem EXCEPT !.data = [mem.data EXCEPT ![chunk'] = written']]
      BY <1>1 DEF Preview!WriteChunk, PreviewInv, Preview!TypeOK
    <3>2. [mem.data EXCEPT ![chunk'] = written'] \in Preview!Frames
      BY <2>1, PreviewTyped DEF Preview!Frames, Preview!Chunks
    <3>. QED  BY <3>1, <3>2 DEF PreviewInv, Preview!TypeOK
  <2>3. Preview!TypeOK'
    BY <2>1, <2>2 DEF PreviewInv, Preview!TypeOK
  <2>4. GenerationFollows' /\ TextureFollows'
    BY <2>1, <2>2, PreviewTyped DEF PreviewInv, GenerationFollows, TextureFollows
  <2>. QED  BY <2>3, <2>4 DEF PreviewInv
<1>2. CASE Preview!Bump
  <2>1. /\ mem'.generation = mem.generation + 1 /\ mem.generation < written
        /\ mem' \in [magic : BOOLEAN, generation : 0 .. MaxWritten, data : Preview!Frames]
    BY <1>2, PreviewTyped, PreviewConstants
    DEF Preview!Bump, PreviewInv, Preview!TypeOK, GenerationFollows
  <2>2. engine = "data" /\ engine' = "between" /\ chunk' = 0
        /\ UNCHANGED <<previewReady, written, page, copied, lastGen, texture, target, missed,
                       reset>>
    BY <1>2 DEF Preview!Bump, Preview!pageVars
  <2>3. Preview!TypeOK'
    BY <2>1, <2>2, PreviewConstants DEF PreviewInv, Preview!TypeOK
  <2>4. GenerationFollows' /\ TextureFollows'
    BY <2>1, <2>2, PreviewTyped DEF PreviewInv, GenerationFollows, TextureFollows
  <2>. QED  BY <2>3, <2>4 DEF PreviewInv
<1>. QED  BY <1>1, <1>2

(* The page maps the memory, looks at the generation, and copies.          *)
LEMMA PageStepped ==
  ASSUME PreviewInv, Preview!Map \/ Preview!Look \/ Preview!Copy \/ Preview!Copied
  PROVE  PreviewInv'
<1>1. CASE Preview!Map
  BY <1>1 DEF Preview!Map, Preview!engineVars, PreviewInv, Preview!TypeOK,
              GenerationFollows, TextureFollows
<1>2. CASE Preview!Look
  <2>1. lastGen' \in 0 .. MaxWritten
    BY <1>2, PreviewTyped DEF Preview!Look, PreviewInv, Preview!TypeOK
  <2>2. \A c \in Preview!Chunks : ~(c <= 0)
    BY PreviewConstants DEF Preview!Chunks
  <2>3. /\ page = "idle" /\ copied' = 0 /\ reset' = FALSE
        /\ \/ page' = "copy" /\ ~missed'
           \/ page' = "idle" /\ missed'
        /\ lastGen' = mem.generation
        /\ UNCHANGED <<mem, engine, previewReady, written, chunk, texture>>
    BY <1>2 DEF Preview!Look, Preview!engineVars
  <2>4. Preview!TypeOK'
    <3>1. copied' = 0 /\ 0 \in 0 .. NumChunks
      BY <2>3, PreviewConstants
    <3>2. reset' \in BOOLEAN /\ missed' \in BOOLEAN
      BY <1>2 DEF Preview!Look
    <3>3. target' \in {"none", "texture", "view"}
      BY <1>2 DEF Preview!Look, Preview!Made, PreviewInv, Preview!TypeOK
    <3>. QED  BY <2>1, <2>3, <3>1, <3>2, <3>3 DEF PreviewInv, Preview!TypeOK
  <2>5. GenerationFollows'
    BY <2>3, PreviewTyped DEF PreviewInv, GenerationFollows
  <2>6. TextureFollows'
    BY <2>2, <2>3 DEF TextureFollows
  <2>. QED
    BY <2>4, <2>5, <2>6 DEF PreviewInv
<1>3. CASE Preview!Copy
  <2>1. /\ copied' = copied + 1 /\ copied + 1 \in 1 .. NumChunks
        /\ texture' = [texture EXCEPT ![copied + 1] = mem.data[copied + 1]]
        /\ UNCHANGED <<mem, engine, previewReady, written, chunk, page, lastGen, target, missed,
                       reset>>
        /\ page = "copy"
    BY <1>3, PreviewTyped, PreviewConstants DEF Preview!Copy, Preview!engineVars
  <2>2. texture' \in Preview!Frames
    BY <2>1, PreviewTyped DEF Preview!Frames, Preview!Chunks, PreviewInv, Preview!TypeOK
  <2>3. TextureFollows'
    BY <2>1, PreviewTyped, PreviewConstants
    DEF Preview!Frames, Preview!Chunks, PreviewInv, Preview!TypeOK, TextureFollows
  <2>. QED
    BY <2>1, <2>2, <2>3 DEF PreviewInv, Preview!TypeOK, GenerationFollows
<1>4. CASE Preview!Copied
  <2>1. \A c \in Preview!Chunks : c <= NumChunks
    BY PreviewConstants DEF Preview!Chunks
  <2>. QED
    BY <1>4, <2>1 DEF Preview!Copied, Preview!engineVars, PreviewInv, Preview!TypeOK,
                      GenerationFollows, TextureFollows
<1>. QED  BY <1>1, <1>2, <1>3, <1>4

LEMMA PreviewPreserved == PreviewInv /\ [Preview!Next]_(Preview!vars) => PreviewInv'
<1>. SUFFICES ASSUME PreviewInv, [Preview!Next]_(Preview!vars) PROVE PreviewInv'
  OBVIOUS
<1>1. CASE UNCHANGED Preview!vars
  BY <1>1 DEF Preview!vars, Preview!engineVars, Preview!pageVars, PreviewInv, Preview!TypeOK,
              GenerationFollows, TextureFollows
<1>. QED
  BY <1>1, EngineStepped, EngineWrote, PageStepped DEF Preview!Next

(* Whatever was torn while it was copied, the preview settles on the last  *)
(* frame it could copy, for any number of chunks and frames.               *)
THEOREM PreviewIsSound == Preview!Spec => [](Preview!TypeOK /\ Preview!PreviewSettles)
<1>1. PreviewInv => Preview!TypeOK
  BY DEF PreviewInv
<1>2. PreviewInv => Preview!PreviewSettles
  BY DEF PreviewInv, Preview!TypeOK, Preview!Frames, TextureFollows, Preview!PreviewSettles
<1>. QED
  BY <1>1, <1>2, PreviewInitially, PreviewPreserved, PTL DEF Preview!Spec

-----------------------------------------------------------------------------
(* The WMI session of the disks.                                           *)

(* A session that the next reading of the drives would use in vain.        *)
Stale(s) == s.link \notin {0, life} /\ s.ns = "cimv2"

(* After one whole refresh the session is no more stale than the change of *)
(* namespaces leaves it, after two the drives are read again, and after    *)
(* three they are in the list.                                             *)
WmiInv ==
  /\ Wmi!TypeOK
  /\ up =>
       /\ life > 0
       /\ quiet >= 2 /\ wmiAt = "idle" => ~Stale(wmiSession["storage"])
       /\ quiet >= 1 /\ wmiAt \in {"physical", "bus", "publish"}
            => ~Stale(wmiSession["storage"])
       /\ quiet >= 2 /\ wmiAt # "idle" => "drives" \in found
       /\ quiet = 3 => "drives" \in disks

Sessions == [link : 0 .. MaxStarts, ns : Wmi!Namespaces]

LEMMA WmiConstants == MaxStarts \in Nat
BY ConstantsAssumption

LEMMA WmiConnected ==
  ASSUME WmiInv, NEW s \in Sessions, NEW ns \in Wmi!Namespaces, NEW reachable \in BOOLEAN
  PROVE  /\ Wmi!Connected(s, ns, reachable) \in Sessions
         /\ s.link # 0 /\ s.ns = ns => Wmi!Connected(s, ns, reachable) = s
         /\ ~(s.link # 0 /\ s.ns = ns) =>
              IF reachable THEN /\ Wmi!Connected(s, ns, reachable).link = life
                                /\ Wmi!Connected(s, ns, reachable).ns = ns
              ELSE Wmi!Connected(s, ns, reachable).link = 0
BY WmiConstants DEF Wmi!Connected, WmiInv, Wmi!TypeOK, Sessions

(* What connecting makes of a session: none to root\cimv2 stays when the   *)
(* other namespace is asked for, and none becomes stale that was not.      *)
LEMMA WmiRepairs ==
  ASSUME WmiInv, NEW s \in Sessions, NEW reachable \in BOOLEAN
  PROVE  /\ ~Stale(Wmi!Connected(s, "Storage", reachable))
         /\ ~Stale(s) => ~Stale(Wmi!Connected(s, "cimv2", reachable))
         /\ ~Stale(s) /\ up /\ reachable
              => /\ Wmi!Connected(s, "cimv2", reachable).link = life
                 /\ Wmi!Connected(s, "cimv2", reachable).ns = "cimv2"
<1>1. "Storage" \in Wmi!Namespaces /\ "cimv2" \in Wmi!Namespaces
  BY DEF Wmi!Namespaces
<1>2. ~Stale(Wmi!Connected(s, "Storage", reachable))
  BY <1>1, WmiConnected DEF Stale
<1>3. ~Stale(s) => ~Stale(Wmi!Connected(s, "cimv2", reachable))
  BY <1>1, WmiConnected DEF Stale
<1>4. ~Stale(s) /\ up /\ reachable
        => /\ Wmi!Connected(s, "cimv2", reachable).link = life
           /\ Wmi!Connected(s, "cimv2", reachable).ns = "cimv2"
  <2>. SUFFICES ASSUME ~Stale(s), up, reachable
                PROVE  /\ Wmi!Connected(s, "cimv2", reachable).link = life
                       /\ Wmi!Connected(s, "cimv2", reachable).ns = "cimv2"
    OBVIOUS
  <2>1. CASE s.link # 0 /\ s.ns = "cimv2"
    BY <1>1, <2>1, WmiConnected DEF Stale
  <2>2. CASE ~(s.link # 0 /\ s.ns = "cimv2")
    BY <1>1, <2>2, WmiConnected
  <2>. QED  BY <2>1, <2>2
<1>. QED
  BY <1>2, <1>3, <1>4

LEMMA WmiTyped ==
  ASSUME WmiInv
  PROVE  /\ wmiSession \in [Wmi!Providers -> Sessions]
         /\ wmiSession["storage"] \in Sessions /\ wmiSession["sensors"] \in Sessions
         /\ up \in BOOLEAN /\ life \in Nat /\ quiet \in 0 .. 3
         /\ "cimv2" \in Wmi!Namespaces /\ "Storage" \in Wmi!Namespaces
BY WmiConstants DEF WmiInv, Wmi!TypeOK, Wmi!Providers, Wmi!Namespaces, Sessions

(* A session of the disks replaced.                                        *)
LEMMA WmiReplaced ==
  ASSUME WmiInv, NEW s \in Sessions
  PROVE  /\ [wmiSession EXCEPT !["storage"] = s] \in [Wmi!Providers -> Sessions]
         /\ [wmiSession EXCEPT !["storage"] = s]["storage"] = s
         /\ [wmiSession EXCEPT !["sensors"] = s] \in [Wmi!Providers -> Sessions]
         /\ [wmiSession EXCEPT !["sensors"] = s]["storage"] = wmiSession["storage"]
BY WmiTyped DEF Wmi!Providers

LEMMA WmiReads ==
  ASSUME WmiInv, Wmi!ReadDrives
  PROVE  WmiInv'
<1> DEFINE c == Wmi!Connected(wmiSession["storage"], "cimv2", up)
           q == Wmi!Queried(c)
<1>1. /\ wmiAt = "idle" /\ wmiAt' = "connect"
      /\ wmiSession' = [wmiSession EXCEPT !["storage"] = IF c.link = 0 THEN c ELSE q]
      /\ found' = IF c.link # 0 /\ Wmi!HasRows(c, "Win32_DiskDrive") THEN {"drives"} ELSE {}
      /\ UNCHANGED <<up, life, disks, wmiReady, zones, quiet>>
  BY DEF Wmi!ReadDrives, Wmi!Go
<1>2. c \in Sessions /\ q \in Sessions
  BY WmiTyped, WmiConnected DEF Wmi!Queried
<1>3. wmiSession' \in [Wmi!Providers -> Sessions]
  BY <1>1, <1>2, WmiReplaced
<1>4. up /\ quiet >= 2 => "drives" \in found'
  <2>. SUFFICES ASSUME up, quiet >= 2 PROVE "drives" \in found'
    OBVIOUS
  <2>1. ~Stale(wmiSession["storage"]) /\ life > 0 /\ up = TRUE
    BY <1>1, WmiTyped DEF WmiInv
  <2>2. c.link = life /\ c.ns = "cimv2"
    BY <2>1, WmiTyped, WmiRepairs
  <2>3. c.link # 0
    <3>1. life \in Nat
      BY WmiTyped
    <3>. HIDE DEF c
    <3>. QED  BY <2>1, <2>2, <3>1
  <2>4. q = c
    <3>1. "cimv2" \in Wmi!Namespaces /\ up \in BOOLEAN
      BY WmiTyped
    <3>. HIDE DEF c
    <3>. QED  BY <1>2, <2>2, <2>3, <3>1, WmiConnected DEF Wmi!Queried
  <2>5. Wmi!HasRows(c, "Win32_DiskDrive")
    BY <2>1, <2>2, <2>4 DEF Wmi!HasRows, Wmi!ClassesOf
  <2>. HIDE DEF c, q
  <2>. QED
    BY <1>1, <2>3, <2>5
<1>5. found' \subseteq Wmi!Facts /\ wmiAt' \in Wmi!Places
  BY <1>1 DEF Wmi!Facts, Wmi!Places
<1>6. Wmi!TypeOK'
  BY <1>1, <1>3, <1>5 DEF WmiInv, Wmi!TypeOK, Sessions
<1>. HIDE DEF c, q
<1>. QED
  BY <1>1, <1>4, <1>6 DEF WmiInv

LEMMA WmiConnects ==
  ASSUME WmiInv, Wmi!ConnectStorage
  PROVE  WmiInv'
<1>1. PICK reachable \in {FALSE, up} :
        LET s == Wmi!Connected(wmiSession["storage"], "Storage", reachable)
        IN /\ wmiSession' = [wmiSession EXCEPT !["storage"] = s]
           /\ Wmi!Go("connect", IF s.link = 0 THEN "publish" ELSE "physical")
  BY DEF Wmi!ConnectStorage
<1> DEFINE s == Wmi!Connected(wmiSession["storage"], "Storage", reachable)
<1>2. /\ wmiSession' = [wmiSession EXCEPT !["storage"] = s]
      /\ wmiAt = "connect" /\ wmiAt' \in {"publish", "physical"}
      /\ UNCHANGED <<up, life, found, disks, wmiReady, zones, quiet>>
  BY <1>1 DEF Wmi!ConnectStorage, Wmi!Go
<1>3. s \in Sessions /\ ~Stale(s)
  BY WmiTyped, WmiConnected, WmiRepairs
<1>. HIDE DEF s
<1>4. wmiSession' \in [Wmi!Providers -> Sessions] /\ wmiSession'["storage"] = s
  BY <1>2, <1>3, WmiReplaced
<1>5. Wmi!TypeOK'
  BY <1>2, <1>4 DEF WmiInv, Wmi!TypeOK, Sessions, Wmi!Places
<1>. QED
  BY <1>2, <1>3, <1>4, <1>5 DEF WmiInv, Stale

(* A query of the disks, after the drives.                                 *)
LEMMA WmiAsks ==
  ASSUME WmiInv, Wmi!ReadPhysical \/ Wmi!ReadBus
  PROVE  WmiInv'
<1> DEFINE q == Wmi!Queried(wmiSession["storage"])
<1>1. /\ wmiSession' = [wmiSession EXCEPT !["storage"] = q]
      /\ wmiAt \in {"physical", "bus"} /\ wmiAt' \in {"bus", "publish"}
      /\ found \subseteq found'
      /\ UNCHANGED <<up, life, disks, wmiReady, zones, quiet>>
  BY DEF Wmi!ReadPhysical, Wmi!ReadBus, Wmi!Go
<1>2. found' \subseteq Wmi!Facts
  BY DEF Wmi!ReadPhysical, Wmi!ReadBus, Wmi!Facts, WmiInv, Wmi!TypeOK
<1>3. q \in Sessions /\ (~Stale(wmiSession["storage"]) => ~Stale(q))
  BY WmiTyped, WmiConnected, WmiRepairs DEF Wmi!Queried
<1>. HIDE DEF q
<1>4. wmiSession' \in [Wmi!Providers -> Sessions] /\ wmiSession'["storage"] = q
  BY <1>1, <1>3, WmiReplaced
<1>5. Wmi!TypeOK'
  BY <1>1, <1>2, <1>4 DEF WmiInv, Wmi!TypeOK, Sessions, Wmi!Places
<1>. QED
  BY <1>1, <1>3, <1>4, <1>5 DEF WmiInv, Stale

LEMMA WmiPublishes ==
  ASSUME WmiInv, Wmi!Publish
  PROVE  WmiInv'
<1>1. /\ wmiAt = "publish" /\ wmiAt' = "idle"
      /\ quiet' = IF quiet < 3 THEN quiet + 1 ELSE 3
      /\ UNCHANGED <<up, life, wmiSession, found, wmiReady, zones>>
  BY DEF Wmi!Publish, Wmi!Go
<1>2. found \subseteq disks' /\ disks' \subseteq Wmi!Facts
  BY DEF Wmi!Publish, Wmi!NvmeRead, Wmi!Facts, WmiInv, Wmi!TypeOK
<1>3. Wmi!TypeOK'
  BY <1>1, <1>2, WmiTyped DEF WmiInv, Wmi!TypeOK, Wmi!Places
<1>. QED
  BY <1>1, <1>2, <1>3, WmiTyped DEF WmiInv, Stale

LEMMA WmiSensed ==
  ASSUME WmiInv, Wmi!RefreshSensors
  PROVE  WmiInv'
<1> DEFINE s == IF wmiReady THEN wmiSession["sensors"]
                ELSE Wmi!Connected(wmiSession["sensors"], "cimv2", up)
           t == IF wmiReady' THEN Wmi!Queried(s) ELSE s
<1>1. /\ wmiReady' = (wmiReady \/ s.link # 0)
      /\ wmiSession' = [wmiSession EXCEPT !["sensors"] = t]
      /\ zones' = (wmiReady' /\ Wmi!HasRows(s, "MSAcpi_ThermalZoneTemperature"))
      /\ UNCHANGED <<up, life, wmiAt, found, disks, quiet>>
  BY DEF Wmi!RefreshSensors
<1>2. s \in Sessions
  BY WmiTyped, WmiConnected
<1>3. t \in Sessions
  BY <1>2, WmiTyped, WmiConnected DEF Wmi!Queried
<1>4. wmiReady' \in BOOLEAN /\ zones' \in BOOLEAN
  BY <1>1
<1>. HIDE DEF s, t
<1>5. /\ wmiSession' \in [Wmi!Providers -> Sessions]
      /\ wmiSession'["storage"] = wmiSession["storage"]
  BY <1>1, <1>3, WmiReplaced
<1>6. Wmi!TypeOK'
  BY <1>1, <1>4, <1>5 DEF WmiInv, Wmi!TypeOK, Sessions
<1>. QED
  BY <1>1, <1>5, <1>6 DEF WmiInv, Stale

LEMMA WmiServed ==
  ASSUME WmiInv, Wmi!ServiceStarts \/ Wmi!ServiceEnds
  PROVE  WmiInv'
<1>1. /\ up' \in BOOLEAN /\ life' \in 0 .. MaxStarts /\ (up' => life' > 0) /\ quiet' = 0
      /\ UNCHANGED <<wmiSession, wmiAt, found, disks, wmiReady, zones>>
  <2>1. life \in Nat /\ life <= MaxStarts
    BY WmiConstants DEF WmiInv, Wmi!TypeOK
  <2>2. CASE Wmi!ServiceStarts
    <3>1. up' = TRUE /\ quiet' = 0
          /\ UNCHANGED <<wmiSession, wmiAt, found, disks, wmiReady, zones>>
      BY <2>2 DEF Wmi!ServiceStarts
    <3>2. life' \in 0 .. MaxStarts /\ life' > 0
      BY <2>1, <2>2, WmiConstants DEF Wmi!ServiceStarts
    <3>. QED  BY <3>1, <3>2
  <2>3. CASE Wmi!ServiceEnds
    <3>1. up' = FALSE /\ quiet' = 0 /\ life' = life
          /\ UNCHANGED <<wmiSession, wmiAt, found, disks, wmiReady, zones>>
      BY <2>3 DEF Wmi!ServiceEnds
    <3>2. life' \in 0 .. MaxStarts
      BY <2>1, <3>1, WmiConstants
    <3>. QED  BY <3>1, <3>2, Zenon
  <2>. QED  BY <2>2, <2>3
<1>. QED
  BY <1>1 DEF WmiInv, Wmi!TypeOK

LEMMA WmiPreserved == WmiInv /\ [Wmi!Next]_(Wmi!vars) => WmiInv'
<1>. SUFFICES ASSUME WmiInv, [Wmi!Next]_(Wmi!vars) PROVE WmiInv'
  OBVIOUS
<1>1. CASE UNCHANGED Wmi!vars
  BY <1>1 DEF Wmi!vars, WmiInv, Wmi!TypeOK, Stale
<1>. QED
  BY <1>1, WmiReads, WmiConnects, WmiAsks, WmiPublishes, WmiSensed, WmiServed DEF Wmi!Next

(* The drives come back by the third list after the WMI service did, for   *)
(* any number of its starts, at whatever step of a refresh it ends or      *)
(* starts.                                                                 *)
THEOREM DrivesReturn == Wmi!Spec => [](Wmi!TypeOK /\ Wmi!DrivesComeBack)
<1>1. Wmi!Init => WmiInv
  <2>. SUFFICES ASSUME Wmi!Init PROVE WmiInv
    OBVIOUS
  <2>1. wmiSession \in [Wmi!Providers -> [link : 0 .. MaxStarts, ns : Wmi!Namespaces]]
    BY WmiConstants DEF Wmi!Init, Wmi!Namespaces
  <2>2. ~up /\ life \in 0 .. MaxStarts /\ quiet \in 0 .. 3
    BY WmiConstants DEF Wmi!Init
  <2>. QED
    BY <2>1, <2>2 DEF Wmi!Init, WmiInv, Wmi!TypeOK, Wmi!Places
<1>2. WmiInv => Wmi!TypeOK /\ Wmi!DrivesComeBack
  BY DEF WmiInv, Wmi!DrivesComeBack
<1>. QED
  BY <1>1, <1>2, WmiPreserved, PTL DEF Wmi!Spec

-----------------------------------------------------------------------------
(* The source of the virtual camera.                                       *)

SourceEvents == [kind : {"started", "stopped", "sample"}, number : 0 .. MaxEvents]
SampleSet(e) == {i \in DOMAIN e : e[i].kind = "sample"}
StartSet(e) == {i \in DOMAIN e : e[i].kind = "started"}

(* The samples before an event that no start separates from it, and those  *)
(* since the last start.                                                   *)
Since(e, i) == {j \in SampleSet(e) : j < i /\ \A k \in StartSet(e) : k < j \/ k > i}
Latest(e) == {j \in SampleSet(e) : \A k \in StartSet(e) : k < j}

(* The counter counts the samples since the last start.                    *)
SourceInv ==
  /\ Source!TypeOK
  /\ sourceState \in {"started", "paused"} => awake
  /\ frameCounter = Cardinality(Latest(events))
  /\ \A i \in SampleSet(events) : events[i].number = Cardinality(Since(events, i))

LEMMA SourceConstants == MaxEvents \in Nat
BY ConstantsAssumption

LEMMA SourceCardinality == \A S : Source!Cardinality(S) = Cardinality(S)
BY DEF Source!Cardinality, Cardinality

(* An event queued.                                                        *)
LEMMA EventAppended ==
  ASSUME NEW e \in Seq(SourceEvents), NEW x \in SourceEvents
  PROVE  /\ Append(e, x) \in Seq(SourceEvents) /\ Len(Append(e, x)) = Len(e) + 1
         /\ Len(e) \in Nat /\ DOMAIN e = 1 .. Len(e)
         /\ DOMAIN Append(e, x) = DOMAIN e \cup {Len(e) + 1}
         /\ \A i \in DOMAIN e : Append(e, x)[i] = e[i]
         /\ Append(e, x)[Len(e) + 1] = x
OBVIOUS

LEMMA SamplesAppended ==
  ASSUME NEW e \in Seq(SourceEvents), NEW x \in SourceEvents
  PROVE  /\ SampleSet(Append(e, x)) =
              IF x.kind = "sample" THEN SampleSet(e) \cup {Len(e) + 1} ELSE SampleSet(e)
         /\ StartSet(Append(e, x)) =
              IF x.kind = "started" THEN StartSet(e) \cup {Len(e) + 1} ELSE StartSet(e)
BY EventAppended DEF SampleSet, StartSet

LEMMA SinceAppended ==
  ASSUME NEW e \in Seq(SourceEvents), NEW x \in SourceEvents
  PROVE  /\ \A i \in DOMAIN e : Since(Append(e, x), i) = Since(e, i)
         /\ x.kind = "sample" => Since(Append(e, x), Len(e) + 1) = Latest(e)
<1>1. \A i \in DOMAIN e : i \in Nat /\ i <= Len(e)
  BY EventAppended
<1>2. SampleSet(e) \subseteq DOMAIN e /\ StartSet(e) \subseteq DOMAIN e /\ Len(e) \in Nat
  BY DEF SampleSet, StartSet
<1>3. \A i \in DOMAIN e : Since(Append(e, x), i) = Since(e, i)
  BY <1>1, <1>2, SamplesAppended DEF Since
<1>4. x.kind = "sample" => Since(Append(e, x), Len(e) + 1) = Latest(e)
  BY <1>1, <1>2, SamplesAppended DEF Since, Latest
<1>. QED
  BY <1>3, <1>4

LEMMA LatestAppended ==
  ASSUME NEW e \in Seq(SourceEvents), NEW x \in SourceEvents
  PROVE  /\ x.kind = "started" => Latest(Append(e, x)) = {}
         /\ x.kind = "stopped" => Latest(Append(e, x)) = Latest(e)
         /\ x.kind = "sample"  => Latest(Append(e, x)) = Latest(e) \cup {Len(e) + 1}
         /\ Len(e) + 1 \notin Latest(e)
<1>1. \A i \in DOMAIN e : i \in Nat /\ i <= Len(e)
  BY EventAppended
<1>2. SampleSet(e) \subseteq DOMAIN e /\ StartSet(e) \subseteq DOMAIN e /\ Len(e) \in Nat
  BY DEF SampleSet, StartSet
<1>. QED
  BY <1>1, <1>2, SamplesAppended DEF Latest

LEMMA IntervalSize ==
  ASSUME NEW n \in Nat
  PROVE  IsFiniteSet(1 .. n) /\ Cardinality(1 .. n) = n
BY FS_Interval

LEMMA LatestIsFinite ==
  ASSUME NEW e \in Seq(SourceEvents)
  PROVE  /\ IsFiniteSet(Latest(e)) /\ Cardinality(Latest(e)) \in Nat
         /\ Cardinality(Latest(e)) <= Len(e)
<1>1. Latest(e) \subseteq 1 .. Len(e) /\ Len(e) \in Nat
  BY DEF Latest, SampleSet
<1>2. IsFiniteSet(1 .. Len(e)) /\ Cardinality(1 .. Len(e)) = Len(e)
  BY <1>1, IntervalSize
<1>. QED
  BY <1>1, <1>2, FS_Subset, FS_CardinalityType

(* What the types say, and what queueing an event does.                    *)
LEMMA StreamTyped ==
  ASSUME SourceInv
  PROVE  /\ events \in Seq(SourceEvents) /\ Len(events) \in Nat /\ Len(events) <= MaxEvents
         /\ frameCounter \in 0 .. MaxEvents /\ closed = (sourceState = "shutdown")
         /\ request \in [Requesters -> {"outside", "sleep"}]
BY SourceConstants DEF SourceInv, Source!TypeOK, SourceEvents

LEMMA SourceQueued ==
  ASSUME SourceInv, NEW x \in SourceEvents, x.kind = "sample" => x.number = frameCounter
  PROVE  \A i \in SampleSet(Append(events, x)) :
           Append(events, x)[i].number = Cardinality(Since(Append(events, x), i))
<1>1. events \in Seq(SourceEvents)
  BY StreamTyped
<1>2. SampleSet(events) \subseteq DOMAIN events
  BY DEF SampleSet
<1>3. \A i \in SampleSet(events) :
        Append(events, x)[i].number = Cardinality(Since(Append(events, x), i))
  BY <1>1, <1>2, EventAppended, SinceAppended DEF SourceInv
<1>4. x.kind = "sample" =>
        Append(events, x)[Len(events) + 1].number =
          Cardinality(Since(Append(events, x), Len(events) + 1))
  BY <1>1, EventAppended, SinceAppended DEF SourceInv
<1>. QED
  BY <1>1, <1>3, <1>4, SamplesAppended

LEMMA SourceControlled ==
  ASSUME SourceInv, Source!Control
  PROVE  SourceInv'
<1>1. CASE Source!Start
  <2> DEFINE x == [kind |-> "started", number |-> 0]
  <2>1. /\ events' = Append(events, x) /\ Len(events) < MaxEvents /\ frameCounter' = 0
        /\ sourceState' = "started" /\ awake' = TRUE /\ closed = FALSE
        /\ UNCHANGED <<closed, request>>
    BY <1>1, StreamTyped DEF Source!Start, Source!Queue, Source!Event, Source!Room
  <2>2. x \in SourceEvents /\ x.kind = "started"
    BY SourceConstants DEF SourceEvents
  <2>. HIDE DEF x
  <2>3. /\ events' \in Seq(SourceEvents) /\ Len(events') <= MaxEvents
        /\ Latest(events') = {}
    BY <2>1, <2>2, StreamTyped, SourceConstants, EventAppended, LatestAppended
  <2>4. frameCounter' = Cardinality(Latest(events'))
    BY <2>1, <2>3, FS_EmptySet
  <2>5. \A i \in SampleSet(events') : events'[i].number = Cardinality(Since(events', i))
    BY <2>1, <2>2, SourceQueued
  <2>6. Source!TypeOK'
    <3>1. closed' = (sourceState' = "shutdown") /\ awake' \in BOOLEAN
      BY <2>1
    <3>2. frameCounter' \in 0 .. MaxEvents
      BY <2>1, SourceConstants
    <3>. QED  BY <2>1, <2>3, <3>1, <3>2, StreamTyped DEF Source!TypeOK, SourceEvents
  <2>. QED
    BY <2>1, <2>4, <2>5, <2>6 DEF SourceInv
<1>2. CASE Source!Stop
  <2> DEFINE x == [kind |-> "stopped", number |-> 0]
  <2>1. /\ events' = Append(events, x) /\ Len(events) < MaxEvents
        /\ sourceState' = "stopped" /\ awake' = FALSE /\ closed = FALSE
        /\ UNCHANGED <<frameCounter, closed, request>>
    BY <1>2, StreamTyped DEF Source!Stop, Source!Queue, Source!Event, Source!Room
  <2>2. x \in SourceEvents /\ x.kind = "stopped"
    BY SourceConstants DEF SourceEvents
  <2>. HIDE DEF x
  <2>3. /\ events' \in Seq(SourceEvents) /\ Len(events') <= MaxEvents
        /\ Latest(events') = Latest(events)
    BY <2>1, <2>2, StreamTyped, SourceConstants, EventAppended, LatestAppended
  <2>4. frameCounter' = Cardinality(Latest(events'))
    BY <2>1, <2>3 DEF SourceInv
  <2>5. \A i \in SampleSet(events') : events'[i].number = Cardinality(Since(events', i))
    BY <2>1, <2>2, SourceQueued
  <2>6. Source!TypeOK'
    BY <2>1, <2>3, StreamTyped, SourceConstants DEF Source!TypeOK, SourceEvents
  <2>. QED
    BY <2>1, <2>4, <2>5, <2>6 DEF SourceInv
<1>3. CASE Source!Prestart \/ Source!Pause \/ Source!Shutdown
  BY <1>3 DEF Source!Prestart, Source!Pause, Source!Shutdown, SourceInv, Source!TypeOK
<1>. QED
  BY <1>1, <1>2, <1>3 DEF Source!Control

LEMMA SourceSampled ==
  ASSUME SourceInv, NEW r \in Requesters, Source!Sample(r)
  PROVE  SourceInv'
<1>1. CASE Source!Ask(r) \/ Source!GenerateFails(r)
  BY <1>1 DEF Source!Ask, Source!GenerateFails, Source!Return, SourceInv, Source!TypeOK
<1>2. CASE Source!Generate(r)
  <2> DEFINE x == [kind |-> "sample", number |-> frameCounter]
  <2>1. /\ events' = Append(events, x) /\ Len(events) < MaxEvents
        /\ frameCounter' = frameCounter + 1
        /\ sourceState = "started" /\ closed = FALSE
        /\ request' = [request EXCEPT ![r] = "outside"]
        /\ UNCHANGED <<sourceState, closed, awake>>
    BY <1>2, StreamTyped
    DEF Source!Generate, Source!Queue, Source!Event, Source!Room, Source!Return
  <2>2. x \in SourceEvents /\ x.kind = "sample" /\ x.number = frameCounter
    BY StreamTyped DEF SourceEvents
  <2>. HIDE DEF x
  <2>3. /\ events' \in Seq(SourceEvents) /\ Len(events') <= MaxEvents
        /\ Latest(events') = Latest(events) \cup {Len(events) + 1}
        /\ Len(events) + 1 \notin Latest(events)
    BY <2>1, <2>2, StreamTyped, SourceConstants, EventAppended, LatestAppended
  <2>4. frameCounter' = Cardinality(Latest(events'))
    <3>1. IsFiniteSet(Latest(events)) /\ frameCounter = Cardinality(Latest(events))
      BY StreamTyped, LatestIsFinite DEF SourceInv
    <3>2. Cardinality(Latest(events')) = Cardinality(Latest(events)) + 1
      BY <2>3, <3>1, FS_AddElement
    <3>. QED  BY <2>1, <3>1, <3>2
  <2>5. \A i \in SampleSet(events') : events'[i].number = Cardinality(Since(events', i))
    BY <2>1, <2>2, SourceQueued
  <2>6. frameCounter' \in 0 .. MaxEvents
    <3>1. Cardinality(Latest(events')) \in Nat /\ Cardinality(Latest(events')) <= Len(events')
      BY <2>3, LatestIsFinite
    <3>. QED  BY <2>3, <2>4, <3>1, SourceConstants
  <2>7. Source!TypeOK'
    BY <2>1, <2>3, <2>6, StreamTyped DEF SourceInv, Source!TypeOK, SourceEvents
  <2>. QED
    BY <2>1, <2>4, <2>5, <2>7 DEF SourceInv
<1>. QED
  BY <1>1, <1>2 DEF Source!Sample

LEMMA SourcePreserved == SourceInv /\ [Source!Next]_(Source!vars) => SourceInv'
<1>. SUFFICES ASSUME SourceInv, [Source!Next]_(Source!vars) PROVE SourceInv'
  OBVIOUS
<1>1. CASE UNCHANGED Source!vars
  BY <1>1 DEF Source!vars, SourceInv, Source!TypeOK
<1>. QED
  BY <1>1, SourceControlled, SourceSampled DEF Source!Next, Source!Over

(* The samples are numbered from the last start, and no sleeping request   *)
(* queues one into a source that was stopped, for any number of requesters *)
(* and events.                                                             *)
THEOREM SourceIsSound ==
  Source!Spec => [](Source!TypeOK /\ Source!NumberedSinceStart) /\ Source!NoSampleWhileStopped
<1>1. Source!Init => SourceInv
  <2>. SUFFICES ASSUME Source!Init PROVE SourceInv
    OBVIOUS
  <2>1. Latest(events) = {} /\ SampleSet(events) = {} /\ Cardinality({}) = 0
    BY FS_EmptySet DEF Source!Init, Latest, SampleSet
  <2>2. /\ sourceState = "stopped" /\ frameCounter = 0 /\ events = <<>> /\ closed = FALSE
        /\ request = [r \in Requesters |-> "outside"] /\ awake = FALSE
    BY DEF Source!Init
  <2>3. frameCounter \in 0 .. MaxEvents /\ Len(events) <= MaxEvents
    BY <2>2, SourceConstants
  <2>4. closed = (sourceState = "shutdown") /\ awake \in BOOLEAN
    BY <2>2
  <2>5. Source!TypeOK
    BY <2>2, <2>3, <2>4 DEF Source!TypeOK
  <2>. QED
    BY <2>1, <2>2, <2>5 DEF SourceInv
<1>2. SourceInv => Source!TypeOK /\ Source!NumberedSinceStart
  BY SourceCardinality
  DEF SourceInv, Source!NumberedSinceStart, Source!Samples, Source!Starts, Source!Positions,
      SampleSet, StartSet, Since
<1>3. SourceInv /\ [Source!Next]_(Source!vars) =>
        [Len(events') > Len(events) /\ Source!Last(events').kind = "sample"
           => awake /\ sourceState = "started" /\ ~closed]_(Source!vars)
  <2>. SUFFICES ASSUME SourceInv, Source!Next, Len(events') > Len(events),
                       Source!Last(events').kind = "sample"
                PROVE  awake /\ sourceState = "started" /\ ~closed
    OBVIOUS
  <2>1. events' # events
    BY StreamTyped
  <2>2. ASSUME NEW kind \in {"started", "stopped"}, closed = FALSE,
               events' = Append(events, [kind |-> kind, number |-> 0])
        PROVE  FALSE
    <3>1. [kind |-> kind, number |-> 0] \in SourceEvents
      BY SourceConstants DEF SourceEvents
    <3>2. events'[Len(events')] = [kind |-> kind, number |-> 0]
      BY <2>2, <3>1, StreamTyped, EventAppended
    <3>. QED  BY <3>2 DEF Source!Last
  <2>3. ~Source!Start /\ ~Source!Stop
    BY <2>2, StreamTyped DEF Source!Start, Source!Stop, Source!Queue, Source!Event
  <2>4. ~Source!Prestart /\ ~Source!Pause /\ ~Source!Shutdown /\ ~Source!Over
    BY <2>1 DEF Source!Prestart, Source!Pause, Source!Shutdown, Source!Over, Source!vars
  <2>5. PICK r \in Requesters : Source!Generate(r)
    BY <2>1, <2>3, <2>4
    DEF Source!Next, Source!Control, Source!Sample, Source!Ask, Source!GenerateFails
  <2>. QED
    BY <2>5, StreamTyped DEF SourceInv, Source!Generate
<1>. QED
  BY <1>1, <1>2, <1>3, SourcePreserved, PTL DEF Source!Spec, Source!NoSampleWhileStopped

-----------------------------------------------------------------------------
(* The main loop.                                                          *)

(* Where the thread is while there is a window or was one.                 *)
Living == {"pump", "menu", "recover", "draw"}

(* Whatever goes wrong with the device, the loop goes on with objects of   *)
(* the one made last, and draws with none it knows to be lost; the pages   *)
(* have those of the first.  It goes on only with an icon, or with a       *)
(* message that ends it.                                                   *)
LoopInv ==
  /\ Loop!TypeOK
  /\ loopAt \in Living =>
       /\ gfx.device = made /\ made > 0
       /\ gfx.swapChain = gfx.device /\ gfx.backend = gfx.device
       /\ gfx.rtv \in {Loop!Null, gfx.device}
       /\ tray \/ posted # {}
       /\ made = 1 => loopPages = 1 /\ loopViews \subseteq {1}
  /\ loopAt = "start" => loopViews = {}
  /\ loopAt = "draw" => ~lost
  /\ window = "destroyed" => ~tray

LEMMA LoopConstants == MaxDevices \in Nat /\ MaxDevices > 0
BY ConstantsAssumption

GraphicsOf == [device : 0 .. MaxDevices + 1, swapChain : 0 .. MaxDevices + 1,
               rtv : 0 .. MaxDevices + 1, backend : 0 .. MaxDevices + 1]

(* What creating the device leaves, however far it comes.                  *)
LEMMA LoopCreates ==
  ASSUME NEW n \in 0 .. MaxDevices + 1
  PROVE  Loop!Partial(n) \subseteq GraphicsOf /\ Loop!Complete(n) \in GraphicsOf
BY LoopConstants DEF Loop!Partial, Loop!Complete, Loop!Null, GraphicsOf

(* The device is made, and made again.                                     *)
LEMMA LoopMade ==
  ASSUME LoopInv, Loop!Start \/ Loop!Recover
  PROVE  LoopInv'
<1>0. /\ made \in Nat /\ made <= MaxDevices /\ made + 1 \in 0 .. MaxDevices + 1
      /\ 1 \in 0 .. MaxDevices + 1 /\ 1 \in 0 .. MaxDevices
  BY LoopConstants DEF LoopInv, Loop!TypeOK
<1>1. ASSUME NEW n \in 0 .. MaxDevices + 1, gfx' \in Loop!Partial(n)
      PROVE  gfx' \in GraphicsOf
  BY <1>1, LoopCreates
<1>2. ASSUME NEW n \in 1 .. MaxDevices + 1, gfx' = Loop!Complete(n)
      PROVE  /\ gfx' \in GraphicsOf /\ gfx'.device = n
             /\ gfx'.swapChain = gfx'.device /\ gfx'.backend = gfx'.device
             /\ gfx'.rtv = gfx'.device
  BY <1>2, LoopCreates, LoopConstants DEF Loop!Complete, Loop!Null
<1>3. CASE Loop!Start
  <2>1. CASE gfx' = Loop!Complete(1)
    <3>0. gfx' \notin Loop!Partial(1)
      BY <2>1 DEF Loop!Partial, Loop!Complete, Loop!Null
    <3>1. /\ loopAt = "start" /\ loopAt' = "pump" /\ made' = 1 /\ loopPages' = 1
          /\ tray' = TRUE /\ icon' \in BOOLEAN /\ window' \in {"shown", "hidden"}
          /\ UNCHANGED <<posted, gone, lost, occluded, loopViews, service>>
      BY <1>3, <3>0 DEF Loop!Start
    <3>2. /\ gfx' \in GraphicsOf /\ gfx'.device = 1
          /\ gfx'.swapChain = gfx'.device /\ gfx'.backend = gfx'.device
          /\ gfx'.rtv = gfx'.device
      BY <1>2, <2>1, LoopConstants
    <3>3. made' \in 0 .. MaxDevices /\ tray' \in BOOLEAN
      BY <1>0, <3>1
    <3>4. Loop!TypeOK'
      BY <3>1, <3>2, <3>3 DEF LoopInv, Loop!TypeOK, Loop!Places, GraphicsOf
    <3>5. loopPages' = 1 /\ loopViews' = {}
      BY <3>1 DEF LoopInv
    <3>. QED  BY <3>1, <3>2, <3>4, <3>5 DEF LoopInv, Living
  <2>2. CASE gfx' \in Loop!Partial(1) /\ loopAt' = "stopping"
    BY <1>0, <1>1, <1>3, <2>2
    DEF Loop!Start, LoopInv, Loop!TypeOK, Loop!Places, Living, GraphicsOf
  <2>. QED  BY <1>3, <2>1, <2>2 DEF Loop!Start
<1>4. CASE Loop!Recover
  <2>1. /\ UNCHANGED <<window, tray, icon, posted, occluded, loopPages, loopViews, service>>
        /\ loopAt = "recover"
    BY <1>4 DEF Loop!Recover
  <2>2. CASE /\ made < MaxDevices /\ gfx' = Loop!Complete(made + 1)
             /\ made' = made + 1 /\ lost' = FALSE /\ gone' = FALSE /\ loopAt' = loopAt
    <3>1. made' \in 0 .. MaxDevices /\ made + 1 \in 1 .. MaxDevices + 1
      BY <1>0, <2>2, LoopConstants
    <3>2. /\ gfx' \in GraphicsOf /\ gfx'.device = made'
          /\ gfx'.swapChain = gfx'.device /\ gfx'.backend = gfx'.device
          /\ gfx'.rtv = gfx'.device
      BY <1>2, <2>2, <3>1
    <3>3. Loop!TypeOK'
      BY <2>1, <2>2, <3>1, <3>2 DEF LoopInv, Loop!TypeOK, GraphicsOf
    <3>4. made' # 1 /\ made' > 0
      BY <1>0, <2>1, <2>2 DEF LoopInv, Living
    <3>. QED  BY <2>1, <2>2, <3>2, <3>3, <3>4 DEF LoopInv, Living
  <2>3. CASE gfx' \in Loop!Partial(made + 1) /\ loopAt' = "leave" /\ UNCHANGED <<made, lost, gone>>
    <3>1. gfx' \in GraphicsOf
      BY <1>0, <1>1, <2>3
    <3>. QED
      BY <2>1, <2>3, <3>1 DEF LoopInv, Loop!TypeOK, Loop!Places, Living, GraphicsOf
  <2>. QED
    BY <1>4, <2>2, <2>3 DEF Loop!Recover, Loop!Recovered
<1>. QED  BY <1>3, <1>4

(* The window's procedure.                                                 *)
LEMMA LoopDispatches ==
  ASSUME LoopInv,
         \/ Loop!Size \/ Loop!Close \/ Loop!RealExit \/ Loop!OpenFromTray
         \/ Loop!OpenMenu \/ Loop!Choose
  PROVE  LoopInv'
<1>1. CASE Loop!Size
  BY <1>1, LoopConstants
  DEF Loop!Size, Loop!Dispatching, Loop!Null, LoopInv, Loop!TypeOK, Loop!Places, Living
<1>2. CASE Loop!Close \/ Loop!OpenFromTray \/ Loop!OpenMenu
  <2>1. /\ UNCHANGED <<tray, icon, posted, service>>
        /\ UNCHANGED <<gfx, made, gone, lost, occluded, loopPages, loopViews>>
    BY <1>2 DEF Loop!Close, Loop!OpenFromTray, Loop!OpenMenu, Loop!graphics
  <2>2. CASE Loop!Close \/ Loop!OpenFromTray
    <3>1. /\ loopAt' = loopAt /\ window # "destroyed"
          /\ window' \in {"shown", "hidden"}
          /\ window' = "shown" \/ (window' = "hidden" /\ loopAt \in {"pump", "menu"})
      BY <2>2 DEF Loop!Close, Loop!OpenFromTray, Loop!Dispatching
    <3>2. Loop!TypeOK'
      BY <2>1, <3>1 DEF LoopInv, Loop!TypeOK, Loop!Places
    <3>. QED  BY <2>1, <3>1, <3>2 DEF LoopInv, Living
  <2>3. CASE Loop!OpenMenu
    <3>1. loopAt = "pump" /\ loopAt' = "menu" /\ window' = window
      BY <2>3 DEF Loop!OpenMenu, Loop!Go
    <3>2. Loop!TypeOK'
      BY <2>1, <3>1 DEF LoopInv, Loop!TypeOK, Loop!Places
    <3>. QED  BY <2>1, <3>1, <3>2 DEF LoopInv, Living
  <2>. QED  BY <1>2, <2>2, <2>3
<1>3. CASE Loop!RealExit
  BY <1>3
  DEF Loop!RealExit, Loop!Dispatching, Loop!Destroyed, Loop!RemoveTrayIcon,
      Loop!graphics, LoopInv, Loop!TypeOK, Loop!Places, Living
<1>4. CASE Loop!Choose
  <2>1. /\ loopAt = "menu" /\ loopAt' = "pump"
        /\ UNCHANGED <<gfx, made, gone, lost, occluded, loopPages, loopViews, service>>
    BY <1>4 DEF Loop!Choose, Loop!Go, Loop!graphics
  <2>2. CASE /\ window' = IF window = "destroyed" THEN window ELSE "shown"
             /\ UNCHANGED <<tray, icon, posted>>
    BY <2>1, <2>2 DEF LoopInv, Loop!TypeOK, Loop!Places, Living
  <2>3. CASE UNCHANGED <<window, tray, icon, posted>>
    BY <2>1, <2>3 DEF LoopInv, Loop!TypeOK, Loop!Places, Living
  <2>4. CASE /\ tray' = FALSE /\ icon' = FALSE /\ window' = window
             /\ posted' = IF window = "destroyed" THEN posted ELSE posted \cup {"exit"}
    <3>1. posted' # {} /\ posted' \subseteq {"exit", "quit"}
      BY <2>1, <2>4 DEF LoopInv, Loop!TypeOK, Living
    <3>2. Loop!TypeOK'
      BY <2>1, <2>4, <3>1 DEF LoopInv, Loop!TypeOK, Loop!Places
    <3>. QED  BY <2>1, <2>4, <3>1, <3>2 DEF LoopInv, Living
  <2>. QED
    BY <1>4, <2>2, <2>3, <2>4 DEF Loop!Choose, Loop!RemoveTrayIcon
<1>. QED  BY <1>1, <1>2, <1>3, <1>4

(* The loop.                                                               *)
LEMMA LoopTurns ==
  ASSUME LoopInv, Loop!Pumped \/ Loop!TestOccluded \/ Loop!Draw
  PROVE  LoopInv'
<1>1. CASE Loop!Pumped
  <2>1. loopAt' = "recover" => posted = {}
    BY <1>1 DEF Loop!Pumped, Loop!Go, LoopInv, Loop!TypeOK
  <2>. QED
    BY <1>1, <2>1
    DEF Loop!Pumped, Loop!Go, Loop!graphics, LoopInv, Loop!TypeOK, Loop!Places, Living
<1>2. CASE Loop!TestOccluded
  BY <1>2 DEF Loop!TestOccluded, LoopInv, Loop!TypeOK, Loop!Places, Living
<1>3. CASE Loop!Draw
  <2>1. /\ UNCHANGED <<window, tray, icon, gfx, made, gone, loopPages, service>>
        /\ posted' \in {posted, posted \cup {"exit"}}
        /\ lost' \in BOOLEAN /\ occluded' \in BOOLEAN
        /\ loopAt = "draw" /\ Loop!MakeViews
    BY <1>3 DEF Loop!Draw, LoopInv, Loop!TypeOK
  <2>2. /\ loopAt' \in {"pump", "crashed"}
        /\ loopViews' \in {loopViews, loopViews \cup {gfx.device}}
    BY <2>1 DEF Loop!MakeViews
  <2>3. gfx.device = made /\ made \in 1 .. MaxDevices
    BY <2>1 DEF LoopInv, Living, Loop!TypeOK
  <2>4. loopViews' \subseteq 1 .. MaxDevices + 1 /\ (made = 1 => loopViews' \subseteq {1})
    BY <2>1, <2>2, <2>3, LoopConstants DEF LoopInv, Living, Loop!TypeOK
  <2>5. Loop!TypeOK'
    BY <2>1, <2>2, <2>4 DEF LoopInv, Loop!TypeOK, Loop!Places
  <2>. QED
    BY <2>1, <2>2, <2>4, <2>5 DEF LoopInv, Living
<1>. QED  BY <1>1, <1>2, <1>3

(* The end, and what happens outside.                                      *)
LEMMA LoopLeaves ==
  ASSUME LoopInv, Loop!DeviceGoes \/ Loop!TaskbarRestarts \/ Loop!Leave \/ Loop!StopService
  PROVE  LoopInv'
<1>1. CASE Loop!DeviceGoes
  BY <1>1 DEF Loop!DeviceGoes, LoopInv, Loop!TypeOK
<1>2. CASE Loop!TaskbarRestarts
  BY <1>2 DEF Loop!TaskbarRestarts, Loop!graphics, LoopInv, Loop!TypeOK
<1>3. CASE Loop!StopService
  BY <1>3
  DEF Loop!StopService, Loop!Go, Loop!graphics, LoopInv, Loop!TypeOK, Loop!Places, Living
<1>4. CASE Loop!Leave
  <2>1. /\ loopAt' \in {"crashed", "stopping"}
        /\ UNCHANGED <<posted, made, gone, lost, occluded, loopPages, loopViews, service>>
    BY <1>4 DEF Loop!Leave
  <2>2. \/ UNCHANGED <<window, tray, icon>>
        \/ window' = "destroyed" /\ tray' = FALSE /\ icon' = FALSE
    BY <1>4 DEF Loop!Leave, Loop!Destroyed, Loop!RemoveTrayIcon
  <2>3. Loop!Complete(Loop!Null) \in GraphicsOf
    BY LoopConstants DEF Loop!Complete, Loop!Null, GraphicsOf
  <2>4. gfx' \in GraphicsOf
    BY <1>4, <2>3 DEF Loop!Leave, LoopInv, Loop!TypeOK, GraphicsOf
  <2>5. Loop!TypeOK'
    BY <2>1, <2>2, <2>4 DEF LoopInv, Loop!TypeOK, Loop!Places, GraphicsOf
  <2>. QED
    BY <2>1, <2>2, <2>5 DEF LoopInv, Living
<1>. QED  BY <1>1, <1>2, <1>3, <1>4

LEMMA LoopPreserved == LoopInv /\ [Loop!Next]_(Loop!vars) => LoopInv'
<1>. SUFFICES ASSUME LoopInv, [Loop!Next]_(Loop!vars) PROVE LoopInv'
  OBVIOUS
<1>1. CASE UNCHANGED Loop!vars
  BY <1>1 DEF Loop!vars, LoopInv, Loop!TypeOK, Living
<1>. QED
  BY <1>1, LoopMade, LoopDispatches, LoopTurns, LoopLeaves DEF Loop!Next, Loop!Ended

(* The loop's own objects are of one device that is not known to be lost   *)
(* in every frame, and until the first recovery the pages' objects are of  *)
(* it too; the window and the icon are not both gone unless the program    *)
(* ends; for any number of devices.                                        *)
THEOREM LoopIsSound ==
  Loop!Spec => [](Loop!TypeOK /\ Loop!LoopDrawsOnOneDevice /\ Loop!NeverStranded)
<1>1. Loop!Init => LoopInv
  <2>. SUFFICES ASSUME Loop!Init PROVE LoopInv
    OBVIOUS
  <2>1. gfx \in GraphicsOf /\ made \in 0 .. MaxDevices
    BY LoopConstants DEF Loop!Init, Loop!Null, GraphicsOf
  <2>2. /\ loopAt = "start" /\ window = "hidden" /\ posted = {}
        /\ tray = FALSE /\ icon = FALSE /\ gone = FALSE /\ lost = FALSE
        /\ occluded = FALSE /\ service = TRUE /\ loopPages = 0 /\ loopViews = {}
    BY DEF Loop!Init, Loop!Null
  <2>3. Loop!TypeOK
    BY <2>1, <2>2 DEF Loop!TypeOK, Loop!Places, Loop!Null, GraphicsOf
  <2>. QED
    BY <2>2, <2>3 DEF LoopInv, Living
<1>2. LoopInv => Loop!TypeOK /\ Loop!LoopDrawsOnOneDevice /\ Loop!NeverStranded
  <2>. SUFFICES ASSUME LoopInv PROVE Loop!LoopDrawsOnOneDevice /\ Loop!NeverStranded
    BY DEF LoopInv
  <2>1. loopAt = "draw" => made # 0 /\ gfx.device = made
    BY DEF LoopInv, Living, Loop!TypeOK
  <2>. QED
    BY <2>1 DEF LoopInv, Loop!LoopDrawsOnOneDevice, Loop!NeverStranded, Loop!Null, Living
<1>. QED
  BY <1>1, <1>2, LoopPreserved, PTL DEF Loop!Spec

-----------------------------------------------------------------------------
(* The configuration.                                                      *)

(* A file that was saved, edited or broken off: what it assigns has values *)
(* of the kind of the setting.                                             *)
FileOK(f) ==
  \/ f \in {Settings!Absent, Settings!Broken}
  \/ /\ DOMAIN f \subseteq {"fps", "camera", "zoom"}
     /\ "fps" \in DOMAIN f => f["fps"].value \in Int
     /\ "camera" \in DOMAIN f => f["camera"].value \in Int
     /\ "zoom" \in DOMAIN f => f["zoom"].value \in Settings!Zooms

(* What the toolboxes hold.                                                *)
Held == [Toolboxes -> Settings!Configurations \cup {Settings!Off}]

(* As long as nobody else wrote it, the file is what was written from the  *)
(* configuration that was saved.                                           *)
ConfigInv ==
  /\ Settings!TypeOK /\ FileOK(file)
  /\ config \in Held /\ cameraParams \in Held
  /\ saved # Settings!Off => file = Settings!Written(saved)

LEMMA ConfigConstants ==
  /\ HalfInt \in Nat /\ MinFps \in Nat /\ MaxFps \in Nat /\ Numbers \subseteq Int
  /\ 0 < MinFps /\ MinFps < MaxFps /\ MaxFps < HalfInt
BY ConstantsAssumption

LEMMA HalfIntPositive == HalfInt \in Int /\ HalfInt > 0
BY ConfigConstants

(* An int64_t becomes some int, and an int itself.                         *)
LEMMA AsIntIsInt ==
  ASSUME NEW v \in Int
  PROVE  Settings!AsInt(v) \in -HalfInt .. HalfInt - 1
<1>1. (v + HalfInt) % (2 * HalfInt) \in 0 .. 2 * HalfInt - 1
  BY HalfIntPositive
<1>. QED
  BY <1>1, HalfIntPositive DEF Settings!AsInt

LEMMA SmallRemainder ==
  ASSUME NEW a \in Int, NEW b \in Int, 0 <= a, a < b
  PROVE  a % b = a
OBVIOUS

LEMMA AsIntOfInt ==
  ASSUME NEW v \in -HalfInt .. HalfInt - 1
  PROVE  Settings!AsInt(v) = v
<1>1. (v + HalfInt) % (2 * HalfInt) = v + HalfInt
  BY HalfIntPositive, SmallRemainder
<1>. QED
  BY <1>1, HalfIntPositive DEF Settings!AsInt

LEMMA ClampedFps ==
  ASSUME NEW v \in Int
  PROVE  /\ Settings!clampInt(v, MinFps, MaxFps) \in MinFps .. MaxFps
         /\ v \in MinFps .. MaxFps => Settings!clampInt(v, MinFps, MaxFps) = v
BY ConfigConstants DEF Settings!clampInt

LEMMA DefaultConfiguration == Settings!Default \in Settings!Configurations
BY ConfigConstants DEF Settings!Default, Settings!Configurations, Settings!Zooms

LEMMA ConfigurationNotOff ==
  ASSUME NEW c \in Settings!Configurations
  PROVE  c # Settings!Off
BY ConfigConstants DEF Settings!Configurations, Settings!Off

(* Whatever the file says, what is loaded of it is a configuration.        *)
LEMMA LoadedIsTyped ==
  ASSUME NEW f, FileOK(f), f # Settings!Absent
  PROVE  Settings!Loaded(f) \in Settings!Configurations
<1>1. CASE f = Settings!Broken
  BY <1>1, DefaultConfiguration DEF Settings!Loaded
<1>2. CASE f # Settings!Broken
  <2> DEFINE a == IF Settings!Has(f, "fps", "int")
                  THEN Settings!clampInt(Settings!AsInt(f["fps"].value), MinFps, MaxFps)
                  ELSE Settings!Default.fps
             b == IF Settings!Has(f, "camera", "int")
                  THEN Settings!AsInt(f["camera"].value) ELSE Settings!Default.camera
             z == IF Settings!Has(f, "zoom", "float")
                  THEN f["zoom"].value ELSE Settings!Default.zoom
  <2>1. Settings!Loaded(f) = [fps |-> a, camera |-> b, zoom |-> z]
    BY <1>2 DEF Settings!Loaded
  <2>2. /\ Settings!Default.fps = MinFps /\ Settings!Default.camera = 0
        /\ Settings!Default.zoom = 1
    BY DEF Settings!Default
  <2>3. a \in MinFps .. MaxFps
    <3>1. CASE Settings!Has(f, "fps", "int")
      <4>1. f["fps"].value \in Int
        BY <1>2, <3>1 DEF Settings!Has, FileOK
      <4>2. Settings!AsInt(f["fps"].value) \in Int
        BY <4>1, AsIntIsInt, HalfIntPositive
      <4>. QED  BY <3>1, <4>2, ClampedFps
    <3>2. CASE ~Settings!Has(f, "fps", "int")
      BY <2>2, <3>2, ConfigConstants
    <3>. QED  BY <3>1, <3>2
  <2>4. b \in -HalfInt .. HalfInt - 1
    <3>1. CASE Settings!Has(f, "camera", "int")
      <4>1. f["camera"].value \in Int
        BY <1>2, <3>1 DEF Settings!Has, FileOK
      <4>. QED  BY <3>1, <4>1, AsIntIsInt
    <3>2. CASE ~Settings!Has(f, "camera", "int")
      BY <2>2, <3>2, HalfIntPositive
    <3>. QED  BY <3>1, <3>2
  <2>5. z \in Settings!Zooms
    BY <1>2, <2>2 DEF Settings!Has, FileOK, Settings!Zooms
  <2>. HIDE DEF a, b, z
  <2>. QED
    BY <2>1, <2>3, <2>4, <2>5 DEF Settings!Configurations
<1>. QED  BY <1>1, <1>2

(* What was written is loaded again.                                       *)
LEMMA WrittenIsLoaded ==
  ASSUME NEW c \in Settings!Configurations
  PROVE  Settings!Loaded(Settings!Written(c)) = c /\ FileOK(Settings!Written(c))
<1>1. DOMAIN c = {"fps", "camera", "zoom"}
  BY DEF Settings!Configurations
<1>2. c["fps"] \in MinFps .. MaxFps /\ c["camera"] \in -HalfInt .. HalfInt - 1
      /\ c["zoom"] \in Settings!Zooms
      /\ c = [fps |-> c["fps"], camera |-> c["camera"], zoom |-> c["zoom"]]
  BY DEF Settings!Configurations
<1> DEFINE w == Settings!Written(c)
<1>3. /\ DOMAIN w = {"fps", "camera", "zoom"}
      /\ w["fps"].type = "int" /\ w["camera"].type = "int" /\ w["zoom"].type = "float"
      /\ w["fps"].value = c["fps"] /\ w["camera"].value = c["camera"]
      /\ w["zoom"].value = c["zoom"]
  BY <1>1 DEF Settings!Written
<1>. HIDE DEF w
<1>4. w # Settings!Broken
  BY <1>3 DEF Settings!Broken
<1>5. c["fps"] \in -HalfInt .. HalfInt - 1 /\ c["fps"] \in Int /\ c["camera"] \in Int
  BY <1>2, ConfigConstants
<1>6. /\ Settings!AsInt(c["fps"]) = c["fps"] /\ Settings!AsInt(c["camera"]) = c["camera"]
      /\ Settings!clampInt(c["fps"], MinFps, MaxFps) = c["fps"]
  BY <1>2, <1>5, AsIntOfInt, ClampedFps
<1>7. Settings!Loaded(w) = c
  BY <1>2, <1>3, <1>4, <1>6 DEF Settings!Loaded, Settings!Has
<1>8. FileOK(w)
  BY <1>2, <1>3, <1>5 DEF FileOK
<1>. QED
  BY <1>7, <1>8 DEF w

(* What each of the actions leaves: configurations of the toolboxes, the   *)
(* one saving running, and a file that says what was saved.                *)
LEMMA ConfigKept ==
  ASSUME ConfigInv, config' \in Held, cameraParams' \in Held, FileOK(file'),
         \A t \in saving' : t \in Toolboxes /\ config'[t] # Settings!Off,
         saved' \in Settings!Configurations \cup {Settings!Off},
         saved' # Settings!Off => file' = Settings!Written(saved')
  PROVE  ConfigInv'
<1>1. saving' \subseteq Settings!Running'
  BY DEF Settings!Running
<1>2. file' \in {Settings!Absent, Settings!Broken} \/ DOMAIN file' \subseteq DOMAIN Settings!Default
  BY DEF FileOK, Settings!Default
<1>. QED
  BY <1>1, <1>2 DEF ConfigInv, Settings!TypeOK, Held

LEMMA ConfigTyped ==
  ASSUME ConfigInv
  PROVE  /\ config \in Held /\ cameraParams \in Held /\ FileOK(file)
         /\ \A t \in saving : t \in Toolboxes /\ config[t] # Settings!Off
         /\ saved \in Settings!Configurations \cup {Settings!Off}
         /\ saved # Settings!Off => file = Settings!Written(saved)
BY DEF ConfigInv, Settings!TypeOK, Settings!Running

(* A toolbox's configuration and parameters replaced.                      *)
LEMMA HeldReplaced ==
  ASSUME NEW h \in Held, NEW t \in Toolboxes,
         NEW c \in Settings!Configurations \cup {Settings!Off}
  PROVE  /\ [h EXCEPT ![t] = c] \in Held /\ [h EXCEPT ![t] = c][t] = c
         /\ \A u \in Toolboxes : u # t => [h EXCEPT ![t] = c][u] = h[u]
         /\ h[t] \in Settings!Configurations \cup {Settings!Off}
BY DEF Held

LEMMA EmptyFile == FileOK(Settings!Empty) /\ FileOK(Settings!Absent) /\ FileOK(Settings!Broken)
BY DEF FileOK, Settings!Empty

LEMMA OpenedToSave ==
  ASSUME ConfigInv, NEW t \in Toolboxes, Settings!OpenToSave(t)
  PROVE  /\ FileOK(file') /\ saving' \subseteq saving \cup {t}
         /\ saved' \in Settings!Configurations \cup {Settings!Off}
         /\ saved' # Settings!Off => file' = Settings!Written(saved')
BY ConfigTyped, EmptyFile DEF Settings!OpenToSave

LEMMA ConfigLoads ==
  ASSUME ConfigInv, NEW t \in Toolboxes, Settings!Load(t)
  PROVE  ConfigInv'
<1> DEFINE c == IF file = Settings!Absent THEN Settings!Default ELSE Settings!Loaded(file)
<1>1. /\ config[t] = Settings!Off /\ config' = [config EXCEPT ![t] = c]
      /\ cameraParams' = cameraParams
      /\ IF file = Settings!Absent THEN Settings!OpenToSave(t)
         ELSE UNCHANGED <<file, saved, saving>>
  BY DEF Settings!Load
<1>2. c \in Settings!Configurations /\ c # Settings!Off
  BY ConfigTyped, DefaultConfiguration, LoadedIsTyped, ConfigurationNotOff
<1>. HIDE DEF c
<1>3. config \in Held
  BY ConfigTyped
<1>4. /\ config' \in Held /\ config'[t] = c
      /\ \A u \in Toolboxes : u # t => config'[u] = config[u]
  BY <1>1, <1>2, <1>3 DEF Held
<1>5. /\ FileOK(file') /\ saving' \subseteq saving \cup {t}
      /\ saved' \in Settings!Configurations \cup {Settings!Off}
      /\ saved' # Settings!Off => file' = Settings!Written(saved')
  BY <1>1, ConfigTyped, OpenedToSave
<1>. QED
  BY <1>1, <1>2, <1>4, <1>5, ConfigTyped, ConfigKept

LEMMA ConfigDraws ==
  ASSUME ConfigInv, NEW t \in Toolboxes, Settings!DrawPage(t)
  PROVE  ConfigInv'
<1>1. t \notin saving /\ config[t] \in Settings!Configurations /\ UNCHANGED <<file, saving, saved>>
  BY ConfigTyped, HeldReplaced DEF Settings!DrawPage, Settings!Free, Settings!Running
<1>2. \/ config' = [config EXCEPT ![t] = Settings!Off] /\ cameraParams' = cameraParams
      \/ cameraParams' = [cameraParams EXCEPT ![t] = config[t]] /\ config' = config
  BY DEF Settings!DrawPage
<1>3. config' \in Held /\ cameraParams' \in Held
  BY <1>1, <1>2, ConfigTyped, HeldReplaced
<1>4. \A u \in Toolboxes : u # t => config'[u] = config[u]
  BY <1>2, ConfigTyped, HeldReplaced
<1>. QED
  BY <1>1, <1>3, <1>4, ConfigTyped, ConfigKept

LEMMA ConfigChanges ==
  ASSUME ConfigInv, NEW t \in Toolboxes, Settings!Change(t)
  PROVE  ConfigInv'
<1>1. PICK cam \in {0, 1}, z \in Settings!Zooms :
        cameraParams' = [cameraParams EXCEPT ![t] =
                           [fps |-> cameraParams[t].fps, camera |-> cam, zoom |-> z]]
  BY DEF Settings!Change
<1> DEFINE c == [fps |-> cameraParams[t].fps, camera |-> cam, zoom |-> z]
<1>2. cameraParams[t] \in Settings!Configurations
  <2>1. cameraParams \in Held /\ cameraParams[t] # Settings!Off
    BY ConfigTyped DEF Settings!Change
  <2>. QED  BY <2>1 DEF Held
<1>3. c \in Settings!Configurations /\ c # Settings!Off
  <2>1. cam \in -HalfInt .. HalfInt - 1
    BY ConfigConstants
  <2>2. c \in Settings!Configurations
    BY <1>2, <2>1 DEF Settings!Configurations
  <2>. QED  BY <2>2, ConfigurationNotOff
<1>4. config' = [config EXCEPT ![t] = cameraParams'[t]] /\ Settings!OpenToSave(t)
  BY DEF Settings!Change
<1>. HIDE DEF c
<1>5. cameraParams' \in Held /\ cameraParams'[t] = c
  <2>1. cameraParams' = [cameraParams EXCEPT ![t] = c] /\ cameraParams \in Held
    BY <1>1, ConfigTyped DEF c
  <2>. QED  BY <1>3, <2>1 DEF Held
<1>6. /\ config' \in Held /\ config'[t] = c
      /\ \A u \in Toolboxes : u # t => config'[u] = config[u]
  <2>1. config' = [config EXCEPT ![t] = c] /\ config \in Held
    BY <1>4, <1>5, ConfigTyped
  <2>. QED  BY <1>3, <2>1 DEF Held
<1>. QED
  BY <1>3, <1>4, <1>5, <1>6, ConfigTyped, ConfigKept, OpenedToSave

LEMMA ConfigPreviewed ==
  ASSUME ConfigInv, NEW t \in Toolboxes, Settings!ChangeOnPreview(t)
  PROVE  ConfigInv'
<1>1. PICK z \in Settings!Zooms :
        cameraParams' = [cameraParams EXCEPT ![t] = [cameraParams[t] EXCEPT !.zoom = z]]
  BY DEF Settings!ChangeOnPreview
<1>2. [cameraParams[t] EXCEPT !.zoom = z] \in Settings!Configurations
  <2>1. cameraParams[t] \in Settings!Configurations
    BY ConfigTyped, HeldReplaced DEF Settings!ChangeOnPreview
  <2>. QED  BY <2>1 DEF Settings!Configurations
<1>3. cameraParams' \in Held
  BY <1>1, <1>2, ConfigTyped, HeldReplaced
<1>4. UNCHANGED <<file, config, saving, saved>>
  BY DEF Settings!ChangeOnPreview
<1>. QED
  BY <1>3, <1>4, ConfigTyped, ConfigKept

LEMMA ConfigWrites ==
  ASSUME ConfigInv, NEW t \in Toolboxes, Settings!Write(t)
  PROVE  ConfigInv'
<1>1. /\ t \in saving /\ saving' = saving \ {t} /\ UNCHANGED <<config, cameraParams>>
      /\ \/ file' = Settings!Written(config[t]) /\ saved' = config[t]
         \/ file' = Settings!Broken /\ saved' = Settings!Off
  BY DEF Settings!Write
<1>2. config[t] \in Settings!Configurations
  BY <1>1, ConfigTyped, HeldReplaced
<1>. QED
  BY <1>1, <1>2, ConfigTyped, ConfigKept, WrittenIsLoaded, EmptyFile

LEMMA ConfigEnds ==
  ASSUME ConfigInv, NEW t \in Toolboxes, Settings!End(t)
  PROVE  ConfigInv'
<1>1. /\ config' = [config EXCEPT ![t] = Settings!Off]
      /\ cameraParams' = [cameraParams EXCEPT ![t] = Settings!Off]
      /\ saving' = saving \ {t} /\ UNCHANGED <<file, saved>>
  BY DEF Settings!End
<1>2. /\ config' \in Held /\ cameraParams' \in Held
      /\ \A u \in Toolboxes : u # t => config'[u] = config[u]
  <2>1. config \in Held /\ cameraParams \in Held
    BY ConfigTyped
  <2>. QED  BY <1>1, <2>1 DEF Held
<1>. QED
  BY <1>1, <1>2, ConfigTyped, ConfigKept

LEMMA ConfigEdited ==
  ASSUME ConfigInv, Settings!Edit
  PROVE  ConfigInv'
<1>1. FileOK(file')
  <2>1. CASE file' \in {Settings!Absent, Settings!Broken}
    BY <2>1 DEF FileOK
  <2>2. ASSUME NEW n \in Numbers, NEW fps \in {"int", "float"}, NEW z \in {"int", "float"},
               file' = [fps    |-> [type |-> fps, value |-> n],
                        camera |-> [type |-> "int", value |-> n],
                        zoom   |-> [type |-> z, value |-> 2]]
        PROVE  FileOK(file')
    <3>1. /\ DOMAIN file' = {"fps", "camera", "zoom"} /\ file'["fps"].value = n
          /\ file'["camera"].value = n /\ file'["zoom"].value = 2
      BY <2>2
    <3>. QED  BY <3>1, ConfigConstants DEF FileOK, Settings!Zooms
  <2>. QED  BY <2>1, <2>2 DEF Settings!Edit
<1>2. saved' = Settings!Off /\ UNCHANGED <<config, cameraParams, saving>>
  BY DEF Settings!Edit
<1>. QED
  BY <1>1, <1>2, ConfigTyped, ConfigKept

LEMMA ConfigPreserved == ConfigInv /\ [Settings!Next]_(Settings!vars) => ConfigInv'
<1>. SUFFICES ASSUME ConfigInv, [Settings!Next]_(Settings!vars) PROVE ConfigInv'
  OBVIOUS
<1>1. CASE UNCHANGED Settings!vars
  BY <1>1, ConfigTyped, ConfigKept DEF Settings!vars
<1>. QED
  BY <1>1, ConfigLoads, ConfigDraws, ConfigChanges, ConfigPreviewed, ConfigWrites, ConfigEnds,
     ConfigEdited DEF Settings!Next

(* What a toolbox saved is what the next one loads, for any width of the   *)
(* integers, whatever the files were from which the configuration came.    *)
THEOREM ConfigIsSound == Settings!Spec => [](Settings!TypeOK /\ Settings!SavedIsLoaded)
<1>1. Settings!Init => ConfigInv
  <2>. SUFFICES ASSUME Settings!Init PROVE ConfigInv
    OBVIOUS
  <2>1. config \in Held /\ cameraParams \in Held
    BY DEF Settings!Init, Held
  <2>2. FileOK(file) /\ saving = {} /\ saved = Settings!Off
    BY EmptyFile DEF Settings!Init
  <2>3. Settings!TypeOK
    BY <2>1, <2>2 DEF Settings!Init, Settings!TypeOK, Held
  <2>. QED  BY <2>1, <2>2, <2>3 DEF ConfigInv
<1>2. ConfigInv => Settings!TypeOK /\ Settings!SavedIsLoaded
  <2>. SUFFICES ASSUME ConfigInv PROVE Settings!TypeOK /\ Settings!SavedIsLoaded
    OBVIOUS
  <2>. QED
    BY ConfigTyped, WrittenIsLoaded DEF ConfigInv, Settings!SavedIsLoaded
<1>. QED
  BY <1>1, <1>2, ConfigPreserved, PTL DEF Settings!Spec

-----------------------------------------------------------------------------
(* The geometry of the camera engine.                                      *)

LEMMA GeometryConstants ==
  /\ MaxSide \in Nat /\ OutWidth \in Nat /\ OutHeight \in Nat /\ Den \in Nat
  /\ MaxSide > 0 /\ OutWidth > 0 /\ OutHeight > 0 /\ Den > 0
BY ConstantsAssumption

(* Of two numbers with the same divisor the larger has the larger product. *)
LEMMA ProductGrows ==
  ASSUME NEW p \in Int, NEW q \in Int, NEW b \in Int, b > 0, p <= q
  PROVE  p * b <= q * b
<1>1. (q - p) * b >= 0
  OBVIOUS
<1>2. (q - p) * b = q * b - p * b
  OBVIOUS
<1>3. p * b \in Int /\ q * b \in Int
  OBVIOUS
<1>. QED  BY <1>1, <1>2, <1>3

(* Division leaves a remainder less than the divisor.                      *)
LEMMA Divided ==
  ASSUME NEW a \in Int, NEW b \in Int, b > 0
  PROVE  /\ a \div b \in Int /\ a % b \in Int /\ 0 <= a % b /\ a % b < b
         /\ a = (a \div b) * b + (a % b)
<1>1. a \div b \in Int /\ a % b \in Int /\ 0 <= a % b /\ a % b < b
  OBVIOUS
<1>2. a = b * (a \div b) + (a % b)
  OBVIOUS
<1>3. b * (a \div b) = (a \div b) * b
  BY <1>1
<1>. QED  BY <1>1, <1>2, <1>3

(* Rounding is exact to half a unit.                                       *)
LEMMA RoundIsNear ==
  ASSUME NEW a \in Int, NEW b \in Int, b > 0
  PROVE  /\ Geometry!Round(a, b) \in Int
         /\ 2 * (Geometry!Round(a, b) * b) <= 2 * a + b
         /\ 2 * a <= 2 * (Geometry!Round(a, b) * b) + b
<1> DEFINE q == a \div b
           r == a % b
<1>1. /\ q \in Int /\ r \in Int /\ 0 <= r /\ r < b /\ a = q * b + r
      /\ q * b \in Int /\ (q + 1) * b = q * b + b
  BY Divided
<1>2. \/ Geometry!Round(a, b) = q /\ 2 * r <= b
      \/ Geometry!Round(a, b) = q + 1 /\ 2 * r >= b
  BY <1>1 DEF Geometry!Round
<1>. HIDE DEF q, r
<1>. QED
  BY <1>1, <1>2

(* What is at most n times the divisor is rounded to n at most.            *)
LEMMA RoundIsBounded ==
  ASSUME NEW a \in Int, NEW b \in Int, NEW n \in Int, b > 0, a <= n * b
  PROVE  Geometry!Round(a, b) <= n
<1> DEFINE R == Geometry!Round(a, b)
<1>1. R \in Int /\ 2 * (R * b) <= 2 * a + b
  BY RoundIsNear
<1>. HIDE DEF R
<1>2. ASSUME R >= n + 1 PROVE FALSE
  <2>1. (n + 1) * b <= R * b /\ (n + 1) * b = n * b + b
    BY <1>1, <1>2, ProductGrows
  <2>2. R * b \in Int /\ n * b \in Int
    BY <1>1
  <2>. QED  BY <1>1, <2>1, <2>2
<1>. QED
  BY <1>1, <1>2 DEF R

LEMMA GeometryLess ==
  ASSUME NEW p \in Int, NEW q \in Int
  PROVE  /\ Geometry!Least(p, q) \in {p, q} /\ Geometry!Least(p, q) <= p
         /\ Geometry!Least(p, q) <= q
         /\ Geometry!Most(p, q) \in {p, q} /\ Geometry!Most(p, q) >= p
         /\ Geometry!Most(p, q) >= q
BY DEF Geometry!Least, Geometry!Most

(* What is cut out of a side is some of it, and within it.                 *)
LEMMA CropWithin ==
  ASSUME NEW length \in Nat, length > 0, NEW z \in Int, z # 0, NEW p \in Int
  PROVE  /\ Geometry!CropLength(length, z) \in 1 .. length
         /\ Geometry!CropStart(length, Geometry!CropLength(length, z), p) \in Nat
         /\ Geometry!CropStart(length, Geometry!CropLength(length, z), p)
              + Geometry!CropLength(length, z) <= length
<1> DEFINE kept2 == Geometry!CropLength(length, z)
           cut == length - kept2
           moved == Geometry!Round(cut * (Den + Geometry!Clamp(p, -Den, Den)), 2 * Den)
<1>1. kept2 \in 1 .. length
  <2>1. CASE z < 0
    BY <2>1 DEF Geometry!CropLength
  <2>2. CASE z > 0
    <3>1. (length * Den) \div z \in Int
      BY <2>2, GeometryConstants
    <3>2. /\ Geometry!Least((length * Den) \div z, length) \in Int
          /\ Geometry!Least((length * Den) \div z, length) <= length
      BY <3>1, GeometryLess
    <3>3. kept2 = Geometry!Most(1, Geometry!Least((length * Den) \div z, length))
      BY <2>2 DEF Geometry!CropLength
    <3>. QED
      BY <3>2, <3>3, GeometryLess
  <2>. QED  BY <2>1, <2>2
<1>2. cut \in Nat
  BY <1>1
<1>3. Geometry!Clamp(p, -Den, Den) \in Int
  BY GeometryConstants, GeometryLess DEF Geometry!Clamp
<1>4. moved \in Int
  <2>1. cut * (Den + Geometry!Clamp(p, -Den, Den)) \in Int
    <3>. HIDE DEF cut
    <3>. QED  BY <1>2, <1>3, GeometryConstants
  <2>. QED
    BY <2>1, RoundIsNear, GeometryConstants
<1>5. Geometry!CropStart(length, kept2, p) = Geometry!Clamp(moved, 0, cut)
  BY DEF Geometry!CropStart
<1>. HIDE DEF kept2, cut, moved
<1>6. Geometry!Clamp(moved, 0, cut) \in 0 .. cut
  BY <1>2, <1>4 DEF Geometry!Clamp, Geometry!Least, Geometry!Most
<1>. QED
  BY <1>1, <1>2, <1>5, <1>6 DEF kept2, cut

(* The picture is put into the output, of which it fills a side.           *)
LEMMA FittedWithin ==
  ASSUME NEW w \in Nat, NEW h \in Nat, w > 0, h > 0
  PROVE  LET b == Geometry!fit_to_size([w |-> w, h |-> h])
         IN /\ b \in [x : Nat, y : Nat, w : Nat, h : Nat]
            /\ Geometry!Within(b, OutWidth, OutHeight)
            /\ b.w = OutWidth \/ b.h = OutHeight
<1> DEFINE byWidth == OutWidth * h <= OutHeight * w
           fw == IF byWidth THEN OutWidth
                 ELSE Geometry!Most(1, Geometry!Round(w * OutHeight, h))
           fh == IF byWidth THEN Geometry!Most(1, Geometry!Round(h * OutWidth, w))
                 ELSE OutHeight
<1>1. Geometry!fit_to_size([w |-> w, h |-> h]) =
        [x |-> (OutWidth - fw) \div 2, y |-> (OutHeight - fh) \div 2, w |-> fw, h |-> fh]
  BY DEF Geometry!fit_to_size
<1>2. /\ w * OutHeight \in Int /\ h * OutWidth \in Int
      /\ OutHeight * w = w * OutHeight /\ OutWidth * h = h * OutWidth
  BY GeometryConstants
<1>3. /\ Geometry!Round(w * OutHeight, h) \in Int /\ Geometry!Round(h * OutWidth, w) \in Int
      /\ byWidth => Geometry!Round(h * OutWidth, w) <= OutHeight
      /\ ~byWidth => Geometry!Round(w * OutHeight, h) <= OutWidth
  BY <1>2, RoundIsNear, RoundIsBounded, GeometryConstants
<1>4. fw \in 1 .. OutWidth /\ fh \in 1 .. OutHeight /\ (fw = OutWidth \/ fh = OutHeight)
  <2>. HIDE DEF byWidth
  <2>. QED  BY <1>3, GeometryConstants, GeometryLess
<1>. HIDE DEF byWidth, fw, fh
<1>5. /\ (OutWidth - fw) \div 2 \in Nat /\ (OutWidth - fw) \div 2 + fw <= OutWidth
      /\ (OutHeight - fh) \div 2 \in Nat /\ (OutHeight - fh) \div 2 + fh <= OutHeight
  BY <1>4, GeometryConstants
<1> DEFINE b == Geometry!fit_to_size([w |-> w, h |-> h])
<1>6. /\ b.x = (OutWidth - fw) \div 2 /\ b.y = (OutHeight - fh) \div 2
      /\ b.w = fw /\ b.h = fh
      /\ b = [x |-> b.x, y |-> b.y, w |-> b.w, h |-> b.h]
  BY <1>1
<1>. HIDE DEF b
<1>7. b.x \in Nat /\ b.y \in Nat /\ b.w \in Nat /\ b.h \in Nat
  BY <1>4, <1>5, <1>6, GeometryConstants
<1>8. b \in [x : Nat, y : Nat, w : Nat, h : Nat]
  BY <1>6, <1>7
<1>9. Geometry!Within(b, OutWidth, OutHeight) /\ (b.w = OutWidth \/ b.h = OutHeight)
  BY <1>4, <1>5, <1>6, <1>7 DEF Geometry!Within
<1>. QED
  BY <1>8, <1>9 DEF b

LEMMA RoundIsAtLeast ==
  ASSUME NEW a \in Int, NEW b \in Int, NEW n \in Int, b > 0, a >= n * b
  PROVE  Geometry!Round(a, b) >= n
<1> DEFINE R == Geometry!Round(a, b)
<1>1. R \in Int /\ 2 * a <= 2 * (R * b) + b
  BY RoundIsNear
<1>. HIDE DEF R
<1>2. ASSUME R <= n - 1 PROVE FALSE
  <2>1. R * b <= (n - 1) * b /\ (n - 1) * b = n * b - b
    BY <1>1, <1>2, ProductGrows
  <2>2. R * b \in Int /\ n * b \in Int
    BY <1>1
  <2>. QED  BY <1>1, <2>1, <2>2
<1>. QED
  BY <1>1, <1>2 DEF R

(* Where the pan puts the part cut out.                                    *)
LEMMA PanReaches ==
  ASSUME NEW length \in Nat, NEW k \in 1 .. length, NEW p \in Int
  PROVE  /\ p <= -Den => Geometry!CropStart(length, k, p) = 0
         /\ p = Den => Geometry!CropStart(length, k, p) = length - k
         /\ p = 0 => 2 * Geometry!CropStart(length, k, p) - (length - k) \in -1 .. 1
<1> DEFINE cut == length - k
           R == Geometry!Round(cut * (Den + Geometry!Clamp(p, -Den, Den)), 2 * Den)
<1>1. cut \in Nat
  OBVIOUS
<1>2. Geometry!CropStart(length, k, p) = Geometry!Clamp(R, 0, cut)
  BY DEF Geometry!CropStart
<1>3. ASSUME p <= -Den PROVE Geometry!Clamp(R, 0, cut) = 0
  <2>1. Geometry!Clamp(p, -Den, Den) = -Den
    BY <1>3, GeometryConstants DEF Geometry!Clamp, Geometry!Least, Geometry!Most
  <2>2. cut * (Den + Geometry!Clamp(p, -Den, Den)) = 0
    BY <1>1, <2>1, GeometryConstants
  <2>3. R \in Int /\ R <= 0
    BY <2>2, RoundIsNear, RoundIsBounded, GeometryConstants
  <2>. HIDE DEF R, cut
  <2>. QED
    BY <1>1, <2>3 DEF Geometry!Clamp, Geometry!Least, Geometry!Most
<1>4. ASSUME p = Den PROVE Geometry!Clamp(R, 0, cut) = cut
  <2>1. Geometry!Clamp(p, -Den, Den) = Den
    BY <1>4, GeometryConstants DEF Geometry!Clamp, Geometry!Least, Geometry!Most
  <2>2. cut * (Den + Geometry!Clamp(p, -Den, Den)) = cut * (2 * Den) /\ cut * (2 * Den) \in Int
    BY <1>1, <2>1, GeometryConstants
  <2>3. R \in Int /\ R >= cut
    <3>. HIDE DEF cut
    <3>. QED  BY <1>1, <2>2, RoundIsNear, RoundIsAtLeast, GeometryConstants
  <2>. HIDE DEF R, cut
  <2>. QED
    BY <1>1, <2>3 DEF Geometry!Clamp, Geometry!Least, Geometry!Most
<1>5. ASSUME p = 0 PROVE 2 * Geometry!Clamp(R, 0, cut) - cut \in -1 .. 1
  <2>1. Geometry!Clamp(p, -Den, Den) = 0
    BY <1>5, GeometryConstants DEF Geometry!Clamp, Geometry!Least, Geometry!Most
  <2>2. cut * (Den + Geometry!Clamp(p, -Den, Den)) = cut * Den /\ cut * Den \in Int
    BY <1>1, <2>1, GeometryConstants
  <2>3. /\ R \in Int
        /\ 2 * (R * (2 * Den)) <= 2 * (cut * Den) + 2 * Den
        /\ 2 * (cut * Den) <= 2 * (R * (2 * Den)) + 2 * Den
    BY <2>2, RoundIsNear, GeometryConstants
  <2>. HIDE DEF R, cut
  <2>4. 2 * R <= cut + 1
    <3>1. ASSUME cut + 2 <= 2 * R PROVE FALSE
      <4>1. (cut + 2) * (2 * Den) <= (2 * R) * (2 * Den)
        BY <1>1, <2>3, <3>1, ProductGrows, GeometryConstants
      <4>2. /\ (cut + 2) * (2 * Den) = 2 * (cut * Den) + 4 * Den
            /\ (2 * R) * (2 * Den) = 2 * (R * (2 * Den))
        BY <1>1, <2>3, GeometryConstants
      <4>3. cut * Den \in Int /\ R * (2 * Den) \in Int
        BY <1>1, <2>3, GeometryConstants
      <4>. QED  BY <2>3, <4>1, <4>2, <4>3, GeometryConstants
    <3>. QED  BY <1>1, <2>3, <3>1
  <2>5. cut <= 2 * R + 1
    <3>1. ASSUME 2 * R <= cut - 2 PROVE FALSE
      <4>1. (2 * R) * (2 * Den) <= (cut - 2) * (2 * Den)
        BY <1>1, <2>3, <3>1, ProductGrows, GeometryConstants
      <4>2. /\ (cut - 2) * (2 * Den) = 2 * (cut * Den) - 4 * Den
            /\ (2 * R) * (2 * Den) = 2 * (R * (2 * Den))
        BY <1>1, <2>3, GeometryConstants
      <4>3. cut * Den \in Int /\ R * (2 * Den) \in Int
        BY <1>1, <2>3, GeometryConstants
      <4>. QED  BY <2>3, <4>1, <4>2, <4>3, GeometryConstants
    <3>. QED  BY <1>1, <2>3, <3>1
  <2>. QED
    BY <1>1, <2>3, <2>4, <2>5 DEF Geometry!Clamp, Geometry!Least, Geometry!Most
<1>. HIDE DEF R
<1>. QED
  BY <1>2, <1>3, <1>4, <1>5

GeometryParts == [x : Nat, y : Nat, w : Nat, h : Nat]

(* What is cut out of a frame.                                             *)
LEMMA CropFits ==
  ASSUME NEW s, NEW p, s.w \in Nat, s.h \in Nat, s.w > 0, s.h > 0,
         p.zoom \in Int, p.zoom # 0, p.panX \in Int, p.panY \in Int
  PROVE  LET c == Geometry!compute_crop(s, p)
         IN /\ c \in GeometryParts /\ Geometry!Within(c, s.w, s.h)
            /\ c.w < s.w =>
                 /\ p.panX <= -Den => c.x = 0
                 /\ p.panX = Den => s.w - c.w - c.x = 0
                 /\ p.panX = 0 => c.x - (s.w - c.w - c.x) \in -1 .. 1
<1> DEFINE c == Geometry!compute_crop(s, p)
           w == Geometry!CropLength(s.w, p.zoom)
           h == Geometry!CropLength(s.h, p.zoom)
           x == Geometry!CropStart(s.w, w, p.panX)
           y == Geometry!CropStart(s.h, h, p.panY)
<1>1. CASE c = [x |-> 0, y |-> 0, w |-> s.w, h |-> s.h]
  <2>1. c.x = 0 /\ c.y = 0 /\ c.w = s.w /\ c.h = s.h /\ c \in GeometryParts
    BY <1>1 DEF GeometryParts
  <2>. HIDE DEF c
  <2>2. Geometry!Within(c, s.w, s.h) /\ ~(c.w < s.w)
    BY <2>1 DEF Geometry!Within
  <2>. QED  BY <2>1, <2>2 DEF c
<1>2. CASE c = [x |-> x, y |-> y, w |-> w, h |-> h]
  <2>1. /\ w \in 1 .. s.w /\ h \in 1 .. s.h /\ x \in Nat /\ y \in Nat
        /\ x + w <= s.w /\ y + h <= s.h
    BY CropWithin
  <2>2. /\ p.panX <= -Den => x = 0
        /\ p.panX = Den => x = s.w - w
        /\ p.panX = 0 => 2 * x - (s.w - w) \in -1 .. 1
    <3>. HIDE DEF w
    <3>. QED  BY <2>1, PanReaches
  <2>. HIDE DEF w, h, x, y
  <2>3. c.x = x /\ c.y = y /\ c.w = w /\ c.h = h /\ c \in GeometryParts
    <3>. HIDE DEF c
    <3>. QED  BY <1>2, <2>1 DEF GeometryParts
  <2>. HIDE DEF c
  <2>4. Geometry!Within(c, s.w, s.h)
    BY <2>1, <2>3 DEF Geometry!Within
  <2>5. /\ p.panX <= -Den => c.x = 0
        /\ p.panX = Den => s.w - c.w - c.x = 0
        /\ p.panX = 0 => c.x - (s.w - c.w - c.x) \in -1 .. 1
    BY <2>1, <2>2, <2>3
  <2>. QED  BY <2>3, <2>4, <2>5 DEF c
<1>3. c = [x |-> 0, y |-> 0, w |-> s.w, h |-> s.h] \/ c = [x |-> x, y |-> y, w |-> w, h |-> h]
  BY DEF Geometry!compute_crop
<1>. QED  BY <1>1, <1>2, <1>3

(* What is cut out fits, so that what comes of it is fitted into the       *)
(* output: the properties are inductive with the types.                    *)
GeometryInv == Geometry!TypeOK /\ Geometry!FramesFit /\ Geometry!PanReachesTheEdges

LEMMA GeometryTyped ==
  ASSUME GeometryInv
  PROVE  /\ size.w \in Nat /\ size.h \in Nat /\ size.w > 0 /\ size.h > 0
         /\ size = [w |-> size.w, h |-> size.h]
         /\ params.zoom \in Int
         /\ params.panX \in Int /\ params.panY \in Int
<1>1. Geometry!Most(MaxSide, OutWidth) \in Int /\ Geometry!Most(MaxSide, OutHeight) \in Int
  BY GeometryConstants DEF Geometry!Most
<1>2. /\ size.w \in Nat /\ size.h \in Nat /\ size.w > 0 /\ size.h > 0
      /\ size = [w |-> size.w, h |-> size.h]
  BY <1>1 DEF GeometryInv, Geometry!TypeOK
<1>3. params.zoom \in Geometry!Zooms /\ params.panX \in Geometry!Pans /\ params.panY \in Geometry!Pans
  BY DEF GeometryInv, Geometry!TypeOK
<1>4. params.zoom \in Int /\ params.panX \in Int /\ params.panY \in Int
  BY <1>3, GeometryConstants DEF Geometry!Zooms, Geometry!Pans
<1>. QED  BY <1>2, <1>4

(* How it begins, and ends.                                                *)
LEMMA GeometryBegins ==
  /\ [w |-> 1, h |-> 1] \in [w : 1 .. Geometry!Most(MaxSide, OutWidth),
                             h : 1 .. Geometry!Most(MaxSide, OutHeight)]
  /\ Geometry!Default \in [rotation : Geometry!Rotations, zoom : Geometry!Zooms,
                           panX : Geometry!Pans, panY : Geometry!Pans]
  /\ Geometry!Whole \in [x : Nat, y : Nat, w : Nat, h : Nat]
<1>1. /\ Geometry!Most(MaxSide, OutWidth) \in Int /\ 1 <= Geometry!Most(MaxSide, OutWidth)
      /\ Geometry!Most(MaxSide, OutHeight) \in Int /\ 1 <= Geometry!Most(MaxSide, OutHeight)
  BY GeometryConstants DEF Geometry!Most
<1>2. [w |-> 1, h |-> 1] \in [w : 1 .. Geometry!Most(MaxSide, OutWidth),
                             h : 1 .. Geometry!Most(MaxSide, OutHeight)]
  BY <1>1
<1>3. Geometry!Default \in [rotation : Geometry!Rotations, zoom : Geometry!Zooms,
                           panX : Geometry!Pans, panY : Geometry!Pans]
  BY DEF Geometry!Default, Geometry!Rotations, Geometry!Zooms, Geometry!Pans
<1>4. Geometry!Whole \in [x : Nat, y : Nat, w : Nat, h : Nat]
  BY DEF Geometry!Whole
<1>. QED  BY <1>2, <1>3, <1>4

LEMMA GeometryReads ==
  ASSUME GeometryInv, Geometry!Read
  PROVE  GeometryInv'
<1>1. /\ stage' = "rotate" /\ UNCHANGED <<crop, bars>>
      /\ size' \in [w : 1 .. MaxSide, h : 1 .. MaxSide]
      /\ params' \in [rotation : Geometry!Rotations, zoom : Geometry!Zooms,
                      panX : Geometry!Pans, panY : {0, Den}]
  BY DEF Geometry!Read
<1>2. /\ MaxSide <= Geometry!Most(MaxSide, OutWidth) /\ MaxSide <= Geometry!Most(MaxSide, OutHeight)
      /\ Geometry!Most(MaxSide, OutWidth) \in Int /\ Geometry!Most(MaxSide, OutHeight) \in Int
  BY GeometryConstants DEF Geometry!Most
<1>3. size' \in [w : 1 .. Geometry!Most(MaxSide, OutWidth),
                 h : 1 .. Geometry!Most(MaxSide, OutHeight)]
  BY <1>1, <1>2, GeometryConstants
<1>4. params' \in [rotation : Geometry!Rotations, zoom : Geometry!Zooms,
                   panX : Geometry!Pans, panY : Geometry!Pans]
  <2>1. {0, Den} \subseteq Geometry!Pans
    BY DEF Geometry!Pans
  <2>. QED  BY <1>1, <2>1
<1>5. Geometry!TypeOK'
  BY <1>1, <1>3, <1>4 DEF GeometryInv, Geometry!TypeOK
<1>6. Geometry!FramesFit' /\ Geometry!PanReachesTheEdges'
  BY <1>1 DEF GeometryInv, Geometry!FramesFit, Geometry!PanReachesTheEdges
<1>. QED  BY <1>5, <1>6 DEF GeometryInv

LEMMA GeometryRotates ==
  ASSUME GeometryInv, Geometry!Rotate
  PROVE  GeometryInv'
<1>1. /\ stage' = "cut" /\ UNCHANGED <<params, crop>>
      /\ size' \in {size, [w |-> OutWidth, h |-> OutHeight]}
      /\ \/ bars' = bars
         \/ bars' = Geometry!fit_to_size([w |-> size.h, h |-> size.w])
         \/ bars' = Geometry!fit_to_size(size)
  BY DEF Geometry!Rotate
<1>2. \/ bars' = bars
      \/ /\ bars' \in [x : Nat, y : Nat, w : Nat, h : Nat]
         /\ Geometry!Within(bars', OutWidth, OutHeight)
         /\ bars'.w = OutWidth \/ bars'.h = OutHeight
  BY <1>1, GeometryTyped, FittedWithin
<1>3. /\ OutWidth <= Geometry!Most(MaxSide, OutWidth) /\ OutHeight <= Geometry!Most(MaxSide, OutHeight)
      /\ Geometry!Most(MaxSide, OutWidth) \in Int /\ Geometry!Most(MaxSide, OutHeight) \in Int
  BY GeometryConstants DEF Geometry!Most
<1>4. [w |-> OutWidth, h |-> OutHeight] \in [w : 1 .. Geometry!Most(MaxSide, OutWidth),
                                             h : 1 .. Geometry!Most(MaxSide, OutHeight)]
  BY <1>3, GeometryConstants
<1>5. Geometry!TypeOK'
  BY <1>1, <1>2, <1>4 DEF GeometryInv, Geometry!TypeOK
<1>6. Geometry!FramesFit' /\ Geometry!PanReachesTheEdges'
  BY <1>1, <1>2 DEF GeometryInv, Geometry!FramesFit, Geometry!PanReachesTheEdges
<1>. QED  BY <1>5, <1>6 DEF GeometryInv

LEMMA GeometryCuts ==
  ASSUME GeometryInv, Geometry!Cut
  PROVE  GeometryInv'
<1>1. /\ stage' = "fit" /\ UNCHANGED <<size, params, bars>>
      /\ params.zoom # 0
      /\ crop' = Geometry!compute_crop(size, params)
  BY DEF Geometry!Cut
<1>2. /\ crop' \in GeometryParts /\ Geometry!Within(crop', size.w, size.h)
      /\ crop'.w < size.w =>
           /\ params.panX <= -Den => crop'.x = 0
           /\ params.panX = Den => size.w - crop'.w - crop'.x = 0
           /\ params.panX = 0 => crop'.x - (size.w - crop'.w - crop'.x) \in -1 .. 1
  BY <1>1, GeometryTyped, CropFits
<1>3. Geometry!TypeOK'
  BY <1>1, <1>2 DEF GeometryInv, Geometry!TypeOK, GeometryParts
<1>4. Geometry!FramesFit' /\ Geometry!PanReachesTheEdges'
  BY <1>1, <1>2 DEF GeometryInv, Geometry!FramesFit, Geometry!PanReachesTheEdges
<1>. QED  BY <1>3, <1>4 DEF GeometryInv

LEMMA GeometryFits ==
  ASSUME GeometryInv, Geometry!Fit \/ Geometry!Send \/ Geometry!Lose
  PROVE  GeometryInv'
<1>1. CASE Geometry!Fit
  <2>1. /\ stage = "fit" /\ stage' = "done" /\ UNCHANGED <<size, params, crop>>
        /\ bars' = Geometry!fit_to_size([w |-> crop.w, h |-> crop.h])
    BY <1>1 DEF Geometry!Fit
  <2>2. crop.w \in Nat /\ crop.h \in Nat /\ crop.w > 0 /\ crop.h > 0
    BY <2>1 DEF GeometryInv, Geometry!TypeOK, Geometry!FramesFit, Geometry!Within
  <2>3. /\ bars' \in [x : Nat, y : Nat, w : Nat, h : Nat]
        /\ Geometry!Within(bars', OutWidth, OutHeight)
        /\ bars'.w = OutWidth \/ bars'.h = OutHeight
    BY <2>1, <2>2, FittedWithin
  <2>4. Geometry!TypeOK'
    BY <2>1, <2>3 DEF GeometryInv, Geometry!TypeOK
  <2>5. Geometry!FramesFit' /\ Geometry!PanReachesTheEdges'
    BY <2>1, <2>3 DEF Geometry!FramesFit, Geometry!PanReachesTheEdges
  <2>. QED  BY <2>4, <2>5 DEF GeometryInv
<1>2. CASE Geometry!Send \/ Geometry!Lose
  <2>1. /\ stage' = "idle" /\ bars' = Geometry!Whole /\ crop' = Geometry!Whole
        /\ size' = [w |-> 1, h |-> 1] /\ params' = Geometry!Default
    BY <1>2 DEF Geometry!Send, Geometry!Lose, Geometry!Forget
  <2>2. Geometry!TypeOK'
    BY <2>1, GeometryBegins DEF Geometry!TypeOK
  <2>3. Geometry!FramesFit' /\ Geometry!PanReachesTheEdges'
    BY <2>1 DEF Geometry!FramesFit, Geometry!PanReachesTheEdges
  <2>. QED  BY <2>2, <2>3 DEF GeometryInv
<1>. QED  BY <1>1, <1>2

LEMMA GeometryPreserved == GeometryInv /\ [Geometry!Next]_(Geometry!vars) => GeometryInv'
<1>. SUFFICES ASSUME GeometryInv, [Geometry!Next]_(Geometry!vars) PROVE GeometryInv'
  OBVIOUS
<1>1. CASE UNCHANGED Geometry!vars
  BY <1>1
  DEF Geometry!vars, GeometryInv, Geometry!TypeOK, Geometry!FramesFit,
      Geometry!PanReachesTheEdges
<1>. QED
  BY <1>1, GeometryReads, GeometryRotates, GeometryCuts, GeometryFits DEF Geometry!Next

(* No camera, rotation, zoom or pan makes the engine slice outside of an   *)
(* array, and the pan reaches the edges, for any size of the frames and of *)
(* the output and any denominator, also with the zooms and pans out of     *)
(* range that a file may have (with a zoom of 0 no frame is cut at all).   *)
THEOREM GeometryIsSound ==
  Geometry!Spec => [](Geometry!TypeOK /\ Geometry!FramesFit /\ Geometry!PanReachesTheEdges)
<1>1. Geometry!Init => GeometryInv
  <2>. SUFFICES ASSUME Geometry!Init PROVE GeometryInv
    OBVIOUS
  <2>1. Geometry!TypeOK
    BY GeometryBegins DEF Geometry!Init, Geometry!TypeOK
  <2>. QED
    BY <2>1 DEF Geometry!Init, GeometryInv, Geometry!FramesFit, Geometry!PanReachesTheEdges
<1>2. GeometryInv => Geometry!TypeOK /\ Geometry!FramesFit /\ Geometry!PanReachesTheEdges
  BY DEF GeometryInv
<1>. QED
  BY <1>1, <1>2, GeometryPreserved, PTL DEF Geometry!Spec

-----------------------------------------------------------------------------
(* The charts.                                                             *)

ChartSamples == [time : 0 .. MaxTime, value : 1 .. MaxValue]

(* Which of the values offered are on the curve: the ones that are neither *)
(* old nor too many.                                                       *)
OnCurve(o) == {i \in 1 .. Len(o) : /\ o[i].time >= o[Len(o)].time - Window
                                   /\ Len(o) - i < Capacity}

Ascending(o) == \A i, j \in 1 .. Len(o) : i < j => o[i].time < o[j].time

(* The points are the last of what was offered, and all that are to be on  *)
(* the curve.                                                              *)
IsCurve(p, o) ==
  /\ Len(p) <= Len(o)
  /\ \A i \in 1 .. Len(p) : p[i] = o[Len(o) - Len(p) + i]
  /\ OnCurve(o) = Len(o) - Len(p) + 1 .. Len(o)

(* A chart takes the first value of each frame that has one.               *)
ChartInv ==
  /\ Chart!TypeOK
  /\ lastSampleTime = IF offered = <<>> THEN -1 ELSE offered[Len(offered)].time
  /\ lastSampleTime <= now
  /\ Ascending(offered)
  /\ IsCurve(points, offered)

LEMMA ChartConstants ==
  /\ Capacity \in Nat /\ Window \in Nat /\ MaxTime \in Nat /\ MaxValue \in Nat
  /\ Capacity > 0 /\ Window > 0 /\ MaxValue > 0
BY ConstantsAssumption

(* A set of naturals that is bounded has a greatest.                       *)
LEMMA GreatestNatural ==
  ASSUME NEW bound \in Nat, NEW S \in SUBSET (0 .. bound), S # {}
  PROVE  \E x \in S : \A y \in S : x >= y
<1>. DEFINE above == {b \in Nat : \A y \in S : y <= b}
<1>1. above \in SUBSET Nat /\ bound \in above
  OBVIOUS
<1>2. PICK m \in above : \A b \in above : m <= b
  <2>. HIDE DEF above
  <2>. QED  BY <1>1, LeastNatural
<1>3. m \in Nat /\ \A y \in S : y \in Nat /\ y <= m
  OBVIOUS
<1>4. ASSUME m \notin S PROVE FALSE
  <2>1. m # 0
    <3>1. PICK y \in S : TRUE
      OBVIOUS
    <3>. QED  BY <1>3, <1>4, <3>1
  <2>2. m - 1 \in above
    BY <1>3, <1>4, <2>1
  <2>. QED  BY <1>2, <1>3, <2>2
<1>. QED  BY <1>3, <1>4

LEMMA ChartMin ==
  ASSUME NEW S \in SUBSET Nat, S # {}
  PROVE  Chart!Min(S) \in S /\ \A y \in S : Chart!Min(S) <= y
<1>1. \E x \in S : \A y \in S : x <= y
  BY LeastNatural
<1>. QED  BY <1>1 DEF Chart!Min

LEMMA ChartMax ==
  ASSUME NEW bound \in Nat, NEW S \in SUBSET (0 .. bound), S # {}
  PROVE  Chart!Max(S) \in S /\ \A y \in S : Chart!Max(S) >= y
<1>1. \E x \in S : \A y \in S : x >= y
  BY GreatestNatural
<1>. QED  BY <1>1 DEF Chart!Max

(* What is left of a curve and one more value, when time has gone on.      *)
LEMMA PoppedIsCurve ==
  ASSUME NEW o \in Seq(ChartSamples), NEW p \in Seq(ChartSamples), NEW x \in ChartSamples,
         IsCurve(p, o), Ascending(o), \A i \in 1 .. Len(o) : o[i].time < x.time
  PROVE  /\ Ascending(Append(o, x))
         /\ Chart!Popped(Append(p, x), x.time) \in Seq(ChartSamples)
         /\ Len(Chart!Popped(Append(p, x), x.time)) <= Capacity
         /\ IsCurve(Chart!Popped(Append(p, x), x.time), Append(o, x))
<1> DEFINE q == Append(p, x)
           u == Append(o, x)
           stops == {i \in 1 .. Len(q) : Len(q) - i < Capacity /\ q[i].time >= x.time - Window}
           m == Chart!Min(stops)
           r == SubSeq(q, m, Len(q))
<1>1. /\ q \in Seq(ChartSamples) /\ Len(q) = Len(p) + 1 /\ q[Len(q)] = x /\ Len(p) \in Nat
      /\ \A i \in 1 .. Len(p) : q[i] = p[i]
  OBVIOUS
<1>2. /\ u \in Seq(ChartSamples) /\ Len(u) = Len(o) + 1 /\ u[Len(u)] = x /\ Len(o) \in Nat
      /\ \A i \in 1 .. Len(o) : u[i] = o[i]
  OBVIOUS
<1>3. \A y \in ChartSamples : y.time \in Nat
  BY ChartConstants DEF ChartSamples
<1>4. (\A i \in 1 .. Len(o) : o[i].time \in Nat) /\ x.time \in Nat
  BY <1>3
<1>5. Ascending(u)
  <2>. SUFFICES ASSUME NEW i \in 1 .. Len(u), NEW j \in 1 .. Len(u), i < j
                PROVE  u[i].time < u[j].time
    BY DEF Ascending
  <2>. HIDE DEF u
  <2>1. i \in 1 .. Len(o) /\ (j \in 1 .. Len(o) \/ j = Len(u)) /\ u[i] = o[i]
    <3>1. i \in 1 .. Len(o) /\ (j \in 1 .. Len(o) \/ j = Len(u))
      <4> DEFINE k == Len(o)
                 n == Len(u)
      <4>1. k \in Nat /\ n = k + 1 /\ i \in 1 .. n /\ j \in 1 .. n
        BY <1>2
      <4>. HIDE DEF k, n
      <4>2. i \in 1 .. k /\ (j \in 1 .. k \/ j = n)
        BY <4>1
      <4>. QED  BY <4>2 DEF k, n
    <3>. QED  BY <1>2, <3>1
  <2>2. CASE j \in 1 .. Len(o)
    <3>1. o[i].time < o[j].time
      BY <2>2, <2>1 DEF Ascending
    <3>. QED  BY <1>2, <2>1, <2>2, <3>1
  <2>3. CASE j = Len(u)
    <3>1. o[i].time < x.time
      BY <2>1
    <3>. QED  BY <1>2, <2>1, <2>3, <3>1
  <2>. QED  BY <2>1, <2>2, <2>3
<1>6. stops \in SUBSET Nat /\ Len(q) \in stops
  <2>. HIDE DEF q
  <2>. QED  BY <1>1, <1>4, ChartConstants
<1>7. m \in stops /\ \A y \in stops : m <= y
  <2>. HIDE DEF stops
  <2>. QED  BY <1>6, ChartMin
<1>8. Chart!Popped(q, x.time) = r
  <2>1. stops # {}
    BY <1>6
  <2>. QED  BY <2>1 DEF Chart!Popped
<1>9. m \in 1 .. Len(q) /\ Len(q) - m < Capacity /\ q[m].time >= x.time - Window
  BY <1>7
<1>. HIDE DEF q, u, stops, m
<1>10. /\ r \in Seq(ChartSamples) /\ Len(r) = Len(q) - m + 1
       /\ \A i \in 1 .. Len(r) : r[i] = q[m + i - 1]
  BY <1>1, <1>9
<1>. HIDE DEF r
<1>11. Len(p) <= Len(o) /\ \A i \in 1 .. Len(q) : q[i] = u[Len(u) - Len(q) + i]
  <2>1. Len(p) <= Len(o) /\ Len(u) - Len(q) = Len(o) - Len(p)
    BY <1>1, <1>2 DEF IsCurve
  <2>2. ASSUME NEW i \in 1 .. Len(p)
        PROVE  q[i] = u[Len(u) - Len(q) + i]
    <3>1. Len(o) - Len(p) + i \in 1 .. Len(o)
      BY <1>1, <1>2, <2>1
    <3>2. q[i] = p[i] /\ p[i] = o[Len(o) - Len(p) + i]
      BY <1>1 DEF IsCurve
    <3>. QED  BY <1>2, <2>1, <3>1, <3>2
  <2>3. q[Len(q)] = u[Len(u) - Len(q) + Len(q)]
    BY <1>1, <1>2
  <2>4. \A i \in 1 .. Len(q) : i \in 1 .. Len(p) \/ i = Len(q)
    BY <1>1
  <2>. QED  BY <2>1, <2>2, <2>3, <2>4
<1>12. Len(r) <= Len(u) /\ \A i \in 1 .. Len(r) : r[i] = u[Len(u) - Len(r) + i]
  <2>1. Len(r) \in Nat /\ m \in Nat /\ Len(r) = Len(q) - m + 1 /\ Len(r) <= Len(u)
    BY <1>1, <1>2, <1>9, <1>10, <1>11
  <2>2. ASSUME NEW i \in 1 .. Len(r)
        PROVE  r[i] = u[Len(u) - Len(r) + i]
    <3>1. m + i - 1 \in 1 .. Len(q)
      BY <1>1, <1>9, <2>1
    <3>2. Len(u) - Len(q) + (m + i - 1) = Len(u) - Len(r) + i
      BY <1>1, <1>2, <2>1
    <3>. QED  BY <1>10, <1>11, <3>1, <3>2
  <2>. QED  BY <2>1, <2>2
<1> DEFINE f == Len(u) - Len(r) + 1
<1>13. /\ f \in 1 .. Len(u) /\ f = Len(u) - Len(q) + m /\ u[f] = q[m]
       /\ Len(u) - Len(q) = Len(o) - Len(p) /\ Len(p) <= Len(o)
  <2>1. Len(u) - Len(q) = Len(o) - Len(p) /\ Len(p) <= Len(o)
    BY <1>1, <1>2, <1>11
  <2>2. f = Len(u) - Len(q) + m /\ f \in 1 .. Len(u)
    BY <1>1, <1>2, <1>9, <1>10, <2>1
  <2>. QED  BY <1>9, <1>11, <2>1, <2>2
<1>. HIDE DEF f
<1>14. ASSUME NEW i \in f .. Len(u)
       PROVE  i \in OnCurve(u)
  <2>1. i \in 1 .. Len(u) /\ Len(u) - i < Capacity
    <3> DEFINE k == Len(q)
               n == Len(u)
    <3>1. /\ k \in Nat /\ n \in Nat /\ f \in 1 .. n /\ f = n - k + m
          /\ m \in 1 .. k /\ k - m < Capacity /\ i \in f .. n
      BY <1>1, <1>2, <1>9, <1>13
    <3>. HIDE DEF k, n
    <3>2. i \in 1 .. n /\ n - i < Capacity
      BY <3>1, ChartConstants
    <3>. QED  BY <3>2 DEF n
  <2>2. u[i].time \in Nat /\ u[f].time \in Nat /\ u[f].time <= u[i].time
    <3>1. u[i] \in ChartSamples /\ u[f] \in ChartSamples
      BY <1>2, <1>13, <2>1
    <3>2. f < i => u[f].time < u[i].time
      BY <1>5, <1>13, <2>1 DEF Ascending
    <3>. QED  BY <1>3, <1>13, <2>1, <3>1, <3>2
  <2>3. u[i].time >= x.time - Window
    <3>1. u[f].time >= x.time - Window
      BY <1>9, <1>13
    <3>. QED  BY <1>4, <2>2, <3>1, ChartConstants
  <2>. QED
    BY <1>2, <2>1, <2>3 DEF OnCurve
<1>15. ASSUME NEW i \in OnCurve(u), i < f
       PROVE  FALSE
  <2>1. /\ i \in 1 .. Len(u) /\ u[i].time >= x.time - Window /\ Len(u) - i < Capacity
    BY <1>2, <1>15 DEF OnCurve
  <2>2. CASE i <= Len(o) - Len(p)
    <3>1. i \in 1 .. Len(o) /\ u[i] = o[i] /\ Len(o) \in 1 .. Len(o) /\ Len(o) - i < Capacity
      BY <1>1, <1>2, <2>1, <2>2, ChartConstants
    <3>2. o[i].time \in Nat /\ o[Len(o)].time \in Nat /\ o[Len(o)].time < x.time
      BY <1>4, <3>1
    <3>3. o[i].time >= o[Len(o)].time - Window
      <4> DEFINE ti == o[i].time
                 tl == o[Len(o)].time
                 tx == x.time
      <4>1. ti \in Nat /\ tl \in Nat /\ tx \in Nat /\ tl < tx /\ ti >= tx - Window
        BY <1>4, <2>1, <3>1, <3>2
      <4>. HIDE DEF ti, tl, tx
      <4>2. ti >= tl - Window
        BY <4>1, ChartConstants
      <4>. QED  BY <4>2 DEF ti, tl
    <3>4. i \in Len(o) - Len(p) + 1 .. Len(o)
      BY <3>1, <3>3 DEF OnCurve, IsCurve
    <3>. QED  BY <1>1, <1>2, <2>2, <3>4
  <2>3. CASE i > Len(o) - Len(p)
    <3> DEFINE j == i - (Len(u) - Len(q))
    <3>1. j \in 1 .. Len(q) /\ Len(u) - Len(q) + j = i /\ j < m /\ Len(q) - j = Len(u) - i
      BY <1>1, <1>2, <1>9, <1>13, <1>15, <2>1, <2>3
    <3>. HIDE DEF j
    <3>2. q[j] = u[i]
      BY <1>11, <3>1
    <3>3. j \in stops
      BY <2>1, <3>1, <3>2 DEF stops
    <3>. QED  BY <1>7, <1>9, <3>1, <3>3
  <2>. QED
    BY <1>1, <1>2, <2>1, <2>2, <2>3
<1>16. OnCurve(u) = Len(u) - Len(r) + 1 .. Len(u)
  <2>1. OnCurve(u) \subseteq 1 .. Len(u)
    BY DEF OnCurve
  <2>2. Len(u) \in Nat /\ f \in Nat /\ f >= 1
    BY <1>2, <1>13
  <2>3. \A i \in 1 .. Len(u) : i < f \/ i \in f .. Len(u)
    BY <2>2
  <2>4. OnCurve(u) = f .. Len(u)
    BY <1>14, <1>15, <2>1, <2>3
  <2>. QED  BY <2>4 DEF f
<1>17. IsCurve(r, u) /\ Len(r) <= Capacity
  BY <1>1, <1>9, <1>10, <1>12, <1>16, ChartConstants DEF IsCurve
<1>. QED
  BY <1>5, <1>8, <1>10, <1>17 DEF q, u

(* The values that a frame has for a chart: none, or one to be taken and   *)
(* perhaps a second.                                                       *)
LEMMA ShownValues ==
  ASSUME ChartInv, NEW values \in Chart!Shown
  PROVE  \/ values = <<>>
         \/ Len(values) = 1 /\ values[1] \in 1 .. MaxValue
         \/ Len(values) = 2 /\ values[1] \in 1 .. MaxValue
<1>1. ASSUME NEW rates \in [{1, 2} -> {0} \cup Chart!Values]
      PROVE  \/ Chart!Best(rates) = <<>>
             \/ \E v \in 1 .. MaxValue : Chart!Best(rates) = <<v>>
  <2> DEFINE rx == {rates[a] : a \in DOMAIN rates} \ {0}
  <2>1. rx \in SUBSET (1 .. MaxValue) /\ rx \in SUBSET (0 .. MaxValue)
    BY DEF Chart!Values
  <2>2. Chart!Best(rates) = IF rx = {} THEN <<>> ELSE <<Chart!Max(rx)>>
    BY DEF Chart!Best
  <2>. HIDE DEF rx
  <2>3. rx # {} => Chart!Max(rx) \in 1 .. MaxValue
    BY <2>1, ChartMax, ChartConstants
  <2>. QED  BY <2>2, <2>3
<1>2. \/ values = <<>>
      \/ \E v \in 1 .. MaxValue : values = <<v>>
      \/ \E v, w \in 1 .. MaxValue : values = <<v, w>>
  <2>1. CASE card = "value"
    BY <2>1 DEF Chart!Shown, Chart!Values
  <2>2. CASE card = "network"
    BY <1>1, <2>2 DEF Chart!Shown
  <2>3. CASE card = "drives"
    BY <2>3 DEF Chart!Shown, Chart!Values
  <2>. QED
    BY <2>1, <2>2, <2>3 DEF ChartInv, Chart!TypeOK, Chart!Cards
<1>. QED
  BY <1>2

LEMMA ChartTyped ==
  ASSUME ChartInv
  PROVE  /\ offered \in Seq(ChartSamples) /\ points \in Seq(ChartSamples)
         /\ now \in Nat /\ lastSampleTime \in Int /\ lastSampleTime <= now
         /\ now <= MaxTime /\ Ascending(offered) /\ IsCurve(points, offered)
         /\ \A i \in 1 .. Len(offered) : offered[i].time \in Nat /\ offered[i].time <= lastSampleTime
<1>1. /\ offered \in Seq(ChartSamples) /\ points \in Seq(ChartSamples)
      /\ now \in Nat /\ lastSampleTime \in Int /\ lastSampleTime <= now
      /\ now <= MaxTime /\ Ascending(offered) /\ IsCurve(points, offered)
  BY ChartConstants
  DEF ChartInv, Chart!TypeOK, Chart!Samples, Chart!Values, ChartSamples
<1>2. ASSUME NEW i \in 1 .. Len(offered)
      PROVE  offered[i].time \in Nat /\ offered[i].time <= lastSampleTime
  <2>1. /\ offered[i] \in ChartSamples /\ offered[Len(offered)] \in ChartSamples
        /\ Len(offered) \in 1 .. Len(offered) /\ offered # <<>>
    BY <1>1
  <2>2. offered[i].time \in Nat /\ offered[Len(offered)].time \in Nat
    BY <2>1, ChartConstants DEF ChartSamples
  <2>3. i < Len(offered) => offered[i].time < offered[Len(offered)].time
    BY <1>1, <2>1 DEF Ascending
  <2>4. lastSampleTime = offered[Len(offered)].time
    BY <2>1 DEF ChartInv
  <2>. QED  BY <2>1, <2>2, <2>3, <2>4
<1>. QED  BY <1>1, <1>2

LEMMA ChartDraws ==
  ASSUME ChartInv, Chart!Draw
  PROVE  ChartInv'
<1>1. PICK gap \in {1, Window + 1}, values \in Chart!Shown :
        /\ now + gap <= MaxTime
        /\ now' = now + gap
        /\ LET chart == [points |-> points, last |-> lastSampleTime]
               after == IF values = <<>> THEN chart
                        ELSE IF Len(values) = 1 THEN Chart!sample(chart, values[1], now')
                        ELSE Chart!sample(Chart!sample(chart, values[1], now'), values[2], now')
           IN points' = after.points /\ lastSampleTime' = after.last
        /\ offered' = IF values = <<>> THEN offered
                      ELSE Append(offered, [time |-> now', value |-> values[1]])
        /\ UNCHANGED card
  BY DEF Chart!Draw
<1>2. /\ now' \in Nat /\ now' <= MaxTime /\ now < now' /\ lastSampleTime < now'
      /\ lastSampleTime <= now' /\ ~(now' <= lastSampleTime) /\ now' <= now'
  BY <1>1, ChartTyped, ChartConstants
<1>3. CASE values = <<>>
  <2>1. UNCHANGED <<points, lastSampleTime, offered, card>>
    BY <1>1, <1>3
  <2>. QED
    BY <1>2, <2>1, ChartConstants DEF ChartInv, Chart!TypeOK
<1>4. CASE values # <<>>
  <2> DEFINE x == [time |-> now', value |-> values[1]]
             r == Chart!Popped(Append(points, x), now')
  <2>1. (Len(values) = 1 \/ Len(values) = 2) /\ values[1] \in 1 .. MaxValue
    BY <1>4, ShownValues
  <2>2. x \in ChartSamples /\ x.time = now'
    BY <1>2, <2>1, ChartConstants DEF ChartSamples
  <2>3. Chart!sample([points |-> points, last |-> lastSampleTime], values[1], now') =
          [points |-> r, last |-> now']
    BY <1>2 DEF Chart!sample
  <2>4. Chart!sample([points |-> r, last |-> now'], values[2], now') = [points |-> r, last |-> now']
    BY <1>2 DEF Chart!sample
  <2>5. points' = r /\ lastSampleTime' = now' /\ offered' = Append(offered, x) /\ card' = card
    <3>. HIDE DEF r
    <3>. QED  BY <1>1, <1>4, <2>1, <2>3, <2>4
  <2>6. \A i \in 1 .. Len(offered) : offered[i].time < x.time
    BY <1>2, <2>2, ChartTyped
  <2>. HIDE DEF x
  <2>7. /\ Ascending(offered') /\ points' \in Seq(ChartSamples) /\ Len(points') <= Capacity
        /\ IsCurve(points', offered')
    BY <2>2, <2>5, <2>6, ChartTyped, PoppedIsCurve
  <2>8. /\ offered' \in Seq(ChartSamples) /\ offered' # <<>>
        /\ offered'[Len(offered')] = x
    BY <2>2, <2>5, ChartTyped
  <2>9. Chart!TypeOK'
    BY <1>2, <2>5, <2>7, <2>8, ChartConstants
    DEF ChartInv, Chart!TypeOK, Chart!Samples, Chart!Values, ChartSamples
  <2>10. lastSampleTime' = offered'[Len(offered')].time /\ lastSampleTime' <= now'
    BY <1>2, <2>2, <2>5, <2>8
  <2>. QED
    BY <2>7, <2>8, <2>9, <2>10 DEF ChartInv
<1>. QED  BY <1>3, <1>4

(* How a chart begins.                                                     *)
LEMMA EmptyCurve == IsCurve(<<>>, <<>>) /\ Ascending(<<>>)
BY DEF IsCurve, OnCurve, Ascending

LEMMA ChartRestarts ==
  ASSUME ChartInv, Chart!Restart
  PROVE  ChartInv'
<1>1. now' = 0 /\ points' = <<>> /\ lastSampleTime' = -1 /\ offered' = <<>> /\ card' = card
  BY DEF Chart!Restart
<1>2. Chart!TypeOK'
  BY <1>1, ChartConstants DEF ChartInv, Chart!TypeOK
<1>. QED  BY <1>1, <1>2, EmptyCurve DEF ChartInv

LEMMA ChartPreserved == ChartInv /\ [Chart!Next]_(Chart!vars) => ChartInv'
<1>. SUFFICES ASSUME ChartInv, [Chart!Next]_(Chart!vars) PROVE ChartInv'
  OBVIOUS
<1>1. CASE UNCHANGED Chart!vars
  BY <1>1 DEF Chart!vars, ChartInv, Chart!TypeOK
<1>. QED  BY <1>1, ChartDraws, ChartRestarts DEF Chart!Next

(* The curve, its width, and the numbers beside it.                        *)
LEMMA CurveShown == ChartInv => Chart!CurveIsTheLatest
<1>0. ASSUME ChartInv, offered = <<>>
      PROVE  Chart!CurveIsTheLatest
  <2>1. points = <<>>
    <3>1. Len(points) = 0 /\ points \in Seq(ChartSamples)
      BY <1>0, ChartTyped DEF ChartInv, IsCurve
    <3>. QED  BY <3>1
  <2>2. Chart!lastValue = 0
    BY <2>1 DEF Chart!lastValue
  <2>3. Chart!maxInWindow = 0
    <3>1. {0} \cup {points[i].value : i \in 1 .. Len(points)} = {0}
      BY <2>1
    <3>2. Chart!maxInWindow = Chart!Max({0})
      BY <3>1 DEF Chart!maxInWindow
    <3>3. {0} \in SUBSET (0 .. MaxValue) /\ {0} # {}
      BY ChartConstants
    <3>4. Chart!Max({0}) \in {0}
      BY <3>3, ChartMax, ChartConstants
    <3>. QED  BY <3>2, <3>4
  <2>. QED  BY <1>0, <2>1, <2>2, <2>3 DEF Chart!CurveIsTheLatest
<1>. SUFFICES ASSUME ChartInv, offered # <<>> PROVE Chart!CurveIsTheLatest
  BY <1>0
<1> DEFINE n == Len(points)
           k == Len(offered)
           last == offered[k]
<1>1. /\ offered \in Seq(ChartSamples) /\ points \in Seq(ChartSamples)
      /\ k \in Nat /\ k > 0 /\ n \in Nat /\ IsCurve(points, offered) /\ Ascending(offered)
  BY ChartTyped
<1>2. \A y \in ChartSamples : y.time \in Nat /\ y.value \in 1 .. MaxValue
  BY ChartConstants DEF ChartSamples
<1>3. (\A i \in 1 .. k : offered[i].time \in Nat) /\ last.time \in Nat
  BY <1>1, <1>2
<1>4. /\ n <= k /\ \A i \in 1 .. n : points[i] = offered[k - n + i]
      /\ OnCurve(offered) = k - n + 1 .. k
  BY <1>1 DEF IsCurve
<1>5. k \in OnCurve(offered)
  BY <1>1, <1>3, ChartConstants DEF OnCurve
<1>6. n \in 1 .. k /\ points[n] = last
  BY <1>1, <1>4, <1>5
<1>7. \A i \in 1 .. k :
        i <= k - n <=> offered[i].time < last.time - Window \/ k - i >= Capacity
  <2>1. \A i \in 1 .. k : i \in OnCurve(offered) <=> ~(i <= k - n)
    BY <1>1, <1>4
  <2>2. \A i \in 1 .. k :
          i \in OnCurve(offered) <=> offered[i].time >= last.time - Window /\ k - i < Capacity
    BY DEF OnCurve
  <2>3. \A i \in 1 .. k : offered[i].time \in Nat /\ last.time \in Nat /\ k - i \in Int
    BY <1>1, <1>3
  <2>. HIDE DEF last, k, n
  <2>. QED  BY <2>1, <2>2, <2>3, ChartConstants
<1>8. Chart!lastValue = last.value
  BY <1>6 DEF Chart!lastValue
<1>9. \A i \in 1 .. n : Chart!maxInWindow >= points[i].value
  <2> DEFINE S == {0} \cup {points[i].value : i \in 1 .. Len(points)}
  <2>1. S \in SUBSET (0 .. MaxValue) /\ S # {}
    BY <1>1, <1>2, ChartConstants
  <2>2. Chart!maxInWindow = Chart!Max(S)
    BY DEF Chart!maxInWindow
  <2>3. \A y \in S : Chart!Max(S) >= y
    <3>. HIDE DEF S
    <3>. QED  BY <2>1, ChartMax, ChartConstants
  <2>4. \A i \in 1 .. n : points[i].value \in S
    OBVIOUS
  <2>. HIDE DEF S
  <2>. QED  BY <2>2, <2>3, <2>4
<1>10. Chart!X(1, 10) = 0 /\ (n > 1 => Chart!X(n, 10) = 10)
  <2> DEFINE span == points[n].time - points[1].time
  <2>1. points[1].time \in Nat /\ points[n].time \in Nat /\ span \in Int
    BY <1>1, <1>2, <1>6
  <2>2. n > 1 => span > 0
    <3>1. SUFFICES ASSUME n > 1 PROVE offered[k - n + 1].time < offered[k].time
      BY <1>1, <1>4, <1>6, <2>1
    <3>2. k - n + 1 \in 1 .. k /\ k \in 1 .. k /\ k - n + 1 < k
      BY <1>1, <1>6, <3>1
    <3>. QED  BY <1>1, <3>2 DEF Ascending
  <2>3. /\ Chart!X(1, 10) = ((points[1].time - points[1].time) * 10)
                              \div (IF span > 0 THEN span ELSE 1)
        /\ Chart!X(n, 10) = (span * 10) \div (IF span > 0 THEN span ELSE 1)
    BY DEF Chart!X
  <2>. HIDE DEF span
  <2>4. \A b \in Int : b > 0 => 0 \div b = 0 /\ (b * 10) \div b = 10
    OBVIOUS
  <2>5. (points[1].time - points[1].time) * 10 = 0
    BY <2>1
  <2>. QED  BY <2>1, <2>2, <2>3, <2>4, <2>5
<1>. HIDE DEF n, k, last
<1>. QED
  BY <1>4, <1>6, <1>7, <1>8, <1>9, <1>10 DEF Chart!CurveIsTheLatest, n, k, last

(* The curve has the latest values there were to show, and all of them,    *)
(* for any capacity and window of the charts.                              *)
THEOREM ChartIsSound == Chart!Spec => [](Chart!TypeOK /\ Chart!CurveIsTheLatest)
<1>1. Chart!Init => ChartInv
  <2>. SUFFICES ASSUME Chart!Init PROVE ChartInv
    OBVIOUS
  <2>1. now = 0 /\ points = <<>> /\ lastSampleTime = -1 /\ offered = <<>> /\ card \in Chart!Cards
    BY DEF Chart!Init
  <2>2. Chart!TypeOK
    BY <2>1, ChartConstants DEF Chart!TypeOK
  <2>. QED  BY <2>1, <2>2, EmptyCurve DEF ChartInv
<1>2. ChartInv => Chart!TypeOK
  BY DEF ChartInv
<1>. QED
  BY <1>1, <1>2, ChartPreserved, CurveShown, PTL DEF Chart!Spec

-----------------------------------------------------------------------------
(* The canvas of the preview.                                              *)
CanvasInv ==
  /\ Canvas!TypeOK /\ Canvas!PointsStayUnderMouse
  /\ did.how # "nothing" => Canvas!InRange

IsPan(p) == p \in [num : Int, den : Nat \ {0}] /\ -p.den <= p.num /\ p.num <= p.den

LEMMA CanvasConstants ==
  /\ Width \in Int /\ Width >= 2 /\ MaxZoom \in Int /\ MaxZoom >= 2
  /\ Width \div 2 \in Int /\ Width = 2 * (Width \div 2)
BY ConstantsAssumption

(* A quotient stays within the factors of the bounds of the dividend.      *)
LEMMA DividedWithin ==
  ASSUME NEW a \in Int, NEW b \in Int, NEW lo \in Int, NEW hi \in Int, b > 0,
         lo * b <= a, a <= hi * b
  PROVE  a \div b \in Int /\ lo <= a \div b /\ a \div b <= hi
<1> DEFINE q == a \div b
<1>1. q \in Int /\ q * b <= a /\ a < q * b + b
  BY Divided
<1>. HIDE DEF q
<1>2. q <= hi
  <2>. SUFFICES ASSUME q >= hi + 1 PROVE FALSE
    BY <1>1
  <2>1. (hi + 1) * b <= q * b /\ (hi + 1) * b = hi * b + b
    BY <1>1, ProductGrows
  <2>. QED  BY <1>1, <2>1
<1>3. lo <= q
  <2>. SUFFICES ASSUME q + 1 <= lo PROVE FALSE
    BY <1>1
  <2>1. (q + 1) * b <= lo * b /\ (q + 1) * b = q * b + b
    BY <1>1, ProductGrows
  <2>. QED  BY <1>1, <2>1
<1>. QED  BY <1>1, <1>2, <1>3 DEF q

(* A product is divided exactly by a factor.                               *)
LEMMA DividedExactly ==
  ASSUME NEW a \in Int, NEW b \in Int, b > 0
  PROVE  (b * a) \div b = a
<1>1. b * a \in Int /\ a * b <= b * a /\ b * a <= a * b
  OBVIOUS
<1>2. (b * a) \div b \in Int /\ a <= (b * a) \div b /\ (b * a) \div b <= a
  BY <1>1, DividedWithin
<1>. QED  BY <1>2

(* How far a picture can be moved: by half of what it is longer.           *)
LEMMA CanvasOffsets ==
  ASSUME NEW z \in Int, z >= 1
  PROVE  /\ Canvas!FrameSize(z) \in Int /\ Canvas!FrameSize(z) >= Width
         /\ Canvas!MaxOffset(z) \in Int /\ 0 <= Canvas!MaxOffset(z)
         /\ 2 * Canvas!MaxOffset(z) = Canvas!FrameSize(z) - Width
<1> DEFINE h == Width \div 2
           m == h * z - h
<1>1. h \in Int /\ h >= 1 /\ Width = 2 * h /\ z \in Int /\ 1 <= z
  BY CanvasConstants
<1>. HIDE DEF h
<1>2. h * z \in Int /\ h * z >= h
  <2>1. 1 * h <= z * h
    BY <1>1, ProductGrows
  <2>. QED  BY <1>1, <2>1
<1>3. Width * z = 2 * (h * z)
  BY <1>1
<1>4. m \in Int /\ 0 <= m /\ Width * z - Width = 2 * m
  BY <1>1, <1>2, <1>3
<1>. HIDE DEF m
<1>5. (2 * m) \div 2 = m
  BY <1>4
<1>6. Canvas!FrameSize(z) = Width * z /\ Width * z \in Int
  BY <1>1, <1>2, <1>3 DEF Canvas!FrameSize
<1>7. Canvas!MaxOffset(z) = m
  BY <1>4, <1>5, <1>6 DEF Canvas!MaxOffset
<1>. QED  BY <1>1, <1>4, <1>6, <1>7

LEMMA CanvasClamps ==
  ASSUME NEW v \in Int, NEW lo \in Int, NEW hi \in Int, lo <= hi
  PROVE  Canvas!Clamp(v, lo, hi) \in lo .. hi
BY DEF Canvas!Clamp

LEMMA PanWithin ==
  ASSUME NEW x \in Int, NEW z \in Int, z >= 1
  PROVE  IsPan(Canvas!PanOf(x, z))
<1> DEFINE mz == Canvas!MaxOffset(z)
           v == Canvas!Clamp(x + mz, -mz, mz)
<1>1. mz \in Int /\ 0 <= mz
  BY CanvasOffsets
<1>2. Canvas!PanOf(x, z) = IF mz = 0 THEN [num |-> 0, den |-> 1] ELSE [num |-> v, den |-> mz]
  BY DEF Canvas!PanOf, Canvas!WholePan
<1>. HIDE DEF mz
<1>3. x + mz \in Int /\ -mz \in Int /\ -mz <= mz
  BY <1>1
<1>4. v \in -mz .. mz
  BY <1>1, <1>3, CanvasClamps
<1>. HIDE DEF v
<1>. QED  BY <1>1, <1>2, <1>4 DEF IsPan

(* The pan of a picture puts it where it was to be, or at an edge.         *)
LEMMA PlacedAt ==
  ASSUME NEW x \in Int, NEW z \in Int, z >= 1
  PROVE  Canvas!FramePos(z, Canvas!PanOf(x, z))
           = Canvas!Clamp(x, Width - Canvas!FrameSize(z), 0)
<1> DEFINE mz == Canvas!MaxOffset(z)
           fs == Canvas!FrameSize(z)
           v == Canvas!Clamp(x + mz, -mz, mz)
<1>1. mz \in Int /\ 0 <= mz /\ fs \in Int /\ 2 * mz = fs - Width /\ Width \in Int
  BY CanvasOffsets, CanvasConstants
<1>2. Canvas!PanOf(x, z) = IF mz = 0 THEN [num |-> 0, den |-> 1] ELSE [num |-> v, den |-> mz]
  BY DEF Canvas!PanOf, Canvas!WholePan
<1>3. \A p : Canvas!FramePos(z, p) = (mz * p.num) \div p.den - mz
  BY DEF Canvas!FramePos
<1>4. x + mz \in Int /\ -mz \in Int /\ -mz <= mz
  <2>. HIDE DEF mz
  <2>. QED  BY <1>1
<1>5. v \in Int
  <2>. HIDE DEF mz
  <2>. QED  BY <1>1, <1>4 DEF Canvas!Clamp
<1>6. v - mz = Canvas!Clamp(x, Width - fs, 0)
  <2>. HIDE DEF mz, fs
  <2>. QED  BY <1>1 DEF Canvas!Clamp
<1>. HIDE DEF mz, fs, v
<1>7. CASE mz = 0
  <2>1. Canvas!FramePos(z, [num |-> 0, den |-> 1]) = 0
    BY <1>3, <1>7
  <2>2. Canvas!Clamp(x, Width - fs, 0) = 0
    BY <1>1, <1>7 DEF Canvas!Clamp
  <2>. QED  BY <1>2, <1>7, <2>1, <2>2 DEF fs
<1>8. CASE mz # 0
  <2>1. (mz * v) \div mz = v
    BY <1>1, <1>5, <1>8, DividedExactly
  <2>2. Canvas!FramePos(z, [num |-> v, den |-> mz]) = v - mz
    BY <1>3, <2>1
  <2>. QED  BY <1>2, <1>6, <1>8, <2>2 DEF fs
<1>. QED  BY <1>7, <1>8

(* Every pan in range leaves the canvas covered, at every zoom from 1 on.  *)
LEMMA CanvasCovered ==
  ASSUME NEW z \in Int, z >= 1, NEW p, IsPan(p)
  PROVE  /\ Canvas!FramePos(z, p) \in Int /\ Canvas!FramePos(z, p) <= 0
         /\ Canvas!FramePos(z, p) + Canvas!FrameSize(z) >= Width
<1> DEFINE mz == Canvas!MaxOffset(z)
           fs == Canvas!FrameSize(z)
           q == (mz * p.num) \div p.den
<1>1. /\ mz \in Int /\ 0 <= mz /\ fs \in Int
      /\ 2 * mz = fs - Width
  BY CanvasOffsets
<1>2. Canvas!FramePos(z, p) = q - mz
  BY DEF Canvas!FramePos
<1>3. p.num \in Int /\ p.den \in Int /\ p.den > 0 /\ -p.den <= p.num /\ p.num <= p.den
      /\ -p.den \in Int
  BY DEF IsPan
<1>. HIDE DEF mz, fs
<1>4. (-mz) * p.den <= mz * p.num /\ mz * p.num <= mz * p.den
  <2>1. CASE mz = 0
    BY <1>3, <2>1
  <2>2. CASE mz > 0
    <3>1. (-p.den) * mz <= p.num * mz /\ p.num * mz <= p.den * mz
      BY <1>1, <1>3, <2>2, ProductGrows
    <3>2. (-p.den) * mz = (-mz) * p.den /\ p.num * mz = mz * p.num /\ p.den * mz = mz * p.den
      BY <1>1, <1>3
    <3>. QED  BY <3>1, <3>2
  <2>. QED  BY <1>1, <2>1, <2>2
<1>5. mz * p.num \in Int /\ -mz \in Int
  BY <1>1, <1>3
<1>6. q \in Int /\ -mz <= q /\ q <= mz
  BY <1>1, <1>3, <1>4, <1>5, DividedWithin
<1>. HIDE DEF q
<1>7. q - mz \in Int /\ q - mz <= 0 /\ (q - mz) + fs >= Width
  BY <1>1, <1>6, CanvasConstants
<1>. QED  BY <1>2, <1>7 DEF fs

(* A picture that is as large as the canvas is put at its edge.            *)
LEMMA WholeIsAtEdge ==
  ASSUME NEW x, zoom' = 1, pan' = Canvas!PanOf(x, 1)
  PROVE  IsPan(pan') /\ Canvas!AtAnEdge'
<1>1. Canvas!MaxOffset(1) = 0
  BY CanvasOffsets, CanvasConstants DEF Canvas!FrameSize
<1>2. pan' = [num |-> 0, den |-> 1]
  BY <1>1 DEF Canvas!PanOf, Canvas!WholePan
<1>3. Canvas!FramePos(1, [num |-> 0, den |-> 1]) = 0
  BY <1>1 DEF Canvas!FramePos
<1>4. Canvas!Position' = Canvas!FramePos(zoom', pan')
  BY DEF Canvas!Position, Canvas!FramePos, Canvas!MaxOffset, Canvas!FrameSize
<1>. QED  BY <1>2, <1>3, <1>4 DEF Canvas!AtAnEdge, IsPan

(* Wherever a picture of any zoom and pan is, it is at a whole position.   *)
LEMMA PositionIsWhole ==
  ASSUME NEW z \in Int, NEW p \in [num : Int, den : Nat \ {0}]
  PROVE  Canvas!FramePos(z, p) \in Int
<1> DEFINE m == Canvas!MaxOffset(z)
<1>1. Canvas!FrameSize(z) \in Int
  BY CanvasConstants DEF Canvas!FrameSize
<1>2. m \in Int
  BY <1>1, CanvasConstants DEF Canvas!MaxOffset
<1>. HIDE DEF m
<1>3. m * p.num \in Int /\ p.den \in Int /\ p.den > 0
  BY <1>2
<1>4. (m * p.num) \div p.den \in Int
  BY <1>3, Divided
<1>. QED  BY <1>2, <1>4 DEF Canvas!FramePos, m

(* The point under the mouse is moved by less than a unit of length.       *)
LEMMA CanvasZooms ==
  ASSUME NEW x \in Int, NEW mouse \in Int, NEW from \in Int, NEW to \in Int, from >= 1, to >= 1
  PROVE  /\ Canvas!Zoomed(x, mouse, from, to) \in Int
         /\ (mouse - x) * to - (mouse - Canvas!Zoomed(x, mouse, from, to)) * from
              \in -from .. from
<1> DEFINE a == mouse - x
           q == (a * Canvas!FrameSize(to)) \div Canvas!FrameSize(from)
           d == a * to - q * from
<1>1. /\ a \in Int /\ from \in Int /\ to \in Int /\ from >= 1 /\ to >= 1
      /\ Width \in Int /\ Width >= 1
  BY CanvasConstants
<1>2. /\ Canvas!FrameSize(to) = Width * to /\ Canvas!FrameSize(from) = Width * from
      /\ Canvas!FrameSize(to) \in Int /\ Canvas!FrameSize(from) \in Int
      /\ Canvas!FrameSize(from) > 0
  BY CanvasOffsets, CanvasConstants DEF Canvas!FrameSize
<1>. HIDE DEF a
<1>3. a * Canvas!FrameSize(to) \in Int
  BY <1>1, <1>2
<1>4. /\ q \in Int /\ q * Canvas!FrameSize(from) <= a * Canvas!FrameSize(to)
      /\ a * Canvas!FrameSize(to) < q * Canvas!FrameSize(from) + Canvas!FrameSize(from)
  <2> DEFINE n == a * Canvas!FrameSize(to)
             b == Canvas!FrameSize(from)
  <2>1. n \in Int /\ b \in Int /\ b > 0
    BY <1>2, <1>3
  <2>. HIDE DEF n, b
  <2>2. n \div b \in Int /\ n % b \in Int /\ 0 <= n % b /\ n % b < b /\ n = (n \div b) * b + (n % b)
    BY <2>1, Divided
  <2>3. (n \div b) * b \in Int
    BY <2>1, <2>2
  <2>4. (n \div b) * b <= n /\ n < (n \div b) * b + b
    BY <2>1, <2>2, <2>3
  <2>. QED  BY <2>2, <2>4 DEF n, b
<1>. HIDE DEF q
<1>5. q * (Width * from) <= a * (Width * to) /\ a * (Width * to) < q * (Width * from) + Width * from
  BY <1>2, <1>4
<1>6. d \in Int /\ d * Width = a * (Width * to) - q * (Width * from) /\ from * Width = Width * from
      /\ 0 * Width = 0 /\ Width * from \in Int /\ a * (Width * to) \in Int /\ q * (Width * from) \in Int
  BY <1>1, <1>4
<1>. HIDE DEF d
<1>7. 0 <= d * Width /\ d * Width < from * Width /\ d * Width \in Int /\ from * Width \in Int
  BY <1>5, <1>6
<1>8. d <= from
  <2>. SUFFICES ASSUME from <= d PROVE d <= from
    BY <1>1, <1>6
  <2>1. from * Width <= d * Width
    BY <1>1, <1>6, ProductGrows
  <2>. QED  BY <1>7, <2>1
<1>9. 0 <= d
  <2>. SUFFICES ASSUME d <= -1 PROVE FALSE
    BY <1>6
  <2>1. d * Width <= (-1) * Width
    BY <1>1, <1>6, ProductGrows
  <2>. QED  BY <1>1, <1>7, <2>1
<1>10. Canvas!Zoomed(x, mouse, from, to) = mouse - q
  BY DEF Canvas!Zoomed, q, a
<1>11. mouse - q \in Int /\ mouse - (mouse - q) = q /\ d \in -from .. from
  BY <1>1, <1>4, <1>6, <1>8, <1>9
<1>. QED  BY <1>10, <1>11 DEF d, a

LEMMA CanvasInitially == Canvas!Init => CanvasInv
<1>. SUFFICES ASSUME Canvas!Init PROVE CanvasInv
  OBVIOUS
<1>1. zoom \in Int /\ pan \in [num : Int, den : Nat \ {0}]
  BY CanvasConstants DEF Canvas!Init, Canvas!Zooms, Canvas!Pans, Canvas!WholePan
<1>2. dragging = FALSE /\ grabOffset = 0 /\ did = Canvas!Nothing
  BY DEF Canvas!Init
<1>3. /\ did.how = "nothing"
      /\ did \in [how : {"nothing", "wheel", "reset", "drag"}, at : Int, zoom : Int,
                 mouse : 0 .. Width]
  BY <1>2, CanvasConstants DEF Canvas!Nothing
<1>4. dragging \in BOOLEAN
  BY <1>2, Zenon
<1>5. grabOffset \in Int
  BY <1>2
<1>. QED
  BY <1>1, <1>3, <1>4, <1>5 DEF CanvasInv, Canvas!TypeOK, Canvas!PointsStayUnderMouse

LEMMA CanvasStepped ==
  ASSUME CanvasInv, NEW wheel \in {-1, 0, 1}
  PROVE  /\ Canvas!Step(wheel) \in 1 .. MaxZoom
         /\ wheel # 0 /\ zoom < 1 => Canvas!Step(wheel) = 1
<1>1. zoom \in Int
  BY DEF CanvasInv, Canvas!TypeOK
<1> DEFINE v == IF wheel > 0 THEN zoom * 2 ELSE IF wheel < 0 THEN zoom \div 2 ELSE zoom
<1>2. v \in Int
  BY <1>1
<1>3. Canvas!Step(wheel) = Canvas!Clamp(v, 1, MaxZoom)
  BY DEF Canvas!Step
<1>4. wheel # 0 /\ zoom < 1 => v < 1
  BY <1>1
<1>. HIDE DEF v
<1>5. Canvas!Clamp(v, 1, MaxZoom) \in 1 .. MaxZoom
  BY <1>2, CanvasConstants, CanvasClamps
<1>6. v < 1 => Canvas!Clamp(v, 1, MaxZoom) = 1
  BY <1>2 DEF Canvas!Clamp
<1>. QED  BY <1>3, <1>4, <1>5, <1>6

(* A drawing that puts a picture where it is to be, or at an edge.         *)
LEMMA CanvasPut ==
  ASSUME NEW x \in Int, zoom' \in Int, zoom' >= 1, pan' = Canvas!PanOf(x, zoom')
  PROVE  Canvas!AtAnEdge' \/ Canvas!Position' = x
<1>1. Canvas!Position' = Canvas!FramePos(zoom', Canvas!PanOf(x, zoom'))
  BY DEF Canvas!Position, Canvas!FramePos, Canvas!MaxOffset, Canvas!FrameSize
<1>2. Canvas!FramePos(zoom', Canvas!PanOf(x, zoom'))
        = Canvas!Clamp(x, Width - Canvas!FrameSize(zoom'), 0)
  BY PlacedAt
<1>3. Canvas!FrameSize(zoom)' = Canvas!FrameSize(zoom')
  BY DEF Canvas!FrameSize
<1>4. Canvas!Clamp(x, Width - Canvas!FrameSize(zoom'), 0) \in {x, 0, Width - Canvas!FrameSize(zoom')}
  BY DEF Canvas!Clamp
<1>. QED  BY <1>1, <1>2, <1>3, <1>4 DEF Canvas!AtAnEdge

LEMMA CanvasDraws ==
  ASSUME CanvasInv, Canvas!Draw
  PROVE  CanvasInv'
<1>1. PICK mouse \in {0, Width \div 4, Width}, wheel \in {-1, 0, 1},
           doubleClick \in BOOLEAN, down \in BOOLEAN :
        LET x == Canvas!FramePos(zoom, pan)
            grabbed == IF dragging THEN grabOffset ELSE mouse - x
            drags == down /\ zoom > 1
            draggedPan == Canvas!PanOf(Canvas!Clamp(mouse - grabbed, Width - Canvas!FrameSize(zoom), 0), zoom)
            Changed(how, z, p) ==
              /\ zoom' = z /\ pan' = p
              /\ did' = [how |-> how, at |-> x, zoom |-> zoom, mouse |-> mouse]
        IN /\ dragging' = down
           /\ grabOffset' = IF down THEN grabbed ELSE grabOffset
           /\ IF drags /\ ~Canvas!SamePan(draggedPan, pan) THEN Changed("drag", zoom, draggedPan)
              ELSE IF doubleClick /\ (zoom # 1 \/ pan.num # 0)
              THEN Changed("reset", 1, Canvas!WholePan(0))
              ELSE IF wheel # 0 /\ Canvas!Step(wheel) # zoom
              THEN Changed("wheel", Canvas!Step(wheel),
                           Canvas!PanOf(Canvas!Zoomed(x, mouse, zoom, Canvas!Step(wheel)),
                                        Canvas!Step(wheel)))
              ELSE Changed("nothing", zoom, pan)
  BY DEF Canvas!Draw
<1> DEFINE x == Canvas!FramePos(zoom, pan)
           grabbed == IF dragging THEN grabOffset ELSE mouse - x
           clamped == Canvas!Clamp(mouse - grabbed, Width - Canvas!FrameSize(zoom), 0)
           to == Canvas!Step(wheel)
           zoomed == Canvas!Zoomed(x, mouse, zoom, to)
           Changed(how, z, p) ==
             /\ zoom' = z /\ pan' = p
             /\ did' = [how |-> how, at |-> x, zoom |-> zoom, mouse |-> mouse]
<1>2. /\ zoom \in Int /\ pan \in [num : Int, den : Nat \ {0}]
      /\ dragging \in BOOLEAN /\ grabOffset \in Int
  BY DEF CanvasInv, Canvas!TypeOK
<1>3. mouse \in 0 .. Width /\ mouse \in Int
  BY CanvasConstants
<1>4. x \in Int
  BY <1>2, PositionIsWhole
<1>5. grabbed \in Int
  BY <1>2, <1>3, <1>4
<1>6. to \in Int /\ to >= 1
  BY CanvasStepped, CanvasConstants
<1>7. ASSUME NEW how \in {"nothing", "wheel", "reset", "drag"}, NEW z \in Int,
             NEW p \in [num : Int, den : Nat \ {0}], Changed(how, z, p)
      PROVE  Canvas!TypeOK'
  <2>1. dragging' \in BOOLEAN /\ grabOffset' \in Int
    <3>. HIDE DEF x
    <3>. QED  BY <1>1, <1>2, <1>5
  <2>2. zoom' \in Int /\ pan' \in [num : Int, den : Nat \ {0}]
    BY <1>7
  <2>3. did' \in [how : {"nothing", "wheel", "reset", "drag"}, at : Int, zoom : Int,
                  mouse : 0 .. Width]
    <3>. HIDE DEF x
    <3>. QED  BY <1>2, <1>3, <1>4, <1>7
  <2>. QED  BY <2>1, <2>2, <2>3 DEF Canvas!TypeOK
<1>8. ASSUME NEW how \in {"wheel", "reset", "drag"}, NEW z \in Int, z >= 1,
             NEW p, IsPan(p), Changed(how, z, p)
      PROVE  Canvas!TypeOK' /\ Canvas!InRange'
  <2>1. p \in [num : Int, den : Nat \ {0}]
    BY <1>8 DEF IsPan
  <2>2. zoom' = z /\ pan' = p
    BY <1>8
  <2>3. Canvas!TypeOK'
    <3>. HIDE DEF Changed
    <3>. QED  BY <1>7, <1>8, <2>1
  <2>. QED  BY <1>8, <2>2, <2>3 DEF Canvas!InRange, IsPan
<1>9. \/ down /\ zoom > 1 /\ Changed("drag", zoom, Canvas!PanOf(clamped, zoom))
      \/ Changed("reset", 1, Canvas!WholePan(0))
      \/ wheel # 0 /\ Changed("wheel", to, Canvas!PanOf(zoomed, to))
      \/ Changed("nothing", zoom, pan)
  BY <1>1, Zenon
<1>10. CASE down /\ zoom > 1 /\ Changed("drag", zoom, Canvas!PanOf(clamped, zoom))
  <2>0. zoom >= 1
    BY <1>2, <1>10
  <2>1. Canvas!FrameSize(zoom) \in Int /\ Canvas!FrameSize(zoom) >= Width
    BY <1>2, <2>0, CanvasOffsets
  <2>2. clamped \in Int /\ clamped \in {mouse - grabbed, Width - Canvas!FrameSize(zoom), 0}
    <3>. HIDE DEF grabbed
    <3>. QED  BY <1>3, <1>5, <2>1, CanvasConstants DEF Canvas!Clamp
  <2>3. Canvas!TypeOK' /\ Canvas!InRange'
    <3>1. IsPan(Canvas!PanOf(clamped, zoom))
      BY <1>2, <2>0, <2>2, PanWithin
    <3>. HIDE DEF Changed, clamped
    <3>. QED  BY <1>2, <1>8, <1>10, <2>0, <3>1
  <2>4. grabOffset' = grabbed
    <3>. HIDE DEF Changed, grabbed
    <3>. QED  BY <1>1, <1>10 DEF grabbed
  <2>5. zoom' = zoom /\ pan' = Canvas!PanOf(clamped, zoom) /\ did'.how = "drag" /\ did'.mouse = mouse
    <3>. HIDE DEF clamped, x
    <3>. QED  BY <1>10
  <2>6. Canvas!AtAnEdge' \/ Canvas!Position' = clamped
    <3>. HIDE DEF clamped
    <3>. QED  BY <1>2, <2>0, <2>2, <2>5, CanvasPut
  <2>7. Canvas!AtAnEdge' \/ did'.mouse - Canvas!Position' = grabOffset'
    <3>1. CASE clamped = mouse - grabbed
      <4>1. mouse - (mouse - grabbed) = grabbed
        <5>. HIDE DEF grabbed
        <5>. QED  BY <1>3, <1>5
      <4>. HIDE DEF clamped, grabbed
      <4>. QED  BY <2>4, <2>5, <2>6, <3>1, <4>1
    <3>2. CASE clamped \in {Width - Canvas!FrameSize(zoom), 0}
      <4>1. Canvas!FrameSize(zoom)' = Canvas!FrameSize(zoom)
        BY <2>5 DEF Canvas!FrameSize
      <4>. HIDE DEF clamped
      <4>. QED  BY <2>6, <3>2, <4>1 DEF Canvas!AtAnEdge
    <3>. HIDE DEF clamped, grabbed
    <3>. QED  BY <2>2, <3>1, <3>2
  <2>. QED  BY <2>3, <2>5, <2>7 DEF CanvasInv, Canvas!PointsStayUnderMouse
<1>11. CASE Changed("reset", 1, Canvas!WholePan(0))
  <2>1. IsPan(Canvas!WholePan(0))
    BY DEF IsPan, Canvas!WholePan
  <2>2. Canvas!TypeOK' /\ Canvas!InRange'
    <3>. HIDE DEF Changed
    <3>. QED  BY <1>8, <1>11, <2>1
  <2>3. did'.how = "reset"
    <3>. HIDE DEF x
    <3>. QED  BY <1>11
  <2>. QED  BY <2>2, <2>3 DEF CanvasInv, Canvas!PointsStayUnderMouse
<1>12. CASE wheel # 0 /\ Changed("wheel", to, Canvas!PanOf(zoomed, to))
  <2>1. /\ zoom' = to /\ pan' = Canvas!PanOf(zoomed, to)
        /\ did'.how = "wheel" /\ did'.mouse = mouse /\ did'.at = x /\ did'.zoom = zoom
    <3>. HIDE DEF zoomed, to, x
    <3>. QED  BY <1>12
  <2>2. CASE zoom >= 1
    <3>1. zoomed \in Int /\ (mouse - x) * to - (mouse - zoomed) * zoom \in -zoom .. zoom
      <4>. HIDE DEF x, to
      <4>. QED  BY <1>2, <1>3, <1>4, <1>6, <2>2, CanvasZooms
    <3>2. IsPan(Canvas!PanOf(zoomed, to))
      <4>. HIDE DEF zoomed, to
      <4>. QED  BY <1>6, <3>1, PanWithin
    <3>3. Canvas!TypeOK' /\ Canvas!InRange'
      <4>. HIDE DEF Changed, zoomed, to
      <4>. QED  BY <1>6, <1>8, <1>12, <3>2
    <3>. HIDE DEF zoomed, to, x
    <3>4. Canvas!AtAnEdge' \/ Canvas!Position' = zoomed
      BY <1>6, <2>1, <3>1, CanvasPut
    <3>5. \/ Canvas!AtAnEdge'
          \/ (did'.mouse - did'.at) * zoom' - (did'.mouse - Canvas!Position') * did'.zoom
               \in -did'.zoom .. did'.zoom
      BY <2>1, <3>1, <3>4
    <3>. QED  BY <2>1, <3>3, <3>5 DEF CanvasInv, Canvas!PointsStayUnderMouse
  <2>3. CASE zoom < 1
    <3>1. to = 1
      BY <1>12, <2>3, CanvasStepped
    <3>. HIDE DEF zoomed
    <3>2. IsPan(pan') /\ Canvas!AtAnEdge'
      BY <2>1, <3>1, WholeIsAtEdge
    <3>3. Canvas!TypeOK' /\ Canvas!InRange'
      <4>. HIDE DEF Changed, to
      <4>. QED  BY <1>6, <1>8, <1>12, <2>1, <3>2
    <3>. QED  BY <2>1, <3>2, <3>3 DEF CanvasInv, Canvas!PointsStayUnderMouse
  <2>. QED  BY <1>2, <2>2, <2>3
<1>13. CASE Changed("nothing", zoom, pan)
  <2>1. Canvas!TypeOK'
    <3>. HIDE DEF Changed
    <3>. QED  BY <1>2, <1>7, <1>13
  <2>2. did'.how = "nothing"
    <3>. HIDE DEF x
    <3>. QED  BY <1>13
  <2>. QED  BY <2>1, <2>2 DEF CanvasInv, Canvas!PointsStayUnderMouse
<1>. QED
  <2>. HIDE DEF Changed, zoomed, to, clamped
  <2>. QED  BY <1>9, <1>10, <1>11, <1>12, <1>13

LEMMA CanvasSlides ==
  ASSUME CanvasInv, Canvas!Slide
  PROVE  CanvasInv'
<1>1. Canvas!Zooms \subseteq Int /\ Canvas!Pans \subseteq [num : Int, den : Nat \ {0}]
  BY CanvasConstants DEF Canvas!Zooms, Canvas!Pans, Canvas!WholePan
<1>2. zoom \in Int /\ pan \in [num : Int, den : Nat \ {0}]
  BY DEF CanvasInv, Canvas!TypeOK
<1>3. zoom' \in Int /\ pan' \in [num : Int, den : Nat \ {0}]
  BY <1>1, <1>2 DEF Canvas!Slide
<1>4. dragging' = dragging /\ grabOffset' = grabOffset /\ did' = Canvas!Nothing
  BY DEF Canvas!Slide
<1>5. /\ did'.how = "nothing"
      /\ did' \in [how : {"nothing", "wheel", "reset", "drag"}, at : Int, zoom : Int,
                  mouse : 0 .. Width]
  BY <1>4, CanvasConstants DEF Canvas!Nothing
<1>6. Canvas!TypeOK'
  BY <1>3, <1>4, <1>5 DEF CanvasInv, Canvas!TypeOK
<1>. QED
  BY <1>5, <1>6 DEF CanvasInv, Canvas!PointsStayUnderMouse

LEMMA CanvasPreserved == CanvasInv /\ [Canvas!Next]_(Canvas!vars) => CanvasInv'
<1>1. CanvasInv /\ UNCHANGED Canvas!vars => CanvasInv'
  BY DEF CanvasInv, Canvas!TypeOK, Canvas!PointsStayUnderMouse, Canvas!AtAnEdge,
         Canvas!Position, Canvas!FramePos, Canvas!MaxOffset, Canvas!FrameSize, Canvas!vars,
         Canvas!InRange
<1>. QED  BY <1>1, CanvasDraws, CanvasSlides DEF Canvas!Next

(* Whatever the file and the sliders give, the picture covers a canvas of  *)
(* any width while zoom and pan are in range, where anything done on the   *)
(* canvas brings them; and the point under the mouse stays there.          *)
THEOREM CanvasIsSound ==
  Canvas!Spec => [](Canvas!TypeOK /\ Canvas!CoversCanvas /\ Canvas!PointsStayUnderMouse)
<1>1. CanvasInv => Canvas!TypeOK /\ Canvas!CoversCanvas /\ Canvas!PointsStayUnderMouse
  <2>. SUFFICES ASSUME CanvasInv PROVE Canvas!CoversCanvas
    BY DEF CanvasInv
  <2>1. ASSUME Canvas!InRange
        PROVE  Canvas!Position <= 0 /\ Canvas!Position + Canvas!FrameSize(zoom) >= Width
    <3>1. zoom \in Int /\ zoom >= 1 /\ IsPan(pan)
      BY <2>1 DEF CanvasInv, Canvas!TypeOK, Canvas!InRange, IsPan
    <3>. QED  BY <3>1, CanvasCovered DEF Canvas!Position
  <2>. QED  BY <2>1 DEF CanvasInv, Canvas!CoversCanvas
<1>. QED
  BY <1>1, CanvasInitially, CanvasPreserved, PTL DEF Canvas!Spec

-----------------------------------------------------------------------------
(* All of them together, one in focus: every component behaves as its own  *)
(* specification says.                                                     *)
THEOREM Composed ==
  MCSpec =>
    /\ Spec /\ Source!Spec /\ Wmi!Spec /\ Usage!Spec /\ Rates!Spec /\ Device!Spec
    /\ Loop!Spec /\ Settings!Spec /\ Preview!Spec /\ Geometry!Spec /\ Canvas!Spec
    /\ Chart!Spec /\ Objects!Spec /\ Screen!Spec /\ Icon!Spec
<1>1. MCInit =>
        /\ Init /\ Source!Init /\ Wmi!Init /\ Usage!Init /\ Rates!Init /\ Device!Init
        /\ Loop!Init /\ Settings!Init /\ Preview!Init /\ Geometry!Init /\ Canvas!Init
        /\ Chart!Init /\ Objects!Init /\ Screen!Init /\ Icon!Init
  BY DEF MCInit
<1>2. [MCNext]_mcVars => [Next]_vars
  BY DEF MCNext, mcVars, Of
<1>3. [MCNext]_mcVars => [Source!Next]_(Source!vars)
  BY DEF MCNext, mcVars, Of, sourceVars, Source!vars
<1>4. [MCNext]_mcVars => [Wmi!Next]_(Wmi!vars)
  BY DEF MCNext, mcVars, Of, wmiVars, Wmi!vars
<1>5. [MCNext]_mcVars => [Usage!Next]_(Usage!vars)
  BY DEF MCNext, mcVars, Of, usageVars, Usage!vars
<1>6. [MCNext]_mcVars => [Rates!Next]_(Rates!vars)
  BY DEF MCNext, mcVars, Of, ratesVars, Rates!vars
<1>7. [MCNext]_mcVars => [Device!Next]_(Device!vars)
  BY DEF MCNext, mcVars, Of, deviceVars, Device!vars, Device!system
<1>8. [MCNext]_mcVars => [Loop!Next]_(Loop!vars)
  BY DEF MCNext, mcVars, Of, loopVars, Loop!vars, Loop!graphics
<1>9. [MCNext]_mcVars => [Settings!Next]_(Settings!vars)
  BY DEF MCNext, mcVars, Of, settingsVars, Settings!vars
<1>10. [MCNext]_mcVars => [Preview!Next]_(Preview!vars)
  BY DEF MCNext, mcVars, Of, previewVars, Preview!vars, Preview!engineVars, Preview!pageVars
<1>11. [MCNext]_mcVars => [Geometry!Next]_(Geometry!vars)
  BY DEF MCNext, mcVars, Of, geometryVars, Geometry!vars
<1>12. [MCNext]_mcVars => [Canvas!Next]_(Canvas!vars)
  BY DEF MCNext, mcVars, Of, canvasVars, Canvas!vars
<1>13. [MCNext]_mcVars => [Chart!Next]_(Chart!vars)
  BY DEF MCNext, mcVars, Of, chartVars, Chart!vars
<1>14. [MCNext]_mcVars => [Objects!Next]_(Objects!objectVars)
  BY DEF MCNext, mcVars, Of, objectVars, Objects!objectVars
<1>15. [MCNext]_mcVars => [Screen!Next]_(Screen!displayVars)
  BY DEF MCNext, mcVars, Of, displayVars, Screen!displayVars
<1>16. [MCNext]_mcVars => [Icon!Next]_(Icon!iconVars)
  BY DEF MCNext, mcVars, Of, iconVars, Icon!iconVars
<1>. QED
  BY <1>1, <1>2, <1>3, <1>4, <1>5, <1>6, <1>7, <1>8, <1>9, <1>10, <1>11, <1>12, <1>13,
     <1>14, <1>15, <1>16, PTL
  DEF MCSpec, Spec, Source!Spec, Wmi!Spec, Usage!Spec, Rates!Spec, Device!Spec, Loop!Spec,
      Settings!Spec, Preview!Spec, Geometry!Spec, Canvas!Spec, Chart!Spec,
      Objects!Spec, Screen!Spec, Icon!Spec

(* Every component keeps its types.                                        *)
THEOREM TypesAlways == MCSpec => []TypesOK
BY Composed, TypeCorrect, SourceIsSound, DrivesReturn, UsageIsMeasured, RatesAreSound,
   DeviceIsSound, LoopIsSound, ConfigIsSound, PreviewIsSound, GeometryIsSound,
   CanvasIsSound, ChartIsSound, ObjectsAreSound, DisplayIsSound, IconsAreSound, PTL
DEF TypesOK

(* The reader of the OBS queue copies one whole frame, as long as no two   *)
(* writers have come to share the queue.                                   *)
THEOREM CopyIsWholeAlways == MCSpec => []CopyIsWhole
BY Composed, WholeCopy, PTL

(* A queue in use is reset only by a writer that looked for it before it   *)
(* was there, for any number of writers.                                   *)
THEOREM ResetOnlyLateAlways == MCSpec => ResetOnlyByLateOpen
BY Composed, ResetOnlyLate, PTL

(* The virtual camera's objects live as long as any number of callers hold *)
(* them.                                                                   *)
THEOREM LivesAlways == MCSpec => []LivesWhileHeld
BY Composed, ObjectsAreSound, PTL DEF LivesWhileHeld

(* The samples of a stream are numbered from its start, and none is queued *)
(* by a request that slept through a stop.                                 *)
THEOREM SamplesAlways == MCSpec => SamplesAreSound
BY Composed, SourceIsSound, PTL DEF SamplesAreSound

(* A load or a rate that is shown was measured or is 0, for any set of     *)
(* adapters and models, and any window and capacity of a chart.            *)
THEOREM MeasuredAlways == MCSpec => []ShownIsMeasuredOrZero
BY Composed, UsageIsMeasured, RatesAreSound, ChartIsSound, DisplayIsSound, PTL
DEF ShownIsMeasuredOrZero

(* What is shown catches up, however often the WMI service restarts, the   *)
(* devices change or the engine writes; the preview with the last frame    *)
(* the page could copy.                                                    *)
THEOREM CatchesUpAlways == MCSpec => []ShownCatchesUp
BY Composed, DrivesReturn, DeviceIsSound, PreviewIsSound, PTL DEF ShownCatchesUp

(* The loop's own objects are of one device in every frame, and the pages' *)
(* objects too until the first recovery (not after it: HandlesRender);     *)
(* icons are drawn only while they live; the window is never left without  *)
(* itself and its icon.                                                    *)
THEOREM WindowAlways == MCSpec => []WindowIsSound
BY Composed, LoopIsSound, IconsAreSound, PTL DEF WindowIsSound

(* What any of the toolboxes saved is what the next one loads.             *)
THEOREM SavedAlways == MCSpec => []SavedIsLoaded
BY Composed, ConfigIsSound, PTL DEF SavedIsLoaded

(* The point under the mouse stays there while the preview is zoomed and   *)
(* dragged, up to the edges of the picture.                                *)
THEOREM PointsAlways == MCSpec => []PointsStayUnderMouse
BY Composed, CanvasIsSound, PTL DEF PointsStayUnderMouse

(* Whatever zoom and pan the file or a slider gives, the frames that are   *)
(* made fit, and the preview covers its canvas as soon as zoom and pan are *)
(* in their range.                                                         *)
THEOREM FramesFitAlways == MCSpec => []FramesFit
BY Composed, GeometryIsSound, CanvasIsSound, PTL DEF FramesFit
==============================================================================

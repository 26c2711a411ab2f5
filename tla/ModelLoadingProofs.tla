------------------------- MODULE ModelLoadingProofs -------------------------
(***************************************************************************)
(* Theorems about ModelLoading, for every set of configurations, whatever  *)
(* Triton makes of them, any instances and any batching strategy: what is  *)
(* held and who serves, how batches are filled, what the members of        *)
(* BackendModel agree with, and what a look-up of a control returns.       *)
(***************************************************************************)
EXTENDS ModelLoading, FiniteSetTheorems, TLAPS

InstanceStates == {"none", "set", "gone", "unmade", "abandoned", "lost"}
SomeServes == \E i \in Instances : instance[i] = "set"

\* Before the model is ready no instance was initialized.
OrderInv ==
    /\ pc \in {"idle", "complete", "completed", "setstate", "validate"} =>
           \A i \in Instances : instance[i] = "none"
    /\ pc = "unloaded" => strategy = "none" /\ ~SomeServes
    /\ strategy = "none" => batcher = <<>> /\ userp = <<>>

\* Where the members are those of the configuration the server has.
ParsedInv ==
    /\ pc \in {"complete", "setstate", "validate", "ready"} \/ SomeServes =>
           /\ fresh /\ model_config = server
           /\ max_batch_size = server.max_batch_size
    /\ pc \in {"setstate", "ready"} \/ SomeServes => ValidateModelConfig(backend, server)

\* Who has the ModelState.
StateInv ==
    /\ pc = "idle" => state = "none"
    /\ pc \in {"validate", "ready"} \/ SomeServes => state = "set"
    /\ pc = "unloading" => state \in {"none", "set", "lost"}
    /\ pc = "unloaded" => state \in {"none", "lost"}

StreamInv ==
    \A i \in Instances :
        /\ instance[i] \in {"none", "unmade", "gone"} => stream[i] = <<>>
        /\ instance[i] = "set" =>
               stream[i] = IF Kind[i] = "gpu" THEN <<DeviceId[i]>> ELSE <<>>

\* The loading thread has another device only where selecting it again failed.
DeviceInv ==
    /\ unrestored \subseteq Instances
    /\ device \in {Device} \cup {DeviceId[i] : i \in unrestored}

IInv ==
    /\ instance \in [Instances -> InstanceStates]
    /\ DOMAIN stream = Instances /\ DeviceInv
    /\ OrderInv /\ ParsedInv /\ StateInv /\ StreamInv
-----------------------------------------------------------------------------
LEMMA InitInv == Init => IInv
BY DEF Init, ModelInit, BatchInit, IInv, OrderInv, ParsedInv, StateInv, StreamInv,
       DeviceInv, SomeServes, InstanceStates

\* What parsing does to the members that the invariant is about.
LEMMA ParseFacts ==
    ASSUME NEW config, ParseModelConfig(config)
    PROVE  model_config' = config /\ max_batch_size' = config.max_batch_size
BY DEF ParseModelConfig

-----------------------------------------------------------------------------
\* The steps before Triton asks for the instances leave those and the strategy alone.
LEMMA ModelSteps ==
    ASSUME IInv, InstancesUnchanged,
           \/ Construct \/ ConstructFails \/ SetConfig \/ SetConfigFails
           \/ \E config \in Completed : \E mbs \in {0, config.max_batch_size} :
                  AutoComplete(config, mbs)
           \/ ValidateModel \/ (\E succeeds \in BOOLEAN : SetState(succeeds))
           \/ ModelFinalize
    PROVE  IInv'
<1> USE DEF IInv, SomeServes
<1>1. /\ UNCHANGED <<instance, stream, backend, strategy, batcher, userp>>
      /\ SomeServes' <=> SomeServes
      /\ DeviceInv'
    BY DEF InstancesUnchanged, cudaVars, batchVars, DeviceInv
<1>2. CASE Construct
    <2>1. pc = "idle" /\ ParseModelConfig(server) /\ UNCHANGED server
        BY <1>2 DEF Construct
    <2>2. model_config' = server /\ max_batch_size' = server.max_batch_size
        BY <2>1, ParseFacts
    <2> QED BY <1>1, <1>2, <2>1, <2>2 DEF Construct, OrderInv, ParsedInv, StateInv, StreamInv
<1>3. CASE ConstructFails
    BY <1>1, <1>3 DEF ConstructFails, OrderInv, ParsedInv, StateInv, StreamInv
<1>4. CASE SetConfig
    <2>1. pc = "completed" /\ server' = Normalized[model_config]
        BY <1>4 DEF SetConfig, SetModelConfig
    <2>2. model_config' = server' /\ max_batch_size' = server'.max_batch_size
        BY <1>4, <2>1, ParseFacts DEF SetConfig, SetModelConfig
    <2> QED BY <1>1, <1>4, <2>1, <2>2 DEF SetConfig, OrderInv, ParsedInv, StateInv, StreamInv
<1>5. CASE SetConfigFails
    BY <1>1, <1>5 DEF SetConfigFails, OrderInv, ParsedInv, StateInv, StreamInv
<1>6. ASSUME NEW config, NEW mbs, AutoComplete(config, mbs) PROVE IInv'
    BY <1>1, <1>6 DEF AutoComplete, OrderInv, ParsedInv, StateInv, StreamInv
<1>7. CASE ValidateModel
    BY <1>1, <1>7 DEF ValidateModel, modelVars, derived, OrderInv, ParsedInv, StateInv, StreamInv
<1>8. ASSUME NEW succeeds \in BOOLEAN, SetState(succeeds) PROVE IInv'
    <2>1. UNCHANGED <<server, model_config, max_batch_size, fresh>>
        BY <1>8 DEF SetState, modelVars, derived
    <2>2. CASE succeeds = TRUE
        <3>1. /\ state' = "set" /\ pc' \in {"validate", "ready"}
              /\ pc \in {"complete", "setstate"} /\ (pc' = "ready" => pc = "setstate")
            BY <1>8, <2>2 DEF SetState
        <3>2. OrderInv' BY <1>1, <3>1 DEF OrderInv
        <3>3. ParsedInv' BY <1>1, <2>1, <3>1 DEF ParsedInv, OrderInv
        <3>4. StateInv' BY <1>1, <3>1 DEF StateInv
        <3>5. StreamInv' BY <1>1 DEF StreamInv
        <3> QED BY <1>1, <3>2, <3>3, <3>4, <3>5
    <2>3. CASE succeeds = FALSE
        <3>1. state' = "lost" /\ pc' = "unloading" /\ pc \in {"complete", "setstate"}
            BY <1>8, <2>3 DEF SetState
        <3> QED BY <1>1, <2>1, <3>1 DEF OrderInv, ParsedInv, StateInv, StreamInv
    <2> QED BY <1>8, <2>2, <2>3
<1>9. CASE ModelFinalize
    BY <1>1, <1>9 DEF ModelFinalize, modelVars, derived, OrderInv, ParsedInv, StateInv, StreamInv
<1> QED BY <1>2, <1>3, <1>4, <1>5, <1>6, <1>7, <1>8, <1>9

\* A stream that is made is on the device of its instance, and the device that was
\* selected is so afterwards, or it is known that selecting it failed.
LEMMA CudaStreamFacts ==
    ASSUME NEW i \in Instances, NEW created \in BOOLEAN, CreateCudaStream(i, created)
    PROVE  /\ stream' = IF created THEN [stream EXCEPT ![i] = <<DeviceId[i]>>] ELSE stream
           /\ DeviceInv => DeviceInv'
<1> PICK got, chosen, restored \in BOOLEAN :
        LET overridden == got /\ device # DeviceId[i]
            selected == Selected(i, overridden, chosen)
        IN  /\ created => got /\ (overridden => chosen)
            /\ stream' = IF created THEN [stream EXCEPT ![i] = <<selected>>] ELSE stream
            /\ device' = Restored(overridden, selected, restored)
            /\ unrestored' =
                   IF overridden /\ ~restored THEN unrestored \cup {i} ELSE unrestored
    BY DEF CreateCudaStream
<1> DEFINE overridden == got /\ device # DeviceId[i]
           selected == Selected(i, overridden, chosen)
<1>1. selected = IF overridden /\ chosen THEN DeviceId[i] ELSE device
    BY DEF Selected
<1>2. device' = IF overridden /\ restored THEN device ELSE selected
    BY DEF Restored
<1>3. created => selected = DeviceId[i]
    BY <1>1
<1>4. CASE overridden /\ ~restored
    <2>1. device' \in {device, DeviceId[i]} /\ unrestored' = unrestored \cup {i}
        BY <1>1, <1>2, <1>4
    <2> QED BY <2>1, <1>3 DEF DeviceInv
<1>5. CASE ~(overridden /\ ~restored)
    <2>1. device' = device /\ unrestored' = unrestored
        BY <1>1, <1>2, <1>5
    <2> QED BY <2>1, <1>3 DEF DeviceInv
<1> QED BY <1>4, <1>5

\* What making a stream, where there is a GPU, does to the streams.
LEMMA StreamFacts ==
    ASSUME NEW i \in Instances, DOMAIN stream = Instances, MakeStream(i)
    PROVE  /\ (DeviceInv => DeviceInv') /\ DOMAIN stream' = Instances
           /\ \A j \in Instances \ {i} : stream'[j] = stream[j]
           /\ Kind[i] = "gpu" => stream'[i] = <<DeviceId[i]>>
           /\ Kind[i] # "gpu" => stream'[i] = stream[i]
<1>1. CASE Kind[i] = "gpu"
    <2>1. stream' = [stream EXCEPT ![i] = <<DeviceId[i]>>] /\ (DeviceInv => DeviceInv')
        BY <1>1, CudaStreamFacts DEF MakeStream
    <2> QED BY <2>1, <1>1
<1>2. CASE Kind[i] # "gpu"
    BY <1>2 DEF MakeStream, cudaVars, DeviceInv
<1> QED BY <1>1, <1>2

\* The steps of an instance.
LEMMA InstanceSteps ==
    ASSUME IInv, NEW i \in Instances,
           \/ ModelInstanceInitialize(i) \/ PropertiesFail(i) \/ CudaStreamFails(i)
           \/ HostPolicyUnexpected(i) \/ HostPolicyFails(i) \/ InstanceSetStateFails(i)
           \/ ModelInstanceFinalize(i)
    PROVE  IInv'
<1> USE DEF IInv, InstanceStates
<1>1. CASE ModelInstanceInitialize(i)
    <2>1. /\ pc = "ready" /\ pc' = pc /\ instance' = [instance EXCEPT ![i] = "set"]
          /\ instance[i] = "none" /\ MakeStream(i)
          /\ UNCHANGED <<fresh, model_config, server, max_batch_size, backend, state,
                         strategy, batcher, userp>>
        BY <1>1 DEF ModelInstanceInitialize, ToInitialize, modelVars, derived, batchVars
    <2>2. StreamInv' /\ DOMAIN stream' = Instances /\ DeviceInv'
        BY <2>1, StreamFacts DEF StreamInv
    <2> QED BY <2>1, <2>2 DEF OrderInv, ParsedInv, StateInv, SomeServes
<1>2. ASSUME NEW how \in {"unmade", "abandoned", "lost"}, NEW npc \in {"unloading", "terminated"},
             pc = "ready", pc' = npc, instance[i] = "none",
             instance' = [instance EXCEPT ![i] = how],
             UNCHANGED <<modelVars, backend, state, batchVars>>,
             \/ (how # "unmade" /\ MakeStream(i))
             \/ UNCHANGED stream /\ DeviceInv'
      PROVE  IInv'
    <2>1. UNCHANGED <<fresh, model_config, server, max_batch_size, strategy, batcher, userp>>
        BY <1>2 DEF modelVars, derived, batchVars
    <2>2. SomeServes' => SomeServes
        BY <1>2 DEF SomeServes
    <2>3. StreamInv' /\ DOMAIN stream' = Instances /\ DeviceInv'
        <3>1. CASE how # "unmade" /\ MakeStream(i)
            BY <1>2, <3>1, StreamFacts DEF StreamInv
        <3>2. CASE UNCHANGED stream /\ DeviceInv'
            BY <1>2, <3>2 DEF StreamInv
        <3> QED BY <1>2, <3>1, <3>2
    <2>4. instance' \in [Instances -> InstanceStates]
        BY <1>2
    <2> QED BY <1>2, <2>1, <2>2, <2>3, <2>4 DEF OrderInv, ParsedInv, StateInv
<1>3. CASE PropertiesFail(i)
    BY <1>2, <1>3 DEF PropertiesFail, ToInitialize, InitializeFails, cudaVars, DeviceInv
<1>4. CASE CudaStreamFails(i)
    <2>1. UNCHANGED stream /\ DeviceInv'
        BY <1>4, CudaStreamFacts DEF CudaStreamFails
    <2> QED BY <2>1, <1>2, <1>4 DEF CudaStreamFails, ToInitialize, InitializeFails
<1>5. CASE HostPolicyUnexpected(i)
    BY <1>2, <1>5 DEF HostPolicyUnexpected, ToInitialize, InitializeFails
<1>6. CASE HostPolicyFails(i)
    BY <1>2, <1>6 DEF HostPolicyFails, ToInitialize
<1>7. CASE InstanceSetStateFails(i)
    BY <1>2, <1>7 DEF InstanceSetStateFails, ToInitialize, InitializeFails
<1>8. CASE ModelInstanceFinalize(i)
    <2>1. /\ pc = "unloading" /\ instance[i] = "set" /\ pc' = pc
          /\ UNCHANGED <<device, unrestored>>
          /\ instance' = [instance EXCEPT ![i] = "gone"]
          /\ stream' = [stream EXCEPT ![i] = <<>>]
          /\ UNCHANGED <<fresh, model_config, server, max_batch_size, backend, state,
                         strategy, batcher, userp>>
        BY <1>8 DEF ModelInstanceFinalize, StreamDestroyed, modelVars, derived, batchVars
    <2>2. SomeServes' => SomeServes
        BY <2>1 DEF SomeServes
    <2>3. StreamInv' /\ DOMAIN stream' = Instances
        BY <2>1 DEF StreamInv
    <2> QED BY <2>1, <2>2, <2>3 DEF OrderInv, ParsedInv, StateInv, DeviceInv
<1> QED BY <1>1, <1>3, <1>4, <1>5, <1>6, <1>7, <1>8

\* The steps that leave the model and its instances as they are.
LEMMA OtherSteps ==
    ASSUME IInv, UNCHANGED <<server, model_config, max_batch_size, fresh, backend, state,
                             instance, stream, device, unrestored>>,
           pc' = pc \/ (pc = "ready" /\ pc' = "unloading"),
           strategy' = "none" => batcher' = <<>> /\ userp' = <<>>,
           pc = "unloaded" => strategy' = "none"
    PROVE  IInv'
BY DEF IInv, OrderInv, ParsedInv, StateInv, StreamInv, DeviceInv, SomeServes

LEMMA NextInv == IInv /\ [Next]_vars => IInv'
<1> SUFFICES ASSUME IInv, [Next]_vars PROVE IInv'
    OBVIOUS
<1>0. strategy = "none" => batcher = <<>> /\ userp = <<>>
    BY DEF IInv, OrderInv
<1>1. CASE \/ Construct \/ ConstructFails \/ SetConfig \/ SetConfigFails
           \/ \E config \in Completed : \E mbs \in {0, config.max_batch_size} :
                  AutoComplete(config, mbs)
           \/ ValidateModel \/ (\E succeeds \in BOOLEAN : SetState(succeeds))
           \/ ModelFinalize
    <2>1. InstancesUnchanged
        BY <1>1 DEF Construct, ConstructFails, SetConfig, SetConfigFails, AutoComplete,
                    ValidateModel, SetState, ModelFinalize
    <2> QED BY <1>1, <2>1, ModelSteps
<1>2. ASSUME NEW i \in Instances,
             \/ ModelInstanceInitialize(i) \/ PropertiesFail(i) \/ CudaStreamFails(i)
             \/ HostPolicyUnexpected(i) \/ HostPolicyFails(i) \/ InstanceSetStateFails(i)
             \/ ModelInstanceFinalize(i)
      PROVE  IInv'
    BY <1>2, InstanceSteps
<1>3. ASSUME NEW kind, NEW required, NEW typed, GetSequenceControl(kind, required, typed)
      PROVE  IInv'
    <2>1. /\ pc # "unloaded" /\ pc' = pc
          /\ UNCHANGED <<server, model_config, max_batch_size, fresh, backend, state,
                         instance, stream, device, unrestored>>
          /\ UNCHANGED <<strategy, batcher, userp>>
        BY <1>3 DEF GetSequenceControl, modelVars, derived, loadVars, cudaVars, batchVars
    <2> QED BY <1>0, <2>1, OtherSteps
<1>4. ASSUME NEW s \in {"volume", "single"}, NEW l \in Limits, LoadStrategy(s, l) PROVE IInv'
    <2>1. /\ pc # "unloaded" /\ pc' = pc
          /\ UNCHANGED <<server, model_config, max_batch_size, fresh, backend, state,
                         instance, stream, device, unrestored>>
          /\ strategy' # "none"
        BY <1>4 DEF LoadStrategy, BatcherInitialize, modelVars, derived, loadVars, cudaVars
    <2> QED BY <2>1, OtherSteps
<1>5. CASE LoadStrategyFails \/ Unload
    BY <1>0, <1>5, OtherSteps DEF LoadStrategyFails, Unload, Served, modelVars, derived, cudaVars,
                            batchVars
<1>6. CASE FormBatch
    <2>1. /\ pc # "unloaded" /\ pc' = pc
          /\ UNCHANGED <<server, model_config, max_batch_size, fresh, backend, state,
                         instance, stream, device, unrestored>>
        BY <1>6 DEF FormBatch, Served, modelVars, derived, loadVars, cudaVars
    <2>2. strategy' = "none" => batcher' = <<>> /\ userp' = <<>>
        BY <1>0, <1>6 DEF FormBatch, ModelBatchInitialize, ModelBatchIncludeRequest, ModelBatchFinalize
    <2> QED BY <2>1, <2>2, OtherSteps
<1>7. CASE UnloadStrategy
    <2>1. /\ pc # "unloaded" /\ pc' = pc
          /\ UNCHANGED <<server, model_config, max_batch_size, fresh, backend, state,
                         instance, stream, device, unrestored>>
          /\ batcher' = <<>> /\ userp' = <<>>
        BY <1>7 DEF UnloadStrategy, BatcherFinalize, modelVars, derived, loadVars, cudaVars
    <2> QED BY <2>1, OtherSteps
<1>8. CASE UNCHANGED vars
    <2>1. /\ pc' = pc /\ UNCHANGED <<server, model_config, max_batch_size, fresh, backend, state,
                         instance, stream, device, unrestored>>
          /\ UNCHANGED <<strategy, batcher, userp>>
        BY <1>8 DEF vars, modelVars, derived, loadVars, cudaVars, batchVars
    <2>2. pc = "unloaded" => strategy = "none"
        BY DEF IInv, OrderInv
    <2> QED BY <1>0, <2>1, <2>2, OtherSteps
<1> QED BY <1>1, <1>2, <1>3, <1>4, <1>5, <1>6, <1>7, <1>8 DEF Next
-----------------------------------------------------------------------------
\* Of a model that was unloaded nothing stays allocated but a state or a stream that the
\* code has lost the way to free, and an instance that serves has a stream if and only if
\* it is one of a GPU, on its own device, even if that of an earlier instance was left
\* selected; the loading thread keeps its device, whatever else failed, unless selecting
\* it again failed.
THEOREM HeldResources == Spec => []ResourcesHeld
<1>1. IInv => ResourcesHeld
    BY DEF IInv, OrderInv, StateInv, StreamInv, DeviceInv, InstanceStates, SomeServes,
           ResourcesHeld,
           StreamsOfInstances, FreedWhenUnloaded
<1> QED BY <1>1, InitInv, NextInv, PTL DEF Spec

\* No instance serves with members of another configuration than the one the server has,
\* or with one that its backend does not support, whatever was completed and sent back
\* while the model was loaded and whatever failed.
THEOREM SupportedServed == Spec => []ServedAsSupported
<1>1. IInv => ServedAsSupported
    BY DEF IInv, ParsedInv, StateInv, SomeServes, ServedAsSupported
<1> QED BY <1>1, InitInv, NextInv, PTL DEF Spec
-----------------------------------------------------------------------------
(***************************************************************************)
(* Volumes.  Added up in an unsigned int or not, the volume of a request   *)
(* that fits into one is the same.                                         *)
(***************************************************************************)
PlusSize(sum, size) == sum + size
PlusWrapped(sum, size) == (sum + (size % VolumeModulus)) % VolumeModulus
PlusVolume(sum, r) == sum + VolumeOf(r)
Exact == INSTANCE FoldTheorems WITH Op <- PlusSize
Wrapped == INSTANCE FoldTheorems WITH Op <- PlusWrapped
Volumes == INSTANCE FoldTheorems WITH Op <- PlusVolume

LEMMA VolumeIsFold == \A r : VolumeOf(r) = Exact!FoldOver(DOMAIN r, r, 0)[DOMAIN r]
BY DEF VolumeOf, FoldLeft, MapThenFoldSet, Max, Exact!FoldOver, Exact!Largest, PlusSize

LEMMA PendingIsFold == \A r : PendingVolume(r) = Wrapped!FoldOver(DOMAIN r, r, 0)[DOMAIN r]
BY DEF PendingVolume, FoldLeft, MapThenFoldSet, Max, Wrapped!FoldOver, Wrapped!Largest, PlusWrapped

LEMMA BatchVolumeIsFold ==
    BatchVolume = Volumes!FoldOver(DOMAIN batch, batch, 0)[DOMAIN batch]
BY DEF BatchVolume, FoldLeft, MapThenFoldSet, Max, Volumes!FoldOver, Volumes!Largest, PlusVolume

LEMMA ModFacts ==
    /\ VolumeModulus \in Nat \ {0}
    /\ \A x \in Nat : /\ x % VolumeModulus \in 0 .. VolumeModulus - 1
                      /\ x < VolumeModulus => x % VolumeModulus = x
                      /\ x % VolumeModulus <= x
<1>1. VolumeModulus \in Nat \ {0}
    BY VolumeAssumption
<1>2. \A x \in Nat : x % VolumeModulus \in 0 .. VolumeModulus - 1
    BY <1>1
<1>3. \A x \in Nat : x < VolumeModulus => x % VolumeModulus = x
    BY <1>1
<1>4. \A x \in Nat : x % VolumeModulus <= x
    BY <1>1, <1>2, <1>3
<1> QED BY <1>1, <1>2, <1>3, <1>4

LEMMA VolumeFacts ==
    ASSUME NEW r \in Requests
    PROVE  /\ VolumeOf(r) \in Nat /\ PendingVolume(r) \in Nat
           /\ VolumeOf(r) < VolumeModulus => PendingVolume(r) = VolumeOf(r)
<1>1. r \in Seq(Nat)
    BY VolumeAssumption
<1> DEFINE n == Len(r)
<1>2. n \in Nat /\ DOMAIN r = 1 .. n /\ \A k \in 1 .. n : r[k] \in Nat
    BY <1>1
<1> HIDE DEF n
<1>3. PICK g : Exact!IsChain(g, n, r, 0) /\ Exact!FoldOver(1 .. n, r, 0)[1 .. n] = g[n]
    BY <1>2, Exact!FoldIsChain
<1>4. PICK h : Wrapped!IsChain(h, n, r, 0) /\ Wrapped!FoldOver(1 .. n, r, 0)[1 .. n] = h[n]
    BY <1>2, Wrapped!FoldIsChain
<1>5. VolumeOf(r) = g[n] /\ PendingVolume(r) = h[n]
    BY <1>2, <1>3, <1>4, VolumeIsFold, PendingIsFold
<1>6. /\ g[0] = 0 /\ \A k \in 1 .. n : g[k] = g[k - 1] + r[k]
      /\ h[0] = 0
      /\ \A k \in 1 .. n : h[k] = (h[k - 1] + (r[k] % VolumeModulus)) % VolumeModulus
    BY <1>3, <1>4 DEF Exact!IsChain, Wrapped!IsChain, PlusSize, PlusWrapped
<1> DEFINE T == {k \in Nat : k <= n => /\ g[k] \in Nat /\ h[k] \in Nat
                                       /\ g[k] < VolumeModulus => h[k] = g[k]}
<1>7. 0 \in T
    BY <1>6
<1>8. \A k \in Nat : k \in T => k + 1 \in T
    <2> SUFFICES ASSUME NEW k \in Nat, k \in T, k + 1 <= n
                 PROVE  /\ g[k + 1] \in Nat /\ h[k + 1] \in Nat
                        /\ g[k + 1] < VolumeModulus => h[k + 1] = g[k + 1]
        OBVIOUS
    <2>1. k <= n /\ k + 1 \in 1 .. n /\ (k + 1) - 1 = k
        BY <1>2
    <2>2. g[k] \in Nat /\ h[k] \in Nat /\ (g[k] < VolumeModulus => h[k] = g[k])
        BY <2>1
    <2> DEFINE x == r[k + 1]
    <2>3. x \in Nat /\ g[k + 1] = g[k] + x
        BY <1>2, <1>6, <2>1
    <2>4. h[k + 1] = (h[k] + (x % VolumeModulus)) % VolumeModulus
        BY <1>6, <2>1
    <2> HIDE DEF x, T
    <2>5. x % VolumeModulus \in Nat
        BY <2>3, ModFacts
    <2>6. h[k] + (x % VolumeModulus) \in Nat
        BY <2>2, <2>5
    <2>7. h[k + 1] \in Nat
        BY <2>4, <2>6, ModFacts
    <2>8. ASSUME g[k + 1] < VolumeModulus PROVE h[k + 1] = g[k + 1]
        <3>1. x < VolumeModulus /\ g[k] < VolumeModulus
            BY <2>2, <2>3, <2>8, ModFacts
        <3>2. x % VolumeModulus = x /\ h[k] = g[k]
            BY <2>2, <2>3, <3>1, ModFacts
        <3>3. h[k + 1] = g[k + 1] % VolumeModulus
            BY <2>3, <2>4, <3>2
        <3>4. g[k + 1] \in Nat
            BY <2>2, <2>3
        <3> QED BY <2>8, <3>3, <3>4, ModFacts
    <2> QED BY <2>2, <2>3, <2>7, <2>8
<1> HIDE DEF T
<1>9. n \in T
    BY <1>2, <1>7, <1>8, Exact!NaturalInduction
<1> QED BY <1>5, <1>9, <1>2 DEF T
-----------------------------------------------------------------------------
(***************************************************************************)
(* The batch being formed.  Of what a volume_batching batch may hold, the  *)
(* rest is in userp; what was refused did not fit into it.                 *)
(***************************************************************************)
VolumeInv ==
    strategy = "volume" =>
        /\ limit \in Nat /\ batcher = <<limit % VolumeModulus>>
        /\ userp # <<>> =>
              /\ userp = <<userp[1]>> /\ userp[1] \in 0 .. VolumeModulus - 1
              /\ (\A i \in DOMAIN batch : Fits(batch[i])) =>
                     BatchVolume + userp[1] = limit % VolumeModulus
              /\ refused # <<>> => PendingVolume(refused[1]) > userp[1]

SingleInv ==
    strategy = "single" /\ userp # <<>> =>
        /\ \/ userp = <<1>> /\ batch = <<>>
           \/ userp = <<0>> /\ Len(batch) = 1
        /\ refused # <<>> => userp = <<0>>

BatchInv ==
    /\ strategy \in {"none", "volume", "single"}
    /\ batch \in Seq(Requests)
    /\ refused # <<>> => refused[1] \in Requests
    /\ strategy = "none" => userp = <<>>
    /\ userp = <<>> => batch = <<>> /\ refused = <<>>
    /\ VolumeInv /\ SingleInv

LEMMA BatchVolumeEmpty == batch = <<>> => BatchVolume = 0
<1>1. DOMAIN <<>> = {}
    OBVIOUS
<1>2. Volumes!FoldOver({}, <<>>, 0)[{}] = 0
    BY Volumes!FoldOfNothing
<1> QED BY <1>1, <1>2, BatchVolumeIsFold

LEMMA BatchVolumeNat == batch \in Seq(Requests) => BatchVolume \in Nat
<1> SUFFICES ASSUME batch \in Seq(Requests) PROVE BatchVolume \in Nat
    OBVIOUS
<1>1. Len(batch) \in Nat /\ DOMAIN batch = 1 .. Len(batch)
      /\ \A k \in 1 .. Len(batch) : batch[k] \in Requests
    OBVIOUS
<1>2. \A v \in Nat, k \in 1 .. Len(batch) : PlusVolume(v, batch[k]) \in Nat
    BY <1>1, VolumeFacts DEF PlusVolume
<1>3. Volumes!FoldOver(1 .. Len(batch), batch, 0)[1 .. Len(batch)] \in Nat
    BY <1>1, <1>2, Volumes!FoldStays
<1> QED BY <1>1, <1>3, BatchVolumeIsFold

LEMMA BatchVolumeAppend ==
    ASSUME batch \in Seq(Requests), NEW r \in Requests, batch' = Append(batch, r)
    PROVE  BatchVolume' = BatchVolume + VolumeOf(r)
<1> DEFINE n == Len(batch)
           u == batch'
<1>1. /\ n \in Nat /\ DOMAIN batch = 1 .. n /\ DOMAIN u = 1 .. n + 1 /\ u[n + 1] = r
      /\ \A k \in 1 .. n : batch[k] = u[k]
    OBVIOUS
<1>2. BatchVolume' = Volumes!FoldOver(DOMAIN u, u, 0)[DOMAIN u]
    BY DEF BatchVolume, FoldLeft, MapThenFoldSet, Max, Volumes!FoldOver, Volumes!Largest,
           PlusVolume, VolumeOf
<1> HIDE DEF n, u
<1>3. Volumes!FoldOver(1 .. n + 1, u, 0)[1 .. n + 1]
          = PlusVolume(Volumes!FoldOver(1 .. n, batch, 0)[1 .. n], u[n + 1])
    BY <1>1, Volumes!FoldOneMore
<1> QED BY <1>1, <1>2, <1>3, BatchVolumeIsFold DEF PlusVolume
-----------------------------------------------------------------------------
LEMMA InitBatch == Init => BatchInv
BY DEF Init, BatchInit, BatchInv, VolumeInv, SingleInv

LEMMA InitializeBatch ==
    ASSUME BatchInv, NEW s \in {"volume", "single"}, NEW l \in Limits, BatcherInitialize(s, l)
    PROVE  BatchInv'
<1>1. /\ strategy' = s /\ limit' = l /\ UNCHANGED <<userp, batch, refused>>
      /\ userp = <<>>
      /\ s = "volume" => l # NoLimit /\ batcher' = <<l % VolumeModulus>>
    BY DEF BatcherInitialize, BatchInv
<1>2. s = "volume" => l \in Nat
    BY <1>1, VolumeAssumption
<1> QED BY <1>1, <1>2 DEF BatchInv, VolumeInv, SingleInv

LEMMA StartBatch == ASSUME BatchInv, ModelBatchInitialize PROVE BatchInv'
<1>1. /\ UNCHANGED <<strategy, limit, batcher, batch, refused>>
      /\ batch = <<>> /\ refused = <<>> /\ strategy \in {"volume", "single"}
      /\ userp' = IF strategy = "volume" THEN batcher ELSE <<1>>
    BY DEF ModelBatchInitialize, BatchInv
<1>2. VolumeInv'
    <2> SUFFICES ASSUME strategy = "volume" PROVE VolumeInv'
        BY <1>1 DEF VolumeInv
    <2>1. limit \in Nat /\ userp' = <<limit % VolumeModulus>> /\ batcher' = userp'
        BY <1>1 DEF BatchInv, VolumeInv
    <2>2. limit % VolumeModulus \in 0 .. VolumeModulus - 1
        BY <2>1, ModFacts
    <2>3. BatchVolume' = 0
        <3>1. BatchVolume' = BatchVolume
            BY <1>1 DEF BatchVolume, VolumeOf, FoldLeft, MapThenFoldSet, Max
        <3> QED BY <1>1, <3>1, BatchVolumeEmpty
    <2> QED BY <1>1, <2>1, <2>2, <2>3 DEF VolumeInv
<1>3. SingleInv'
    <2>1. CASE strategy = "volume"
        BY <1>1, <2>1 DEF SingleInv
    <2>2. CASE strategy = "single"
        <3>1. userp' = <<1>> /\ batch' = <<>> /\ refused' = <<>>
            BY <1>1, <2>2
        <3> QED BY <3>1 DEF SingleInv
    <2> QED BY <1>1, <2>1, <2>2
<1>4. UNCHANGED <<strategy, batch, refused>>
    BY <1>1
<1> QED BY <1>1, <1>2, <1>3, <1>4 DEF BatchInv

LEMMA IncludeBatch ==
    ASSUME BatchInv, NEW r \in Requests, ModelBatchIncludeRequest(r) PROVE BatchInv'
<1>1. /\ UNCHANGED <<strategy, limit, batcher>> /\ userp # <<>>
      /\ strategy \in {"volume", "single"} /\ batch \in Seq(Requests)
    BY DEF ModelBatchIncludeRequest, BatchInv
<1>2. /\ VolumeOf(r) \in Nat /\ PendingVolume(r) \in Nat
      /\ VolumeOf(r) < VolumeModulus => PendingVolume(r) = VolumeOf(r)
    BY VolumeFacts
<1>3. ModelBatchIncludeRequest(r)
    OBVIOUS
<1>4. CASE Includes(r)
    <2>1. userp' = <<Remaining(r)>> /\ batch' = Append(batch, r) /\ UNCHANGED refused
        BY <1>3, <1>4 DEF ModelBatchIncludeRequest
    <2>2. batch' \in Seq(Requests) /\ Len(batch') = Len(batch) + 1
        BY <1>1, <2>1
    <2>3. VolumeInv'
        <3> SUFFICES ASSUME strategy = "volume" PROVE VolumeInv'
            BY <1>1 DEF VolumeInv
        <3>1. /\ limit \in Nat /\ batcher = <<limit % VolumeModulus>>
              /\ userp[1] \in 0 .. VolumeModulus - 1
              /\ (\A i \in DOMAIN batch : Fits(batch[i])) =>
                     BatchVolume + userp[1] = limit % VolumeModulus
              /\ refused # <<>> => PendingVolume(refused[1]) > userp[1]
            BY <1>1 DEF BatchInv, VolumeInv
        <3> DEFINE left == userp[1] - PendingVolume(r)
        <3>2. userp' = <<left>> /\ PendingVolume(r) <= userp[1]
            <4>1. PendingVolume(r) <= userp[1]
                BY <1>4, strategy = "volume" DEF Includes
            <4>2. Remaining(r) = left
                BY strategy = "volume" DEF Remaining
            <4> QED BY <2>1, <4>1, <4>2
        <3>3. left \in 0 .. VolumeModulus - 1 /\ left <= userp[1]
            <4>1. /\ VolumeModulus \in Nat /\ userp[1] \in Nat /\ userp[1] <= VolumeModulus - 1
                  /\ PendingVolume(r) \in Nat
                BY <1>2, <3>1, VolumeAssumption
            <4> QED BY <3>2, <4>1
        <3>4. ASSUME \A i \in DOMAIN batch' : Fits(batch'[i])
              PROVE  BatchVolume' + left = limit % VolumeModulus
            <4>1. BatchVolume' = BatchVolume + VolumeOf(r) /\ BatchVolume \in Nat
                BY <1>1, <2>1, BatchVolumeAppend, BatchVolumeNat
            <4>2. /\ DOMAIN batch' = 1 .. Len(batch) + 1 /\ DOMAIN batch = 1 .. Len(batch)
                  /\ Len(batch) \in Nat /\ batch'[Len(batch) + 1] = r
                  /\ \A i \in DOMAIN batch : batch'[i] = batch[i]
                BY <1>1, <2>1
            <4>3. Fits(r) /\ \A i \in DOMAIN batch : Fits(batch[i])
                BY <3>4, <4>2
            <4>4. PendingVolume(r) = VolumeOf(r)
                BY <1>2, <4>3 DEF Fits
            <4>5. BatchVolume + userp[1] = limit % VolumeModulus
                BY <3>1, <4>3
            <4> QED BY <1>2, <3>1, <4>1, <4>4, <4>5
        <3>5. (\A i \in DOMAIN batch' : Fits(batch'[i])) <=> (\A i \in DOMAIN batch : Fits(batch[i]))'
            BY DEF Fits, VolumeOf, FoldLeft, MapThenFoldSet, Max
        <3>6. refused' # <<>> => PendingVolume(refused'[1]) > left
            <4> SUFFICES ASSUME refused # <<>> PROVE PendingVolume(refused[1]) > left
                BY <2>1
            <4>1. PendingVolume(refused[1]) \in Nat /\ PendingVolume(refused[1]) > userp[1]
                BY <3>1, VolumeFacts DEF BatchInv
            <4> QED BY <3>1, <3>3, <4>1
        <3>7. PendingVolume(refused[1])' = PendingVolume(refused'[1])
            BY DEF PendingVolume, FoldLeft, MapThenFoldSet, Max
        <3> HIDE DEF left
        <3> QED BY <1>1, <3>1, <3>2, <3>3, <3>4, <3>5, <3>6, <3>7 DEF VolumeInv
    <2>4. SingleInv'
        <3> SUFFICES ASSUME strategy = "single" PROVE SingleInv'
            BY <1>1 DEF SingleInv
        <3>1. userp[1] = 1 /\ userp' = <<0>>
            BY <1>4, <2>1 DEF Includes, Remaining
        <3>2. batch = <<>>
            BY <1>1, <3>1 DEF BatchInv, SingleInv
        <3> QED BY <2>1, <2>2, <3>1, <3>2 DEF SingleInv
    <2> QED BY <1>1, <2>1, <2>2, <2>3, <2>4 DEF BatchInv
<1>5. CASE ~Includes(r)
    <2>1. refused' = <<r>> /\ UNCHANGED <<userp, batch>>
        BY <1>3, <1>5 DEF ModelBatchIncludeRequest
    <2>2. VolumeInv'
        <3>1. BatchVolume' = BatchVolume
            BY <2>1 DEF BatchVolume, VolumeOf, FoldLeft, MapThenFoldSet, Max
        <3>2. PendingVolume(refused[1])' = PendingVolume(r)
            BY <2>1 DEF PendingVolume, FoldLeft, MapThenFoldSet, Max
        <3>3. strategy = "volume" => userp[1] \in Int /\ PendingVolume(r) > userp[1]
            BY <1>1, <1>2, <1>5 DEF Includes, BatchInv, VolumeInv
        <3>4. (\A i \in DOMAIN batch : Fits(batch[i]))' <=> (\A i \in DOMAIN batch : Fits(batch[i]))
            BY <2>1 DEF Fits, VolumeOf, FoldLeft, MapThenFoldSet, Max
        <3> QED BY <1>1, <2>1, <3>1, <3>2, <3>3, <3>4 DEF BatchInv, VolumeInv
    <2>3. SingleInv'
        <3>1. strategy = "single" => userp # <<1>>
            BY <1>5 DEF Includes
        <3> QED BY <1>1, <2>1, <3>1 DEF BatchInv, SingleInv
    <2> QED BY <1>1, <2>1, <2>2, <2>3 DEF BatchInv
<1> QED BY <1>4, <1>5
-----------------------------------------------------------------------------
LEMMA KeptBatch == ASSUME BatchInv, UNCHANGED batchVars PROVE BatchInv'
<1>1. UNCHANGED <<strategy, limit, batcher, userp, batch, refused>>
    BY DEF batchVars
<1>2. BatchVolume' = BatchVolume /\ PendingVolume(refused[1])' = PendingVolume(refused[1])
    BY <1>1 DEF BatchVolume, VolumeOf, PendingVolume, FoldLeft, MapThenFoldSet, Max
<1>3. (\A i \in DOMAIN batch : Fits(batch[i]))' <=> (\A i \in DOMAIN batch : Fits(batch[i]))
    BY <1>1 DEF Fits, VolumeOf, FoldLeft, MapThenFoldSet, Max
<1> QED BY <1>1, <1>2, <1>3 DEF BatchInv, VolumeInv, SingleInv

LEMMA NextBatch == BatchInv /\ [Next]_vars => BatchInv'
<1> SUFFICES ASSUME BatchInv, [Next]_vars PROVE BatchInv'
    OBVIOUS
<1>1. CASE \/ Construct \/ ConstructFails \/ SetConfig \/ SetConfigFails
           \/ \E config \in Completed : \E mbs \in {0, config.max_batch_size} :
                  AutoComplete(config, mbs)
           \/ ValidateModel \/ (\E succeeds \in BOOLEAN : SetState(succeeds))
           \/ ModelFinalize
    BY <1>1, KeptBatch DEF Construct, ConstructFails, SetConfig, SetConfigFails, AutoComplete,
           ValidateModel, SetState, ModelFinalize, InstancesUnchanged
<1>2. ASSUME NEW i \in Instances,
             \/ ModelInstanceInitialize(i) \/ PropertiesFail(i) \/ CudaStreamFails(i)
             \/ HostPolicyUnexpected(i) \/ HostPolicyFails(i) \/ InstanceSetStateFails(i)
             \/ ModelInstanceFinalize(i)
      PROVE  BatchInv'
    BY <1>2, KeptBatch DEF ModelInstanceInitialize, PropertiesFail, CudaStreamFails,
           HostPolicyUnexpected, HostPolicyFails, InstanceSetStateFails, ModelInstanceFinalize,
           InitializeFails
<1>3. CASE \/ \E kind \in ControlKinds, required, typed \in BOOLEAN :
                  GetSequenceControl(kind, required, typed)
           \/ LoadStrategyFails \/ Unload \/ UNCHANGED vars
    BY <1>3, KeptBatch DEF GetSequenceControl, LoadStrategyFails, Unload, vars
<1>4. CASE \E s \in {"volume", "single"}, l \in Limits : LoadStrategy(s, l)
    BY <1>4, InitializeBatch DEF LoadStrategy
<1>5. CASE FormBatch
    <2>1. CASE ModelBatchInitialize
        BY <2>1, StartBatch
    <2>2. CASE \E r \in Requests : ModelBatchIncludeRequest(r)
        BY <2>2, IncludeBatch
    <2>3. CASE ModelBatchFinalize
        <3>1. /\ userp' = <<>> /\ batch' = <<>> /\ refused' = <<>>
              /\ UNCHANGED <<strategy, limit, batcher>>
            BY <2>3 DEF ModelBatchFinalize
        <3>2. VolumeInv' /\ SingleInv'
            BY <3>1 DEF BatchInv, VolumeInv, SingleInv
        <3> QED BY <3>1, <3>2 DEF BatchInv
    <2> QED BY <1>5, <2>1, <2>2, <2>3 DEF FormBatch
<1>6. CASE UnloadStrategy
    <2>1. strategy' = "none" /\ userp' = <<>> /\ UNCHANGED <<userp, batch, refused>>
        BY <1>6 DEF UnloadStrategy, BatcherFinalize
    <2>2. VolumeInv' /\ SingleInv'
        BY <2>1 DEF VolumeInv, SingleInv
    <2> QED BY <2>1, <2>2 DEF BatchInv
<1> QED BY <1>1, <1>2, <1>3, <1>4, <1>5, <1>6 DEF Next

(***************************************************************************)
(* A batch never has more than its strategy allows, and no request is kept *)
(* out that fits, for requests of any inputs, any limit and any width of   *)
(* the sums.  The two excepted cases are those of the property: a request  *)
(* whose volume wraps around, and a limit that does not fit the width.     *)
(***************************************************************************)
THEOREM FilledBatches == Spec => []FilledToLimit
<1>1. BatchInv => BatchWithinLimit
    <2> SUFFICES ASSUME BatchInv PROVE BatchWithinLimit
        OBVIOUS
    <2>1. ASSUME strategy = "volume", \A i \in DOMAIN batch : Fits(batch[i])
          PROVE  BatchVolume <= limit
        <3>1. limit \in Nat /\ limit % VolumeModulus \in Nat /\ limit % VolumeModulus <= limit
            BY <2>1, ModFacts DEF BatchInv, VolumeInv
        <3>2. CASE userp = <<>>
            BY <3>1, <3>2, BatchVolumeEmpty DEF BatchInv
        <3>3. CASE userp # <<>>
            <4>1. /\ userp[1] \in Nat /\ BatchVolume + userp[1] = limit % VolumeModulus
                  /\ BatchVolume \in Nat
                BY <2>1, <3>3, BatchVolumeNat, VolumeAssumption DEF BatchInv, VolumeInv
            <4> QED BY <3>1, <4>1
        <3> QED BY <3>2, <3>3
    <2>2. strategy = "single" => Len(batch) <= 1
        <3>1. Len(<<>>) = 0
            OBVIOUS
        <3>2. strategy = "single" => batch = <<>> \/ Len(batch) = 1
            <4>1. userp = <<>> => batch = <<>>
                BY DEF BatchInv
            <4>2. strategy = "single" /\ userp # <<>> => batch = <<>> \/ Len(batch) = 1
                BY Zenon DEF BatchInv, SingleInv
            <4> QED BY <4>1, <4>2
        <3>3. strategy = "single" => Len(batch) = 0 \/ Len(batch) = 1
            BY <3>1, <3>2, Zenon
        <3>4. \A n : n = 0 \/ n = 1 => n <= 1
            OBVIOUS
        <3> QED BY <3>3, <3>4, Zenon
    <2> QED BY <2>1, <2>2 DEF BatchWithinLimit
<1>2. BatchInv => RefusedForCause
    <2> SUFFICES ASSUME BatchInv, refused # <<>> PROVE RefusedForCause
        BY DEF RefusedForCause
    <2>1. userp # <<>> /\ refused[1] \in Requests
        BY DEF BatchInv
    <2>2. ASSUME strategy = "volume", Fits(refused[1]), limit < VolumeModulus,
                 \A i \in DOMAIN batch : Fits(batch[i])
          PROVE  BatchVolume + VolumeOf(refused[1]) > limit
        <3>1. limit \in Nat /\ limit % VolumeModulus = limit
            BY <2>2, ModFacts DEF BatchInv, VolumeInv
        <3>2. /\ userp[1] \in Nat /\ BatchVolume + userp[1] = limit % VolumeModulus
              /\ PendingVolume(refused[1]) > userp[1] /\ BatchVolume \in Nat
            BY <2>1, <2>2, BatchVolumeNat, VolumeAssumption DEF BatchInv, VolumeInv
        <3>3. PendingVolume(refused[1]) = VolumeOf(refused[1]) /\ VolumeOf(refused[1]) \in Nat
            BY <2>1, <2>2, VolumeFacts DEF Fits
        <3> QED BY <3>1, <3>2, <3>3
    <2>3. strategy = "single" => batch # <<>>
        <3>1. Len(<<>>) = 0 /\ <<0>> # <<1>>
            OBVIOUS
        <3> QED BY <2>1, <3>1 DEF BatchInv, SingleInv
    <2> QED BY <2>2, <2>3 DEF RefusedForCause
<1>3. BatchInv => FilledToLimit
    BY <1>1, <1>2 DEF FilledToLimit
<1> QED BY <1>3, InitBatch, NextBatch, PTL DEF Spec
-----------------------------------------------------------------------------
(***************************************************************************)
(* The members of BackendModel.  MadeOutputs(c) are the batch outputs that *)
(* the parser makes of c, and i is the first of them with name as target.  *)
(***************************************************************************)
MadeOutputs(c) ==
    [i \in DOMAIN c.batch_output |-> MadeBatchOutput(c, c.batch_output[i])]
NamesTarget(outputs, i, name) ==
    \E k \in DOMAIN outputs[i].target_name : outputs[i].target_name[k] = name
IsFirst(outputs, name, i) ==
    /\ i \in DOMAIN outputs /\ NamesTarget(outputs, i, name)
    /\ \A j \in 1 .. i - 1 : ~NamesTarget(outputs, j, name)

\* The map points to the first batch output with each target, where they are now.
MapRight(map, place, outputs) ==
    /\ \A name : name \in DOMAIN map <=> \E i \in DOMAIN outputs : NamesTarget(outputs, i, name)
    /\ \A name \in DOMAIN map : \E i : map[name] = <<place, i>> /\ IsFirst(outputs, name, i)

AlwaysSame == \A k \in DOMAIN parsed : parsed[k].batch_output = server.batch_output

FreshInv ==
    fresh =>
        /\ parsed # <<>> /\ parsed[Len(parsed)] = server
        /\ batch_outputs = MadeOutputs(server)
        /\ AlwaysSame => MapRight(batch_output_map, storage, server.batch_output)
        /\ FlagsAsParsed

MemberInv ==
    /\ {server, model_config} \subseteq Configs /\ max_batch_size \in Int
    /\ allow_optional \in BOOLEAN /\ storage \in Nat /\ capacity \in Nat
    /\ batch_outputs \in Seq(Range(batch_outputs)) /\ Len(batch_outputs) <= capacity
    /\ \A name \in DOMAIN batch_output_map : batch_output_map[name][1] \in 0 .. storage
    /\ parsed \in Seq(Configs)
    /\ pc = "idle" => /\ parsed = <<>> /\ batch_output_map = <<>>
                      /\ ragged_inputs = {} /\ optional_inputs = {}
    /\ pc = "completed" => fresh
    /\ FreshInv
-----------------------------------------------------------------------------
LEMMA LeastExists ==
    ASSUME NEW s, s \subseteq Nat, s # {} PROVE \E x \in s : \A y \in s : x <= y
<1> DEFINE T == {n \in Nat : \A r \in SUBSET Nat :
                     (\E x \in r : x <= n) => \E x \in r : \A y \in r : x <= y}
<1>1. 0 \in T
    OBVIOUS
<1>2. \A n \in Nat : n \in T => n + 1 \in T
    <2> SUFFICES ASSUME NEW n \in Nat, n \in T, NEW r \in SUBSET Nat, NEW x \in r, x <= n + 1
                 PROVE  \E z \in r : \A y \in r : z <= y
        OBVIOUS
    <2>1. CASE \E y \in r : y <= n
        BY <2>1
    <2>2. CASE \A y \in r : ~(y <= n)
        <3>1. x \in Nat /\ \A y \in r : y \in Nat /\ x <= y
            BY <2>2
        <3> QED BY <3>1
    <2> QED BY <2>1, <2>2
<1>3. PICK x \in s : x \in Nat
    OBVIOUS
<1> HIDE DEF T
<1>4. x \in T
    BY <1>1, <1>2, <1>3, Exact!NaturalInduction
<1>5. s \in SUBSET Nat /\ x <= x
    BY <1>3
<1> QED BY <1>4, <1>5 DEF T

LEMMA RangeSeq ==
    ASSUME NEW s, s \in Seq(Range(s))
    PROVE  Len(s) \in Nat /\ DOMAIN s = 1 .. Len(s) /\ s \in [1 .. Len(s) -> Range(s)]
OBVIOUS

LEMMA FunctionSeq ==
    ASSUME NEW n \in Nat, NEW f, f = [i \in 1 .. n |-> f[i]]
    PROVE  f \in Seq(Range(f)) /\ Len(f) = n
<1>1. f \in [1 .. n -> Range(f)]
    BY DEF Range
<1>2. f \in Seq(Range(f))
    BY <1>1
<1> QED BY <1>1, <1>2

\* What is read up to the first bad element.
LEMMA ReadFacts ==
    ASSUME NEW s, s \in Seq(Range(s)), NEW bad, bad \subseteq DOMAIN s
    PROVE  /\ DOMAIN UpToBad(s, bad) = 1 .. Len(UpToBad(s, bad))
           /\ Len(UpToBad(s, bad)) \in 0 .. Len(s)
           /\ bad = {} => UpToBad(s, bad) = s
<1>1. Len(s) \in Nat /\ DOMAIN s = 1 .. Len(s)
    BY RangeSeq
<1>2. CASE bad = {}
    BY <1>1, <1>2 DEF UpToBad
<1>3. CASE bad # {}
    <2>1. Min(bad) \in 1 .. Len(s)
        <3>1. bad \subseteq Nat
            BY <1>1
        <3>2. \E x \in bad : \A y \in bad : x <= y
            BY <1>3, <3>1, LeastExists
        <3>3. Min(bad) \in bad
            BY <3>2 DEF Min
        <3> QED BY <1>1, <3>3
    <2>2. UpToBad(s, bad) = SubSeq(s, 1, Min(bad))
        BY <1>3 DEF UpToBad
    <2> DEFINE m == Min(bad)
               u == SubSeq(s, 1, m)
    <2> HIDE DEF m
    <2>3. Len(u) = m /\ DOMAIN u = 1 .. m
        BY <1>1, <2>1 DEF m
    <2> QED BY <1>3, <2>1, <2>2, <2>3 DEF m
<1> QED BY <1>2, <1>3

\* There is a capacity for what is read.
LEMMA CapacityFacts ==
    ASSUME NEW n \in 0 .. 8, storage \in Nat, capacity \in Nat, Room(n)
    PROVE  /\ storage' \in Nat /\ storage <= storage' /\ capacity' \in Nat /\ n <= capacity'
           /\ n <= capacity => storage' = storage
<1>1. CASE n <= capacity
    BY <1>1 DEF Room
<1>2. CASE ~(n <= capacity)
    <2>1. \E c \in {1, 2, 4, 8} : n <= c /\ c < 2 * n
        <3>1. n = 1 \/ n = 2 \/ n \in 3 .. 4 \/ n \in 5 .. 8
            BY <1>2
        <3> QED BY <3>1
    <2>2. storage' = storage + 1 /\ capacity' = CHOOSE c \in {1, 2, 4, 8} : n <= c /\ c < 2 * n
        BY <1>2 DEF Room
    <2>3. capacity' \in {1, 2, 4, 8} /\ n <= capacity'
        BY <2>1, <2>2
    <2> QED BY <1>2, <2>2, <2>3
<1> QED BY <1>1, <1>2
-----------------------------------------------------------------------------
LEMMA FirstExists ==
    ASSUME NEW n \in Nat, NEW outputs, DOMAIN outputs = 1 .. n, NEW name,
           \E i \in DOMAIN outputs : NamesTarget(outputs, i, name)
    PROVE  \E i : IsFirst(outputs, name, i)
<1> DEFINE s == {i \in DOMAIN outputs : NamesTarget(outputs, i, name)}
<1>1. s \subseteq Nat /\ s # {}
    OBVIOUS
<1>2. PICK i \in s : \A j \in s : i <= j
    BY <1>1, LeastExists
<1>3. \A j \in 1 .. i - 1 : j \in DOMAIN outputs /\ ~(i <= j)
    BY <1>2
<1>4. \A j \in 1 .. i - 1 : ~NamesTarget(outputs, j, name)
    BY <1>2, <1>3
<1> QED BY <1>2, <1>4 DEF IsFirst

\* What emplace() makes of the map: entries that are there stay.
LEMMA EmplacedFacts ==
    ASSUME NEW n \in Nat, NEW outputs, DOMAIN outputs = 1 .. n, DOMAIN batch_outputs' = 1 .. n,
           \A i \in 1 .. n : batch_outputs'[i].target_names = outputs[i].target_name
    PROVE  /\ \A name : name \in DOMAIN Emplaced <=>
                  \/ name \in DOMAIN batch_output_map
                  \/ \E i \in DOMAIN outputs : NamesTarget(outputs, i, name)
           /\ \A name \in DOMAIN batch_output_map : Emplaced[name] = batch_output_map[name]
           /\ \A name \in DOMAIN Emplaced : name \notin DOMAIN batch_output_map =>
                  \E i : Emplaced[name] = <<storage', i>> /\ IsFirst(outputs, name, i)
<1>1. \A name : name \in Targets <=> \E i \in DOMAIN outputs : NamesTarget(outputs, i, name)
    BY DEF Targets, NamesTarget
<1>2. ASSUME NEW name \in Targets PROVE IsFirst(outputs, name, FirstWithTarget(name))
    <2> DEFINE Good(i) == /\ \E k \in DOMAIN batch_outputs'[i].target_names :
                                batch_outputs'[i].target_names[k] = name
                          /\ \A j \in 1 .. i - 1 : \A k \in DOMAIN batch_outputs'[j].target_names :
                                batch_outputs'[j].target_names[k] # name
    <2>1. PICK i : IsFirst(outputs, name, i)
        BY <1>1, FirstExists
    <2>2. \A j \in 1 .. n : j \in Nat /\ \A k \in 1 .. j - 1 : k \in 1 .. n
        OBVIOUS
    <2>3. \A j \in 1 .. n : Good(j) <=> IsFirst(outputs, name, j)
        BY <2>2 DEF IsFirst, NamesTarget
    <2>4. i \in 1 .. n
        BY <2>1 DEF IsFirst
    <2>5. Good(i)
        BY <2>1, <2>3, <2>4
    <2>6. FirstWithTarget(name) = CHOOSE j \in 1 .. n : Good(j)
        BY DEF FirstWithTarget
    <2> HIDE DEF Good
    <2>7. FirstWithTarget(name) \in 1 .. n /\ Good(FirstWithTarget(name))
        BY <2>4, <2>5, <2>6
    <2> QED BY <2>3, <2>7
<1>3. DOMAIN Emplaced = DOMAIN batch_output_map \cup Targets
    BY DEF Emplaced
<1>4. \A name \in DOMAIN batch_output_map : Emplaced[name] = batch_output_map[name]
    BY DEF Emplaced
<1>5. \A name \in Targets : name \notin DOMAIN batch_output_map =>
          Emplaced[name] = <<storage', FirstWithTarget(name)>>
    BY DEF Emplaced
<1> QED BY <1>1, <1>2, <1>3, <1>4, <1>5

LEMMA ParsedAppend ==
    ASSUME parsed \in Seq(Configs), NEW config \in Configs, parsed' = Append(parsed, config)
    PROVE  /\ parsed' \in Seq(Configs) /\ parsed' # <<>> /\ parsed'[Len(parsed')] = config
           /\ DOMAIN parsed' = DOMAIN parsed \cup {Len(parsed')}
           /\ \A k \in DOMAIN parsed : parsed'[k] = parsed[k]
<1>1. /\ Len(parsed) \in Nat /\ DOMAIN parsed = 1 .. Len(parsed)
      /\ Len(parsed') = Len(parsed) + 1 /\ DOMAIN parsed' = 1 .. Len(parsed) + 1
    OBVIOUS
<1> QED BY <1>1

\* The flags are those of the configurations parsed before and of this one.
LEMMA ParseFlags ==
    ASSUME MemberInv, NEW config \in Configs, parsed' = Append(parsed, config),
           ParseInputs(config), allow_optional' = allow_optional, fresh', pc = "idle" \/ fresh
    PROVE  FlagsAsParsed'
<1> DEFINE Ragged(p) == UNION {RaggedIn(p[k].input) : k \in DOMAIN p}
           Optional(p) == UNION {OptionalIn(p[k].input) : k \in DOMAIN p}
<1>1. /\ DOMAIN parsed' = DOMAIN parsed \cup {Len(parsed')} /\ parsed'[Len(parsed')] = config
      /\ \A k \in DOMAIN parsed : parsed'[k] = parsed[k]
    BY ParsedAppend DEF MemberInv
<1>2. /\ Refused(config.input) = {}
      /\ ragged_inputs' = ragged_inputs \cup RaggedIn(config.input)
      /\ optional_inputs' =
             optional_inputs \cup (IF allow_optional THEN OptionalIn(config.input) ELSE {})
    BY DEF ParseInputs, UpToBad
<1>3. ~allow_optional => OptionalIn(config.input) = {}
    BY <1>2 DEF Refused, OptionalIn
<1>4. /\ ragged_inputs = Ragged(parsed) /\ optional_inputs = Optional(parsed)
      /\ ~allow_optional => optional_inputs = {}
    <2>1. CASE pc = "idle"
        <3>1. /\ DOMAIN parsed = {} /\ ragged_inputs = {} /\ optional_inputs = {}
            BY <2>1 DEF MemberInv
        <3> QED BY <3>1
    <2>2. CASE fresh
        BY <2>2 DEF MemberInv, FreshInv, FlagsAsParsed
    <2> QED BY <2>1, <2>2
<1>5. Ragged(parsed') = Ragged(parsed) \cup RaggedIn(config.input)
    BY <1>1
<1>6. Optional(parsed') = Optional(parsed) \cup OptionalIn(config.input)
    BY <1>1
<1>7. /\ ragged_inputs' = Ragged(parsed') /\ optional_inputs' = Optional(parsed')
      /\ ~allow_optional => optional_inputs' = {}
    BY <1>2, <1>3, <1>4, <1>5, <1>6
<1> QED BY <1>7 DEF FlagsAsParsed
-----------------------------------------------------------------------------
\* The members that follow the first ones, when the batch inputs are good.
LEMMA OutputsParsed ==
    ASSUME MemberInv, NEW config \in Configs, ParseBatchOutputs(config)
    PROVE  /\ batch_outputs' \in Seq(Range(batch_outputs')) /\ Len(batch_outputs') <= capacity'
           /\ storage' \in Nat /\ storage <= storage' /\ capacity' \in Nat
           /\ \/ ~fresh' /\ UNCHANGED batch_output_map
              \/ /\ batch_outputs' = MadeOutputs(config)
                 /\ batch_output_map' = Emplaced /\ ParseInputs(config)
                 /\ Len(config.batch_output) <= capacity => storage' = storage
<1> DEFINE bos == config.batch_output
           bad == BadBatchOutputs(bos)
           read == UpToBad(bos, bad)
<1>1. bos \in Seq(Range(bos)) /\ Len(bos) <= 8 /\ bad \subseteq DOMAIN bos
    BY ConfigsAssumption DEF BadBatchOutputs
<1>2. /\ batch_outputs' = [i \in DOMAIN read |-> MadeBatchOutput(config, read[i])]
      /\ Room(Len(read))
      /\ IF bad = {}
         THEN batch_output_map' = Emplaced /\ ParseInputs(config)
         ELSE fresh' = FALSE /\ UNCHANGED batch_output_map
    BY DEF ParseBatchOutputs
<1>3. /\ DOMAIN read = 1 .. Len(read) /\ Len(read) \in 0 .. Len(bos)
      /\ bad = {} => read = bos
    BY <1>1, ReadFacts
<1> HIDE DEF read, bad, bos
<1>4. Len(bos) \in Nat /\ Len(read) \in 0 .. 8
    <2>1. Len(bos) \in Nat
        BY <1>1, RangeSeq
    <2>2. \A b \in Nat : \A a \in 0 .. b : b <= 8 => a \in 0 .. 8
        OBVIOUS
    <2> QED BY <1>1, <1>3, <2>1, <2>2, Zenon
<1>5. batch_outputs' \in Seq(Range(batch_outputs')) /\ Len(batch_outputs') = Len(read)
    <2> DEFINE f == batch_outputs'
    <2>1. f = [i \in 1 .. Len(read) |-> f[i]] /\ Len(read) \in Nat
        BY <1>2, <1>3, <1>4
    <2> HIDE DEF f
    <2>2. f \in Seq(Range(f)) /\ Len(f) = Len(read)
        BY <2>1, FunctionSeq
    <2> QED BY <2>2 DEF f
<1>6. /\ storage' \in Nat /\ storage <= storage' /\ capacity' \in Nat /\ Len(read) <= capacity'
      /\ Len(read) <= capacity => storage' = storage
    BY <1>2, <1>4, CapacityFacts DEF MemberInv
<1>7. CASE bad # {}
    BY <1>2, <1>5, <1>6, <1>7
<1>8. CASE bad = {}
    <2>1. read = bos /\ batch_output_map' = Emplaced /\ ParseInputs(config)
        BY <1>2, <1>3, <1>8
    <2>2. batch_outputs' = MadeOutputs(config)
        BY <1>2, <2>1 DEF MadeOutputs, bos
    <2> QED BY <1>5, <1>6, <2>1, <2>2 DEF bos
<1> QED BY <1>7, <1>8

LEMMA MadeFacts ==
    ASSUME NEW config \in Configs
    PROVE  /\ DOMAIN config.batch_output = 1 .. Len(config.batch_output)
           /\ Len(config.batch_output) \in Nat
           /\ DOMAIN MadeOutputs(config) = 1 .. Len(config.batch_output)
           /\ Len(MadeOutputs(config)) = Len(config.batch_output)
           /\ \A i \in 1 .. Len(config.batch_output) :
                  /\ MadeOutputs(config)[i].target_names = config.batch_output[i].target_name
                  /\ MadeOutputs(config)[i].shape =
                         BatchOutputShape(config, config.batch_output[i])
<1>1. config.batch_output \in Seq(Range(config.batch_output))
    BY ConfigsAssumption
<1>2. DOMAIN config.batch_output = 1 .. Len(config.batch_output) /\ Len(config.batch_output) \in Nat
    BY <1>1, RangeSeq
<1> DEFINE f == MadeOutputs(config)
           n == Len(config.batch_output)
<1>3. f = [i \in 1 .. n |-> MadeBatchOutput(config, config.batch_output[i])]
    BY <1>2 DEF MadeOutputs
<1>4. f = [i \in 1 .. n |-> f[i]]
    BY <1>3
<1> HIDE DEF f, n
<1>5. Len(f) = n
    BY <1>2, <1>4, FunctionSeq DEF n
<1> QED BY <1>2, <1>3, <1>5 DEF f, n, MadeBatchOutput

\* As long as the configurations have the same batch outputs, so has the map.
LEMMA MapParsed ==
    ASSUME MemberInv, NEW config \in Configs, pc = "idle" \/ fresh, server' = config,
           parsed' = Append(parsed, config), batch_outputs' = MadeOutputs(config),
           batch_output_map' = Emplaced,
           Len(config.batch_output) <= capacity => storage' = storage, AlwaysSame'
    PROVE  MapRight(batch_output_map', storage', config.batch_output)
<1> DEFINE bos == config.batch_output
           n == Len(bos)
<1>1. /\ \A name : name \in DOMAIN Emplaced <=>
             \/ name \in DOMAIN batch_output_map
             \/ \E i \in DOMAIN bos : NamesTarget(bos, i, name)
      /\ \A name \in DOMAIN batch_output_map : Emplaced[name] = batch_output_map[name]
      /\ \A name \in DOMAIN Emplaced : name \notin DOMAIN batch_output_map =>
             \E i : Emplaced[name] = <<storage', i>> /\ IsFirst(bos, name, i)
    BY MadeFacts, EmplacedFacts
<1>2. CASE pc = "idle"
    <2>1. DOMAIN batch_output_map = {}
        BY <1>2 DEF MemberInv
    <2> QED BY <1>1, <2>1 DEF MapRight
<1>3. CASE fresh
    <2>1. /\ DOMAIN parsed' = DOMAIN parsed \cup {Len(parsed')}
          /\ \A k \in DOMAIN parsed : parsed'[k] = parsed[k]
        BY ParsedAppend DEF MemberInv
    <2>2. \A k \in DOMAIN parsed : parsed[k].batch_output = bos
        BY <2>1 DEF AlwaysSame
    <2>3. Len(parsed) \in DOMAIN parsed /\ parsed[Len(parsed)] = server
        <3>1. parsed \in Seq(Configs) /\ parsed # <<>>
            BY <1>3 DEF MemberInv, FreshInv
        <3> QED BY <1>3, <3>1 DEF MemberInv, FreshInv
    <2>4. server.batch_output = bos /\ AlwaysSame
        BY <2>2, <2>3 DEF AlwaysSame
    <2>5. MapRight(batch_output_map, storage, bos)
        BY <1>3, <2>4 DEF MemberInv, FreshInv
    <2>6. storage' = storage
        <3>1. Len(batch_outputs) = n /\ Len(batch_outputs) <= capacity
            BY <1>3, <2>4, MadeFacts DEF MemberInv, FreshInv
        <3> QED BY <3>1
    <2>7. \A name : name \in DOMAIN Emplaced <=> name \in DOMAIN batch_output_map
        BY <1>1, <2>5 DEF MapRight
    <2> QED BY <1>1, <2>5, <2>6, <2>7 DEF MapRight
<1> QED BY <1>2, <1>3

LEMMA ParseMembers ==
    ASSUME MemberInv, NEW config \in Configs, ParseModelConfig(config), server' = config,
           pc = "idle" \/ fresh, pc' \notin {"idle", "completed"}
    PROVE  MemberInv'
<1>1. /\ model_config' = config /\ max_batch_size' = config.max_batch_size
      /\ parsed' = Append(parsed, config) /\ allow_optional' = allow_optional
    BY DEF ParseModelConfig
<1>2. /\ {server', model_config'} \subseteq Configs /\ max_batch_size' \in Int
      /\ allow_optional' \in BOOLEAN
    BY <1>1, ConfigsAssumption DEF MemberInv
<1>3. /\ parsed' \in Seq(Configs) /\ parsed' # <<>> /\ parsed'[Len(parsed')] = config
    BY <1>1, ParsedAppend DEF MemberInv
<1>4. CASE /\ ~fresh'
           /\ UNCHANGED <<batch_outputs, storage, capacity, batch_output_map>>
    BY <1>2, <1>3, <1>4 DEF MemberInv, FreshInv
<1>5. CASE ParseBatchOutputs(config)
    <2>1. /\ batch_outputs' \in Seq(Range(batch_outputs')) /\ Len(batch_outputs') <= capacity'
          /\ storage' \in Nat /\ storage <= storage' /\ capacity' \in Nat
          /\ \/ ~fresh' /\ UNCHANGED batch_output_map
             \/ /\ batch_outputs' = MadeOutputs(config)
                /\ batch_output_map' = Emplaced /\ ParseInputs(config)
                /\ Len(config.batch_output) <= capacity => storage' = storage
        BY <1>5, OutputsParsed
    <2>2. (Range(batch_outputs))' = Range(batch_outputs')
        BY DEF Range
    <2>3. CASE ~fresh' /\ UNCHANGED batch_output_map
        <3>1. \A name \in DOMAIN batch_output_map : batch_output_map[name][1] \in 0 .. storage'
            BY <2>1 DEF MemberInv
        <3> QED BY <1>2, <1>3, <2>1, <2>2, <2>3, <3>1 DEF MemberInv, FreshInv
    <2>4. CASE /\ batch_outputs' = MadeOutputs(config)
               /\ batch_output_map' = Emplaced /\ ParseInputs(config)
               /\ Len(config.batch_output) <= capacity => storage' = storage
        <3>1. AlwaysSame' => MapRight(batch_output_map', storage', config.batch_output)
            BY <1>1, <2>4, MapParsed
        <3>2. fresh' => FlagsAsParsed'
            BY <1>1, <2>4, ParseFlags
        <3>3. FreshInv'
            <4>1. MapRight(batch_output_map, storage, server.batch_output)'
                      <=> MapRight(batch_output_map', storage', server'.batch_output)
                BY DEF MapRight, IsFirst, NamesTarget
            <4>2. MadeOutputs(server)' = MadeOutputs(server')
                BY DEF MadeOutputs, MadeBatchOutput, BatchOutputShape, TargetOutput
            <4> QED BY <1>3, <2>4, <3>1, <3>2, <4>1, <4>2 DEF FreshInv
        <3>4. \A name \in DOMAIN Emplaced : Emplaced[name][1] \in 0 .. storage'
            <4>1. \A name \in DOMAIN batch_output_map : Emplaced[name] = batch_output_map[name]
                BY MadeFacts, <2>4, EmplacedFacts
            <4>2. \A name \in DOMAIN Emplaced : name \notin DOMAIN batch_output_map =>
                      \E i : Emplaced[name] = <<storage', i>>
                BY MadeFacts, <2>4, EmplacedFacts
            <4> QED BY <2>1, <4>1, <4>2 DEF MemberInv
        <3> QED BY <1>2, <1>3, <2>1, <2>2, <2>4, <3>3, <3>4 DEF MemberInv
    <2> QED BY <2>1, <2>3, <2>4
<1> QED BY <1>4, <1>5 DEF ParseModelConfig
-----------------------------------------------------------------------------
LEMMA KeptMembers ==
    ASSUME MemberInv,
           UNCHANGED <<allow_optional, batch_outputs, storage, capacity, batch_output_map,
                       ragged_inputs, optional_inputs, parsed>>,
           {server', model_config'} \subseteq Configs, max_batch_size' \in Int,
           pc' = "idle" => pc = "idle", pc' = "completed" => fresh',
           fresh' => fresh /\ server' = server
    PROVE  MemberInv'
<1>1. FreshInv'
    <2> SUFFICES ASSUME fresh' PROVE FreshInv'
        BY DEF FreshInv
    <2>1. fresh /\ server' = server /\ parsed' = parsed
        OBVIOUS
    <2>2. MadeOutputs(server)' = MadeOutputs(server)
        BY <2>1 DEF MadeOutputs, MadeBatchOutput, BatchOutputShape, TargetOutput
    <2>3. AlwaysSame' <=> AlwaysSame
        BY <2>1 DEF AlwaysSame
    <2>4. MapRight(batch_output_map, storage, server.batch_output)'
              <=> MapRight(batch_output_map, storage, server.batch_output)
        BY <2>1 DEF MapRight, IsFirst, NamesTarget
    <2>5. FlagsAsParsed' <=> FlagsAsParsed
        BY <2>1 DEF FlagsAsParsed, RaggedIn, OptionalIn
    <2> QED BY <2>1, <2>2, <2>3, <2>4, <2>5 DEF MemberInv, FreshInv
<1>2. Range(batch_outputs)' = Range(batch_outputs)
    BY DEF Range
<1> QED BY <1>1, <1>2 DEF MemberInv

LEMMA InitMembers == Init => MemberInv
<1> SUFFICES ASSUME Init PROVE MemberInv
    OBVIOUS
<1>1. /\ server \in Configs /\ model_config = server /\ allow_optional \in BOOLEAN
      /\ max_batch_size = 0 /\ batch_outputs = <<>> /\ storage = 0 /\ capacity = 0
      /\ batch_output_map = <<>> /\ ragged_inputs = {} /\ optional_inputs = {}
      /\ parsed = <<>> /\ fresh = FALSE /\ pc = "idle"
    BY DEF Init, ModelInit
<1>2. <<>> \in Seq(Range(<<>>)) /\ Len(<<>>) = 0 /\ DOMAIN <<>> = {}
    OBVIOUS
<1> QED BY <1>1, <1>2 DEF MemberInv, FreshInv

LEMMA NextMembers == MemberInv /\ [Next]_vars => MemberInv'
<1> SUFFICES ASSUME MemberInv, [Next]_vars PROVE MemberInv'
    OBVIOUS
<1>0. {server, model_config} \subseteq Configs /\ max_batch_size \in Int
      /\ Normalized[model_config] \in Configs
    BY NormalizedAssumption DEF MemberInv
<1>1. CASE Construct
    <2>1. /\ pc = "idle" /\ ParseModelConfig(server) /\ UNCHANGED server
          /\ pc' \in {"complete", "unloading"}
        BY <1>1 DEF Construct
    <2> QED BY <1>0, <2>1, ParseMembers
<1>2. CASE ConstructFails
    BY <1>0, <1>2, KeptMembers DEF ConstructFails, ParseFails, derived
<1>3. ASSUME NEW config \in Completed, NEW mbs \in {0, config.max_batch_size},
             AutoComplete(config, mbs)
      PROVE  MemberInv'
    <2>1. config \in Configs /\ mbs \in Int
        BY LoadingAssumption, ConfigsAssumption
    <2> QED BY <1>0, <1>3, <2>1, KeptMembers DEF AutoComplete, CompleteConfig
<1>4. CASE SetConfig
    <2>1. /\ pc = "completed" /\ server' = Normalized[model_config]
          /\ ParseModelConfig(Normalized[model_config]) /\ pc' \in {"complete", "unloading"}
        BY <1>4 DEF SetConfig, SetModelConfig
    <2> QED BY <1>0, <2>1, ParseMembers DEF MemberInv
<1>5. CASE SetConfigFails
    <2>1. /\ server' = server \/ server' = Normalized[model_config]
          /\ ParseFails /\ pc' = "unloading"
        BY <1>5 DEF SetConfigFails, SetModelConfigFailsBefore, SetModelConfigFailsAfter
    <2> QED BY <1>0, <2>1, KeptMembers DEF ParseFails, derived
<1>6. CASE /\ UNCHANGED modelVars
           /\ pc' = pc \/ pc' \notin {"idle", "completed"}
    <2>1. pc' = "completed" => fresh'
        BY <1>6 DEF MemberInv, modelVars
    <2> QED BY <1>0, <1>6, <2>1, KeptMembers DEF modelVars, derived
<1>7. CASE \/ \E kind \in ControlKinds, required, typed \in BOOLEAN :
                  GetSequenceControl(kind, required, typed)
           \/ ValidateModel \/ (\E succeeds \in BOOLEAN : SetState(succeeds))
           \/ ModelFinalize
    BY <1>6, <1>7 DEF GetSequenceControl, ValidateModel, SetState, ModelFinalize, loadVars,
           cudaVars
<1>8. ASSUME NEW i \in Instances,
             \/ ModelInstanceInitialize(i) \/ PropertiesFail(i) \/ CudaStreamFails(i)
             \/ HostPolicyUnexpected(i) \/ HostPolicyFails(i) \/ InstanceSetStateFails(i)
             \/ ModelInstanceFinalize(i)
      PROVE  MemberInv'
    BY <1>6, <1>8 DEF ModelInstanceInitialize, PropertiesFail, CudaStreamFails,
           HostPolicyUnexpected, HostPolicyFails, InstanceSetStateFails, ModelInstanceFinalize,
           InitializeFails
<1>9. CASE \/ \E s \in {"volume", "single"}, l \in Limits : LoadStrategy(s, l)
           \/ LoadStrategyFails \/ FormBatch \/ Unload \/ UnloadStrategy \/ UNCHANGED vars
    BY <1>6, <1>9 DEF LoadStrategy, LoadStrategyFails, FormBatch, Unload, UnloadStrategy,
           loadVars, vars
<1> QED BY <1>1, <1>2, <1>3, <1>4, <1>5, <1>7, <1>8, <1>9 DEF Next
-----------------------------------------------------------------------------
\* What FindBatchOutput returns is there, and the first with the name as a target.
LEMMA FoundFirst ==
    ASSUME MemberInv, fresh, AlwaysSame, NEW name
    PROVE  LET i == FindBatchOutput(name)
           IN  IF WithTarget(name) = {} THEN i = 0
               ELSE i # 0 /\ i \in WithTarget(name) /\ \A j \in WithTarget(name) : i <= j
<1> DEFINE bos == server.batch_output
           n == Len(bos)
<1>1. /\ server \in Configs /\ batch_outputs = MadeOutputs(server)
      /\ MapRight(batch_output_map, storage, bos)
    BY DEF MemberInv, FreshInv
<1>2. DOMAIN bos = 1 .. n /\ n \in Nat /\ Len(batch_outputs) = n
    BY <1>1, MadeFacts
<1>3. WithTarget(name) = {i \in DOMAIN bos : NamesTarget(bos, i, name)}
    BY DEF WithTarget, NamesTarget
<1> HIDE DEF n, bos
<1>4. CASE WithTarget(name) = {}
    BY <1>1, <1>3, <1>4 DEF MapRight, FindBatchOutput
<1>5. CASE WithTarget(name) # {}
    <2>1. name \in DOMAIN batch_output_map
        BY <1>1, <1>3, <1>5 DEF MapRight
    <2>2. PICK i : batch_output_map[name] = <<storage, i>> /\ IsFirst(bos, name, i)
        BY <1>1, <2>1 DEF MapRight
    <2>3. i \in 1 .. n /\ NamesTarget(bos, i, name)
          /\ \A j \in 1 .. i - 1 : ~NamesTarget(bos, j, name)
        BY <1>2, <2>2 DEF IsFirst
    <2>4. FindBatchOutput(name) = i
        BY <1>2, <2>1, <2>2, <2>3 DEF FindBatchOutput
    <2>5. \A j \in 1 .. n : NamesTarget(bos, j, name) => i <= j
        BY <1>2, <2>3
    <2> QED BY <1>2, <1>3, <1>5, <2>3, <2>4, <2>5
<1> QED BY <1>4, <1>5
-----------------------------------------------------------------------------
LEMMA ShapeOfTarget ==
    ASSUME NEW config \in Configs, NEW k \in DOMAIN config.output, NEW bo,
           bo.target_name = <<config.output[k].name>>,
           \A j \in 1 .. k - 1 : config.output[j].name # config.output[k].name
    PROVE  LET io == config.output[k]
               dims == IF io.reshape # NoReshape THEN io.reshape ELSE io.dims
           IN  BatchOutputShape(config, bo) =
                   IF config.max_batch_size = 0 THEN dims ELSE <<-1>> \o dims
<1> DEFINE io == config.output[k]
           Dims(x) == IF x.reshape # NoReshape THEN x.reshape ELSE x.dims
           named == {i \in DOMAIN config.output : config.output[i].name = bo.target_name[1]}
<1>1. /\ config.output \in Seq(Range(config.output))
      /\ io.dims \in Seq(Int) /\ (io.reshape = NoReshape \/ io.reshape \in Seq(Int))
    BY ConfigsAssumption
<1>2. DOMAIN config.output = 1 .. Len(config.output) /\ Len(config.output) \in Nat
    BY <1>1, RangeSeq
<1>3. named = {i \in DOMAIN config.output : config.output[i].name = io.name}
    OBVIOUS
<1>4. k \in named /\ \A j \in named : k <= j
    BY <1>2, <1>3
<1>5. {i \in named : \A j \in named : i <= j} = {k}
    BY <1>2, <1>4
<1>6. TargetOutput(config, bo) = {io}
    BY <1>5 DEF TargetOutput
<1>7. Dims(io) \in Seq(Int)
    BY <1>1
<1> HIDE DEF io, named
<1>8. {Dims(x) : x \in TargetOutput(config, bo)}
          \cup (IF TargetOutput(config, bo) = {} THEN {<<>>} ELSE {}) = {Dims(io)}
    BY <1>6
<1>9. (CHOOSE d \in {Dims(io)} : TRUE) = Dims(io)
    OBVIOUS
<1>10. BatchOutputShape(config, bo) =
           (IF config.max_batch_size # 0 THEN <<-1>> ELSE <<>>) \o Dims(io)
    BY <1>8, <1>9 DEF BatchOutputShape
<1>11. <<>> \o Dims(io) = Dims(io)
    <2> HIDE DEF Dims
    <2> QED BY <1>7
<1>12. BatchOutputShape(config, bo) =
           IF config.max_batch_size = 0 THEN Dims(io) ELSE <<-1>> \o Dims(io)
    <2> HIDE DEF Dims
    <2> QED BY <1>10, <1>11
<1> QED BY <1>12 DEF io

LEMMA FoundRight == MemberInv => FoundOutputs
<1> SUFFICES ASSUME MemberInv, fresh, AlwaysSame, NEW k \in DOMAIN server.output
             PROVE  LET io == server.output[k]
                        i == FindBatchOutput(io.name)
                        dims == IF io.reshape # NoReshape THEN io.reshape ELSE io.dims
                    IN  /\ i = 0 <=> WithTarget(io.name) = {}
                        /\ i # 0 => /\ i \in WithTarget(io.name)
                                    /\ \A j \in WithTarget(io.name) : i <= j
                                    /\ /\ batch_outputs[i].target_names = <<io.name>>
                                       /\ \A j \in 1 .. k - 1 : server.output[j].name # io.name
                                       => batch_outputs[i].shape =
                                           IF server.max_batch_size = 0 THEN dims
                                           ELSE <<-1>> \o dims
    BY DEF FoundOutputs, AlwaysSame
<1> DEFINE io == server.output[k]
           i == FindBatchOutput(io.name)
           dims == IF io.reshape # NoReshape THEN io.reshape ELSE io.dims
<1>1. /\ i = 0 <=> WithTarget(io.name) = {}
      /\ i # 0 => i \in WithTarget(io.name) /\ \A j \in WithTarget(io.name) : i <= j
    <2> DEFINE name == io.name
    <2> HIDE DEF name
    <2>1. IF WithTarget(name) = {} THEN FindBatchOutput(name) = 0
          ELSE /\ FindBatchOutput(name) # 0 /\ FindBatchOutput(name) \in WithTarget(name)
               /\ \A j \in WithTarget(name) : FindBatchOutput(name) <= j
        BY FoundFirst
    <2> QED BY <2>1 DEF name
<1>2. ASSUME i # 0, batch_outputs[i].target_names = <<io.name>>,
             \A j \in 1 .. k - 1 : server.output[j].name # io.name
      PROVE  batch_outputs[i].shape = IF server.max_batch_size = 0 THEN dims ELSE <<-1>> \o dims
    <2>1. server \in Configs /\ batch_outputs = MadeOutputs(server)
        BY DEF MemberInv, FreshInv
    <2>2. i \in DOMAIN server.batch_output
        BY <1>1, <1>2 DEF WithTarget
    <2> HIDE DEF i
    <2> DEFINE bo == server.batch_output[i]
    <2>3. batch_outputs[i].target_names = bo.target_name
          /\ batch_outputs[i].shape = BatchOutputShape(server, bo)
        BY <2>1, <2>2, MadeFacts
    <2>4. bo.target_name = <<server.output[k].name>>
        BY <1>2, <2>3
    <2> HIDE DEF bo
    <2>5. BatchOutputShape(server, bo) =
              IF server.max_batch_size = 0 THEN dims ELSE <<-1>> \o dims
        BY <1>2, <2>1, <2>4, ShapeOfTarget
    <2> QED BY <2>3, <2>5
<1> HIDE DEF i, dims
<1>3. /\ i = 0 <=> WithTarget(io.name) = {}
      /\ i # 0 => /\ i \in WithTarget(io.name)
                  /\ \A j \in WithTarget(io.name) : i <= j
                  /\ /\ batch_outputs[i].target_names = <<io.name>>
                     /\ \A j \in 1 .. k - 1 : server.output[j].name # io.name
                     => batch_outputs[i].shape =
                           IF server.max_batch_size = 0 THEN dims ELSE <<-1>> \o dims
    BY <1>1, <1>2
<1> QED BY <1>3 DEF i, dims
-----------------------------------------------------------------------------
\* How far loading has got, and who has a stream.
TypeInv ==
    /\ backend \in Backends
    /\ pc \in {"idle", "complete", "completed", "setstate", "validate", "ready",
               "unloading", "unloaded", "terminated"}
    /\ state \in {"none", "live", "set", "lost"}
    /\ DOMAIN stream = Instances
    /\ \A i \in Instances : stream[i] \in {<<>>, <<DeviceId[i]>>}

LEMMA InitType == Init => TypeInv
BY DEF Init, TypeInv

LEMMA NextType == TypeInv /\ [Next]_vars => TypeInv'
<1> SUFFICES ASSUME TypeInv, [Next]_vars PROVE TypeInv'
    OBVIOUS
<1> USE DEF TypeInv
<1>1. CASE Construct \/ ConstructFails \/ SetConfig \/ SetConfigFails
    BY <1>1 DEF Construct, ConstructFails, SetConfig, SetConfigFails, InstancesUnchanged,
               cudaVars
<1>2. CASE \/ \E config \in Completed : \E mbs \in {0, config.max_batch_size} :
                  AutoComplete(config, mbs)
           \/ ValidateModel \/ ModelFinalize
    BY <1>2 DEF AutoComplete, ValidateModel, ModelFinalize, InstancesUnchanged, cudaVars
<1>3. CASE \E succeeds \in BOOLEAN : SetState(succeeds)
    BY <1>3 DEF SetState, InstancesUnchanged, cudaVars
<1>4. ASSUME NEW i \in Instances, MakeStream(i) PROVE
          DOMAIN stream' = Instances /\ \A j \in Instances : stream'[j] \in {<<>>, <<DeviceId[j]>>}
    BY <1>4, StreamFacts
<1>5. ASSUME NEW i \in Instances,
             \/ ModelInstanceInitialize(i) \/ PropertiesFail(i) \/ CudaStreamFails(i)
             \/ HostPolicyUnexpected(i) \/ HostPolicyFails(i) \/ InstanceSetStateFails(i)
      PROVE  TypeInv'
    <2>1. backend' = backend /\ state' = state /\ pc' \in {pc, "unloading", "terminated"}
        BY <1>5 DEF ModelInstanceInitialize, PropertiesFail, CudaStreamFails,
               HostPolicyUnexpected, HostPolicyFails, InstanceSetStateFails, InitializeFails
    <2>2. MakeStream(i) \/ stream' = stream
        BY <1>5 DEF ModelInstanceInitialize, PropertiesFail, CudaStreamFails,
               HostPolicyUnexpected, HostPolicyFails, InstanceSetStateFails, CreateCudaStream,
               cudaVars
    <2> QED BY <1>4, <2>1, <2>2
<1>6. ASSUME NEW i \in Instances, ModelInstanceFinalize(i) PROVE TypeInv'
    BY <1>6 DEF ModelInstanceFinalize, StreamDestroyed
<1>7. CASE \/ \E kind \in ControlKinds, required, typed \in BOOLEAN :
                  GetSequenceControl(kind, required, typed)
           \/ \E s \in {"volume", "single"}, l \in Limits : LoadStrategy(s, l)
           \/ FormBatch \/ UnloadStrategy \/ UNCHANGED vars
    BY <1>7 DEF GetSequenceControl, LoadStrategy, FormBatch, UnloadStrategy, loadVars, cudaVars,
               vars
<1>8. CASE LoadStrategyFails \/ Unload
    BY <1>8 DEF LoadStrategyFails, Unload, cudaVars
<1> QED BY <1>1, <1>2, <1>3, <1>5, <1>6, <1>7, <1>8 DEF Next

LEMMA TypesHold == IInv /\ BatchInv /\ MemberInv /\ TypeInv => TypeOK
<1> SUFFICES ASSUME IInv, BatchInv, MemberInv, TypeInv PROVE TypeOK
    OBVIOUS
<1>1. instance \in [Instances -> {"none", "set", "gone", "unmade", "abandoned", "lost"}]
    BY DEF IInv, InstanceStates
<1>2. \A i \in Instances : Len(stream[i]) <= 1
    <2>1. \A d : Len(<<d>>) = 1 /\ Len(<<>>) = 0
        OBVIOUS
    <2>2. \A i \in Instances : Len(stream[i]) = 0 \/ Len(stream[i]) = 1
        BY <2>1, Zenon DEF TypeInv
    <2>3. \A n : n = 0 \/ n = 1 => n <= 1
        OBVIOUS
    <2> QED BY <2>2, <2>3, Zenon
<1>3. userp # <<>> => userp[1] \in 0 .. VolumeModulus - 1
    <2>1. <<1>>[1] = 1 /\ <<0>>[1] = 0
        OBVIOUS
    <2>2. 0 \in 0 .. VolumeModulus - 1 /\ 1 \in 0 .. VolumeModulus - 1
        BY VolumeAssumption
    <2>3. CASE strategy = "volume"
        BY <2>3 DEF BatchInv, VolumeInv
    <2>4. CASE strategy = "single" /\ userp # <<>>
        <3>1. userp = <<1>> \/ userp = <<0>>
            BY <2>4 DEF BatchInv, SingleInv
        <3> QED BY <2>1, <2>2, <3>1
    <2> QED BY <2>3, <2>4 DEF BatchInv
<1>4. \A n \in DOMAIN batch_output_map : batch_output_map[n][1] <= storage
    BY DEF MemberInv
<1>5. unrestored \subseteq Instances
    BY DEF IInv, DeviceInv
<1> QED BY <1>1, <1>2, <1>3, <1>4, <1>5 DEF MemberInv, TypeInv, TypeOK

(***************************************************************************)
(* The members of BackendModel are those of the configurations they were   *)
(* parsed from, however often backends complete them and send them back:   *)
(* flags are not taken back, and what FindBatchOutput finds through its    *)
(* map is the right batch output and was not freed, for any configurations *)
(* and whatever the server makes of them.                                  *)
(***************************************************************************)
THEOREM MembersParsed == Spec => []MembersAsParsed
<1>1. IInv /\ BatchInv /\ MemberInv /\ TypeInv => MembersAsParsed
    <2>1. MemberInv => FlagsAsParsed
        BY DEF MemberInv, FreshInv, FlagsAsParsed
    <2> QED BY <2>1, TypesHold, FoundRight DEF MembersAsParsed
<1> QED BY <1>1, InitInv, NextInv, InitBatch, NextBatch, InitMembers, NextMembers, InitType,
           NextType, PTL DEF Spec
-----------------------------------------------------------------------------
(***************************************************************************)
(* Sequence controls.  A position is an index of a control input and one   *)
(* of a control in it.                                                     *)
(***************************************************************************)
Loop == INSTANCE FoldTheorems WITH Op <- SeeOfKind
OuterLoop == INSTANCE FoldTheorems WITH Op <- SeeControlInput

ControlInputs(s) ==
    /\ s \in Seq(Range(s))
    /\ \A j \in DOMAIN s :
           /\ s[j].control \in Seq(Range(s[j].control))
           /\ \A k \in DOMAIN s[j].control :
                  LET c == s[j].control[k] IN {c.int32, c.fp32, c.bool} \subseteq Nat

ControlAt(s, x) == s[x[1]].control[x[2]]
Before(s, j) == {x \in (1 .. j) \X Nat : x[2] \in DOMAIN s[x[1]].control}
Row(j, k) == {<<j, i>> : i \in 1 .. k}
FoundIn(s, kind, P) == {x \in P : ControlAt(s, x).kind = kind}

DatatypeOf(c, typed) ==
    IF typed THEN c.data_type
    ELSE CASE c.int32 = 2 -> "TYPE_INT32" [] c.fp32 = 2 -> "TYPE_FP32" [] OTHER -> "TYPE_BOOL"

NamesGood(s, j) ==
    /\ \A i \in 1 .. j : s[i].name # ""
    /\ \A i, k \in 1 .. j : s[i].name = s[k].name => i = k
FoundGood(s, kind, typed, P) ==
    /\ \A x, y \in FoundIn(s, kind, P) : x = y
    /\ \A x \in FoundIn(s, kind, P) : GoodControl(ControlAt(s, x), typed)

\* What the loops have seen of the controls of the first j inputs at the positions P.
Fields == {"kind", "typed", "input_name", "error", "seen_tensors", "seen_control",
           "tensor_name", "tensor_datatype"}
Seen(a, s, kind, typed, P) ==
    /\ a.seen_control <=> FoundIn(s, kind, P) # {}
    /\ \A x \in FoundIn(s, kind, P) :
           /\ a.tensor_name = s[x[1]].name
           /\ a.tensor_datatype = DatatypeOf(ControlAt(s, x), typed)
    /\ FoundIn(s, kind, P) = {} => a.tensor_name = ""
LoopInv(a, s, kind, typed, P, j) ==
    /\ DOMAIN a = Fields /\ a.error \in BOOLEAN /\ a.seen_control \in BOOLEAN
    /\ a.kind = kind /\ a.typed = typed
    /\ ~a.error <=> NamesGood(s, j) /\ FoundGood(s, kind, typed, P)
    /\ ~a.error => /\ a.seen_tensors = {s[i].name : i \in 1 .. j}
                   /\ Seen(a, s, kind, typed, P)
-----------------------------------------------------------------------------
LEMMA InnerIsFold ==
    \A b, s : FoldLeft(SeeOfKind, b, s) = Loop!FoldOver(DOMAIN s, s, b)[DOMAIN s]
BY DEF FoldLeft, MapThenFoldSet, Max, Loop!FoldOver, Loop!Largest

LEMMA OuterIsFold ==
    \A b, s : FoldLeft(SeeControlInput, b, s) = OuterLoop!FoldOver(DOMAIN s, s, b)[DOMAIN s]
BY DEF FoldLeft, MapThenFoldSet, Max, OuterLoop!FoldOver, OuterLoop!Largest

\* Which of the lists a control has.
LEMMA OneList ==
    ASSUME NEW c, {c.int32, c.fp32, c.bool} \subseteq Nat
    PROVE  Cardinality(FalseTrueLists(c)) = 1 <=> \E t : FalseTrueLists(c) = {t}
<1>1. IsFiniteSet(FalseTrueLists(c))
    <2>1. IsFiniteSet({"int32", "fp32", "bool"})
        <3>1. IsFiniteSet({"int32"})
            BY FS_Singleton
        <3>2. IsFiniteSet({"int32"} \cup {"fp32"})
            BY <3>1, FS_AddElement
        <3>3. IsFiniteSet(({"int32"} \cup {"fp32"}) \cup {"bool"})
            BY <3>2, FS_AddElement
        <3>4. {"int32", "fp32", "bool"} = ({"int32"} \cup {"fp32"}) \cup {"bool"}
            OBVIOUS
        <3> QED BY <3>3, <3>4
    <2>2. FalseTrueLists(c) \subseteq {"int32", "fp32", "bool"}
        BY DEF FalseTrueLists
    <2> QED BY <2>1, <2>2, FS_Subset
<1> QED BY <1>1, FS_Singleton

\* BooleanControl finds a datatype if and only if the control is a good one.
LEMMA BooleanFacts ==
    ASSUME NEW c, {c.int32, c.fp32, c.bool} \subseteq Nat,
           NEW a, DOMAIN a = Fields, a.error = FALSE
    PROVE  /\ DOMAIN BooleanControl(a, c) = Fields
           /\ \A f \in Fields \ {"error", "tensor_datatype"} : BooleanControl(a, c)[f] = a[f]
           /\ BooleanControl(a, c).error = ~GoodControl(c, FALSE)
           /\ GoodControl(c, FALSE) =>
                  BooleanControl(a, c).tensor_datatype = DatatypeOf(c, FALSE)
<1>1. CASE Cardinality(FalseTrueLists(c)) # 1
    <2>1. \A t : FalseTrueLists(c) # {t}
        BY <1>1, OneList
    <2>2. ~GoodControl(c, FALSE)
        <3> SUFFICES ASSUME GoodControl(c, FALSE) PROVE FALSE
            OBVIOUS
        <3>1. PICK t \in {"int32", "fp32", "bool"} :
                  c[t] = 2 /\ \A u \in {"int32", "fp32", "bool"} \ {t} : c[u] = 0
            BY DEF GoodControl
        <3>2. FalseTrueLists(c) = {t}
            BY <3>1 DEF FalseTrueLists
        <3> QED BY <2>1, <3>2
    <2>3. BooleanControl(a, c) = [a EXCEPT !.error = TRUE]
        BY <1>1 DEF BooleanControl
    <2> QED BY <2>2, <2>3 DEF Fields
<1>2. CASE Cardinality(FalseTrueLists(c)) = 1
    <2>1. PICK t : FalseTrueLists(c) = {t}
        BY <1>2, OneList
    <2> DEFINE u == CHOOSE v \in FalseTrueLists(c) : TRUE
    <2>2. u = t
        BY <2>1
    <2>3. BooleanControl(a, c) = IF c[t] # 2 THEN [a EXCEPT !.error = TRUE]
                                 ELSE [a EXCEPT !.tensor_datatype = TypeName(t)]
        <3>1. BooleanControl(a, c) = IF c[u] # 2 THEN [a EXCEPT !.error = TRUE]
                                     ELSE [a EXCEPT !.tensor_datatype = TypeName(u)]
            BY <1>2 DEF BooleanControl
        <3> HIDE DEF u
        <3> QED BY <2>2, <3>1
    <2>4. /\ t \in {"int32", "fp32", "bool"} /\ c[t] > 0
          /\ \A v \in {"int32", "fp32", "bool"} \ {t} : c[v] = 0
        BY <2>1 DEF FalseTrueLists
    <2>5. GoodControl(c, FALSE) <=> c[t] = 2
        BY <2>4 DEF GoodControl
    <2>6. c[t] = 2 => TypeName(t) = DatatypeOf(c, FALSE)
        BY <2>4 DEF TypeName, DatatypeOf
    <2> QED BY <2>3, <2>5, <2>6 DEF Fields
<1> QED BY <1>1, <1>2
-----------------------------------------------------------------------------
LEMMA TypedFacts ==
    ASSUME NEW c, {c.int32, c.fp32, c.bool} \subseteq Nat,
           NEW a, DOMAIN a = Fields, a.error = FALSE
    PROVE  /\ DOMAIN TypedControl(a, c) = Fields
           /\ \A f \in Fields \ {"error", "tensor_datatype"} : TypedControl(a, c)[f] = a[f]
           /\ TypedControl(a, c).error = ~GoodControl(c, TRUE)
           /\ TypedControl(a, c).tensor_datatype = DatatypeOf(c, TRUE)
<1>1. FalseTrueLists(c) # {} <=> ~GoodControl(c, TRUE)
    <2>1. FalseTrueLists(c) = {} <=> ~(c.int32 > 0) /\ ~(c.fp32 > 0) /\ ~(c.bool > 0)
        BY DEF FalseTrueLists
    <2>2. c.int32 \in Nat /\ c.fp32 \in Nat /\ c.bool \in Nat
        OBVIOUS
    <2>3. GoodControl(c, TRUE) <=> c.int32 + c.fp32 + c.bool = 0
        BY DEF GoodControl
    <2>4. \A x, y, z \in Nat : x + y + z = 0 <=> ~(x > 0) /\ ~(y > 0) /\ ~(z > 0)
        OBVIOUS
    <2> QED BY <2>1, <2>2, <2>3, <2>4, Zenon
<1>2. TypedControl(a, c) =
          [a EXCEPT !.tensor_datatype = c.data_type, !.error = FalseTrueLists(c) # {}]
    BY DEF TypedControl
<1> QED BY <1>1, <1>2 DEF Fields, DatatypeOf

ControlSeen(a, c, b) ==
    /\ DOMAIN b = Fields
    /\ b.kind = a.kind /\ b.typed = a.typed
    /\ b.input_name = a.input_name /\ b.seen_tensors = a.seen_tensors
    /\ b.seen_control = TRUE /\ b.tensor_name = a.input_name
    /\ b.error = ~GoodControl(c, a.typed)
    /\ GoodControl(c, a.typed) => b.tensor_datatype = DatatypeOf(c, a.typed)

\* Either way: the first control of the kind that is looked for.
LEMMA SeeControlFacts ==
    ASSUME NEW c, {c.int32, c.fp32, c.bool} \subseteq Nat,
           NEW a, DOMAIN a = Fields, a.error = FALSE, a.seen_control = FALSE, a.typed \in BOOLEAN
    PROVE  ControlSeen(a, c, SeeControl(a, c))
<1> DEFINE seen == [a EXCEPT !.tensor_name = a.input_name, !.seen_control = TRUE]
<1>1. /\ DOMAIN seen = Fields /\ seen.error = FALSE
      /\ seen.seen_control = TRUE /\ seen.tensor_name = a.input_name
      /\ \A f \in {"kind", "typed", "input_name", "seen_tensors"} : seen[f] = a[f]
    BY DEF Fields
<1>2. SeeControl(a, c) = IF a.typed THEN TypedControl(seen, c) ELSE BooleanControl(seen, c)
    BY DEF SeeControl
<1> HIDE DEF seen
<1>3. CASE a.typed = TRUE
    <2>1. SeeControl(a, c) = TypedControl(seen, c)
        BY <1>2, <1>3
    <2>2. /\ DOMAIN TypedControl(seen, c) = Fields
          /\ \A f \in Fields \ {"error", "tensor_datatype"} : TypedControl(seen, c)[f] = seen[f]
          /\ TypedControl(seen, c).error = ~GoodControl(c, TRUE)
          /\ TypedControl(seen, c).tensor_datatype = DatatypeOf(c, TRUE)
        BY <1>1, TypedFacts
    <2> QED BY <1>1, <1>3, <2>1, <2>2 DEF Fields, ControlSeen
<1>4. CASE a.typed = FALSE
    <2>1. SeeControl(a, c) = BooleanControl(seen, c)
        BY <1>2, <1>4
    <2>2. /\ DOMAIN BooleanControl(seen, c) = Fields
          /\ \A f \in Fields \ {"error", "tensor_datatype"} : BooleanControl(seen, c)[f] = seen[f]
          /\ BooleanControl(seen, c).error = ~GoodControl(c, FALSE)
          /\ GoodControl(c, FALSE) =>
                 BooleanControl(seen, c).tensor_datatype = DatatypeOf(c, FALSE)
        BY <1>1, BooleanFacts
    <2> QED BY <1>1, <1>4, <2>1, <2>2 DEF Fields, ControlSeen
<1> QED BY <1>3, <1>4

\* Inside the loop over the controls of an input its name is known.
Entered(a, s, kind, typed, P, j) ==
    /\ LoopInv(a, s, kind, typed, P, j)
    /\ ~a.error => a.input_name = s[j].name

\* A step of the inner loop.
LEMMA ControlStep ==
    ASSUME NEW s, ControlInputs(s), NEW kind, NEW typed \in BOOLEAN,
           NEW j \in DOMAIN s, NEW k \in DOMAIN s[j].control, NEW P, <<j, k>> \notin P,
           NEW a, Entered(a, s, kind, typed, P, j)
    PROVE  Entered(SeeOfKind(a, s[j].control[k]), s, kind, typed, P \cup {<<j, k>>}, j)
<1> DEFINE x == <<j, k>>
           c == s[j].control[k]
           Q == P \cup {x}
           b == SeeOfKind(a, c)
<1> SUFFICES /\ LoopInv(b, s, kind, typed, Q, j)
             /\ ~b.error => b.input_name = s[j].name
    BY DEF Entered
<1>0. LoopInv(a, s, kind, typed, P, j) /\ (~a.error => a.input_name = s[j].name)
    BY DEF Entered
<1>1. {c.int32, c.fp32, c.bool} \subseteq Nat /\ ControlAt(s, x) = c
    BY DEF ControlInputs, ControlAt
<1>2. FoundIn(s, kind, Q) = IF c.kind = kind THEN FoundIn(s, kind, P) \cup {x}
                            ELSE FoundIn(s, kind, P)
    BY <1>1 DEF FoundIn
<1>3. x \notin FoundIn(s, kind, P) /\ x[1] = j
    BY DEF FoundIn
<1>4. a.kind = kind /\ a.typed = typed /\ DOMAIN a = Fields /\ a.error \in BOOLEAN
    BY <1>0 DEF LoopInv
<1> HIDE DEF x, c, Q, b
<1>5. CASE a.error
    <2>1. b = a
        BY <1>5 DEF SeeOfKind, b
    <2>2. ~FoundGood(s, kind, typed, P) => ~FoundGood(s, kind, typed, Q)
        BY <1>2 DEF FoundGood
    <2> QED BY <1>0, <1>5, <2>1, <2>2 DEF LoopInv
<1>6. CASE ~a.error /\ c.kind # kind
    <2>1. b = a
        BY <1>4, <1>6 DEF SeeOfKind, b
    <2>2. FoundIn(s, kind, Q) = FoundIn(s, kind, P)
        BY <1>2, <1>6
    <2> QED BY <1>0, <1>6, <2>1, <2>2 DEF LoopInv, FoundGood, Seen
<1>7. CASE ~a.error /\ c.kind = kind
    <2>1. b = SeeControl(a, c) /\ FoundIn(s, kind, Q) = FoundIn(s, kind, P) \cup {x}
        BY <1>2, <1>4, <1>7 DEF SeeOfKind, b
    <2>2. /\ a.seen_control <=> FoundIn(s, kind, P) # {}
          /\ a.seen_control \in BOOLEAN /\ a.input_name = s[j].name
          /\ NamesGood(s, j) /\ FoundGood(s, kind, typed, P)
          /\ a.seen_tensors = {s[i].name : i \in 1 .. j}
        BY <1>0, <1>7 DEF LoopInv, Seen
    <2>3. CASE a.seen_control
        <3>1. b = [a EXCEPT !.error = TRUE]
            BY <2>1, <2>3 DEF SeeControl
        <3>2. ~FoundGood(s, kind, typed, Q)
            BY <1>3, <2>1, <2>2, <2>3 DEF FoundGood
        <3> QED BY <1>4, <2>2, <3>1, <3>2 DEF LoopInv, Fields
    <2>4. CASE ~a.seen_control
        <3>1. /\ DOMAIN b = Fields
              /\ b.kind = kind /\ b.typed = typed /\ b.input_name = a.input_name
              /\ b.seen_tensors = a.seen_tensors
              /\ b.seen_control = TRUE /\ b.tensor_name = a.input_name
              /\ b.error = ~GoodControl(c, typed)
              /\ GoodControl(c, typed) => b.tensor_datatype = DatatypeOf(c, typed)
            <4>1. a.error = FALSE /\ a.seen_control = FALSE /\ a.typed \in BOOLEAN
                BY <1>4, <1>7, <2>2, <2>4
            <4>2. /\ DOMAIN b = Fields
                  /\ b.kind = a.kind /\ b.typed = a.typed /\ b.input_name = a.input_name
                  /\ b.seen_tensors = a.seen_tensors
                  /\ b.seen_control = TRUE /\ b.tensor_name = a.input_name
                  /\ b.error = ~GoodControl(c, a.typed)
                  /\ GoodControl(c, a.typed) => b.tensor_datatype = DatatypeOf(c, a.typed)
                <5>1. {c.int32, c.fp32, c.bool} \subseteq Nat /\ DOMAIN a = Fields /\ b = SeeControl(a, c)
                    BY <1>1, <1>4, <2>1
                <5>2. \A d : /\ DOMAIN d = Fields /\ d.error = FALSE
                             /\ d.seen_control = FALSE /\ d.typed \in BOOLEAN
                             => ControlSeen(d, c, SeeControl(d, c))
                    BY <5>1, SeeControlFacts
                <5>3. ControlSeen(a, c, b)
                    BY <5>1, <4>1, <5>2
                <5> QED BY <5>3 DEF ControlSeen
            <4> QED BY <1>4, <4>2
        <3>2. FoundIn(s, kind, Q) = {x}
            BY <2>1, <2>2, <2>4
        <3>3. FoundGood(s, kind, typed, Q) <=> GoodControl(c, typed)
            BY <1>1, <3>2 DEF FoundGood
        <3>4. ~b.error => Seen(b, s, kind, typed, Q)
            BY <1>1, <1>3, <2>2, <3>1, <3>2 DEF Seen
        <3>5. LoopInv(b, s, kind, typed, Q, j)
            BY <2>2, <3>1, <3>3, <3>4 DEF LoopInv
        <3> QED BY <2>2, <3>1, <3>5
    <2> QED BY <2>3, <2>4
<1> QED BY <1>5, <1>6, <1>7
-----------------------------------------------------------------------------
LEMMA InnerLoop ==
    ASSUME NEW s, ControlInputs(s), NEW kind, NEW typed \in BOOLEAN,
           NEW j \in DOMAIN s, NEW P, \A k : <<j, k>> \notin P,
           NEW a, Entered(a, s, kind, typed, P, j)
    PROVE  LoopInv(FoldLeft(SeeOfKind, a, s[j].control), s, kind, typed,
                   P \cup Row(j, Len(s[j].control)), j)
<1> DEFINE controls == s[j].control
           n == Len(controls)
<1>1. n \in Nat /\ DOMAIN controls = 1 .. n
    BY RangeSeq DEF ControlInputs
<1>2. PICK h : /\ Loop!IsChain(h, n, controls, a)
               /\ Loop!FoldOver(1 .. n, controls, a)[1 .. n] = h[n]
    <2> HIDE DEF n, controls
    <2> QED BY <1>1, Loop!FoldIsChain
<1>3. FoldLeft(SeeOfKind, a, controls) = h[n]
    <2> HIDE DEF n, controls
    <2> QED BY <1>1, <1>2, InnerIsFold
<1> DEFINE Holds(k) == Entered(h[k], s, kind, typed, P \cup Row(j, k), j)
           T == {k \in Nat : k <= n => Holds(k)}
<1>4. 0 \in T
    <2>1. Row(j, 0) = {}
        BY DEF Row
    <2>2. P \cup Row(j, 0) = P /\ h[0] = a
        BY <1>2, <2>1 DEF Loop!IsChain
    <2> QED BY <2>2
<1>5. \A k \in Nat : k \in T => k + 1 \in T
    <2> SUFFICES ASSUME NEW k \in Nat, k \in T, k + 1 <= n PROVE Holds(k + 1)
        <3> HIDE DEF Holds, n
        <3> QED OBVIOUS
    <2>1. k <= n /\ k + 1 \in 1 .. n /\ (k + 1) - 1 = k
        BY <1>1
    <2>2. Holds(k) /\ k + 1 \in DOMAIN s[j].control
        BY <1>1, <2>1
    <2>3. h[k + 1] = SeeOfKind(h[k], s[j].control[k + 1])
        BY <1>2, <2>1 DEF Loop!IsChain
    <2>4. <<j, k + 1>> \notin P \cup Row(j, k)
        BY DEF Row
    <2>5. (P \cup Row(j, k)) \cup {<<j, k + 1>>} = P \cup Row(j, k + 1)
        BY DEF Row
    <2> DEFINE Q == P \cup Row(j, k)
    <2>6. Entered(h[k], s, kind, typed, Q, j)
        BY <2>2
    <2> HIDE DEF T, Q, n, controls
    <2>7. Entered(SeeOfKind(h[k], s[j].control[k + 1]), s, kind, typed, Q \cup {<<j, k + 1>>}, j)
        BY <2>2, <2>4, <2>6, ControlStep DEF Q
    <2> QED BY <2>3, <2>5, <2>7 DEF Q
<1> HIDE DEF T, Holds
<1>6. n \in T
    BY <1>1, <1>4, <1>5, Exact!NaturalInduction
<1>7. Holds(n)
    BY <1>1, <1>6 DEF T
<1> QED BY <1>3, <1>7 DEF Holds, Entered

\* A step of the outer loop.
LEMMA InputStep ==
    ASSUME NEW s, ControlInputs(s), NEW kind, NEW typed \in BOOLEAN, NEW j \in DOMAIN s,
           NEW a, LoopInv(a, s, kind, typed, Before(s, j - 1), j - 1)
    PROVE  LoopInv(SeeControlInput(a, s[j]), s, kind, typed, Before(s, j), j)
<1> DEFINE n == Len(s[j].control)
           P == Before(s, j - 1)
           b == SeeControlInput(a, s[j])
<1>1. /\ DOMAIN s = 1 .. Len(s) /\ Len(s) \in Nat
      /\ n \in Nat /\ DOMAIN s[j].control = 1 .. n
    BY RangeSeq DEF ControlInputs
<1>2. j \in Nat \ {0} /\ 1 .. j = (1 .. j - 1) \cup {j} /\ j \notin 1 .. j - 1
    BY <1>1
<1>3. Before(s, j) = P \cup Row(j, n)
    BY <1>1, <1>2 DEF Before, Row
<1>4. \A k : <<j, k>> \notin P
    BY <1>2 DEF Before
<1>5. FoundIn(s, kind, P) \subseteq FoundIn(s, kind, Before(s, j))
    BY <1>3 DEF FoundIn
<1>6. NamesGood(s, j) <=> /\ NamesGood(s, j - 1) /\ s[j].name # ""
                          /\ \A i \in 1 .. j - 1 : s[i].name # s[j].name
    BY <1>2 DEF NamesGood
<1>7. DOMAIN a = Fields /\ a.error \in BOOLEAN /\ a.kind = kind /\ a.typed = typed
    BY DEF LoopInv
<1> HIDE DEF P, b, n
<1>8. CASE a.error
    <2>1. b = a
        BY <1>8 DEF SeeControlInput, b
    <2>2. FoundGood(s, kind, typed, Before(s, j)) => FoundGood(s, kind, typed, P)
        BY <1>5 DEF FoundGood
    <2> QED BY <1>6, <1>8, <2>1, <2>2 DEF LoopInv, P, b
<1>9. CASE ~a.error
    <2>1. /\ NamesGood(s, j - 1) /\ FoundGood(s, kind, typed, P)
          /\ a.seen_tensors = {s[i].name : i \in 1 .. j - 1}
          /\ Seen(a, s, kind, typed, P) /\ a.seen_control \in BOOLEAN
        BY <1>9 DEF LoopInv, P
    <2>2. CASE s[j].name = "" \/ s[j].name \in a.seen_tensors
        <3>1. b = [a EXCEPT !.error = TRUE]
            BY <1>9, <2>2 DEF SeeControlInput, b
        <3>2. ~NamesGood(s, j)
            BY <1>6, <2>1, <2>2
        <3> QED BY <1>7, <2>1, <3>1, <3>2 DEF LoopInv, Fields, b
    <2>3. CASE ~(s[j].name = "" \/ s[j].name \in a.seen_tensors)
        <3> DEFINE start == [a EXCEPT !.seen_tensors = @ \cup {s[j].name}, !.input_name = s[j].name]
        <3>1. b = FoldLeft(SeeOfKind, start, s[j].control)
            BY <1>9, <2>3 DEF SeeControlInput, b
        <3>2. /\ DOMAIN start = Fields /\ start.error = FALSE /\ start.kind = kind
              /\ start.typed = typed /\ start.input_name = s[j].name
              /\ start.seen_tensors = a.seen_tensors \cup {s[j].name}
              /\ start.seen_control = a.seen_control /\ start.tensor_name = a.tensor_name
              /\ start.tensor_datatype = a.tensor_datatype
            BY <1>7, <1>9 DEF Fields
        <3> HIDE DEF start
        <3>3. NamesGood(s, j)
            BY <1>6, <2>1, <2>3
        <3>4. start.seen_tensors = {s[i].name : i \in 1 .. j}
            BY <1>2, <2>1, <3>2
        <3>5. Seen(start, s, kind, typed, P)
            BY <2>1, <3>2 DEF Seen
        <3>6. LoopInv(start, s, kind, typed, P, j)
            BY <2>1, <3>2, <3>3, <3>4, <3>5 DEF LoopInv
        <3>7. LoopInv(b, s, kind, typed, P \cup Row(j, n), j)
            BY <1>4, <3>1, <3>2, <3>6, InnerLoop DEF n, Entered
        <3> QED BY <1>3, <3>7 DEF b
    <2> QED BY <2>2, <2>3
<1> QED BY <1>8, <1>9

LEMMA LoopsSee ==
    ASSUME NEW s, ControlInputs(s), NEW kind, NEW typed \in BOOLEAN
    PROVE  LoopInv(FoldLeft(SeeControlInput, NothingSeen(kind, typed), s), s, kind, typed,
                   Before(s, Len(s)), Len(s))
<1> DEFINE n == Len(s)
           a == NothingSeen(kind, typed)
<1>1. n \in Nat /\ DOMAIN s = 1 .. n
    BY RangeSeq DEF ControlInputs
<1>2. PICK h : /\ OuterLoop!IsChain(h, n, s, a)
               /\ OuterLoop!FoldOver(1 .. n, s, a)[1 .. n] = h[n]
    <2> HIDE DEF n, a
    <2> QED BY <1>1, OuterLoop!FoldIsChain
<1>3. FoldLeft(SeeControlInput, a, s) = h[n]
    <2> HIDE DEF n, a
    <2> QED BY <1>1, <1>2, OuterIsFold
<1> DEFINE Holds(j) == LoopInv(h[j], s, kind, typed, Before(s, j), j)
           T == {j \in Nat : j <= n => Holds(j)}
<1>4. 0 \in T
    <2>1. Before(s, 0) = {} /\ FoundIn(s, kind, {}) = {} /\ 1 .. 0 = {}
        BY DEF Before, FoundIn
    <2>2. h[0] = a
        BY <1>2 DEF OuterLoop!IsChain
    <2>3. LoopInv(a, s, kind, typed, {}, 0)
        BY <2>1 DEF LoopInv, NothingSeen, Fields, NamesGood, FoundGood, Seen
    <2> HIDE DEF a
    <2> QED BY <2>1, <2>2, <2>3
<1>5. \A j \in Nat : j \in T => j + 1 \in T
    <2> SUFFICES ASSUME NEW j \in Nat, j \in T, j + 1 <= n PROVE Holds(j + 1)
        OBVIOUS
    <2>1. j <= n /\ j + 1 \in DOMAIN s /\ (j + 1) - 1 = j
        BY <1>1
    <2>2. h[j + 1] = SeeControlInput(h[j], s[j + 1]) /\ Holds(j)
        BY <1>1, <1>2, <2>1 DEF OuterLoop!IsChain
    <2> HIDE DEF T
    <2> QED BY <2>1, <2>2, InputStep
<1> HIDE DEF T, Holds
<1>6. n \in T
    BY <1>1, <1>4, <1>5, Exact!NaturalInduction
<1>7. Holds(n)
    BY <1>1, <1>6 DEF T
<1> QED BY <1>3, <1>7 DEF Holds
-----------------------------------------------------------------------------
\* What the look-up returns.
LookedUp(r, s, kind, required, typed) ==
    LET found == FoundIn(s, kind, Before(s, Len(s)))
    IN  /\ ~r.error <=> /\ NamesGood(s, Len(s)) /\ FoundGood(s, kind, typed, Before(s, Len(s)))
                        /\ required => found # {}
        /\ ~r.error => \A x \in found :
               /\ r.tensor_name = s[x[1]].name
               /\ r.tensor_datatype = DatatypeOf(ControlAt(s, x), typed)
        /\ ~r.error /\ found = {} => r.tensor_name = ""

LEMMA LookUpFacts ==
    ASSUME NEW config, ControlInputs(config.control_input), NEW kind,
           NEW required \in BOOLEAN, NEW typed \in BOOLEAN
    PROVE  LookedUp(SequenceControl(config, kind, required, typed), config.control_input,
                    kind, required, typed)
<1> DEFINE s == config.control_input
           a == FoldLeft(SeeControlInput, NothingSeen(kind, typed), s)
           P == Before(s, Len(s))
           found == FoundIn(s, kind, P)
           r == SequenceControl(config, kind, required, typed)
<1>1. r = IF a.error \/ a.seen_control THEN a
          ELSE [a EXCEPT !.error = required, !.tensor_name = IF required THEN @ ELSE ""]
    BY DEF SequenceControl
<1>2. LoopInv(a, s, kind, typed, P, Len(s))
    BY LoopsSee
<1> HIDE DEF a, P, r, s
<1>3. /\ DOMAIN a = Fields /\ a.error \in BOOLEAN /\ a.seen_control \in BOOLEAN
      /\ ~a.error <=> NamesGood(s, Len(s)) /\ FoundGood(s, kind, typed, P)
      /\ ~a.error => /\ a.seen_control <=> found # {}
                     /\ \A x \in found : /\ a.tensor_name = s[x[1]].name
                                         /\ a.tensor_datatype = DatatypeOf(ControlAt(s, x), typed)
                     /\ found = {} => a.tensor_name = ""
    BY <1>2 DEF LoopInv, Seen
<1> SUFFICES LookedUp(r, s, kind, required, typed)
    BY DEF r, s
<1>4. CASE a.error
    <2>1. r = a
        BY <1>1, <1>4
    <2> QED BY <1>3, <1>4, <2>1 DEF LookedUp, P
<1>5. CASE ~a.error /\ a.seen_control
    <2>1. r = a /\ found # {}
        BY <1>1, <1>3, <1>5
    <2> QED BY <1>3, <1>5, <2>1 DEF LookedUp, P
<1>6. CASE ~a.error /\ ~a.seen_control
    <2>1. found = {} /\ r.error = required /\ (~required => r.tensor_name = "")
        BY <1>1, <1>3, <1>6 DEF Fields
    <2> QED BY <1>3, <1>6, <2>1 DEF LookedUp, P
<1> QED BY <1>3, <1>4, <1>5, <1>6

LEMMA MatchesFound ==
    ASSUME ControlInputs(model_config.control_input), NEW kind
    PROVE  Matches(kind) = FoundIn(model_config.control_input, kind,
                                   Before(model_config.control_input, Len(model_config.control_input)))
<1> DEFINE s == model_config.control_input
<1>1. Len(s) \in Nat /\ DOMAIN s = 1 .. Len(s)
    BY RangeSeq DEF ControlInputs
<1>2. \A j \in DOMAIN s : \A k \in DOMAIN s[j].control : k \in Nat
    <2> TAKE j \in DOMAIN s
    <2>1. s[j].control \in Seq(Range(s[j].control))
        BY DEF ControlInputs
    <2> QED BY <2>1, RangeSeq
<1>3. Matches(kind) = UNION {{<<j, k>> : k \in {k \in DOMAIN s[j].control :
                                 s[j].control[k].kind = kind}} : j \in DOMAIN s}
    BY DEF Matches
<1> HIDE DEF s
<1>4. \A x : x \in Matches(kind) <=>
          \E j \in DOMAIN s : \E k \in DOMAIN s[j].control :
              x = <<j, k>> /\ s[j].control[k].kind = kind
    BY <1>3
<1>5. \A x : x \in FoundIn(s, kind, Before(s, Len(s))) <=>
          \E j \in DOMAIN s : \E k \in DOMAIN s[j].control :
              x = <<j, k>> /\ s[j].control[k].kind = kind
    BY <1>1, <1>2 DEF FoundIn, Before, ControlAt
<1> QED BY <1>4, <1>5 DEF s

\* The look-up is one of the configuration that the backend has at the time.
ControlInv ==
    /\ pc # "complete" => control = NoControl
    /\ control = NoControl \/
           /\ control.required \in BOOLEAN /\ control.typed \in BOOLEAN
           /\ control.result = SequenceControl(model_config, control.kind, control.required, control.typed)

LEMMA ControlInit == Init => ControlInv
BY DEF Init, ControlInv

LEMMA ControlNext == ControlInv /\ [Next]_vars => ControlInv'
<1> SUFFICES ASSUME ControlInv, [Next]_vars PROVE ControlInv'
    OBVIOUS
<1> USE DEF ControlInv
<1>1. CASE pc # "complete" /\ UNCHANGED control
    <2>1. control' = NoControl /\ NoControl' = NoControl
        BY <1>1 DEF NoControl, NothingSeen
    <2> QED BY <2>1
<1>2. CASE UNCHANGED <<modelVars, pc, control>>
    <2>1. SequenceControl(model_config, control.kind, control.required, control.typed)'
              = SequenceControl(model_config, control.kind, control.required, control.typed)
        BY <1>2 DEF modelVars, SequenceControl, NothingSeen
    <2>2. NoControl' = NoControl
        BY DEF NoControl, NothingSeen
    <2> QED BY <1>2, <2>1, <2>2
<1>3. CASE control' = NoControl
    <2>1. NoControl' = NoControl
        BY DEF NoControl, NothingSeen
    <2> QED BY <1>3, <2>1
<1>4. CASE \E kind \in ControlKinds, required, typed \in BOOLEAN :
               GetSequenceControl(kind, required, typed)
    <2>1. PICK kind \in ControlKinds, required \in BOOLEAN, typed \in BOOLEAN :
              GetSequenceControl(kind, required, typed)
        BY <1>4
    <2>2. /\ pc' = "complete" /\ model_config' = model_config
          /\ control'.kind = kind /\ control'.required = required /\ control'.typed = typed
          /\ control'.result = SequenceControl(model_config, kind, required, typed)
        BY <2>1 DEF GetSequenceControl, loadVars, modelVars
    <2>3. SequenceControl(model_config, control.kind, control.required, control.typed)'
              = SequenceControl(model_config, kind, required, typed)
        BY <2>2 DEF SequenceControl, NothingSeen
    <2> QED BY <2>2, <2>3
<1>5. CASE UNCHANGED vars
    BY <1>2, <1>5 DEF vars, loadVars
<1> USE DEF InstancesUnchanged, loadVars
<1>6. ASSUME Construct \/ ConstructFails \/ SetConfig \/ SetConfigFails \/ LoadStrategyFails
      PROVE  pc # "complete" /\ UNCHANGED control
    BY <1>6 DEF Construct, ConstructFails, SetConfig, SetConfigFails, LoadStrategyFails
<1>7. ASSUME Unload \/ UnloadStrategy \/ ModelFinalize \/ FormBatch
      PROVE  pc # "complete" /\ UNCHANGED control
    BY <1>7 DEF Unload, UnloadStrategy, ModelFinalize, FormBatch, Served
<1>8. ASSUME \/ \E config \in Completed : \E mbs \in {0, config.max_batch_size} :
                    AutoComplete(config, mbs)
             \/ ValidateModel \/ \E succeeds \in BOOLEAN : SetState(succeeds)
      PROVE  control' = NoControl
    BY <1>8 DEF AutoComplete, ValidateModel, SetState
<1>9. ASSUME NEW i \in Instances,
             \/ ModelInstanceInitialize(i) \/ PropertiesFail(i) \/ CudaStreamFails(i)
             \/ HostPolicyUnexpected(i) \/ HostPolicyFails(i) \/ InstanceSetStateFails(i)
             \/ ModelInstanceFinalize(i)
      PROVE  pc # "complete" /\ UNCHANGED control
    BY <1>9 DEF ModelInstanceInitialize, PropertiesFail, CudaStreamFails, HostPolicyUnexpected,
                HostPolicyFails, InstanceSetStateFails, ModelInstanceFinalize, ToInitialize,
                InitializeFails
<1>10. ASSUME NEW s \in {"volume", "single"}, NEW l \in Limits, LoadStrategy(s, l)
       PROVE  pc # "complete" /\ UNCHANGED control
    BY <1>10 DEF LoadStrategy
<1> HIDE DEF ControlInv, InstancesUnchanged, loadVars
<1> QED BY <1>1, <1>3, <1>4, <1>5, <1>6, <1>7, <1>8, <1>9, <1>10 DEF Next

(***************************************************************************)
(* A control is found, with its tensor and datatype, if and only if the    *)
(* configuration has it the way the library asks for: whatever the control *)
(* inputs are and however many there are of them.                          *)
(***************************************************************************)
THEOREM ControlsConfigured == Spec => []ControlsAsConfigured
<1>1. Spec => []ControlInv
    BY ControlInit, ControlNext, PTL DEF Spec
<1>2. TypeOK /\ ControlInv => ControlsAsConfigured
    <2> SUFFICES ASSUME TypeOK, ControlInv, control.kind # "none" PROVE ControlsAsConfigured
        BY DEF ControlsAsConfigured
    <2> DEFINE s == model_config.control_input
               r == control.result
               found == Matches(control.kind)
    <2>1. model_config \in Configs
        BY DEF TypeOK
    <2>2. ControlInputs(s)
        BY <2>1, ConfigsAssumption DEF ControlInputs
    <2>3. /\ control.required \in BOOLEAN /\ control.typed \in BOOLEAN
          /\ r = SequenceControl(model_config, control.kind, control.required, control.typed)
        <3>1. NoControl.kind = "none"
            BY DEF NoControl
        <3>2. control # NoControl
            BY <3>1
        <3> QED BY <3>2 DEF ControlInv
    <2>4. LookedUp(r, s, control.kind, control.required, control.typed)
        BY <2>2, <2>3, LookUpFacts
    <2>5. found = FoundIn(s, control.kind, Before(s, Len(s)))
        BY <2>2, MatchesFound
    <2>6. DOMAIN s = 1 .. Len(s)
        BY <2>2, RangeSeq DEF ControlInputs
    <2> HIDE DEF s, r, found
    <2>7. /\ ~r.error <=>
                 /\ \A j \in DOMAIN s : s[j].name # ""
                 /\ \A j, k \in DOMAIN s : s[j].name = s[k].name => j = k
                 /\ \A x, y \in found : x = y
                 /\ control.required => found # {}
                 /\ \A x \in found : GoodControl(ControlAt(s, x), control.typed)
          /\ ~r.error => \A x \in found :
                 /\ r.tensor_name = s[x[1]].name
                 /\ r.tensor_datatype = DatatypeOf(ControlAt(s, x), control.typed)
          /\ ~r.error /\ found = {} => r.tensor_name = ""
        BY <2>4, <2>5, <2>6 DEF LookedUp, NamesGood, FoundGood
    <2> QED BY <2>7 DEF ControlsAsConfigured, s, r, found, ControlAt, DatatypeOf
<1>3. MembersAsParsed => TypeOK
    BY DEF MembersAsParsed
<1> QED BY <1>1, <1>2, <1>3, MembersParsed, PTL
=============================================================================

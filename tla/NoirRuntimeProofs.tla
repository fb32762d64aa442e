--------------------------- MODULE NoirRuntimeProofs ---------------------------
(***************************************************************************)
(* Proofs about NoirRuntime: for every set of versions and of workers, no  *)
(* proof goes out with another key than its circuit's.                     *)
(***************************************************************************)
EXTENDS NoirRuntime, TLAPS

(* The order in which the files are written is what makes their dates mean *)
(* something: recent fields were begun after a key that is complete.       *)
KeyBeforeFields ==
  vkFields.recent =>
    /\ vk.recent /\ vk.content = artifact /\ artifact \in Circuit
    /\ vkFields.content \in {artifact, Torn}

(* Where the boot is, and what it has already made sure of.                *)
BootOrder ==
  /\ sys = "compiling" => ~vkFields.recent
  /\ sys = "load" => artifact \in Circuit
  /\ sys \in {"stat", "writeVk", "writingVk", "writeFields", "writingFields", "readKey",
              "slots", "up"} =>
       artifact \in Circuit /\ runtime.program = artifact
  /\ sys \in {"writeVk", "writingVk"} => ~vkFields.recent
  /\ sys \in {"writeFields", "writingFields"} => vk = [content |-> artifact, recent |-> TRUE]
  /\ sys = "readKey" => vkCached
  /\ sys \in {"slots", "up"} => runtime.key = artifact /\ runtime.inputs = artifact

(* What a worker is doing, it does in the daemon that is up.               *)
OnlyWhenUp == sys # "up" => failed = {} /\ \A w \in Worker : step[w] = "idle"

(* A slot that has failed a proof is not in place any more.                *)
FailedSlotGone == \A w \in failed : slots[w] = "none" /\ step[w] \in {"idle", "slot"}

IInv == TypeOK /\ KeyBeforeFields /\ BootOrder /\ OnlyWhenUp /\ FailedSlotGone /\ KeyFitsProof

Facts == KeyBeforeFields /\ BootOrder /\ OnlyWhenUp /\ FailedSlotGone

USE CircuitAssumption, TornAssumption DEF CircuitAssumption, TornAssumption

LEMMA InitIInv == Init => IInv
<1> SUFFICES ASSUME Init PROVE IInv
  OBVIOUS
<1>1. TypeOK
  BY DEF Init, TypeOK, Missing, File, Content, NoRuntime, NoProof
<1>2. KeyBeforeFields /\ BootOrder /\ OnlyWhenUp /\ FailedSlotGone
  BY DEF Init, KeyBeforeFields, BootOrder, OnlyWhenUp, FailedSlotGone, Missing
<1>3. KeyFitsProof
  BY DEF Init, KeyFitsProof
<1>4. QED
  BY <1>1, <1>2, <1>3 DEF IInv

(* Types, action by action.                                                *)
LEMMA TypeKept ==
  ASSUME TypeOK, [Next]_vars
  PROVE  TypeOK'
<1> USE DEF TypeOK, Content, File, Goto, files, workers
<1>1. CASE Update
  BY <1>1 DEF Update
<1>2. CASE Crash
  BY <1>2 DEF Crash, Forget, NoRuntime
<1>3. CASE Restart \/ WarmedUp \/ Stat
  BY <1>3 DEF Restart, WarmedUp, Stat, Boot
<1>4. CASE Compile \/ Compiled
  <2>1. CASE Compile
    BY <2>1 DEF Compile, Outdate, Boot
  <2>2. CASE Compiled
    BY <2>2 DEF Compiled, Outdate, Boot
  <2>3. QED
    BY <1>4, <2>1, <2>2
<1>5. CASE LoadProgram \/ ReadKey
  <2>1. CASE LoadProgram
    BY <2>1 DEF LoadProgram, Boot
  <2>2. CASE ReadKey
    BY <2>2 DEF ReadKey, Boot
  <2>3. QED
    BY <1>5, <2>1, <2>2
<1>6. CASE WriteVk \/ WriteFields
  <2>1. sys' \in Boot /\ UNCHANGED <<source, artifact, runtime, workers>>
    BY <1>6 DEF WriteVk, WriteFields, Boot
  <2>2. \A c \in Content : [content |-> c, recent |-> TRUE] \in File
    OBVIOUS
  <2>3. vk' \in File /\ vkFields' \in File
    BY <1>6, <2>2 DEF WriteVk, WriteFields
  <2>4. QED
    BY <2>1, <2>3
<1>7. CASE ParseFails
  BY <1>7 DEF ParseFails, Forget, NoRuntime
<1>8. CASE \E w \in Worker : WarmSlot(w)
  BY <1>8 DEF WarmSlot
<1>9. CASE \E w \in Worker : WorkerStep(w) \/ SlotInitFails(w)
  <2> PICK w \in Worker : WorkerStep(w) \/ SlotInitFails(w)
    BY <1>9
  <2>1. CASE TakeJob(w) \/ Execute(w) \/ SlotInitFails(w)
    BY <2>1 DEF TakeJob, Execute, SlotInitFails, Move
  <2>2. CASE getNoirRuntimeSlot(w)
    <3>1. /\ UNCHANGED <<source, files, sys, runtime, made>> /\ Move(w, "execute")
          /\ slots' = slots \/ slots' = [slots EXCEPT ![w] = "ready"]
          /\ failed' = failed \/ failed' = failed \ {w}
      BY <2>2 DEF getNoirRuntimeSlot
    <3>2. QED
      BY <3>1 DEF Move
  <2>3. CASE Prove(w)
    <3>1. [circuit |-> artifact, key |-> runtime.key, inputs |-> runtime.inputs]
            \in [circuit : Content, key : Content, inputs : Content]
      OBVIOUS
    <3>2. QED
      BY <2>3, <3>1 DEF Prove, Move
  <2>4. CASE ProveFails(w)
    BY <2>4 DEF ProveFails, resetNoirRuntimeSlot, Move
  <2>5. QED
    BY <2>1, <2>2, <2>3, <2>4 DEF WorkerStep
<1>10. CASE UNCHANGED vars
  BY <1>10 DEF vars
<1>11. QED
  BY <1>1, <1>2, <1>3, <1>4, <1>5, <1>6, <1>7, <1>8, <1>9, <1>10 DEF Next, BootStep

(* What keeps the files and the place of the boot and all of the workers   *)
(* keeps everything that is said about them.                               *)
LEMMA BootFactsKept ==
  ASSUME KeyBeforeFields, BootOrder, UNCHANGED <<files, sys, runtime>>
  PROVE  KeyBeforeFields' /\ BootOrder'
BY DEF KeyBeforeFields, BootOrder, files, vkCached

(* No step of the boot has a worker do anything.                           *)
LEMMA BootKeepsWorkers ==
  ASSUME IInv, sys # "up", UNCHANGED workers
  PROVE  OnlyWhenUp' /\ FailedSlotGone' /\ KeyFitsProof'
BY DEF IInv, OnlyWhenUp, FailedSlotGone, KeyFitsProof, workers

(* A daemon that is down has neither a runtime nor a worker at work, and   *)
(* says nothing about the files but in which order they were written.      *)
LEMMA ForgetKeeps ==
  ASSUME IInv, Forget, UNCHANGED <<files, made>>
  PROVE  Facts' /\ KeyFitsProof'
<1>1. KeyBeforeFields'
  BY DEF IInv, KeyBeforeFields, files
<1>2. BootOrder'
  BY DEF Forget, BootOrder
<1>3. OnlyWhenUp'
  BY DEF Forget, OnlyWhenUp, TypeOK, IInv
<1>4. FailedSlotGone'
  BY DEF Forget, FailedSlotGone
<1>5. KeyFitsProof'
  BY DEF IInv, KeyFitsProof
<1>6. QED
  BY <1>1, <1>2, <1>3, <1>4, <1>5 DEF Facts

(* The boot: an artifact that changes takes the dates of both files of the *)
(* key with it, the key is complete before its fields are begun, and it is *)
(* read only after both.                                                   *)
LEMMA BootKeeps ==
  ASSUME IInv,
         Restart \/ Compile \/ Compiled \/ LoadProgram \/ Stat \/ WriteVk \/ WriteFields
           \/ ReadKey \/ WarmedUp
  PROVE  Facts' /\ KeyFitsProof'
<1> USE DEF IInv, TypeOK, Goto, files
<1>1. KeyBeforeFields' /\ BootOrder'
  <2> USE DEF KeyBeforeFields, BootOrder, vkCached
  <2>1. CASE Restart \/ WarmedUp \/ Stat
    BY <2>1 DEF Restart, WarmedUp, Stat
  <2>2. CASE Compile
    BY <2>2 DEF Compile, Outdate, File
  <2>3. CASE Compiled
    BY <2>3 DEF Compiled
  <2>4. CASE LoadProgram
    BY <2>4 DEF LoadProgram, Unreadable, Content
  <2>5. CASE WriteVk \/ WriteFields
    BY <2>5 DEF WriteVk, WriteFields
  <2>6. CASE ReadKey
    BY <2>6 DEF ReadKey, Unreadable
  <2>7. QED
    BY <2>1, <2>2, <2>3, <2>4, <2>5, <2>6
<1>2. sys # "up" /\ UNCHANGED workers
  BY DEF Restart, WarmedUp, Stat, Compile, Compiled, LoadProgram, WriteVk, WriteFields, ReadKey
<1>3. QED
  BY <1>1, <1>2, BootKeepsWorkers DEF Facts

(* The workers: what a slot has failed, the next job initialises again,    *)
(* and a proof takes the key of the boot with the circuit of the boot.     *)
LEMMA WorkersKeep ==
  ASSUME IInv, NEW w \in Worker, WorkerStep(w) \/ SlotInitFails(w)
  PROVE  Facts' /\ KeyFitsProof'
<1> USE DEF IInv, TypeOK, At
<1>1. sys = "up" /\ UNCHANGED <<files, sys, runtime>>
  BY DEF WorkerStep, TakeJob, getNoirRuntimeSlot, Execute, Prove, ProveFails, SlotInitFails
<1>2. KeyBeforeFields' /\ BootOrder' /\ OnlyWhenUp'
  BY <1>1, BootFactsKept DEF OnlyWhenUp
<1>3. CASE TakeJob(w) \/ Execute(w) \/ SlotInitFails(w)
  <2>1. FailedSlotGone'
    BY <1>3 DEF TakeJob, Execute, SlotInitFails, Move, FailedSlotGone
  <2>2. KeyFitsProof'
    BY <1>3 DEF TakeJob, Execute, SlotInitFails, KeyFitsProof
  <2>3. QED
    BY <1>2, <2>1, <2>2 DEF Facts
<1>4. CASE getNoirRuntimeSlot(w)
  <2>1. FailedSlotGone'
    BY <1>4 DEF getNoirRuntimeSlot, Move, FailedSlotGone
  <2>2. KeyFitsProof'
    BY <1>4 DEF getNoirRuntimeSlot, KeyFitsProof
  <2>3. QED
    BY <1>2, <2>1, <2>2 DEF Facts
<1>5. CASE Prove(w)
  <2>1. FailedSlotGone'
    BY <1>5 DEF Prove, Move, FailedSlotGone
  <2>2. artifact \in Circuit /\ runtime.key = artifact /\ runtime.inputs = artifact
    BY <1>1 DEF BootOrder
  <2>3. KeyFitsProof'
    BY <1>5, <2>2 DEF Prove, KeyFitsProof
  <2>4. QED
    BY <1>2, <2>1, <2>3 DEF Facts
<1>6. CASE ProveFails(w)
  <2>1. FailedSlotGone'
    BY <1>6 DEF ProveFails, resetNoirRuntimeSlot, Move, FailedSlotGone
  <2>2. KeyFitsProof'
    BY <1>6 DEF ProveFails, KeyFitsProof
  <2>3. QED
    BY <1>2, <2>1, <2>2 DEF Facts
<1>7. QED
  BY <1>3, <1>4, <1>5, <1>6 DEF WorkerStep

LEMMA StepIInv == IInv /\ [Next]_vars => IInv'
<1> SUFFICES ASSUME IInv, [Next]_vars PROVE IInv'
  OBVIOUS
<1>1. TypeOK'
  BY TypeKept DEF IInv
<1>2. Facts' /\ KeyFitsProof'
  <2>1. CASE Update \/ UNCHANGED vars
    <3>1. UNCHANGED <<files, sys, runtime, workers>>
      BY <2>1 DEF Update, vars
    <3>2. KeyBeforeFields' /\ BootOrder'
      BY <3>1, BootFactsKept DEF IInv
    <3>3. OnlyWhenUp' /\ FailedSlotGone' /\ KeyFitsProof'
      BY <3>1 DEF workers, IInv, OnlyWhenUp, FailedSlotGone, KeyFitsProof
    <3>4. QED
      BY <3>2, <3>3 DEF Facts
  <2>2. CASE Crash \/ ParseFails
    BY <2>2, ForgetKeeps DEF Crash, ParseFails
  <2>3. CASE \E w \in Worker : WarmSlot(w)
    <3> PICK w \in Worker : WarmSlot(w)
      BY <2>3
    <3>1. KeyBeforeFields' /\ BootOrder'
      BY BootFactsKept DEF WarmSlot, IInv, files
    <3>2. OnlyWhenUp' /\ KeyFitsProof'
      BY DEF WarmSlot, IInv, OnlyWhenUp, KeyFitsProof
    <3>3. FailedSlotGone'
      BY DEF WarmSlot, IInv, OnlyWhenUp, FailedSlotGone
    <3>4. QED
      BY <3>1, <3>2, <3>3 DEF Facts
  <2>4. CASE \E w \in Worker : WorkerStep(w) \/ SlotInitFails(w)
    BY <2>4, WorkersKeep
  <2>5. CASE Restart \/ Compile \/ Compiled \/ LoadProgram \/ Stat \/ WriteVk
             \/ WriteFields \/ ReadKey \/ WarmedUp
    BY <2>5, BootKeeps
  <2>6. QED
    BY <2>1, <2>2, <2>3, <2>4, <2>5 DEF Next, BootStep
<1>3. QED
  BY <1>1, <1>2 DEF IInv, Facts

THEOREM InvariantHolds == Spec => []IInv
<1>1. Init => IInv
  BY InitIInv
<1>2. IInv /\ [Next]_vars => IInv'
  BY StepIInv
<1>3. QED
  BY <1>1, <1>2, PTL DEF Spec

(* No proof goes out with the key of another version of the circuit or a   *)
(* torn one, whatever boots were killed (runtime.ts:178-189).              *)
THEOREM ProofsWithTheirKey == Spec => []KeyFitsProof
<1>1. IInv => KeyFitsProof
  BY DEF IInv
<1>2. QED
  BY <1>1, InvariantHolds, PTL

(* No job runs on a slot that has failed a proof (runtime.ts:430).         *)
THEOREM FailedSlotsReplaced == Spec => []FailedSlotReplaced
<1>1. IInv => FailedSlotReplaced
  BY DEF IInv, FailedSlotGone, FailedSlotReplaced
<1>2. QED
  BY <1>1, InvariantHolds, PTL

(* Every reachable state of the runtime is well typed.                     *)
THEOREM TypeCorrect == Spec => []TypeOK
<1>1. IInv => TypeOK
  BY DEF IInv
<1>2. QED
  BY <1>1, InvariantHolds, PTL
================================================================================

------------------------------ MODULE NoirRuntime ------------------------------
(***************************************************************************)
(* The runtime of the noir stage: what a boot of the daemon compiles,      *)
(* writes and reads before the pipelines start, what it keeps in memory    *)
(* for good, and the proving slots of the workers.                         *)
(*                                                                         *)
(* The compiled circuit and its verification key are files that survive    *)
(* the daemon.  nargo and bb write them in place, so a daemon that is      *)
(* killed leaves them torn, and the next boot decides by their dates which *)
(* of them it may use.  For a file only the comparison with the date of    *)
(* the compiled circuit matters: "recent" means not older than it.         *)
(***************************************************************************)
EXTENDS Naturals

CONSTANTS
  Circuit,  \* versions of the circuit's source
  Worker,   \* noir workers, each with the proving slot of its number
  Torn,     \* the content of a file that was being written
  None

ASSUME CircuitAssumption == Circuit # {} /\ Torn \notin Circuit /\ None \notin Circuit
ASSUME TornAssumption == Torn # None

Boot == {"compile", "compiling", "load", "stat", "writeVk", "writingVk", "writeFields",
         "writingFields", "readKey", "slots"}
Content == Circuit \cup {Torn, None}
File == [content : Content, recent : BOOLEAN]
Missing == [content |-> None, recent |-> FALSE]

VARIABLES
  source,    \* circuit/src: the version in the working directory
  artifact,  \* circuit/target/circuit.json: of which version
  vk,        \* circuit/target/vk
  vkFields,  \* circuit/target/vk_fields.json
  sys,       \* down, a step of the boot, or up
  runtime,   \* sharedRuntimePromise: the program, the key and the input count in memory
  slots,     \* slotRuntimePromises: none, or a promise that resolves
  step,      \* where in runProofPipeline a worker is
  made,      \* the last proof a worker returned: of which circuit, with which key
  failed     \* history: workers whose slot has failed a proof since it was initialised

files == <<artifact, vk, vkFields>>
workers == <<slots, step, made, failed>>
vars == <<source, files, sys, runtime, workers>>

NoRuntime == [program |-> None, key |-> None, inputs |-> None]
NoProof == [circuit |-> None, key |-> None, inputs |-> None]

TypeOK ==
  /\ source \in Circuit
  /\ artifact \in Content
  /\ vk \in File /\ vkFields \in File
  /\ sys \in {"down", "up"} \cup Boot
  /\ runtime \in [program : Content, key : Content, inputs : Content]
  /\ slots \in [Worker -> {"none", "ready"}]
  /\ step \in [Worker -> {"idle", "slot", "execute", "prove"}]
  /\ made \in [Worker -> [circuit : Content, key : Content, inputs : Content]]
  /\ failed \subseteq Worker

Init ==
  /\ source \in Circuit
  /\ artifact = None /\ vk = Missing /\ vkFields = Missing
  /\ sys = "down"
  /\ runtime = NoRuntime
  /\ slots = [w \in Worker |-> "none"]
  /\ step = [w \in Worker |-> "idle"]
  /\ made = [w \in Worker |-> NoProof]
  /\ failed = {}

Goto(s) == sys' = s

-----------------------------------------------------------------------------
(* Around the daemon.                                                      *)

(* A new version of the circuit is checked out, at any time.               *)
Update ==
  /\ \E c \in Circuit \ {source} : source' = c
  /\ UNCHANGED <<files, sys, runtime, workers>>

Forget ==
  /\ sys' = "down"
  /\ runtime' = NoRuntime
  /\ slots' = [w \in Worker |-> "none"]
  /\ step' = [w \in Worker |-> "idle"]
  /\ failed' = {}

(* What the boot is about to read is torn: JSON.parse will throw.          *)
Unreadable ==
  \/ sys = "load" /\ artifact = Torn
  \/ sys = "readKey" /\ vkFields.content = Torn

(* The daemon is killed, or a step of the boot rejects: process.exit(1).   *)
(* Where ParseFails is due it is the same, and is left to it.              *)
Crash ==
  /\ sys # "down"
  /\ ~Unreadable
  /\ Forget
  /\ UNCHANGED <<source, files, made>>

Restart ==
  /\ sys = "down"
  /\ Goto("compile")
  /\ UNCHANGED <<source, files, runtime, workers>>

-----------------------------------------------------------------------------
(* initSharedNoirRuntime.                                                  *)

(* A new date of circuit.json: neither file of the key is recent any more. *)
Outdate ==
  /\ vk' = [vk EXCEPT !.recent = FALSE]
  /\ vkFields' = [vkFields EXCEPT !.recent = FALSE]

(* Mutant: compiles only if there is no circuit.json.                      *)
CompileIfMissing ==
  /\ sys = "compile"
  /\ \/ artifact # None /\ Goto("load") /\ UNCHANGED files
     \/ artifact = None /\ Goto("compiling") /\ artifact' = Torn /\ Outdate
  /\ UNCHANGED <<source, runtime, workers>>

(* nargo compile: what is up to date it may leave alone or write again.    *)
Compile ==
  /\ sys = "compile"
  /\ \/ artifact = source /\ Goto("load") /\ UNCHANGED files
     \/ Goto("compiling") /\ artifact' = Torn /\ Outdate
  /\ UNCHANGED <<source, runtime, workers>>

Compiled ==
  /\ sys = "compiling"
  /\ artifact' = source
  /\ Goto("load")
  /\ UNCHANGED <<source, vk, vkFields, runtime, workers>>

(* The program is read back from circuit.json.                             *)
LoadProgram ==
  /\ sys = "load"
  /\ ~Unreadable
  /\ runtime' = [runtime EXCEPT !.program = artifact]
  /\ Goto("stat")
  /\ UNCHANGED <<source, files, workers>>

(* Mutant: only the date of the key itself is looked at.                   *)
vkCachedByKey == vk.recent /\ vkFields.content # None

vkCached == vk.recent /\ vkFields.recent

Stat ==
  /\ sys = "stat"
  /\ Goto(IF vkCached THEN "readKey" ELSE "writeVk")
  /\ UNCHANGED <<source, files, runtime, workers>>

(* bb write_vk, bytes_and_fields: first the key, then its fields.          *)
WriteVk ==
  /\ \/ sys = "writeVk" /\ Goto("writingVk")
          /\ vk' = [content |-> Torn, recent |-> TRUE]
     \/ sys = "writingVk" /\ Goto("writeFields")
          /\ vk' = [content |-> artifact, recent |-> TRUE]
  /\ UNCHANGED <<source, artifact, vkFields, runtime, workers>>

WriteFields ==
  /\ \/ sys = "writeFields" /\ Goto("writingFields")
          /\ vkFields' = [content |-> Torn, recent |-> TRUE]
     \/ sys = "writingFields" /\ Goto("readKey")
          /\ vkFields' = [content |-> artifact, recent |-> TRUE]
  /\ UNCHANGED <<source, artifact, vk, runtime, workers>>

(* The key is read as bytes, whatever they are; the fields are parsed.     *)
ReadKey ==
  /\ sys = "readKey"
  /\ ~Unreadable
  /\ runtime' = [runtime EXCEPT !.key = vk.content, !.inputs = vkFields.content]
  /\ Goto("slots")
  /\ UNCHANGED <<source, files, workers>>

(* The boot fails on a torn file.                                          *)
ParseFails ==
  /\ Unreadable
  /\ Forget
  /\ UNCHANGED <<source, files, made>>

(* warmupNoirRuntime initialises every slot, then the pipelines start.     *)
WarmSlot(w) ==
  /\ sys = "slots"
  /\ slots[w] = "none"
  /\ slots' = [slots EXCEPT ![w] = "ready"]
  /\ UNCHANGED <<source, files, sys, runtime, step, made, failed>>

WarmedUp ==
  /\ sys = "slots"
  /\ \A w \in Worker : slots[w] = "ready"
  /\ Goto("up")
  /\ UNCHANGED <<source, files, runtime, workers>>

-----------------------------------------------------------------------------
(* runProofPipeline, for a worker and the slot of its number.              *)

At(w, s) == sys = "up" /\ step[w] = s
Move(w, s) == step' = [step EXCEPT ![w] = s]

TakeJob(w) ==
  /\ At(w, "idle")
  /\ Move(w, "slot")
  /\ UNCHANGED <<source, files, sys, runtime, slots, made, failed>>

(* Mutant: the promise of a slot that failed to initialise stays.          *)
SlotInitFailsKept(w) ==
  /\ At(w, "slot")
  /\ slots[w] # "ready"
  /\ slots' = [slots EXCEPT ![w] = "rejected"]
  /\ Move(w, "idle")
  /\ UNCHANGED <<source, files, sys, runtime, made, failed>>

(* The promise rejects, because noir.init() does: the slot is cleared and  *)
(* the job fails.                                                          *)
SlotInitFails(w) ==
  /\ At(w, "slot")
  /\ slots[w] # "ready"
  /\ Move(w, "idle")
  /\ UNCHANGED <<source, files, sys, runtime, slots, made, failed>>

(* The slot's promise, or a new one.                                       *)
getNoirRuntimeSlot(w) ==
  /\ At(w, "slot")
  /\ \/ slots[w] = "ready" /\ Move(w, "execute") /\ UNCHANGED <<slots, failed>>
     \/ slots[w] = "none" /\ Move(w, "execute")
          /\ slots' = [slots EXCEPT ![w] = "ready"]
          /\ failed' = failed \ {w}
  /\ UNCHANGED <<source, files, sys, runtime, made>>

(* noir.execute solves the witness of the program in memory, or the        *)
(* circuit rejects the inputs: a PermanentTaskError.                       *)
Execute(w) ==
  /\ At(w, "execute")
  /\ \/ Move(w, "prove")
     \/ Move(w, "idle")
  /\ UNCHANGED <<source, files, sys, runtime, slots, made, failed>>

(* bb prove reads circuit.json again; the proof goes out with the key that *)
(* was read at boot.                                                       *)
Prove(w) ==
  /\ At(w, "prove")
  /\ artifact = runtime.program
  /\ made' = [made EXCEPT ![w] = [circuit |-> artifact, key |-> runtime.key,
                                  inputs |-> runtime.inputs]]
  /\ Move(w, "idle")
  /\ UNCHANGED <<source, files, sys, runtime, slots, failed>>

(* Mutant: the slot is reset only if the prover left nothing behind.       *)
resetSometimes(w) ==
  \/ slots' = [slots EXCEPT ![w] = "none"]
  \/ UNCHANGED slots

resetNoirRuntimeSlot(w) == slots' = [slots EXCEPT ![w] = "none"]

(* bb fails, or what it wrote does not pass the checks.                    *)
ProveFails(w) ==
  /\ At(w, "prove")
  /\ resetNoirRuntimeSlot(w)
  /\ failed' = failed \cup {w}
  /\ Move(w, "idle")
  /\ UNCHANGED <<source, files, sys, runtime, made>>

-----------------------------------------------------------------------------
BootStep ==
  \/ Restart \/ Compile \/ Compiled \/ LoadProgram \/ Stat \/ WriteVk \/ WriteFields
  \/ ReadKey \/ ParseFails \/ WarmedUp
  \/ \E w \in Worker : WarmSlot(w)

WorkerStep(w) ==
  TakeJob(w) \/ getNoirRuntimeSlot(w) \/ Execute(w) \/ Prove(w) \/ ProveFails(w)

Next ==
  \/ Update
  \/ Crash
  \/ BootStep
  \/ \E w \in Worker : WorkerStep(w) \/ SlotInitFails(w)

Spec == Init /\ [][Next]_vars

(* Docker restarts the daemon, its boot goes on, there is always another   *)
(* window to prove, and nargo, bb and noir_js do not hang.                 *)
FairSpec ==
  /\ Spec
  /\ WF_vars(BootStep)
  /\ \A w \in Worker : WF_vars(WorkerStep(w))

-----------------------------------------------------------------------------
(* Properties.                                                             *)

(* A proof goes out with the key, and was checked with the input count, of *)
(* the very circuit it is of: whatever boots were killed and whatever      *)
(* versions came in between, no key of another version and no torn key is  *)
(* taken for recent (runtime.ts:177, "Reuse cached VK unless circuit.json  *)
(* was recompiled or fields output is missing").                           *)
KeyFitsProof ==
  \A w \in Worker :
    made[w] # NoProof =>
      made[w].circuit \in Circuit /\ made[w].key = made[w].circuit
        /\ made[w].inputs = made[w].circuit

(* No job is executed on a slot that has failed a proof since it was       *)
(* initialised.                                                            *)
FailedSlotReplaced == \A w \in Worker : step[w] \in {"execute", "prove"} => w \notin failed

(* The one thing a later boot does not repair: the daemon was killed while *)
(* vk_fields.json was being written.  Both files of the key are then       *)
(* recent, and reading them throws.                                        *)
BlockedByFields == vkCached /\ vkFields.content = Torn

(* Once nothing kills the daemon any more, it comes up and stays up, with  *)
(* whatever files the killed boots have left, except those.                *)
WarmsUp == <>[][~Crash]_vars => <>[](sys = "up" \/ BlockedByFields)

(* A slot that failed to prove or to initialise is initialised again: once *)
(* the daemon stays up and noir_js answers, the worker proves.             *)
SlotsReturn ==
  \A w \in Worker :
    <>[](sys = "up") /\ <>[][~SlotInitFails(w)]_vars => []<>(step[w] = "execute")
=============================================================================

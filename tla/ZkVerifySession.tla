--------------------------- MODULE ZkVerifySession ---------------------------
(***************************************************************************)
(* The shared zkVerify session and the registration of the verification    *)
(* key.  One worker submits proofs, one at a time; the session it uses is  *)
(* a promise shared with the handlers of 'disconnected' events, which run  *)
(* between any two of its awaits and may be late: a session that has been  *)
(* closed and replaced still reports its own end.                          *)
(*                                                                         *)
(* The key is registered once per chain; the document that remembers it is *)
(* written after the chain's answer, and the daemon may die in between.    *)
(***************************************************************************)
EXTENDS FiniteSets, Naturals

CONSTANTS
  Session,   \* identities of sessions; one nobody refers to is used again
  None,
  Drift,     \* computeStatementHash disagrees with the chain
  MaxLeaks   \* bound: sessions whose close() failed at the same time

ASSUME SessionAssumption == None \notin Session
ASSUME ConstantAssumption == Drift \in BOOLEAN /\ MaxLeaks \in Nat

VARIABLES
  conn,            \* session -> its connection
  sessionPromise,  \* the shared session
  events,          \* sessions with a 'disconnected' event not yet handled
  closing,         \* sessions with a close() under way
  leaked,          \* sessions whose close() failed
  step,            \* where runZkVerifyProcessor is, between two awaits
  session,         \* the session it has, and (as `owner`) answers for
  answer,          \* the statement hash registerOnChain returns
  onChain,         \* the chain has the key
  row,             \* the hash of the registered_vk document
  unheard          \* history: the chain's answer never reached this database

sessions == <<conn, sessionPromise, events, closing, leaked>>
registry == <<answer, onChain, row, unheard>>
vars == <<sessions, step, session, registry>>

Steps == {"idle", "reopen", "opening", "find", "register", "persist",
          "execute", "wait", "giveUp"}

(* A hash is the chain's or computeStatementHash's; the two are one unless *)
(* the formula has drifted.                                                *)
Hash == {"chain", "derived"}
ASSUME HashAssumption == None \notin Hash
Right(h) == h = "chain" \/ ~Drift

TypeOK ==
  /\ conn \in [Session -> {"unused", "opening", "up", "down", "closed"}]
  /\ sessionPromise \in Session \cup {None}
  /\ sessionPromise # None => conn[sessionPromise] \in {"opening", "up", "down"}
  /\ events \subseteq Session /\ closing \subseteq Session /\ leaked \subseteq Session
  /\ step \in Steps
  /\ session \in Session \cup {None}
  /\ step # "idle" => session # None /\ conn[session] # "unused"
  /\ answer \in Hash \cup {None}
  /\ onChain \in BOOLEAN
  /\ row \in Hash \cup {None}
  /\ unheard \in BOOLEAN

Init ==
  /\ conn = [s \in Session |-> "unused"]
  /\ sessionPromise = None
  /\ events = {} /\ closing = {} /\ leaked = {}
  /\ step = "idle" /\ session = None
  /\ answer = None
  /\ onChain = FALSE
  /\ row = None
  /\ unheard = FALSE

-----------------------------------------------------------------------------
(* The shared session.                                                     *)

(* Mutant: without the owner check.                                        *)
invalidateCurrent(s) ==
  /\ sessionPromise' = None
  /\ closing' = closing \cup {s}

(* Only the owner's session is dropped, and it is closed.                  *)
invalidate(s) ==
  IF sessionPromise = s
  THEN sessionPromise' = None /\ closing' = closing \cup {s}
  ELSE UNCHANGED <<sessionPromise, closing>>

(* getSession, with a session that is still connected.                     *)
Reuse ==
  /\ step = "idle"
  /\ sessionPromise # None /\ conn[sessionPromise] = "up"
  /\ step' = "find" /\ session' = sessionPromise
  /\ UNCHANGED <<sessions, registry>>

(* Mutant: the stale session is forgotten, not closed.                     *)
DropUnclosed ==
  /\ step = "idle"
  /\ sessionPromise # None /\ conn[sessionPromise] # "up"
  /\ sessionPromise' = None
  /\ step' = "reopen" /\ session' = None
  /\ UNCHANGED <<conn, events, closing, leaked, registry>>

(* Mutant: isConnected is not looked at.                                   *)
UseUnconnected ==
  /\ step = "idle"
  /\ sessionPromise # None /\ conn[sessionPromise] # "up"
  /\ step' = "find" /\ session' = sessionPromise
  /\ UNCHANGED <<sessions, registry>>

(* getSession, with one that is not: it is dropped, and its close awaited. *)
DropStale ==
  /\ step = "idle"
  /\ sessionPromise # None /\ conn[sessionPromise] # "up"
  /\ invalidate(sessionPromise)
  /\ step' = "reopen" /\ session' = sessionPromise
  /\ UNCHANGED <<conn, events, leaked, registry>>

Open ==
  /\ \/ step = "idle" /\ sessionPromise = None
     \/ step = "reopen" /\ session \notin closing
  /\ \E s \in Session :
       /\ conn[s] = "unused"
       /\ conn' = [conn EXCEPT ![s] = "opening"]
       /\ sessionPromise' = s /\ session' = s
  /\ step' = "opening"
  /\ UNCHANGED <<events, closing, leaked, registry>>

(* The handler is attached once the session is there: a connection lost    *)
(* before that is lost without an event.                                   *)
Opened ==
  /\ step = "opening"
  /\ \E c \in {"up", "down"} : conn' = [conn EXCEPT ![session] = c]
  /\ step' = "find"
  /\ UNCHANGED <<sessionPromise, events, closing, leaked, session, registry>>

(* Mutant: the rejected promise stays the shared one.                      *)
OpenFailsKept ==
  /\ step = "opening"
  /\ conn' = [conn EXCEPT ![session] = "unused"]
  /\ step' = "idle" /\ session' = None
  /\ UNCHANGED <<sessionPromise, events, closing, leaked, registry>>

OpenFails ==
  /\ step = "opening"
  /\ conn' = [conn EXCEPT ![session] = "unused"]
  /\ sessionPromise' = IF sessionPromise = session THEN None ELSE sessionPromise
  /\ step' = "idle" /\ session' = None
  /\ UNCHANGED <<events, closing, leaked, registry>>

(* A 'disconnected' handler runs.                                          *)
Handle(s) ==
  /\ s \in events
  /\ events' = events \ {s}
  /\ invalidate(s)
  /\ UNCHANGED <<conn, leaked, step, session, registry>>

CloseDone(s) ==
  /\ s \in closing
  /\ closing' = closing \ {s}
  /\ conn' = [conn EXCEPT ![s] = "closed"]
  /\ events' = IF conn[s] = "up" THEN events \cup {s} ELSE events
  /\ UNCHANGED <<sessionPromise, leaked, step, session, registry>>

(* invalidate only warns.                                                  *)
CloseFails(s) ==
  /\ s \in closing
  /\ Cardinality(leaked) < MaxLeaks
  /\ closing' = closing \ {s}
  /\ leaked' = leaked \cup {s}
  /\ UNCHANGED <<conn, sessionPromise, events, step, session, registry>>

(* The provider loses its connection and reconnects by itself until it is  *)
(* closed.                                                                 *)
Drop(s) ==
  /\ conn[s] = "up"
  /\ conn' = [conn EXCEPT ![s] = "down"]
  /\ events' = events \cup {s}
  /\ UNCHANGED <<sessionPromise, closing, leaked, step, session, registry>>

Reconnect(s) ==
  /\ conn[s] = "down" /\ s \notin closing
  /\ conn' = [conn EXCEPT ![s] = "up"]
  /\ UNCHANGED <<sessionPromise, events, closing, leaked, step, session, registry>>

(* Bookkeeping of the model: the identity of a closed session is free.     *)
Forget(s) ==
  /\ conn[s] = "closed"
  /\ s \notin events /\ s # session /\ s # sessionPromise
  /\ conn' = [conn EXCEPT ![s] = "unused"]
  /\ leaked' = leaked \ {s}
  /\ UNCHANGED <<sessionPromise, events, closing, step, session, registry>>

-----------------------------------------------------------------------------
(* The key and the proof.                                                  *)

(* The job ends: with an error, or with the proof's answer.                *)
Leave == step' = "idle" /\ session' = None

Find ==
  /\ step = "find"
  /\ step' = IF row = None THEN "register" ELSE "execute"
  /\ UNCHANGED <<sessions, session, registry>>

Registers ==
  /\ step = "register" /\ conn[session] = "up" /\ ~onChain
  /\ onChain' = TRUE
  /\ answer' = "chain"
  /\ step' = "persist"
  /\ UNCHANGED <<sessions, session, row, unheard>>

(* Mutant: any refusal is taken for "already registered".                  *)
anyError(error) == error \in {"already", "other"}

isAlreadyRegisteredError(error) == error = "already"

(* registerOnChain's catch; an error other than the pallet's says nothing  *)
(* of whether the registration went through.                               *)
RegisterFails ==
  /\ step = "register"
  /\ \E error \in {"already", "other"} :
       /\ error = "already" => onChain /\ conn[session] = "up"
       /\ IF isAlreadyRegisteredError(error)
          THEN answer' = "derived" /\ step' = "persist" /\ UNCHANGED session
          ELSE Leave /\ UNCHANGED answer
       /\ \/ UNCHANGED <<onChain, unheard>>
          \/ /\ error = "other" /\ conn[session] = "up" /\ ~onChain
             /\ onChain' = TRUE /\ unheard' = TRUE
  /\ UNCHANGED <<sessions, row>>

(* Mutant: the drift check comes before the row is written.                *)
CheckThenPersist ==
  /\ step = "persist"
  /\ IF answer = "chain" /\ Drift
     THEN Leave /\ UNCHANGED row
     ELSE step' = "execute" /\ UNCHANGED session /\ row' = IF row = None THEN answer ELSE row
  /\ answer' = None
  /\ UNCHANGED <<sessions, onChain, unheard>>

(* persistRegisteredVk, then the check of the formula.                     *)
Persist ==
  /\ step = "persist"
  /\ row' = IF row = None THEN answer ELSE row
  /\ IF answer = "chain" /\ Drift THEN Leave
                                  ELSE step' = "execute" /\ UNCHANGED session
  /\ answer' = None
  /\ UNCHANGED <<sessions, onChain, unheard>>

PersistFails ==
  /\ step = "persist"
  /\ Leave
  /\ answer' = None
  /\ unheard' = (unheard \/ answer = "chain")
  /\ UNCHANGED <<sessions, onChain, row>>

Execute ==
  /\ step = "execute" /\ conn[session] = "up"
  /\ step' = "wait"
  /\ UNCHANGED <<sessions, session, registry>>

(* The document cannot be read, or execute() throws: nothing is            *)
(* invalidated.                                                            *)
CallFails ==
  /\ step \in {"find", "execute"}
  /\ Leave
  /\ UNCHANGED <<sessions, registry>>

TransactionIncluded ==
  /\ step = "wait" /\ conn[session] = "up"
  /\ Leave
  /\ UNCHANGED <<sessions, registry>>

(* transactionResult is rejected or times out: the owner is invalidated,   *)
(* and its close, if this call began it, awaited.                          *)
TransactionFails ==
  /\ step = "wait"
  /\ invalidate(session)
  /\ IF sessionPromise = session THEN step' = "giveUp" /\ UNCHANGED session ELSE Leave
  /\ UNCHANGED <<conn, events, leaked, registry>>

GiveUp ==
  /\ step = "giveUp" /\ session \notin closing
  /\ Leave
  /\ UNCHANGED <<sessions, registry>>

-----------------------------------------------------------------------------
(* A one-off script registers the same key against another database.       *)
RegisteredElsewhere ==
  /\ ~onChain
  /\ onChain' = TRUE /\ unheard' = TRUE
  /\ UNCHANGED <<sessions, step, session, answer, row>>

(* The daemon dies; it may be started again with a fresh database.         *)
Crash ==
  /\ conn' = [s \in Session |-> "unused"]
  /\ sessionPromise' = None
  /\ events' = {} /\ closing' = {} /\ leaked' = {}
  /\ step' = "idle" /\ session' = None
  /\ answer' = None
  /\ row' \in {row, None}
  /\ unheard' = (unheard \/ answer = "chain" \/ (row # None /\ row' = None))
  /\ UNCHANGED onChain

Runner ==
  \/ Reuse \/ DropStale \/ Open \/ Opened \/ OpenFails
  \/ Find \/ Registers \/ RegisterFails \/ Persist \/ PersistFails
  \/ Execute \/ CallFails \/ TransactionIncluded \/ TransactionFails \/ GiveUp

Socket(s) == Handle(s) \/ CloseDone(s) \/ CloseFails(s) \/ Drop(s) \/ Reconnect(s) \/ Forget(s)

Next ==
  \/ Runner
  \/ \E s \in Session : Socket(s)
  \/ RegisteredElsewhere
  \/ Crash

Spec == Init /\ [][Next]_vars

(* There is always another proof to submit, no call hangs for ever, events *)
(* are handled and closes end.                                             *)
FairSpec ==
  /\ Spec
  /\ WF_vars(Runner)
  /\ \A s \in Session :
       WF_vars(Handle(s)) /\ WF_vars(CloseDone(s) \/ CloseFails(s)) /\ WF_vars(Forget(s))

-----------------------------------------------------------------------------
(* Properties.                                                             *)

(* pipelines/zk-verify/processor.ts:16-17: a late 'disconnected' handler   *)
(* or a late failure never clears a replacement.  The shared session is    *)
(* dropped only when its own connection, event or transaction failed.      *)
ReplacementKept ==
  [][ sessionPromise # None /\ sessionPromise' # sessionPromise =>
        \/ Crash
        \/ conn[sessionPromise] # "up"
        \/ sessionPromise \in events
        \/ step = "wait" /\ session = sessionPromise ]_vars

(* No connection is left behind: one that is open is the shared one, or is *)
(* being closed, or could not be closed.                                   *)
NoConnectionLeft ==
  \A s \in Session :
    conn[s] \in {"up", "down"} => s = sessionPromise \/ s \in closing \/ s \in leaked

(* A key on record is registered: nothing is proved against a key the      *)
(* chain does not have.                                                    *)
KeyIsOnChain == row # None => onChain

(* db/registered-vk-helpers.ts:92-95: a drift of the formula fails at the  *)
(* fresh registration and not as a wrong hash later, unless the chain's    *)
(* answer never reached this database.                                     *)
WrongHashUnheard == row # None /\ ~Right(row) => unheard

(* A session that has lost its connection does not stay the shared one:    *)
(* jobs do not fail on it for ever.                                        *)
DeadSessionReplaced ==
  \A s \in Session : []<>(sessionPromise # s \/ conn[s] \in {"opening", "up"})
=============================================================================

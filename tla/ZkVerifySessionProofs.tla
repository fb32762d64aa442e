------------------------- MODULE ZkVerifySessionProofs -------------------------
(***************************************************************************)
(* Proofs about ZkVerifySession, for any number of sessions and of leaks,  *)
(* and whether or not the formula of the statement hash has drifted.       *)
(***************************************************************************)
EXTENDS ZkVerifySession, TLAPS

(***************************************************************************)
(* What the sessions are: only the runner opens one, and the one it opens  *)
(* is the shared one; an event is of a session that has been connected; a  *)
(* session that is being closed is connected and no longer the shared one. *)
(***************************************************************************)
Opening ==
  /\ \A s \in Session : conn[s] = "opening" => step = "opening" /\ session = s
  /\ step = "opening" => conn[session] = "opening" /\ sessionPromise = session
  /\ step = "reopen" => sessionPromise = None

EventsAreLate == \A s \in events : conn[s] \in {"up", "down", "closed"}

ClosingIsApart == \A s \in closing : conn[s] \in {"up", "down"} /\ s # sessionPromise

SInv == TypeOK /\ Opening /\ EventsAreLate /\ ClosingIsApart /\ NoConnectionLeft

(***************************************************************************)
(* What the key's registration knows: an answer is there only while it is  *)
(* being written down, the first attempt of a database finds the key on    *)
(* the chain only when an earlier answer was not heard, and only then is   *)
(* the hash derived.                                                       *)
(***************************************************************************)
AnswerInHand ==
  /\ answer # None <=> step = "persist"
  /\ answer # None => onChain
  /\ step \in {"register", "persist"} => row = None

Heard ==
  /\ onChain /\ row = None /\ answer # "chain" => unheard
  /\ answer = "derived" \/ row = "derived" => unheard

KInv == AnswerInHand /\ Heard /\ KeyIsOnChain

IInv == SInv /\ KInv

USE SessionAssumption, ConstantAssumption, HashAssumption
    DEF SessionAssumption, ConstantAssumption, HashAssumption

-----------------------------------------------------------------------------
(* The sessions.                                                           *)

LEMMA InitSInv == Init => SInv
BY DEF Init, SInv, TypeOK, Opening, EventsAreLate, ClosingIsApart, NoConnectionLeft, Steps, Hash

(* A step that leaves the sessions alone and opens none.                   *)
LEMMA SessionsKept ==
  ASSUME SInv, UNCHANGED sessions,
         step # "opening" /\ step' \in Steps \ {"opening", "reopen"},
         session' \in Session \cup {None},
         step' # "idle" => step # "idle" /\ session' = session,
         answer' \in Hash \cup {None}, row' \in Hash \cup {None},
         onChain' \in BOOLEAN, unheard' \in BOOLEAN
  PROVE  SInv'
<1> USE DEF sessions
<1>1. TypeOK'
  BY DEF SInv, TypeOK
<1>2. Opening'
  BY DEF SInv, Opening
<1>3. EventsAreLate' /\ ClosingIsApart' /\ NoConnectionLeft'
  BY DEF SInv, EventsAreLate, ClosingIsApart, NoConnectionLeft
<1>4. QED
  BY <1>1, <1>2, <1>3 DEF SInv

(* invalidate: the session it drops is a connected one, and is closed.     *)
LEMMA Invalidated ==
  ASSUME SInv, NEW s \in Session, invalidate(s), UNCHANGED <<conn, leaked>>,
         sessionPromise = s => conn[s] # "opening"
  PROVE  /\ sessionPromise' \in {sessionPromise, None}
         /\ closing' \subseteq Session
         /\ ClosingIsApart' /\ NoConnectionLeft'
<1>1. CASE sessionPromise = s
  <2>1. sessionPromise' = None /\ closing' = closing \cup {s} /\ conn[s] \in {"up", "down"}
    BY <1>1 DEF SInv, TypeOK, invalidate
  <2>2. ClosingIsApart'
    BY <2>1 DEF SInv, TypeOK, ClosingIsApart
  <2>3. NoConnectionLeft'
    BY <1>1, <2>1 DEF SInv, NoConnectionLeft
  <2>4. QED
    BY <2>1, <2>2, <2>3 DEF SInv, TypeOK
<1>2. CASE sessionPromise # s
  BY <1>2 DEF SInv, TypeOK, invalidate, ClosingIsApart, NoConnectionLeft
<1>3. QED
  BY <1>1, <1>2

LEMMA RunnerSInv == SInv /\ Runner => SInv'
<1> SUFFICES ASSUME SInv, Runner PROVE SInv'
  OBVIOUS
<1>1. CASE Reuse
  <2>1. /\ UNCHANGED <<sessions, registry>>
        /\ step = "idle" /\ step' = "find" /\ session' = sessionPromise
        /\ sessionPromise \in Session /\ conn[sessionPromise] = "up"
    BY <1>1 DEF Reuse, SInv, TypeOK
  <2>2. QED
    BY <2>1 DEF SInv, TypeOK, Opening, EventsAreLate, ClosingIsApart, NoConnectionLeft,
                sessions, registry, Steps
<1>2. CASE DropStale
  <2>1. /\ UNCHANGED <<conn, events, leaked, registry>>
        /\ step = "idle" /\ step' = "reopen" /\ session' = sessionPromise
        /\ sessionPromise \in Session /\ conn[sessionPromise] # "opening"
        /\ invalidate(sessionPromise) /\ sessionPromise' = None
    BY <1>2 DEF DropStale, SInv, TypeOK, Opening, invalidate
  <2>2. closing' \subseteq Session /\ ClosingIsApart' /\ NoConnectionLeft'
    BY <2>1, Invalidated
  <2>3. TypeOK' /\ Opening' /\ EventsAreLate'
    BY <2>1, <2>2 DEF SInv, TypeOK, Opening, EventsAreLate, registry, Steps
  <2>4. QED
    BY <2>2, <2>3 DEF SInv
<1>3. CASE Open
  <2>1. /\ UNCHANGED <<events, closing, leaked, registry>>
        /\ step \in {"idle", "reopen"} /\ step' = "opening" /\ sessionPromise = None
    BY <1>3 DEF Open, SInv, Opening
  <2>2. PICK s \in Session :
          /\ conn[s] = "unused"
          /\ conn' = [conn EXCEPT ![s] = "opening"]
          /\ sessionPromise' = s /\ session' = s
    BY <1>3 DEF Open
  <2>3. conn'[s] = "opening" /\ \A t \in Session \ {s} : conn'[t] = conn[t]
    BY <2>2 DEF SInv, TypeOK
  <2>4. s \notin events /\ s \notin closing
    BY <2>2 DEF SInv, EventsAreLate, ClosingIsApart
  <2>5. TypeOK'
    BY <2>1, <2>2, <2>3 DEF SInv, TypeOK, registry, Steps
  <2>6. Opening'
    BY <2>1, <2>2, <2>3 DEF SInv, Opening
  <2>7. EventsAreLate' /\ ClosingIsApart'
    BY <2>1, <2>2, <2>3, <2>4 DEF SInv, TypeOK, EventsAreLate, ClosingIsApart
  <2>8. NoConnectionLeft'
    BY <2>1, <2>2, <2>3 DEF SInv, NoConnectionLeft
  <2>9. QED
    BY <2>5, <2>6, <2>7, <2>8 DEF SInv
<1>4. CASE Opened
  <2>1. /\ UNCHANGED <<sessionPromise, events, closing, leaked, session, registry>>
        /\ step = "opening" /\ step' = "find"
        /\ session \in Session /\ sessionPromise = session /\ conn[session] = "opening"
    BY <1>4 DEF Opened, SInv, TypeOK, Opening
  <2>2. PICK c \in {"up", "down"} : conn' = [conn EXCEPT ![session] = c]
    BY <1>4 DEF Opened
  <2>3. conn'[session] = c /\ \A t \in Session \ {session} : conn'[t] = conn[t]
    BY <2>1, <2>2 DEF SInv, TypeOK
  <2>4. TypeOK'
    BY <2>1, <2>2, <2>3 DEF SInv, TypeOK, registry, Steps
  <2>5. Opening'
    BY <2>1, <2>2, <2>3 DEF SInv, Opening
  <2>6. EventsAreLate' /\ ClosingIsApart'
    BY <2>1, <2>2, <2>3 DEF SInv, TypeOK, EventsAreLate, ClosingIsApart
  <2>7. NoConnectionLeft'
    BY <2>1, <2>2, <2>3 DEF SInv, NoConnectionLeft
  <2>8. QED
    BY <2>4, <2>5, <2>6, <2>7 DEF SInv
<1>5. CASE OpenFails
  <2>1. /\ UNCHANGED <<events, closing, leaked, registry>>
        /\ step = "opening" /\ step' = "idle" /\ session' = None
        /\ session \in Session /\ conn[session] = "opening"
        /\ sessionPromise' = None
        /\ conn' = [conn EXCEPT ![session] = "unused"]
    BY <1>5 DEF OpenFails, SInv, TypeOK, Opening
  <2>2. conn'[session] = "unused" /\ \A t \in Session \ {session} : conn'[t] = conn[t]
    BY <2>1 DEF SInv, TypeOK
  <2>3. session \notin events /\ session \notin closing /\ sessionPromise = session
    BY <2>1 DEF SInv, EventsAreLate, ClosingIsApart, Opening
  <2>4. TypeOK'
    BY <2>1, <2>2 DEF SInv, TypeOK, registry, Steps
  <2>5. Opening'
    BY <2>1, <2>2 DEF SInv, Opening
  <2>6. EventsAreLate' /\ ClosingIsApart'
    BY <2>1, <2>2, <2>3 DEF SInv, TypeOK, EventsAreLate, ClosingIsApart
  <2>7. NoConnectionLeft'
    BY <2>1, <2>2, <2>3 DEF SInv, NoConnectionLeft
  <2>8. QED
    BY <2>4, <2>5, <2>6, <2>7 DEF SInv
<1>6. CASE TransactionFails
  <2>1. /\ UNCHANGED <<conn, events, leaked, registry>> /\ invalidate(session)
        /\ step = "wait" /\ session \in Session
        /\ conn[session] # "opening"
    BY <1>6 DEF TransactionFails, SInv, TypeOK, Opening
  <2>2. \/ step' = "giveUp" /\ session' = session
        \/ step' = "idle" /\ session' = None
    BY <1>6 DEF TransactionFails, Leave
  <2>3. /\ sessionPromise' \in {sessionPromise, None} /\ closing' \subseteq Session
        /\ ClosingIsApart' /\ NoConnectionLeft'
    BY <2>1, Invalidated
  <2>4. TypeOK' /\ Opening' /\ EventsAreLate'
    BY <2>1, <2>2, <2>3 DEF SInv, TypeOK, Opening, EventsAreLate, registry, Steps
  <2>5. QED
    BY <2>3, <2>4 DEF SInv
<1>7. CASE \/ Find \/ Registers \/ RegisterFails \/ Persist \/ PersistFails
           \/ Execute \/ CallFails \/ TransactionIncluded \/ GiveUp
  <2>1. UNCHANGED sessions /\ step # "opening" /\ step # "idle"
    BY <1>7 DEF Find, Registers, RegisterFails, Persist, PersistFails, Execute, CallFails,
                TransactionIncluded, GiveUp
  <2>2. \/ step' \in Steps \ {"opening", "reopen", "idle"} /\ session' = session
        \/ step' = "idle" /\ session' = None
    BY <1>7 DEF Find, Registers, RegisterFails, Persist, PersistFails, Execute, CallFails,
                TransactionIncluded, GiveUp, Leave, Steps
  <2>3. /\ answer' \in Hash \cup {None} /\ row' \in Hash \cup {None}
        /\ onChain' \in BOOLEAN /\ unheard' \in BOOLEAN
    BY <1>7 DEF Find, Registers, RegisterFails, Persist, PersistFails, Execute, CallFails,
                TransactionIncluded, GiveUp, SInv, TypeOK, Hash, registry
  <2>4. session' \in Session \cup {None} /\ step' \in Steps \ {"opening", "reopen"}
    BY <2>2 DEF SInv, TypeOK, Steps
  <2>5. QED
    BY <2>1, <2>2, <2>3, <2>4, SessionsKept
<1>8. QED
  BY <1>1, <1>2, <1>3, <1>4, <1>5, <1>6, <1>7 DEF Runner

(* What a socket does: one session's connection, event or close.           *)
LEMMA SocketSInv == ASSUME SInv, NEW s \in Session, Socket(s) PROVE SInv'
<1> USE DEF registry
<1>1. CASE Handle(s)
  <2>1. /\ events' = events \ {s} /\ conn[s] # "opening"
        /\ UNCHANGED <<conn, leaked, step, session, registry>> /\ invalidate(s)
    BY <1>1 DEF Handle, SInv, EventsAreLate
  <2>2. /\ sessionPromise' \in {sessionPromise, None} /\ closing' \subseteq Session
        /\ ClosingIsApart' /\ NoConnectionLeft'
    BY <2>1, Invalidated
  <2>3. step = "opening" => sessionPromise' = sessionPromise
    BY <2>1 DEF SInv, Opening, invalidate
  <2>4. TypeOK' /\ Opening' /\ EventsAreLate'
    BY <2>1, <2>2, <2>3 DEF SInv, TypeOK, Opening, EventsAreLate
  <2>5. QED
    BY <2>2, <2>4 DEF SInv
<1>2. CASE CloseDone(s)
  <2>1. /\ s \in closing /\ closing' = closing \ {s}
        /\ conn' = [conn EXCEPT ![s] = "closed"]
        /\ events' \in {events, events \cup {s}}
        /\ UNCHANGED <<sessionPromise, leaked, step, session, registry>>
    BY <1>2 DEF CloseDone
  <2>2. conn'[s] = "closed" /\ \A t \in Session \ {s} : conn'[t] = conn[t]
    BY <2>1 DEF SInv, TypeOK
  <2>3. s # sessionPromise /\ conn[s] # "opening"
    BY <2>1 DEF SInv, ClosingIsApart
  <2>4. TypeOK'
    BY <2>1, <2>2, <2>3 DEF SInv, TypeOK
  <2>5. Opening'
    BY <2>1, <2>2, <2>3 DEF SInv, TypeOK, Opening
  <2>6. EventsAreLate' /\ ClosingIsApart'
    BY <2>1, <2>2 DEF SInv, TypeOK, EventsAreLate, ClosingIsApart
  <2>7. NoConnectionLeft'
    BY <2>1, <2>2 DEF SInv, NoConnectionLeft
  <2>8. QED
    BY <2>4, <2>5, <2>6, <2>7 DEF SInv
<1>3. CASE CloseFails(s)
  BY <1>3 DEF CloseFails, SInv, TypeOK, Opening, EventsAreLate, ClosingIsApart, NoConnectionLeft
<1>4. CASE Drop(s) \/ Reconnect(s)
  <2>1. PICK c \in {"up", "down"} : conn' = [conn EXCEPT ![s] = c]
    BY <1>4 DEF Drop, Reconnect
  <2>2. /\ conn[s] \in {"up", "down"}
        /\ events' \in {events, events \cup {s}}
        /\ UNCHANGED <<sessionPromise, closing, leaked, step, session, registry>>
    BY <1>4 DEF Drop, Reconnect
  <2>3. conn'[s] = c /\ \A t \in Session \ {s} : conn'[t] = conn[t]
    BY <2>1 DEF SInv, TypeOK
  <2>4. TypeOK'
    BY <2>1, <2>2, <2>3 DEF SInv, TypeOK
  <2>5. Opening'
    BY <2>2, <2>3 DEF SInv, TypeOK, Opening
  <2>6. EventsAreLate' /\ ClosingIsApart'
    BY <2>2, <2>3 DEF SInv, TypeOK, EventsAreLate, ClosingIsApart
  <2>7. NoConnectionLeft'
    BY <2>2, <2>3 DEF SInv, NoConnectionLeft
  <2>8. QED
    BY <2>4, <2>5, <2>6, <2>7 DEF SInv
<1>5. CASE Forget(s)
  <2>1. /\ conn[s] = "closed" /\ s \notin events /\ s # session /\ s # sessionPromise
        /\ conn' = [conn EXCEPT ![s] = "unused"] /\ leaked' = leaked \ {s}
        /\ UNCHANGED <<sessionPromise, events, closing, step, session, registry>>
    BY <1>5 DEF Forget
  <2>2. conn'[s] = "unused" /\ \A t \in Session \ {s} : conn'[t] = conn[t]
    BY <2>1 DEF SInv, TypeOK
  <2>3. s \notin closing
    BY <2>1 DEF SInv, ClosingIsApart
  <2>4. TypeOK'
    BY <2>1, <2>2 DEF SInv, TypeOK
  <2>5. Opening'
    BY <2>1, <2>2 DEF SInv, TypeOK, Opening
  <2>6. EventsAreLate' /\ ClosingIsApart'
    BY <2>1, <2>2, <2>3 DEF SInv, TypeOK, EventsAreLate, ClosingIsApart
  <2>7. NoConnectionLeft'
    BY <2>1, <2>2 DEF SInv, NoConnectionLeft
  <2>8. QED
    BY <2>4, <2>5, <2>6, <2>7 DEF SInv
<1>6. QED
  BY <1>1, <1>2, <1>3, <1>4, <1>5 DEF Socket

LEMMA StepSInv == SInv /\ [Next]_vars => SInv'
<1> SUFFICES ASSUME SInv, [Next]_vars PROVE SInv'
  OBVIOUS
<1>1. CASE Runner
  BY <1>1, RunnerSInv
<1>2. ASSUME NEW s \in Session, Socket(s) PROVE SInv'
  BY <1>2, SocketSInv
<1>3. CASE RegisteredElsewhere \/ UNCHANGED vars
  BY <1>3 DEF RegisteredElsewhere, SInv, TypeOK, Opening, EventsAreLate, ClosingIsApart,
              NoConnectionLeft, vars, sessions, registry
<1>4. CASE Crash
  <2>1. conn' = [s \in Session |-> "unused"] /\ \A s \in Session : conn'[s] = "unused"
    BY <1>4 DEF Crash
  <2>2. /\ sessionPromise' = None /\ events' = {} /\ closing' = {} /\ leaked' = {}
        /\ step' = "idle" /\ session' = None /\ answer' = None
    BY <1>4 DEF Crash
  <2>3. row' \in Hash \cup {None} /\ onChain' \in BOOLEAN /\ unheard' \in BOOLEAN
    BY <1>4 DEF Crash, SInv, TypeOK
  <2>4. QED
    BY <2>1, <2>2, <2>3 DEF SInv, TypeOK, Opening, EventsAreLate, ClosingIsApart,
                            NoConnectionLeft, Steps
<1>5. QED
  BY <1>1, <1>2, <1>3, <1>4 DEF Next

-----------------------------------------------------------------------------
(* The key.                                                                *)

LEMMA InitKInv == Init => KInv
BY DEF Init, KInv, AnswerInHand, Heard, KeyIsOnChain, Hash

LEMMA StepKInv == TypeOK /\ KInv /\ [Next]_vars => KInv'
<1> SUFFICES ASSUME TypeOK, KInv, [Next]_vars PROVE KInv'
  OBVIOUS
<1> USE DEF KInv, AnswerInHand, Heard, KeyIsOnChain, Hash, Leave
<1>1. CASE Find
  BY <1>1 DEF Find, registry
<1>2. CASE Registers
  BY <1>2 DEF Registers
<1>3. CASE RegisterFails
  <2>1. answer = None /\ row = None /\ row' = None
    BY <1>3 DEF RegisterFails
  <2>2. CASE answer' = "derived"
    BY <1>3, <2>1, <2>2 DEF RegisterFails, isAlreadyRegisteredError
  <2>3. CASE answer' = None
    BY <1>3, <2>1, <2>3 DEF RegisterFails, isAlreadyRegisteredError
  <2>4. QED
    BY <1>3, <2>1, <2>2, <2>3 DEF RegisterFails
<1>4. CASE Persist
  BY <1>4 DEF Persist, TypeOK
<1>5. CASE PersistFails
  BY <1>5 DEF PersistFails, TypeOK
<1>6. CASE RegisteredElsewhere
  BY <1>6 DEF RegisteredElsewhere
<1>7. CASE Crash
  BY <1>7 DEF Crash, TypeOK
<1>8. CASE \/ Reuse \/ DropStale \/ Open \/ Opened \/ OpenFails \/ Execute \/ CallFails
           \/ TransactionIncluded \/ TransactionFails \/ GiveUp
  <2>1. UNCHANGED registry /\ step # "persist" /\ step' \notin {"register", "persist"}
    BY <1>8 DEF Reuse, DropStale, Open, Opened, OpenFails, Execute, CallFails,
                TransactionIncluded, TransactionFails, GiveUp
  <2>2. QED
    BY <2>1 DEF registry
<1>9. CASE (\E s \in Session : Socket(s)) \/ UNCHANGED vars
  <2>1. UNCHANGED <<step, registry>>
    BY <1>9 DEF Socket, Handle, CloseDone, CloseFails, Drop, Reconnect, Forget, vars
  <2>2. QED
    BY <2>1 DEF registry
<1>10. QED
  BY <1>1, <1>2, <1>3, <1>4, <1>5, <1>6, <1>7, <1>8, <1>9 DEF Next, Runner

-----------------------------------------------------------------------------
(* The inductive invariant of the session and the key holds in every run.  *)
THEOREM InvariantHolds == Spec => []IInv
<1>1. Init => IInv
  BY InitSInv, InitKInv DEF IInv
<1>2. IInv /\ [Next]_vars => IInv'
  BY StepSInv, StepKInv DEF IInv, SInv
<1>3. QED
  BY <1>1, <1>2, PTL DEF Spec

(* Every variable keeps its type: the shared session, and the one the      *)
(* runner has, are never sessions that are not there.                      *)
THEOREM TypeCorrect == Spec => []TypeOK
<1>1. IInv => TypeOK
  BY DEF IInv, SInv
<1>2. QED
  BY <1>1, InvariantHolds, PTL

(* However late the events are and whatever fails, a connection that is    *)
(* open is the shared one, or is being closed, or its close() failed: no   *)
(* other is left behind by getSession and invalidate.                      *)
THEOREM NoneLeftBehind == Spec => []NoConnectionLeft
<1>1. IInv => NoConnectionLeft
  BY DEF IInv, SInv
<1>2. QED
  BY <1>1, InvariantHolds, PTL

(* A registered_vk document is only there for a key the chain has, for any *)
(* crashes and restarts with a fresh database.                             *)
THEOREM RecordedIsRegistered == Spec => []KeyIsOnChain
<1>1. IInv => KeyIsOnChain
  BY DEF IInv, KInv
<1>2. QED
  BY <1>1, InvariantHolds, PTL

(* A wrong statement hash is on record only where the chain's own answer   *)
(* never reached this database: the drift check catches every other one.   *)
THEOREM WrongOnlyUnheard == Spec => []WrongHashUnheard
<1>1. IInv => WrongHashUnheard
  BY DEF IInv, SInv, TypeOK, KInv, Heard, WrongHashUnheard, Right, Hash
<1>2. QED
  BY <1>1, InvariantHolds, PTL

LEMMA StepKeepsReplacement ==
  ASSUME SInv, [Next]_vars, sessionPromise # None, sessionPromise' # sessionPromise
  PROVE  \/ Crash
         \/ conn[sessionPromise] # "up"
         \/ sessionPromise \in events
         \/ step = "wait" /\ session = sessionPromise
<1>1. CASE UNCHANGED vars
  BY <1>1 DEF vars, sessions
<1>2. CASE DropStale
  BY <1>2 DEF DropStale
<1>3. CASE Open \/ OpenFails
  BY <1>3 DEF Open, OpenFails, SInv, Opening
<1>4. CASE TransactionFails
  BY <1>4 DEF TransactionFails, invalidate
<1>5. CASE \/ Reuse \/ Opened \/ Find \/ Registers \/ RegisterFails \/ Persist \/ PersistFails
           \/ Execute \/ CallFails \/ TransactionIncluded \/ GiveUp \/ RegisteredElsewhere
  <2>1. UNCHANGED sessionPromise
    BY <1>5 DEF Reuse, Opened, Find, Registers, RegisterFails, Persist, PersistFails, Execute,
                CallFails, TransactionIncluded, GiveUp, RegisteredElsewhere, sessions
  <2>2. QED
    BY <2>1
<1>6. ASSUME NEW s \in Session, Handle(s) PROVE sessionPromise \in events
  BY <1>6 DEF Handle, invalidate
<1>7. ASSUME NEW s \in Session,
             CloseDone(s) \/ CloseFails(s) \/ Drop(s) \/ Reconnect(s) \/ Forget(s)
      PROVE  UNCHANGED sessionPromise
  BY <1>7 DEF CloseDone, CloseFails, Drop, Reconnect, Forget
<1>8. QED
  BY <1>1, <1>2, <1>3, <1>4, <1>5, <1>6, <1>7 DEF Next, Runner, Socket

(* pipelines/zk-verify/processor.ts:16-17: no step, and in particular no   *)
(* late 'disconnected' handler and no late failure of an older session's   *)
(* transaction, clears a session that has replaced its own.                *)
THEOREM ReplacementsStay == Spec => ReplacementKept
<1>1. SInv /\ [Next]_vars =>
        [ sessionPromise # None /\ sessionPromise' # sessionPromise =>
            \/ Crash
            \/ conn[sessionPromise] # "up"
            \/ sessionPromise \in events
            \/ step = "wait" /\ session = sessionPromise ]_vars
  BY StepKeepsReplacement
<1>2. IInv => SInv
  BY DEF IInv
<1>3. QED
  BY <1>1, <1>2, InvariantHolds, PTL DEF Spec, ReplacementKept
=============================================================================

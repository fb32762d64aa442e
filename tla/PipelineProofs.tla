---------------------------- MODULE PipelineProofs ----------------------------
(***************************************************************************)
(* Proofs about Pipeline, for any number of windows, documents, lost       *)
(* completions and submissions.  At the end: the chain keeps, at each of   *)
(* its stages, the TaskPromise that PipelineStage implements.              *)
(***************************************************************************)
EXTENDS Pipeline, SequenceTheorems, FiniteSetTheorems, TLAPS

(***************************************************************************)
(* The properties are about windows whose completions were not lost.  What *)
(* carries them: a document descends from the document of the stage before *)
(* it, of the same window; a worker's job is a document of its stage; and, *)
(* as long as the window is intact, the document is open until the worker  *)
(* is done with it -- so that no step of anybody else completes, creates a *)
(* successor of, or clears the proof under it.                             *)
(***************************************************************************)
StageBefore(s) == IF s = "noir" THEN "zkTLS" ELSE "noir"

Lineage ==
  \A d \in Id :
    IF docs[d].stage = "zkTLS" THEN docs[d].parent = 0
    ELSE /\ docs[d].parent \in Id
         /\ docs[docs[d].parent].stage = StageBefore(docs[d].stage)
         /\ docs[docs[d].parent].window = docs[d].window

JobsMatch ==
  \A s \in Stage : working[s] # Idle =>
    working[s].doc \in Id /\ docs[working[s].doc].stage = s

Submitted ==
  working["zkVerify"].step = "ready" => chain[working["zkVerify"].doc] > 0

Structure == Lineage /\ JobsMatch /\ Submitted /\ RecordIsOnChain

AttemptedIsOpen ==
  \A s \in Stage : working[s] # Idle /\ Intact(docs[working[s].doc].window) =>
    docs[working[s].doc].phase = "open"

(* HandedOverOnce, of one document and without counting.                   *)
HandedOver(d) ==
  IF docs[d].stage = "zkVerify" THEN d \in records <=> docs[d].phase = "done"
  ELSE IF docs[d].phase = "done"
       THEN \E c \in Id : \A b \in Id : docs[b].parent = d <=> b = c
       ELSE \A b \in Id : docs[b].parent # d

Handed == \A d \in Id : Intact(docs[d].window) => HandedOver(d)

Course == AttemptedIsOpen /\ Handed /\ ArtifactsAvailable

IInv == TypeOK /\ Structure /\ Course

USE BoundsAssumption DEF BoundsAssumption

-----------------------------------------------------------------------------
(* What the actions do to the documents, document by document.             *)

SameLine(c) ==
  /\ docs'[c].stage = docs[c].stage
  /\ docs'[c].window = docs[c].window
  /\ docs'[c].parent = docs[c].parent

(* No document is created, and none changes its place in the pipeline.     *)
Rewritten ==
  /\ docs' \in Seq(Doc) /\ Len(docs') = Len(docs)
  /\ \A c \in Id : SameLine(c)

(* Only the status and the result of one document are written.             *)
OneDoc(d, p, r) ==
  /\ docs' \in Seq(Doc) /\ Len(docs') = Len(docs)
  /\ \A c \in Id \ {d} : docs'[c] = docs[c]
  /\ SameLine(d) /\ docs'[d].input = docs[d].input
  /\ docs'[d].phase = p /\ docs'[d].result = r

(* A document is completed and its successor created.                      *)
Succeeded(d, s) ==
  /\ docs' \in Seq(Doc) /\ Len(docs') = Len(docs) + 1
  /\ \A c \in Id \ {d} : docs'[c] = docs[c]
  /\ SameLine(d) /\ docs'[d].phase = "done"
  /\ docs'[Len(docs) + 1] = NewDoc(s, docs[d].window, d)

LEMMA DocsTyped ==
  ASSUME docs \in Seq(Doc)
  PROVE  /\ Len(docs) \in Nat /\ Id = 1..Len(docs) /\ \A d \in Id : docs[d] \in Doc
         /\ \A d \in Id : d \in Nat /\ d > 0
BY ElementOfSeq, LenProperties DEF Id

LEMMA Written ==
  ASSUME NEW D \in Seq(Doc), NEW d \in 1..Len(D), NEW e \in Doc
  PROVE  /\ [D EXCEPT ![d] = e] \in Seq(Doc)
         /\ Len([D EXCEPT ![d] = e]) = Len(D)
         /\ \A c \in 1..Len(D) : [D EXCEPT ![d] = e][c] = IF c = d THEN e ELSE D[c]
BY ExceptSeq

LEMMA WrittenTwice ==
  ASSUME NEW D \in Seq(Doc), NEW d \in 1..Len(D), NEW q \in 1..Len(D),
         NEW f \in Doc, NEW g \in Doc
  PROVE  /\ [D EXCEPT ![d] = f, ![q] = g] \in Seq(Doc)
         /\ Len([D EXCEPT ![d] = f, ![q] = g]) = Len(D)
         /\ \A c \in 1..Len(D) :
              [D EXCEPT ![d] = f, ![q] = g][c] = IF c = q THEN g ELSE IF c = d THEN f ELSE D[c]
<1> DEFINE E == [D EXCEPT ![d] = f]
<1>1. /\ E \in Seq(Doc) /\ Len(E) = Len(D)
      /\ \A c \in 1..Len(D) : E[c] = IF c = d THEN f ELSE D[c]
  BY Written
<1>2. q \in 1..Len(E)
  BY <1>1
<1> HIDE DEF E
<1>3. /\ [E EXCEPT ![q] = g] \in Seq(Doc) /\ Len([E EXCEPT ![q] = g]) = Len(E)
      /\ \A c \in 1..Len(E) : [E EXCEPT ![q] = g][c] = IF c = q THEN g ELSE E[c]
  BY <1>1, <1>2, Written
<1>4. [D EXCEPT ![d] = f, ![q] = g] = [E EXCEPT ![q] = g]
  BY DEF E
<1>5. QED
  BY <1>1, <1>3, <1>4

LEMMA Appended ==
  ASSUME NEW D \in Seq(Doc), NEW e \in Doc
  PROVE  /\ Append(D, e) \in Seq(Doc)
         /\ Len(Append(D, e)) = Len(D) + 1
         /\ \A c \in 1..Len(D) : Append(D, e)[c] = D[c]
         /\ Append(D, e)[Len(D) + 1] = e
OBVIOUS

LEMMA Fields ==
  ASSUME NEW e \in Doc, NEW p \in Phase, NEW r \in BOOLEAN, NEW i \in BOOLEAN
  PROVE  LET f == [e EXCEPT !.phase = p, !.result = r, !.input = i]
         IN  /\ f \in Doc /\ f.phase = p /\ f.result = r /\ f.input = i
             /\ f.stage = e.stage /\ f.window = e.window /\ f.parent = e.parent
BY DEF Doc

LEMMA PhaseField ==
  ASSUME NEW e \in Doc, NEW p \in Phase
  PROVE  LET f == [e EXCEPT !.phase = p]
         IN  /\ f \in Doc /\ f.phase = p /\ f.result = e.result /\ f.input = e.input
             /\ f.stage = e.stage /\ f.window = e.window /\ f.parent = e.parent
BY DEF Doc

LEMMA ResultField ==
  ASSUME NEW e \in Doc, NEW r \in BOOLEAN
  PROVE  LET f == [e EXCEPT !.result = r]
         IN  /\ f \in Doc /\ f.phase = e.phase /\ f.result = r /\ f.input = e.input
             /\ f.stage = e.stage /\ f.window = e.window /\ f.parent = e.parent
BY DEF Doc

LEMMA PhaseWritten ==
  ASSUME docs \in Seq(Doc), NEW d \in Id, NEW p \in Phase,
         docs' = [docs EXCEPT ![d].phase = p]
  PROVE  OneDoc(d, p, docs[d].result)
<1>1. docs' = [docs EXCEPT ![d] = [docs[d] EXCEPT !.phase = p]] /\ docs[d] \in Doc
  BY DocsTyped
<1> DEFINE f == [docs[d] EXCEPT !.phase = p]
<1>2. /\ f \in Doc /\ f.phase = p /\ f.result = docs[d].result /\ f.input = docs[d].input
      /\ f.stage = docs[d].stage /\ f.window = docs[d].window /\ f.parent = docs[d].parent
  BY <1>1, PhaseField
<1>3. d \in 1..Len(docs)
  BY DEF Id
<1> HIDE DEF f
<1>4. /\ docs' \in Seq(Doc) /\ Len(docs') = Len(docs)
      /\ \A c \in 1..Len(docs) : docs'[c] = IF c = d THEN f ELSE docs[c]
  BY <1>1, <1>2, <1>3, Written DEF f
<1>5. QED
  BY <1>2, <1>3, <1>4 DEF OneDoc, SameLine, Id

LEMMA ResultWritten ==
  ASSUME docs \in Seq(Doc), NEW d \in Id, NEW r \in BOOLEAN,
         docs' = [docs EXCEPT ![d].result = r]
  PROVE  OneDoc(d, docs[d].phase, r)
<1>1. docs' = [docs EXCEPT ![d] = [docs[d] EXCEPT !.result = r]] /\ docs[d] \in Doc
  BY DocsTyped
<1> DEFINE f == [docs[d] EXCEPT !.result = r]
<1>2. /\ f \in Doc /\ f.phase = docs[d].phase /\ f.result = r /\ f.input = docs[d].input
      /\ f.stage = docs[d].stage /\ f.window = docs[d].window /\ f.parent = docs[d].parent
  BY <1>1, ResultField
<1>3. d \in 1..Len(docs)
  BY DEF Id
<1> HIDE DEF f
<1>4. /\ docs' \in Seq(Doc) /\ Len(docs') = Len(docs)
      /\ \A c \in 1..Len(docs) : docs'[c] = IF c = d THEN f ELSE docs[c]
  BY <1>1, <1>2, <1>3, Written DEF f
<1>5. QED
  BY <1>2, <1>3, <1>4 DEF OneDoc, SameLine, Id

LEMMA BothWritten ==
  ASSUME docs \in Seq(Doc), NEW d \in Id, NEW p \in Phase,
         docs' = [docs EXCEPT ![d].phase = p, ![d].result = FALSE]
  PROVE  OneDoc(d, p, FALSE)
<1> DEFINE f == [docs[d] EXCEPT !.phase = p, !.result = FALSE]
<1>1. docs[d] \in Doc /\ d \in 1..Len(docs)
  BY DocsTyped DEF Id
<1>2. docs' = [docs EXCEPT ![d] = f]
  BY <1>1, LenProperties
<1>3. /\ f \in Doc /\ f.phase = p /\ f.result = FALSE /\ f.input = docs[d].input
      /\ f.stage = docs[d].stage /\ f.window = docs[d].window /\ f.parent = docs[d].parent
  BY <1>1 DEF Doc
<1> HIDE DEF f
<1>4. /\ docs' \in Seq(Doc) /\ Len(docs') = Len(docs)
      /\ \A c \in 1..Len(docs) : docs'[c] = IF c = d THEN f ELSE docs[c]
  <2>1. /\ [docs EXCEPT ![d] = f] \in Seq(Doc)
        /\ Len([docs EXCEPT ![d] = f]) = Len(docs)
        /\ \A c \in 1..Len(docs) : [docs EXCEPT ![d] = f][c] = IF c = d THEN f ELSE docs[c]
    BY <1>1, <1>3, Written
  <2>2. QED
    BY <1>2, <2>1
<1>5. QED
  BY <1>1, <1>3, <1>4 DEF OneDoc, SameLine, Id

LEMMA OneDocRewrites == ASSUME NEW d \in Id, NEW p, NEW r, OneDoc(d, p, r) PROVE Rewritten
BY DEF OneDoc, Rewritten, SameLine

(* The document a worker is on.                                            *)
LEMMA JobDoc ==
  ASSUME TypeOK, JobsMatch, NEW s \in Stage, working[s].step # "idle"
  PROVE  working[s] # Idle /\ working[s].doc \in Id /\ docs[working[s].doc].stage = s
BY DEF JobsMatch, Idle

LEMMA NewDocTyped ==
  ASSUME NEW s \in Stage, NEW w \in Window, NEW d \in 0..MaxDocs
  PROVE  /\ NewDoc(s, w, d) \in Doc /\ [NewDoc(s, w, d) EXCEPT !.phase = "parked"] \in Doc
         /\ [NewDoc(s, w, d) EXCEPT !.phase = "parked"].stage = s
         /\ [NewDoc(s, w, d) EXCEPT !.phase = "parked"].window = w
         /\ [NewDoc(s, w, d) EXCEPT !.phase = "parked"].parent = d
         /\ [NewDoc(s, w, d) EXCEPT !.phase = "parked"].phase = "parked"
BY DEF NewDoc, Doc, Phase

LEMMA EnsureEffect ==
  ASSUME TypeOK, NEW w \in Window, ensureZkTLSTask(w)
  PROVE  /\ docs' \in Seq(Doc) /\ Len(docs') = Len(docs) + 1
         /\ \A c \in Id : docs'[c] = docs[c]
         /\ docs'[Len(docs) + 1].stage = "zkTLS" /\ docs'[Len(docs) + 1].window = w
         /\ docs'[Len(docs) + 1].parent = 0 /\ docs'[Len(docs) + 1].phase = "parked"
<1> DEFINE e == [NewDoc("zkTLS", w, 0) EXCEPT !.phase = "parked"]
<1>1. /\ e \in Doc /\ e.stage = "zkTLS" /\ e.window = w /\ e.parent = 0 /\ e.phase = "parked"
  BY NewDocTyped DEF Stage
<1>2. docs \in Seq(Doc) /\ docs' = Append(docs, e)
  BY DEF ensureZkTLSTask, TypeOK
<1> HIDE DEF e
<1>3. QED
  BY <1>1, <1>2, Appended DEF Id

LEMMA SuccessorEffect ==
  ASSUME TypeOK, NEW d \in Id, NEW s \in Stage, NEW f \in Doc,
         f.phase = "done", f.stage = docs[d].stage, f.window = docs[d].window,
         f.parent = docs[d].parent,
         docs' = Append([docs EXCEPT ![d] = f], NewDoc(s, docs[d].window, d))
  PROVE  Succeeded(d, s) /\ docs'[d] = f
<1> DEFINE D == [docs EXCEPT ![d] = f]
           e == NewDoc(s, docs[d].window, d)
<1>1. docs \in Seq(Doc) /\ docs[d] \in Doc /\ d \in 1..Len(docs) /\ Len(docs) <= MaxDocs
  BY DocsTyped DEF TypeOK, Id
<1>2. /\ D \in Seq(Doc) /\ Len(D) = Len(docs)
      /\ \A c \in 1..Len(docs) : D[c] = IF c = d THEN f ELSE docs[c]
  BY <1>1, Written
<1>3. docs[d].window \in Window /\ d \in 0..MaxDocs
  BY <1>1, LenProperties DEF Doc
<1>4. e \in Doc
  BY <1>3, NewDocTyped
<1> HIDE DEF D
<1>5. /\ Append(D, e) \in Seq(Doc) /\ Len(Append(D, e)) = Len(docs) + 1
      /\ \A c \in 1..Len(docs) : Append(D, e)[c] = D[c]
      /\ Append(D, e)[Len(docs) + 1] = e
  BY <1>2, <1>4, Appended
<1>6. docs' = Append(D, e)
  BY DEF D
<1>7. QED
  BY <1>1, <1>2, <1>5, <1>6 DEF Succeeded, SameLine, Id

LEMMA CommitZkTLSEffect ==
  ASSUME TypeOK, JobsMatch, CommitZkTLS
  PROVE  /\ working["zkTLS"].doc \in Id /\ docs[working["zkTLS"].doc].stage = "zkTLS"
         /\ Succeeded(working["zkTLS"].doc, "noir")
<1> DEFINE d == working["zkTLS"].doc
           f == [docs[d] EXCEPT !.phase = "done"]
<1>1. d \in Id /\ docs[d].stage = "zkTLS"
  BY JobDoc DEF CommitZkTLS, Stage
<1>2. docs \in Seq(Doc) /\ docs[d] \in Doc
  BY <1>1, DocsTyped DEF TypeOK
<1>3. /\ f \in Doc /\ f.phase = "done" /\ f.stage = docs[d].stage
      /\ f.window = docs[d].window /\ f.parent = docs[d].parent
  BY <1>2, PhaseField DEF Phase
<1>4. docs' = Append([docs EXCEPT ![d] = f], NewDoc("noir", docs[d].window, d))
  BY DEF CommitZkTLS
<1> HIDE DEF d, f
<1>5. Succeeded(d, "noir")
  BY <1>1, <1>3, <1>4, SuccessorEffect DEF Stage
<1>6. QED
  BY <1>1, <1>5 DEF d

LEMMA CommitNoirEffect ==
  ASSUME TypeOK, JobsMatch, CommitNoir
  PROVE  /\ working["noir"].doc \in Id /\ docs[working["noir"].doc].stage = "noir"
         /\ Succeeded(working["noir"].doc, "zkVerify")
         /\ docs'[working["noir"].doc].result = TRUE
<1> DEFINE d == working["noir"].doc
           f == [docs[d] EXCEPT !.phase = "done", !.result = TRUE, !.input = FALSE]
<1>1. d \in Id /\ docs[d].stage = "noir"
  BY JobDoc DEF CommitNoir, Stage
<1>2. docs \in Seq(Doc) /\ docs[d] \in Doc
  BY <1>1, DocsTyped DEF TypeOK
<1>3. /\ f \in Doc /\ f.phase = "done" /\ f.stage = docs[d].stage
      /\ f.window = docs[d].window /\ f.parent = docs[d].parent /\ f.result = TRUE
  BY <1>2, Fields DEF Phase
<1>4. docs' = Append([docs EXCEPT ![d] = f], NewDoc("zkVerify", docs[d].window, d))
  <2>1. [docs EXCEPT ![d].phase = "done", ![d].result = TRUE, ![d].input = FALSE]
          = [docs EXCEPT ![d] = f]
    BY <1>1, <1>2, LenProperties DEF Id
  <2>2. docs' = Append([docs EXCEPT ![d].phase = "done", ![d].result = TRUE, ![d].input = FALSE],
                       NewDoc("zkVerify", docs[d].window, d))
    BY DEF CommitNoir
  <2> HIDE DEF f, d
  <2>3. QED
    BY <2>1, <2>2
<1> HIDE DEF d, f
<1>5. Succeeded(d, "zkVerify") /\ docs'[d] = f
  BY <1>1, <1>3, <1>4, SuccessorEffect DEF Stage
<1>6. QED
  BY <1>1, <1>3, <1>5 DEF d

(* The proof is dropped from the noir task, a document of its own.         *)
LEMMA CommitZkVerifyEffect ==
  ASSUME TypeOK, JobsMatch, Lineage, CommitZkVerify,
         NEW d, d = working["zkVerify"].doc, NEW q, q = docs[d].parent
  PROVE  /\ d \in Id /\ q \in Id /\ q # d
         /\ docs[d].stage = "zkVerify" /\ docs[q].stage = "noir"
         /\ docs[q].window = docs[d].window
         /\ Rewritten
         /\ docs'[d].phase = "done" /\ docs'[q].phase = docs[q].phase
         /\ docs'[q].input = docs[q].input
         /\ \A c \in Id \ {d, q} : docs'[c] = docs[c]
<1>1. d \in Id /\ docs[d].stage = "zkVerify"
  BY JobDoc DEF CommitZkVerify, Stage
<1>2. q \in Id /\ docs[q].stage = "noir" /\ docs[q].window = docs[d].window
  BY <1>1 DEF Lineage, StageBefore
<1>3. q # d
  BY <1>1, <1>2
<1>4. docs \in Seq(Doc) /\ docs[d] \in Doc /\ docs[q] \in Doc
      /\ d \in 1..Len(docs) /\ q \in 1..Len(docs)
  BY <1>1, <1>2, DocsTyped DEF TypeOK, Id
<1> DEFINE f == [docs[d] EXCEPT !.phase = "done"]
           g == [docs[q] EXCEPT !.result = FALSE]
<1>5. /\ f \in Doc /\ f.phase = "done" /\ f.stage = docs[d].stage
      /\ f.window = docs[d].window /\ f.parent = docs[d].parent
  BY <1>4, PhaseField DEF Phase
<1>6. /\ g \in Doc /\ g.phase = docs[q].phase /\ g.input = docs[q].input
      /\ g.stage = docs[q].stage /\ g.window = docs[q].window /\ g.parent = docs[q].parent
  BY <1>4, ResultField
<1>7. docs' = [docs EXCEPT ![d] = f, ![q] = g]
  <2>1. docs' = [docs EXCEPT ![d].phase = "done", ![q].result = FALSE]
    BY DEF CommitZkVerify
  <2>2. QED
    BY <1>3, <1>4, <2>1, LenProperties
<1> HIDE DEF f, g
<1>8. /\ docs' \in Seq(Doc) /\ Len(docs') = Len(docs)
      /\ \A c \in 1..Len(docs) : docs'[c] = IF c = q THEN g ELSE IF c = d THEN f ELSE docs[c]
  <2>1. docs \in Seq(Doc) /\ d \in 1..Len(docs) /\ q \in 1..Len(docs) /\ f \in Doc /\ g \in Doc
    BY <1>4, <1>5, <1>6
  <2> DEFINE E == [docs EXCEPT ![d] = f, ![q] = g]
  <2>2. /\ E \in Seq(Doc) /\ Len(E) = Len(docs)
        /\ \A c \in 1..Len(docs) : E[c] = IF c = q THEN g ELSE IF c = d THEN f ELSE docs[c]
    BY ONLY <2>1, WrittenTwice
  <2>3. QED
    BY <1>7, <2>2
<1>9. docs'[d] = f /\ docs'[q] = g /\ \A c \in Id \ {d, q} : docs'[c] = docs[c]
  BY <1>3, <1>4, <1>8 DEF Id
<1>10. Rewritten
  <2>1. docs' \in Seq(Doc) /\ Len(docs') = Len(docs)
    BY <1>8
  <2>2. \A c \in Id : SameLine(c)
    BY <1>5, <1>6, <1>9 DEF SameLine
  <2>3. QED
    BY <2>1, <2>2 DEF Rewritten
<1>11. QED
  BY <1>1, <1>2, <1>3, <1>5, <1>6, <1>9, <1>10

LEMMA RestartEffect ==
  ASSUME TypeOK, Restart
  PROVE  /\ Rewritten
         /\ \A c \in Id : /\ docs'[c].phase = docs[c].phase /\ docs'[c].input = docs[c].input
                          /\ docs[c].phase # "open" => docs'[c] = docs[c]
<1>1. docs \in Seq(Doc) /\ Len(docs) \in Nat /\ Id = 1..Len(docs) /\ \A c \in Id : docs[c] \in Doc
  BY DocsTyped DEF TypeOK
<1> DEFINE e(c) == IF docs[c].phase = "open" THEN [docs[c] EXCEPT !.result = FALSE] ELSE docs[c]
<1>2. \A c \in Id : /\ e(c) \in Doc /\ e(c).phase = docs[c].phase /\ e(c).input = docs[c].input
                    /\ e(c).stage = docs[c].stage /\ e(c).window = docs[c].window
                    /\ e(c).parent = docs[c].parent
                    /\ docs[c].phase # "open" => e(c) = docs[c]
  BY <1>1, ResultField
<1>3. docs' = [c \in Id |-> e(c)]
  BY DEF Restart
<1> HIDE DEF e
<1>4. docs' \in [1..Len(docs) -> Doc] /\ \A c \in Id : docs'[c] = e(c)
  BY <1>1, <1>2, <1>3
<1>5. docs' \in Seq(Doc) /\ Len(docs') = Len(docs)
  <2>1. docs' \in Seq(Doc)
    BY <1>1, <1>4, SeqDef
  <2>2. DOMAIN docs' = 1..Len(docs) /\ DOMAIN docs' = 1..Len(docs') /\ Len(docs') \in Nat
    BY <1>4, <2>1, LenProperties
  <2>3. QED
    BY <1>1, <2>1, <2>2
<1>6. QED
  BY <1>2, <1>4, <1>5 DEF Rewritten, SameLine

-----------------------------------------------------------------------------
(* Actions that touch one document, or none.                               *)

Single(d) == Wake(d) \/ Begin(d) \/ RetryFailed(d) \/ Lose(d)

LEMMA SingleEffect ==
  ASSUME TypeOK, NEW d \in Id, Single(d)
  PROVE  /\ \E p \in Phase, r \in BOOLEAN : OneDoc(d, p, r)
         /\ UNCHANGED <<records, chain>>
<1>1. docs \in Seq(Doc) /\ docs[d] \in Doc
  BY DocsTyped DEF TypeOK
<1>2. docs[d].phase \in Phase /\ docs[d].result \in BOOLEAN
  BY <1>1 DEF Doc
<1>3. CASE Wake(d) \/ RetryFailed(d)
  BY <1>1, <1>2, <1>3, PhaseWritten DEF Wake, RetryFailed, Phase
<1>4. CASE Begin(d)
  BY <1>1, <1>2, <1>4, ResultWritten DEF Begin
<1>5. CASE Lose(d)
  <2>1. UNCHANGED <<records, chain>>
    BY <1>5 DEF Lose
  <2>2. CASE docs' = [docs EXCEPT ![d].phase = "open"]
    BY <1>1, <1>2, <2>1, <2>2, PhaseWritten DEF Phase
  <2>3. ASSUME NEW p \in {"open", "failed"},
               docs' = [docs EXCEPT ![d].phase = p, ![d].result = FALSE]
        PROVE  OneDoc(d, p, FALSE)
    BY <1>1, <2>3, BothWritten DEF Phase
  <2>4. QED
    BY <1>5, <2>1, <2>2, <2>3 DEF Lose, Phase
<1>6. QED
  BY <1>3, <1>4, <1>5 DEF Single

LEMMA AbortEffect ==
  ASSUME TypeOK, JobsMatch, NEW s \in Stage, Abort(s)
  PROVE  /\ working[s].doc \in Id /\ docs[working[s].doc].stage = s
         /\ \E p \in {"open", "failed", "parked"} : OneDoc(working[s].doc, p, FALSE)
<1>1. working[s].doc \in Id /\ docs[working[s].doc].stage = s
  BY DEF Abort, JobsMatch
<1>2. PICK p \in {"open", "failed", "parked"} :
        docs' = [docs EXCEPT ![working[s].doc].phase = p, ![working[s].doc].result = FALSE]
  BY DEF Abort
<1>3. OneDoc(working[s].doc, p, FALSE)
  BY <1>1, <1>2, BothWritten DEF TypeOK, Phase
<1>4. QED
  BY <1>1, <1>3

(* The job a worker takes.                                                 *)
LEMMA BeginJob ==
  ASSUME TypeOK, NEW d \in Id, Begin(d)
  PROVE  /\ docs[d].stage \in Stage /\ working' \in [Stage -> Job]
         /\ working'[docs[d].stage].doc = d /\ working'[docs[d].stage].step = "begun"
         /\ \A s \in Stage \ {docs[d].stage} : working'[s] = working[s]
<1>1. docs[d] \in Doc /\ docs \in Seq(Doc) /\ d \in 0..MaxDocs
  BY DocsTyped DEF TypeOK, Id
<1>2. docs[d].stage \in Stage /\ docs[d].input \in BOOLEAN
  BY <1>1 DEF Doc
<1>3. PICK p \in BOOLEAN :
        working' = [working EXCEPT ![docs[d].stage] = [doc |-> d, step |-> "begun", payload |-> p]]
  BY <1>2 DEF Begin
<1>4. QED
  BY <1>1, <1>2, <1>3 DEF TypeOK, Job

LEMMA ReadyJob ==
  ASSUME TypeOK, NEW s \in Stage, Ready(s)
  PROVE  /\ working' \in [Stage -> Job]
         /\ working'[s].doc = working[s].doc /\ working'[s].step = "ready"
         /\ \A t \in Stage \ {s} : working'[t] = working[t]
BY DEF TypeOK, Ready, Job

LEMMA DoneJob ==
  ASSUME TypeOK, NEW s \in Stage, Done(s)
  PROVE  /\ working' \in [Stage -> Job] /\ working'[s] = Idle
         /\ \A t \in Stage \ {s} : working'[t] = working[t]
BY DEF TypeOK, Done, Job, Idle

-----------------------------------------------------------------------------
(* Types.                                                                  *)

LEMMA InitIInv == Init => IInv
<1> SUFFICES ASSUME Init PROVE IInv
  OBVIOUS
<1>1. docs = <<>> /\ docs \in Seq(Doc) /\ Len(docs) = 0 /\ Id = {}
  BY DEF Init, Id
<1>2. \A s \in Stage : working[s] = Idle
  BY DEF Init
<1>3. TypeOK
  BY <1>1 DEF Init, TypeOK, Job, Idle
<1>4. Structure
  BY <1>1, <1>2 DEF Init, Structure, Lineage, JobsMatch, Submitted, RecordIsOnChain, Idle, Stage
<1>5. Course
  BY <1>1, <1>2 DEF Course, AttemptedIsOpen, Handed, ArtifactsAvailable
<1>6. QED
  BY <1>3, <1>4, <1>5 DEF IInv

LEMMA TypeStep == TypeOK /\ Structure /\ [Next]_vars => TypeOK'
<1> SUFFICES ASSUME TypeOK, Structure, [Next]_vars PROVE TypeOK'
  OBVIOUS
<1>0. /\ docs \in Seq(Doc) /\ Len(docs) \in Nat /\ Len(docs) <= MaxDocs
      /\ working \in [Stage -> Job] /\ records \subseteq Id /\ lost \subseteq Id
      /\ chain \in [1..MaxDocs -> 0..MaxChain] /\ JobsMatch /\ Lineage /\ Id \subseteq 1..MaxDocs
  BY DocsTyped DEF TypeOK, Structure, Id
<1>1. CASE UNCHANGED vars
  BY <1>1, <1>0 DEF vars, TypeOK, Id
<1>2. ASSUME NEW w \in Window, ensureZkTLSTask(w) PROVE TypeOK'
  <2>1. docs' \in Seq(Doc) /\ Len(docs') = Len(docs) + 1
    BY <1>2, EnsureEffect
  <2>2. Len(docs) < MaxDocs /\ UNCHANGED <<working, records, chain, lost>>
    BY <1>2 DEF ensureZkTLSTask
  <2>3. QED
    BY <1>0, <2>1, <2>2 DEF TypeOK, Id
<1>3. ASSUME NEW d \in Id, Single(d) PROVE TypeOK'
  <2>1. docs' \in Seq(Doc) /\ Len(docs') = Len(docs) /\ UNCHANGED <<records, chain>>
    BY <1>3, SingleEffect DEF OneDoc
  <2>2. working' \in [Stage -> Job]
    BY <1>0, <1>3, BeginJob DEF Single, Wake, RetryFailed, Lose
  <2>3. lost' \subseteq Id
    BY <1>0, <1>3 DEF Single, Wake, Begin, RetryFailed, Lose
  <2>4. QED
    BY <1>0, <2>1, <2>2, <2>3 DEF TypeOK, Id
<1>4. ASSUME NEW s \in Stage, Process(s) PROVE TypeOK'
  BY <1>0, <1>4, ReadyJob DEF Process, TypeOK, Id
<1>5. CASE runZkVerifyProcessor
  <2>1. "zkVerify" \in Stage /\ working["zkVerify"].doc \in 1..MaxDocs
    BY <1>0, <1>5, JobDoc DEF runZkVerifyProcessor, Stage
  <2>2. chain' \in [1..MaxDocs -> 0..MaxChain]
    BY <1>0, <1>5, <2>1 DEF runZkVerifyProcessor
  <2>3. QED
    BY <1>0, <1>5, <2>1, <2>2, ReadyJob DEF runZkVerifyProcessor, TypeOK, Id
<1>6. CASE CommitZkTLS
  <2>1. Succeeded(working["zkTLS"].doc, "noir")
    BY <1>0, <1>6, CommitZkTLSEffect
  <2>2. /\ Len(docs) < MaxDocs /\ UNCHANGED <<records, chain, lost>>
        /\ Done("zkTLS") /\ "zkTLS" \in Stage
    BY <1>0, <1>6 DEF CommitZkTLS, Stage
  <2>3. docs' \in Seq(Doc) /\ Len(docs') = Len(docs) + 1 /\ working' \in [Stage -> Job]
    BY <2>1, <2>2, DoneJob DEF Succeeded
  <2>4. QED
    BY <1>0, <2>2, <2>3 DEF TypeOK, Id
<1>7. CASE CommitNoir
  <2>1. Succeeded(working["noir"].doc, "zkVerify")
    BY <1>0, <1>7, CommitNoirEffect
  <2>2. /\ Len(docs) < MaxDocs /\ UNCHANGED <<records, chain, lost>>
        /\ Done("noir") /\ "noir" \in Stage
    BY <1>0, <1>7 DEF CommitNoir, Stage
  <2>3. docs' \in Seq(Doc) /\ Len(docs') = Len(docs) + 1 /\ working' \in [Stage -> Job]
    BY <2>1, <2>2, DoneJob DEF Succeeded
  <2>4. QED
    BY <1>0, <2>2, <2>3 DEF TypeOK, Id
<1>8. CASE CommitZkVerify
  <2>1. working["zkVerify"].doc \in Id /\ docs' \in Seq(Doc) /\ Len(docs') = Len(docs)
    BY <1>0, <1>8, CommitZkVerifyEffect DEF Rewritten
  <2>2. QED
    BY <1>0, <1>8, <2>1, DoneJob DEF CommitZkVerify, Stage, TypeOK, Id
<1>9. ASSUME NEW s \in Stage, Abort(s) PROVE TypeOK'
  <2>1. docs' \in Seq(Doc) /\ Len(docs') = Len(docs)
    BY <1>0, <1>9, AbortEffect DEF OneDoc
  <2>2. QED
    BY <1>0, <1>9, <2>1, DoneJob DEF Abort, TypeOK, Id
<1>10. CASE Restart
  <2>1. docs' \in Seq(Doc) /\ Len(docs') = Len(docs)
    BY <1>10, RestartEffect DEF Rewritten
  <2>2. working' \in [Stage -> Job]
    BY <1>10 DEF Restart, Job, Idle
  <2>3. QED
    BY <1>0, <1>10, <2>1, <2>2 DEF Restart, TypeOK, Id
<1>11. QED
  BY <1>1, <1>2, <1>3, <1>4, <1>5, <1>6, <1>7, <1>8, <1>9, <1>10 DEF Next, Single

-----------------------------------------------------------------------------
(* Structure.                                                              *)

LEMMA LineageRewritten == ASSUME Lineage, Rewritten PROVE Lineage'
BY DEF Lineage, Rewritten, SameLine, Id

LEMMA LineageGrown ==
  ASSUME TypeOK, Lineage, Len(docs') = Len(docs) + 1, \A c \in Id : SameLine(c),
         NEW e, e = docs'[Len(docs) + 1],
         \/ e.stage = "zkTLS" /\ e.parent = 0
         \/ /\ e.stage # "zkTLS" /\ e.parent \in Id
            /\ docs[e.parent].stage = StageBefore(e.stage)
            /\ docs[e.parent].window = e.window
  PROVE  Lineage'
<1>1. Len(docs) \in Nat /\ Id = 1..Len(docs) /\ Id' = 1..(Len(docs) + 1)
  BY DocsTyped DEF TypeOK, Id
<1>2. Id \subseteq Id' /\ \A c \in Id' : c \in Id \/ c = Len(docs) + 1
  BY <1>1
<1> SUFFICES ASSUME NEW c \in Id'
             PROVE  IF docs'[c].stage = "zkTLS" THEN docs'[c].parent = 0
                    ELSE /\ docs'[c].parent \in Id'
                         /\ docs'[docs'[c].parent].stage = StageBefore(docs'[c].stage)
                         /\ docs'[docs'[c].parent].window = docs'[c].window
  BY DEF Lineage
<1>3. CASE c \in Id
  BY <1>2, <1>3 DEF Lineage, SameLine
<1>4. CASE c = Len(docs) + 1
  BY <1>2, <1>4 DEF SameLine
<1>5. QED
  BY <1>2, <1>3, <1>4

LEMMA SucceededGrows ==
  ASSUME TypeOK, NEW d \in Id, NEW s \in {"noir", "zkVerify"}, Succeeded(d, s),
         docs[d].stage = StageBefore(s), Lineage
  PROVE  (\A c \in Id : SameLine(c)) /\ Lineage'
<1>1. \A c \in Id : SameLine(c)
  BY DEF Succeeded, SameLine
<1>2. /\ docs'[Len(docs) + 1].stage = s /\ docs'[Len(docs) + 1].parent = d
      /\ docs'[Len(docs) + 1].window = docs[d].window
  BY DEF Succeeded, NewDoc
<1>3. QED
  BY <1>1, <1>2, LineageGrown DEF Succeeded

LEMMA JobsKept ==
  ASSUME TypeOK, JobsMatch, Len(docs') \in {Len(docs), Len(docs) + 1},
         \A c \in Id : SameLine(c),
         \A s \in Stage : \/ working'[s] = Idle
                          \/ working'[s].doc = working[s].doc /\ working[s] # Idle
  PROVE  JobsMatch'
<1>1. Len(docs) \in Nat /\ Id \subseteq Id'
  BY DocsTyped DEF TypeOK, Id
<1>2. QED
  BY <1>1 DEF JobsMatch, SameLine

LEMMA StructureStep == TypeOK /\ Structure /\ [Next]_vars => Structure'
<1> SUFFICES ASSUME TypeOK, Structure, [Next]_vars PROVE Structure'
  OBVIOUS
<1>0. /\ docs \in Seq(Doc) /\ Len(docs) \in Nat /\ working \in [Stage -> Job]
      /\ JobsMatch /\ Lineage /\ Submitted /\ RecordIsOnChain
      /\ records \subseteq Id /\ Id \subseteq 1..MaxDocs
  BY DocsTyped DEF TypeOK, Structure, Id
<1>1. CASE UNCHANGED vars
  BY <1>1, <1>0 DEF vars, Structure, Lineage, JobsMatch, Submitted, RecordIsOnChain, Id
<1>2. ASSUME NEW w \in Window, ensureZkTLSTask(w) PROVE Structure'
  <2>1. /\ Len(docs') = Len(docs) + 1 /\ \A c \in Id : SameLine(c)
        /\ docs'[Len(docs) + 1].stage = "zkTLS" /\ docs'[Len(docs) + 1].parent = 0
    BY <1>2, EnsureEffect DEF SameLine
  <2>2. UNCHANGED <<working, records, chain>>
    BY <1>2 DEF ensureZkTLSTask
  <2>3. Lineage'
    BY <1>0, <2>1, LineageGrown
  <2>4. JobsMatch'
    BY <1>0, <2>1, <2>2, JobsKept
  <2>5. QED
    BY <1>0, <2>2, <2>3, <2>4 DEF Structure, Submitted, RecordIsOnChain
<1>3. ASSUME NEW d \in Id, Single(d) PROVE Structure'
  <2>1. Rewritten /\ UNCHANGED <<records, chain>>
    BY <1>3, SingleEffect, OneDocRewrites
  <2>2. Lineage'
    BY <1>0, <2>1, LineageRewritten
  <2>3. CASE UNCHANGED working
    <3>1. JobsMatch'
      BY <1>0, <2>1, <2>3, JobsKept DEF Rewritten
    <3>2. QED
      BY <1>0, <2>1, <2>2, <2>3, <3>1 DEF Structure, Submitted, RecordIsOnChain
  <2>4. CASE Begin(d)
    <3>1. /\ working'[docs[d].stage].doc = d /\ working'[docs[d].stage].step = "begun"
          /\ docs[d].stage \in Stage
          /\ \A s \in Stage \ {docs[d].stage} : working'[s] = working[s]
      BY <2>4, BeginJob
    <3>2. JobsMatch'
      BY <1>0, <2>1, <3>1 DEF JobsMatch, Rewritten, SameLine, Id
    <3>3. Submitted'
      BY <1>0, <2>1, <3>1 DEF Submitted, Stage
    <3>4. QED
      BY <1>0, <2>1, <2>2, <3>2, <3>3 DEF Structure, RecordIsOnChain
  <2>5. QED
    BY <1>3, <2>3, <2>4 DEF Single, Wake, RetryFailed, Lose
<1>4. ASSUME NEW s \in Stage, Process(s) PROVE Structure'
  <2>1. UNCHANGED <<docs, records, chain>> /\ s # "zkVerify" /\ working[s] # Idle
    BY <1>4 DEF Process, Idle
  <2>2. /\ working'[s].doc = working[s].doc
        /\ \A t \in Stage \ {s} : working'[t] = working[t]
    BY <1>4, ReadyJob DEF Process
  <2>3. QED
    BY <1>0, <2>1, <2>2 DEF Structure, Lineage, JobsMatch, Submitted, RecordIsOnChain, Id, Stage
<1>5. CASE runZkVerifyProcessor
  <2>1. /\ working["zkVerify"].doc \in Id /\ working["zkVerify"] # Idle /\ "zkVerify" \in Stage
    BY <1>0, <1>5, JobDoc DEF runZkVerifyProcessor, Stage
  <2>2. /\ working'["zkVerify"].doc = working["zkVerify"].doc
        /\ \A t \in Stage \ {"zkVerify"} : working'[t] = working[t]
    BY <1>5, <2>1, ReadyJob DEF runZkVerifyProcessor
  <2>3. UNCHANGED <<docs, records>>
    BY <1>5 DEF runZkVerifyProcessor
  <2>4. /\ chain'[working["zkVerify"].doc] > 0
        /\ \A c \in Id : chain[c] > 0 => chain'[c] > 0
    <3>1. chain \in [1..MaxDocs -> 0..MaxChain]
      BY DEF TypeOK
    <3>2. chain' = [chain EXCEPT ![working["zkVerify"].doc] = @ + 1]
      BY <1>5 DEF runZkVerifyProcessor
    <3> DEFINE d == working["zkVerify"].doc
    <3>3. d \in 1..MaxDocs
      BY <1>0, <2>1
    <3> HIDE DEF d
    <3>4. chain[d] \in Nat /\ \A c \in 1..MaxDocs : chain'[c] = IF c = d THEN chain[d] + 1 ELSE chain[c]
      BY <3>1, <3>2, <3>3 DEF d
    <3>5. chain'[d] > 0 /\ \A c \in Id : chain[c] > 0 => chain'[c] > 0
      BY <1>0, <3>3, <3>4
    <3>6. QED
      BY <3>5 DEF d
  <2>5. Lineage' /\ JobsMatch'
    BY <1>0, <2>1, <2>2, <2>3 DEF Lineage, JobsMatch, Id
  <2>6. Submitted' /\ RecordIsOnChain'
    BY <1>0, <2>2, <2>3, <2>4 DEF Submitted, RecordIsOnChain
  <2>7. QED
    BY <2>5, <2>6 DEF Structure
<1>6. CASE CommitZkTLS
  <2>1. /\ working["zkTLS"].doc \in Id /\ docs[working["zkTLS"].doc].stage = "zkTLS"
        /\ Succeeded(working["zkTLS"].doc, "noir")
    BY <1>0, <1>6, CommitZkTLSEffect
  <2>2. (\A c \in Id : SameLine(c)) /\ Lineage' /\ Len(docs') = Len(docs) + 1
    BY <1>0, <2>1, SucceededGrows DEF StageBefore, Succeeded
  <2>3. UNCHANGED <<records, chain>> /\ Done("zkTLS") /\ "zkTLS" \in Stage
    BY <1>6 DEF CommitZkTLS, Stage
  <2>4. working'["zkTLS"] = Idle /\ \A t \in Stage \ {"zkTLS"} : working'[t] = working[t]
    BY <2>3, DoneJob
  <2>5. JobsMatch'
    BY <1>0, <2>2, <2>4, JobsKept
  <2>6. QED
    BY <1>0, <2>2, <2>3, <2>4, <2>5 DEF Structure, Submitted, RecordIsOnChain, Stage
<1>7. CASE CommitNoir
  <2>1. /\ working["noir"].doc \in Id /\ docs[working["noir"].doc].stage = "noir"
        /\ Succeeded(working["noir"].doc, "zkVerify")
    BY <1>0, <1>7, CommitNoirEffect
  <2>2. (\A c \in Id : SameLine(c)) /\ Lineage' /\ Len(docs') = Len(docs) + 1
    BY <1>0, <2>1, SucceededGrows DEF StageBefore, Succeeded
  <2>3. UNCHANGED <<records, chain>> /\ Done("noir") /\ "noir" \in Stage
    BY <1>7 DEF CommitNoir, Stage
  <2>4. working'["noir"] = Idle /\ \A t \in Stage \ {"noir"} : working'[t] = working[t]
    BY <2>3, DoneJob
  <2>5. JobsMatch'
    BY <1>0, <2>2, <2>4, JobsKept
  <2>6. QED
    BY <1>0, <2>2, <2>3, <2>4, <2>5 DEF Structure, Submitted, RecordIsOnChain, Stage
<1>8. CASE CommitZkVerify
  <2>1. Rewritten
    BY <1>0, <1>8, CommitZkVerifyEffect
  <2>2. /\ records' = records \cup {working["zkVerify"].doc} /\ UNCHANGED chain
        /\ Done("zkVerify") /\ "zkVerify" \in Stage /\ working["zkVerify"].step = "ready"
    BY <1>8 DEF CommitZkVerify, Stage
  <2>3. working'["zkVerify"] = Idle /\ \A t \in Stage \ {"zkVerify"} : working'[t] = working[t]
    BY <2>2, DoneJob
  <2>4. JobsMatch' /\ Lineage'
    BY <1>0, <2>1, <2>3, JobsKept, LineageRewritten DEF Rewritten
  <2>5. QED
    BY <1>0, <2>2, <2>3, <2>4 DEF Structure, Submitted, RecordIsOnChain, Idle
<1>9. ASSUME NEW s \in Stage, Abort(s) PROVE Structure'
  <2>1. Rewritten
    BY <1>0, <1>9, AbortEffect, OneDocRewrites
  <2>2. UNCHANGED <<records, chain>> /\ Done(s)
    BY <1>9 DEF Abort
  <2>3. working'[s] = Idle /\ \A t \in Stage \ {s} : working'[t] = working[t]
    BY <2>2, DoneJob
  <2>4. JobsMatch' /\ Lineage'
    BY <1>0, <2>1, <2>3, JobsKept, LineageRewritten DEF Rewritten
  <2>5. QED
    BY <1>0, <2>2, <2>3, <2>4 DEF Structure, Submitted, RecordIsOnChain, Idle, Stage
<1>10. CASE Restart
  <2>1. Rewritten /\ UNCHANGED <<records, chain>> /\ \A s \in Stage : working'[s] = Idle
    BY <1>10, RestartEffect DEF Restart
  <2>2. JobsMatch' /\ Lineage'
    BY <1>0, <2>1, JobsKept, LineageRewritten DEF Rewritten
  <2>3. QED
    BY <1>0, <2>1, <2>2 DEF Structure, Submitted, RecordIsOnChain, Idle, Stage
<1>11. QED
  BY <1>1, <1>2, <1>3, <1>4, <1>5, <1>6, <1>7, <1>8, <1>9, <1>10 DEF Next, Single

-----------------------------------------------------------------------------
(* The course of an intact window.                                         *)

LEMMA IntactBefore ==
  ASSUME lost \subseteq Id, lost \subseteq lost', \A c \in Id : SameLine(c), NEW w, Intact(w)'
  PROVE  Intact(w)
BY DEF Intact, SameLine

(* The proof a zkVerify task of an intact window needs is on a noir task   *)
(* that is done and that has no other successor.                           *)
LEMMA ParentIsDone ==
  ASSUME TypeOK, Lineage, Handed,
         NEW c \in Id, docs[c].stage = "zkVerify", Intact(docs[c].window)
  PROVE  LET q == docs[c].parent
         IN  /\ q \in Id /\ docs[q].stage = "noir" /\ docs[q].phase = "done"
             /\ docs[q].window = docs[c].window
             /\ \A b \in Id : docs[b].parent = q <=> b = c
<1> DEFINE q == docs[c].parent
<1>1. q \in Id /\ docs[q].stage = "noir" /\ docs[q].window = docs[c].window
  BY DEF Lineage, StageBefore
<1>2. HandedOver(q)
  BY <1>1 DEF Handed
<1>3. QED
  BY <1>1, <1>2 DEF HandedOver

(* No document is created or completed, and what is done is left alone.    *)
LEMMA CourseRewritten ==
  ASSUME TypeOK, Lineage, Handed, ArtifactsAvailable,
         Rewritten, UNCHANGED records, lost \subseteq lost',
         \A c \in Id : Intact(docs[c].window)' =>
           /\ docs'[c].phase = "done" <=> docs[c].phase = "done"
           /\ docs'[c].input = docs[c].input
           /\ docs[c].phase = "done" => docs'[c].result = docs[c].result
  PROVE  Handed' /\ ArtifactsAvailable'
<1>1. Id' = Id /\ lost \subseteq Id /\ \A c \in Id : SameLine(c)
  BY DEF Rewritten, Id, TypeOK
<1> SUFFICES ASSUME NEW c \in Id, Intact(docs[c].window)'
             PROVE  /\ HandedOver(c)'
                    /\ docs'[c].phase # "done" =>
                         /\ docs'[c].stage = "noir" => docs'[c].input
                         /\ docs'[c].stage = "zkVerify" => docs'[docs'[c].parent].result
  BY <1>1 DEF Handed, ArtifactsAvailable
<1>2. SameLine(c) /\ Intact(docs[c].window)
  BY <1>1 DEF Intact, SameLine
<1>3. /\ docs'[c].phase = "done" <=> docs[c].phase = "done"
      /\ docs'[c].input = docs[c].input
  BY <1>2
<1>4. HandedOver(c)'
  <2>1. HandedOver(c)
    BY <1>2 DEF Handed
  <2>2. QED
    BY <1>1, <1>2, <1>3, <2>1 DEF HandedOver, SameLine
<1>5. ASSUME docs[c].stage = "zkVerify", docs[c].phase # "done"
      PROVE  docs'[docs[c].parent].result
  <2>1. PICK q \in Id : /\ q = docs[c].parent /\ docs[q].phase = "done"
                        /\ docs[q].window = docs[c].window
    BY <1>2, <1>5, ParentIsDone
  <2>2. docs[q].result
    BY <1>2, <1>5, <2>1 DEF ArtifactsAvailable
  <2>3. Intact(docs[q].window)'
    BY <1>1, <1>2, <2>1 DEF Intact, SameLine
  <2>4. QED
    BY <2>1, <2>2, <2>3
<1>6. QED
  BY <1>2, <1>3, <1>4, <1>5 DEF ArtifactsAvailable, SameLine

(* A document whose successors stay the same.                              *)
LEMMA StaysHandedOver ==
  ASSUME NEW c \in Id, NEW n, Id' = Id \cup {n}, HandedOver(c), docs'[c] = docs[c],
         \A b \in Id : docs'[b].parent = docs[b].parent,
         docs'[n].parent # c, c \in records' <=> c \in records
  PROVE  HandedOver(c)'
<1>1. CASE docs[c].stage = "zkVerify"
  BY <1>1 DEF HandedOver
<1>2. CASE docs[c].stage # "zkVerify" /\ docs[c].phase = "done"
  <2>1. PICK e \in Id : \A b \in Id : docs[b].parent = c <=> b = e
    BY <1>2 DEF HandedOver
  <2>2. \A b \in Id' : docs'[b].parent = c <=> b = e
    BY <2>1
  <2>3. QED
    BY <1>2, <2>2 DEF HandedOver
<1>3. CASE docs[c].stage # "zkVerify" /\ docs[c].phase # "done"
  BY <1>3 DEF HandedOver
<1>4. QED
  BY <1>1, <1>2, <1>3

(* The new window's zkTLS task has no predecessor, so that nobody else's   *)
(* successors change.                                                      *)
LEMMA CourseEnsured ==
  ASSUME TypeOK, Structure, Handed, ArtifactsAvailable, NEW w \in Window, ensureZkTLSTask(w)
  PROVE  Handed' /\ ArtifactsAvailable'
<1>0. PICK n : n = Len(docs) + 1
  OBVIOUS
<1>1. /\ docs \in Seq(Doc) /\ Len(docs) \in Nat /\ Id = 1..Len(docs) /\ Id' = 1..n
      /\ Id' = Id \cup {n} /\ n \notin Id /\ 0 \notin Id /\ 0 # n /\ lost \subseteq Id
      /\ \A c \in Id : docs'[c] = docs[c]
      /\ docs'[n].stage = "zkTLS" /\ docs'[n].parent = 0 /\ docs'[n].phase = "parked"
      /\ UNCHANGED <<records, lost>> /\ records \subseteq Id /\ Lineage
  <2>1. docs \in Seq(Doc) /\ lost \subseteq Id /\ records \subseteq Id /\ Lineage
    BY DEF TypeOK, Structure
  <2>2. Len(docs) \in Nat /\ Id = 1..Len(docs)
    BY <2>1, DocsTyped
  <2>3. /\ Len(docs') = n /\ \A c \in Id : docs'[c] = docs[c]
        /\ docs'[n].stage = "zkTLS" /\ docs'[n].parent = 0 /\ docs'[n].phase = "parked"
    BY <1>0, EnsureEffect
  <2>4. Id' = 1..n
    BY <2>3 DEF Id
  <2>5. UNCHANGED <<records, lost>>
    BY DEF ensureZkTLSTask
  <2>6. Id' = Id \cup {n} /\ n \notin Id /\ 0 \notin Id /\ 0 # n
    BY <1>0, <2>2, <2>4
  <2>7. QED
    BY <2>1, <2>2, <2>3, <2>4, <2>5, <2>6
<1>2. \A c \in Id : docs[c].parent # n
  BY <1>1 DEF Lineage
<1>3. ASSUME NEW c \in Id, Intact(docs[c].window)'
      PROVE  /\ HandedOver(c)'
             /\ docs'[c].phase # "done" =>
                  /\ docs'[c].stage = "noir" => docs'[c].input
                  /\ docs'[c].stage = "zkVerify" => docs'[docs'[c].parent].result
  <2>1. Intact(docs[c].window)
    BY <1>1, <1>3 DEF Intact
  <2>2. HandedOver(c)'
    <3>1. HandedOver(c)
      BY <2>1 DEF Handed
    <3>2. QED
      BY <1>1, <3>1, StaysHandedOver
  <2>3. docs[c].stage = "zkVerify" => docs[c].parent \in Id
    BY DEF Lineage, Structure
  <2>4. QED
    BY <1>1, <2>1, <2>2, <2>3 DEF ArtifactsAvailable
<1>4. HandedOver(n)'
  BY <1>1, <1>2 DEF HandedOver
<1>5. QED
  BY <1>1, <1>3, <1>4 DEF Handed, ArtifactsAvailable

(* A document of an intact window is completed and gets its one successor. *)
LEMMA CourseSucceeded ==
  ASSUME TypeOK, Structure, Handed, ArtifactsAvailable,
         NEW d \in Id, NEW s \in {"noir", "zkVerify"}, Succeeded(d, s),
         docs[d].stage = StageBefore(s), UNCHANGED <<records, lost>>,
         Intact(docs[d].window) => docs[d].phase # "done",
         s = "zkVerify" => docs'[d].result
  PROVE  Handed' /\ ArtifactsAvailable'
<1>0. PICK n : n = Len(docs) + 1
  OBVIOUS
<1>1. /\ docs \in Seq(Doc) /\ Len(docs) \in Nat /\ Id = 1..Len(docs) /\ Id' = 1..n
      /\ Id' = Id \cup {n} /\ n \notin Id /\ 0 \notin Id /\ lost \subseteq Id
      /\ records \subseteq Id /\ Lineage
  BY <1>0, DocsTyped DEF TypeOK, Id, Structure, Succeeded
<1>2. /\ \A c \in Id \ {d} : docs'[c] = docs[c]
      /\ docs'[d].stage = docs[d].stage /\ docs'[d].window = docs[d].window
      /\ docs'[d].parent = docs[d].parent /\ docs'[d].phase = "done"
      /\ docs'[n].stage = s /\ docs'[n].window = docs[d].window /\ docs'[n].parent = d
      /\ docs'[n].phase = "open" /\ docs'[n].input
  BY <1>0 DEF Succeeded, SameLine, NewDoc
<1>3. \A c \in Id : docs[c].parent # n /\ docs'[c].parent = docs[c].parent
  BY <1>1, <1>2 DEF Lineage
<1>4. ASSUME NEW c \in Id, Intact(docs[c].window)' PROVE Intact(docs[c].window)
  BY <1>1, <1>2, <1>4 DEF Intact
<1>5. Intact(docs[d].window) => \A b \in Id : docs[b].parent # d
  BY DEF Handed, HandedOver, StageBefore
<1>6. HandedOver(n)'
  BY <1>1, <1>2, <1>3 DEF HandedOver
<1>7. ASSUME NEW c \in Id, Intact(docs[c].window)' PROVE HandedOver(c)'
  <2>1. Intact(docs[c].window) /\ HandedOver(c)
    BY <1>4, <1>7 DEF Handed
  <2>2. CASE c = d
    <3>1. \A b \in Id' : docs'[b].parent = d <=> b = n
      BY <1>1, <1>2, <1>3, <1>5, <2>1, <2>2
    <3>2. QED
      BY <1>1, <1>2, <2>2, <3>1 DEF HandedOver, StageBefore
  <2>3. CASE c # d
    <3>1. docs'[c] = docs[c] /\ \A b \in Id : docs'[b].parent = docs[b].parent
      BY <1>2, <1>3, <2>3
    <3>2. docs'[n].parent # c
      BY <1>2, <2>3
    <3>3. QED
      BY <1>1, <2>1, <3>1, <3>2, StaysHandedOver
  <2>4. QED
    BY <2>2, <2>3
<1>8. ASSUME NEW c \in Id, Intact(docs[c].window)', docs'[c].phase # "done"
      PROVE  /\ docs'[c].stage = "noir" => docs'[c].input
             /\ docs'[c].stage = "zkVerify" => docs'[docs'[c].parent].result
  <2>1. c # d /\ docs'[c] = docs[c] /\ Intact(docs[c].window)
    BY <1>2, <1>4, <1>8
  <2>2. ASSUME docs[c].stage = "zkVerify" PROVE docs'[docs[c].parent].result
    <3>1. PICK q \in Id : q = docs[c].parent /\ docs[q].window = docs[c].window
      BY <1>1, <2>1, <2>2, ParentIsDone
    <3>2. q # d
      BY <1>5, <2>1, <3>1
    <3>3. QED
      BY <1>2, <1>8, <2>1, <2>2, <3>1, <3>2 DEF ArtifactsAvailable
  <2>3. QED
    BY <1>8, <2>1, <2>2 DEF ArtifactsAvailable
<1>9. /\ docs'[n].stage = "zkVerify" => docs'[docs'[n].parent].result
  BY <1>2
<1>10. QED
  BY <1>1, <1>2, <1>6, <1>7, <1>8, <1>9 DEF Handed, ArtifactsAvailable

(* The last stage: the record is created and the proof, which no other     *)
(* task needs, is dropped.                                                 *)
LEMMA CourseRecorded ==
  ASSUME TypeOK, Structure, Handed, ArtifactsAvailable, CommitZkVerify
  PROVE  Handed' /\ ArtifactsAvailable'
<1>0. JobsMatch /\ Lineage
  BY DEF Structure
<1>1. PICK d \in Id, q \in Id : d = working["zkVerify"].doc /\ q = docs[d].parent
  BY <1>0, CommitZkVerifyEffect
<1>2. /\ q # d
      /\ docs[d].stage = "zkVerify" /\ docs[q].stage = "noir"
      /\ docs[q].window = docs[d].window
      /\ Rewritten
      /\ docs'[d].phase = "done" /\ docs'[q].phase = docs[q].phase
      /\ docs'[q].input = docs[q].input
      /\ \A c \in Id \ {d, q} : docs'[c] = docs[c]
  BY <1>0, <1>1, CommitZkVerifyEffect
<1>3. records' = records \cup {d} /\ lost' = lost /\ lost \subseteq Id /\ Id' = Id
  BY <1>1, <1>2 DEF CommitZkVerify, TypeOK, Rewritten, Id
<1>4. \A c \in Id : SameLine(c)
  BY <1>2 DEF Rewritten
<1>5. ASSUME NEW c \in Id, Intact(docs[c].window)' PROVE Intact(docs[c].window)
  BY <1>3, <1>4, <1>5 DEF Intact, SameLine
<1>6. ASSUME NEW c \in Id, Intact(docs[c].window)' PROVE HandedOver(c)'
  <2>1. HandedOver(c)
    BY <1>5, <1>6 DEF Handed
  <2>2. c # d => docs'[c].phase = docs[c].phase /\ (c \in records' <=> c \in records)
    BY <1>2, <1>3
  <2>3. \A b \in Id : docs'[b].parent = docs[b].parent /\ docs'[b].stage = docs[b].stage
    BY <1>4 DEF SameLine
  <2>4. QED
    BY <1>2, <1>3, <2>1, <2>2, <2>3 DEF HandedOver
<1>7. ASSUME NEW c \in Id, Intact(docs[c].window)', docs'[c].phase # "done"
      PROVE  /\ docs'[c].stage = "noir" => docs'[c].input
             /\ docs'[c].stage = "zkVerify" => docs'[docs'[c].parent].result
  <2>1. c # d /\ docs'[c].input = docs[c].input /\ docs'[c].phase = docs[c].phase
    BY <1>2, <1>7
  <2>2. Intact(docs[c].window)
    BY <1>5, <1>7
  <2>3. ASSUME docs[c].stage = "zkVerify" PROVE docs'[docs[c].parent].result
    <3>1. PICK p \in Id :
            /\ p = docs[c].parent /\ docs[p].stage = "noir"
            /\ \A b \in Id : docs[b].parent = p <=> b = c
      BY <1>0, <2>2, <2>3, ParentIsDone
    <3>2. p # q /\ p # d
      BY <1>1, <1>2, <2>1, <3>1
    <3>3. QED
      BY <1>2, <1>7, <2>1, <2>2, <2>3, <3>1, <3>2 DEF ArtifactsAvailable
  <2>4. QED
    BY <1>4, <1>7, <2>1, <2>2, <2>3 DEF ArtifactsAvailable, SameLine
<1>8. QED
  BY <1>3, <1>6, <1>7 DEF Handed, ArtifactsAvailable

(* A job goes on, or the worker is free again.                             *)
LEMMA AttemptsGoOn ==
  ASSUME TypeOK, JobsMatch, AttemptedIsOpen, lost \subseteq lost', \A c \in Id : SameLine(c),
         \A s \in Stage : working'[s] # Idle =>
           /\ working[s] # Idle /\ working'[s].doc = working[s].doc
           /\ \A d \in Id : d = working[s].doc /\ Intact(docs[d].window)'
                              /\ docs[d].phase = "open" => docs'[d].phase = "open"
  PROVE  AttemptedIsOpen'
<1> SUFFICES ASSUME NEW s \in Stage, working'[s] # Idle,
                    Intact(docs[working[s].doc].window)'
             PROVE  docs'[working'[s].doc].phase = "open"
  BY DEF AttemptedIsOpen
<1>1. PICK d \in Id : d = working[s].doc /\ working'[s].doc = d
  BY DEF JobsMatch
<1>2. Intact(docs[d].window)' /\ Intact(docs[d].window)
  BY <1>1 DEF Intact, SameLine, TypeOK
<1>3. docs[d].phase = "open"
  BY <1>1, <1>2 DEF AttemptedIsOpen
<1>4. QED
  BY <1>1, <1>2, <1>3

LEMMA CourseUnchanged ==
  ASSUME TypeOK, Handed, ArtifactsAvailable, UNCHANGED <<docs, records, lost>>
  PROVE  Handed' /\ ArtifactsAvailable'
<1>1. Id' = Id /\ \A c \in Id : Intact(docs[c].window)' => Intact(docs[c].window)
  BY DEF Id, Intact
<1>2. Handed'
  BY <1>1 DEF Handed, HandedOver
<1>3. ArtifactsAvailable'
  BY <1>1 DEF ArtifactsAvailable
<1>4. QED
  BY <1>2, <1>3

LEMMA CourseStep == IInv /\ [Next]_vars => Course'
<1> SUFFICES ASSUME IInv, [Next]_vars PROVE Course'
  OBVIOUS
<1>0. /\ TypeOK /\ Structure /\ JobsMatch /\ Lineage /\ AttemptedIsOpen /\ Handed
      /\ ArtifactsAvailable /\ docs \in Seq(Doc) /\ Len(docs) \in Nat /\ lost \subseteq Id
  BY DocsTyped DEF IInv, Structure, Course, TypeOK
<1>1. CASE UNCHANGED vars
  <2>1. UNCHANGED <<docs, working, records, lost>>
    BY <1>1 DEF vars
  <2>2. Handed' /\ ArtifactsAvailable'
    BY <1>0, <2>1, CourseUnchanged
  <2>3. AttemptedIsOpen'
    BY <1>0, <2>1, AttemptsGoOn DEF SameLine
  <2>4. QED
    BY <2>2, <2>3 DEF Course
<1>2. ASSUME NEW w \in Window, ensureZkTLSTask(w) PROVE Course'
  <2>1. Handed' /\ ArtifactsAvailable'
    BY <1>0, <1>2, CourseEnsured
  <2>2. UNCHANGED <<working, lost>> /\ \A c \in Id : docs'[c] = docs[c] /\ SameLine(c)
    BY <1>0, <1>2, EnsureEffect DEF ensureZkTLSTask, SameLine
  <2>3. AttemptedIsOpen'
    BY <1>0, <2>2, AttemptsGoOn
  <2>4. QED
    BY <2>1, <2>3 DEF Course
<1>3. ASSUME NEW d \in Id, Single(d) PROVE Course'
  <2>1. PICK p \in Phase, r \in BOOLEAN : OneDoc(d, p, r)
    BY <1>0, <1>3, SingleEffect
  <2>2. /\ Rewritten /\ UNCHANGED records /\ lost \subseteq lost'
        /\ \A c \in Id : SameLine(c)
        /\ \A c \in Id \ {d} : docs'[c] = docs[c]
        /\ docs'[d].input = docs[d].input
    BY <1>0, <1>3, <2>1, OneDocRewrites, SingleEffect
    DEF OneDoc, Rewritten, Single, Wake, Begin, RetryFailed, Lose
  <2>3. CASE Lose(d)
    <3>1. ~Intact(docs[d].window)'
      BY <2>2, <2>3 DEF Lose, Intact, SameLine
    <3>2. Handed' /\ ArtifactsAvailable'
      <4>1. \A c \in Id : Intact(docs[c].window)' => docs'[c] = docs[c]
        BY <2>2, <3>1
      <4>2. QED
        BY <1>0, <2>2, <4>1, CourseRewritten
    <3>3. AttemptedIsOpen'
      <4>1. UNCHANGED working
        BY <2>3 DEF Lose
      <4>2. QED
        BY <1>0, <2>2, <3>1, <4>1, AttemptsGoOn
    <3>4. QED
      BY <3>2, <3>3 DEF Course
  <2>4. CASE Wake(d) \/ RetryFailed(d) \/ Begin(d)
    <3>1. /\ docs[d].phase # "done" /\ docs'[d].phase # "done"
          /\ docs[d].phase = "open" => docs'[d].phase = "open"
      <4>1. CASE Wake(d) \/ RetryFailed(d)
        BY <1>0, <4>1, PhaseWritten DEF Wake, RetryFailed, OneDoc, Phase
      <4>2. CASE Begin(d)
        BY <1>0, <4>2, ResultWritten DEF Begin, OneDoc
      <4>3. QED
        BY <2>4, <4>1, <4>2
    <3>2. Handed' /\ ArtifactsAvailable'
      <4>1. \A c \in Id : /\ docs'[c].phase = "done" <=> docs[c].phase = "done"
                          /\ docs'[c].input = docs[c].input
                          /\ docs[c].phase = "done" => docs'[c].result = docs[c].result
        BY <2>2, <3>1
      <4>2. QED
        BY <1>0, <2>2, <4>1, CourseRewritten
    <3>3. CASE UNCHANGED working
      <4>1. \A c \in Id : docs[c].phase = "open" => docs'[c].phase = "open"
        BY <2>2, <3>1
      <4>2. AttemptedIsOpen'
        BY <1>0, <2>2, <3>3, <4>1, AttemptsGoOn
      <4>3. QED
        BY <3>2, <4>2 DEF Course
    <3>4. CASE Begin(d)
      <4>1. /\ working'[docs[d].stage].doc = d /\ docs[d].phase = "open"
            /\ docs'[d].phase = "open"
            /\ \A s \in Stage \ {docs[d].stage} : working'[s] = working[s]
        <5>1. docs[d].phase = "open"
          BY <3>4 DEF Begin
        <5>2. /\ working'[docs[d].stage].doc = d
              /\ \A s \in Stage \ {docs[d].stage} : working'[s] = working[s]
          BY <1>0, <3>4, BeginJob
        <5>3. QED
          BY <3>1, <5>1, <5>2
      <4>2. ASSUME NEW s \in Stage, working'[s] # Idle,
                   Intact(docs[working[s].doc].window)'
            PROVE  docs'[working'[s].doc].phase = "open"
        <5>1. CASE s = docs[d].stage
          BY <4>1, <5>1
        <5>2. CASE s # docs[d].stage
          <6>1. working'[s] = working[s] /\ working[s].doc \in Id
            BY <1>0, <4>1, <4>2, <5>2 DEF JobsMatch
          <6>2. Intact(docs[working[s].doc].window)
            BY <1>0, <2>2, <4>2, <6>1 DEF Intact, SameLine
          <6>3. docs[working[s].doc].phase = "open"
            BY <1>0, <4>2, <6>1, <6>2 DEF AttemptedIsOpen
          <6>4. QED
            BY <2>2, <4>1, <6>1, <6>3
        <5>3. QED
          BY <5>1, <5>2
      <4>3. AttemptedIsOpen'
        BY <4>2 DEF AttemptedIsOpen
      <4>4. QED
        BY <3>2, <4>3 DEF Course
    <3>5. QED
      BY <2>4, <3>3, <3>4 DEF Wake, RetryFailed
  <2>5. QED
    BY <1>3, <2>3, <2>4 DEF Single
<1>4. CASE (\E s \in Stage : Process(s)) \/ runZkVerifyProcessor
  <2>1. PICK s \in Stage : Ready(s) /\ working[s].step = "begun"
    BY <1>4 DEF Process, runZkVerifyProcessor, Stage
  <2>2. UNCHANGED <<docs, records, lost>>
    BY <1>4 DEF Process, runZkVerifyProcessor
  <2>3. working'[s].doc = working[s].doc /\ working[s] # Idle
        /\ \A t \in Stage \ {s} : working'[t] = working[t]
    BY <1>0, <2>1, ReadyJob DEF Idle
  <2>4. QED
    <3>1. Handed' /\ ArtifactsAvailable'
      BY <1>0, <2>2, CourseUnchanged
    <3>2. AttemptedIsOpen'
      BY <1>0, <2>2, <2>3, AttemptsGoOn DEF SameLine
    <3>3. QED
      BY <3>1, <3>2 DEF Course
<1>5. CASE CommitZkTLS \/ CommitNoir
  <2>1. PICK s \in {"zkTLS", "noir"}, t \in {"noir", "zkVerify"}, d \in Id :
          /\ d = working[s].doc /\ docs[d].stage = s /\ s = StageBefore(t)
          /\ Succeeded(d, t) /\ working[s].step = "ready" /\ Done(s)
          /\ t = "zkVerify" => docs'[d].result
    <3>1. CASE CommitZkTLS
      BY <1>0, <3>1, CommitZkTLSEffect DEF StageBefore, CommitZkTLS
    <3>2. CASE CommitNoir
      BY <1>0, <3>2, CommitNoirEffect DEF StageBefore, CommitNoir
    <3>3. QED
      BY <1>5, <3>1, <3>2
  <2>2. UNCHANGED <<records, lost>> /\ s \in Stage
    BY <1>5 DEF CommitZkTLS, CommitNoir, Stage
  <2>3. Intact(docs[d].window) => docs[d].phase # "done"
    BY <1>0, <2>1, <2>2 DEF AttemptedIsOpen, Idle
  <2>4. Handed' /\ ArtifactsAvailable'
    BY <1>0, <2>1, <2>2, <2>3, CourseSucceeded
  <2>5. /\ \A c \in Id : SameLine(c)
        /\ \A c \in Id \ {d} : docs'[c] = docs[c]
        /\ working'[s] = Idle /\ \A r \in Stage \ {s} : working'[r] = working[r]
    BY <1>0, <2>1, <2>2, DoneJob DEF Succeeded, SameLine
  <2>6. \A r \in Stage \ {s} : working[r] # Idle => working[r].doc # d
    BY <1>0, <2>1 DEF JobsMatch
  <2>7. AttemptedIsOpen'
    BY <1>0, <2>2, <2>5, <2>6, AttemptsGoOn
  <2>8. QED
    BY <2>4, <2>7 DEF Course
<1>6. CASE CommitZkVerify
  <2>1. Handed' /\ ArtifactsAvailable'
    BY <1>0, <1>6, CourseRecorded
  <2>2. PICK d \in Id, q \in Id : d = working["zkVerify"].doc /\ q = docs[d].parent
    BY <1>0, <1>6, CommitZkVerifyEffect
  <2>3. /\ Rewritten /\ docs[d].stage = "zkVerify" /\ docs'[q].phase = docs[q].phase
        /\ \A c \in Id \ {d, q} : docs'[c] = docs[c]
    BY <1>0, <1>6, <2>2, CommitZkVerifyEffect
  <2>4. /\ working'["zkVerify"] = Idle /\ UNCHANGED lost
        /\ \A s \in Stage \ {"zkVerify"} : working'[s] = working[s]
    BY <1>0, <1>6, DoneJob DEF CommitZkVerify, Stage
  <2>5. \A s \in Stage \ {"zkVerify"} : working[s] # Idle => working[s].doc # d
    BY <1>0, <2>3 DEF JobsMatch
  <2>6. \A c \in Id \ {d} : docs'[c].phase = docs[c].phase
    BY <2>3
  <2>7. AttemptedIsOpen'
    BY <1>0, <2>3, <2>4, <2>5, <2>6, AttemptsGoOn DEF Rewritten
  <2>8. QED
    BY <2>1, <2>7 DEF Course
<1>7. ASSUME NEW s \in Stage, Abort(s) PROVE Course'
  <2>1. PICK d \in Id, p \in {"open", "failed", "parked"} :
          d = working[s].doc /\ docs[d].stage = s /\ OneDoc(d, p, FALSE)
    BY <1>0, <1>7, AbortEffect
  <2>2. /\ Rewritten /\ UNCHANGED <<records, lost>> /\ working[s] # Idle /\ Done(s)
        /\ \A c \in Id : SameLine(c)
        /\ \A c \in Id \ {d} : docs'[c] = docs[c]
        /\ docs'[d].input = docs[d].input /\ docs'[d].phase # "done"
    BY <1>7, <2>1, OneDocRewrites DEF OneDoc, Rewritten, Abort
  <2>3. Intact(docs[d].window)' => docs[d].phase = "open"
    BY <1>0, <2>1, <2>2 DEF AttemptedIsOpen, Intact, SameLine
  <2>4. Handed' /\ ArtifactsAvailable'
    BY <1>0, <2>2, <2>3, CourseRewritten
  <2>5. working'[s] = Idle /\ \A t \in Stage \ {s} : working'[t] = working[t]
    BY <1>0, <2>2, DoneJob
  <2>6. \A t \in Stage \ {s} : working[t] # Idle => working[t].doc # d
    BY <1>0, <2>1 DEF JobsMatch
  <2>7. AttemptedIsOpen'
    BY <1>0, <2>2, <2>5, <2>6, AttemptsGoOn
  <2>8. QED
    BY <2>4, <2>7 DEF Course
<1>8. CASE Restart
  <2>1. /\ Rewritten /\ UNCHANGED <<records, lost>> /\ \A s \in Stage : working'[s] = Idle
        /\ \A c \in Id : /\ docs'[c].phase = docs[c].phase /\ docs'[c].input = docs[c].input
                         /\ docs[c].phase # "open" => docs'[c] = docs[c]
    BY <1>0, <1>8, RestartEffect DEF Restart
  <2>2. Handed' /\ ArtifactsAvailable'
    BY <1>0, <2>1, CourseRewritten
  <2>3. QED
    BY <2>1, <2>2 DEF Course, AttemptedIsOpen
<1>9. QED
  BY <1>1, <1>2, <1>3, <1>4, <1>5, <1>6, <1>7, <1>8 DEF Next, Single

-----------------------------------------------------------------------------
(* The inductive invariant of the chain of stages holds in every run.      *)
THEOREM InvariantHolds == Spec => []IInv
<1>1. IInv /\ [Next]_vars => IInv'
  BY TypeStep, StructureStep, CourseStep DEF IInv
<1>2. QED
  BY <1>1, InitIInv, PTL DEF Spec

(* The task collection and the workers' jobs keep their types.             *)
THEOREM TypeCorrect == Spec => []TypeOK
<1>1. IInv => TypeOK
  BY DEF IInv
<1>2. QED
  BY <1>1, InvariantHolds, PTL

(* Through crashes, aborted attempts and retries, a task of a window whose *)
(* completions were not lost finds what it needs: the circuit input on     *)
(* itself, or the proof on its noir task.                                  *)
THEOREM AlwaysAvailable == Spec => []ArtifactsAvailable
<1>1. IInv => ArtifactsAvailable
  BY DEF IInv, Course
<1>2. QED
  BY <1>1, InvariantHolds, PTL

LEMMA HandedIsCounted == TypeOK /\ Handed => HandedOverOnce
<1> SUFFICES ASSUME TypeOK, Handed, NEW d \in Id, Intact(docs[d].window),
                    docs[d].stage # "zkVerify"
             PROVE  Cardinality(Children(d)) = IF docs[d].phase = "done" THEN 1 ELSE 0
  BY DEF HandedOverOnce, Handed, HandedOver
<1>1. CASE docs[d].phase = "done"
  <2>1. PICK c \in Id : \A b \in Id : docs[b].parent = d <=> b = c
    BY <1>1 DEF Handed, HandedOver
  <2>2. Children(d) = {c}
    BY <2>1 DEF Children
  <2>3. QED
    BY <1>1, <2>2, FS_Singleton
<1>2. CASE docs[d].phase # "done"
  <2>1. Children(d) = {}
    BY <1>2 DEF Handed, HandedOver, Children
  <2>2. QED
    BY <1>2, <2>1, FS_EmptySet
<1>3. QED
  BY <1>1, <1>2

(* However often the daemon dies between the transactions, an intact       *)
(* window's task has one successor when it is done and none before, and    *)
(* the last one a record exactly when it is done.                          *)
THEOREM OneSuccessor == Spec => []HandedOverOnce
<1>1. IInv => HandedOverOnce
  BY HandedIsCounted DEF IInv, Course
<1>2. QED
  BY <1>1, InvariantHolds, PTL

(* Whatever completions are lost, a verification record is only there for  *)
(* a proof that was submitted.                                             *)
THEOREM RecordsAreOnChain == Spec => []RecordIsOnChain
<1>1. IInv => RecordIsOnChain
  BY DEF IInv, Structure
<1>2. QED
  BY <1>1, InvariantHolds, PTL

LEMMA StepSubmitsNoRecord ==
  ASSUME IInv, [Next]_vars, NEW d \in records, Intact(docs[d].window)
  PROVE  chain'[d] = chain[d]
<1>1. CASE UNCHANGED chain
  BY <1>1
<1>2. CASE runZkVerifyProcessor
  <2>1. /\ working["zkVerify"] # Idle /\ working["zkVerify"].doc \in Id
        /\ docs[working["zkVerify"].doc].stage = "zkVerify" /\ "zkVerify" \in Stage
    BY <1>2, JobDoc DEF runZkVerifyProcessor, IInv, Structure, Stage
  <2>2. working["zkVerify"].doc # d
    BY <2>1 DEF IInv, TypeOK, Course, AttemptedIsOpen, Handed, HandedOver
  <2>3. QED
    BY <1>2, <2>2 DEF runZkVerifyProcessor, IInv, TypeOK
<1>3. QED
  BY <1>1, <1>2 DEF Next, vars, ensureZkTLSTask, Wake, Begin, Process, CommitZkTLS, CommitNoir,
                    CommitZkVerify, Abort, Restart, RetryFailed, Lose

(* The proof of an intact window that has a verification record is never   *)
(* submitted to zkVerify again.                                            *)
THEOREM RecordedOnce == Spec => NoSubmissionAfterRecord
<1>1. IInv /\ [Next]_vars =>
        [\A d \in records : Intact(docs[d].window) => chain'[d] = chain[d]]_vars
  BY StepSubmitsNoRecord
<1>2. QED
  BY <1>1, InvariantHolds, PTL DEF Spec, NoSubmissionAfterRecord

-----------------------------------------------------------------------------
(* Pipeline takes its stages at the level of TaskPromise.  That it takes   *)
(* no more and no less: the documents of each stage, followed by           *)
(* themselves, do what the promise allows, as long as no completion is     *)
(* lost.  A transaction moves two documents at once, but of two stages.    *)

PhaseIn(s, d) == IF d \in Id /\ docs[d].stage = s THEN docs[d].phase ELSE "absent"
PhasesIn(s) == [d \in 1..MaxDocs |-> PhaseIn(s, d)]

ZkTLSPromise ==
  INSTANCE TaskPromise WITH Task <- 1..MaxDocs, phase <- PhasesIn("zkTLS"), reliable <- lost = {}
NoirPromise ==
  INSTANCE TaskPromise WITH Task <- 1..MaxDocs, phase <- PhasesIn("noir"), reliable <- lost = {}
ZkVerifyPromise ==
  INSTANCE TaskPromise WITH Task <- 1..MaxDocs, phase <- PhasesIn("zkVerify"), reliable <- lost = {}

KeepsPromises == ZkTLSPromise!Spec /\ NoirPromise!Spec /\ ZkVerifyPromise!Spec

Moves == ZkTLSPromise!Moves

(* At stage s no document changes its phase, or one does, by a move.       *)
StageMoves(s) ==
  \/ \A d \in 1..MaxDocs : PhaseIn(s, d)' = PhaseIn(s, d)
  \/ \E d \in 1..MaxDocs :
       /\ <<PhaseIn(s, d), PhaseIn(s, d)'>> \in Moves
       /\ \A c \in 1..MaxDocs \ {d} : PhaseIn(s, c)' = PhaseIn(s, c)

(* The writing of one document is a move of its stage and no move of the   *)
(* others.                                                                 *)
LEMMA OneMoves ==
  ASSUME TypeOK, NEW d \in Id, NEW s \in Stage, Rewritten,
         \A c \in Id \ {d} : docs'[c].phase = docs[c].phase,
         \/ docs'[d].phase = docs[d].phase
         \/ <<docs[d].phase, docs'[d].phase>> \in Moves
  PROVE  StageMoves(s)
<1>1. /\ Len(docs) \in Nat /\ Id = 1..Len(docs) /\ Id' = Id /\ Id \subseteq 1..MaxDocs
      /\ \A c \in Id : docs'[c].stage = docs[c].stage
  BY DocsTyped DEF TypeOK, Rewritten, SameLine, Id
<1>2. \A c \in (1..MaxDocs) \ {d} : PhaseIn(s, c)' = PhaseIn(s, c)
  BY <1>1 DEF PhaseIn
<1>3. CASE PhaseIn(s, d)' = PhaseIn(s, d)
  BY <1>2, <1>3 DEF StageMoves
<1>4. CASE PhaseIn(s, d)' # PhaseIn(s, d)
  <2>1. <<PhaseIn(s, d), PhaseIn(s, d)'>> \in Moves /\ d \in 1..MaxDocs
    BY <1>1, <1>4 DEF PhaseIn
  <2>2. QED
    BY <1>2, <2>1 DEF StageMoves
<1>5. QED
  BY <1>3, <1>4

(* The creation of a document is a move of its stage; a document of        *)
(* another stage may move with it.                                         *)
LEMMA NewMoves ==
  ASSUME TypeOK, TypeOK', NEW s \in Stage, NEW d,
         Len(docs') = Len(docs) + 1, \A c \in Id : SameLine(c),
         <<"absent", docs'[Len(docs) + 1].phase>> \in Moves,
         \A c \in Id \ {d} : docs'[c].phase = docs[c].phase,
         d \in Id => /\ docs[d].stage # docs'[Len(docs) + 1].stage
                     /\ <<docs[d].phase, docs'[d].phase>> \in Moves
  PROVE  StageMoves(s)
<1>0. PICK n : n = Len(docs) + 1
  OBVIOUS
<1>1. /\ Len(docs) \in Nat /\ Id = 1..Len(docs) /\ Id' = 1..n /\ n \in 1..MaxDocs
      /\ \A c \in Id : docs'[c].stage = docs[c].stage
  BY <1>0, DocsTyped DEF TypeOK, SameLine, Id
<1>2. n \notin Id /\ Id' = Id \cup {n} /\ Id \subseteq 1..MaxDocs
  BY <1>0, <1>1
<1>3. \A c \in (1..MaxDocs) \ {d, n} : PhaseIn(s, c)' = PhaseIn(s, c)
  BY <1>1, <1>2 DEF PhaseIn
<1>4. CASE docs'[n].stage = s
  <2>1. PhaseIn(s, n) = "absent" /\ PhaseIn(s, n)' = docs'[n].phase
    BY <1>2, <1>4 DEF PhaseIn
  <2>2. \A c \in (1..MaxDocs) \ {n} : PhaseIn(s, c)' = PhaseIn(s, c)
    <3>1. d \in Id => PhaseIn(s, d)' = PhaseIn(s, d)
      BY <1>0, <1>1, <1>2, <1>4 DEF PhaseIn
    <3>2. d \notin Id /\ d # n => PhaseIn(s, d)' = PhaseIn(s, d)
      BY <1>2 DEF PhaseIn
    <3>3. QED
      BY <1>3, <3>1, <3>2
  <2>3. <<PhaseIn(s, n), PhaseIn(s, n)'>> \in Moves
    BY <1>0, <2>1
  <2>4. QED
    BY <1>1, <2>2, <2>3 DEF StageMoves
<1>5. CASE docs'[n].stage # s
  <2>1. PhaseIn(s, n)' = PhaseIn(s, n)
    BY <1>2, <1>5 DEF PhaseIn
  <2>2. \A c \in (1..MaxDocs) \ {d} : PhaseIn(s, c)' = PhaseIn(s, c)
    BY <1>3, <2>1
  <2>3. CASE d \in Id /\ docs[d].stage = s
    <3>1. PhaseIn(s, d) = docs[d].phase /\ PhaseIn(s, d)' = docs'[d].phase
      BY <1>1, <1>2, <2>3 DEF PhaseIn
    <3>2. <<PhaseIn(s, d), PhaseIn(s, d)'>> \in Moves /\ d \in 1..MaxDocs
      BY <1>2, <2>3, <3>1
    <3>3. QED
      BY <2>2, <3>2 DEF StageMoves
  <2>4. CASE ~(d \in Id /\ docs[d].stage = s)
    <3>1. PhaseIn(s, d)' = PhaseIn(s, d)
      BY <1>1, <1>2, <2>1, <2>4 DEF PhaseIn
    <3>2. QED
      BY <2>2, <3>1 DEF StageMoves
  <2>5. QED
    BY <2>3, <2>4
<1>6. QED
  BY <1>4, <1>5

(* While no completion is lost, a step of the chain is at each stage a     *)
(* move of one document or none.                                           *)
LEMMA EveryStageMoves ==
  ASSUME IInv, TypeOK', [Next]_vars, lost' = {}, NEW s \in Stage
  PROVE  StageMoves(s)
<1>0. /\ TypeOK /\ Structure /\ JobsMatch /\ Lineage /\ AttemptedIsOpen /\ docs \in Seq(Doc)
      /\ Len(docs) \in Nat
  BY DocsTyped DEF IInv, Structure, Course, TypeOK
<1>1. CASE UNCHANGED docs
  BY <1>1 DEF StageMoves, PhaseIn, Id
<1>2. ASSUME NEW w \in Window, ensureZkTLSTask(w) PROVE StageMoves(s)
  <2>1. /\ Len(docs') = Len(docs) + 1 /\ \A c \in Id : docs'[c] = docs[c] /\ SameLine(c)
        /\ docs'[Len(docs) + 1].phase = "parked"
    BY <1>0, <1>2, EnsureEffect DEF SameLine
  <2>2. <<"absent", docs'[Len(docs) + 1].phase>> \in Moves
    BY <2>1 DEF Moves, ZkTLSPromise!Moves
  <2>3. 0 \notin Id /\ \A c \in Id : docs'[c].phase = docs[c].phase
    BY <2>1 DEF Id
  <2>4. QED
    BY <1>0, <2>1, <2>2, <2>3, NewMoves
<1>3. ASSUME NEW d \in Id, Single(d) PROVE StageMoves(s)
  <2>1. PICK p \in Phase, r \in BOOLEAN : OneDoc(d, p, r)
    BY <1>0, <1>3, SingleEffect
  <2>2. Rewritten /\ \A c \in Id \ {d} : docs'[c].phase = docs[c].phase
    BY <2>1, OneDocRewrites DEF OneDoc
  <2>3. ~Lose(d)
    BY DEF Lose
  <2>4. docs'[d].phase = docs[d].phase \/ <<docs[d].phase, docs'[d].phase>> \in Moves
    <3>1. CASE Wake(d) \/ RetryFailed(d)
      <4>1. docs'[d].phase = "open" /\ docs[d].phase \in {"parked", "failed"}
        BY <1>0, <3>1, PhaseWritten DEF Wake, RetryFailed, OneDoc, Phase
      <4>2. QED
        BY <4>1 DEF Moves, ZkTLSPromise!Moves
    <3>2. CASE Begin(d)
      BY <1>0, <3>2, ResultWritten DEF Begin, OneDoc
    <3>3. QED
      BY <1>3, <2>3, <3>1, <3>2 DEF Single
  <2>5. QED
    BY <1>0, <2>2, <2>4, OneMoves
<1>4. CASE CommitZkTLS \/ CommitNoir
  <2>1. PICK u \in {"zkTLS", "noir"}, t \in {"noir", "zkVerify"}, d \in Id :
          /\ d = working[u].doc /\ docs[d].stage = u /\ u # t
          /\ Succeeded(d, t) /\ working[u].step = "ready"
    <3>1. CASE CommitZkTLS
      BY <1>0, <3>1, CommitZkTLSEffect DEF CommitZkTLS
    <3>2. CASE CommitNoir
      BY <1>0, <3>2, CommitNoirEffect DEF CommitNoir
    <3>3. QED
      BY <1>4, <3>1, <3>2
  <2>2. lost = {}
    BY <1>4 DEF CommitZkTLS, CommitNoir
  <2>3. docs[d].phase = "open"
    <3>1. working[u] # Idle /\ u \in Stage
      BY <2>1 DEF Idle, Stage
    <3>2. QED
      BY <1>0, <2>1, <2>2, <3>1 DEF AttemptedIsOpen, Intact
  <2>4. /\ Len(docs') = Len(docs) + 1 /\ \A c \in Id : SameLine(c)
        /\ docs'[Len(docs) + 1].phase = "open" /\ docs'[Len(docs) + 1].stage = t
        /\ \A c \in Id \ {d} : docs'[c].phase = docs[c].phase
        /\ docs'[d].phase = "done"
    BY <2>1 DEF Succeeded, SameLine, NewDoc
  <2>5. /\ <<"absent", docs'[Len(docs) + 1].phase>> \in Moves
        /\ <<docs[d].phase, docs'[d].phase>> \in Moves
    BY <2>3, <2>4 DEF Moves, ZkTLSPromise!Moves
  <2>6. QED
    BY <1>0, <2>1, <2>4, <2>5, NewMoves
<1>5. CASE CommitZkVerify
  <2>1. PICK d \in Id, q \in Id : d = working["zkVerify"].doc /\ q = docs[d].parent
    BY <1>0, <1>5, CommitZkVerifyEffect
  <2>2. /\ Rewritten /\ docs[d].stage = "zkVerify" /\ docs'[d].phase = "done"
        /\ docs'[q].phase = docs[q].phase /\ \A c \in Id \ {d, q} : docs'[c] = docs[c]
    BY <1>0, <1>5, <2>1, CommitZkVerifyEffect
  <2>3. docs[d].phase = "open"
    <3>1. working["zkVerify"] # Idle /\ lost = {} /\ "zkVerify" \in Stage
      BY <1>5 DEF CommitZkVerify, Idle, Stage
    <3>2. QED
      BY <1>0, <2>1, <3>1 DEF AttemptedIsOpen, Intact
  <2>4. <<docs[d].phase, docs'[d].phase>> \in Moves
    BY <2>2, <2>3 DEF Moves, ZkTLSPromise!Moves
  <2>5. QED
    BY <1>0, <2>2, <2>4, OneMoves
<1>6. ASSUME NEW t \in Stage, Abort(t) PROVE StageMoves(s)
  <2>1. PICK d \in Id, p \in {"open", "failed", "parked"} :
          d = working[t].doc /\ OneDoc(d, p, FALSE)
    BY <1>0, <1>6, AbortEffect
  <2>2. Rewritten /\ \A c \in Id \ {d} : docs'[c].phase = docs[c].phase
    BY <2>1, OneDocRewrites DEF OneDoc
  <2>3. docs[d].phase = "open" /\ docs'[d].phase \in {"open", "failed", "parked"}
    BY <1>0, <1>6, <2>1 DEF Abort, AttemptedIsOpen, Intact, OneDoc
  <2>4. docs'[d].phase = docs[d].phase \/ <<docs[d].phase, docs'[d].phase>> \in Moves
    BY <2>3 DEF Moves, ZkTLSPromise!Moves
  <2>5. QED
    BY <1>0, <2>2, <2>4, OneMoves
<1>7. CASE Restart
  <2>1. Rewritten /\ \A c \in Id : docs'[c].phase = docs[c].phase
    BY <1>0, <1>7, RestartEffect
  <2>2. \A c \in 1..MaxDocs : PhaseIn(s, c)' = PhaseIn(s, c)
    BY <2>1 DEF PhaseIn, Rewritten, SameLine, Id
  <2>3. QED
    BY <2>2 DEF StageMoves
<1>8. QED
  BY <1>1, <1>2, <1>3, <1>4, <1>5, <1>6, <1>7
  DEF Next, vars, Single, Process, runZkVerifyProcessor

(* The same of the function of phases, as TaskPromise has it.              *)
PromiseStep(s) ==
  \/ lost' # {} /\ PhasesIn(s)' \in [1..MaxDocs -> Phase \cup {"absent"}]
  \/ UNCHANGED <<PhasesIn(s), lost = {}>>
  \/ \E d \in 1..MaxDocs, p \in Phase :
       <<PhasesIn(s)[d], p>> \in Moves /\ PhasesIn(s)' = [PhasesIn(s) EXCEPT ![d] = p]

LEMMA EveryStageKeeps ==
  ASSUME IInv, TypeOK', [Next]_vars, NEW s \in Stage
  PROVE  PromiseStep(s)
<1>1. CASE lost' # {}
  <2>1. \A d \in Id' : docs'[d] \in Doc
    BY ElementOfSeq, LenProperties DEF TypeOK, Id
  <2>2. ASSUME NEW d \in 1..MaxDocs PROVE PhaseIn(s, d)' \in Phase \cup {"absent"}
    BY <2>1 DEF PhaseIn, Doc
  <2>3. QED
    BY <1>1, <2>2 DEF PromiseStep, PhasesIn
<1>2. CASE lost' = {}
  <2>1. lost = {}
    BY <1>2 DEF Next, vars, ensureZkTLSTask, Wake, Begin, Process, runZkVerifyProcessor,
                CommitZkTLS, CommitNoir, CommitZkVerify, Abort, Restart, RetryFailed, Lose
  <2>2. CASE \A d \in 1..MaxDocs : PhaseIn(s, d)' = PhaseIn(s, d)
    BY <1>2, <2>1, <2>2 DEF PromiseStep, PhasesIn
  <2>3. ASSUME NEW d \in 1..MaxDocs, <<PhaseIn(s, d), PhaseIn(s, d)'>> \in Moves,
               \A c \in 1..MaxDocs \ {d} : PhaseIn(s, c)' = PhaseIn(s, c)
        PROVE  PromiseStep(s)
    <3>1. PhasesIn(s)' = [PhasesIn(s) EXCEPT ![d] = PhaseIn(s, d)']
      BY <2>3 DEF PhasesIn
    <3>2. PhaseIn(s, d)' \in Phase
      BY <2>3 DEF Moves, ZkTLSPromise!Moves, Phase
    <3>3. <<PhasesIn(s)[d], PhaseIn(s, d)'>> \in Moves
      BY <2>3 DEF PhasesIn
    <3>4. QED
      BY <3>1, <3>2, <3>3 DEF PromiseStep
  <2>4. QED
    BY <1>2, <2>2, <2>3, EveryStageMoves DEF StageMoves
<1>3. QED
  BY <1>1, <1>2

(* The three stages of the chain are three stages that keep the promise:   *)
(* what Pipeline assumes of a stage is what PipelineStage implements.      *)
THEOREM StagesKeepPromises == Spec => KeepsPromises
<1>1. Init => ZkTLSPromise!Init /\ NoirPromise!Init /\ ZkVerifyPromise!Init
  BY DEF Init, ZkTLSPromise!Init, NoirPromise!Init, ZkVerifyPromise!Init, PhasesIn, PhaseIn, Id
<1>2. IInv => TypeOK
  BY DEF IInv
<1>3. IInv /\ TypeOK' /\ [Next]_vars => [ZkTLSPromise!Next]_<<PhasesIn("zkTLS"), lost = {}>>
  <2> SUFFICES ASSUME IInv, TypeOK', [Next]_vars
               PROVE  [ZkTLSPromise!Next]_<<PhasesIn("zkTLS"), lost = {}>>
    OBVIOUS
  <2>1. PromiseStep("zkTLS")
    BY EveryStageKeeps DEF Stage
  <2>2. QED
    BY <2>1 DEF PromiseStep, Moves, Phase, ZkTLSPromise!Moves, ZkTLSPromise!Phases,
                ZkTLSPromise!Next, ZkTLSPromise!Move, ZkTLSPromise!Break
<1>4. IInv /\ TypeOK' /\ [Next]_vars => [NoirPromise!Next]_<<PhasesIn("noir"), lost = {}>>
  <2> SUFFICES ASSUME IInv, TypeOK', [Next]_vars
               PROVE  [NoirPromise!Next]_<<PhasesIn("noir"), lost = {}>>
    OBVIOUS
  <2>1. PromiseStep("noir")
    BY EveryStageKeeps DEF Stage
  <2>2. QED
    BY <2>1 DEF PromiseStep, Moves, Phase, ZkTLSPromise!Moves, NoirPromise!Moves,
                NoirPromise!Phases, NoirPromise!Next, NoirPromise!Move, NoirPromise!Break
<1>5. IInv /\ TypeOK' /\ [Next]_vars =>
        [ZkVerifyPromise!Next]_<<PhasesIn("zkVerify"), lost = {}>>
  <2> SUFFICES ASSUME IInv, TypeOK', [Next]_vars
               PROVE  [ZkVerifyPromise!Next]_<<PhasesIn("zkVerify"), lost = {}>>
    OBVIOUS
  <2>1. PromiseStep("zkVerify")
    BY EveryStageKeeps DEF Stage
  <2>2. QED
    BY <2>1 DEF PromiseStep, Moves, Phase, ZkTLSPromise!Moves, ZkVerifyPromise!Moves,
                ZkVerifyPromise!Phases, ZkVerifyPromise!Next, ZkVerifyPromise!Move,
                ZkVerifyPromise!Break
<1>6. QED
  BY <1>1, <1>2, <1>3, <1>4, <1>5, InvariantHolds, PTL
  DEF Spec, KeepsPromises, ZkTLSPromise!Spec, NoirPromise!Spec, ZkVerifyPromise!Spec
=============================================================================

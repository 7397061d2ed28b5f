--------------------------- MODULE BlobRebaseProofs ---------------------------
(***************************************************************************)
(* BlobRebase.tla implements SerialGraph.tla, for any writers, updates and *)
(* bounds, and with either kind of token.                                  *)
(***************************************************************************)
EXTENDS BlobRebase, TLAPS

\* What landing w's update makes of a body, within the graph the blob holds.
Effect(w, b) == Execute(Update[w], Content(b)) \cap InGraph

-----------------------------------------------------------------------------
(***************************************************************************)
(* The inductive invariant.  A put is conditional on a token, so what must *)
(* be known is what the tokens somebody still holds name: the body each    *)
(* was read or written with.  A token that is new with every write names   *)
(* the blob's body only while it is the blob's; one that is the content's  *)
(* names it forever.                                                       *)
(***************************************************************************)

\* Tokens handed out so far.
Issued(t) ==
    t # NoEtag => IF contentEtags THEN t = [seq |-> 1, content |-> t.content]
                                  ELSE t.seq \in 1 .. minted /\ t.content = {}

TokensIssued ==
    /\ Issued(etag)
    /\ body = Absent <=> etag = NoEtag
    /\ contentEtags /\ body # Absent => etag = [seq |-> 1, content |-> body]
    /\ \A w \in Writers : Issued(held[w])
    /\ \A c \in Checkpointers : Issued(token[c])

\* A token names the body its holder built on.
WriterBuiltOn ==
    \A w \in Writers : pc[w] = "putting" =>
        /\ held[w] = NoEtag => out[w] = Effect(w, Absent)
        /\ held[w] # NoEtag /\ contentEtags => out[w] = Effect(w, held[w].content)
        /\ held[w] # NoEtag /\ held[w] = etag => out[w] = Effect(w, body)

CheckpointerBuiltOn ==
    \A c \in Checkpointers :
        /\ token[c] = NoEtag => basis[c] = Absent
        /\ token[c] # NoEtag /\ contentEtags => basis[c] = token[c].content
        /\ token[c] # NoEtag /\ token[c] = etag => basis[c] = body

\* Every attempt behind a writer saw the blob change.
OvertakenSoFar ==
    \A w \in Writers :
        /\ pc[w] = "reading" => minted + removals >= since[w] + attempt[w] - 1
        /\ pc[w] = "putting" /\ Holds(held[w]) => minted + removals >= since[w] + attempt[w] - 1
        /\ pc[w] = "putting" /\ ~Holds(held[w]) => minted + removals >= since[w] + attempt[w]

Inv == TokensIssued /\ WriterBuiltOn /\ CheckpointerBuiltOn /\ AnswersAreTrue
Counts == OvertakenSoFar /\ ExhaustedOnlyWhenOvertaken

-----------------------------------------------------------------------------
(***************************************************************************)
(* Types.                                                                  *)
(***************************************************************************)

LEMMA NoEtagIsNone == NoEtag \notin Etags /\ NoEtag.seq = 0
  BY DEF NoEtag, Etags

LEMMA ContentType ==
    ASSUME NEW b \in Bodies
    PROVE  Content(b) \in GraphStates
  BY QuadsAssumption DEF Bodies, Content, GraphBody, GraphStates

LEMMA NewEtagType ==
    ASSUME TypeOK, NEW b \in GraphBody
    PROVE  NewEtag(b) \in Etags
  <1>1. {} \in GraphBody /\ minted + 1 \in Nat \ {0} /\ 1 \in Nat \ {0}
    BY DEF GraphBody, TypeOK
  <1> QED
    BY <1>1 DEF NewEtag, Etags

\* Writing the blob keeps it well typed.
LEMMA WriteType ==
    ASSUME TypeOK, NEW b \in GraphBody, Write(b)
    PROVE  body' \in GraphBody /\ etag' \in Etags /\ minted' \in Nat /\ minted' = minted + 1
  BY NewEtagType DEF Write, TypeOK

\* What a writer derives is what its update does.
LEMMA DerivedEffect ==
    ASSUME TypeOK, NEW w \in Writers
    PROVE  /\ ApplyDelta(Derived(w), Content(body)) \cap InGraph = Effect(w, body)
           /\ Effect(w, body) \in GraphBody
  <1>1. Update[w] \in Operations
    BY UpdateAssumption
  <1>2. Content(body) \in GraphStates
    BY ContentType DEF TypeOK
  <1>3. ApplyDelta(Derived(w), Content(body)) = Execute(Update[w], Content(body))
    BY <1>1, <1>2 DEF Derived, Operations, GraphStates, ApplyDelta, NetEffect, Execute
  <1> QED
    BY <1>3 DEF Effect, GraphBody

LEMMA TypeInit == Init => TypeOK
  <1> SUFFICES ASSUME Init PROVE TypeOK
    OBVIOUS
  <1>1. {} \in GraphBody /\ Absent \in Bodies /\ NoEtag \in Tokens
    BY DEF GraphBody, Bodies, Tokens
  <1>2. 0 \in 0 .. MaxAttempts /\ 0 \in 0 .. MaxFailures /\ 0 \in 0 .. MaxRemovals /\ 0 \in 0 .. MaxEdits
    BY BoundAssumption
  <1>3. contentEtags \in BOOLEAN
    BY SwitchAssumption DEF Init
  <1> QED
    BY <1>1, <1>2, <1>3 DEF Init, TypeOK

LEMMA TypeStep == TypeOK /\ [Next]_vars => TypeOK'
  <1> SUFFICES ASSUME TypeOK, [Next]_vars PROVE TypeOK'
    OBVIOUS
  <1> USE DEF Tokens, Bodies
  <1>1. ASSUME NEW w \in Writers, Begin(w) PROVE TypeOK'
    <2>1. 1 \in 0 .. MaxAttempts /\ minted + removals \in Nat
      BY BoundAssumption DEF TypeOK
    <2> QED
      BY <1>1, <2>1 DEF TypeOK, Begin, blob, checkpointers, bounds
  <1>2. ASSUME NEW w \in Writers, ReadAndRebase(w) PROVE TypeOK'
    BY <1>2, DerivedEffect DEF TypeOK, ReadAndRebase, blob, checkpointers, bounds, history
  <1>3. ASSUME NEW w \in Writers, ReadThrows(w) PROVE TypeOK'
    BY <1>3 DEF TypeOK, ReadThrows, blob, checkpointers, bounds, history
  <1>4. ASSUME NEW w \in Writers, PutStored(w) PROVE TypeOK'
    <2>1. out[w] \in GraphBody /\ Write(out[w])
      BY <1>4 DEF TypeOK, PutStored
    <2>2. body' \in GraphBody /\ etag' \in Etags /\ minted' \in Nat
      BY <2>1, WriteType
    <2> QED
      BY <1>4, <2>2 DEF TypeOK, PutStored, checkpointers, bounds
  <1>5. ASSUME NEW w \in Writers, PutUnheard(w) PROVE TypeOK'
    <2>1. out[w] \in GraphBody /\ Write(out[w])
      BY <1>5 DEF TypeOK, PutUnheard
    <2>2. body' \in GraphBody /\ etag' \in Etags /\ minted' \in Nat
      BY <2>1, WriteType
    <2>3. failures' \in 0 .. MaxFailures
      BY <1>5, BoundAssumption DEF TypeOK, PutUnheard
    <2> QED
      BY <1>5, <2>2, <2>3 DEF TypeOK, PutUnheard, checkpointers
  <1>6. ASSUME NEW w \in Writers, PutRefused(w) PROVE TypeOK'
    <2>1. attempt[w] < MaxAttempts => attempt[w] + 1 \in 0 .. MaxAttempts
      BY BoundAssumption DEF TypeOK
    <2> QED
      BY <1>6, <2>1 DEF TypeOK, PutRefused, blob, checkpointers, bounds, history
  <1>7. ASSUME NEW w \in Writers, CallThrows(w) PROVE TypeOK'
    <2>1. failures' \in 0 .. MaxFailures
      BY <1>7, BoundAssumption DEF TypeOK, CallThrows
    <2> QED
      BY <1>7, <2>1 DEF TypeOK, CallThrows, blob, checkpointers, history
  <1>8. ASSUME NEW c \in Checkpointers, Edit(c) PROVE TypeOK'
    <2>1. edits' \in 0 .. MaxEdits
      BY <1>8, BoundAssumption DEF TypeOK, Edit
    <2> QED
      BY <1>8, <2>1 DEF TypeOK, Edit, blob, writers, history
  <1>9. ASSUME NEW c \in Checkpointers, Checkpoint(c) PROVE TypeOK'
    BY <1>9 DEF TypeOK, Checkpoint, blob, writers, bounds, history
  <1>10. ASSUME NEW c \in Checkpointers, CheckpointStored(c) PROVE TypeOK'
    <2>1. dumped[c] \in GraphBody /\ Write(dumped[c])
      BY <1>10 DEF TypeOK, CheckpointStored
    <2>2. body' \in GraphBody /\ etag' \in Etags /\ minted' \in Nat
      BY <2>1, WriteType
    <2>3. failures' \in 0 .. MaxFailures
      BY <1>10, BoundAssumption DEF TypeOK, CheckpointStored
    <2>4. /\ token' \in [Checkpointers -> Tokens]
          /\ digest' \in [Checkpointers -> Bodies] /\ basis' \in [Checkpointers -> Bodies]
      BY <1>10, <2>1, <2>2 DEF TypeOK, CheckpointStored
    <2> QED
      BY <1>10, <2>2, <2>3, <2>4 DEF TypeOK, CheckpointStored, writers
  <1>11. ASSUME NEW c \in Checkpointers, CheckpointConflicts(c) PROVE TypeOK'
    BY <1>11 DEF TypeOK, CheckpointConflicts, blob, writers, bounds, history
  <1>12. CASE Remove
    <2>1. removals' \in 0 .. MaxRemovals
      BY <1>12, BoundAssumption DEF TypeOK, Remove
    <2> QED
      BY <1>12, <2>1 DEF TypeOK, Remove, writers, checkpointers, history
  <1>13. CASE UNCHANGED vars
    BY <1>13 DEF TypeOK, vars
  <1> QED
    BY <1>1, <1>2, <1>3, <1>4, <1>5, <1>6, <1>7, <1>8, <1>9, <1>10, <1>11, <1>12, <1>13
       DEF Next, WriterStep, CheckpointerStep

\* Every reachable state is well typed: no writer makes more than maxAttempts attempts.
THEOREM TypeCorrect == Spec => []TypeOK
  <1>1. Init => TypeOK
    BY TypeInit
  <1>2. TypeOK /\ [Next]_vars => TypeOK'
    BY TypeStep
  <1> QED
    BY <1>1, <1>2, PTL DEF Spec

-----------------------------------------------------------------------------
(***************************************************************************)
(* Tokens.                                                                 *)
(***************************************************************************)

\* A write hands out a token, and those handed out before stay so.
LEMMA WriteIssues ==
    ASSUME TypeOK, NEW b \in GraphBody, Write(b), UNCHANGED contentEtags
    PROVE  /\ Issued(etag)'
           /\ etag' # NoEtag
           /\ \A t \in Tokens : Issued(t) => Issued(t)'
  <1>1. etag' \in Etags /\ minted' = minted + 1 /\ minted \in Nat
    BY WriteType DEF TypeOK
  <1>2. etag' # NoEtag
    BY <1>1, NoEtagIsNone
  <1>3. Issued(etag)'
    BY <1>1 DEF Issued, Write, NewEtag
  <1>4. \A t \in Tokens : Issued(t) => Issued(t)'
    BY <1>1 DEF Issued, Tokens, Etags, NoEtag
  <1> QED
    BY <1>2, <1>3, <1>4

\* A token held from before a write is the new one only when tokens name the
\* bytes, and then it names what was written.
LEMMA OldTokenNamesBody ==
    ASSUME TypeOK, NEW b \in GraphBody, Write(b), UNCHANGED contentEtags,
           NEW t \in Tokens, Issued(t), t # NoEtag, t = etag'
    PROVE  contentEtags /\ t.content = b
  <1>1. minted \in Nat
    BY DEF TypeOK
  <1>2. CASE contentEtags
    BY <1>2 DEF Write, NewEtag
  <1>3. CASE ~contentEtags
    <2>1. t.seq \in 1 .. minted /\ etag'.seq = minted + 1
      BY <1>3 DEF Issued, Write, NewEtag
    <2> QED
      BY <1>1, <2>1
  <1> QED
    BY <1>2, <1>3

LEMMA TokensAfterWrite ==
    ASSUME TypeOK, TokensIssued, NEW b \in GraphBody, Write(b), UNCHANGED <<contentEtags, held>>,
           \A c \in Checkpointers : token'[c] \in {token[c], etag', NoEtag}
    PROVE  TokensIssued'
  <1>1. /\ Issued(etag)' /\ etag' # NoEtag
        /\ \A t \in Tokens : Issued(t) => Issued(t)'
    BY WriteIssues
  <1>2. body' # Absent
    BY AbsentAssumption DEF Write
  <1>3. contentEtags => etag' = [seq |-> 1, content |-> body']
    BY DEF Write, NewEtag
  <1>4. \A w \in Writers : Issued(held[w])'
    BY <1>1 DEF TokensIssued, TypeOK
  <1>5. Issued(NoEtag)'
    BY DEF Issued, NoEtag
  <1>6. ASSUME NEW c \in Checkpointers PROVE Issued(token[c])'
    <2>1. token[c] \in Tokens /\ Issued(token[c])
      BY DEF TokensIssued, TypeOK
    <2>2. CASE token'[c] = token[c]
      BY <1>1, <2>1, <2>2 DEF Issued
    <2>3. CASE token'[c] = etag'
      BY <1>1, <2>3 DEF Issued
    <2>4. CASE token'[c] = NoEtag
      BY <1>5, <2>4 DEF Issued
    <2> QED
      BY <2>2, <2>3, <2>4
  <1> QED
    BY <1>1, <1>2, <1>3, <1>4, <1>6 DEF TokensIssued

\* What was built on before a write stays built on what its token names.
LEMMA WritersAfterWrite ==
    ASSUME TypeOK, TokensIssued, WriterBuiltOn, NEW b \in GraphBody, Write(b),
           UNCHANGED <<contentEtags, held, out>>,
           \A w \in Writers : pc'[w] = "putting" => pc[w] = "putting"
    PROVE  WriterBuiltOn'
  <1> SUFFICES ASSUME NEW w \in Writers, pc'[w] = "putting"
               PROVE  /\ held[w] = NoEtag => out[w] = Effect(w, Absent)
                      /\ held[w] # NoEtag /\ contentEtags => out[w] = Effect(w, held[w].content)
                      /\ held[w] # NoEtag /\ held[w] = etag' => out[w] = Effect(w, body')
    BY DEF WriterBuiltOn, Effect, Content
  <1>1. pc[w] = "putting" /\ held[w] \in Tokens /\ Issued(held[w])
    BY DEF TypeOK, TokensIssued
  <1>2. ASSUME held[w] # NoEtag, held[w] = etag' PROVE out[w] = Effect(w, body')
    <2>1. contentEtags /\ held[w].content = b
      BY <1>1, <1>2, OldTokenNamesBody
    <2> QED
      BY <1>1, <1>2, <2>1 DEF WriterBuiltOn, Write
  <1> QED
    BY <1>1, <1>2 DEF WriterBuiltOn

LEMMA CheckpointersAfterWrite ==
    ASSUME TypeOK, TokensIssued, CheckpointerBuiltOn, NEW b \in GraphBody, Write(b),
           UNCHANGED contentEtags, NEW c \in Checkpointers, token'[c] = token[c], basis'[c] = basis[c]
    PROVE  /\ token'[c] = NoEtag => basis'[c] = Absent
           /\ token'[c] # NoEtag /\ contentEtags => basis'[c] = token'[c].content
           /\ token'[c] # NoEtag /\ token'[c] = etag' => basis'[c] = body'
  <1>1. token[c] \in Tokens /\ Issued(token[c])
    BY DEF TypeOK, TokensIssued
  <1>2. ASSUME token[c] # NoEtag, token[c] = etag' PROVE basis[c] = body'
    <2>1. contentEtags /\ token[c].content = b
      BY <1>1, <1>2, OldTokenNamesBody
    <2> QED
      BY <1>2, <2>1 DEF CheckpointerBuiltOn, Write
  <1> QED
    BY <1>2 DEF CheckpointerBuiltOn

-----------------------------------------------------------------------------
(***************************************************************************)
(* The invariant.                                                          *)
(***************************************************************************)

LEMMA InvInit == Init => Inv
  BY DEF Init, Inv, TokensIssued, Issued, WriterBuiltOn, CheckpointerBuiltOn, AnswersAreTrue

\* The blob store stays of its kind.
LEMMA KindKept == [Next]_vars => contentEtags' = contentEtags
  BY DEF Next, vars, WriterStep, CheckpointerStep, Begin, ReadAndRebase, ReadThrows, PutStored,
     PutUnheard, PutRefused, CallThrows, Edit, Checkpoint, CheckpointStored, CheckpointConflicts,
     Remove, bounds

\* A step that leaves the blob and every token alone.
LEMMA TokensKept ==
    ASSUME TokensIssued, UNCHANGED <<contentEtags, blob, held, token>>
    PROVE  TokensIssued'
  BY DEF TokensIssued, Issued, blob

LEMMA WritersKept ==
    ASSUME WriterBuiltOn, UNCHANGED <<contentEtags, body, etag, held, out>>,
           \A w \in Writers : pc'[w] = "putting" => pc[w] = "putting"
    PROVE  WriterBuiltOn'
  BY DEF WriterBuiltOn, Effect, Content

LEMMA CheckpointersKept ==
    ASSUME CheckpointerBuiltOn, UNCHANGED <<contentEtags, body, etag, token, basis>>
    PROVE  CheckpointerBuiltOn'
  BY DEF CheckpointerBuiltOn

LEMMA InvStep == TypeOK /\ Inv /\ [Next]_vars => Inv'
  <1> SUFFICES ASSUME TypeOK, TokensIssued, WriterBuiltOn, CheckpointerBuiltOn, AnswersAreTrue, [Next]_vars
               PROVE  TokensIssued' /\ WriterBuiltOn' /\ CheckpointerBuiltOn' /\ AnswersAreTrue'
    BY DEF Inv
  <1>0. contentEtags' = contentEtags
    BY KindKept
  <1>1. ASSUME NEW w \in Writers,
               \/ Begin(w) \/ ReadThrows(w) \/ PutRefused(w) \/ CallThrows(w)
        PROVE  TokensIssued' /\ WriterBuiltOn' /\ CheckpointerBuiltOn' /\ AnswersAreTrue'
    <2>1. UNCHANGED <<blob, held, out, token, basis, landed>>
      BY <1>1 DEF Begin, ReadThrows, PutRefused, CallThrows, checkpointers, history
    <2>2. UNCHANGED <<body, etag>>
      BY <2>1 DEF blob
    <2>3. \A v \in Writers : pc'[v] = "putting" => pc[v] = "putting"
      BY <1>1 DEF Begin, ReadThrows, PutRefused, CallThrows, TypeOK
    <2>4. pc[w] \in {"idle", "reading", "putting"} /\ \A v \in Writers \ {w} : pc'[v] = pc[v]
      BY <1>1 DEF Begin, ReadThrows, PutRefused, CallThrows, TypeOK
    <2>5. pc'[w] # "stored"
      BY <1>1 DEF Begin, ReadThrows, PutRefused, CallThrows, TypeOK
    <2>6. AnswersAreTrue'
      BY <2>1, <2>4, <2>5 DEF AnswersAreTrue
    <2> QED
      BY <1>0, <2>1, <2>2, <2>3, <2>6, TokensKept, WritersKept, CheckpointersKept
  <1>2. ASSUME NEW w \in Writers, ReadAndRebase(w)
        PROVE  TokensIssued' /\ WriterBuiltOn' /\ CheckpointerBuiltOn' /\ AnswersAreTrue'
    <2>1. UNCHANGED <<body, etag, minted, token, basis, landed>>
      BY <1>2 DEF ReadAndRebase, blob, checkpointers, history
    <2>2. held'[w] = (IF body = Absent THEN NoEtag ELSE etag) /\ out'[w] = Effect(w, body)
      BY <1>2, DerivedEffect DEF ReadAndRebase, TypeOK
    <2>3. \A v \in Writers \ {w} : held'[v] = held[v] /\ out'[v] = out[v] /\ pc'[v] = pc[v]
      BY <1>2 DEF ReadAndRebase, TypeOK
    <2>4. Issued(NoEtag)
      BY DEF Issued, NoEtag
    <2>5. \A v \in Writers : Issued(held'[v])
      BY <2>2, <2>3, <2>4 DEF TokensIssued
    <2>6. TokensIssued'
      BY <1>0, <2>1, <2>5 DEF TokensIssued, Issued
    <2>7. /\ held'[w] = NoEtag => out'[w] = Effect(w, Absent)
          /\ held'[w] # NoEtag /\ contentEtags => out'[w] = Effect(w, held'[w].content)
          /\ held'[w] # NoEtag /\ held'[w] = etag => out'[w] = Effect(w, body)
      BY <2>2 DEF TokensIssued
    <2>8. WriterBuiltOn'
      BY <1>0, <2>1, <2>3, <2>7 DEF WriterBuiltOn, Effect, Content
    <2>9. AnswersAreTrue'
      BY <1>2, <2>1 DEF AnswersAreTrue, ReadAndRebase, TypeOK
    <2> QED
      BY <1>0, <2>1, <2>6, <2>8, <2>9, CheckpointersKept
  <1>3. ASSUME NEW w \in Writers, PutStored(w) \/ PutUnheard(w)
        PROVE  TokensIssued' /\ WriterBuiltOn' /\ CheckpointerBuiltOn' /\ AnswersAreTrue'
    <2>1. Write(out[w]) /\ out[w] \in GraphBody /\ UNCHANGED <<held, out, token, basis>>
      BY <1>3 DEF PutStored, PutUnheard, TypeOK, checkpointers
    <2>2. /\ pc' \in {[pc EXCEPT ![w] = "stored"], [pc EXCEPT ![w] = "threw"]}
          /\ landed' = landed \cup {w}
      BY <1>3 DEF PutStored, PutUnheard
    <2>3. \A v \in Writers : pc'[v] = "putting" => pc[v] = "putting"
      BY <2>2 DEF TypeOK
    <2>4. TokensIssued' /\ WriterBuiltOn'
      BY <1>0, <2>1, <2>3, TokensAfterWrite, WritersAfterWrite
    <2>5. CheckpointerBuiltOn'
      BY <1>0, <2>1, CheckpointersAfterWrite DEF CheckpointerBuiltOn
    <2>6. AnswersAreTrue'
      BY <2>2 DEF AnswersAreTrue, TypeOK
    <2> QED
      BY <2>4, <2>5, <2>6
  <1>4. ASSUME NEW c \in Checkpointers,
               Edit(c) \/ Checkpoint(c) \/ CheckpointConflicts(c)
        PROVE  TokensIssued' /\ WriterBuiltOn' /\ CheckpointerBuiltOn' /\ AnswersAreTrue'
    <2>1. UNCHANGED <<blob, pc, held, out, token, basis, landed>>
      BY <1>4 DEF Edit, Checkpoint, CheckpointConflicts, writers, history
    <2> QED
      BY <1>0, <2>1, TokensKept, WritersKept, CheckpointersKept DEF blob, AnswersAreTrue
  <1>5. ASSUME NEW c \in Checkpointers, CheckpointStored(c)
        PROVE  TokensIssued' /\ WriterBuiltOn' /\ CheckpointerBuiltOn' /\ AnswersAreTrue'
    <2>1. Write(dumped[c]) /\ dumped[c] \in GraphBody /\ UNCHANGED <<pc, held, out, landed>>
      BY <1>5 DEF CheckpointStored, TypeOK, writers
    <2>2. /\ \A d \in Checkpointers \ {c} : token'[d] = token[d] /\ basis'[d] = basis[d]
          /\ \/ token'[c] = etag' /\ basis'[c] = dumped[c]
             \/ token'[c] = NoEtag /\ basis'[c] = Absent
             \/ token'[c] = token[c] /\ basis'[c] = basis[c]
      BY <1>5 DEF CheckpointStored, TypeOK
    <2>3. TokensIssued' /\ WriterBuiltOn'
      BY <1>0, <2>1, <2>2, TokensAfterWrite, WritersAfterWrite
    <2>4. body' = dumped[c] /\ (contentEtags => etag'.content = dumped[c]) /\ etag' # NoEtag
      BY <1>0, <2>1, WriteIssues DEF Write, NewEtag
    <2>5. /\ token'[c] = NoEtag => basis'[c] = Absent
          /\ token'[c] # NoEtag /\ contentEtags => basis'[c] = token'[c].content
          /\ token'[c] # NoEtag /\ token'[c] = etag' => basis'[c] = body'
      BY <1>0, <2>1, <2>2, <2>4, CheckpointersAfterWrite
    <2>6. CheckpointerBuiltOn'
      BY <1>0, <2>1, <2>2, <2>5, CheckpointersAfterWrite DEF CheckpointerBuiltOn
    <2> QED
      BY <2>1, <2>3, <2>6 DEF AnswersAreTrue
  <1>6. CASE Remove
    <2>1. etag' = NoEtag /\ body' = Absent /\ UNCHANGED <<minted, pc, held, out, token, basis, landed>>
      BY <1>6 DEF Remove, writers, checkpointers, history
    <2>2. Issued(NoEtag)
      BY DEF Issued, NoEtag
    <2>3. TokensIssued'
      BY <1>0, <2>1, <2>2 DEF TokensIssued, Issued
    <2> QED
      BY <1>0, <2>1, <2>3 DEF WriterBuiltOn, Effect, Content, CheckpointerBuiltOn, AnswersAreTrue
  <1>7. CASE UNCHANGED vars
    <2>1. UNCHANGED <<blob, pc, held, out, token, basis, landed>>
      BY <1>7 DEF vars, blob
    <2> QED
      BY <1>0, <2>1, TokensKept, WritersKept, CheckpointersKept DEF blob, AnswersAreTrue
  <1> QED
    BY <1>1, <1>2, <1>3, <1>4, <1>5, <1>6, <1>7 DEF Next, WriterStep, CheckpointerStep

\* A call's answer is so: what is answered stored landed, and what was given up
\* did not, whatever answers were lost (rebaseAndRetry).
THEOREM AnswersHold == Spec => []AnswersAreTrue
  <1>1. Init => TypeOK /\ Inv
    BY TypeInit, InvInit
  <1>2. TypeOK /\ Inv /\ [Next]_vars => (TypeOK /\ Inv)'
    BY TypeStep, InvStep
  <1>3. TypeOK /\ Inv => AnswersAreTrue
    BY DEF Inv
  <1> QED
    BY <1>1, <1>2, <1>3, PTL DEF Spec

-----------------------------------------------------------------------------
(***************************************************************************)
(* Giving up.                                                              *)
(***************************************************************************)

\* A writer that stays where it is stays overtaken, when the blob changes and
\* when it does not.
LEMMA CountsKept ==
    ASSUME TypeOK, TypeOK', Counts, NEW w \in Writers,
           pc'[w] = pc[w], attempt'[w] = attempt[w], since'[w] = since[w], held'[w] = held[w],
           \/ minted' + removals' >= minted + removals + 1
           \/ UNCHANGED <<body, etag>> /\ minted' + removals' = minted + removals
    PROVE  /\ pc'[w] = "reading" => minted' + removals' >= since'[w] + attempt'[w] - 1
           /\ pc'[w] = "putting" /\ Holds(held[w])' =>
                  minted' + removals' >= since'[w] + attempt'[w] - 1
           /\ pc'[w] = "putting" /\ ~Holds(held[w])' =>
                  minted' + removals' >= since'[w] + attempt'[w]
           /\ pc'[w] = "exhausted" => minted' + removals' >= since'[w] + MaxAttempts
  <1>1. /\ minted \in Nat /\ removals \in Nat /\ since[w] \in Nat /\ attempt[w] \in Nat
        /\ minted' \in Nat /\ removals' \in Nat /\ MaxAttempts \in Nat
    BY BoundAssumption DEF TypeOK
  <1>2. CASE minted' + removals' >= minted + removals + 1
    <2>1. pc[w] = "reading" => minted' + removals' >= since[w] + attempt[w] - 1
      BY <1>1, <1>2 DEF Counts, OvertakenSoFar
    <2>2. pc[w] = "putting" => minted + removals >= since[w] + attempt[w] - 1
      BY <1>1 DEF Counts, OvertakenSoFar
    <2>3. pc[w] = "putting" => minted' + removals' >= since[w] + attempt[w]
      BY <1>1, <1>2, <2>2
    <2>4. pc[w] = "putting" => minted' + removals' >= since[w] + attempt[w] - 1
      BY <1>1, <2>3
    <2>5. pc[w] = "exhausted" => minted + removals >= since[w] + MaxAttempts
      BY DEF Counts, ExhaustedOnlyWhenOvertaken
    <2>6. \A a, b, c, d, k, m \in Nat : c + d >= a + b + 1 /\ a + b >= k + m => c + d >= k + m
      OBVIOUS
    <2>7. pc[w] = "exhausted" => minted' + removals' >= since[w] + MaxAttempts
      BY <1>1, <1>2, <2>5, <2>6
    <2> QED
      BY <2>1, <2>3, <2>4, <2>7
  <1>3. CASE UNCHANGED <<body, etag>> /\ minted' + removals' = minted + removals
    <2>1. Holds(held[w])' <=> Holds(held[w])
      BY <1>3 DEF Holds
    <2> QED
      BY <1>1, <1>3, <2>1 DEF Counts, OvertakenSoFar, ExhaustedOnlyWhenOvertaken
  <1> QED
    BY <1>2, <1>3

\* Where the writer that moved is counted anew, the others are kept.
LEMMA CountsOfOneWriter ==
    ASSUME TypeOK, TypeOK', Counts, NEW w \in Writers,
           \A v \in Writers \ {w} : /\ pc'[v] = pc[v] /\ attempt'[v] = attempt[v]
                                    /\ since'[v] = since[v] /\ held'[v] = held[v],
           \/ minted' + removals' >= minted + removals + 1
           \/ UNCHANGED <<body, etag>> /\ minted' + removals' = minted + removals,
           pc'[w] = "reading" => minted' + removals' >= since'[w] + attempt'[w] - 1,
           pc'[w] = "putting" => /\ Holds(held[w])'
                                 /\ minted' + removals' >= since'[w] + attempt'[w] - 1,
           pc'[w] = "exhausted" => minted' + removals' >= since'[w] + MaxAttempts
    PROVE  Counts'
  <1>1. \A v \in Writers \ {w} :
           /\ pc'[v] = "reading" => minted' + removals' >= since'[v] + attempt'[v] - 1
           /\ pc'[v] = "putting" /\ Holds(held[v])' =>
                  minted' + removals' >= since'[v] + attempt'[v] - 1
           /\ pc'[v] = "putting" /\ ~Holds(held[v])' =>
                  minted' + removals' >= since'[v] + attempt'[v]
           /\ pc'[v] = "exhausted" => minted' + removals' >= since'[v] + MaxAttempts
    BY CountsKept
  <1> QED
    BY <1>1 DEF Counts, OvertakenSoFar, ExhaustedOnlyWhenOvertaken

LEMMA CountsOfNone ==
    ASSUME TypeOK, TypeOK', Counts, UNCHANGED <<pc, attempt, since, held>>,
           \/ minted' + removals' >= minted + removals + 1
           \/ UNCHANGED <<body, etag>> /\ minted' + removals' = minted + removals
    PROVE  Counts'
  <1>1. \A v \in Writers :
           /\ pc'[v] = "reading" => minted' + removals' >= since'[v] + attempt'[v] - 1
           /\ pc'[v] = "putting" /\ Holds(held[v])' =>
                  minted' + removals' >= since'[v] + attempt'[v] - 1
           /\ pc'[v] = "putting" /\ ~Holds(held[v])' =>
                  minted' + removals' >= since'[v] + attempt'[v]
           /\ pc'[v] = "exhausted" => minted' + removals' >= since'[v] + MaxAttempts
    BY CountsKept
  <1> QED
    BY <1>1 DEF Counts, OvertakenSoFar, ExhaustedOnlyWhenOvertaken

LEMMA CountsStep == TypeOK /\ TypeOK' /\ TokensIssued /\ Counts /\ [Next]_vars => Counts'
  <1> SUFFICES ASSUME TypeOK, TypeOK', TokensIssued, Counts, [Next]_vars PROVE Counts'
    OBVIOUS
  <1>n. /\ minted \in Nat /\ removals \in Nat /\ minted' \in Nat /\ removals' \in Nat
        /\ MaxAttempts \in Nat
    BY BoundAssumption DEF TypeOK
  <1>w. ASSUME NEW w \in Writers
        PROVE  since[w] \in Nat /\ attempt[w] \in 0 .. MaxAttempts /\ pc[w] = pc[w]
    BY <1>w DEF TypeOK
  <1>1. ASSUME NEW w \in Writers, Begin(w) PROVE Counts'
    <2>1. /\ pc'[w] = "reading" /\ attempt'[w] = 1 /\ since'[w] = minted + removals
          /\ \A v \in Writers \ {w} : /\ pc'[v] = pc[v] /\ attempt'[v] = attempt[v]
                                      /\ since'[v] = since[v] /\ held'[v] = held[v]
          /\ UNCHANGED <<body, etag, minted, removals>>
      BY <1>1 DEF Begin, TypeOK, blob, bounds
    <2> QED
      BY <1>n, <2>1, CountsOfOneWriter
  <1>2. ASSUME NEW w \in Writers, ReadAndRebase(w) PROVE Counts'
    <2>1. /\ pc[w] = "reading" /\ pc'[w] = "putting" /\ attempt'[w] = attempt[w] /\ since'[w] = since[w]
          /\ held'[w] = (IF body = Absent THEN NoEtag ELSE etag)
          /\ \A v \in Writers \ {w} : /\ pc'[v] = pc[v] /\ attempt'[v] = attempt[v]
                                      /\ since'[v] = since[v] /\ held'[v] = held[v]
          /\ UNCHANGED <<body, etag, minted, removals>>
      BY <1>2 DEF ReadAndRebase, TypeOK, blob, bounds, history
    <2>2. Holds(held[w])'
      BY <2>1 DEF Holds, TokensIssued
    <2>3. minted' + removals' >= since'[w] + attempt'[w] - 1
      BY <2>1 DEF Counts, OvertakenSoFar
    <2> QED
      BY <2>1, <2>2, <2>3, CountsOfOneWriter
  <1>3. ASSUME NEW w \in Writers, ReadThrows(w) \/ CallThrows(w) PROVE Counts'
    <2>1. /\ pc'[w] = "threw"
          /\ \A v \in Writers \ {w} : /\ pc'[v] = pc[v] /\ attempt'[v] = attempt[v]
                                      /\ since'[v] = since[v] /\ held'[v] = held[v]
          /\ UNCHANGED <<body, etag, minted, removals>>
      BY <1>3 DEF ReadThrows, CallThrows, TypeOK, blob, bounds, history
    <2> QED
      BY <2>1, CountsOfOneWriter
  <1>4. ASSUME NEW w \in Writers, PutStored(w) \/ PutUnheard(w) PROVE Counts'
    <2>1. /\ pc'[w] \in {"stored", "threw"} /\ minted' = minted + 1 /\ removals' = removals
          /\ \A v \in Writers \ {w} : /\ pc'[v] = pc[v] /\ attempt'[v] = attempt[v]
                                      /\ since'[v] = since[v] /\ held'[v] = held[v]
      BY <1>4 DEF PutStored, PutUnheard, TypeOK, Write, bounds
    <2>2. minted' + removals' >= minted + removals + 1
      BY <1>n, <2>1
    <2> QED
      BY <2>1, <2>2, CountsOfOneWriter
  <1>5. ASSUME NEW w \in Writers, PutRefused(w) PROVE Counts'
    <2>1. /\ since'[w] = since[w]
          /\ \A v \in Writers \ {w} : /\ pc'[v] = pc[v] /\ attempt'[v] = attempt[v]
                                      /\ since'[v] = since[v] /\ held'[v] = held[v]
          /\ UNCHANGED <<body, etag, minted, removals>>
      BY <1>5 DEF PutRefused, TypeOK, blob, bounds, history
    <2>2. minted + removals >= since[w] + attempt[w]
      BY <1>5 DEF PutRefused, Counts, OvertakenSoFar
    <2>3. CASE attempt[w] < MaxAttempts
      <3>1. pc'[w] = "reading" /\ attempt'[w] = attempt[w] + 1
        BY <1>5, <2>3 DEF PutRefused, TypeOK
      <3>2. minted' + removals' >= since'[w] + attempt'[w] - 1
        BY <1>n, <1>w, <2>1, <2>2, <3>1
      <3> QED
        BY <2>1, <3>1, <3>2, CountsOfOneWriter
    <2>4. CASE ~(attempt[w] < MaxAttempts)
      <3>1. pc'[w] = "exhausted"
        BY <1>5, <2>4 DEF PutRefused, TypeOK
      <3>2. minted' + removals' >= since'[w] + MaxAttempts
        BY <1>n, <1>w, <2>1, <2>2, <2>4
      <3> QED
        BY <2>1, <3>1, <3>2, CountsOfOneWriter
    <2> QED
      BY <2>3, <2>4
  <1>6. ASSUME NEW c \in Checkpointers, Edit(c) \/ Checkpoint(c) \/ CheckpointConflicts(c)
        PROVE  Counts'
    <2>1. UNCHANGED <<pc, attempt, since, held, body, etag, minted, removals>>
      BY <1>6 DEF Edit, Checkpoint, CheckpointConflicts, blob, writers, bounds, history
    <2> QED
      BY <2>1, CountsOfNone
  <1>7. ASSUME NEW c \in Checkpointers, CheckpointStored(c) PROVE Counts'
    <2>1. UNCHANGED <<pc, attempt, since, held, removals>> /\ minted' = minted + 1
      BY <1>7 DEF CheckpointStored, Write, writers
    <2>2. minted' + removals' >= minted + removals + 1
      BY <1>n, <2>1
    <2> QED
      BY <2>1, <2>2, CountsOfNone
  <1>8. CASE Remove
    <2>1. UNCHANGED <<pc, attempt, since, held, minted>> /\ removals' = removals + 1
      BY <1>8 DEF Remove, writers, history
    <2>2. minted' + removals' >= minted + removals + 1
      BY <1>n, <2>1
    <2> QED
      BY <2>1, <2>2, CountsOfNone
  <1>9. CASE UNCHANGED vars
    BY <1>9, CountsOfNone DEF vars
  <1> QED
    BY <1>1, <1>2, <1>3, <1>4, <1>5, <1>6, <1>7, <1>8, <1>9
       DEF Next, WriterStep, CheckpointerStep

\* RebaseExhaustedError is thrown only when maxAttempts other writes or removals
\* came between: every attempt reads the token it writes against anew.
THEOREM GivesUpOnlyWhenOvertaken == Spec => []ExhaustedOnlyWhenOvertaken
  <1>1. Init => TypeOK /\ Inv /\ Counts
    BY TypeInit, InvInit DEF Init, Counts, OvertakenSoFar, ExhaustedOnlyWhenOvertaken
  <1>2. TypeOK /\ Inv /\ Counts /\ [Next]_vars => (TypeOK /\ Inv /\ Counts)'
    BY TypeStep, InvStep, CountsStep DEF Inv
  <1>3. Counts => ExhaustedOnlyWhenOvertaken
    BY DEF Counts
  <1> QED
    BY <1>1, <1>2, <1>3, PTL DEF Spec

-----------------------------------------------------------------------------
(***************************************************************************)
(* The refinement.                                                         *)
(***************************************************************************)

\* The abstract module speaks of the same updates.
LEMMA AbstractEffect ==
    ASSUME NEW w \in Writers, NEW b
    PROVE  Graph!Execute(Update[w], Graph!Content(b)) \cap InGraph = Effect(w, b)
  BY DEF Graph!Execute, Graph!Content, Effect, Execute, Content

\* A put whose condition holds lands the update on the body the writer read.
LEMMA PutLands ==
    ASSUME TypeOK, Inv, NEW w \in Writers, PutStored(w) \/ PutUnheard(w)
    PROVE  Graph!Land(w)
  <1>1. /\ pc[w] = "putting" /\ Holds(held[w]) /\ Write(out[w])
        /\ landed' = landed \cup {w} /\ UNCHANGED basis
    BY DEF PutStored, PutUnheard
  <1>2. w \notin landed
    BY <1>1 DEF Inv, AnswersAreTrue
  <1>3. out[w] = Effect(w, body)
    BY <1>1 DEF Inv, WriterBuiltOn, Holds
  <1> QED
    BY <1>1, <1>2, <1>3, AbstractEffect DEF Graph!Land, Write

\* A checkpoint whose condition holds covers what its writer wrote last.
LEMMA CheckpointPublishes ==
    ASSUME TypeOK, Inv, NEW c \in Checkpointers, CheckpointStored(c)
    PROVE  Graph!Publish(c)
  <1>1. Holds(token[c]) /\ Write(dumped[c]) /\ dumped[c] \in GraphBody /\ UNCHANGED landed
    BY DEF CheckpointStored, TypeOK
  <1>2. basis[c] = body
    BY <1>1 DEF Inv, CheckpointerBuiltOn, Holds
  <1>3. /\ basis \in [Checkpointers -> Bodies] /\ body' = dumped[c]
        /\ \/ basis' = [basis EXCEPT ![c] = dumped[c]]
           \/ basis' = [basis EXCEPT ![c] = Absent]
           \/ basis' = basis
    BY <1>1 DEF CheckpointStored, TypeOK, Write
  <1>4. basis = [basis EXCEPT ![c] = basis[c]]
    BY <1>3
  <1>5. \E b \in {body', Absent, basis[c]} : basis' = [basis EXCEPT ![c] = b]
    BY <1>3, <1>4
  <1>6. basis' \in {[basis EXCEPT ![c] = b] : b \in {body', Absent, basis[c]}}
    BY <1>5
  <1>7. \E g \in Graph!GraphBody : body' = g
    BY <1>1, <1>3 DEF GraphBody, Graph!GraphBody
  <1> QED
    BY <1>1, <1>2, <1>6, <1>7 DEF Graph!Publish

LEMMA StepRefines == TypeOK /\ Inv /\ [Next]_vars => [Graph!Next]_(Graph!vars)
  <1> SUFFICES ASSUME TypeOK, Inv, [Next]_vars PROVE Graph!Next \/ UNCHANGED Graph!vars
    OBVIOUS
  <1>1. ASSUME NEW w \in Writers, PutStored(w) \/ PutUnheard(w) PROVE Graph!Next
    BY <1>1, PutLands DEF Graph!Next
  <1>2. ASSUME NEW c \in Checkpointers, CheckpointStored(c) PROVE Graph!Next
    BY <1>2, CheckpointPublishes DEF Graph!Next
  <1>3. ASSUME NEW w \in Writers,
               \/ Begin(w) \/ ReadAndRebase(w) \/ ReadThrows(w)
               \/ PutRefused(w) \/ CallThrows(w)
        PROVE  UNCHANGED Graph!vars
    BY <1>3 DEF Begin, ReadAndRebase, ReadThrows, PutRefused, CallThrows, blob, history, Graph!vars
  <1>4. ASSUME NEW c \in Checkpointers, Edit(c) \/ Checkpoint(c) \/ CheckpointConflicts(c)
        PROVE  UNCHANGED Graph!vars
    BY <1>4 DEF Edit, Checkpoint, CheckpointConflicts, blob, history, Graph!vars
  <1>5. CASE Remove
    BY <1>5 DEF Remove, history, Graph!Remove, Graph!Next
  <1>6. CASE UNCHANGED vars
    BY <1>6 DEF vars, Graph!vars
  <1> QED
    BY <1>1, <1>2, <1>3, <1>4, <1>5, <1>6 DEF Next, WriterStep, CheckpointerStep

\* Conditional puts make concurrent writers serial: whatever the interleaving, the
\* lost answers and the deletions, the blob changes by one update at a time, each
\* run once on what the last one left (rebaseAndRetry, checkpointGraph).
THEOREM WritersAreSerial == Spec => SerialUpdates
  <1>1. Init => Graph!Init
    BY DEF Init, Graph!Init
  <1>2. Init => TypeOK /\ Inv
    BY TypeInit, InvInit
  <1>3. TypeOK /\ Inv /\ [Next]_vars => (TypeOK /\ Inv)'
    BY TypeStep, InvStep
  <1> QED
    BY <1>1, <1>2, <1>3, StepRefines, PTL DEF Spec, SerialUpdates, Graph!Spec

=============================================================================

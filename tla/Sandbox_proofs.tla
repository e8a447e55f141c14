---------------------------- MODULE Sandbox_proofs ----------------------------
(***************************************************************************)
(* Proofs about Sandbox, for any calls, instances and threads, any number  *)
(* of sandboxes and any number of failures.                                *)
(***************************************************************************)
EXTENDS Sandbox, TLAPS

-----------------------------------------------------------------------------
(* Types                                                                   *)

(* What TypeOK says of the calls. *)
CallsTyped ==
  /\ call \in [Calls -> CallType]
  /\ \A c \in Calls : call[c].pc \in {"resume", "persist", "use", "rewrite"} => call[c].id # 0
  /\ \A c \in Calls : call[c].pc \in Running => call[c].thread # Nobody /\ call[c].at # Nobody

(* What a tool makes of a text is a text. *)
OnTexts(effect) == \A x \in SUBSET Calls : effect[x] \in SUBSET Calls

LEMMA EffectsTyped ==
  ASSUME NEW c \in Calls, NEW old
  PROVE  (\A effect \in Effects(c) : OnTexts(effect)) /\ OnTexts(Replace(c, old))
<1>1. ASSUME NEW x \in SUBSET Calls, NEW effect \in Effects(c) PROVE effect[x] \in SUBSET Calls
  <2>1. effect[x] = x \/ effect[x] = {c} \/ effect[x] = x \cup {c}
    BY DEF Effects
  <2> QED
    BY <2>1
<1>2. ASSUME NEW x \in SUBSET Calls PROVE Replace(c, old)[x] \in SUBSET Calls
  <2>1. Replace(c, old)[x] = IF old \in x THEN (x \ {old}) \cup {c} ELSE x
    BY DEF Replace
  <2> QED
    BY <2>1
<1> QED
  BY <1>1, <1>2 DEF OnTexts

(* A change of a sandbox of a typed call keeps sandboxes and texts typed,  *)
(* and is one of that sandbox's file and of its thread's text only.        *)
LEMMA ChangeTyped ==
  ASSUME TypeOK, NEW c \in Calls, NEW s \in Ids, NEW read \in SUBSET Calls, NEW effect,
         OnTexts(effect),
         call[c].thread \in Threads, Change(c, s, read, effect)
  PROVE  /\ sandbox' \in [Ids -> SandboxType] /\ text' \in [Threads -> SUBSET Calls]
         /\ \A r \in Ids : /\ sandbox'[r].owner = sandbox[r].owner
                           /\ sandbox'[r].alive = sandbox[r].alive
                           /\ sandbox'[r].fresh = sandbox[r].fresh
                           /\ r # s => sandbox'[r].file = sandbox[r].file
         /\ sandbox'[s].file = effect[read]
         /\ \A t \in Threads : text'[t] = IF t = call[c].thread THEN effect[text[t]] ELSE text[t]
<1> DEFINE new == [sandbox[s] EXCEPT !.file = effect[read]]
<1>1. new \in SandboxType /\ new.owner = sandbox[s].owner /\ new.alive = sandbox[s].alive
      /\ new.fresh = sandbox[s].fresh /\ new.file = effect[read]
  BY DEF TypeOK, SandboxType, OnTexts
<1>2. sandbox' = [sandbox EXCEPT ![s] = new]
  BY DEF Change
<1>3. sandbox \in [Ids -> SandboxType] /\ text \in [Threads -> SUBSET Calls]
  BY DEF TypeOK
<1>4. text' = [text EXCEPT ![call[c].thread] = effect[text[call[c].thread]]]
  BY DEF Change
<1>5. effect[text[call[c].thread]] \in SUBSET Calls
  BY <1>3 DEF OnTexts
<1> HIDE DEF new
<1>6. sandbox' \in [Ids -> SandboxType] /\ text' \in [Threads -> SUBSET Calls]
  BY <1>1, <1>2, <1>3, <1>4, <1>5
<1>7. sandbox'[s] = new /\ \A r \in Ids : r # s => sandbox'[r] = sandbox[r]
  BY <1>2, <1>3
<1>8. \A t \in Threads : text'[t] = IF t = call[c].thread THEN effect[text[t]] ELSE text[t]
  BY <1>3, <1>4
<1> QED
  BY <1>1, <1>6, <1>7, <1>8

(* A call that uses its sandbox has one, and belongs to a thread.          *)
LEMMA UserHasSandbox ==
  ASSUME TypeOK, NEW c \in Calls, call[c].pc \in {"resume", "persist", "use", "rewrite"}
  PROVE  call[c].id \in Ids /\ call[c].thread \in Threads /\ call[c].at \in Instances
BY SandboxAssumption DEF TypeOK, CallType, Running, Early, Ids

LEMMA RunnerHasThread ==
  ASSUME TypeOK, NEW c \in Calls, call[c].pc \in Running
  PROVE  call[c].thread \in Threads /\ call[c].at \in Instances
BY DEF TypeOK, CallType

(* One call moves: what is typed for it is typed for all.                  *)
LEMMA CallMoves ==
  ASSUME TypeOK, NEW c \in Calls, NEW new \in CallType, call' = [call EXCEPT ![c] = new],
         new.pc \in {"resume", "persist", "use", "rewrite"} => new.id # 0,
         new.pc \in Running => new.thread # Nobody /\ new.at # Nobody
  PROVE  /\ CallsTyped'
         /\ call'[c] = new /\ \A d \in Calls : d # c => call'[d] = call[d]
BY DEF TypeOK, CallsTyped

LEMMA EndedTyped ==
  ASSUME NEW out \in {"ok", "refused", "failed"}
  PROVE  /\ Ended(out) \in CallType
         /\ Ended(out).pc = "done" /\ Ended(out).id = 0 /\ Ended(out).thread = Nobody
<1>1. 0 \in 0..MaxSandboxes
  BY SandboxAssumption
<1>2. Away \in CallType /\ Away.id = 0 /\ Away.thread = Nobody
  BY <1>1 DEF Away, CallType
<1>3. Ended(out) = [Away EXCEPT !.pc = "done", !.out = out]
  BY DEF Ended
<1> QED
  BY <1>2, <1>3 DEF CallType

LEMMA CallEnds ==
  ASSUME TypeOK, NEW c \in Calls, NEW out \in {"ok", "refused", "failed"}, End(c, out)
  PROVE  /\ CallsTyped'
         /\ call'[c] = Ended(out) /\ \A d \in Calls : d # c => call'[d] = call[d]
<1>1. Ended(out) \in CallType /\ Ended(out).pc \notin Running
      /\ Ended(out).pc \notin {"resume", "persist", "use", "rewrite"}
  BY EndedTyped DEF Running, Early
<1>2. call' = [call EXCEPT ![c] = Ended(out)]
  BY DEF End
<1> QED
  BY <1>1, <1>2, CallMoves

LEMMA TypeInit == Init => TypeOK
<1> SUFFICES ASSUME Init PROVE TypeOK
  OBVIOUS
<1>1. 0 \in 0..MaxSandboxes /\ 0 \in 0..MaxFailures
  BY SandboxAssumption
<1>2. Away \in CallType /\ Away.pc = "idle"
  BY <1>1 DEF Away, CallType
<1>3. call \in [Calls -> CallType] /\ \A c \in Calls : call[c].pc = "idle"
  BY <1>2 DEF Init
<1>4. sandbox \in [Ids -> SandboxType]
  BY DEF Init, SandboxType
<1> QED
  BY <1>1, <1>3, <1>4 DEF Init, TypeOK, Running, Early

(* Every step keeps the types. *)
LEMMA TypeStep == TypeOK /\ [Next]_vars => TypeOK'
<1> SUFFICES ASSUME TypeOK, [Next]_vars PROVE TypeOK'
  OBVIOUS
<1> USE DEF Fails
<1>0. /\ failures \in 0..MaxFailures /\ (failures < MaxFailures => failures + 1 \in 0..MaxFailures)
      /\ 0 \in 0..MaxSandboxes /\ Ids \subseteq 0..MaxSandboxes
      /\ (made < MaxSandboxes => made + 1 \in Ids /\ made + 1 \in 0..MaxSandboxes /\ made + 1 # 0)
  BY SandboxAssumption DEF TypeOK, Ids
<1>1. ASSUME NEW c \in Calls, NEW i \in Instances, NEW t \in Threads, Call(c, i, t) PROVE TypeOK'
  <2> DEFINE new == [call[c] EXCEPT !.pc = "lookup", !.at = i, !.thread = t]
  <2>0. call[c] \in CallType /\ "lookup" \in Running /\ i # Nobody /\ t # Nobody
    BY SandboxAssumption DEF TypeOK, Running, Early
  <2>1. new \in CallType /\ new.pc = "lookup" /\ new.thread # Nobody /\ new.at # Nobody
    BY <2>0 DEF CallType
  <2>2. call' = [call EXCEPT ![c] = new]
    BY <1>1 DEF Call
  <2> HIDE DEF new
  <2>3. CallsTyped'
    BY <2>1, <2>2, CallMoves
  <2> QED
    BY <1>1, <2>3 DEF Call, TypeOK, CallsTyped
<1>2. ASSUME NEW c \in Calls, NEW pc \in Running, NEW id \in 0..MaxSandboxes, call[c].pc \in Running,
             pc \in {"resume", "persist", "use", "rewrite"} => id # 0,
             call' = [call EXCEPT ![c].pc = pc, ![c].id = id]
      PROVE  CallsTyped'
  <2> DEFINE new == [call[c] EXCEPT !.pc = pc, !.id = id]
  <2>0. call[c] \in CallType /\ call[c].thread # Nobody /\ call[c].at # Nobody
    BY <1>2 DEF TypeOK
  <2>1. new \in CallType /\ new.pc = pc /\ new.id = id /\ new.thread # Nobody /\ new.at # Nobody
    BY <2>0 DEF CallType
  <2>2. call' = [call EXCEPT ![c] = new]
    BY <1>2
  <2> HIDE DEF new
  <2> QED
    BY <1>2, <2>1, <2>2, CallMoves
<1>3. ASSUME NEW c \in Calls, NEW pc \in Running, call[c].pc \in Running, Goto(c, pc),
             pc \in {"resume", "persist", "use", "rewrite"} => call[c].id # 0
      PROVE  CallsTyped'
  <2> DEFINE new == [call[c] EXCEPT !.pc = pc]
  <2>0. call[c] \in CallType /\ call[c].thread # Nobody /\ call[c].at # Nobody
    BY <1>3 DEF TypeOK
  <2>1. new \in CallType /\ new.pc = pc /\ new.id = call[c].id /\ new.thread # Nobody /\ new.at # Nobody
    BY <2>0 DEF CallType
  <2>2. call' = [call EXCEPT ![c] = new]
    BY <1>3 DEF Goto
  <2> HIDE DEF new
  <2> QED
    BY <1>3, <2>1, <2>2, CallMoves
<1>4. ASSUME NEW c \in Calls, Lookup(c) PROVE TypeOK'
  <2> DEFINE known == memory[call[c].at][call[c].thread]
  <2>1. call[c].pc \in Running /\ call[c].thread \in Threads /\ call[c].at \in Instances
    BY <1>4, RunnerHasThread DEF Lookup, Running, Early
  <2>2. known \in 0..MaxSandboxes /\ (Valid(known) => known # 0)
    BY <2>1 DEF TypeOK, Valid
  <2>3. /\ call' = [call EXCEPT ![c].pc = IF Valid(known) THEN "resume" ELSE "query",
                                ![c].id = IF Valid(known) THEN known ELSE 0]
        /\ memory' = [memory EXCEPT ![call[c].at][call[c].thread] = IF Valid(known) THEN known ELSE 0]
    BY <1>4 DEF Lookup
  <2> HIDE DEF known
  <2>4. memory' \in [Instances -> [Threads -> 0..MaxSandboxes]]
    BY <1>0, <2>2, <2>3 DEF TypeOK
  <2>5. ASSUME Valid(known) PROVE CallsTyped'
    BY <1>2, <2>1, <2>2, <2>3, <2>5 DEF Running, Early
  <2>6. ASSUME ~Valid(known) PROVE CallsTyped'
    BY <1>0, <1>2, <2>1, <2>3, <2>6 DEF Running, Early
  <2> QED
    BY <1>4, <2>4, <2>5, <2>6 DEF Lookup, TypeOK, CallsTyped
<1>5. ASSUME NEW c \in Calls, Query(c) PROVE TypeOK'
  <2> DEFINE known == row[call[c].thread]
  <2>1. call[c].pc \in Running /\ call[c].thread \in Threads /\ call[c].at \in Instances
    BY <1>5, RunnerHasThread DEF Query, Running, Early
  <2>2. known \in 0..MaxSandboxes /\ (Valid(known) => known # 0)
    BY <2>1 DEF TypeOK, Valid
  <2>3. CASE Valid(known)
    <3>1. /\ memory' = [memory EXCEPT ![call[c].at][call[c].thread] = known]
          /\ call' = [call EXCEPT ![c].pc = "resume", ![c].id = known]
          /\ UNCHANGED calm
      BY <1>5, <2>3 DEF Query
    <3> HIDE DEF known
    <3>2. memory' \in [Instances -> [Threads -> 0..MaxSandboxes]]
      BY <2>2, <3>1 DEF TypeOK
    <3>3. CallsTyped'
      BY <1>2, <2>1, <2>2, <2>3, <3>1 DEF Running, Early
    <3> QED
      BY <1>5, <3>1, <3>2, <3>3 DEF Query, TypeOK, CallsTyped
  <2>4. CASE ~Valid(known)
    <3>1. CallsTyped'
      BY <1>3, <1>5, <2>1, <2>4 DEF Query, Running, Early
    <3> QED
      BY <1>5, <2>4, <3>1 DEF Query, TypeOK, CallsTyped
  <2> QED
    BY <2>3, <2>4
<1>6. ASSUME NEW c \in Calls, QueryFails(c) PROVE TypeOK'
  BY <1>0, <1>6, CallEnds DEF QueryFails, TypeOK, CallsTyped
<1>7. ASSUME NEW c \in Calls, Resume(c) PROVE TypeOK'
  <2>1. {"resume", "use", "create"} \subseteq Running /\ call[c].id # 0
    BY <1>7 DEF Resume, TypeOK, Running, Early
  <2>2. ASSUME Goto(c, "use") PROVE CallsTyped'
    BY <1>3, <1>7, <2>1, <2>2 DEF Resume
  <2>3. ASSUME call' = [call EXCEPT ![c].pc = "create", ![c].id = 0] PROVE CallsTyped'
    BY <1>0, <1>2, <1>7, <2>1, <2>3 DEF Resume
  <2> QED
    BY <1>7, <2>2, <2>3 DEF Resume, TypeOK, CallsTyped
<1>8. ASSUME NEW c \in Calls, ResumeFails(c) PROVE TypeOK'
  <2>1. {"resume", "create"} \subseteq Running
    BY DEF Running, Early
  <2>2. CallsTyped'
    BY <1>0, <1>2, <1>8, <2>1 DEF ResumeFails
  <2> QED
    BY <1>0, <1>8, <2>2 DEF ResumeFails, TypeOK, CallsTyped
<1>9. ASSUME NEW c \in Calls, Create(c) PROVE TypeOK'
  <2> DEFINE new == [owner |-> call[c].thread, alive |-> TRUE, fresh |-> TRUE, file |-> {}]
  <2>1. call[c].pc \in Running /\ call[c].thread \in Threads /\ call[c].at \in Instances
    BY <1>9, RunnerHasThread DEF Create, Running, Early
  <2>2. new \in SandboxType
    BY <2>1 DEF SandboxType
  <2>3. sandbox' = [sandbox EXCEPT ![made + 1] = new]
    BY <1>9 DEF Create
  <2> HIDE DEF new
  <2>4. sandbox' \in [Ids -> SandboxType] /\ memory' \in [Instances -> [Threads -> 0..MaxSandboxes]]
    BY <1>0, <1>9, <2>1, <2>2, <2>3 DEF Create, TypeOK
  <2>5. call' = [call EXCEPT ![c].pc = "persist", ![c].id = made + 1]
    BY <1>9 DEF Create
  <2>6. CallsTyped'
    BY <1>0, <1>2, <1>9, <2>1, <2>5 DEF Create, Running, Early
  <2> QED
    BY <1>0, <1>9, <2>4, <2>6 DEF Create, TypeOK, CallsTyped
<1>10. ASSUME NEW c \in Calls, CreateFails(c) PROVE TypeOK'
  BY <1>0, <1>10, CallEnds DEF CreateFails, TypeOK, CallsTyped
<1>11. ASSUME NEW c \in Calls, call[c].pc = "persist"
       PROVE  [row EXCEPT ![call[c].thread] = call[c].id] \in [Threads -> 0..MaxSandboxes]
  BY <1>0, <1>11, UserHasSandbox DEF TypeOK
<1>12. ASSUME NEW c \in Calls, Persist(c) PROVE TypeOK'
  <2>1. CallsTyped'
    BY <1>3, <1>12, UserHasSandbox DEF Persist, TypeOK, Running
  <2> QED
    BY <1>11, <1>12, <2>1 DEF Persist, TypeOK, CallsTyped
<1>13. ASSUME NEW c \in Calls, PersistFails(c) PROVE TypeOK'
  <2>1. row' \in [Threads -> 0..MaxSandboxes]
    BY <1>11, <1>13 DEF PersistFails, TypeOK
  <2> QED
    BY <1>0, <1>13, <2>1, CallEnds DEF PersistFails, TypeOK, CallsTyped
<1>14. ASSUME NEW c \in Calls, Use(c) PROVE TypeOK'
  <2>1. call[c].id \in Ids /\ call[c].thread \in Threads /\ sandbox[call[c].id].file \in SUBSET Calls
    BY <1>14, UserHasSandbox DEF Use, TypeOK, SandboxType
  <2>2. PICK effect \in Effects(c) : Change(c, call[c].id, sandbox[call[c].id].file, effect)
    BY <1>14 DEF Use
  <2>3. sandbox' \in [Ids -> SandboxType] /\ text' \in [Threads -> SUBSET Calls]
    BY <2>1, <2>2, EffectsTyped, ChangeTyped
  <2> QED
    BY <1>14, <2>3, CallEnds DEF Use, TypeOK, CallsTyped
<1>15. ASSUME NEW c \in Calls, EditRefused(c) PROVE TypeOK'
  BY <1>15, CallEnds DEF EditRefused, TypeOK, CallsTyped
<1>16. ASSUME NEW c \in Calls, NEW old \in Calls \cup {Nobody}, EditRead(c, old) PROVE TypeOK'
  <2> DEFINE new == [call[c] EXCEPT !.pc = "rewrite", !.held = sandbox[call[c].id].file, !.old = old]
  <2>1. call[c].id \in Ids /\ sandbox[call[c].id].file \in SUBSET Calls
    BY <1>16, UserHasSandbox DEF EditRead, TypeOK, SandboxType
  <2>0. /\ call[c] \in CallType /\ call[c].id # 0 /\ "rewrite" \in Running
        /\ call[c].thread # Nobody /\ call[c].at # Nobody
    BY <1>16 DEF EditRead, TypeOK, Running
  <2>2. /\ new \in CallType /\ new.pc = "rewrite" /\ new.id # 0
        /\ new.thread # Nobody /\ new.at # Nobody
    BY <2>0, <2>1 DEF CallType
  <2>3. call' = [call EXCEPT ![c] = new]
    BY <1>16 DEF EditRead
  <2> HIDE DEF new
  <2>4. CallsTyped'
    BY <2>2, <2>3, CallMoves
  <2> QED
    BY <1>16, <2>4 DEF EditRead, TypeOK, CallsTyped
<1>17. ASSUME NEW c \in Calls, EditWrite(c) PROVE TypeOK'
  <2>1. call[c].id \in Ids /\ call[c].thread \in Threads /\ call[c].held \in SUBSET Calls
    BY <1>17, UserHasSandbox DEF EditWrite, TypeOK, CallType
  <2>2. sandbox' \in [Ids -> SandboxType] /\ text' \in [Threads -> SUBSET Calls]
    BY <1>17, <2>1, EffectsTyped, ChangeTyped DEF EditWrite
  <2> QED
    BY <1>17, <2>2, CallEnds DEF EditWrite, TypeOK, CallsTyped
<1>18. ASSUME NEW c \in Calls, UseFails(c) PROVE TypeOK'
  BY <1>18, CallEnds DEF UseFails, TypeOK, CallsTyped
<1>19. ASSUME NEW c \in Calls, UseUnheard(c) PROVE TypeOK'
  <2>1. /\ call[c].id \in Ids /\ call[c].thread \in Threads /\ call[c].held \in SUBSET Calls
        /\ sandbox[call[c].id].file \in SUBSET Calls
    BY <1>19, UserHasSandbox DEF UseUnheard, TypeOK, CallType, SandboxType
  <2>2. /\ sandbox' \in [Ids -> SandboxType] /\ text' \in [Threads -> SUBSET Calls]
        /\ calm' \subseteq Threads
    <3>1. CASE UNCHANGED <<sandbox, text, calm>>
      BY <3>1 DEF TypeOK
    <3>2. CASE /\ \E effect \in Effects(c) : Change(c, call[c].id, sandbox[call[c].id].file, effect)
               /\ UNCHANGED calm
      <4>1. PICK effect \in Effects(c) : Change(c, call[c].id, sandbox[call[c].id].file, effect)
        BY <3>2
      <4> QED
        BY <2>1, <3>2, <4>1, EffectsTyped, ChangeTyped DEF TypeOK
    <3>3. CASE /\ Change(c, call[c].id, call[c].held, Replace(c, call[c].old))
               /\ calm' = IF sandbox[call[c].id].file = call[c].held THEN calm ELSE calm \ {call[c].thread}
      BY <2>1, <3>3, EffectsTyped, ChangeTyped DEF TypeOK
    <3> QED
      BY <1>19, <3>1, <3>2, <3>3 DEF UseUnheard
  <2> QED
    BY <1>0, <1>19, <2>2, CallEnds DEF UseUnheard, TypeOK, CallsTyped
<1>20. ASSUME NEW s \in Ids, Stop(s) \/ Expire(s) PROVE TypeOK'
  <2>0. sandbox[s] \in SandboxType
    BY DEF TypeOK
  <2>1. sandbox' \in [Ids -> SandboxType]
    <3>1. /\ [sandbox[s] EXCEPT !.alive = FALSE] \in SandboxType
          /\ [sandbox[s] EXCEPT !.fresh = FALSE] \in SandboxType
      BY <2>0 DEF SandboxType
    <3> QED
      BY <1>20, <3>1 DEF Stop, Expire, TypeOK
  <2>2. call' = call /\ made' = made /\ row' = row /\ memory' = memory /\ text' = text
        /\ calm' \subseteq Threads /\ failures' \in 0..MaxFailures
    BY <1>0, <1>20 DEF Stop, Expire, TypeOK
  <2> QED
    BY <2>1, <2>2 DEF TypeOK
<1>21. ASSUME NEW i \in Instances, Restart(i) PROVE TypeOK'
  <2>1. memory' \in [Instances -> [Threads -> 0..MaxSandboxes]]
    BY <1>0, <1>21 DEF Restart, TypeOK
  <2>2. \A c \in Calls : call'[c] = call[c] \/ call'[c] = Ended("failed")
    BY <1>21 DEF Restart
  <2>3. call' \in [Calls -> CallType]
    BY <1>21, EndedTyped DEF Restart, TypeOK
  <2>4. Ended("failed").pc \notin Running \cup {"resume"}
    BY EndedTyped DEF Running, Early
  <2> QED
    BY <1>0, <1>21, <2>1, <2>2, <2>3, <2>4 DEF Restart, TypeOK, Running
<1>22. CASE UNCHANGED vars
  BY <1>22 DEF TypeOK, vars
<1> QED
  BY <1>1, <1>4, <1>5, <1>6, <1>7, <1>8, <1>9, <1>10, <1>12, <1>13, <1>14, <1>15, <1>16, <1>17,
     <1>18, <1>19, <1>20, <1>21, <1>22 DEF Next, Step

(* Sandboxes, rows, caches and calls keep their types, and a call that uses *)
(* a sandbox has one, whatever fails. sandbox.ts:101-121.                 *)
THEOREM SandboxTyped == Spec => []TypeOK
BY TypeInit, TypeStep, PTL DEF Spec

-----------------------------------------------------------------------------
(* A thread's sandbox is its own                                           *)

(* A sandbox that is not made has no owner, and a call that has a sandbox  *)
(* is under way.                                                           *)
Unmade == \A s \in Ids : s > made => sandbox[s].owner = Nobody
IdOfRunning == \A c \in Calls : call[c].id # 0 => call[c].pc \in Running
OwnInv == TypeOK /\ OwnSandbox /\ Unmade /\ IdOfRunning

(* What a step of one call leaves of the calls. *)
Move(c, pc, id) == call' = [call EXCEPT ![c].pc = pc, ![c].id = id]

LEMMA Moved ==
  ASSUME TypeOK, NEW c \in Calls, NEW pc, NEW id, Move(c, pc, id)
  PROVE  /\ call'[c].pc = pc /\ call'[c].id = id /\ call'[c].thread = call[c].thread
         /\ call'[c].at = call[c].at
         /\ \A d \in Calls : d # c => call'[d] = call[d]
<1>1. call[c] \in CallType /\ call \in [Calls -> CallType]
  BY DEF TypeOK
<1>2. call' = [call EXCEPT ![c] = [call[c] EXCEPT !.pc = pc, !.id = id]]
  BY DEF Move
<1> QED
  BY <1>1, <1>2 DEF CallType

LEMMA Went ==
  ASSUME TypeOK, NEW c \in Calls, NEW pc, Goto(c, pc)
  PROVE  /\ call'[c].pc = pc /\ call'[c].id = call[c].id /\ call'[c].thread = call[c].thread
         /\ call'[c].at = call[c].at
         /\ \A d \in Calls : d # c => call'[d] = call[d]
<1>1. call[c] \in CallType /\ call \in [Calls -> CallType]
  BY DEF TypeOK
<1>2. call' = [call EXCEPT ![c] = [call[c] EXCEPT !.pc = pc]]
  BY DEF Goto
<1> QED
  BY <1>1, <1>2 DEF CallType

LEMMA Ends ==
  ASSUME TypeOK, NEW c \in Calls, NEW out \in {"ok", "refused", "failed"}, End(c, out)
  PROVE  /\ call'[c].pc = "done" /\ call'[c].id = 0 /\ call'[c].thread = Nobody
         /\ \A d \in Calls : d # c => call'[d] = call[d]
BY CallEnds, EndedTyped

LEMMA ReadsEdit ==
  ASSUME TypeOK, NEW c \in Calls, NEW old, EditRead(c, old)
  PROVE  /\ call'[c].pc = "rewrite" /\ call'[c].id = call[c].id /\ call'[c].thread = call[c].thread
         /\ \A d \in Calls : d # c => call'[d] = call[d]
<1>1. call[c] \in CallType /\ call \in [Calls -> CallType]
  BY DEF TypeOK
<1>2. call' = [call EXCEPT ![c] = [call[c] EXCEPT !.pc = "rewrite",
                                     !.held = sandbox[call[c].id].file, !.old = old]]
  BY DEF EditRead
<1> QED
  BY <1>1, <1>2 DEF CallType

LEMMA Called ==
  ASSUME TypeOK, NEW c \in Calls, NEW i, NEW t, Call(c, i, t)
  PROVE  /\ call'[c].pc = "lookup" /\ call'[c].id = call[c].id /\ call'[c].thread = t
         /\ \A d \in Calls : d # c => call'[d] = call[d]
<1>1. call[c] \in CallType /\ call \in [Calls -> CallType]
  BY DEF TypeOK
<1>2. call' = [call EXCEPT ![c] = [call[c] EXCEPT !.pc = "lookup", !.at = i, !.thread = t]]
  BY DEF Call
<1> QED
  BY <1>1, <1>2 DEF CallType

(* One entry of one memory changes. *)
Remember(i, t, s) == memory' = [memory EXCEPT ![i][t] = s]

LEMMA Remembered ==
  ASSUME TypeOK, NEW i \in Instances, NEW t \in Threads, NEW s, Remember(i, t, s)
  PROVE  \A j \in Instances, r \in Threads :
           memory'[j][r] = IF j = i /\ r = t THEN s ELSE memory[j][r]
<1>1. memory \in [Instances -> [Threads -> 0..MaxSandboxes]]
  BY DEF TypeOK
<1> DEFINE mine == [memory[i] EXCEPT ![t] = s]
<1>2. memory' = [memory EXCEPT ![i] = mine]
  BY DEF Remember
<1>3. \A r \in Threads : mine[r] = IF r = t THEN s ELSE memory[i][r]
  BY <1>1
<1> HIDE DEF mine
<1>4. memory'[i] = mine /\ \A j \in Instances : j # i => memory'[j] = memory[j]
  BY <1>1, <1>2
<1> QED
  BY <1>3, <1>4

(* What Create does. *)
LEMMA Creates ==
  ASSUME TypeOK, NEW c \in Calls, Create(c)
  PROVE  /\ made' \in Ids /\ made' # 0 /\ made' = made + 1 /\ call[c].thread \in Threads
         /\ sandbox'[made'] =
              [owner |-> call[c].thread, alive |-> TRUE, fresh |-> TRUE, file |-> {}]
         /\ \A s \in Ids : s # made' => sandbox'[s] = sandbox[s]
         /\ call'[c].pc = "persist" /\ call'[c].id = made' /\ call'[c].thread = call[c].thread
         /\ \A d \in Calls : d # c => call'[d] = call[d]
         /\ \A i \in Instances, t \in Threads :
              memory'[i][t] = IF i = call[c].at /\ t = call[c].thread THEN made' ELSE memory[i][t]
<1>1. call[c].thread \in Threads /\ call[c].at \in Instances
  BY RunnerHasThread DEF Create, Running, Early
<1>2. made' \in Ids /\ made' # 0 /\ made' = made + 1
  BY SandboxAssumption DEF Create, TypeOK, Ids
<1>3. /\ Remember(call[c].at, call[c].thread, made')
      /\ call' = [call EXCEPT ![c].pc = "persist", ![c].id = made']
      /\ sandbox' = [sandbox EXCEPT ![made'] =
           [owner |-> call[c].thread, alive |-> TRUE, fresh |-> TRUE, file |-> {}]]
  BY DEF Create, Remember
<1>4. memory \in [Instances -> [Threads -> 0..MaxSandboxes]] /\ sandbox \in [Ids -> SandboxType]
  BY DEF TypeOK
<1>5. \A i \in Instances, t \in Threads :
        memory'[i][t] = IF i = call[c].at /\ t = call[c].thread THEN made' ELSE memory[i][t]
  <2>1. Remember(call[c].at, call[c].thread, made')
    BY <1>3
  <2> QED
    BY <1>1, <2>1, Remembered
<1>6. /\ sandbox'[made'] = [owner |-> call[c].thread, alive |-> TRUE, fresh |-> TRUE, file |-> {}]
      /\ \A s \in Ids : s # made' => sandbox'[s] = sandbox[s]
  BY <1>2, <1>3, <1>4
<1>7. Move(c, "persist", made')
  BY <1>3 DEF Move
<1>8. /\ call'[c].pc = "persist" /\ call'[c].id = made' /\ call'[c].thread = call[c].thread
      /\ \A d \in Calls : d # c => call'[d] = call[d]
  BY <1>7, Moved
<1> QED
  BY <1>1, <1>2, <1>5, <1>6, <1>8

(* A sandbox that is changed keeps its owner, its life and its session. *)
LEMMA Changes ==
  ASSUME TypeOK, NEW c \in Calls, Use(c) \/ EditWrite(c) \/ UseUnheard(c)
  PROVE  /\ \A s \in Ids : /\ sandbox'[s].owner = sandbox[s].owner
                           /\ sandbox'[s].alive = sandbox[s].alive
                           /\ sandbox'[s].fresh = sandbox[s].fresh
         /\ made' = made /\ row' = row /\ memory' = memory /\ calm' \subseteq calm
         /\ call[c].pc \in {"use", "rewrite"}
         /\ call'[c].pc = "done" /\ call'[c].id = 0 /\ call'[c].thread = Nobody
         /\ \A d \in Calls : d # c => call'[d] = call[d]
<1>1. /\ call[c].id \in Ids /\ call[c].thread \in Threads /\ call[c].held \in SUBSET Calls
      /\ sandbox[call[c].id].file \in SUBSET Calls /\ call[c].pc \in {"use", "rewrite"}
  BY UserHasSandbox DEF Use, EditWrite, UseUnheard, TypeOK, CallType, SandboxType
<1>2. \/ sandbox' = sandbox
      \/ \E effect \in Effects(c) : Change(c, call[c].id, sandbox[call[c].id].file, effect)
      \/ Change(c, call[c].id, call[c].held, Replace(c, call[c].old))
  BY DEF Use, EditWrite, UseUnheard
<1> DEFINE Kept == \A s \in Ids : /\ sandbox'[s].owner = sandbox[s].owner
                                  /\ sandbox'[s].alive = sandbox[s].alive
                                  /\ sandbox'[s].fresh = sandbox[s].fresh
<1>3. Kept
  <2>1. ASSUME NEW effect \in Effects(c), Change(c, call[c].id, sandbox[call[c].id].file, effect)
        PROVE  Kept
    BY <1>1, <2>1, EffectsTyped, ChangeTyped
  <2>2. ASSUME Change(c, call[c].id, call[c].held, Replace(c, call[c].old))
        PROVE  Kept
    BY <1>1, <2>2, EffectsTyped, ChangeTyped
  <2> QED
    BY <1>2, <2>1, <2>2
<1>4. \E out \in {"ok", "refused", "failed"} : End(c, out)
  BY DEF Use, EditWrite, UseUnheard
<1> QED
  BY <1>1, <1>3, <1>4, Ends DEF Use, EditWrite, UseUnheard

(* Only Create gives a sandbox an owner, and none loses it. *)
LEMMA OwnersKept ==
  ASSUME TypeOK, Unmade, [Next]_vars
  PROVE  /\ Unmade'
         /\ \A s \in Ids : sandbox[s].owner # Nobody => sandbox'[s].owner = sandbox[s].owner
<1>0. made \in Nat
  BY SandboxAssumption DEF TypeOK
<1>1. ASSUME made' = made, \A s \in Ids : sandbox'[s].owner = sandbox[s].owner
      PROVE  /\ Unmade'
             /\ \A s \in Ids : sandbox[s].owner # Nobody => sandbox'[s].owner = sandbox[s].owner
  BY <1>1 DEF Unmade
<1>2. CASE UNCHANGED <<sandbox, made>>
  BY <1>1, <1>2
<1>3. ASSUME NEW c \in Calls, Create(c)
      PROVE  /\ Unmade'
             /\ \A s \in Ids : sandbox[s].owner # Nobody => sandbox'[s].owner = sandbox[s].owner
  <2>1. made' \in Ids /\ made' = made + 1 /\ made' > made
    <3>1. made' \in Ids /\ made' = made + 1
      BY <1>3, Creates
    <3> QED
      BY <1>0, <3>1
  <2>2. \A s \in Ids : s # made' => sandbox'[s] = sandbox[s]
    BY <1>3, Creates
  <2>3. \A s \in Ids : s > made' => s > made /\ s # made'
    BY <1>0, <2>1 DEF Ids
  <2>4. sandbox[made'].owner = Nobody
    BY <2>1 DEF Unmade
  <2> QED
    BY <2>2, <2>3, <2>4 DEF Unmade
<1>4. ASSUME NEW c \in Calls, Use(c) \/ EditWrite(c) \/ UseUnheard(c)
      PROVE  /\ Unmade'
             /\ \A s \in Ids : sandbox[s].owner # Nobody => sandbox'[s].owner = sandbox[s].owner
  BY <1>1, <1>4, Changes
<1>5. ASSUME NEW s \in Ids, Stop(s) \/ Expire(s)
      PROVE  /\ Unmade'
             /\ \A r \in Ids : sandbox[r].owner # Nobody => sandbox'[r].owner = sandbox[r].owner
  <2>1. sandbox[s] \in SandboxType /\ sandbox \in [Ids -> SandboxType]
    BY DEF TypeOK
  <2>2. /\ [sandbox[s] EXCEPT !.alive = FALSE].owner = sandbox[s].owner
        /\ [sandbox[s] EXCEPT !.fresh = FALSE].owner = sandbox[s].owner
    BY <2>1 DEF SandboxType
  <2>3. \/ sandbox' = [sandbox EXCEPT ![s] = [sandbox[s] EXCEPT !.alive = FALSE]]
        \/ sandbox' = [sandbox EXCEPT ![s] = [sandbox[s] EXCEPT !.fresh = FALSE]]
    BY <1>5 DEF Stop, Expire
  <2>4. \A r \in Ids : sandbox'[r].owner = sandbox[r].owner
    BY <2>1, <2>2, <2>3
  <2> QED
    BY <1>1, <1>5, <2>4 DEF Stop, Expire
<1> QED
  BY <1>2, <1>3, <1>4, <1>5 DEF Next, Step, vars, Call, Lookup, Query, QueryFails, Resume, ResumeFails,
     CreateFails, Persist, PersistFails, EditRefused, EditRead, UseFails, Restart

(* Rows, caches and calls take a sandbox only from each other, or when it  *)
(* has been created.                                                       *)
LEMMA OwnFrame ==
  ASSUME TypeOK, OwnSandbox,
         \A s \in Ids : sandbox[s].owner # Nobody => sandbox'[s].owner = sandbox[s].owner,
         \A t \in Threads : \/ row'[t] \in {0, row[t]}
                            \/ sandbox'[row'[t]].owner = t,
         \A i \in Instances, t \in Threads : \/ memory'[i][t] \in {0, memory[i][t]}
                                             \/ sandbox'[memory'[i][t]].owner = t,
         \A c \in Calls : \/ call'[c].id = 0
                          \/ call[c].pc \in Running /\ call'[c].id = call[c].id /\ call'[c].thread = call[c].thread
                          \/ sandbox'[call'[c].id].owner = call'[c].thread
  PROVE  OwnSandbox'
<1>1. \A s \in 0..MaxSandboxes : s # 0 => s \in Ids
  BY SandboxAssumption DEF Ids
<1>2. ASSUME NEW t \in Threads, row'[t] # 0 PROVE sandbox'[row'[t]].owner = t
  BY <1>1, <1>2, SandboxAssumption DEF TypeOK, OwnSandbox
<1>3. ASSUME NEW i \in Instances, NEW t \in Threads, memory'[i][t] # 0
      PROVE  sandbox'[memory'[i][t]].owner = t
  BY <1>1, <1>3, SandboxAssumption DEF TypeOK, OwnSandbox
<1>4. ASSUME NEW c \in Calls, call'[c].id # 0 PROVE sandbox'[call'[c].id].owner = call'[c].thread
  <2>1. call[c].pc \in Running => call[c].thread # Nobody /\ call[c].id \in 0..MaxSandboxes
    BY DEF TypeOK, CallType
  <2> QED
    BY <1>1, <1>4, <2>1 DEF OwnSandbox
<1> QED
  BY <1>2, <1>3, <1>4 DEF OwnSandbox

(* Every step of a call keeps the sandboxes the threads' own. *)
LEMMA OwnStep == OwnInv /\ [Next]_vars => OwnSandbox'
<1> SUFFICES ASSUME OwnInv, [Next]_vars PROVE OwnSandbox'
  OBVIOUS
<1>0. /\ TypeOK /\ OwnSandbox
      /\ \A s \in Ids : sandbox[s].owner # Nobody => sandbox'[s].owner = sandbox[s].owner
  BY OwnersKept DEF OwnInv
<1>1. \A s \in 0..MaxSandboxes : s # 0 => s \in Ids
  BY SandboxAssumption DEF Ids
<1>2. \A c \in Calls : call[c].id # 0 => call[c].pc \in Running
  BY DEF OwnInv, IdOfRunning
<1> DEFINE Row == row' = row
           Mem == memory' = memory
           Go(c) == /\ \/ call'[c].id = 0
                       \/ call[c].pc \in Running /\ call'[c].id = call[c].id /\ call'[c].thread = call[c].thread
                       \/ sandbox'[call'[c].id].owner = call'[c].thread
                    /\ \A d \in Calls : d # c => call'[d] = call[d]
<1>3. ASSUME NEW c \in Calls, Row, Mem, Go(c) PROVE OwnSandbox'
  BY <1>0, <1>2, <1>3, OwnFrame
<1>4. ASSUME NEW c \in Calls, NEW i \in Instances, NEW t \in Threads, Call(c, i, t) PROVE OwnSandbox'
  <2>1. call'[c].id = 0 /\ \A d \in Calls : d # c => call'[d] = call[d]
    BY <1>0, <1>2, <1>4, Called DEF Call, Running, Early
  <2> QED
    BY <1>3, <1>4, <2>1 DEF Call
<1>5. ASSUME NEW c \in Calls, Lookup(c) PROVE OwnSandbox'
  <2> DEFINE known == memory[call[c].at][call[c].thread]
  <2>1. call[c].pc \in Running /\ call[c].thread \in Threads /\ call[c].at \in Instances
    BY <1>0, <1>5, RunnerHasThread DEF Lookup, Running, Early
  <2>2. /\ Remember(call[c].at, call[c].thread, IF Valid(known) THEN known ELSE 0)
        /\ Move(c, IF Valid(known) THEN "resume" ELSE "query", IF Valid(known) THEN known ELSE 0)
        /\ row' = row /\ sandbox' = sandbox
    BY <1>5 DEF Lookup, Remember, Move
  <2>3. \A j \in Instances, r \in Threads : memory'[j][r] \in {0, memory[j][r]}
    <3>1. Remember(call[c].at, call[c].thread, IF Valid(known) THEN known ELSE 0)
      BY <2>2
    <3>2. \A j \in Instances, r \in Threads :
            memory'[j][r] = IF j = call[c].at /\ r = call[c].thread
                              THEN IF Valid(known) THEN known ELSE 0 ELSE memory[j][r]
      BY <1>0, <2>1, <3>1, Remembered
    <3> QED
      BY <3>2
  <2>4. /\ call'[c].id = IF Valid(known) THEN known ELSE 0
        /\ call'[c].thread = call[c].thread /\ \A d \in Calls : d # c => call'[d] = call[d]
    <3>1. Move(c, IF Valid(known) THEN "resume" ELSE "query", IF Valid(known) THEN known ELSE 0)
      BY <2>2
    <3> QED
      BY <1>0, <3>1, Moved
  <2>5. call'[c].id = 0 \/ sandbox'[call'[c].id].owner = call'[c].thread
    <3>1. ASSUME Valid(known) PROVE sandbox[known].owner = call[c].thread
      BY <1>0, <2>1, <3>1 DEF OwnSandbox, Valid
    <3> QED
      BY <2>2, <2>4, <3>1
  <2> QED
    BY <1>0, <1>2, <2>2, <2>3, <2>4, <2>5, OwnFrame
<1>6. ASSUME NEW c \in Calls, Query(c) PROVE OwnSandbox'
  <2> DEFINE known == row[call[c].thread]
  <2>1. call[c].pc \in Running /\ call[c].thread \in Threads /\ call[c].at \in Instances
    BY <1>0, <1>6, RunnerHasThread DEF Query, Running, Early
  <2>2. CASE Valid(known)
    <3>1. /\ Remember(call[c].at, call[c].thread, known) /\ Move(c, "resume", known)
          /\ row' = row /\ sandbox' = sandbox
      BY <1>6, <2>2 DEF Query, Remember, Move
    <3>2. \A j \in Instances, r \in Threads :
            memory'[j][r] = IF j = call[c].at /\ r = call[c].thread THEN known ELSE memory[j][r]
      BY <1>0, <2>1, <3>1, Remembered
    <3>3. /\ call'[c].id = known /\ call'[c].thread = call[c].thread
          /\ \A d \in Calls : d # c => call'[d] = call[d]
      BY <1>0, <3>1, Moved
    <3>4. sandbox'[known].owner = call[c].thread
      BY <1>0, <2>1, <2>2, <3>1 DEF OwnSandbox, Valid
    <3>5. \A j \in Instances, r \in Threads :
            memory'[j][r] = memory[j][r] \/ sandbox'[memory'[j][r]].owner = r
      BY <3>2, <3>4
    <3> QED
      BY <1>0, <1>2, <3>1, <3>3, <3>4, <3>5, OwnFrame
  <2>3. CASE ~Valid(known)
    BY <1>0, <1>3, <1>6, <2>1, <2>3, Went DEF Query
  <2> QED
    BY <2>2, <2>3
<1>7. ASSUME NEW c \in Calls, QueryFails(c) \/ CreateFails(c) \/ EditRefused(c) \/ UseFails(c)
      PROVE  OwnSandbox'
  <2>1. \E out \in {"ok", "refused", "failed"} : End(c, out)
    BY <1>7 DEF QueryFails, CreateFails, EditRefused, UseFails
  <2>2. Go(c)
    BY <1>0, <2>1, Ends
  <2> QED
    BY <1>3, <1>7, <2>2 DEF QueryFails, CreateFails, EditRefused, UseFails
<1>8. ASSUME NEW c \in Calls, Resume(c) \/ ResumeFails(c) PROVE OwnSandbox'
  <2>1. call[c].pc \in Running /\ (Goto(c, "use") \/ Move(c, "create", 0))
    BY <1>8 DEF Resume, ResumeFails, Move, Running, Early
  <2>2. Go(c)
    BY <1>0, <2>1, Moved, Went
  <2> QED
    BY <1>3, <1>8, <2>2 DEF Resume, ResumeFails
<1>9. ASSUME NEW c \in Calls, Create(c) PROVE OwnSandbox'
  <2>1. sandbox'[made'] = [owner |-> call[c].thread, alive |-> TRUE, fresh |-> TRUE, file |-> {}]
    BY <1>0, <1>9, Creates
  <2>2. sandbox'[made'].owner = call[c].thread
    BY <2>1
  <2>3. /\ call'[c].id = made' /\ call'[c].thread = call[c].thread
        /\ \A d \in Calls : d # c => call'[d] = call[d]
        /\ \A i \in Instances, t \in Threads :
             memory'[i][t] = IF i = call[c].at /\ t = call[c].thread THEN made' ELSE memory[i][t]
    BY <1>0, <1>9, Creates
  <2>4. \A i \in Instances, t \in Threads :
          memory'[i][t] = memory[i][t] \/ sandbox'[memory'[i][t]].owner = t
    BY <2>3, <2>2
  <2>5. row' = row
    BY <1>9 DEF Create
  <2> QED
    BY <1>0, <1>2, <2>3, <2>4, <2>5, <2>2, OwnFrame
<1>10. ASSUME NEW c \in Calls, Persist(c) \/ PersistFails(c) PROVE OwnSandbox'
  <2>1. /\ call[c].pc \in Running /\ call[c].id \in Ids /\ call[c].thread \in Threads
        /\ sandbox[call[c].id].owner = call[c].thread /\ sandbox' = sandbox /\ memory' = memory
    <3>1. call[c].pc = "persist" /\ sandbox' = sandbox /\ memory' = memory
      BY <1>10 DEF Persist, PersistFails
    <3> QED
      BY <1>0, <3>1, UserHasSandbox, SandboxAssumption DEF Running, OwnSandbox, Ids
  <2>2. row' = row \/ row' = [row EXCEPT ![call[c].thread] = call[c].id]
    BY <1>10 DEF Persist, PersistFails
  <2>3. \A t \in Threads : row'[t] = row[t] \/ sandbox'[row'[t]].owner = t
    BY <1>0, <2>1, <2>2 DEF TypeOK
  <2>4. Goto(c, "use") \/ End(c, "failed")
    BY <1>10 DEF Persist, PersistFails
  <2>5. Go(c)
    BY <1>0, <2>1, <2>4, Went, Ends
  <2> QED
    BY <1>0, <1>2, <2>1, <2>3, <2>5, OwnFrame
<1>11. ASSUME NEW c \in Calls, Use(c) \/ EditWrite(c) \/ UseUnheard(c) PROVE OwnSandbox'
  <2>1. Row /\ Mem /\ Go(c)
    BY <1>0, <1>11, Changes
  <2> QED
    BY <1>3, <2>1
<1>12. ASSUME NEW c \in Calls, NEW old \in Calls \cup {Nobody}, EditRead(c, old) PROVE OwnSandbox'
  <2>1. Go(c)
    BY <1>0, <1>12, ReadsEdit DEF EditRead, Running
  <2> QED
    BY <1>3, <1>12, <2>1 DEF EditRead
<1>13. ASSUME NEW s \in Ids, Stop(s) \/ Expire(s) PROVE OwnSandbox'
  <2>1. row' = row /\ memory' = memory /\ call' = call
    BY <1>13 DEF Stop, Expire
  <2> QED
    BY <1>0, <1>2, <2>1, OwnFrame
<1>14. ASSUME NEW i \in Instances, Restart(i) PROVE OwnSandbox'
  <2>1. \A j \in Instances, t \in Threads : memory'[j][t] \in {0, memory[j][t]}
    BY <1>0, <1>14 DEF Restart, TypeOK
  <2>2. \A c \in Calls : call'[c].id = 0 \/ call'[c] = call[c]
    BY <1>14, EndedTyped DEF Restart
  <2>3. row' = row
    BY <1>14 DEF Restart
  <2> QED
    BY <1>0, <1>2, <2>1, <2>2, <2>3, OwnFrame
<1>15. CASE UNCHANGED vars
  BY <1>0, <1>15 DEF vars, OwnSandbox
<1> QED
  BY <1>4, <1>5, <1>6, <1>7, <1>8, <1>9, <1>10, <1>11, <1>12, <1>13, <1>14, <1>15 DEF Next, Step

(* A call that ends lets go of its sandbox. *)
LEMMA IdStep == TypeOK /\ IdOfRunning /\ [Next]_vars => IdOfRunning'
<1> SUFFICES ASSUME TypeOK, IdOfRunning, [Next]_vars PROVE IdOfRunning'
  OBVIOUS
<1>1. ASSUME NEW c \in Calls, call'[c].id = 0 \/ call'[c].pc \in Running,
             \A d \in Calls : d # c => call'[d] = call[d]
      PROVE  IdOfRunning'
  BY <1>1 DEF IdOfRunning
<1>2. ASSUME NEW c \in Calls, NEW out \in {"ok", "refused", "failed"}, End(c, out) PROVE IdOfRunning'
  BY <1>1, <1>2, Ends
<1>3. ASSUME NEW c \in Calls, NEW pc \in Running, NEW id, Move(c, pc, id) PROVE IdOfRunning'
  BY <1>1, <1>3, Moved
<1>4. ASSUME NEW c \in Calls, NEW pc \in Running, Goto(c, pc) PROVE IdOfRunning'
  BY <1>1, <1>4, Went
<1>5. {"lookup", "query", "resume", "create", "persist", "use", "rewrite"} \subseteq Running
  BY DEF Running, Early
<1>6. ASSUME NEW c \in Calls, NEW i \in Instances, NEW t \in Threads, Call(c, i, t) PROVE IdOfRunning'
  BY <1>1, <1>5, <1>6, Called
<1>7. ASSUME NEW c \in Calls, Lookup(c) PROVE IdOfRunning'
  <2> DEFINE known == memory[call[c].at][call[c].thread]
  <2>1. Move(c, IF Valid(known) THEN "resume" ELSE "query", IF Valid(known) THEN known ELSE 0)
    BY <1>7 DEF Lookup, Move
  <2> HIDE DEF known
  <2> QED
    BY <1>3, <1>5, <2>1
<1>8. ASSUME NEW c \in Calls, Query(c) PROVE IdOfRunning'
  <2>1. Move(c, "resume", row[call[c].thread]) \/ Goto(c, "create")
    BY <1>8 DEF Query, Move
  <2> QED
    BY <1>3, <1>4, <1>5, <2>1
<1>9. ASSUME NEW c \in Calls, Resume(c) \/ ResumeFails(c) \/ Persist(c) PROVE IdOfRunning'
  <2>1. Goto(c, "use") \/ Move(c, "create", 0)
    BY <1>9 DEF Resume, ResumeFails, Persist, Move
  <2> QED
    BY <1>3, <1>4, <1>5, <2>1
<1>10. ASSUME NEW c \in Calls, Create(c) PROVE IdOfRunning'
  BY <1>1, <1>5, <1>10, Creates
<1>11. ASSUME NEW c \in Calls, NEW old, EditRead(c, old) PROVE IdOfRunning'
  BY <1>1, <1>5, <1>11, ReadsEdit
<1>12. ASSUME NEW c \in Calls,
              \/ QueryFails(c) \/ CreateFails(c) \/ PersistFails(c) \/ EditRefused(c) \/ UseFails(c)
              \/ Use(c) \/ EditWrite(c) \/ UseUnheard(c)
       PROVE  IdOfRunning'
  <2>1. \E out \in {"ok", "refused", "failed"} : End(c, out)
    BY <1>12 DEF QueryFails, CreateFails, PersistFails, EditRefused, UseFails, Use, EditWrite, UseUnheard
  <2> QED
    BY <1>2, <2>1
<1>13. ASSUME NEW i \in Instances, Restart(i) PROVE IdOfRunning'
  <2>1. \A c \in Calls : call'[c].id = 0 \/ call'[c] = call[c]
    BY <1>13, EndedTyped DEF Restart
  <2> QED
    BY <2>1 DEF IdOfRunning
<1>14. CASE UNCHANGED call
  BY <1>14 DEF IdOfRunning
<1> QED
  BY <1>6, <1>7, <1>8, <1>9, <1>10, <1>11, <1>12, <1>13, <1>14 DEF Next, Step, Stop, Expire, vars

(* No row, cache or call of a thread has a sandbox that was made for       *)
(* another, for any number of calls and whatever fails.                    *)
(* generateSessionKey, getSessionSandboxId, state.ts:58-148.               *)
THEOREM SandboxOwned == Spec => []OwnSandbox
<1>1. Init => OwnInv
  <2> SUFFICES ASSUME Init PROVE OwnInv
    OBVIOUS
  <2>1. \A c \in Calls : call[c].id = 0
    BY DEF Init, Away
  <2> QED
    BY <2>1, TypeInit DEF Init, OwnInv, OwnSandbox, Unmade, IdOfRunning
<1>2. OwnInv /\ [Next]_vars => OwnInv'
  BY TypeStep, OwnStep, OwnersKept, IdStep DEF OwnInv
<1>3. OwnInv => OwnSandbox
  BY DEF OwnInv
<1> QED
  BY <1>1, <1>2, <1>3, PTL DEF Spec

-----------------------------------------------------------------------------
(* A thread has one sandbox                                                *)

(* A calm thread's sandbox lives, its session has not expired, and its row *)
(* has it or is about to. A call of a calm thread that creates a sandbox   *)
(* does so alone, and there is none yet.                                   *)
Known ==
  \A s \in Ids : sandbox[s].owner \in calm =>
    /\ sandbox[s].alive /\ sandbox[s].fresh
    /\ \/ row[sandbox[s].owner] = s
       \/ \E c \in Calls : call[c].pc = "persist" /\ call[c].id = s /\ call[c].thread = sandbox[s].owner
Alone ==
  \A c \in Calls : call[c].pc = "create" /\ call[c].thread \in calm =>
    /\ \A s \in Ids : sandbox[s].owner # call[c].thread
    /\ \A d \in Calls : d # c /\ call[d].thread = call[c].thread => call[d].pc \notin {"create", "persist"}
OneInv == OwnInv /\ OneSandbox /\ Known /\ Alone

(* A step after which no more threads are calm, that makes no sandbox,     *)
(* spares those of the calm threads and their rows, and moves no call of   *)
(* theirs to or from the creation of one.                                  *)
LEMMA OneFrame ==
  ASSUME OneSandbox, Known, Alone, calm' \subseteq calm,
         \A s \in Ids : sandbox'[s].owner = sandbox[s].owner,
         \A s \in Ids : sandbox[s].owner \in calm' =>
           sandbox'[s].alive = sandbox[s].alive /\ sandbox'[s].fresh = sandbox[s].fresh,
         \A t \in calm' : row'[t] = row[t],
         \A c \in Calls : call[c].pc = "persist" /\ call[c].thread \in calm' =>
           /\ call'[c].pc = "persist" /\ call'[c].id = call[c].id
           /\ call'[c].thread = call[c].thread,
         \A c \in Calls : call'[c].pc \in {"create", "persist"} /\ call'[c].thread \in calm' =>
           call[c].pc = call'[c].pc /\ call[c].thread = call'[c].thread
  PROVE  OneSandbox' /\ Known' /\ Alone'
<1>1. OneSandbox'
  BY DEF OneSandbox
<1>2. ASSUME NEW s \in Ids, sandbox'[s].owner \in calm'
      PROVE  /\ sandbox'[s].alive /\ sandbox'[s].fresh
             /\ \/ row'[sandbox'[s].owner] = s
                \/ \E c \in Calls : /\ call'[c].pc = "persist" /\ call'[c].id = s
                                    /\ call'[c].thread = sandbox'[s].owner
  <2>1. sandbox[s].owner \in calm /\ sandbox'[s].owner = sandbox[s].owner
    BY <1>2
  <2>2. /\ sandbox[s].alive /\ sandbox[s].fresh
        /\ \/ row[sandbox[s].owner] = s
           \/ \E c \in Calls : /\ call[c].pc = "persist" /\ call[c].id = s
                               /\ call[c].thread = sandbox[s].owner
    BY <2>1 DEF Known
  <2> QED
    BY <1>2, <2>1, <2>2
<1>3. ASSUME NEW c \in Calls, call'[c].pc = "create", call'[c].thread \in calm'
      PROVE  /\ \A s \in Ids : sandbox'[s].owner # call'[c].thread
             /\ \A d \in Calls : d # c /\ call'[d].thread = call'[c].thread
                                   => call'[d].pc \notin {"create", "persist"}
  <2>1. call[c].pc = "create" /\ call[c].thread = call'[c].thread /\ call[c].thread \in calm
    BY <1>3
  <2> QED
    BY <1>3, <2>1 DEF Alone
<1> QED
  BY <1>1, <1>2, <1>3 DEF Known, Alone

LEMMA OneStep == OneInv /\ [Next]_vars => OneSandbox' /\ Known' /\ Alone'
<1> SUFFICES ASSUME OneInv, [Next]_vars PROVE OneSandbox' /\ Known' /\ Alone'
  OBVIOUS
<1> DEFINE Goal == OneSandbox' /\ Known' /\ Alone'
<1>0. /\ TypeOK /\ OwnInv /\ OwnSandbox /\ OneSandbox /\ Known /\ Alone
      /\ calm \subseteq Threads /\ Nobody \notin Threads
  BY SandboxAssumption DEF OneInv, OwnInv, TypeOK
<1>1. ASSUME NEW c \in Calls, sandbox' = sandbox, row' = row, calm' \subseteq calm,
             call[c].pc # "persist" \/ call[c].thread \notin calm',
             call'[c].pc \notin {"create", "persist"} \/ call'[c].thread \notin calm',
             \A d \in Calls : d # c => call'[d] = call[d]
      PROVE  Goal
  BY <1>0, <1>1, OneFrame
<1>2. ASSUME NEW c \in Calls, sandbox' = sandbox, row' = row, calm' = calm, call[c].pc # "persist",
             NEW out \in {"ok", "refused", "failed"}, End(c, out)
      PROVE  Goal
  BY <1>0, <1>1, <1>2, Ends
<1>3. ASSUME NEW c \in Calls, NEW i \in Instances, NEW t \in Threads, Call(c, i, t) PROVE Goal
  <2>1. call'[c].pc = "lookup" /\ \A d \in Calls : d # c => call'[d] = call[d]
    BY <1>0, <1>3, Called
  <2> QED
    BY <1>1, <1>3, <2>1 DEF Call
<1>4. ASSUME NEW c \in Calls, Lookup(c) PROVE Goal
  <2> DEFINE known == memory[call[c].at][call[c].thread]
  <2>1. Move(c, IF Valid(known) THEN "resume" ELSE "query", IF Valid(known) THEN known ELSE 0)
    BY <1>4 DEF Lookup, Move
  <2> HIDE DEF known
  <2>2. call'[c].pc \in {"resume", "query"} /\ \A d \in Calls : d # c => call'[d] = call[d]
    BY <1>0, <2>1, Moved
  <2> QED
    BY <1>1, <1>4, <2>2 DEF Lookup
<1>5. ASSUME NEW c \in Calls, Query(c) PROVE Goal
  <2>1. /\ call[c].pc = "query" /\ sandbox' = sandbox /\ row' = row /\ calm' \subseteq calm
        /\ call[c].thread \in Threads /\ call[c].pc \in Running
    BY <1>0, <1>5, RunnerHasThread DEF Query, Running, Early
  <2>2. CASE Valid(row[call[c].thread])
    <3>1. Move(c, "resume", row[call[c].thread])
      BY <1>5, <2>2 DEF Query, Move
    <3>2. call'[c].pc = "resume" /\ \A d \in Calls : d # c => call'[d] = call[d]
      BY <1>0, <3>1, Moved
    <3> QED
      BY <1>1, <2>1, <3>2
  <2>3. CASE ~Valid(row[call[c].thread])
    <3>1. /\ call'[c].pc = "create" /\ call'[c].thread = call[c].thread /\ call'[c].id = call[c].id
          /\ \A d \in Calls : d # c => call'[d] = call[d]
      BY <1>0, <1>5, <2>3, Went DEF Query
    <3>2. CASE call[c].thread \notin calm'
      BY <1>1, <2>1, <3>1, <3>2
    <3>3. CASE call[c].thread \in calm'
      <4>1. ~Creating(call[c].thread) /\ calm' = calm
        BY <1>5, <2>3, <3>3 DEF Query
      <4>2. \A d \in Calls : call[d].thread = call[c].thread => call[d].pc \notin {"create", "persist"}
        BY <4>1 DEF Creating
      <4>3. \A s \in Ids : sandbox[s].owner # call[c].thread
        <5>1. SUFFICES ASSUME NEW s \in Ids, sandbox[s].owner = call[c].thread PROVE FALSE
          OBVIOUS
        <5>2. sandbox[s].fresh /\ row[call[c].thread] = s
          BY <1>0, <3>3, <4>1, <4>2, <5>1 DEF Known
        <5>3. s # 0
          BY SandboxAssumption DEF Ids
        <5> QED
          BY <2>3, <5>2, <5>3 DEF Valid
      <4>4. OneSandbox'
        BY <1>0, <2>1, <4>1 DEF OneSandbox
      <4>5. ASSUME NEW s \in Ids, sandbox'[s].owner \in calm'
            PROVE  /\ sandbox'[s].alive /\ sandbox'[s].fresh
                   /\ \/ row'[sandbox'[s].owner] = s
                      \/ \E d \in Calls : /\ call'[d].pc = "persist" /\ call'[d].id = s
                                          /\ call'[d].thread = sandbox'[s].owner
        <5>1. /\ sandbox[s].alive /\ sandbox[s].fresh
              /\ \/ row[sandbox[s].owner] = s
                 \/ \E d \in Calls : /\ call[d].pc = "persist" /\ call[d].id = s
                                     /\ call[d].thread = sandbox[s].owner
          BY <1>0, <2>1, <4>1, <4>5 DEF Known
        <5> QED
          BY <2>1, <3>1, <5>1
      <4>6. Alone'
        BY <1>0, <2>1, <3>1, <4>1, <4>2, <4>3 DEF Alone
      <4> QED
        BY <4>4, <4>5, <4>6 DEF Known
    <3> QED
      BY <3>2, <3>3
  <2> QED
    BY <2>2, <2>3
<1>6. ASSUME NEW c \in Calls, QueryFails(c) \/ CreateFails(c) \/ EditRefused(c) \/ UseFails(c) PROVE Goal
  <2>1. /\ call[c].pc # "persist" /\ sandbox' = sandbox /\ row' = row /\ calm' = calm
        /\ \E out \in {"ok", "refused", "failed"} : End(c, out)
    BY <1>6 DEF QueryFails, CreateFails, EditRefused, UseFails
  <2> QED
    BY <1>2, <2>1
<1>7. ASSUME NEW c \in Calls, Resume(c) PROVE Goal
  <2>1. call[c].pc = "resume" /\ sandbox' = sandbox /\ row' = row /\ calm' = calm
    BY <1>7 DEF Resume
  <2>2. CASE sandbox[call[c].id].alive
    <3>1. call'[c].pc = "use" /\ \A d \in Calls : d # c => call'[d] = call[d]
      BY <1>0, <1>7, <2>2, Went DEF Resume
    <3> QED
      BY <1>1, <2>1, <3>1
  <2>3. CASE ~sandbox[call[c].id].alive
    <3>1. Move(c, "create", 0)
      BY <1>7, <2>3 DEF Resume, Move
    <3>2. call'[c].thread = call[c].thread /\ \A d \in Calls : d # c => call'[d] = call[d]
      BY <1>0, <3>1, Moved
    <3>3. call[c].id \in Ids /\ call[c].id # 0
      BY <1>0, <2>1, UserHasSandbox, SandboxAssumption DEF Ids
    <3>4. sandbox[call[c].id].owner = call[c].thread
      BY <1>0, <3>3 DEF OwnSandbox
    <3>5. call[c].thread \notin calm
      BY <1>0, <2>3, <3>3, <3>4 DEF Known
    <3> QED
      BY <1>1, <2>1, <3>2, <3>5
  <2> QED
    BY <2>2, <2>3
<1>8. ASSUME NEW c \in Calls, ResumeFails(c) PROVE Goal
  <2>1. /\ call[c].pc = "resume" /\ sandbox' = sandbox /\ row' = row /\ Move(c, "create", 0)
        /\ calm' \subseteq calm /\ call[c].thread \notin calm'
    BY <1>8 DEF ResumeFails, Move
  <2>2. call'[c].thread = call[c].thread /\ \A d \in Calls : d # c => call'[d] = call[d]
    BY <1>0, <2>1, Moved
  <2> QED
    BY <1>1, <2>1, <2>2
<1>9. ASSUME NEW c \in Calls, Create(c) PROVE Goal
  <2>1. /\ made' \in Ids /\ call[c].thread \in Threads
        /\ sandbox'[made'] = [owner |-> call[c].thread, alive |-> TRUE, fresh |-> TRUE, file |-> {}]
        /\ \A s \in Ids : s # made' => sandbox'[s] = sandbox[s]
    BY <1>0, <1>9, Creates
  <2>2. /\ call'[c].pc = "persist" /\ call'[c].id = made' /\ call'[c].thread = call[c].thread
        /\ \A d \in Calls : d # c => call'[d] = call[d]
    BY <1>0, <1>9, Creates
  <2>3. call[c].pc = "create" /\ row' = row /\ calm' = calm
    BY <1>9 DEF Create
  <2>4. call[c].thread \in calm => \A s \in Ids : sandbox[s].owner # call[c].thread
    BY <1>0, <2>3 DEF Alone
  <2>5. sandbox'[made'].owner = call[c].thread /\ sandbox'[made'].alive /\ sandbox'[made'].fresh
    BY <2>1
  <2>6. OneSandbox'
    BY <1>0, <2>1, <2>3, <2>4, <2>5 DEF OneSandbox
  <2>7. ASSUME NEW s \in Ids, sandbox'[s].owner \in calm'
        PROVE  /\ sandbox'[s].alive /\ sandbox'[s].fresh
               /\ \/ row'[sandbox'[s].owner] = s
                  \/ \E d \in Calls : /\ call'[d].pc = "persist" /\ call'[d].id = s
                                      /\ call'[d].thread = sandbox'[s].owner
    <3>1. CASE s = made'
      BY <2>2, <2>5, <3>1
    <3>2. CASE s # made'
      <4>1. sandbox'[s] = sandbox[s] /\ sandbox[s].owner \in calm
        BY <2>1, <2>3, <2>7, <3>2
      <4>2. /\ sandbox[s].alive /\ sandbox[s].fresh
            /\ \/ row[sandbox[s].owner] = s
               \/ \E d \in Calls : /\ call[d].pc = "persist" /\ call[d].id = s
                                   /\ call[d].thread = sandbox[s].owner
        BY <1>0, <4>1 DEF Known
      <4> QED
        BY <2>2, <2>3, <4>1, <4>2
    <3> QED
      BY <3>1, <3>2
  <2>8. ASSUME NEW d \in Calls, call'[d].pc = "create", call'[d].thread \in calm'
        PROVE  /\ \A s \in Ids : sandbox'[s].owner # call'[d].thread
               /\ \A e \in Calls : e # d /\ call'[e].thread = call'[d].thread
                                     => call'[e].pc \notin {"create", "persist"}
    <3>1. d # c /\ call'[d] = call[d] /\ call[d].pc = "create" /\ call[d].thread \in calm
      BY <2>2, <2>3, <2>8
    <3>2. /\ \A s \in Ids : sandbox[s].owner # call[d].thread
          /\ \A e \in Calls : e # d /\ call[e].thread = call[d].thread
                                => call[e].pc \notin {"create", "persist"}
      BY <1>0, <3>1 DEF Alone
    <3>3. call[d].thread # call[c].thread
      BY <2>3, <3>1, <3>2
    <3> QED
      BY <2>1, <2>2, <2>5, <3>1, <3>2, <3>3
  <2> QED
    BY <2>6, <2>7, <2>8 DEF Known, Alone
<1>10. ASSUME NEW c \in Calls, Persist(c) PROVE Goal
  <2>1. /\ call[c].pc = "persist" /\ sandbox' = sandbox /\ calm' = calm /\ Goto(c, "use")
        /\ row' = [row EXCEPT ![call[c].thread] = call[c].id]
    BY <1>10 DEF Persist
  <2>2. /\ call[c].id \in Ids /\ call[c].id # 0 /\ call[c].thread \in Threads
        /\ row \in [Threads -> 0..MaxSandboxes]
    BY <1>0, <2>1, UserHasSandbox, SandboxAssumption DEF Ids, TypeOK
  <2>3. sandbox[call[c].id].owner = call[c].thread
    BY <1>0, <2>2 DEF OwnSandbox
  <2>4. call'[c].pc = "use" /\ \A d \in Calls : d # c => call'[d] = call[d]
    BY <1>0, <2>1, Went
  <2>5. OneSandbox'
    BY <1>0, <2>1 DEF OneSandbox
  <2>6. ASSUME NEW s \in Ids, sandbox'[s].owner \in calm'
        PROVE  /\ sandbox'[s].alive /\ sandbox'[s].fresh
               /\ \/ row'[sandbox'[s].owner] = s
                  \/ \E d \in Calls : /\ call'[d].pc = "persist" /\ call'[d].id = s
                                      /\ call'[d].thread = sandbox'[s].owner
    <3>1. /\ sandbox[s].alive /\ sandbox[s].fresh
          /\ \/ row[sandbox[s].owner] = s
             \/ \E d \in Calls : /\ call[d].pc = "persist" /\ call[d].id = s
                                 /\ call[d].thread = sandbox[s].owner
      BY <1>0, <2>1, <2>6 DEF Known
    <3>2. CASE sandbox[s].owner = call[c].thread
      <4>1. s = call[c].id
        BY <1>0, <2>1, <2>2, <2>3, <2>6, <3>2 DEF OneSandbox
      <4> QED
        BY <2>1, <2>2, <3>1, <3>2, <4>1
    <3>3. CASE sandbox[s].owner # call[c].thread
      <4>1. row'[sandbox[s].owner] = row[sandbox[s].owner]
        BY <1>0, <2>1, <2>2, <2>6, <3>3
      <4> QED
        BY <2>1, <2>4, <3>1, <3>3, <4>1
    <3> QED
      BY <3>2, <3>3
  <2>7. Alone'
    BY <1>0, <2>1, <2>4 DEF Alone
  <2> QED
    BY <2>5, <2>6, <2>7 DEF Known
<1>11. ASSUME NEW c \in Calls, PersistFails(c) PROVE Goal
  <2>1. /\ call[c].pc = "persist" /\ sandbox' = sandbox /\ End(c, "failed")
        /\ calm' \subseteq calm /\ call[c].thread \notin calm'
        /\ row' = row \/ row' = [row EXCEPT ![call[c].thread] = call[c].id]
    BY <1>11 DEF PersistFails
  <2>2. \A t \in calm' : row'[t] = row[t]
    BY <1>0, <2>1 DEF TypeOK
  <2>3. call'[c].pc = "done" /\ \A d \in Calls : d # c => call'[d] = call[d]
    BY <1>0, <2>1, Ends
  <2> QED
    BY <1>0, <2>1, <2>2, <2>3, OneFrame
<1>12. ASSUME NEW c \in Calls, Use(c) \/ EditWrite(c) \/ UseUnheard(c) PROVE Goal
  <2>1. /\ \A s \in Ids : /\ sandbox'[s].owner = sandbox[s].owner
                          /\ sandbox'[s].alive = sandbox[s].alive
                          /\ sandbox'[s].fresh = sandbox[s].fresh
        /\ row' = row /\ calm' \subseteq calm /\ call[c].pc \in {"use", "rewrite"}
        /\ call'[c].pc = "done" /\ \A d \in Calls : d # c => call'[d] = call[d]
    BY <1>0, <1>12, Changes
  <2> QED
    BY <1>0, <2>1, OneFrame
<1>13. ASSUME NEW c \in Calls, NEW old, EditRead(c, old) PROVE Goal
  <2>1. call'[c].pc = "rewrite" /\ \A d \in Calls : d # c => call'[d] = call[d]
    BY <1>0, <1>13, ReadsEdit
  <2> QED
    BY <1>1, <1>13, <2>1 DEF EditRead
<1>14. ASSUME NEW s \in Ids, Stop(s) \/ Expire(s) PROVE Goal
  <2>1. row' = row /\ call' = call /\ calm' \subseteq calm /\ sandbox[s].owner \notin calm'
    BY <1>14 DEF Stop, Expire
  <2>2. sandbox[s] \in SandboxType /\ sandbox \in [Ids -> SandboxType]
    BY <1>0 DEF TypeOK
  <2>3. /\ [sandbox[s] EXCEPT !.alive = FALSE].owner = sandbox[s].owner
        /\ [sandbox[s] EXCEPT !.fresh = FALSE].owner = sandbox[s].owner
    BY <2>2 DEF SandboxType
  <2>4. \/ sandbox' = [sandbox EXCEPT ![s] = [sandbox[s] EXCEPT !.alive = FALSE]]
        \/ sandbox' = [sandbox EXCEPT ![s] = [sandbox[s] EXCEPT !.fresh = FALSE]]
    BY <1>14 DEF Stop, Expire
  <2>5. /\ \A r \in Ids : sandbox'[r].owner = sandbox[r].owner
        /\ \A r \in Ids : r # s => sandbox'[r] = sandbox[r]
    BY <2>2, <2>3, <2>4
  <2> QED
    BY <1>0, <2>1, <2>5, OneFrame
<1>15. ASSUME NEW i \in Instances, Restart(i) PROVE Goal
  <2> DEFINE lost == {c \in Calls : call[c].at = i /\ call[c].pc \in Running}
  <2>1. /\ sandbox' = sandbox /\ row' = row
        /\ calm' = calm \ {call[c].thread : c \in {d \in lost : call[d].pc = "persist"}}
        /\ \A c \in Calls : call'[c] = IF c \in lost THEN Ended("failed") ELSE call[c]
    BY <1>15 DEF Restart
  <2>2. Ended("failed").pc = "done"
    BY EndedTyped
  <2>3. \A c \in Calls : call[c].pc = "persist" /\ call[c].thread \in calm' => c \notin lost
    BY <2>1
  <2> HIDE DEF lost
  <2>4. calm' \subseteq calm
    BY <2>1
  <2> QED
    BY <1>0, <2>1, <2>2, <2>3, <2>4, OneFrame
<1>16. CASE UNCHANGED vars
  BY <1>0, <1>16, OneFrame DEF vars
<1> QED
  BY <1>3, <1>4, <1>5, <1>6, <1>7, <1>8, <1>9, <1>10, <1>11, <1>12, <1>13, <1>14, <1>15, <1>16 DEF Next, Step

LEMMA OneInvHolds == Spec => []OneInv
<1>1. Init => OneInv
  <2> SUFFICES ASSUME Init PROVE OneInv
    OBVIOUS
  <2>1. /\ \A c \in Calls : call[c].id = 0 /\ call[c].pc = "idle"
        /\ \A s \in Ids : sandbox[s].owner = Nobody
        /\ calm = Threads /\ Nobody \notin Threads
    BY SandboxAssumption DEF Init, Away
  <2>2. OwnInv
    BY <2>1, TypeInit DEF Init, OwnInv, OwnSandbox, Unmade, IdOfRunning
  <2> QED
    BY <2>1, <2>2 DEF OneInv, OneSandbox, Known, Alone
<1>2. OneInv /\ [Next]_vars => OneInv'
  BY TypeStep, OwnStep, OwnersKept, IdStep, OneStep DEF OwnInv, OneInv
<1> QED
  BY <1>1, <1>2, PTL DEF Spec

(* A thread whose sandbox neither expired nor went, was resumed and stored *)
(* without fail, and whose first calls did not overlap, has one sandbox,   *)
(* for any number of calls and instances and whatever else fails.          *)
(* getOrCreateSandbox, sandbox.ts:101-121.                                 *)
THEOREM OneSandboxHolds == Spec => []OneSandbox
<1>1. OneInv => OneSandbox
  BY DEF OneInv
<1> QED
  BY <1>1, OneInvHolds, PTL

-----------------------------------------------------------------------------
(* A thread has one file                                                   *)

(* A calm thread without a sandbox has an empty file. *)
Blank == \A t \in calm : (\A s \in Ids : sandbox[s].owner # t) => text[t] = {}
FileInv == OneInv /\ OneFile /\ Blank

(* A step that changes no file and makes no sandbox. *)
LEMMA FileFrame ==
  ASSUME OneFile, Blank, calm' \subseteq calm, text' = text,
         \A s \in Ids : sandbox'[s].owner = sandbox[s].owner,
         \A s \in Ids : sandbox'[s].file = sandbox[s].file
  PROVE  OneFile' /\ Blank'
BY DEF OneFile, Blank

(* A tool that finds the file as it is does to it what it does to the      *)
(* thread's; one that does not, leaves the thread calm no longer.          *)
LEMMA FileChanges ==
  ASSUME FileInv, NEW c \in Calls, call[c].pc \in {"use", "rewrite"}, NEW read \in SUBSET Calls, NEW effect,
         OnTexts(effect), Change(c, call[c].id, read, effect),
         calm' = IF sandbox[call[c].id].file = read THEN calm ELSE calm \ {call[c].thread}
  PROVE  OneFile' /\ Blank'
<1>0. TypeOK /\ OwnSandbox /\ OneFile /\ Blank /\ calm \subseteq Threads
  BY DEF FileInv, OneInv, OwnInv, TypeOK
<1>1. call[c].id \in Ids /\ call[c].id # 0 /\ call[c].thread \in Threads
  BY <1>0, UserHasSandbox, SandboxAssumption DEF Ids
<1>2. PICK mine \in Ids : mine = call[c].id
  BY <1>1
<1>3. sandbox[mine].owner = call[c].thread
  BY <1>0, <1>1, <1>2 DEF OwnSandbox
<1>4. /\ \A r \in Ids : /\ sandbox'[r].owner = sandbox[r].owner
                        /\ r # mine => sandbox'[r].file = sandbox[r].file
      /\ sandbox'[mine].file = effect[read]
      /\ \A u \in Threads : text'[u] = IF u = call[c].thread THEN effect[text[u]] ELSE text[u]
  <2>1. /\ TypeOK /\ mine \in Ids /\ call[c].thread \in Threads
        /\ Change(c, mine, read, effect)
    BY <1>0, <1>1, <1>2
  <2>2. \A r \in Ids : sandbox'[r].owner = sandbox[r].owner
    BY <2>1, ChangeTyped
  <2>3. /\ \A r \in Ids : r # mine => sandbox'[r] = sandbox[r]
        /\ sandbox'[mine] = [sandbox[mine] EXCEPT !.file = effect[read]]
    BY <1>0, <2>1 DEF Change, TypeOK
  <2>4. sandbox'[mine].file = effect[read]
    BY <1>0, <2>3 DEF TypeOK, SandboxType
  <2>5. \A u \in Threads : text'[u] = IF u = call[c].thread THEN effect[text[u]] ELSE text[u]
    BY <2>1, ChangeTyped
  <2>6. \A r \in Ids : r # mine => sandbox'[r].file = sandbox[r].file
    BY <2>3
  <2> QED
    BY <2>2, <2>4, <2>5, <2>6, Zenon
<1>5. ASSUME NEW s \in Ids, sandbox'[s].owner \in calm' PROVE sandbox'[s].file = text'[sandbox'[s].owner]
  <2>1. sandbox'[s].owner = sandbox[s].owner /\ sandbox[s].owner \in calm
        /\ sandbox[s].file = text[sandbox[s].owner]
    BY <1>0, <1>4, <1>5 DEF OneFile
  <2>2. CASE sandbox[s].owner # call[c].thread
    BY <1>0, <1>3, <1>4, <2>1, <2>2
  <2>3. CASE sandbox[s].owner = call[c].thread
    <3>1. sandbox[mine].file = read /\ call[c].thread \in calm
      BY <1>5, <1>2, <2>1, <2>3
    <3>2. s = mine
      BY <1>1, <1>3, <2>3, <3>1 DEF FileInv, OneInv, OneSandbox
    <3> QED
      BY <1>1, <1>4, <2>1, <2>3, <3>1, <3>2
  <2> QED
    BY <2>2, <2>3
<1>6. ASSUME NEW u \in calm', \A s \in Ids : sandbox'[s].owner # u PROVE text'[u] = {}
  <2>1. u \in calm /\ u # call[c].thread /\ \A s \in Ids : sandbox[s].owner # u
    BY <1>1, <1>3, <1>4, <1>6
  <2> QED
    BY <1>0, <1>4, <2>1 DEF Blank
<1> QED
  BY <1>5, <1>6 DEF OneFile, Blank

LEMMA FileStep == FileInv /\ [Next]_vars => OneFile' /\ Blank'
<1> SUFFICES ASSUME FileInv, [Next]_vars PROVE OneFile' /\ Blank'
  OBVIOUS
<1> DEFINE Goal == OneFile' /\ Blank'
<1>0. TypeOK /\ OwnSandbox /\ OneFile /\ Blank /\ Alone /\ calm \subseteq Threads
  BY DEF FileInv, OneInv, OwnInv, TypeOK
<1>1. CASE sandbox' = sandbox /\ text' = text /\ calm' \subseteq calm
  BY <1>0, <1>1, FileFrame
<1>2. ASSUME NEW c \in Calls, Create(c) PROVE Goal
  <2>1. /\ made' \in Ids /\ call[c].thread \in Threads
        /\ sandbox'[made'] = [owner |-> call[c].thread, alive |-> TRUE, fresh |-> TRUE, file |-> {}]
        /\ \A s \in Ids : s # made' => sandbox'[s] = sandbox[s]
    BY <1>0, <1>2, Creates
  <2>2. call[c].pc = "create" /\ calm' = calm /\ text' = text
    BY <1>2 DEF Create
  <2>3. sandbox'[made'].owner = call[c].thread /\ sandbox'[made'].file = {}
    BY <2>1
  <2>4. ASSUME call[c].thread \in calm
        PROVE  text[call[c].thread] = {} /\ \A s \in Ids : sandbox[s].owner # call[c].thread
    BY <1>0, <2>2, <2>4 DEF Alone, Blank
  <2>5. OneFile'
    BY <1>0, <2>1, <2>2, <2>3, <2>4 DEF OneFile
  <2>6. ASSUME NEW u \in calm', \A s \in Ids : sandbox'[s].owner # u PROVE text'[u] = {}
    <3>1. u # call[c].thread
      BY <2>1, <2>3, <2>6
    <3>2. CASE \A s \in Ids : sandbox[s].owner # u
      BY <1>0, <2>2, <3>2 DEF Blank
    <3>3. CASE \E s \in Ids : sandbox[s].owner = u
      <4>1. PICK s \in Ids : sandbox[s].owner = u
        BY <3>3
      <4>2. s = made'
        BY <2>1, <2>6, <4>1
      <4>3. made \in Nat /\ made' = made + 1
        BY <1>0, <1>2, SandboxAssumption DEF Create, TypeOK
      <4>4. sandbox[made'].owner = Nobody
        BY <2>1, <4>3 DEF FileInv, OneInv, OwnInv, Unmade
      <4> QED
        BY <1>0, <2>2, <4>1, <4>2, <4>4, SandboxAssumption
    <3> QED
      BY <3>2, <3>3
  <2> QED
    BY <2>5, <2>6 DEF Blank
<1>3. ASSUME NEW c \in Calls, call[c].pc \in {"use", "rewrite"}
      PROVE  sandbox[call[c].id].file \in SUBSET Calls /\ call[c].held \in SUBSET Calls
  BY <1>0, <1>3, UserHasSandbox DEF TypeOK, CallType, SandboxType
<1>4. ASSUME NEW c \in Calls, call[c].pc = "use", calm' = calm, NEW effect \in Effects(c),
             Change(c, call[c].id, sandbox[call[c].id].file, effect)
      PROVE  Goal
  BY <1>3, <1>4, EffectsTyped, FileChanges
<1>5. ASSUME NEW c \in Calls, call[c].pc = "rewrite",
             Change(c, call[c].id, call[c].held, Replace(c, call[c].old)),
             calm' = IF sandbox[call[c].id].file = call[c].held THEN calm ELSE calm \ {call[c].thread}
      PROVE  Goal
  BY <1>3, <1>5, EffectsTyped, FileChanges
<1>6. ASSUME NEW c \in Calls, Use(c) PROVE Goal
  BY <1>4, <1>6 DEF Use
<1>7. ASSUME NEW c \in Calls, EditWrite(c) PROVE Goal
  BY <1>5, <1>7 DEF EditWrite
<1>8. ASSUME NEW c \in Calls, UseUnheard(c) PROVE Goal
  BY <1>1, <1>4, <1>5, <1>8 DEF UseUnheard
<1>9. ASSUME NEW s \in Ids, Stop(s) \/ Expire(s) PROVE Goal
  <2>1. calm' \subseteq calm /\ text' = text
    BY <1>9 DEF Stop, Expire
  <2>2. sandbox[s] \in SandboxType /\ sandbox \in [Ids -> SandboxType]
    BY <1>0 DEF TypeOK
  <2>3. /\ [sandbox[s] EXCEPT !.alive = FALSE].owner = sandbox[s].owner
        /\ [sandbox[s] EXCEPT !.alive = FALSE].file = sandbox[s].file
        /\ [sandbox[s] EXCEPT !.fresh = FALSE].owner = sandbox[s].owner
        /\ [sandbox[s] EXCEPT !.fresh = FALSE].file = sandbox[s].file
    BY <2>2 DEF SandboxType
  <2>4. \/ sandbox' = [sandbox EXCEPT ![s] = [sandbox[s] EXCEPT !.alive = FALSE]]
        \/ sandbox' = [sandbox EXCEPT ![s] = [sandbox[s] EXCEPT !.fresh = FALSE]]
    BY <1>9 DEF Stop, Expire
  <2>5. \A r \in Ids : sandbox'[r].owner = sandbox[r].owner /\ sandbox'[r].file = sandbox[r].file
    BY <2>2, <2>3, <2>4
  <2> QED
    BY <1>0, <2>1, <2>5, FileFrame
<1>10. CASE UNCHANGED vars
  BY <1>1, <1>10 DEF vars
<1> QED
  BY <1>1, <1>2, <1>6, <1>7, <1>8, <1>9, <1>10 DEF Next, Step, Call, Lookup, Query, QueryFails, Resume,
     ResumeFails, CreateFails, Persist, PersistFails, EditRefused, EditRead, UseFails, Restart

(* The file of such a thread is what its tools, one after the other, would *)
(* have made of it, as long as no tool overtakes an edit between its read  *)
(* and its write. The edit tool, sandbox.ts:244-271.                       *)
THEOREM OneFileHolds == Spec => []OneFile
<1>1. Init => OneFile /\ Blank
  <2> SUFFICES ASSUME Init PROVE OneFile /\ Blank
    OBVIOUS
  <2>1. /\ \A s \in Ids : sandbox[s].owner = Nobody
        /\ calm = Threads /\ Nobody \notin Threads /\ text = [t \in Threads |-> {}]
    BY SandboxAssumption DEF Init
  <2> QED
    BY <2>1 DEF OneFile, Blank
<1>2. OneInv /\ OneFile /\ Blank /\ [Next]_vars => OneFile' /\ Blank'
  BY FileStep DEF FileInv
<1> QED
  BY <1>1, <1>2, OneInvHolds, PTL DEF Spec
=============================================================================

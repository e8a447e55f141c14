------------------------------- MODULE Sandbox -------------------------------
(***************************************************************************)
(* The sandbox of a thread: its tools look the session up in the memory of *)
(* their instance and in the database, resume it at the provider or create *)
(* another, and then read, write, edit or execute in it. Calls of one      *)
(* thread overlap: a thread may have several runs, on several instances,   *)
(* and a call whose step has timed out goes on.                            *)
(*                                                                         *)
(* The state that is modelled is the production one, where storage that    *)
(* is away fails the call. A file is the set of the texts it holds, a text *)
(* is named by the call that wrote it.                                     *)
(***************************************************************************)
EXTENDS Naturals

CONSTANTS
  Calls,         \* calls of sandbox tools
  Instances,     \* instances of the server
  Threads,       \* threads with their workspace and channel: session keys
  MaxSandboxes,  \* bound: sandboxes the provider makes
  MaxFailures,   \* bound: failures of storage and provider, instances killed
  Nobody         \* no thread, no instance, no text

ASSUME SandboxAssumption ==
  /\ MaxSandboxes \in Nat /\ MaxFailures \in Nat
  /\ Nobody \notin Threads \cup Instances \cup Calls

Ids == 1..MaxSandboxes

VARIABLES
  sandbox,   \* the provider's sandboxes; fresh: their session has not expired
  made,      \* how many there are
  row,       \* sandbox_sessions: the sandbox of each thread, or 0
  memory,    \* memorySandboxCache of each instance
  call,      \* the calls
  failures,  \* how much failed
  calm,      \* ghost: the threads with nothing that excuses a second sandbox
  text       \* ghost: a thread's file, had it one that every tool changes at once

vars == <<sandbox, made, row, memory, call, failures, calm, text>>

Early == {"lookup", "query", "resume", "create"}
Running == Early \cup {"persist", "use", "rewrite"}

SandboxType ==
  [owner : Threads \cup {Nobody}, alive : BOOLEAN, fresh : BOOLEAN, file : SUBSET Calls]
CallType ==
  [pc : {"idle", "done"} \cup Running, at : Instances \cup {Nobody}, thread : Threads \cup {Nobody},
   id : 0..MaxSandboxes, held : SUBSET Calls, old : Calls \cup {Nobody},
   out : {"none", "ok", "refused", "failed"}]

(* Rows, caches and calls keep their types, and a call that is past the    *)
(* lookup has a sandbox. getOrCreateSandboxSession, sandbox.ts:101-121.    *)
TypeOK ==
  /\ sandbox \in [Ids -> SandboxType] /\ made \in 0..MaxSandboxes
  /\ row \in [Threads -> 0..MaxSandboxes]
  /\ memory \in [Instances -> [Threads -> 0..MaxSandboxes]]
  /\ call \in [Calls -> CallType]
  /\ \A c \in Calls : call[c].pc \in {"resume", "persist", "use", "rewrite"} => call[c].id # 0
  /\ \A c \in Calls : call[c].pc \in Running => call[c].thread # Nobody /\ call[c].at # Nobody
  /\ failures \in 0..MaxFailures
  /\ calm \subseteq Threads /\ text \in [Threads -> SUBSET Calls]

Away == [pc |-> "idle", at |-> Nobody, thread |-> Nobody, id |-> 0, held |-> {},
         old |-> Nobody, out |-> "none"]
Ended(out) == [Away EXCEPT !.pc = "done", !.out = out]

Init ==
  /\ sandbox = [s \in Ids |-> [owner |-> Nobody, alive |-> FALSE, fresh |-> FALSE, file |-> {}]]
  /\ made = 0
  /\ row = [t \in Threads |-> 0]
  /\ memory = [i \in Instances |-> [t \in Threads |-> 0]]
  /\ call = [c \in Calls |-> Away]
  /\ failures = 0
  /\ calm = Threads /\ text = [t \in Threads |-> {}]

-----------------------------------------------------------------------------
Valid(s) == s # 0 /\ sandbox[s].fresh
Fails == failures < MaxFailures /\ failures' = failures + 1
Goto(c, pc) == call' = [call EXCEPT ![c].pc = pc]
End(c, out) == call' = [call EXCEPT ![c] = Ended(out)]

(* A sandbox tool is called; which one, shows when it uses the sandbox.    *)
Call(c, i, t) ==
  /\ call[c].pc = "idle"
  /\ call' = [call EXCEPT ![c].pc = "lookup", ![c].at = i, ![c].thread = t]
  /\ UNCHANGED <<sandbox, made, row, memory, failures, calm, text>>

(* Mutant: the session key leaves the thread out.                          *)
LookupByChannel(c) ==
  \E t \in Threads :
    /\ call[c].pc = "lookup"
    /\ LET known == memory[call[c].at][t]
       IN /\ call' = [call EXCEPT ![c].pc = IF Valid(known) THEN "resume" ELSE "query",
                                  ![c].id = IF Valid(known) THEN known ELSE 0]
          /\ memory' = [memory EXCEPT ![call[c].at][t] = IF Valid(known) THEN @ ELSE 0]
    /\ UNCHANGED <<sandbox, made, row, failures, calm, text>>

(* getSessionSandboxId: the memory, until its entry expires.               *)
Lookup(c) ==
  LET t == call[c].thread
      known == memory[call[c].at][t]
  IN /\ call[c].pc = "lookup"
     /\ call' = [call EXCEPT ![c].pc = IF Valid(known) THEN "resume" ELSE "query",
                             ![c].id = IF Valid(known) THEN known ELSE 0]
     /\ memory' = [memory EXCEPT ![call[c].at][t] = IF Valid(known) THEN @ ELSE 0]
     /\ UNCHANGED <<sandbox, made, row, failures, calm, text>>

(* Another call of the thread is about to make its sandbox known.          *)
Creating(t) == \E d \in Calls : call[d].thread = t /\ call[d].pc \in {"create", "persist"}

(* getSessionSandboxId: the row that has not expired.                      *)
Query(c) ==
  LET t == call[c].thread
      known == row[t]
  IN /\ call[c].pc = "query"
     /\ IF Valid(known)
          THEN /\ memory' = [memory EXCEPT ![call[c].at][t] = known]
               /\ call' = [call EXCEPT ![c].pc = "resume", ![c].id = known]
               /\ UNCHANGED calm
          ELSE /\ Goto(c, "create")
               /\ calm' = IF Creating(t) THEN calm \ {t} ELSE calm
               /\ UNCHANGED memory
     /\ UNCHANGED <<sandbox, made, row, failures, text>>

(* Mutant: a database that is away has no session, as in development.      *)
QueryFailsOpen(c) ==
  /\ call[c].pc = "query" /\ Fails
  /\ Goto(c, "create")
  /\ UNCHANGED <<sandbox, made, row, memory, calm, text>>

(* Without the database the call fails: no answer is not "no session".     *)
QueryFails(c) ==
  /\ call[c].pc = "query" /\ Fails
  /\ End(c, "failed")
  /\ UNCHANGED <<sandbox, made, row, memory, calm, text>>

(* A sandbox that is gone is replaced.                                     *)
Resume(c) ==
  /\ call[c].pc = "resume"
  /\ IF sandbox[call[c].id].alive
       THEN Goto(c, "use")
       ELSE call' = [call EXCEPT ![c].pc = "create", ![c].id = 0]
  /\ UNCHANGED <<sandbox, made, row, memory, failures, calm, text>>

(* So is one the provider fails to resume, whatever the reason.            *)
ResumeFails(c) ==
  /\ call[c].pc = "resume" /\ Fails
  /\ call' = [call EXCEPT ![c].pc = "create", ![c].id = 0]
  /\ calm' = calm \ {call[c].thread}
  /\ UNCHANGED <<sandbox, made, row, memory, text>>

(* A sandbox is created, and the instance remembers it at once.            *)
Create(c) ==
  /\ call[c].pc = "create" /\ made < MaxSandboxes
  /\ made' = made + 1
  /\ sandbox' = [sandbox EXCEPT ![made + 1] =
       [owner |-> call[c].thread, alive |-> TRUE, fresh |-> TRUE, file |-> {}]]
  /\ memory' = [memory EXCEPT ![call[c].at][call[c].thread] = made + 1]
  /\ call' = [call EXCEPT ![c].pc = "persist", ![c].id = made + 1]
  /\ UNCHANGED <<row, failures, calm, text>>

CreateFails(c) ==
  /\ call[c].pc = "create" /\ Fails
  /\ End(c, "failed")
  /\ UNCHANGED <<sandbox, made, row, memory, calm, text>>

(* setSessionSandboxId: the upsert; the last one is the thread's sandbox.  *)
Persist(c) ==
  /\ call[c].pc = "persist"
  /\ row' = [row EXCEPT ![call[c].thread] = call[c].id]
  /\ Goto(c, "use")
  /\ UNCHANGED <<sandbox, made, memory, failures, calm, text>>

(* The call fails; the memory keeps the sandbox, the row may have it.      *)
PersistFails(c) ==
  /\ call[c].pc = "persist" /\ Fails
  /\ row' \in {row, [row EXCEPT ![call[c].thread] = call[c].id]}
  /\ End(c, "failed")
  /\ calm' = calm \ {call[c].thread}
  /\ UNCHANGED <<sandbox, made, memory, text>>

-----------------------------------------------------------------------------
(* What one command makes of a text: read, ls, glob and grep leave it as   *)
(* it is, write overwrites it, and exec, python and node may add to it.    *)
Effects(c) == {[x \in SUBSET Calls |-> x], [x \in SUBSET Calls |-> {c}],
               [x \in SUBSET Calls |-> x \cup {c}]}
Replace(c, old) == [x \in SUBSET Calls |-> IF old \in x THEN (x \ {old}) \cup {c} ELSE x]

(* Sandbox s changes from what was read of it, the thread's file at once.  *)
Change(c, s, read, effect) ==
  /\ sandbox' = [sandbox EXCEPT ![s].file = effect[read]]
  /\ text' = [text EXCEPT ![call[c].thread] = effect[@]]

Use(c) ==
  LET s == call[c].id
  IN /\ call[c].pc = "use" /\ sandbox[s].alive
     /\ \E effect \in Effects(c) : Change(c, s, sandbox[s].file, effect)
     /\ End(c, "ok")
     /\ UNCHANGED <<made, row, memory, failures, calm>>

(* edit reads the file; with replaceAll the text may be missing.           *)
EditRead(c, old) ==
  LET read == sandbox[call[c].id].file
  IN /\ call[c].pc = "use" /\ sandbox[call[c].id].alive
     /\ old \in read \cup {Nobody}
     /\ call' = [call EXCEPT ![c].pc = "rewrite", ![c].held = read, ![c].old = old]
     /\ UNCHANGED <<sandbox, made, row, memory, failures, calm, text>>

(* Mutant: a text that is not found is replaced all the same.              *)
EditUnfound(c) ==
  /\ call[c].pc = "use" /\ sandbox[call[c].id].alive
  /\ sandbox' = [sandbox EXCEPT ![call[c].id].file = {c}]
  /\ End(c, "ok")
  /\ UNCHANGED <<made, row, memory, failures, calm, text>>

(* oldString is not in the file.                                           *)
EditRefused(c) ==
  /\ call[c].pc = "use" /\ sandbox[call[c].id].alive
  /\ End(c, "refused")
  /\ UNCHANGED <<sandbox, made, row, memory, failures, calm, text>>

(* The whole file is written back, whatever has become of it meanwhile: an *)
(* edit that was overtaken undoes what overtook it.                        *)
EditWrite(c) ==
  LET s == call[c].id
  IN /\ call[c].pc = "rewrite" /\ sandbox[s].alive
     /\ Change(c, s, call[c].held, Replace(c, call[c].old))
     /\ calm' = IF sandbox[s].file = call[c].held THEN calm ELSE calm \ {call[c].thread}
     /\ End(c, "ok")
     /\ UNCHANGED <<made, row, memory, failures>>

(* The sandbox is gone.                                                    *)
UseFails(c) ==
  /\ call[c].pc \in {"use", "rewrite"} /\ ~sandbox[call[c].id].alive
  /\ End(c, "failed")
  /\ UNCHANGED <<sandbox, made, row, memory, failures, calm, text>>

(* The provider fails, or its answer is lost: the effect may be there.     *)
UseUnheard(c) ==
  LET s == call[c].id
  IN /\ call[c].pc \in {"use", "rewrite"} /\ sandbox[s].alive /\ Fails
     /\ \/ UNCHANGED <<sandbox, text, calm>>
        \/ /\ call[c].pc = "use"
           /\ \E effect \in Effects(c) : Change(c, s, sandbox[s].file, effect)
           /\ UNCHANGED calm
        \/ /\ call[c].pc = "rewrite"
           /\ Change(c, s, call[c].held, Replace(c, call[c].old))
           /\ calm' = IF sandbox[s].file = call[c].held THEN calm ELSE calm \ {call[c].thread}
     /\ End(c, "failed")
     /\ UNCHANGED <<made, row, memory>>

-----------------------------------------------------------------------------
(* The provider stops a sandbox.                                           *)
Stop(s) ==
  /\ sandbox[s].alive /\ Fails
  /\ sandbox' = [sandbox EXCEPT ![s].alive = FALSE]
  /\ calm' = calm \ {sandbox[s].owner}
  /\ UNCHANGED <<made, row, memory, call, text>>

(* SANDBOX_TTL_MS after its creation a session expires, used or not: row   *)
(* and memories have the same date.                                        *)
Expire(s) ==
  /\ sandbox[s].fresh
  /\ sandbox' = [sandbox EXCEPT ![s].fresh = FALSE]
  /\ calm' = calm \ {sandbox[s].owner}
  /\ UNCHANGED <<made, row, memory, call, failures, text>>

(* An instance is killed, its memory with it. What its calls had created   *)
(* and not yet stored nobody will find.                                    *)
Restart(i) ==
  LET lost == {c \in Calls : call[c].at = i /\ call[c].pc \in Running}
  IN /\ Fails
     /\ memory' = [memory EXCEPT ![i] = [t \in Threads |-> 0]]
     /\ call' = [c \in Calls |-> IF c \in lost THEN Ended("failed") ELSE call[c]]
     /\ calm' = calm \ {call[c].thread : c \in {d \in lost : call[d].pc = "persist"}}
     /\ UNCHANGED <<sandbox, made, row, text>>

Step(c) ==
  \/ Lookup(c) \/ Query(c) \/ QueryFails(c) \/ Resume(c) \/ ResumeFails(c)
  \/ Create(c) \/ CreateFails(c) \/ Persist(c) \/ PersistFails(c)
  \/ Use(c) \/ EditRefused(c) \/ EditWrite(c) \/ UseFails(c) \/ UseUnheard(c)

Next ==
  \/ \E c \in Calls, i \in Instances, t \in Threads : Call(c, i, t)
  \/ \E c \in Calls : Step(c) \/ \E old \in Calls \cup {Nobody} : EditRead(c, old)
  \/ \E s \in Ids : Stop(s) \/ Expire(s)
  \/ \E i \in Instances : Restart(i)

Spec == Init /\ [][Next]_vars

-----------------------------------------------------------------------------
(* A thread's sandbox is its own: no row, cache or call of a thread ever   *)
(* has a sandbox that was made for another. generateSessionKey and         *)
(* getSessionSandboxId, state.ts:58-148.                                   *)
OwnSandbox ==
  /\ \A t \in Threads : row[t] # 0 => sandbox[row[t]].owner = t
  /\ \A i \in Instances, t \in Threads : memory[i][t] # 0 => sandbox[memory[i][t]].owner = t
  /\ \A c \in Calls : call[c].id # 0 => sandbox[call[c].id].owner = call[c].thread

(* A thread has one sandbox, on whichever instances its calls run and      *)
(* whatever else fails, unless its first calls overlap, the session        *)
(* expires, the sandbox is gone or cannot be resumed, or it was created    *)
(* and could not be stored. sandbox.ts:101-121, state.ts:70-90.            *)
OneSandbox ==
  \A s, r \in Ids :
    sandbox[s].owner \in calm /\ sandbox[r].owner = sandbox[s].owner => s = r

(* The thread has one file: its tools change it as if each did so at once, *)
(* from any instance, whatever else fails, unless what OneSandbox excuses  *)
(* happens, or a call overtakes an edit between its read and its write.    *)
(* sandbox.ts:145-422.                                                     *)
OneFile == \A s \in Ids : sandbox[s].owner \in calm => sandbox[s].file = text[sandbox[s].owner]
=============================================================================

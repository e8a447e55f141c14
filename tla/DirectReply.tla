----------------------------- MODULE DirectReply -----------------------------
(***************************************************************************)
(* Direct replies of one Slack thread: admission by the semaphore of the   *)
(* instance, then handleDirectReply, which reads the thread's history,     *)
(* asks the model, writes the history with the new exchange back and       *)
(* posts the reply unless the thread has just seen it. The history is kept *)
(* in three places (Redis as a cache, the row of thread_memories, the      *)
(* memory of an instance) without any lock; so are the fingerprints of     *)
(* what was posted (Redis only). Production: no durable store, no answer.  *)
(*                                                                         *)
(* Other instances admit by a semaphore of their own, which is not         *)
(* modelled; their replies race the local ones for thread and stores.      *)
(* Runs read the history too, to plan. An exchange is one element of a     *)
(* history; compaction and the limits on characters are left out.          *)
(***************************************************************************)
EXTENDS Semaphore

CONSTANTS
  Elsewhere,      \* replies handled by other instances
  Contexts,       \* runs that read the history (assembleContext)
  MaxKept,        \* exchanges that fit MAX_THREAD_HISTORY_MESSAGES
  Window,         \* SLACK_DEDUP_WINDOW_SIZE
  TextOf,         \* what the model answers to each message
  Failures,       \* what may fail: "redis", "row", "pool", "model", "slack"
  None            \* no key, no row

(* Replies handled by this instance. Each gives acquirePermit 10 s, so an  *)
(* instance of this module has no Untimed ones.                            *)
Local == Callers
Replies == Local \cup Elsewhere
Readers == Replies \cup Contexts
Texts == {TextOf[r] : r \in Replies}

ASSUME ReplyAssumption ==
  /\ Local \cap Elsewhere = {} /\ Replies \cap Contexts = {}
  /\ MaxKept \in Nat \ {0} /\ Window \in Nat \ {0}
  /\ None \notin Seq(Replies)

VARIABLES
  cached,       \* Redis: thread:<key>
  row,          \* thread_memories.messages
  memory,       \* memoryThreads of this instance
  refill,       \* the cache refill each reader has sent, and nobody awaits
  prints,       \* Redis: dedup:thread:<channel>:<thread>, newest first
  pc,           \* where each reply, or reader, is
  seen,         \* the history each reply read
  near          \* the fingerprints it loaded before storing its own

stores == <<cached, row, memory, refill>>
vars == <<admission, stores, prints, pc, seen, near>>

Places == {"new", "cache", "row", "model", "saveCache", "saveRow", "check", "post", "load",
           "store", "answered", "suppressed", "refused", "failed"}
Final == {"answered", "suppressed", "refused", "failed"}

(* The history is, everywhere, a sequence of different exchanges.          *)
Histories == {h \in Seq(Replies) : Len(h) <= MaxKept /\ IsInjective(h)}

TypeOK ==
  /\ SemTypeOK
  /\ cached \in Histories \cup {None} /\ row \in Histories \cup {None}
  /\ memory \in Histories
  /\ refill \in [Readers -> Histories \cup {None}]
  /\ prints \in Seq(Texts) /\ Len(prints) <= Window
  /\ pc \in [Readers -> Places]
  /\ seen \in [Replies -> Histories]
  /\ near \in [Replies -> Seq(Texts)]

Init ==
  /\ SemInit
  /\ cached = None /\ row = None /\ memory = <<>>
  /\ refill = [r \in Readers |-> None]
  /\ prints = <<>>
  /\ pc = [r \in Readers |-> "new"]
  /\ seen = [r \in Replies |-> <<>>]
  /\ near = [r \in Replies |-> <<>>]

-----------------------------------------------------------------------------
(* Admission, and the end of a reply                                       *)

At(r, place) == pc[r] = place
Goto(r, place) == pc' = [pc EXCEPT ![r] = place]

(* acquirePermit(10_000): at once, or after a wait. *)
Arrive(r) ==
  /\ At(r, "new")
  /\ IF r \in Local
       THEN /\ Acquire(r)
            /\ lease'[r] # "refused"
            /\ Goto(r, IF lease'[r] = "held" THEN "cache" ELSE "new")
       ELSE Goto(r, "cache") /\ UNCHANGED admission
  /\ UNCHANGED <<stores, prints, seen, near>>

(* A waiter was handed its permit. *)
Admitted(r) ==
  /\ At(r, "new") /\ r \in Local
  /\ lease[r] = "held"
  /\ Goto(r, "cache")
  /\ UNCHANGED <<admission, stores, prints, seen, near>>

(* Mutant: the waiter is taken out of the queue, and not told. *)
RefuseSilently(r) ==
  /\ At(r, "new") /\ r \in Local
  /\ TimeOut(r)
  /\ UNCHANGED <<pc, stores, prints, seen, near>>

(* The ten seconds are over: 429. *)
Refuse(r) ==
  /\ At(r, "new") /\ r \in Local
  /\ TimeOut(r)
  /\ Goto(r, "refused")
  /\ UNCHANGED <<stores, prints, seen, near>>

(* Mutant: only a pipeline that did not throw gives its permit back. *)
EndUnreleased(r, place) ==
  /\ Goto(r, place)
  /\ IF r \in Local /\ place # "failed" THEN ReleasePermit(r) ELSE UNCHANGED admission

(* Mutant: the permit goes back to the pool past those who wait for it. *)
EndPastQueue(r, place) ==
  /\ Goto(r, place)
  /\ IF r \in Local
       THEN /\ permits' = permits + 1 /\ lease' = [lease EXCEPT ![r] = "released"]
            /\ UNCHANGED queue
       ELSE UNCHANGED admission

(* The pipeline returns or throws; the handler's finally block. *)
End(r, place) ==
  /\ Goto(r, place)
  /\ IF r \in Local THEN ReleasePermit(r) ELSE UNCHANGED admission

-----------------------------------------------------------------------------
(* getThreadHistory                                                        *)

(* What reader r is given; a run is done with it then. *)
Got(r, history) ==
  IF r \in Contexts
    THEN End(r, "answered") /\ UNCHANGED seen
    ELSE /\ Goto(r, "model")
         /\ seen' = [seen EXCEPT ![r] = history]
         /\ UNCHANGED admission

(* Another instance has nothing of this thread in its memory. *)
Memory(r) == IF r \in Local THEN memory ELSE <<>>

(* Mutant: what the instance remembers is good enough. *)
ReadMemoryFirst(r) ==
  /\ At(r, "cache")
  /\ \/ Memory(r) # <<>> /\ Got(r, Memory(r))
     \/ Memory(r) = <<>> /\ cached # None /\ Got(r, cached)
     \/ /\ cached = None \/ "redis" \in Failures
        /\ Goto(r, "row") /\ UNCHANGED <<admission, seen>>
  /\ UNCHANGED <<stores, prints, near>>

(* A hit in Redis; a miss, or an error, which getRedisJson makes a miss. *)
ReadCache(r) ==
  /\ At(r, "cache")
  /\ \/ cached # None /\ Got(r, cached)
     \/ /\ cached = None \/ "redis" \in Failures
        /\ Goto(r, "row") /\ UNCHANGED <<admission, seen>>
  /\ UNCHANGED <<stores, prints, near>>

(* The row, which a refill of the cache is sent for; without a row, the    *)
(* memory of the instance; an error of the query is thrown.                *)
ReadRow(r) ==
  /\ At(r, "row")
  /\ \/ /\ row # None /\ Got(r, row)
        /\ refill' = [refill EXCEPT ![r] = row]
     \/ row = None /\ Got(r, Memory(r)) /\ UNCHANGED refill
     \/ /\ "row" \in Failures
        /\ End(r, "failed") /\ UNCHANGED <<seen, refill>>
  /\ UNCHANGED <<cached, row, memory, prints, near>>

(* No connection to the database: if Redis answers the ping, the memory of *)
(* the instance, in production too.                                        *)
ReadFallback(r) ==
  /\ At(r, "row") /\ "pool" \in Failures
  /\ \/ Got(r, Memory(r))
     \/ "redis" \in Failures /\ End(r, "failed") /\ UNCHANGED seen
  /\ UNCHANGED <<stores, prints, near>>

(* The refill arrives, whatever was cached meanwhile; or it fails. *)
Refill(r) ==
  /\ refill[r] # None
  /\ refill' = [refill EXCEPT ![r] = None]
  /\ cached' = refill[r] \/ ("redis" \in Failures /\ UNCHANGED cached)
  /\ UNCHANGED <<admission, row, memory, prints, pc, seen, near>>

-----------------------------------------------------------------------------
(* The model, and saveThreadHistory                                        *)

Generate(r) ==
  /\ At(r, "model")
  /\ \/ Goto(r, "saveCache") /\ UNCHANGED admission
     \/ "model" \in Failures /\ End(r, "failed")
  /\ UNCHANGED <<stores, prints, seen, near>>

(* MAX_THREAD_HISTORY_MESSAGES: the oldest exchange makes room. *)
Kept(h) == IF Len(h) > MaxKept THEN Tail(h) ELSE h
Extended(r) == Kept(Append(seen[r], r))

(* Memory first, then Redis, whose errors do not count. *)
SaveCache(r) ==
  /\ At(r, "saveCache")
  /\ memory' = IF r \in Local THEN Extended(r) ELSE memory
  /\ cached' = Extended(r) \/ ("redis" \in Failures /\ UNCHANGED cached)
  /\ Goto(r, "saveRow")
  /\ UNCHANGED <<admission, row, refill, prints, seen, near>>

(* The upsert. Without it the reply fails, though memory and Redis have    *)
(* the exchange; a broken connection leaves it open whether the row has.   *)
SaveRow(r) ==
  /\ At(r, "saveRow")
  /\ \/ row' = Extended(r) /\ Goto(r, "check") /\ UNCHANGED admission
     \/ "row" \in Failures /\ row' \in {row, Extended(r)} /\ End(r, "failed")
     \/ "pool" \in Failures /\ UNCHANGED row /\ End(r, "failed")
  /\ seen' = [seen EXCEPT ![r] = <<>>]
  /\ UNCHANGED <<cached, memory, refill, prints, near>>

-----------------------------------------------------------------------------
(* slack.replyInThread                                                     *)

(* isNearDuplicate *)
CheckDuplicate(r) ==
  /\ At(r, "check")
  /\ IF TextOf[r] \in ToSet(prints)
       THEN End(r, "suppressed")
       ELSE Goto(r, "post") /\ UNCHANGED admission
  /\ UNCHANGED <<stores, prints, seen, near>>

(* chat.postMessage; an error may come after the reply was posted. *)
Post(r) ==
  /\ At(r, "post")
  /\ \/ Goto(r, "load") /\ UNCHANGED admission
     \/ "slack" \in Failures /\ End(r, "failed")
  /\ UNCHANGED <<stores, prints, seen, near>>

(* storeMessageFingerprint: load, ... *)
LoadPrints(r) ==
  /\ At(r, "load")
  /\ near' = [near EXCEPT ![r] = prints]
  /\ Goto(r, "store")
  /\ UNCHANGED <<admission, stores, prints, seen>>

(* An error of Redis reads as no fingerprints. The memory that dedup.ts    *)
(* falls back to is always empty: setRedisJson throws nothing that would   *)
(* fill it.                                                                *)
PrintsUnread(r) ==
  /\ "redis" \in Failures
  /\ \/ At(r, "check") /\ Goto(r, "post") /\ UNCHANGED near
     \/ At(r, "load") /\ Goto(r, "store") /\ near' = [near EXCEPT ![r] = <<>>]
  /\ UNCHANGED <<admission, stores, prints, seen>>

(* Mutant: the fingerprints of the thread are replaced, not added to. *)
OnlyOwnPrint(r) == <<TextOf[r]>>

NewPrints(r) ==
  LET all == <<TextOf[r]>> \o near[r]
  IN IF Len(all) > Window THEN SubSeq(all, 1, Window) ELSE all

(* ... and store the newest WINDOW_SIZE; a failure is not noticed. *)
StorePrint(r) ==
  /\ At(r, "store")
  /\ prints' = NewPrints(r) \/ ("redis" \in Failures /\ UNCHANGED prints)
  /\ near' = [near EXCEPT ![r] = <<>>]
  /\ End(r, "answered")
  /\ UNCHANGED <<stores, seen>>

(* An hour without a save; five minutes without a post. *)
ExpireHistory ==
  /\ cached # None /\ cached' = None
  /\ UNCHANGED <<admission, row, memory, refill, prints, pc, seen, near>>

ExpirePrints ==
  /\ prints # <<>> /\ prints' = <<>>
  /\ UNCHANGED <<admission, stores, pc, seen, near>>

-----------------------------------------------------------------------------
Read(r) == ReadCache(r) \/ ReadRow(r) \/ ReadFallback(r)

Reply(r) ==
  \/ Admitted(r) \/ Refuse(r) \/ Generate(r) \/ SaveCache(r) \/ SaveRow(r) \/ CheckDuplicate(r)
  \/ Post(r) \/ LoadPrints(r) \/ PrintsUnread(r) \/ StorePrint(r)

Next ==
  \/ \E r \in Readers : Arrive(r) \/ Read(r) \/ Refill(r)
  \/ \E r \in Replies : Reply(r)
  \/ ExpireHistory \/ ExpirePrints

Spec == Init /\ [][Next]_vars

(* Every await of a reply ends: calls have time-outs, the wait for a       *)
(* permit a timer. The refills are nobody's duty, nor the expiries.        *)
FairSpec ==
  /\ Spec
  /\ \A r \in Readers : WF_vars(Read(r))
  /\ \A r \in Replies : WF_vars(Reply(r))

-----------------------------------------------------------------------------
(* Properties                                                              *)

(* The handlers use the semaphore by its rules: all that is shown of       *)
(* Semaphore (permits conserved, none idle, FIFO) holds of them.           *)
AdmissionSpec == SemSpec

(* Replies and permits match: no local reply works without a permit, and   *)
(* none keeps its permit when it has ended, by success, error or refusal.  *)
PermitWhileWorking ==
  \A r \in Local :
    /\ pc[r] \notin Final \cup {"new"} => lease[r] = "held"
    /\ pc[r] \in Final => lease[r] \in {"released", "refused"}

(* Every message that arrives ends as answered, suppressed, refused (429)  *)
(* or failed, so that again and again all that arrived have ended: no      *)
(* reply waits for ever for a permit or on a store.                        *)
EverybodyTold ==
  []<>(\A r \in Replies :
         pc[r] \in Final \/ (pc[r] = "new" /\ (r \in Local => lease[r] = "none")))

Has(history, e) == history # None /\ e \in ToSet(history)
Saving(r) == pc[r] \in {"model", "saveCache", "saveRow"}

(* Exchange e is in every copy of the history from which it could be       *)
(* overwritten: the row, the cache, the refills and what is being answered.*)
Settled(e) ==
  /\ Has(row, e)
  /\ cached = None \/ Has(cached, e)
  /\ \A r \in Readers : refill[r] = None \/ Has(refill[r], e)
  /\ \A r \in Replies : Saving(r) => Has(seen[r], e)

TooOld(e) ==
  \E r \in Replies : Saving(r) /\ Len(seen[r]) = MaxKept /\ seen[r][1] = e

(* Once an exchange is in every copy of the thread's history, nothing      *)
(* makes the thread forget it: not concurrent replies on any instance, an  *)
(* expired cache, late refills or failing stores, only newer exchanges.    *)
(* The one exception is the fall back to an instance's memory when the     *)
(* database has no connection to give.                                     *)
Remembered ==
  [][\A e \in Replies :
       Settled(e) => Settled(e)' \/ TooOld(e) \/ \E r \in Readers : ReadFallback(r)]_vars

(* The thread has text t, and so has everybody who may still change the    *)
(* fingerprints or is about to post.                                       *)
Noted(t) ==
  /\ t \in ToSet(prints)
  /\ \A r \in Replies :
       /\ At(r, "post") => TextOf[r] # t
       /\ At(r, "store") => t \in ToSet(<<TextOf[r]>> \o near[r])

PushedOut(t) ==
  \E r \in Replies : At(r, "store") /\ Len(near[r]) = Window /\ near[r][Window] = t

(* A text that was posted and noted is not posted again, by however many   *)
(* concurrent replies, until its fingerprint expires, or is pushed out by  *)
(* newer ones, or cannot be read.                                          *)
SaidOnce ==
  [][\A t \in Texts :
       Noted(t) => \/ Noted(t)' \/ PushedOut(t)
                   \/ ExpirePrints \/ \E r \in Replies : PrintsUnread(r)]_vars
=============================================================================

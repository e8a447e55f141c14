------------------------------ MODULE Dashboard ------------------------------
(***************************************************************************)
(* The administrators' dashboard: pages of one browser, and the way of     *)
(* their requests through the rate limit and the password check, whose     *)
(* counters and locks are keyed by the IP address the pages share.         *)
(*                                                                         *)
(* The counters live in Redis, in commands of several requests on several  *)
(* instances; each instance keeps counts and locks of its own besides. A   *)
(* page learns what became of its password from answers that come late, in *)
(* any order, or not at all.                                               *)
(***************************************************************************)
EXTENDS Naturals, FiniteSets

CONSTANTS
  Pages,        \* tabs of one browser
  Servers,      \* instances of the server
  MaxHits,      \* requests per window, 2000 in the code
  MaxFailed,    \* MAX_FAILED_ATTEMPTS, 5 in the code
  MaxSlips,     \* bound: wrong passwords typed, refreshes, logouts, reloads
  MaxFailures,  \* bound: commands that fail, instances and answers that are lost
  None          \* no entry in failedAttempts

ASSUME DashboardAssumption ==
  /\ MaxHits \in Nat \ {0} /\ MaxFailed \in Nat \ {0}
  /\ IsFiniteSet(Pages) /\ IsFiniteSet(Servers)
  /\ MaxSlips \in Nat /\ MaxFailures \in Nat
  /\ None \notin Servers

(* A page has one request of each kind under way.                          *)
Requests == Pages \X {"status", "logs"}

(* Names for the AuthAttempt objects, as many as can be in use at once.    *)
Objects == 1..(Cardinality(Servers) + Cardinality(Requests))

VARIABLES
  kept,      \* localStorage: dashboard_password
  stored,    \* dashboardPassword of each page
  gate,      \* authRequired of each page
  req,       \* the requests
  hits,      \* Redis: rl:<ip>, with or without a TTL
  failed,    \* Redis: auth:failures:<ip>
  lock,      \* Redis: auth:lockout:<ip>
  attempts,  \* failedAttempts of each instance: the address's attempt, or 0
  attempt,   \* the AuthAttempt objects
  slips,     \* how many slips the administrators made
  failures,  \* how much failed
  wrongs     \* ghost: wrong passwords that were compared, up to MaxFailed

pages == <<kept, stored, gate>>
counters == <<hits, failed, lock>>
remembered == <<attempts, attempt>>
dashboard == <<pages, req, counters, remembered, slips, failures, wrongs>>

Password == {"none", "wrong", "right"}
Answers == {"200", "401", "429", "locked", "503"}
InLimiter == {"limit", "incr", "pttl"}
InAuth == {"auth", "compare", "reset", "failed", "count", "lock"}
Counter(max) == [n : 0..max, ttl : BOOLEAN]
Gone == [n |-> 0, ttl |-> FALSE]
Idle == [pc |-> "idle", pw |-> "none", typed |-> FALSE,
         over |-> FALSE, at |-> None, hold |-> 0]
Blank == [count |-> 0, locked |-> FALSE]

DashTyped ==
  /\ kept \in Password /\ stored \in [Pages -> Password] /\ gate \in [Pages -> BOOLEAN]
  /\ req \in [Requests ->
       [pc : {"idle"} \cup InLimiter \cup InAuth \cup Answers, pw : Password, typed : BOOLEAN,
        over : BOOLEAN, at : Servers \cup {None}, hold : {0} \cup Objects]]
  /\ hits \in Counter(MaxHits + 1) /\ failed \in Counter(MaxFailed) /\ lock \in BOOLEAN
  /\ attempts \in [Servers -> {0} \cup Objects]
  /\ attempt \in [Objects -> [count : 0..MaxFailed, locked : BOOLEAN]]
  /\ slips \in 0..MaxSlips /\ failures \in 0..MaxFailures /\ wrongs \in 0..MaxFailed

Asking(pw, typed) == [Idle EXCEPT !.pc = "limit", !.pw = pw, !.typed = typed]

(* A page that has a password fetches the status at once.                  *)
Mounted(pw) == [kind \in {"status", "logs"} |->
  IF kind = "status" /\ pw # "none" THEN Asking(pw, FALSE) ELSE Idle]

(* The pages are opened with whatever the browser has kept.                *)
DashInit ==
  /\ kept \in Password
  /\ stored = [p \in Pages |-> kept] /\ gate = [p \in Pages |-> kept = "none"]
  /\ req = [q \in Requests |-> Mounted(kept)[q[2]]]
  /\ hits = Gone /\ failed = Gone /\ lock = FALSE
  /\ attempts = [i \in Servers |-> 0]
  /\ attempt = [o \in Objects |-> Blank]
  /\ slips = 0 /\ failures = 0 /\ wrongs = 0

-----------------------------------------------------------------------------
(* The pages.                                                              *)

Status(p) == <<p, "status">>
Logs(p) == <<p, "logs">>
Slip == slips < MaxSlips /\ slips' = slips + 1
Fault == failures < MaxFailures /\ failures' = failures + 1

Send(q, pw, typed) ==
  /\ req[q] = Idle
  /\ req' = [req EXCEPT ![q] = Asking(pw, typed)]
  /\ UNCHANGED <<pages, counters, remembered, failures, wrongs>>

(* Bound: a page that has a password is refreshed by hand a few times only.*)
Refresh(p) ==
  /\ ~gate[p]
  /\ Send(Status(p), stored[p], FALSE)
  /\ IF stored[p] = "none" THEN UNCHANGED slips ELSE Slip

Type(p, pw) ==
  /\ gate[p]
  /\ Send(Status(p), pw, TRUE)
  /\ IF pw = "wrong" THEN Slip ELSE UNCHANGED slips

PollLogs(p) ==
  /\ ~gate[p] /\ stored[p] # "none"
  /\ Send(Logs(p), stored[p], FALSE)
  /\ UNCHANGED slips

Logout(p) ==
  /\ ~gate[p] /\ stored[p] # "none" /\ Slip
  /\ stored' = [stored EXCEPT ![p] = "none"] /\ kept' = "none"
  /\ gate' = [gate EXCEPT ![p] = TRUE]
  /\ UNCHANGED <<req, counters, remembered, failures, wrongs>>

(* Bound: a page is reloaded when nothing it asked for is under way.       *)
Reload(p) ==
  /\ \A q \in Requests : q[1] = p => req[q] = Idle
  /\ Slip
  /\ stored' = [stored EXCEPT ![p] = kept] /\ gate' = [gate EXCEPT ![p] = kept = "none"]
  /\ req' = [q \in Requests |-> IF q[1] = p THEN Mounted(kept)[q[2]] ELSE req[q]]
  /\ UNCHANGED <<kept, counters, remembered, failures, wrongs>>

(* Whatever is JSON and no 401 opens the page and confirms the password    *)
(* that was typed: the lock and an outage answer in JSON, the limiter does *)
(* not. A page that gets another password fetches the status with it.      *)
Opens(q) == q[2] = "status" /\ req[q].pc \in {"200", "locked", "503"}
(* Mutant: only the status' 401 asks for the password.                     *)
ReceiveStatusOnly(q) ==
  LET p == q[1]
      confirmed == Opens(q) /\ req[q].typed
      pw == req[q].pw
  IN /\ req[q].pc \in Answers
     /\ gate' = [gate EXCEPT ![p] = (@ \/ (q[2] = "status" /\ req[q].pc = "401")) /\ ~Opens(q)]
     /\ IF confirmed THEN stored' = [stored EXCEPT ![p] = pw] /\ kept' = pw
                     ELSE UNCHANGED <<stored, kept>>
     /\ req' = [req EXCEPT ![q] = IF confirmed /\ pw # stored[p] THEN Asking(pw, FALSE) ELSE Idle]
     /\ UNCHANGED <<counters, remembered, slips, failures, wrongs>>
Receive(q) ==
  LET p == q[1]
      confirmed == Opens(q) /\ req[q].typed
      pw == req[q].pw
  IN /\ req[q].pc \in Answers
     /\ gate' = [gate EXCEPT ![p] = (@ \/ req[q].pc = "401") /\ ~Opens(q)]
     /\ IF confirmed THEN stored' = [stored EXCEPT ![p] = pw] /\ kept' = pw
                     ELSE UNCHANGED <<stored, kept>>
     /\ req' = [req EXCEPT ![q] = IF confirmed /\ pw # stored[p] THEN Asking(pw, FALSE) ELSE Idle]
     /\ UNCHANGED <<counters, remembered, slips, failures, wrongs>>

(* A request or its answer is lost: fetch throws, and nothing changes.     *)
Lost(q) ==
  /\ req[q].pc \in InLimiter \cup Answers /\ Fault
  /\ req' = [req EXCEPT ![q] = Idle]
  /\ UNCHANGED <<pages, counters, remembered, slips, wrongs>>

-----------------------------------------------------------------------------
(* The rate limit: KvRateLimitStore.increment, one command at a time.      *)

AtMost(n, max) == IF n > max THEN max ELSE n
Proceed(q, pc) == req' = [req EXCEPT ![q].pc = pc]
Limiter == UNCHANGED <<pages, failed, lock, remembered, slips, wrongs>>

SetHit(q) ==
  /\ req[q].pc = "limit"
  /\ hits' = IF hits = Gone THEN [n |-> 1, ttl |-> TRUE] ELSE hits
  /\ Proceed(q, IF hits = Gone THEN "pttl" ELSE "incr")
  /\ UNCHANGED failures /\ Limiter

(* INCR makes the key anew, without a TTL, if it has expired meanwhile.    *)
IncrHit(q) ==
  /\ req[q].pc = "incr"
  /\ hits' = [hits EXCEPT !.n = AtMost(@ + 1, MaxHits + 1)]
  /\ req' = [req EXCEPT ![q].pc = "pttl", ![q].over = hits.n + 1 > MaxHits]
  /\ UNCHANGED failures /\ Limiter

(* Mutant: a key without a TTL is left as it is.                           *)
TtlNotRepaired(q) ==
  /\ req[q].pc = "pttl"
  /\ Proceed(q, IF req[q].over THEN "429" ELSE "auth")
  /\ UNCHANGED <<hits, failures>> /\ Limiter
(* PTTL, and PEXPIRE for a key that has no TTL; then the readiness gate.   *)
TtlOfHits(q) ==
  /\ req[q].pc = "pttl"
  /\ hits' = [hits EXCEPT !.ttl = @ \/ hits # Gone]
  /\ Proceed(q, IF req[q].over THEN "429" ELSE "auth")
  /\ UNCHANGED failures /\ Limiter

(* Without Redis, or without a storage that is ready, the API is closed.   *)
Closed(q) ==
  /\ req[q].pc \in InLimiter /\ Fault
  /\ Proceed(q, "503")
  /\ UNCHANGED hits /\ Limiter

-----------------------------------------------------------------------------
(* The password: requireDashboardAuth at an instance.                      *)

AuthStep == UNCHANGED <<pages, hits, slips>>
(* An answer leaves no trace of its request, but for a password that was   *)
(* typed.                                                                  *)
Answer(q, a) ==
  req' = [req EXCEPT ![q] = [Idle EXCEPT !.pc = a, !.typed = req[q].typed,
                                         !.pw = IF req[q].typed THEN req[q].pw ELSE "none"]]

(* An object nobody refers to any more is collected.                       *)
Live(objects) ==
  [o \in Objects |-> IF (\E i \in Servers : attempts'[i] = o) \/ (\E q \in Requests : req'[q].hold = o)
                       THEN objects[o] ELSE Blank]
Unused == CHOOSE o \in Objects :
  /\ \A i \in Servers : attempts[i] # o
  /\ \A q \in Requests : req[q].hold # o

MemoryLocked(i) == attempts[i] # 0 /\ attempt[attempts[i]].locked

(* A TTL that cannot be read counts as no lock.                            *)
LockCheck(q, i, heard) ==
  /\ req[q].pc = "auth"
  /\ IF MemoryLocked(i) \/ (heard /\ lock)
       THEN Answer(q, "locked")
       ELSE req' = [req EXCEPT ![q].pc = "compare", ![q].at = i]
  /\ IF heard THEN UNCHANGED failures ELSE Fault
  /\ UNCHANGED <<failed, lock, remembered, wrongs>> /\ AuthStep

NoPassword(q) ==
  /\ req[q].pc = "compare" /\ req[q].pw = "none"
  /\ Answer(q, "401")
  /\ UNCHANGED <<failed, lock, remembered, failures, wrongs>> /\ AuthStep

RightPassword(q) ==
  /\ req[q].pc = "compare" /\ req[q].pw = "right"
  /\ attempts' = [attempts EXCEPT ![req[q].at] = 0]
  /\ Proceed(q, "reset")
  /\ attempt' = Live(attempt)
  /\ UNCHANGED <<failed, lock, failures, wrongs>> /\ AuthStep

(* One DEL of both keys; if it fails the request is served all the same.   *)
Reset(q, heard) ==
  /\ req[q].pc = "reset"
  /\ failed' = IF heard THEN Gone ELSE failed
  /\ lock' = (lock /\ ~heard)
  /\ IF heard THEN UNCHANGED failures ELSE Fault
  /\ Answer(q, "200")
  /\ UNCHANGED <<remembered, wrongs>> /\ AuthStep

(* A new attempt enters the map only once the failure is settled.          *)
WrongPassword(q) ==
  LET known == attempts[req[q].at]
      mine == IF known = 0 THEN Unused ELSE known
  IN /\ req[q].pc = "compare" /\ req[q].pw = "wrong"
     /\ attempt' = [attempt EXCEPT ![mine].count = AtMost(@ + 1, MaxFailed)]
     /\ req' = [req EXCEPT ![q].pc = "failed", ![q].hold = mine]
     /\ wrongs' = AtMost(wrongs + 1, MaxFailed)
     /\ UNCHANGED <<attempts, failed, lock, failures>> /\ AuthStep

(* MAX_FAILED_ATTEMPTS failures: the attempt is locked at once, the map    *)
(* has it after Redis does.                                                *)
Judge(q, n) ==
  LET mine == req[q].hold
  IN IF n >= MaxFailed
       THEN /\ attempt' = [attempt EXCEPT ![mine].locked = TRUE]
            /\ Proceed(q, "lock")
            /\ UNCHANGED attempts
       ELSE /\ attempts' = [attempts EXCEPT ![req[q].at] = mine]
            /\ Answer(q, "401")
            /\ attempt' = Live(attempt)

(* recordAuthFailure: SET NX EX, then INCR, which makes the key anew,      *)
(* without a TTL, if it has expired meanwhile.                             *)
SetFailure(q) ==
  /\ req[q].pc = "failed"
  /\ IF failed = Gone
       THEN failed' = [n |-> 1, ttl |-> TRUE] /\ Judge(q, 1)
       ELSE Proceed(q, "count") /\ UNCHANGED <<failed, remembered>>
  /\ UNCHANGED <<lock, failures, wrongs>> /\ AuthStep

CountFailure(q) ==
  /\ req[q].pc = "count"
  /\ failed' = [failed EXCEPT !.n = AtMost(@ + 1, MaxFailed)]
  /\ Judge(q, failed.n + 1)
  /\ UNCHANGED <<lock, failures, wrongs>> /\ AuthStep

(* Mutant: a counter that is not heard locks.                              *)
CountAloneLocks(q) ==
  /\ req[q].pc \in {"failed", "count"} /\ Fault
  /\ Judge(q, MaxFailed)
  /\ UNCHANGED <<failed, lock, wrongs>> /\ AuthStep
(* Redis is not heard: the instance's own count decides.                   *)
CountAlone(q) ==
  /\ req[q].pc \in {"failed", "count"} /\ Fault
  /\ Judge(q, attempt[req[q].hold].count)
  /\ UNCHANGED <<failed, lock, wrongs>> /\ AuthStep

LockOut(q, heard) ==
  /\ req[q].pc = "lock"
  /\ lock' = (lock \/ heard)
  /\ IF heard THEN UNCHANGED failures ELSE Fault
  /\ attempts' = [attempts EXCEPT ![req[q].at] = req[q].hold]
  /\ Answer(q, "401")
  /\ attempt' = Live(attempt)
  /\ UNCHANGED <<failed, wrongs>> /\ AuthStep

-----------------------------------------------------------------------------
(* Fifteen minutes pass.                                                   *)
HitsExpire ==
  /\ hits.ttl /\ hits' = Gone
  /\ UNCHANGED <<pages, req, failed, lock, remembered, slips, failures, wrongs>>
FailuresExpire ==
  /\ failed.ttl /\ failed' = Gone
  /\ UNCHANGED <<pages, req, hits, lock, remembered, slips, failures, wrongs>>
LockExpires ==
  /\ lock /\ lock' = FALSE
  /\ UNCHANGED <<pages, req, hits, failed, remembered, slips, failures, wrongs>>
MemoryLockExpires(o) ==
  /\ attempt[o].locked /\ attempt' = [attempt EXCEPT ![o].locked = FALSE]
  /\ UNCHANGED <<pages, req, counters, attempts, slips, failures, wrongs>>

(* An instance is recycled: its map and the requests it served are gone.   *)
Recycle(i) ==
  /\ Fault
  /\ attempts' = [attempts EXCEPT ![i] = 0]
  /\ req' = [q \in Requests |-> IF req[q].at = i THEN Idle ELSE req[q]]
  /\ attempt' = Live(attempt)
  /\ UNCHANGED <<pages, counters, slips, wrongs>>

Serve(q) ==
  \/ SetHit(q) \/ IncrHit(q) \/ TtlOfHits(q)
  \/ \E i \in Servers : LockCheck(q, i, TRUE)
  \/ NoPassword(q) \/ RightPassword(q) \/ Reset(q, TRUE)
  \/ WrongPassword(q) \/ SetFailure(q) \/ CountFailure(q) \/ LockOut(q, TRUE)

Trouble(q) ==
  \/ Lost(q) \/ Closed(q)
  \/ \E i \in Servers : LockCheck(q, i, FALSE)
  \/ Reset(q, FALSE) \/ CountAlone(q) \/ LockOut(q, FALSE)

DashNext ==
  \/ \E p \in Pages : Refresh(p) \/ PollLogs(p) \/ Logout(p) \/ Reload(p)
  \/ \E p \in Pages, pw \in {"wrong", "right"} : Type(p, pw)
  \/ \E q \in Requests : Receive(q) \/ Serve(q) \/ Trouble(q)
  \/ HitsExpire \/ FailuresExpire \/ LockExpires
  \/ \E o \in Objects : MemoryLockExpires(o)
  \/ \E i \in Servers : Recycle(i)

(* The server answers, answers arrive, fifteen minutes pass; the pages     *)
(* poll, and an administrator who is asked for the password types it.      *)
Fairness ==
  /\ \A q \in Requests : WF_dashboard(Serve(q)) /\ WF_dashboard(Receive(q))
  /\ \A p \in Pages :
       WF_dashboard(PollLogs(p)) /\ WF_dashboard(Refresh(p)) /\ WF_dashboard(Type(p, "right"))
  /\ WF_dashboard(HitsExpire) /\ WF_dashboard(LockExpires)
  /\ \A o \in Objects : WF_dashboard(MemoryLockExpires(o))

DashSpec == DashInit /\ [][DashNext]_dashboard /\ Fairness

-----------------------------------------------------------------------------
(* The address is locked, here or there, only after MAX_FAILED_ATTEMPTS    *)
(* wrong passwords: pages that poll without a password, after their right  *)
(* one, or while an outage hides the counter, never add up to a lock.      *)
(* requireDashboardAuth, auth.ts:104-155.                                  *)
LockNeedsFailures ==
  (lock \/ \E o \in Objects : attempt[o].locked) => wrongs = MaxFailed

(* Nor does an interleaving of the pages, the counters and their TTLs take *)
(* any of them out of its type.                                            *)
Safety == DashTyped /\ LockNeedsFailures

(* Neither the limit nor a lock, nor a page that lost its password, shuts  *)
(* the administrators out for good: requests are served again and again.   *)
(* rateLimitStore.ts:54-58, auth.ts:120-151, App.tsx:135-151.              *)
ServedAgain == []<>(\E q \in Requests : req[q].pc = "200")

(* A page that took an unchecked password for confirmed finds out: it asks *)
(* for the password again or has another. App.tsx:144-151, 165-176.        *)
FindsOut == \A p \in Pages : (~gate[p] /\ stored[p] = "wrong") ~> (gate[p] \/ stored[p] # "wrong")
=============================================================================

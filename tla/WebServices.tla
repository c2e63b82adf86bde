----------------------------- MODULE WebServices -----------------------------
(***************************************************************************)
(* The search and page tools of the DeepDive domain: calls made on the     *)
(* event loop, answered from a cache on disk or, behind a semaphore, by a  *)
(* worker thread that retries and shares one rate limiter.                 *)
(*                                                                         *)
(* Time is relative and in units of the limiter's interval: a delay counts *)
(* down at every Tick, and a thread that is due acts before the next Tick. *)
(* A page read is a search without further queries. The files of the cache *)
(* appear by these calls only, or were there before.                       *)
(***************************************************************************)
EXTENDS Naturals, Sequences, SequencesExt, FiniteSets

CONSTANTS Caller,         \* tool calls, each made once
          KeyOf,          \* caller -> cache key of its arguments
          Search,         \* the callers that search; the others read a page
          LongQuery,      \* callers whose query has more than 36 words
          Candidates,     \* further queries derived from a long one
          MaxConcurrency, \* max_concurrency
          MaxRetries      \* max_retries

ASSUME ConstantsAssumption ==
    /\ IsFiniteSet(Caller) /\ Search \subseteq Caller /\ LongQuery \subseteq Search
    /\ Candidates \in Nat \ {0}
    /\ MaxConcurrency \in Nat \ {0} /\ MaxRetries \in Nat

VARIABLES call,        \* where each call is, on the event loop
          queue,       \* calls that wait for the semaphore
          permits,     \* value of the semaphore
          thread,      \* the worker thread of each call
          attempt,     \* its attempt, from 0
          query,       \* further queries it has sent in this attempt
          delay,       \* its time left asleep
          nextAllowed, \* RateLimiter._next_allowed, from now
          cached,      \* keys that have a file
          disabled,    \* calls of a service that no provider is configured for
          sent,        \* history: queries sent since the last Tick
          metrics

vars == <<call, queue, permits, thread, attempt, query, delay,
          nextAllowed, cached, disabled, sent, metrics>>

Counter == {"requests", "successes", "failures", "terminal_failures", "retries", "cache_hits"}

Init ==
    /\ call = [c \in Caller |-> "idle"]
    /\ queue = <<>>
    /\ permits = MaxConcurrency
    /\ thread = [c \in Caller |-> "none"]
    /\ attempt = [c \in Caller |-> 0]
    /\ query = [c \in Caller |-> 0]
    /\ delay = [c \in Caller |-> 0]
    /\ nextAllowed = 0
    /\ cached \in {{}, {KeyOf[c] : c \in Caller}}
    /\ disabled \in {{}, Search}
    /\ sent = 0
    /\ metrics = [k \in Counter |-> 0]

Add(k) == metrics' = [metrics EXCEPT ![k] = @ + 1]

Add2(k, l) == metrics' = [metrics EXCEPT ![k] = @ + 1, ![l] = @ + 1]

-----------------------------------------------------------------------------
(* The event loop.                                                         *)

\* search, read_webpage: the cache is looked up before the semaphore is taken.
Hit(c) ==
    /\ call[c] = "idle"
    /\ KeyOf[c] \in cached
    /\ call' = [call EXCEPT ![c] = "answered"]
    /\ Add("cache_hits")
    /\ UNCHANGED <<queue, permits, thread, attempt, query, delay, nextAllowed, cached, disabled, sent>>

\* An empty query, an address that is refused or has no host, a file of the
\* cache that cannot be read: the call raises and is counted nowhere.
Reject(c) ==
    /\ call[c] = "idle"
    /\ call' = [call EXCEPT ![c] = "rejected"]
    /\ UNCHANGED <<queue, permits, thread, attempt, query, delay, nextAllowed, cached, disabled, sent, metrics>>

Miss(c) ==
    /\ call[c] = "idle"
    /\ KeyOf[c] \notin cached
    /\ call' = [call EXCEPT ![c] = "queued"]
    /\ queue' = Append(queue, c)
    /\ UNCHANGED <<permits, thread, attempt, query, delay, nextAllowed, cached, disabled, sent, metrics>>

\* async with self.semaphore: await asyncio.to_thread(...)
Acquire ==
    /\ queue # <<>>
    /\ permits > 0
    /\ permits' = permits - 1
    /\ call' = [call EXCEPT ![Head(queue)] = "fetching"]
    /\ thread' = [thread EXCEPT ![Head(queue)] = "starting"]
    /\ queue' = Tail(queue)
    /\ UNCHANGED <<attempt, query, delay, nextAllowed, cached, disabled, sent, metrics>>

Ended == {"returned", "raised", "refused"}

\* The thread has ended: the semaphore is released and the result is cached; if
\* its file cannot be written the call raises, with an answer that was counted.
Finish(c) ==
    /\ call[c] = "fetching"
    /\ thread[c] \in Ended
    /\ \E end \in CASE thread[c] = "returned" -> {"answered", "unsaved"}
                   [] thread[c] = "raised"   -> {"failed"}
                   [] thread[c] = "refused"  -> {"rejected"} :
        /\ call' = [call EXCEPT ![c] = end]
        /\ cached' = IF end = "answered" THEN cached \cup {KeyOf[c]} ELSE cached
    /\ permits' = permits + 1
    /\ thread' = [thread EXCEPT ![c] = "none"]
    /\ UNCHANGED <<queue, attempt, query, delay, nextAllowed, disabled, sent, metrics>>

Leave(c) == \E i \in DOMAIN queue : queue[i] = c /\ queue' = RemoveAt(queue, i)

\* Mutant: the permit stays with the thread, and with nobody once that ends.
CancelWithPermit(c) ==
    /\ \/ call[c] = "queued" /\ Leave(c)
       \/ call[c] = "fetching" /\ UNCHANGED queue
    /\ call' = [call EXCEPT ![c] = "cancelled"]
    /\ UNCHANGED <<permits, thread, attempt, query, delay, nextAllowed, cached, disabled, sent, metrics>>

\* The rollout times out or its sibling raises: the caller leaves the queue or
\* the semaphore; its thread cannot be reached.
Cancel(c) ==
    /\ \/ call[c] = "queued" /\ Leave(c) /\ UNCHANGED permits
       \/ call[c] = "fetching" /\ permits' = permits + 1 /\ UNCHANGED queue
    /\ call' = [call EXCEPT ![c] = "cancelled"]
    /\ UNCHANGED <<thread, attempt, query, delay, nextAllowed, cached, disabled, sent, metrics>>

-----------------------------------------------------------------------------
(* Worker threads: _search_with_retries, _read_page_with_retries.          *)

\* Mutant: the slot is looked up but not taken.
ReserveNothing(c) ==
    /\ delay' = [delay EXCEPT ![c] = nextAllowed]
    /\ UNCHANGED nextAllowed

\* RateLimiter.wait, under its lock
Reserve(c) ==
    /\ delay' = [delay EXCEPT ![c] = nextAllowed]
    /\ nextAllowed' = nextAllowed + 1

\* The provider is "disabled": no attempt is made, and none is counted.
Refuse(c) ==
    /\ thread[c] = "starting" /\ c \in disabled
    /\ thread' = [thread EXCEPT ![c] = "refused"]
    /\ UNCHANGED <<call, queue, permits, attempt, query, delay, nextAllowed, cached, disabled, sent, metrics>>

Begin(c) ==
    /\ thread[c] = "starting" /\ c \notin disabled
    /\ thread' = [thread EXCEPT ![c] = "limited"]
    /\ query' = [query EXCEPT ![c] = 0]
    /\ Reserve(c)
    /\ Add("requests")
    /\ UNCHANGED <<call, queue, permits, attempt, cached, disabled, sent>>

Send(c) ==
    /\ thread[c] = "limited" /\ delay[c] = 0
    /\ thread' = [thread EXCEPT ![c] = "sending"]
    /\ sent' = sent + 1
    /\ UNCHANGED <<call, queue, permits, attempt, query, delay, nextAllowed, cached, disabled, metrics>>

\* A long query is followed by queries derived from it until one has results,
\* without another turn at the limiter.
SendCandidate(c) ==
    /\ thread[c] = "sending"
    /\ c \in LongQuery /\ query[c] < Candidates
    /\ query' = [query EXCEPT ![c] = @ + 1]
    /\ sent' = sent + 1
    /\ UNCHANGED <<call, queue, permits, thread, attempt, delay, nextAllowed, cached, disabled, metrics>>

\* Titles may be looked up at Crossref first; a lookup that fails is dropped.
Succeed(c) ==
    /\ thread[c] = "sending"
    /\ c \in LongQuery => query[c] > 0
    /\ thread' = [thread EXCEPT ![c] = "returned"]
    /\ Add("successes")
    /\ UNCHANGED <<call, queue, permits, attempt, query, delay, nextAllowed, cached, disabled, sent>>

\* min(8, 2 ** attempt)
Backoff(n) == IF n < 3 THEN <<1, 2, 4>>[n + 1] ELSE 8

\* Mutant: the last failure is not told from the ones before.
FailOnce(c) ==
    /\ thread[c] = "sending"
    /\ IF attempt[c] < MaxRetries
       THEN /\ thread' = [thread EXCEPT ![c] = "backoff"]
            /\ delay' = [delay EXCEPT ![c] = Backoff(attempt[c])]
       ELSE /\ thread' = [thread EXCEPT ![c] = "raised"]
            /\ UNCHANGED delay
    /\ Add2("failures", "retries")
    /\ UNCHANGED <<call, queue, permits, attempt, query, nextAllowed, cached, disabled, sent>>

Fail(c) ==
    /\ thread[c] = "sending"
    /\ IF attempt[c] < MaxRetries
       THEN /\ thread' = [thread EXCEPT ![c] = "backoff"]
            /\ delay' = [delay EXCEPT ![c] = Backoff(attempt[c])]
            /\ Add2("failures", "retries")
       ELSE /\ thread' = [thread EXCEPT ![c] = "raised"]
            /\ Add2("failures", "terminal_failures")
            /\ UNCHANGED delay
    /\ UNCHANGED <<call, queue, permits, attempt, query, nextAllowed, cached, disabled, sent>>

Retry(c) ==
    /\ thread[c] = "backoff" /\ delay[c] = 0
    /\ thread' = [thread EXCEPT ![c] = "starting"]
    /\ attempt' = [attempt EXCEPT ![c] = @ + 1]
    /\ UNCHANGED <<call, queue, permits, query, delay, nextAllowed, cached, disabled, sent, metrics>>

\* What the thread of a cancelled call returns reaches nobody.
Discard(c) ==
    /\ call[c] = "cancelled"
    /\ thread[c] \in Ended
    /\ thread' = [thread EXCEPT ![c] = "none"]
    /\ UNCHANGED <<call, queue, permits, attempt, query, delay, nextAllowed, cached, disabled, sent, metrics>>

Asleep(c) == thread[c] \in {"limited", "backoff"}

Tick ==
    /\ \A c \in Caller : Asleep(c) => delay[c] > 0
    /\ delay' = [c \in Caller |-> IF Asleep(c) THEN delay[c] - 1 ELSE delay[c]]
    /\ nextAllowed' = IF nextAllowed > 0 THEN nextAllowed - 1 ELSE 0
    /\ sent' = 0
    /\ UNCHANGED <<call, queue, permits, thread, attempt, query, cached, disabled, metrics>>

Loop(c) == Hit(c) \/ Reject(c) \/ Miss(c) \/ Finish(c)

Work(c) ==
    \/ Refuse(c) \/ Begin(c) \/ Send(c) \/ SendCandidate(c)
    \/ Succeed(c) \/ Fail(c) \/ Retry(c) \/ Discard(c)

Next ==
    \/ \E c \in Caller : Loop(c) \/ Work(c) \/ Cancel(c)
    \/ Acquire
    \/ Tick

Spec == Init /\ [][Next]_vars

\* The loop serves every call, urlopen has a timeout, and time passes.
FairSpec ==
    /\ Spec
    /\ \A c \in Caller : WF_vars(Loop(c)) /\ WF_vars(Work(c))
    /\ WF_vars(Acquire) /\ WF_vars(Tick)
-----------------------------------------------------------------------------
\* How a call ends; an "unsaved" one raises with an answer it has got.
Over == {"answered", "unsaved", "failed", "rejected", "cancelled"}

CallState   == {"idle", "queued", "fetching"} \cup Over
ThreadState == {"none", "starting", "limited", "sending", "backoff"} \cup Ended

TypeOK ==
    /\ call \in [Caller -> CallState]
    /\ queue \in Seq(Caller)
    /\ permits \in Nat
    /\ thread \in [Caller -> ThreadState]
    /\ attempt \in [Caller -> 0 .. MaxRetries]
    /\ query \in [Caller -> 0 .. Candidates]
    /\ delay \in [Caller -> Nat]
    /\ nextAllowed \in Nat
    /\ cached \subseteq {KeyOf[c] : c \in Caller}
    /\ disabled \subseteq Search
    /\ sent \in Nat
    /\ metrics \in [Counter -> Nat]

In(state) == {c \in Caller : call[c] = state}

\* Threads at work, and those of them that a caller still waits for.
Running == {c \in Caller : thread[c] \notin {"none"} \cup Ended}

\* The semaphore bounds the calls that wait for a thread, whoever is cancelled
\* and when; only threads of cancelled calls run beyond it (deepdive.py:205).
ConcurrencyBound ==
    /\ permits + Cardinality(In("fetching")) = MaxConcurrency
    /\ Cardinality(Running \ In("cancelled")) <= MaxConcurrency
    /\ ToSet(queue) = In("queued") /\ IsInjective(queue)

\* No two attempts get the same place at the rate limiter, and none waits longer
\* than for the attempts before it (deepdive.py:80-87).
PlacesDiffer ==
    \A c, d \in Caller :
        thread[c] = "limited" =>
            /\ delay[c] < nextAllowed \/ delay[c] = 0
            /\ thread[d] = "limited" /\ delay[c] = delay[d] => c = d

\* What the service counters say, up to the two additions of one failure that
\* are one step here (deepdive.py:186-277; a round and its audit read them): each
\* attempt is a success, a failure or under way, and each failure was retried or
\* was the last of its call; whoever was answered, by the service or by the
\* cache, was counted, and so was whoever failed at its last attempt. They do not
\* count every call that raises: one rejected before its first attempt is counted
\* nowhere, and one whose answer could not be stored as a success.
CountersAddUp ==
    /\ metrics["requests"] =
        metrics["successes"] + metrics["failures"]
            + Cardinality({c \in Caller : thread[c] \in {"limited", "sending"}})
    /\ metrics["failures"] = metrics["retries"] + metrics["terminal_failures"]
    /\ metrics["terminal_failures"] >= Cardinality(In("failed"))
    /\ metrics["successes"] + metrics["cache_hits"] >= Cardinality(In("answered") \cup In("unsaved"))
    /\ metrics["retries"] <= Cardinality(Caller) * MaxRetries

\* Every call comes to an end: retries run out, permits come back.
CallsEnd == \A c \in Caller : <>(call[c] \in Over)

\* "Search uses DuckDuckGo HTML, QPS=1" (the reproduction task plan, line 660):
\* one query per interval.
OneQueryPerInterval == sent <= 1
=============================================================================

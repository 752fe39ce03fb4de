------------------------------ MODULE AIQueue ------------------------------
(* The inference queue of the AI engine: src/ai-engine/queue_manager.py,    *)
(* worker.py and the endpoints of main.py that enqueue a job and wait.      *)
(*                                                                          *)
(* The API and the worker are two processes that meet in Redis: three lists *)
(* by priority, a result and a status of every job, a cache of answers by   *)
(* prompt.  Every Redis command is a step of its own.                       *)
EXTENDS Integers, Sequences

CONSTANTS
  Job,         \* requests that reach _enqueue_and_resolve
  Worker,      \* tasks of the worker process
  Prompt,
  PromptOf,    \* job -> prompt
  PriorityOf,  \* job -> priority of its context
  Waits        \* jobs asked for with wait=True

Priorities == {"high", "medium", "low"}

ASSUME JobsExist == Job # {}
ASSUME JobsHavePrompts == PromptOf \in [Job -> Prompt]
ASSUME JobsHavePriorities == PriorityOf \in [Job -> Priorities]
ASSUME WaitingJobs == Waits \subseteq Job

VARIABLES
  queue,    \* priority -> list of jobs
  status,   \* ai_job_status:<job>
  result,   \* ai_result:<job>
  answers,  \* prompts with a live entry in the cache
  client,   \* job -> where its request is
  worker,   \* worker -> [phase, job]
  fate      \* job -> what became of it (observed, not stored)

aiVars == <<queue, status, result, answers, client, worker, fate>>

ClientPhases ==
  {"new", "pushing", "pushed", "polling", "answered", "fallback", "timeout", "gone"}

AITypeOK ==
  /\ queue \in [Priorities -> Seq(Job)]
  /\ status \in [Job -> {"none", "queued", "done", "error"}]
  /\ result \in [Job -> {"none", "done", "error"}]
  /\ answers \subseteq Prompt
  /\ client \in [Job -> ClientPhases]
  /\ worker \in [Worker -> [phase : {"idle", "asking", "stored", "failing", "failed"},
                            job : Job]]
  /\ fate \in [Job -> {"unqueued", "open", "settled", "lost"}]

AIInit ==
  /\ queue = [p \in Priorities |-> << >>]
  /\ status = [j \in Job |-> "none"]
  /\ result = [j \in Job |-> "none"]
  /\ answers = {}
  /\ client = [j \in Job |-> "new"]
  /\ worker \in [Worker -> [phase : {"idle"}, job : {CHOOSE j \in Job : TRUE}]]
  /\ fate = [j \in Job |-> "unqueued"]

-----------------------------------------------------------------------------

Client(j, phase) == client' = [client EXCEPT ![j] = phase]

\* _enqueue_and_resolve asks the cache first, and answers from it.
AnswerFromCache(j) ==
  /\ client[j] = "new"
  /\ PromptOf[j] \in answers
  /\ Client(j, "answered")
  /\ UNCHANGED <<queue, status, result, answers, worker, fate>>

MissCache(j) ==
  /\ client[j] = "new"
  /\ PromptOf[j] \notin answers
  /\ Client(j, "pushing")
  /\ UNCHANGED <<queue, status, result, answers, worker, fate>>

\* enqueue: RPUSH, and only then SETEX of the status, which may overwrite
\* what a fast worker has written.
Push(j) ==
  /\ client[j] = "pushing"
  /\ queue' = [queue EXCEPT ![PriorityOf[j]] = Append(@, j)]
  /\ Client(j, "pushed")
  /\ fate' = [fate EXCEPT ![j] = "open"]
  /\ UNCHANGED <<status, result, answers, worker>>

SetQueued(j) ==
  /\ client[j] = "pushed"
  /\ status' = [status EXCEPT ![j] = "queued"]
  /\ Client(j, IF j \in Waits THEN "polling" ELSE "answered")
  /\ UNCHANGED <<queue, result, answers, worker, fate>>

\* The poll every 0.3 s: an error is answered with a fallback text.
Poll(j) ==
  /\ client[j] = "polling"
  /\ result[j] # "none"
  /\ Client(j, IF result[j] = "done" THEN "answered" ELSE "fallback")
  /\ UNCHANGED <<queue, status, result, answers, worker, fate>>

\* 90 s have passed: the request ends with a placeholder, the job goes on.
StopPolling(j) ==
  /\ client[j] = "polling"
  /\ Client(j, "timeout")
  /\ UNCHANGED <<queue, status, result, answers, worker, fate>>

\* Redis fails, or the API process ends, in the middle of a request.
RequestDies(j) ==
  /\ client[j] \in {"pushing", "pushed", "polling"}
  /\ Client(j, "gone")
  /\ UNCHANGED <<queue, status, result, answers, worker, fate>>

\* w works on j.
Holds(w, j) == worker[w].phase # "idle" /\ worker[w].job = j

\* As if the call named two lists.
TwoLists(p) ==
  /\ queue[p] # << >>
  /\ p # "low"
  /\ p = "medium" => queue["high"] = << >>

\* BLPOP serves the first list that is not empty: high, medium, low.
First(p) ==
  /\ queue[p] # << >>
  /\ p \in {"medium", "low"} => queue["high"] = << >>
  /\ p = "low" => queue["medium"] = << >>

\* As if the job were read and left in the list until it is done.
Peeked(q) == q

Popped(q) == Tail(q)

Works(w, phase) == worker' = [worker EXCEPT ![w].phase = phase]

Dequeue(w) ==
  /\ worker[w].phase = "idle"
  /\ \E p \in Priorities :
       /\ First(p)
       /\ worker' = [worker EXCEPT ![w] = [phase |-> "asking", job |-> Head(queue[p])]]
       /\ queue' = [queue EXCEPT ![p] = Popped(@)]
  /\ UNCHANGED <<status, result, answers, client, fate>>

\* As if set_result wrote the status first.
StatusFirst(w) ==
  /\ worker[w].phase = "asking"
  /\ answers' = answers \cup {PromptOf[worker[w].job]}
  /\ status' = [status EXCEPT ![worker[w].job] = "done"]
  /\ Works(w, "stored")
  /\ UNCHANGED <<queue, result, client, fate>>

\* The text comes from the cache or from the model, which may also answer
\* nothing (not cached); set_result begins with the result.
StoreResult(w) ==
  /\ worker[w].phase = "asking"
  /\ \E text \in BOOLEAN :
       answers' = IF text THEN answers \cup {PromptOf[worker[w].job]} ELSE answers
  /\ result' = [result EXCEPT ![worker[w].job] = "done"]
  /\ fate' = [fate EXCEPT ![worker[w].job] = "settled"]
  /\ Works(w, "stored")
  /\ UNCHANGED <<queue, status, client>>

\* ... and ends with the status.
StoreStatus(w) ==
  /\ worker[w].phase = "stored"
  /\ status' = [status EXCEPT ![worker[w].job] = "done"]
  /\ Works(w, "idle")
  /\ UNCHANGED <<queue, result, answers, client, fate>>

\* Ollama or Redis raises, before the result or between result and status:
\* process_job answers with set_error, over a result that may be there.
Raise(w) ==
  /\ worker[w].phase \in {"asking", "stored"}
  /\ Works(w, "failing")
  /\ UNCHANGED <<queue, status, result, answers, client, fate>>

StoreError(w) ==
  /\ worker[w].phase = "failing"
  /\ result' = [result EXCEPT ![worker[w].job] = "error"]
  /\ fate' = [fate EXCEPT ![worker[w].job] = "settled"]
  /\ Works(w, "failed")
  /\ UNCHANGED <<queue, status, answers, client>>

StoreErrorStatus(w) ==
  /\ worker[w].phase = "failed"
  /\ status' = [status EXCEPT ![worker[w].job] = "error"]
  /\ Works(w, "idle")
  /\ UNCHANGED <<queue, result, answers, client, fate>>

\* The jobs of these workers are gone if they never got a result.
Without(W) ==
  [j \in Job |-> IF fate[j] = "open" /\ \E w \in W : Holds(w, j)
                   THEN "lost" ELSE fate[j]]

\* Redis fails in set_error too: worker_loop logs it and takes the next job.
GiveUp(w) ==
  /\ worker[w].phase \in {"failing", "failed"}
  /\ fate' = Without({w})
  /\ Works(w, "idle")
  /\ UNCHANGED <<queue, status, result, answers, client>>

\* The worker process ends and starts again: BLPOP has taken the jobs of its
\* tasks out of Redis.
RestartWorkers ==
  /\ \E w \in Worker : worker[w].phase # "idle"
  /\ fate' = Without(Worker)
  /\ worker' = [w \in Worker |-> [worker[w] EXCEPT !.phase = "idle"]]
  /\ UNCHANGED <<queue, status, result, answers, client>>

\* Result and status are set one after the other with one time to live; the
\* status of a job in the queue outlives both (3600 s).
ExpireResult(j) ==
  /\ result[j] # "none"
  /\ \A w \in Worker : ~Holds(w, j)
  /\ client[j] \notin {"pushed", "polling"}
  /\ result' = [result EXCEPT ![j] = "none"]
  /\ status' = [status EXCEPT ![j] = IF @ = "queued" THEN @ ELSE "none"]
  /\ UNCHANGED <<queue, answers, client, worker, fate>>

ExpireAnswer(p) ==
  /\ p \in answers
  /\ answers' = answers \ {p}
  /\ UNCHANGED <<queue, status, result, client, worker, fate>>

WorkerSteps(w) ==
  Dequeue(w) \/ StoreResult(w) \/ StoreStatus(w) \/ Raise(w) \/ StoreError(w)
  \/ StoreErrorStatus(w) \/ GiveUp(w)

AINext ==
  \/ \E j \in Job :
       \/ AnswerFromCache(j) \/ MissCache(j) \/ Push(j) \/ SetQueued(j) \/ Poll(j)
       \/ StopPolling(j) \/ RequestDies(j) \/ ExpireResult(j)
  \/ \E w \in Worker : WorkerSteps(w)
  \/ \E p \in Prompt : ExpireAnswer(p)
  \/ RestartWorkers

AISpec == AIInit /\ [][AINext]_aiVars
-----------------------------------------------------------------------------

InQueue(j) == \E p \in Priorities : \E i \in DOMAIN queue[p] : queue[p][i] = j

(* A job that was queued and has neither a result nor been given up with    *)
(* its worker is in exactly one place: once in the list of its priority, or *)
(* in the hands of one worker.  None is answered twice, none evaporates     *)
(* between BLPOP, set_result and set_error.                                 *)
JobInOnePlace ==
  \A j \in Job :
    /\ fate[j] = "open" => InQueue(j) \/ \E w \in Worker : Holds(w, j)
    /\ InQueue(j) => fate[j] = "open" /\ result[j] = "none" /\ \A w \in Worker : ~Holds(w, j)
    /\ \A v, w \in Worker : Holds(v, j) /\ Holds(w, j) => v = w
    /\ \A p \in Priorities : \A i, k \in DOMAIN queue[p] :
         queue[p][i] = j /\ queue[p][k] = j => i = k

(* GET /result/{job_id} looks at the status first and says 404 when it is   *)
(* final and the result is missing: that never happens to a job that is     *)
(* done, whatever order enqueue, a worker, a failure and the expiry take.   *)
FinalIsFetchable == \A j \in Job : status[j] \in {"done", "error"} => result[j] # "none"

(* A job is kept until its result can be fetched (worker_loop, set_result). *)
JobsAreKept == JobInOnePlace /\ FinalIsFetchable

(* Every job that was queued gets a result or goes down with its worker:    *)
(* the poll of _enqueue_and_resolve does not wait for nothing.              *)
JobsSettle == \A j \in Job : fate[j] = "open" ~> fate[j] # "open"

\* Each task of the worker loops for ever; that a model call neither answers
\* nor fails within its 90 s is excluded.
AIFairness == \A w \in Worker : WF_aiVars(WorkerSteps(w))
=============================================================================

--------------------------- MODULE ServicesProofs ---------------------------
(***************************************************************************)
(* Theorems of the services around the stream and the board: the jobs of    *)
(* the models (AIQueue), paid days (Premium), the two producers of the      *)
(* stream (Telegram, VkPolls), the windowed jobs of the bot's scheduler     *)
(* (Windows), and three parts that count, the watchdog's errors (Watch), an *)
(* address's requests (Limits) and the days of a payment (Finance); for     *)
(* every value of their constants.                                          *)
(***************************************************************************)
EXTENDS AIQueue, Premium, Telegram, VkPolls, Windows, Watch, Limits, Finance, FiniteSetTheorems,
        TLAPS

-----------------------------------------------------------------------------
(* Jobs of the models (AIQueue).                                            *)
(*                                                                          *)
(* JobInOnePlace and FinalIsFetchable need each other and three more        *)
(* facts: a job that was never pushed has left no trace (Untouched), a      *)
(* job waits in the list of its priority only (HomeQueue), so that taking   *)
(* it from there takes it from everywhere, and what a worker has stored     *)
(* matches where it is in its work (WorkersWork).                           *)

Untouched ==
  \A j \in Job :
    /\ client[j] \in {"new", "pushing"} => fate[j] = "unqueued"
    /\ fate[j] = "unqueued" => result[j] = "none" /\ \A w \in Worker : ~Holds(w, j)

HomeQueue == \A p \in Priorities : \A i \in DOMAIN queue[p] : PriorityOf[queue[p][i]] = p

\* What is in the tables when w works on j.
Tidy(w, j) ==
  /\ fate[j] \in {"open", "settled"}
  /\ worker[w].phase = "asking" => fate[j] = "open"
  /\ worker[w].phase \in {"stored", "failed"} => fate[j] = "settled" /\ result[j] # "none"

WorkersWork == \A w \in Worker : worker[w].phase # "idle" => Tidy(w, worker[w].job)

AIInv == /\ AITypeOK /\ JobInOnePlace /\ FinalIsFetchable
         /\ Untouched /\ HomeQueue /\ WorkersWork

WorkerPhases == {"idle", "asking", "stored", "failing", "failed"}

-----------------------------------------------------------------------------
(* What the actions do to the lists and to the workers.                     *)

\* The fields of a worker, and its job.
LEMMA WorkerFields ==
  ASSUME AITypeOK, NEW w \in Worker
  PROVE  worker[w].phase \in WorkerPhases /\ worker[w].job \in Job
BY DEF AITypeOK, WorkerPhases

\* A worker that moves on keeps its job, and the others are as they were.
LEMMA WorksEffect ==
  ASSUME AITypeOK, NEW w \in Worker, NEW p \in WorkerPhases, Works(w, p)
  PROVE  /\ worker' \in [Worker -> [phase : WorkerPhases, job : Job]]
         /\ worker'[w].phase = p /\ worker'[w].job = worker[w].job
         /\ \A v \in Worker \ {w} : worker'[v] = worker[v]
<1> DEFINE Loops == [phase : WorkerPhases, job : Job]
           moved == [worker[w] EXCEPT !.phase = p]
<1>1. worker \in [Worker -> Loops]
  BY DEF AITypeOK, WorkerPhases
<1>2. moved \in Loops /\ moved.phase = p /\ moved.job = worker[w].job
  BY <1>1
<1>3. worker' = [worker EXCEPT ![w] = moved]
  BY DEF Works
<1> HIDE DEF Loops, moved
<1>4. worker' \in [Worker -> Loops] /\ worker'[w] = moved
      /\ \A v \in Worker \ {w} : worker'[v] = worker[v]
  BY <1>1, <1>2, <1>3
<1> QED BY <1>2, <1>4 DEF Loops

\* Append adds one index at the end.
LEMMA AppendedList ==
  ASSUME NEW s \in Seq(Job), NEW j \in Job
  PROVE  /\ Append(s, j) \in Seq(Job)
         /\ \A i \in DOMAIN Append(s, j) :
              \/ i = Len(s) + 1 /\ Append(s, j)[i] = j
              \/ i \in DOMAIN s /\ Append(s, j)[i] = s[i]
         /\ Len(s) + 1 \in DOMAIN Append(s, j) /\ Append(s, j)[Len(s) + 1] = j
         /\ \A i \in DOMAIN s : i \in DOMAIN Append(s, j) /\ Append(s, j)[i] = s[i]
OBVIOUS

\* Tail moves every index but the first down by one.
LEMMA TailOfList ==
  ASSUME NEW s \in Seq(Job), s # << >>
  PROVE  /\ Tail(s) \in Seq(Job) /\ Head(s) \in Job
         /\ 1 \in DOMAIN s /\ s[1] = Head(s)
         /\ \A i \in DOMAIN Tail(s) : i + 1 \in DOMAIN s /\ Tail(s)[i] = s[i + 1] /\ i + 1 # 1 /\ i \in Int
         /\ \A i \in DOMAIN s : i = 1 \/ (i - 1 \in DOMAIN Tail(s) /\ Tail(s)[i - 1] = s[i])
OBVIOUS

\* The state stays well formed.
LEMMA AITypeStep ==
  ASSUME AITypeOK, [AINext]_aiVars
  PROVE  AITypeOK'
<1>1. CASE \E j \in Job : Push(j)
  <2> PICK j \in Job : Push(j)
    BY <1>1
  <2>1. PriorityOf[j] \in Priorities
    BY JobsHavePriorities
  <2>2. Append(queue[PriorityOf[j]], j) \in Seq(Job)
    BY <2>1, AppendedList DEF AITypeOK
  <2>3. queue' \in [Priorities -> Seq(Job)]
    BY <2>1, <2>2 DEF Push, AITypeOK
  <2> QED BY <2>3 DEF Push, Client, AITypeOK, ClientPhases
<1>2. CASE \E w \in Worker : Dequeue(w)
  <2> PICK w \in Worker, p \in Priorities :
        /\ First(p)
        /\ worker' = [worker EXCEPT ![w] = [phase |-> "asking", job |-> Head(queue[p])]]
        /\ queue' = [queue EXCEPT ![p] = Popped(@)]
        /\ UNCHANGED <<status, result, answers, client, fate>>
    BY <1>2 DEF Dequeue
  <2>1. Head(queue[p]) \in Job /\ Tail(queue[p]) \in Seq(Job)
    BY TailOfList DEF First, AITypeOK
  <2>2. queue' \in [Priorities -> Seq(Job)]
    BY <2>1 DEF AITypeOK, Popped
  <2>3. worker' \in [Worker -> [phase : WorkerPhases, job : Job]]
    BY <2>1 DEF AITypeOK, WorkerPhases
  <2> QED BY <2>2, <2>3 DEF AITypeOK, WorkerPhases
<1>3. CASE \E w \in Worker : \/ StoreResult(w) \/ StoreStatus(w) \/ Raise(w) \/ StoreError(w)
                             \/ StoreErrorStatus(w) \/ GiveUp(w)
  <2> PICK w \in Worker : \/ StoreResult(w) \/ StoreStatus(w) \/ Raise(w) \/ StoreError(w)
                          \/ StoreErrorStatus(w) \/ GiveUp(w)
    BY <1>3
  <2>1. \E p \in WorkerPhases : Works(w, p)
    BY DEF StoreResult, StoreStatus, Raise, StoreError, StoreErrorStatus, GiveUp, WorkerPhases
  <2>2. worker' \in [Worker -> [phase : WorkerPhases, job : Job]]
    BY <2>1, WorksEffect
  <2>3. worker[w].job \in Job /\ PromptOf[worker[w].job] \in Prompt
    BY WorkerFields, JobsHavePrompts
  <2>4. status' \in [Job -> {"none", "queued", "done", "error"}]
    BY <2>3 DEF StoreResult, StoreStatus, Raise, StoreError, StoreErrorStatus, GiveUp, AITypeOK
  <2>5. result' \in [Job -> {"none", "done", "error"}]
    BY <2>3 DEF StoreResult, StoreStatus, Raise, StoreError, StoreErrorStatus, GiveUp, AITypeOK
  <2>6. fate' \in [Job -> {"unqueued", "open", "settled", "lost"}]
    BY <2>3 DEF StoreResult, StoreStatus, Raise, StoreError, StoreErrorStatus, GiveUp, Without,
                AITypeOK
  <2>7. answers' \subseteq Prompt
    BY <2>3 DEF StoreResult, StoreStatus, Raise, StoreError, StoreErrorStatus, GiveUp, AITypeOK
  <2>8. UNCHANGED <<queue, client>>
    BY DEF StoreResult, StoreStatus, Raise, StoreError, StoreErrorStatus, GiveUp
  <2> QED BY <2>2, <2>4, <2>5, <2>6, <2>7, <2>8 DEF AITypeOK, WorkerPhases
<1>4. CASE RestartWorkers
  <2>0. \A r \in [phase : WorkerPhases, job : Job] :
          [r EXCEPT !.phase = "idle"] \in [phase : WorkerPhases, job : Job]
    BY DEF WorkerPhases
  <2>1. worker' \in [Worker -> [phase : WorkerPhases, job : Job]]
    BY <1>4, <2>0 DEF RestartWorkers, AITypeOK, WorkerPhases
  <2>2. fate' \in [Job -> {"unqueued", "open", "settled", "lost"}]
    BY <1>4 DEF RestartWorkers, Without, AITypeOK
  <2> QED BY <1>4, <2>1, <2>2 DEF RestartWorkers, AITypeOK, WorkerPhases
<1>5. CASE \E j \in Job : ExpireResult(j)
  BY <1>5 DEF ExpireResult, AITypeOK
<1>6. CASE \E p \in Prompt : ExpireAnswer(p)
  BY <1>6 DEF ExpireAnswer, AITypeOK
<1>7. CASE \E j \in Job : \/ AnswerFromCache(j) \/ MissCache(j) \/ SetQueued(j) \/ Poll(j)
                          \/ StopPolling(j) \/ RequestDies(j)
  <2> PICK j \in Job : \/ AnswerFromCache(j) \/ MissCache(j) \/ SetQueued(j) \/ Poll(j)
                       \/ StopPolling(j) \/ RequestDies(j)
    BY <1>7
  <2>1. \E c \in ClientPhases : Client(j, c)
    BY DEF AnswerFromCache, MissCache, SetQueued, Poll, StopPolling, RequestDies, ClientPhases
  <2>2. client' \in [Job -> ClientPhases]
    BY <2>1 DEF Client, AITypeOK
  <2>3. status' \in [Job -> {"none", "queued", "done", "error"}]
    BY DEF AnswerFromCache, MissCache, SetQueued, Poll, StopPolling, RequestDies, AITypeOK
  <2>4. UNCHANGED <<queue, result, answers, worker, fate>>
    BY DEF AnswerFromCache, MissCache, SetQueued, Poll, StopPolling, RequestDies
  <2> QED BY <2>2, <2>3, <2>4 DEF AITypeOK
<1>8. CASE UNCHANGED aiVars
  BY <1>8 DEF aiVars, AITypeOK
<1> QED BY <1>1, <1>2, <1>3, <1>4, <1>5, <1>6, <1>7, <1>8 DEF AINext, WorkerSteps

-----------------------------------------------------------------------------
(* Where a job is, and what is stored of it.                                *)

\* A step of a client, or of the caches of answers, after which nobody is
\* newer and no status final that was not.
LEMMA ClientStep ==
  ASSUME AIInv, AITypeOK', UNCHANGED <<queue, result, worker, fate>>,
         \A j \in Job :
           /\ client'[j] \in {"new", "pushing"} => client[j] \in {"new", "pushing"}
           /\ status'[j] \in {"done", "error"} => status[j] \in {"done", "error"}
  PROVE  AIInv'
<1>1. JobInOnePlace'
  BY DEF AIInv, JobInOnePlace, InQueue, Holds
<1>2. FinalIsFetchable'
  BY DEF AIInv, FinalIsFetchable
<1>3. Untouched'
  BY DEF AIInv, Untouched, Holds
<1>4. HomeQueue' /\ WorkersWork'
  BY DEF AIInv, HomeQueue, WorkersWork, Tidy
<1> QED BY <1>1, <1>2, <1>3, <1>4 DEF AIInv

\* A job is pushed once: it was nowhere before.
LEMMA PushStep ==
  ASSUME AIInv, AITypeOK', NEW j \in Job, Push(j)
  PROVE  AIInv'
<1> DEFINE p0 == PriorityOf[j]
           s == queue[p0]
<1>1. /\ fate[j] = "unqueued" /\ result[j] = "none" /\ \A w \in Worker : ~Holds(w, j)
      /\ ~InQueue(j)
  BY DEF AIInv, Untouched, Push, JobInOnePlace
<1>2. /\ p0 \in Priorities /\ s \in Seq(Job)
      /\ queue'[p0] = Append(s, j) /\ \A p \in Priorities \ {p0} : queue'[p] = queue[p]
      /\ fate'[j] = "open" /\ \A i \in Job \ {j} : fate'[i] = fate[i]
      /\ client'[j] = "pushed" /\ \A i \in Job \ {j} : client'[i] = client[i]
      /\ UNCHANGED <<status, result, answers, worker>>
  BY DEF AIInv, AITypeOK, Push, Client
<1> HIDE DEF p0, s
<1>3. InQueue(j)' /\ \A i \in Job \ {j} : InQueue(i)' <=> InQueue(i)
  <2>1. /\ Len(s) + 1 \in DOMAIN queue'[p0] /\ queue'[p0][Len(s) + 1] = j
        /\ \A i \in DOMAIN queue'[p0] :
             \/ i = Len(s) + 1 /\ queue'[p0][i] = j
             \/ i \in DOMAIN s /\ queue'[p0][i] = s[i]
        /\ \A i \in DOMAIN s : i \in DOMAIN queue'[p0] /\ queue'[p0][i] = s[i]
    BY <1>2, AppendedList
  <2>2. InQueue(j)'
    BY <1>2, <2>1 DEF InQueue
  <2>3. ASSUME NEW i \in Job \ {j}, InQueue(i)
        PROVE  InQueue(i)'
    <3> PICK p \in Priorities : \E k \in DOMAIN queue[p] : queue[p][k] = i
      BY <2>3 DEF InQueue
    <3> PICK k \in DOMAIN queue[p] : queue[p][k] = i
      OBVIOUS
    <3>1. k \in DOMAIN queue'[p] /\ queue'[p][k] = i
      BY <1>2, <2>1 DEF s
    <3> QED BY <3>1 DEF InQueue
  <2>4. ASSUME NEW i \in Job \ {j}, InQueue(i)'
        PROVE  InQueue(i)
    <3> PICK p \in Priorities : \E k \in DOMAIN queue'[p] : queue'[p][k] = i
      BY <2>4 DEF InQueue
    <3> PICK k \in DOMAIN queue'[p] : queue'[p][k] = i
      OBVIOUS
    <3>1. k \in DOMAIN queue[p] /\ queue[p][k] = i
      BY <1>2, <2>1 DEF s
    <3> QED BY <3>1 DEF InQueue
  <2> QED BY <2>2, <2>3, <2>4
<1>4. JobInOnePlace'
  <2>1. \A i \in Job : /\ fate'[i] = "open" => InQueue(i)' \/ \E w \in Worker : Holds(w, i)'
                       /\ InQueue(i)' => fate'[i] = "open" /\ result'[i] = "none"
                                          /\ \A w \in Worker : ~Holds(w, i)'
                       /\ \A v, w \in Worker : Holds(v, i)' /\ Holds(w, i)' => v = w
    BY <1>1, <1>2, <1>3 DEF AIInv, JobInOnePlace, Holds
  <2>2. ASSUME NEW i \in Job, NEW p \in Priorities,
               NEW m \in DOMAIN queue'[p], NEW k \in DOMAIN queue'[p],
               queue'[p][m] = i, queue'[p][k] = i
        PROVE  m = k
    <3>1. CASE p = p0
      <4>1. /\ (m = Len(s) + 1 /\ i = j) \/ (m \in DOMAIN s /\ s[m] = i)
            /\ (k = Len(s) + 1 /\ i = j) \/ (k \in DOMAIN s /\ s[k] = i)
        BY <1>2, <2>2, <3>1, AppendedList
      <4>2. i = j => ~(m \in DOMAIN s /\ s[m] = i) /\ ~(k \in DOMAIN s /\ s[k] = i)
        BY <1>1, <1>2 DEF InQueue, s
      <4>3. m \in DOMAIN s /\ s[m] = i /\ k \in DOMAIN s /\ s[k] = i => m = k
        BY <1>2 DEF AIInv, JobInOnePlace, s
      <4> QED BY <4>1, <4>2, <4>3
    <3>2. CASE p # p0
      BY <1>2, <2>2, <3>2 DEF AIInv, JobInOnePlace
    <3> QED BY <3>1, <3>2
  <2> QED BY <2>1, <2>2 DEF JobInOnePlace
<1>5. HomeQueue'
  <2> SUFFICES ASSUME NEW p \in Priorities, NEW i \in DOMAIN queue'[p]
               PROVE  PriorityOf[queue'[p][i]] = p
    BY DEF HomeQueue
  <2>1. CASE p = p0
    <3>1. queue'[p][i] = j \/ (i \in DOMAIN s /\ queue'[p][i] = s[i])
      BY <1>2, <2>1, AppendedList
    <3> QED BY <1>2, <2>1, <3>1 DEF AIInv, HomeQueue, s, p0
  <2>2. CASE p # p0
    BY <1>2, <2>2 DEF AIInv, HomeQueue
  <2> QED BY <2>1, <2>2
<1>6. FinalIsFetchable'
  BY <1>2 DEF AIInv, FinalIsFetchable
<1>7. Untouched'
  BY <1>2 DEF AIInv, Untouched, Holds
<1>8. WorkersWork'
  BY <1>1, <1>2 DEF AIInv, WorkersWork, Tidy, Holds, AITypeOK
<1> QED BY <1>4, <1>5, <1>6, <1>7, <1>8 DEF AIInv

\* A worker that takes the head of a list takes it from everywhere.
LEMMA DequeueStep ==
  ASSUME AIInv, AITypeOK', NEW w \in Worker, Dequeue(w)
  PROVE  AIInv'
<1> PICK p0 \in Priorities :
      /\ queue[p0] # << >>
      /\ worker' = [worker EXCEPT ![w] = [phase |-> "asking", job |-> Head(queue[p0])]]
      /\ queue' = [queue EXCEPT ![p0] = Tail(@)]
  BY DEF Dequeue, First, Popped
<1>a. queue[p0] \in Seq(Job) /\ queue[p0] # << >>
  BY DEF AIInv, AITypeOK
<1> PICK s \in Seq(Job) : s = queue[p0] /\ s # << >>
  BY <1>a
<1> PICK j \in Job : j = Head(s)
  BY TailOfList
<1>1. 1 \in DOMAIN s /\ s[1] = j
  BY TailOfList
<1>2. /\ queue'[p0] = Tail(s) /\ \A p \in Priorities \ {p0} : queue'[p] = queue[p]
      /\ worker'[w] = [phase |-> "asking", job |-> j]
      /\ \A v \in Worker \ {w} : worker'[v] = worker[v]
      /\ worker[w].phase = "idle"
      /\ UNCHANGED <<status, result, answers, client, fate>>
  BY DEF AIInv, AITypeOK, Dequeue
<1>3. InQueue(j)
  BY <1>1 DEF InQueue
<1>4. fate[j] = "open" /\ result[j] = "none" /\ \A v \in Worker : ~Holds(v, j)
  BY <1>1, <1>3 DEF AIInv, JobInOnePlace
<1>5. /\ \A i \in DOMAIN Tail(s) : i + 1 \in DOMAIN s /\ Tail(s)[i] = s[i + 1] /\ i + 1 # 1 /\ i \in Int
      /\ \A i \in DOMAIN s : i = 1 \/ (i - 1 \in DOMAIN Tail(s) /\ Tail(s)[i - 1] = s[i])
  BY TailOfList
<1>6. \A i \in DOMAIN s : s[i] = j => i = 1
  BY <1>1 DEF AIInv, JobInOnePlace
<1>7. \A p \in Priorities : \A i \in DOMAIN queue[p] : queue[p][i] = j => p = p0
  BY <1>1 DEF AIInv, HomeQueue
<1>8. ~InQueue(j)'
  <2> SUFFICES ASSUME NEW p \in Priorities, NEW i \in DOMAIN queue'[p], queue'[p][i] = j
               PROVE  FALSE
    BY DEF InQueue
  <2>1. p = p0
    BY <1>2, <1>7
  <2>2. i \in DOMAIN Tail(s) /\ Tail(s)[i] = j
    BY <1>2, <2>1
  <2>3. i + 1 \in DOMAIN s /\ s[i + 1] = j /\ i + 1 # 1
    BY <1>5, <2>2
  <2> QED BY <1>6, <2>3
<1>9. \A i \in Job \ {j} : InQueue(i)' <=> InQueue(i)
  <2> SUFFICES ASSUME NEW i \in Job \ {j}
               PROVE  InQueue(i)' <=> InQueue(i)
    OBVIOUS
  <2>1. InQueue(i) => InQueue(i)'
    <3> SUFFICES ASSUME NEW p \in Priorities, NEW k \in DOMAIN queue[p], queue[p][k] = i
                 PROVE  \E m \in DOMAIN queue'[p] : queue'[p][m] = i
      BY DEF InQueue
    <3>1. CASE p = p0
      <4>1. k # 1
        BY <1>1, <3>1
      <4>2. k - 1 \in DOMAIN Tail(s) /\ Tail(s)[k - 1] = i
        BY <1>5, <3>1, <4>1
      <4> QED BY <1>2, <3>1, <4>2
    <3>2. CASE p # p0
      BY <1>2, <3>2
    <3> QED BY <3>1, <3>2
  <2>2. InQueue(i)' => InQueue(i)
    <3> SUFFICES ASSUME NEW p \in Priorities, NEW k \in DOMAIN queue'[p], queue'[p][k] = i
                 PROVE  \E m \in DOMAIN queue[p] : queue[p][m] = i
      BY DEF InQueue
    <3>1. CASE p = p0
      BY <1>2, <1>5, <3>1
    <3>2. CASE p # p0
      BY <1>2, <3>2
    <3> QED BY <3>1, <3>2
  <2> QED BY <2>1, <2>2
<1>10. /\ Holds(w, j)' /\ \A i \in Job \ {j} : ~Holds(w, i)'
       /\ \A v \in Worker \ {w}, i \in Job : Holds(v, i)' <=> Holds(v, i)
       /\ \A i \in Job : ~Holds(w, i)
  BY <1>1, <1>2 DEF Holds
<1>11. JobInOnePlace'
  <2>1. \A i \in Job : /\ fate'[i] = "open" => InQueue(i)' \/ \E v \in Worker : Holds(v, i)'
                       /\ InQueue(i)' => fate'[i] = "open" /\ result'[i] = "none"
                                          /\ \A v \in Worker : ~Holds(v, i)'
    <3> SUFFICES ASSUME NEW i \in Job
                 PROVE  /\ fate'[i] = "open" => InQueue(i)' \/ \E v \in Worker : Holds(v, i)'
                        /\ InQueue(i)' => fate'[i] = "open" /\ result'[i] = "none"
                                           /\ \A v \in Worker : ~Holds(v, i)'
      OBVIOUS
    <3>1. CASE i = j
      BY <1>8, <1>10, <3>1
    <3>2. CASE i # j
      <4>1. fate'[i] = fate[i] /\ result'[i] = result[i]
        BY <1>2
      <4>2. \A v \in Worker : Holds(v, i)' <=> v # w /\ Holds(v, i)
        BY <1>10, <3>2
      <4>3. ~Holds(w, i) /\ (InQueue(i)' <=> InQueue(i))
        BY <1>9, <1>10, <3>2
      <4>4. /\ fate[i] = "open" => InQueue(i) \/ \E v \in Worker : Holds(v, i)
            /\ InQueue(i) => fate[i] = "open" /\ result[i] = "none"
                              /\ \A v \in Worker : ~Holds(v, i)
        BY DEF AIInv, JobInOnePlace
      <4> QED BY <4>1, <4>2, <4>3, <4>4
    <3> QED BY <3>1, <3>2
  <2>2. \A i \in Job : \A v, u \in Worker : Holds(v, i)' /\ Holds(u, i)' => v = u
    BY <1>4, <1>10 DEF AIInv, JobInOnePlace
  <2>3. ASSUME NEW i \in Job, NEW p \in Priorities,
               NEW m \in DOMAIN queue'[p], NEW k \in DOMAIN queue'[p],
               queue'[p][m] = i, queue'[p][k] = i
        PROVE  m = k
    <3>1. CASE p = p0
      <4>1. /\ m + 1 \in DOMAIN s /\ s[m + 1] = i /\ k + 1 \in DOMAIN s /\ s[k + 1] = i
            /\ m \in Int /\ k \in Int
        BY <1>2, <1>5, <2>3, <3>1
      <4>2. m + 1 = k + 1
        BY <4>1 DEF AIInv, JobInOnePlace
      <4> QED BY <4>1, <4>2
    <3>2. CASE p # p0
      BY <1>2, <2>3, <3>2 DEF AIInv, JobInOnePlace
    <3> QED BY <3>1, <3>2
  <2> QED BY <2>1, <2>2, <2>3 DEF JobInOnePlace
<1>12. HomeQueue'
  <2> SUFFICES ASSUME NEW p \in Priorities, NEW i \in DOMAIN queue'[p]
               PROVE  PriorityOf[queue'[p][i]] = p
    BY DEF HomeQueue
  <2>1. CASE p = p0
    BY <1>2, <1>5, <2>1 DEF AIInv, HomeQueue
  <2>2. CASE p # p0
    BY <1>2, <2>2 DEF AIInv, HomeQueue
  <2> QED BY <2>1, <2>2
<1>13. FinalIsFetchable'
  BY <1>2 DEF AIInv, FinalIsFetchable
<1>14. Untouched'
  BY <1>2, <1>4, <1>10 DEF AIInv, Untouched
<1>15. WorkersWork'
  BY <1>2, <1>4 DEF AIInv, WorkersWork, Tidy
<1> QED BY <1>11, <1>12, <1>13, <1>14, <1>15 DEF AIInv

\* A step of a worker on its job, the lists and the clients left alone.
LEMMA WorkStep ==
  ASSUME AIInv, AITypeOK', NEW w \in Worker, NEW j \in Job, j = worker[w].job,
         worker[w].phase # "idle", worker'[w].job = j, UNCHANGED <<queue, client>>,
         \A v \in Worker \ {w} : worker'[v] = worker[v],
         \A i \in Job \ {j} : /\ result'[i] = result[i] /\ status'[i] = status[i]
                             /\ fate'[i] = fate[i],
         fate'[j] # "unqueued",
         fate'[j] = "open" => worker'[w].phase # "idle",
         status'[j] \in {"done", "error"} => result'[j] # "none",
         worker'[w].phase # "idle" => Tidy(w, j)'
  PROVE  AIInv'
<1>1. /\ Holds(w, j) /\ ~InQueue(j) /\ \A v \in Worker \ {w} : ~Holds(v, j)
      /\ fate[j] # "unqueued" /\ client[j] \notin {"new", "pushing"}
  BY DEF AIInv, Holds, JobInOnePlace, Untouched
<1>2. /\ \A i \in Job : InQueue(i)' <=> InQueue(i)
      /\ \A i \in Job, v \in Worker \ {w} : Holds(v, i)' <=> Holds(v, i)
      /\ \A i \in Job : Holds(w, i)' => i = j
      /\ \A i \in Job \ {j} : ~Holds(w, i)
      /\ Holds(w, j)' <=> worker'[w].phase # "idle"
  BY DEF InQueue, Holds
<1>3. JobInOnePlace'
  <2>1. \A i \in Job : /\ fate'[i] = "open" => InQueue(i)' \/ \E v \in Worker : Holds(v, i)'
                       /\ InQueue(i)' => fate'[i] = "open" /\ result'[i] = "none"
                                          /\ \A v \in Worker : ~Holds(v, i)'
    <3> SUFFICES ASSUME NEW i \in Job
                 PROVE  /\ fate'[i] = "open" => InQueue(i)' \/ \E v \in Worker : Holds(v, i)'
                        /\ InQueue(i)' => fate'[i] = "open" /\ result'[i] = "none"
                                           /\ \A v \in Worker : ~Holds(v, i)'
      OBVIOUS
    <3>1. CASE i = j
      BY <1>1, <1>2, <3>1
    <3>2. CASE i # j
      BY <1>2, <3>2 DEF AIInv, JobInOnePlace
    <3> QED BY <3>1, <3>2
  <2>2. \A i \in Job : \A v, u \in Worker : Holds(v, i)' /\ Holds(u, i)' => v = u
    BY <1>1, <1>2 DEF AIInv, JobInOnePlace
  <2> QED BY <2>1, <2>2 DEF AIInv, JobInOnePlace
<1>4. FinalIsFetchable'
  BY DEF AIInv, FinalIsFetchable
<1>5. Untouched'
  BY <1>1, <1>2 DEF AIInv, Untouched
<1>6. HomeQueue'
  BY DEF AIInv, HomeQueue
<1>7. WorkersWork'
  <2> SUFFICES ASSUME NEW v \in Worker, worker'[v].phase # "idle"
               PROVE  Tidy(v, worker[v].job)'
    BY DEF WorkersWork
  <2>1. CASE v = w
    BY <2>1
  <2>2. CASE v # w
    <3>1. worker[v].job \in Job \ {j} /\ worker'[v] = worker[v]
      BY <1>1, <2>2, WorkerFields DEF AIInv, Holds
    <3> QED BY <3>1 DEF AIInv, WorkersWork, Tidy
  <2> QED BY <2>1, <2>2
<1> QED BY <1>3, <1>4, <1>5, <1>6, <1>7 DEF AIInv

\* Each step of a worker after the first leaves the tables as WorkStep asks.
LEMMA WorkerStep ==
  ASSUME AIInv, AITypeOK', NEW w \in Worker,
         \/ StoreResult(w) \/ StoreStatus(w) \/ Raise(w) \/ StoreError(w)
         \/ StoreErrorStatus(w) \/ GiveUp(w)
  PROVE  AIInv'
<1> PICK j \in Job : j = worker[w].job
  BY WorkerFields DEF AIInv
<1>1. worker[w].phase # "idle" /\ UNCHANGED <<queue, client>>
  BY DEF StoreResult, StoreStatus, Raise, StoreError, StoreErrorStatus, GiveUp
<1>2. Tidy(w, j) /\ Holds(w, j) /\ \A v \in Worker \ {w} : ~Holds(v, j)
  BY <1>1 DEF AIInv, WorkersWork, Holds, JobInOnePlace
<1>3. \A i \in Job \ {j} : ~Holds(w, i)
  BY DEF Holds
<1>4. \A p \in WorkerPhases : Works(w, p) =>
        /\ worker'[w].phase = p /\ worker'[w].job = j
        /\ \A v \in Worker \ {w} : worker'[v] = worker[v]
  BY WorksEffect DEF AIInv
<1>5. CASE StoreResult(w)
  <2>1. /\ worker'[w].phase = "stored" /\ worker'[w].job = j
        /\ \A v \in Worker \ {w} : worker'[v] = worker[v]
    BY <1>4, <1>5 DEF StoreResult, WorkerPhases
  <2>2. /\ result'[j] = "done" /\ fate'[j] = "settled" /\ status' = status
        /\ \A i \in Job \ {j} : result'[i] = result[i] /\ fate'[i] = fate[i]
    BY <1>5 DEF StoreResult, AIInv, AITypeOK
  <2> QED BY <1>1, <2>1, <2>2, WorkStep DEF Tidy
<1>6. CASE StoreError(w)
  <2>1. /\ worker'[w].phase = "failed" /\ worker'[w].job = j
        /\ \A v \in Worker \ {w} : worker'[v] = worker[v]
    BY <1>4, <1>6 DEF StoreError, WorkerPhases
  <2>2. /\ result'[j] = "error" /\ fate'[j] = "settled" /\ status' = status
        /\ \A i \in Job \ {j} : result'[i] = result[i] /\ fate'[i] = fate[i]
    BY <1>6 DEF StoreError, AIInv, AITypeOK
  <2> QED BY <1>1, <2>1, <2>2, WorkStep DEF Tidy
<1>7. CASE StoreStatus(w) \/ StoreErrorStatus(w)
  <2>1. /\ worker'[w].phase = "idle" /\ worker'[w].job = j
        /\ \A v \in Worker \ {w} : worker'[v] = worker[v]
    BY <1>4, <1>7 DEF StoreStatus, StoreErrorStatus, WorkerPhases
  <2>2. result[j] # "none" /\ fate[j] = "settled"
    BY <1>2, <1>7 DEF StoreStatus, StoreErrorStatus, Tidy
  <2>3. /\ UNCHANGED <<result, fate>>
        /\ \A i \in Job \ {j} : status'[i] = status[i]
    BY <1>7 DEF StoreStatus, StoreErrorStatus, AIInv, AITypeOK
  <2> QED BY <1>1, <2>1, <2>2, <2>3, WorkStep
<1>8. CASE Raise(w)
  <2>1. /\ worker'[w].phase = "failing" /\ worker'[w].job = j
        /\ \A v \in Worker \ {w} : worker'[v] = worker[v]
    BY <1>4, <1>8 DEF Raise, WorkerPhases
  <2>2. UNCHANGED <<result, fate, status>> /\ fate[j] \in {"open", "settled"}
    BY <1>2, <1>8 DEF Raise, Tidy
  <2>3. status[j] \in {"done", "error"} => result[j] # "none"
    BY DEF AIInv, FinalIsFetchable
  <2> QED BY <1>1, <2>1, <2>2, <2>3, WorkStep DEF Tidy
<1>9. CASE GiveUp(w)
  <2>1. /\ worker'[w].phase = "idle" /\ worker'[w].job = j
        /\ \A v \in Worker \ {w} : worker'[v] = worker[v]
    BY <1>4, <1>9 DEF GiveUp, WorkerPhases
  <2>2. /\ UNCHANGED <<result, status>> /\ fate'[j] \notin {"open", "unqueued"}
        /\ \A i \in Job \ {j} : fate'[i] = fate[i]
    BY <1>2, <1>3, <1>9 DEF GiveUp, Without, Tidy
  <2>3. status[j] \in {"done", "error"} => result[j] # "none"
    BY DEF AIInv, FinalIsFetchable
  <2> QED BY <1>1, <2>1, <2>2, <2>3, WorkStep
<1> QED BY <1>5, <1>6, <1>7, <1>8, <1>9

\* A restart idles the workers and takes what they held with them.
LEMMA RestartStep ==
  ASSUME AIInv, AITypeOK', RestartWorkers
  PROVE  AIInv'
<1>1. \A w \in Worker : worker'[w].phase = "idle"
  BY DEF RestartWorkers, AIInv, AITypeOK
<1>2. /\ UNCHANGED <<queue, status, result, client>>
      /\ \A j \in Job : fate'[j] = IF fate[j] = "open" /\ \E w \in Worker : Holds(w, j)
                                    THEN "lost" ELSE fate[j]
  BY DEF RestartWorkers, Without
<1>3. \A j \in Job : (InQueue(j)' <=> InQueue(j)) /\ \A w \in Worker : ~Holds(w, j)'
  BY <1>1, <1>2 DEF InQueue, Holds
<1>4. JobInOnePlace'
  <2>1. \A p \in Priorities, j \in Job : \A i, k \in DOMAIN queue'[p] :
          queue'[p][i] = j /\ queue'[p][k] = j => i = k
    BY <1>2 DEF AIInv, JobInOnePlace
  <2>2. \A j \in Job : /\ fate'[j] = "open" => InQueue(j)'
                       /\ InQueue(j)' => fate'[j] = "open" /\ result'[j] = "none"
    BY <1>2, <1>3 DEF AIInv, JobInOnePlace
  <2> QED BY <1>3, <2>1, <2>2 DEF JobInOnePlace
<1>5. FinalIsFetchable' /\ HomeQueue'
  BY <1>2 DEF AIInv, FinalIsFetchable, HomeQueue
<1>6. Untouched'
  BY <1>2, <1>3 DEF AIInv, Untouched
<1> QED BY <1>1, <1>4, <1>5, <1>6 DEF AIInv, WorkersWork

\* What expires is the result of a job that nobody has in hand.
LEMMA ExpireStep ==
  ASSUME AIInv, AITypeOK', NEW j \in Job, ExpireResult(j)
  PROVE  AIInv'
<1>1. /\ UNCHANGED <<queue, client, worker, fate>>
      /\ result'[j] = "none" /\ status'[j] \in {"queued", "none"}
      /\ \A i \in Job \ {j} : result'[i] = result[i] /\ status'[i] = status[i]
      /\ \A w \in Worker : ~Holds(w, j)
  BY DEF ExpireResult, AIInv, AITypeOK
<1>2. JobInOnePlace'
  BY <1>1 DEF AIInv, JobInOnePlace, InQueue, Holds
<1>3. FinalIsFetchable'
  BY <1>1 DEF AIInv, FinalIsFetchable
<1>4. Untouched' /\ HomeQueue'
  BY <1>1 DEF AIInv, Untouched, HomeQueue, Holds
<1>5. WorkersWork'
  <2> SUFFICES ASSUME NEW v \in Worker, worker[v].phase # "idle"
               PROVE  Tidy(v, worker[v].job)'
    BY <1>1 DEF WorkersWork
  <2>1. worker[v].job \in Job \ {j}
    BY <1>1, WorkerFields DEF AIInv, Holds
  <2> QED BY <1>1, <2>1 DEF AIInv, WorkersWork, Tidy
<1> QED BY <1>2, <1>3, <1>4, <1>5 DEF AIInv

\* The invariant is inductive.
LEMMA AIStep ==
  ASSUME AIInv, [AINext]_aiVars
  PROVE  AIInv'
<1>1. AITypeOK'
  BY AITypeStep DEF AIInv
<1>2. CASE \E j \in Job : Push(j)
  BY <1>1, <1>2, PushStep
<1>3. CASE \E w \in Worker : Dequeue(w)
  BY <1>1, <1>3, DequeueStep
<1>4. CASE \E w \in Worker : \/ StoreResult(w) \/ StoreStatus(w) \/ Raise(w) \/ StoreError(w)
                             \/ StoreErrorStatus(w) \/ GiveUp(w)
  BY <1>1, <1>4, WorkerStep
<1>5. CASE RestartWorkers
  BY <1>1, <1>5, RestartStep
<1>6. CASE \E j \in Job : ExpireResult(j)
  BY <1>1, <1>6, ExpireStep
<1>7. CASE \E j \in Job : \/ AnswerFromCache(j) \/ MissCache(j) \/ SetQueued(j) \/ Poll(j)
                          \/ StopPolling(j) \/ RequestDies(j)
  <2> PICK j \in Job : \/ AnswerFromCache(j) \/ MissCache(j) \/ SetQueued(j) \/ Poll(j)
                       \/ StopPolling(j) \/ RequestDies(j)
    BY <1>7
  <2>1. \E c \in ClientPhases \ {"new"} :
          Client(j, c) /\ (c = "pushing" => client[j] = "new")
    BY DEF AnswerFromCache, MissCache, SetQueued, Poll, StopPolling, RequestDies, ClientPhases
  <2>2. \A i \in Job : client'[i] \in {"new", "pushing"} => client[i] \in {"new", "pushing"}
    BY <2>1 DEF Client, AIInv, AITypeOK
  <2>3. \A i \in Job : status'[i] \in {"done", "error"} => status[i] \in {"done", "error"}
    BY DEF AnswerFromCache, MissCache, SetQueued, Poll, StopPolling, RequestDies, AIInv, AITypeOK
  <2>4. UNCHANGED <<queue, result, worker, fate>>
    BY DEF AnswerFromCache, MissCache, SetQueued, Poll, StopPolling, RequestDies
  <2> QED BY <1>1, <2>2, <2>3, <2>4, ClientStep
<1>8. CASE (\E p \in Prompt : ExpireAnswer(p)) \/ UNCHANGED aiVars
  <2>1. UNCHANGED <<queue, result, worker, fate, client, status>>
    BY <1>8 DEF ExpireAnswer, aiVars
  <2> QED BY <1>1, <2>1, ClientStep
<1> QED BY <1>2, <1>3, <1>4, <1>5, <1>6, <1>7, <1>8 DEF AINext, WorkerSteps

\* No job has reached the queue at the start.
LEMMA AIStart ==
  ASSUME AIInit
  PROVE  AIInv
<1>1. AITypeOK
  <2>1. (CHOOSE j \in Job : TRUE) \in Job
    BY JobsExist
  <2>2. << >> \in Seq(Job)
    OBVIOUS
  <2>3. worker \in [Worker -> [phase : WorkerPhases, job : Job]]
    BY <2>1 DEF AIInit, WorkerPhases
  <2> QED BY <2>2, <2>3 DEF AIInit, AITypeOK, ClientPhases, WorkerPhases
<1>2. /\ \A w \in Worker : worker[w].phase = "idle"
      /\ \A p \in Priorities : queue[p] = << >>
  BY DEF AIInit
<1>3. \A p \in Priorities : DOMAIN queue[p] = {}
  BY <1>2
<1>4. \A j \in Job : ~InQueue(j) /\ \A w \in Worker : ~Holds(w, j)
  BY <1>2, <1>3 DEF InQueue, Holds
<1>5. JobInOnePlace
  BY <1>3, <1>4, Zenon DEF AIInit, JobInOnePlace
<1>6. HomeQueue /\ WorkersWork
  BY <1>2, <1>3 DEF HomeQueue, WorkersWork
<1> QED BY <1>1, <1>4, <1>5, <1>6 DEF AIInit, AIInv, FinalIsFetchable, Untouched

(* Lists, results, requests and workers are always well formed.             *)
THEOREM AITypeCorrect == AISpec => []AITypeOK
<1>1. AIInit => AITypeOK
  BY AIStart DEF AIInv
<1> QED BY <1>1, AITypeStep, PTL DEF AISpec

(* A job that was queued is in exactly one place until it has a result or   *)
(* is lost with its worker.                                                 *)
THEOREM OnePlace == AISpec => []JobInOnePlace
<1>1. AIInv => JobInOnePlace
  BY DEF AIInv
<1> QED BY <1>1, AIStart, AIStep, PTL DEF AISpec

(* A final status always comes with a result to fetch.                      *)
THEOREM FinalHasResult == AISpec => []FinalIsFetchable
<1>1. AIInv => FinalIsFetchable
  BY DEF AIInv
<1> QED BY <1>1, AIStart, AIStep, PTL DEF AISpec

(* A job is in one place until its result can be fetched.                   *)
THEOREM JobsKept == AISpec => []JobsAreKept
BY OnePlace, FinalHasResult, PTL DEF JobsAreKept

-----------------------------------------------------------------------------
(* Premium.                                                                 *)
(*                                                                          *)
(* RewardOnce rests on the lock: two payments of one user are never both    *)
(* past their flush (OneHolder), so that what a decided one found, an       *)
(* invitation without a reward, still holds at its commit (GrantIsOpen).    *)
(* NoDayForFree and DaysLostOnlyToOverlap are about dates that handlers     *)
(* carry in memory: the strengthening bounds them from above by what the    *)
(* tables will say at the commit (Covered), and from below by what they     *)
(* say now, unless another commit has made the copy old (Added).            *)

Locked(m) == pay[m].phase \in {"flushed", "decided"}
Grants(m) == pay[m].phase = "decided" /\ pay[m].grant

OneHolder ==
  \A m, n \in Report : Locked(m) /\ Locked(n) /\ Payer(m) = Payer(n) => m = n

GrantIsDecided ==
  \A m \in Report : pay[m].grant => pay[m].phase \in {"decided", "done", "failed", "dropped"}

RewardIsDone == \A m \in rewards : pay[m].phase = "done"

GrantIsOpen ==
  \A m \in Report : Grants(m) => Payer(m) \notin rewarded /\ Inviter(m) \in User

NobodyInvitesSelf == \A u \in User : inviter[u] # u

LockInv == /\ PremiumTypeOK /\ OneHolder /\ GrantIsDecided /\ RewardIsDone
           /\ GrantIsOpen /\ NobodyInvitesSelf /\ RewardOnce

\* What a payment in flight will have written in the tables at its commit.
Bonus(m) == IF Grants(m) THEN InvitedDays ELSE 0

Covered ==
  \A m \in InFlight :
    /\ pay[m].mine <= today + granted[Payer(m)] + PlanDays + Bonus(m)
    /\ Grants(m) => pay[m].theirs <= today + granted[Inviter(m)] + RewardDays

Added ==
  \A m \in InFlight \ late :
    /\ pay[m].mine >= until[Payer(m)] + PlanDays
    /\ Grants(m) => pay[m].theirs >= until[Inviter(m)] + RewardDays

DaysInv == LockInv /\ Covered /\ Added /\ NoDayForFree

-----------------------------------------------------------------------------
(* What the actions do to the handlers.                                     *)

\* The fields of a record are those it was built with.
LEMMA Fields ==
  ASSUME PremiumTypeOK, NEW m \in Report
  PROVE  /\ pay[m] \in Handling /\ pay[m].phase \in Phases /\ pay[m].mine \in Nat
         /\ pay[m].grant \in BOOLEAN /\ pay[m].theirs \in Nat
         /\ Payer(m) \in User /\ until[Payer(m)] \in Nat /\ granted[Payer(m)] \in Nat
BY PayersAreUsers DEF PremiumTypeOK, Handling, Payer

\* A handler that moves on keeps its dates, and the others are as they were.
LEMMA MovesEffect ==
  ASSUME PremiumTypeOK, NEW m \in Report, NEW p \in Phases, Moves(m, p)
  PROVE  /\ pay' \in [Report -> Handling]
         /\ pay'[m].phase = p /\ pay'[m].mine = pay[m].mine
         /\ pay'[m].grant = pay[m].grant /\ pay'[m].theirs = pay[m].theirs
         /\ \A n \in Report \ {m} : pay'[n] = pay[n]
BY DEF PremiumTypeOK, Handling, Moves

\* An extension is a day, at least as late as the old date and today.
LEMMA ExtendedDate ==
  ASSUME today \in Nat, NEW date \in Nat, NEW days \in Nat
  PROVE  /\ Extended(date, days) \in Nat
         /\ Extended(date, days) >= date + days
         /\ \A most \in Nat : date <= today + most => Extended(date, days) <= today + most + days
BY DEF Extended

\* ReadPayer puts the extended date into the handler.
LEMMA ReadEffect ==
  ASSUME PremiumTypeOK, NEW m \in Report, ReadPayer(m)
  PROVE  /\ pay' \in [Report -> Handling]
         /\ pay'[m].phase = "read" /\ pay'[m].mine = Extended(until[Payer(m)], PlanDays)
         /\ pay'[m].grant = pay[m].grant /\ pay'[m].theirs = pay[m].theirs
         /\ \A n \in Report \ {m} : pay'[n] = pay[n]
<1>1. today \in Nat
  BY DEF PremiumTypeOK
<1>2. Extended(until[Payer(m)], PlanDays) \in Nat
  BY PlanIsPositive, <1>1, Fields, ExtendedDate
<1> DEFINE date == Extended(until[Payer(m)], PlanDays)
<1>3. pay' = [pay EXCEPT ![m].phase = "read", ![m].mine = date]
  BY DEF ReadPayer
<1> HIDE DEF date
<1>4. date \in Nat
  BY <1>2 DEF date
<1> QED BY <1>3, <1>4 DEF PremiumTypeOK, Handling, Phases, date

\* A handler whose four fields are written is the record of the four.
LEMMA RecordWritten ==
  ASSUME pay \in [Report -> Handling], NEW m \in Report, NEW x \in Nat, NEW y \in Nat,
         pay' = [pay EXCEPT ![m].phase = "decided", ![m].grant = TRUE, ![m].theirs = x,
                            ![m].mine = y]
  PROVE  /\ pay' \in [Report -> Handling]
         /\ pay'[m].phase = "decided" /\ pay'[m].grant = TRUE
         /\ pay'[m].theirs = x /\ pay'[m].mine = y
         /\ \A n \in Report \ {m} : pay'[n] = pay[n]
<1>1. /\ pay'[m] = [phase |-> "decided", mine |-> y, grant |-> TRUE, theirs |-> x]
      /\ \A n \in Report \ {m} : pay'[n] = pay[n]
      /\ DOMAIN pay' = Report
  BY DEF Handling
<1>2. pay' = [n \in Report |-> pay'[n]]
  OBVIOUS
<1>3. [phase |-> "decided", mine |-> y, grant |-> TRUE, theirs |-> x] \in Handling
  BY DEF Handling, Phases
<1>4. \A n \in Report : pay'[n] \in Handling
  BY <1>1, <1>3
<1> QED BY <1>1, <1>2, <1>4

\* DecideReward, when a reward is due, and when it is not.
LEMMA DecideEffect ==
  ASSUME PremiumTypeOK, NEW m \in Report, DecideReward(m)
  PROVE  /\ pay' \in [Report -> Handling]
         /\ pay'[m].phase = "decided"
         /\ \A n \in Report \ {m} : pay'[n] = pay[n]
         /\ \/ /\ Inviter(m) # Nobody /\ Payer(m) \notin rewarded
               /\ pay'[m].grant = TRUE
               /\ pay'[m].theirs = Extended(until[Inviter(m)], RewardDays)
               /\ pay'[m].mine = IF InvitedDays > 0 THEN Extended(pay[m].mine, InvitedDays)
                                                    ELSE pay[m].mine
            \/ /\ pay'[m].grant = pay[m].grant /\ pay'[m].theirs = pay[m].theirs
               /\ pay'[m].mine = pay[m].mine
<1>1. CASE Inviter(m) # Nobody /\ Payer(m) \notin rewarded
  <2> DEFINE theirs == Extended(until[Inviter(m)], RewardDays)
             mine == IF InvitedDays > 0 THEN Extended(pay[m].mine, InvitedDays) ELSE pay[m].mine
  <2>1. Inviter(m) \in User
    BY <1>1, Fields DEF PremiumTypeOK, Inviter
  <2>2. /\ today \in Nat /\ until[Inviter(m)] \in Nat
        /\ RewardDays \in Nat /\ InvitedDays \in Nat
    BY <2>1, RewardsAreDays DEF PremiumTypeOK
  <2>a. theirs \in Nat
    BY <2>2, ExtendedDate
  <2>b. mine \in Nat
    BY <2>2, Fields, ExtendedDate
  <2>3. pay' = [pay EXCEPT ![m].phase = "decided", ![m].grant = TRUE, ![m].theirs = theirs,
                           ![m].mine = mine]
    BY <1>1 DEF DecideReward
  <2> HIDE DEF theirs, mine
  <2>4. /\ pay' \in [Report -> Handling]
        /\ pay'[m].phase = "decided" /\ pay'[m].grant = TRUE
        /\ pay'[m].theirs = theirs /\ pay'[m].mine = mine
        /\ \A n \in Report \ {m} : pay'[n] = pay[n]
    BY <2>a, <2>b, <2>3, RecordWritten, Zenon DEF PremiumTypeOK
  <2> QED BY <1>1, <2>4 DEF theirs, mine
<1>2. CASE ~(Inviter(m) # Nobody /\ Payer(m) \notin rewarded)
  <2>1. Moves(m, "decided")
    BY <1>2 DEF DecideReward
  <2> QED BY <2>1, MovesEffect DEF Phases
<1> QED BY <1>1, <1>2

\* A restart drops what is pending or in flight and changes nothing else.
LEMMA RestartEffect ==
  ASSUME PremiumTypeOK, RestartBot
  PROVE  /\ pay' \in [Report -> Handling]
         /\ \A n \in Report :
              /\ pay'[n].phase = IF n \in InFlight \/ pay[n].phase = "pending"
                                   THEN "dropped" ELSE pay[n].phase
              /\ pay'[n].mine = pay[n].mine
              /\ pay'[n].grant = pay[n].grant /\ pay'[n].theirs = pay[n].theirs
BY DEF PremiumTypeOK, Handling, Phases, RestartBot

\* The next state of the handlers is a state of handlers.
LEMMA PayType ==
  ASSUME PremiumTypeOK, [PremiumNext]_premiumVars
  PROVE  pay' \in [Report -> Handling]
<1>1. CASE \E m \in Report : ReadPayer(m)
  BY <1>1, ReadEffect
<1>2. CASE \E m \in Report : DecideReward(m)
  BY <1>2, DecideEffect
<1>3. CASE RestartBot
  BY <1>3, RestartEffect
<1>4. CASE \E m \in Report : Charge(m) \/ Flush(m) \/ CommitPayment(m) \/ BreakDeadlock(m) \/ FailRub(m)
  <2>1. \E m \in Report, p \in Phases : Moves(m, p)
    BY <1>4 DEF Charge, Flush, CommitPayment, BreakDeadlock, FailRub, Phases
  <2> QED BY <2>1, MovesEffect
<1>5. CASE Midnight \/ (\E u, v \in User : Attach(u, v)) \/ UNCHANGED premiumVars
  BY <1>5 DEF Midnight, Attach, premiumVars, PremiumTypeOK
<1> QED BY <1>1, <1>2, <1>3, <1>4, <1>5 DEF PremiumNext

-----------------------------------------------------------------------------
(* Who is rewarded, and how often.                                          *)

\* The state stays well formed.
LEMMA TypeStep ==
  ASSUME PremiumTypeOK, [PremiumNext]_premiumVars
  PROVE  PremiumTypeOK'
<1>1. pay' \in [Report -> Handling]
  BY PayType
<1>2. CASE \E m \in Report : CommitPayment(m)
  <2> PICK m \in Report : CommitPayment(m)
    BY <1>2
  <2>1. until' \in [User -> Nat]
    BY Fields DEF CommitPayment, NewUntil, PremiumTypeOK
  <2>2. \A u \in User :
          /\ granted[u] \in Nat
          /\ (IF u = Payer(m) THEN PlanDays + (IF pay[m].grant THEN InvitedDays ELSE 0) ELSE 0) \in Nat
          /\ (IF pay[m].grant /\ u = Inviter(m) THEN RewardDays ELSE 0) \in Nat
    BY PlanIsPositive, RewardsAreDays DEF PremiumTypeOK
  <2>3. granted' \in [User -> Nat]
    BY <2>2 DEF CommitPayment, NewGranted
  <2>4. /\ paid' \subseteq Report /\ rewards' \subseteq Report /\ rewarded' \subseteq User
        /\ late' \subseteq Report
    BY Fields DEF CommitPayment, PremiumTypeOK
  <2> QED BY <1>1, <2>1, <2>3, <2>4 DEF CommitPayment, PremiumTypeOK
<1>3. CASE \E u, v \in User : Attach(u, v)
  BY <1>1, <1>3 DEF Attach, PremiumTypeOK
<1>4. CASE Midnight
  BY LastDayIsDay, <1>1, <1>4 DEF Midnight, PremiumTypeOK
<1>5. CASE UNCHANGED <<today, until, inviter, rewarded, paid, rewards, granted, late>>
  BY <1>1, <1>5 DEF PremiumTypeOK
<1> QED
  BY <1>2, <1>3, <1>4, <1>5, Zenon DEF PremiumNext, premiumVars, Charge, ReadPayer, Flush,
     DecideReward, BreakDeadlock, FailRub, RestartBot

\* A step by which nobody takes a lock, decides a reward or leaves "done".
LEMMA QuietStep ==
  ASSUME LockInv, PremiumTypeOK', UNCHANGED <<inviter, rewarded, rewards>>,
         \A n \in Report :
           /\ Locked(n)' => Locked(n)
           /\ Grants(n)' => Grants(n)
           /\ pay'[n].grant => pay'[n].phase \in {"decided", "done", "failed", "dropped"}
           /\ pay[n].phase = "done" => pay'[n].phase = "done"
  PROVE  LockInv'
<1>1. OneHolder'
  BY DEF LockInv, OneHolder, Payer
<1>2. GrantIsDecided' /\ RewardIsDone' /\ NobodyInvitesSelf'
  BY DEF LockInv, GrantIsDecided, RewardIsDone, NobodyInvitesSelf, PremiumTypeOK
<1>3. GrantIsOpen'
  BY DEF LockInv, GrantIsOpen, Inviter, Payer
<1>4. RewardOnce'
  BY DEF LockInv, RewardOnce, Payer
<1> QED BY <1>1, <1>2, <1>3, <1>4 DEF LockInv

\* A payment that flushes found its payer's row free.
LEMMA FlushStep ==
  ASSUME LockInv, PremiumTypeOK', NEW m \in Report, Flush(m)
  PROVE  LockInv'
<1>1. /\ pay'[m].phase = "flushed" /\ pay'[m].grant = pay[m].grant
      /\ \A n \in Report \ {m} : pay'[n] = pay[n]
  BY MovesEffect DEF Flush, LockInv, Phases
<1>2. ~pay[m].grant
  BY DEF Flush, LockInv, GrantIsDecided
<1>3. \A n \in Report \ {m} : Locked(n) => Payer(n) # Payer(m)
  BY DEF Flush, RowFree, HoldsRow, Locked
<1>4. OneHolder'
  BY <1>1, <1>3 DEF LockInv, OneHolder, Locked, Payer
<1>5. GrantIsDecided'
  BY <1>1, <1>2 DEF LockInv, GrantIsDecided
<1>6. RewardIsDone'
  BY <1>1 DEF LockInv, RewardIsDone, PremiumTypeOK, Flush
<1>7. GrantIsOpen'
  BY <1>1, <1>2 DEF LockInv, GrantIsOpen, Grants, Flush, Inviter, Payer
<1> QED BY <1>4, <1>5, <1>6, <1>7 DEF LockInv, Flush, NobodyInvitesSelf, RewardOnce, Payer

\* A payment decides on a reward when the invitation has none.
LEMMA DecideStep ==
  ASSUME LockInv, PremiumTypeOK', NEW m \in Report, DecideReward(m)
  PROVE  LockInv'
<1>1. /\ pay[m].phase = "flushed" /\ pay'[m].phase = "decided"
      /\ \A n \in Report \ {m} : pay'[n] = pay[n]
      /\ pay'[m].grant => (Inviter(m) # Nobody /\ Payer(m) \notin rewarded) \/ pay[m].grant
      /\ UNCHANGED <<inviter, rewarded, rewards>>
  BY DecideEffect, Zenon DEF DecideReward, LockInv
<1>2. ~pay[m].grant
  BY <1>1 DEF LockInv, GrantIsDecided
<1>3. pay'[m].grant => Inviter(m) \in User /\ Payer(m) \notin rewarded
  BY <1>1, <1>2, Fields DEF Inviter, LockInv, PremiumTypeOK
<1>4. OneHolder'
  BY <1>1 DEF LockInv, OneHolder, Locked, Payer
<1>5. GrantIsDecided'
  BY <1>1 DEF LockInv, GrantIsDecided
<1>6. RewardIsDone'
  BY <1>1 DEF LockInv, RewardIsDone, PremiumTypeOK
<1>7. GrantIsOpen'
  BY <1>1, <1>3 DEF LockInv, GrantIsOpen, Grants, Inviter, Payer
<1> QED BY <1>1, <1>4, <1>5, <1>6, <1>7 DEF LockInv, NobodyInvitesSelf, RewardOnce, Payer

\* A new invitation is of a user who had none, so that no reward rests on it.
LEMMA AttachStep ==
  ASSUME LockInv, PremiumTypeOK', NEW u \in User, NEW v \in User, Attach(u, v)
  PROVE  LockInv'
<1>1. /\ UNCHANGED <<rewarded, rewards, pay>> /\ u # v /\ inviter[u] = Nobody
      /\ inviter' \in [User -> User \cup {Nobody}]
      /\ \A w \in User : inviter'[w] = IF w = u THEN v ELSE inviter[w]
  BY DEF Attach, LockInv, PremiumTypeOK
<1>2. NobodyInvitesSelf'
  BY <1>1 DEF LockInv, NobodyInvitesSelf
<1>3. GrantIsOpen'
  <2> SUFFICES ASSUME NEW n \in Report, Grants(n)'
               PROVE  Payer(n)' \notin rewarded' /\ Inviter(n)' \in User
    BY DEF GrantIsOpen
  <2>1. Grants(n) /\ Payer(n) \in User
    BY <1>1, Fields DEF Grants, LockInv
  <2> QED BY <1>1, <2>1 DEF LockInv, GrantIsOpen, Inviter, Payer
<1> QED BY <1>1, <1>2, <1>3
     DEF LockInv, OneHolder, Locked, GrantIsDecided, RewardIsDone, RewardOnce, Payer

\* A commit that rewards is the first of its payer, and the only one that
\* has decided so.
LEMMA CommitStep ==
  ASSUME LockInv, PremiumTypeOK', NEW m \in Report, CommitPayment(m)
  PROVE  LockInv'
<1>1. /\ pay[m].phase = "decided" /\ pay'[m].phase = "done" /\ pay'[m].grant = pay[m].grant
      /\ \A n \in Report \ {m} : pay'[n] = pay[n]
  BY MovesEffect DEF CommitPayment, LockInv, Phases
<1>2. /\ inviter' = inviter
      /\ rewarded' = IF pay[m].grant THEN rewarded \cup {Payer(m)} ELSE rewarded
      /\ rewards' = IF pay[m].grant THEN rewards \cup {m} ELSE rewards
  BY DEF CommitPayment
<1>3. OneHolder' /\ NobodyInvitesSelf'
  BY <1>1, <1>2 DEF LockInv, OneHolder, Locked, Payer, NobodyInvitesSelf
<1>4. GrantIsDecided'
  BY <1>1 DEF LockInv, GrantIsDecided
<1>5. RewardIsDone'
  BY <1>1, <1>2 DEF LockInv, RewardIsDone, PremiumTypeOK
<1>6. GrantIsOpen'
  <2> SUFFICES ASSUME NEW n \in Report, Grants(n)'
               PROVE  Payer(n)' \notin rewarded' /\ Inviter(n)' \in User
    BY DEF GrantIsOpen
  <2>1. n # m /\ Grants(n)
    BY <1>1 DEF Grants
  <2>2. Payer(n) # Payer(m)
    BY <1>1, <2>1 DEF LockInv, OneHolder, Locked, Grants
  <2> QED BY <1>2, <2>1, <2>2 DEF LockInv, GrantIsOpen, Inviter, Payer
<1>7. RewardOnce'
  <2>1. CASE pay[m].grant
    <3>1. Payer(m) \notin rewarded /\ Payer(m) \in User
      BY <1>1, <2>1, Fields DEF LockInv, GrantIsOpen, Grants
    <3>2. \A n \in rewards : Payer(n) # Payer(m)
      BY <3>1 DEF LockInv, RewardOnce
    <3>3. \A u \in User : (u \in rewarded <=> \E n \in rewards : Payer(n) = u)
      BY DEF LockInv, RewardOnce
    <3> QED BY <1>2, <2>1, <3>2, <3>3 DEF LockInv, RewardOnce, Payer
  <2>2. CASE ~pay[m].grant
    BY <1>2, <2>2 DEF LockInv, RewardOnce, Payer
  <2> QED BY <2>1, <2>2
<1> QED BY <1>3, <1>4, <1>5, <1>6, <1>7 DEF LockInv

\* The invariant of the lock is inductive.
LEMMA LockStep ==
  ASSUME LockInv, [PremiumNext]_premiumVars
  PROVE  LockInv'
<1>1. PremiumTypeOK'
  BY TypeStep DEF LockInv
<1>2. CASE \E m \in Report : Flush(m)
  BY <1>1, <1>2, FlushStep
<1>3. CASE \E m \in Report : DecideReward(m)
  BY <1>1, <1>3, DecideStep
<1>4. CASE \E m \in Report : CommitPayment(m)
  BY <1>1, <1>4, CommitStep
<1>5. CASE \E u, v \in User : Attach(u, v)
  BY <1>1, <1>5, AttachStep
<1>6. CASE \E m \in Report : Charge(m) \/ BreakDeadlock(m) \/ FailRub(m)
  <2> PICK m \in Report : Charge(m) \/ BreakDeadlock(m) \/ FailRub(m)
    BY <1>6
  <2>1. /\ pay[m].phase # "done" /\ pay'[m].phase \in {"pending", "failed"}
        /\ pay'[m].grant = pay[m].grant
        /\ pay'[m].phase = "pending" => ~pay[m].grant
        /\ \A n \in Report \ {m} : pay'[n] = pay[n]
        /\ UNCHANGED <<inviter, rewarded, rewards>>
    <3>1. CASE Charge(m)
      BY <3>1, MovesEffect DEF Charge, LockInv, GrantIsDecided, Phases
    <3>2. CASE FailRub(m)
      BY <3>2, MovesEffect DEF FailRub, LockInv, Phases
    <3>3. CASE BreakDeadlock(m)
      <4>1. Moves(m, "failed") /\ UNCHANGED <<inviter, rewarded, rewards>>
        BY <3>3 DEF BreakDeadlock
      <4>2. pay[m].phase = "decided"
        BY <3>3 DEF BreakDeadlock, WaitsFor
      <4> QED BY <4>1, <4>2, MovesEffect DEF LockInv, Phases
    <3> QED BY <3>1, <3>2, <3>3
  <2> QED BY <1>1, <2>1, QuietStep DEF Locked, Grants, LockInv, GrantIsDecided
<1>7. CASE \E m \in Report : ReadPayer(m)
  <2> PICK m \in Report : ReadPayer(m)
    BY <1>7
  <2>1. /\ pay[m].phase = "pending" /\ pay'[m].phase = "read" /\ pay'[m].grant = pay[m].grant
        /\ \A n \in Report \ {m} : pay'[n] = pay[n]
        /\ UNCHANGED <<inviter, rewarded, rewards>>
    BY ReadEffect DEF ReadPayer, LockInv
  <2> QED BY <1>1, <2>1, QuietStep DEF Locked, Grants, LockInv, GrantIsDecided
<1>8. CASE RestartBot
  <2>1. UNCHANGED <<inviter, rewarded, rewards>>
    BY <1>8 DEF RestartBot
  <2> QED BY <1>1, <1>8, <2>1, RestartEffect, QuietStep
       DEF Locked, Grants, InFlight, LockInv, GrantIsDecided
<1>9. CASE Midnight \/ UNCHANGED premiumVars
  <2>1. UNCHANGED <<inviter, rewarded, rewards, pay>>
    BY <1>9 DEF Midnight, premiumVars
  <2> QED BY <1>1, <2>1, QuietStep DEF Locked, Grants, LockInv, GrantIsDecided
<1> QED BY <1>2, <1>3, <1>4, <1>5, <1>6, <1>7, <1>8, <1>9 DEF PremiumNext

\* Nobody has paid when the bot starts for the first time.
LEMMA LockInit ==
  ASSUME PremiumInit
  PROVE  LockInv
<1>1. \A m \in Report : pay[m].phase = "unpaid" /\ pay[m].grant = FALSE
  BY DEF PremiumInit
<1>2. PremiumTypeOK
  BY NobodyIsNoUser, LastDayIsDay DEF PremiumInit, PremiumTypeOK, Handling, Phases
<1>3. NobodyInvitesSelf /\ GrantIsDecided /\ GrantIsOpen /\ OneHolder
  BY NobodyIsNoUser, <1>1 DEF PremiumInit, NobodyInvitesSelf, GrantIsDecided, GrantIsOpen, Grants, OneHolder, Locked
<1> QED BY <1>2, <1>3 DEF PremiumInit, LockInv, RewardIsDone, RewardOnce

(* The state of payments, invitations and handlers is always well formed.   *)
THEOREM PremiumTypeCorrect == PremiumSpec => []PremiumTypeOK
<1>1. PremiumInit => PremiumTypeOK
  BY LockInit DEF LockInv
<1> QED BY <1>1, TypeStep, PTL DEF PremiumSpec

(* One payment of an invited user, and one only, is rewarded.               *)
THEOREM OneRewardEach == PremiumSpec => []RewardOnce
<1>1. LockInv => RewardOnce
  BY DEF LockInv
<1> QED BY <1>1, LockInit, LockStep, PTL DEF PremiumSpec

-----------------------------------------------------------------------------
(* How many days the commits write.                                         *)

\* The numbers a payment in flight is about.
LEMMA Numbers ==
  ASSUME LockInv, NEW n \in Report
  PROVE  /\ today \in Nat /\ PlanDays \in Nat /\ RewardDays \in Nat /\ InvitedDays \in Nat
         /\ Payer(n) \in User /\ until[Payer(n)] \in Nat /\ granted[Payer(n)] \in Nat
         /\ pay[n].mine \in Nat /\ pay[n].theirs \in Nat /\ Bonus(n) \in Nat
         /\ Grants(n) => /\ Inviter(n) \in User /\ Inviter(n) # Payer(n)
                         /\ until[Inviter(n)] \in Nat /\ granted[Inviter(n)] \in Nat
<1>1. today \in Nat
  BY DEF LockInv, PremiumTypeOK
<1>2. Grants(n) => Inviter(n) \in User
  BY DEF LockInv, GrantIsOpen
<1>3. Payer(n) \in User /\ Inviter(n) # Payer(n)
  BY Fields DEF LockInv, NobodyInvitesSelf, Inviter
<1> QED BY <1>1, <1>2, <1>3, Fields, PlanIsPositive, RewardsAreDays DEF LockInv, PremiumTypeOK, Bonus

\* A step that leaves the dates of users and of handlers alone.
LEMMA SameDates ==
  ASSUME DaysInv, LockInv', UNCHANGED <<until, granted, late>>, today' >= today,
         \A n \in InFlight' :
           /\ n \in InFlight
           /\ pay'[n].mine = pay[n].mine /\ pay'[n].theirs = pay[n].theirs
           /\ Grants(n)' <=> Grants(n)
           /\ Grants(n) => Inviter(n)' = Inviter(n)
  PROVE  DaysInv'
<1>1. today \in Nat /\ today' \in Nat
  BY DEF DaysInv, LockInv, PremiumTypeOK
<1>2. NoDayForFree'
  <2> SUFFICES ASSUME NEW u \in User
               PROVE  until'[u] <= today' + granted'[u]
    BY DEF NoDayForFree
  <2>1. until[u] \in Nat /\ granted[u] \in Nat /\ until[u] <= today + granted[u]
    BY DEF DaysInv, LockInv, PremiumTypeOK, NoDayForFree
  <2> QED BY <1>1, <2>1
<1>3. Covered'
  <2> SUFFICES ASSUME NEW n \in InFlight'
               PROVE  /\ pay'[n].mine <= today' + granted'[Payer(n)] + PlanDays + Bonus(n)'
                      /\ Grants(n)' => pay'[n].theirs <= today' + granted'[Inviter(n)'] + RewardDays
    BY DEF Covered, Payer
  <2>1. n \in Report /\ n \in InFlight /\ Bonus(n)' = Bonus(n)
    BY DEF InFlight, Bonus
  <2>2. /\ pay[n].mine <= today + granted[Payer(n)] + PlanDays + Bonus(n)
        /\ Grants(n) => pay[n].theirs <= today + granted[Inviter(n)] + RewardDays
    BY <2>1 DEF DaysInv, Covered
  <2> QED BY <1>1, <2>1, <2>2, Numbers DEF DaysInv
<1>4. Added'
  <2> SUFFICES ASSUME NEW n \in InFlight' \ late'
               PROVE  /\ pay'[n].mine >= until'[Payer(n)] + PlanDays
                      /\ Grants(n)' => pay'[n].theirs >= until'[Inviter(n)'] + RewardDays
    BY DEF Added, Payer
  <2>1. n \in InFlight \ late
    OBVIOUS
  <2> QED BY <2>1 DEF DaysInv, Added
<1> QED BY <1>2, <1>3, <1>4 DEF DaysInv

\* The date a payment reads is covered, and the plan is added to it.
LEMMA ReadDates ==
  ASSUME DaysInv, LockInv', NEW m \in Report, ReadPayer(m)
  PROVE  DaysInv'
<1>1. /\ pay'[m].phase = "read" /\ pay'[m].mine = Extended(until[Payer(m)], PlanDays)
      /\ \A n \in Report \ {m} : pay'[n] = pay[n]
      /\ UNCHANGED <<today, until, inviter, granted, late>>
  BY ReadEffect DEF ReadPayer, DaysInv, LockInv
<1>2. /\ pay'[m].mine <= today + granted[Payer(m)] + PlanDays
      /\ pay'[m].mine >= until[Payer(m)] + PlanDays
  <2>1. until[Payer(m)] <= today + granted[Payer(m)]
    BY Numbers DEF DaysInv, NoDayForFree
  <2>2. /\ today \in Nat /\ until[Payer(m)] \in Nat /\ granted[Payer(m)] \in Nat /\ PlanDays \in Nat
    BY Numbers DEF DaysInv
  <2>3. /\ Extended(until[Payer(m)], PlanDays) <= today + granted[Payer(m)] + PlanDays
        /\ Extended(until[Payer(m)], PlanDays) >= until[Payer(m)] + PlanDays
    BY <2>1, <2>2, ExtendedDate
  <2> QED BY <1>1, <2>3
<1>3. ~Grants(m)' /\ Bonus(m)' = 0
  BY <1>1 DEF Grants, Bonus
<1>4. \A n \in Report \ {m} : (n \in InFlight' <=> n \in InFlight) /\ (Grants(n)' <=> Grants(n))
                               /\ Bonus(n)' = Bonus(n) /\ Inviter(n)' = Inviter(n)
  BY <1>1 DEF InFlight, Grants, Bonus, Inviter, Payer
<1>5. Covered'
  <2> SUFFICES ASSUME NEW n \in InFlight'
               PROVE  /\ pay'[n].mine <= today' + granted'[Payer(n)] + PlanDays + Bonus(n)'
                      /\ Grants(n)' => pay'[n].theirs <= today' + granted'[Inviter(n)'] + RewardDays
    BY DEF Covered, Payer
  <2>1. CASE n = m
    BY <1>1, <1>2, <1>3, <2>1, Numbers DEF DaysInv
  <2>2. CASE n # m
    BY <1>1, <1>4, <2>2 DEF DaysInv, Covered, InFlight
  <2> QED BY <2>1, <2>2
<1>6. Added'
  BY <1>1, <1>2, <1>3, <1>4 DEF DaysInv, Added, InFlight, Payer
<1>7. NoDayForFree'
  BY <1>1 DEF DaysInv, NoDayForFree
<1> QED BY <1>5, <1>6, <1>7 DEF DaysInv

\* A decided reward adds its days to what is covered.
LEMMA DecideDates ==
  ASSUME DaysInv, LockInv', NEW m \in Report, DecideReward(m)
  PROVE  DaysInv'
<1>1. /\ pay[m].phase = "flushed" /\ pay'[m].phase = "decided"
      /\ \A n \in Report \ {m} : pay'[n] = pay[n]
      /\ UNCHANGED <<today, until, inviter, granted, late>>
  BY DecideEffect, Zenon DEF DecideReward, DaysInv, LockInv
<1>2. /\ m \in InFlight /\ m \in InFlight' /\ ~Grants(m) /\ Bonus(m) = 0 /\ ~pay[m].grant
  BY <1>1 DEF InFlight, Grants, Bonus, DaysInv, LockInv, GrantIsDecided
<1>3. pay[m].mine <= today + granted[Payer(m)] + PlanDays
  BY <1>2, Numbers DEF DaysInv, Covered
<1>4. m \notin late => pay[m].mine >= until[Payer(m)] + PlanDays
  BY <1>2 DEF DaysInv, Added
<1>5. /\ pay'[m].mine <= today + granted[Payer(m)] + PlanDays + Bonus(m)'
      /\ pay'[m].mine >= pay[m].mine
      /\ Grants(m)' => /\ pay'[m].theirs <= today + granted[Inviter(m)] + RewardDays
                       /\ pay'[m].theirs >= until[Inviter(m)] + RewardDays
  <2>1. CASE /\ Inviter(m) # Nobody /\ Payer(m) \notin rewarded
             /\ pay'[m].grant = TRUE
             /\ pay'[m].theirs = Extended(until[Inviter(m)], RewardDays)
             /\ pay'[m].mine = IF InvitedDays > 0 THEN Extended(pay[m].mine, InvitedDays)
                                                  ELSE pay[m].mine
    <3>1. Bonus(m)' = InvitedDays
      BY <1>1, <2>1 DEF Bonus, Grants
    <3>2. Inviter(m) \in User
      BY <2>1, Numbers DEF DaysInv, LockInv, PremiumTypeOK, Inviter
    <3>3. /\ until[Inviter(m)] \in Nat /\ granted[Inviter(m)] \in Nat
          /\ until[Inviter(m)] <= today + granted[Inviter(m)]
      BY <3>2 DEF DaysInv, LockInv, PremiumTypeOK, NoDayForFree
    <3>4. /\ pay'[m].theirs <= today + granted[Inviter(m)] + RewardDays
          /\ pay'[m].theirs >= until[Inviter(m)] + RewardDays
      <4>1. today \in Nat /\ RewardDays \in Nat
        BY Numbers DEF DaysInv
      <4>2. /\ Extended(until[Inviter(m)], RewardDays) <= today + granted[Inviter(m)] + RewardDays
            /\ Extended(until[Inviter(m)], RewardDays) >= until[Inviter(m)] + RewardDays
        BY <3>3, <4>1, ExtendedDate
      <4> QED BY <2>1, <4>2
    <3>5. granted[Payer(m)] + PlanDays \in Nat /\ pay[m].mine <= today + (granted[Payer(m)] + PlanDays)
      BY <1>3, Numbers DEF DaysInv
    <3>6. /\ Extended(pay[m].mine, InvitedDays) <= today + (granted[Payer(m)] + PlanDays) + InvitedDays
          /\ Extended(pay[m].mine, InvitedDays) >= pay[m].mine + InvitedDays
          /\ Extended(pay[m].mine, InvitedDays) \in Nat
      BY <3>5, Numbers, ExtendedDate DEF DaysInv
    <3> QED BY <1>3, <2>1, <3>1, <3>4, <3>6, Numbers DEF DaysInv
  <2>2. CASE pay'[m].grant = pay[m].grant /\ pay'[m].mine = pay[m].mine
    <3>1. ~Grants(m)' /\ Bonus(m)' = 0
      BY <1>2, <2>2 DEF Bonus, Grants
    <3> QED BY <1>3, <2>2, <3>1, Numbers DEF DaysInv
  <2> QED BY <2>1, <2>2, DecideEffect DEF DaysInv, LockInv
<1>6. \A n \in Report \ {m} : (n \in InFlight' <=> n \in InFlight) /\ (Grants(n)' <=> Grants(n))
                               /\ Bonus(n)' = Bonus(n)
  BY <1>1 DEF InFlight, Grants, Bonus
<1>7. \A n \in Report : Inviter(n)' = Inviter(n)
  BY <1>1 DEF Inviter, Payer
<1>8. Covered'
  <2> SUFFICES ASSUME NEW n \in InFlight'
               PROVE  /\ pay'[n].mine <= today' + granted'[Payer(n)] + PlanDays + Bonus(n)'
                      /\ Grants(n)' => pay'[n].theirs <= today' + granted'[Inviter(n)'] + RewardDays
    BY DEF Covered, Payer
  <2>1. CASE n = m
    BY <1>1, <1>5, <1>7, <2>1
  <2>2. CASE n # m
    BY <1>1, <1>6, <1>7, <2>2 DEF DaysInv, Covered, InFlight
  <2> QED BY <2>1, <2>2
<1>9. Added'
  <2> SUFFICES ASSUME NEW n \in InFlight' \ late'
               PROVE  /\ pay'[n].mine >= until'[Payer(n)] + PlanDays
                      /\ Grants(n)' => pay'[n].theirs >= until'[Inviter(n)'] + RewardDays
    BY DEF Added, Payer
  <2>1. CASE n = m
    <3>1. pay'[m].mine \in Nat
      BY DEF LockInv, PremiumTypeOK, Handling
    <3> QED BY <1>1, <1>4, <1>5, <1>7, <2>1, <3>1, Numbers DEF DaysInv
  <2>2. CASE n # m
    BY <1>1, <1>6, <1>7, <2>2 DEF DaysInv, Added, InFlight
  <2> QED BY <2>1, <2>2
<1>10. NoDayForFree'
  BY <1>1 DEF DaysInv, NoDayForFree
<1> QED BY <1>8, <1>9, <1>10 DEF DaysInv

\* A commit writes what the tables then account for, and makes old the copies
\* of whoever read one of its two dates.
LEMMA CommitDates ==
  ASSUME DaysInv, LockInv', NEW m \in Report, CommitPayment(m)
  PROVE  DaysInv'
<1>1. /\ pay[m].phase = "decided" /\ pay'[m].phase = "done"
      /\ \A n \in Report \ {m} : pay'[n] = pay[n]
      /\ today' = today /\ inviter' = inviter /\ late' = late \cup {n \in Report : ReadBefore(m, n)}
      /\ until' = NewUntil(m) /\ granted' = NewGranted(m)
  BY MovesEffect DEF CommitPayment, DaysInv, LockInv, Phases
<1>2. /\ m \in InFlight /\ (Grants(m) <=> pay[m].grant)
      /\ Bonus(m) = IF pay[m].grant THEN InvitedDays ELSE 0
  BY <1>1 DEF InFlight, Grants, Bonus
<1>3. /\ pay[m].mine <= today + granted[Payer(m)] + PlanDays + Bonus(m)
      /\ Grants(m) => pay[m].theirs <= today + granted[Inviter(m)] + RewardDays
  BY <1>2 DEF DaysInv, Covered
<1>4. \A u \in User : granted[u] \in Nat /\ granted'[u] \in Nat /\ granted'[u] >= granted[u]
  BY <1>1, Numbers DEF DaysInv, LockInv, PremiumTypeOK, NewGranted
<1>5. NoDayForFree'
  <2> SUFFICES ASSUME NEW u \in User
               PROVE  until'[u] <= today' + granted'[u]
    BY DEF NoDayForFree
  <2>1. CASE u = Payer(m)
    <3>1. until'[u] = pay[m].mine
      BY <1>1, <2>1 DEF NewUntil
    <3>2. granted'[u] = granted[u] + (PlanDays + Bonus(m))
      BY <1>1, <1>2, <2>1, Numbers DEF NewGranted, DaysInv
    <3> QED BY <1>1, <1>3, <2>1, <3>1, <3>2, Numbers DEF DaysInv
  <2>2. CASE u # Payer(m) /\ pay[m].grant /\ u = Inviter(m)
    <3>1. until'[u] = pay[m].theirs
      BY <1>1, <2>2 DEF NewUntil, Writes
    <3>2. granted'[u] = granted[u] + RewardDays
      BY <1>1, <1>4, <2>2, Numbers DEF NewGranted, DaysInv
    <3>3. pay[m].theirs <= today + granted[u] + RewardDays
      BY <1>2, <1>3, <2>2
    <3> QED BY <1>1, <1>4, <3>1, <3>2, <3>3, Numbers DEF DaysInv
  <2>3. CASE u # Payer(m) /\ ~(pay[m].grant /\ u = Inviter(m))
    <3>1. until'[u] = until[u]
      BY <1>1, <2>3 DEF NewUntil, Writes
    <3>2. until[u] <= today + granted[u] /\ until[u] \in Nat
      BY DEF DaysInv, NoDayForFree, LockInv, PremiumTypeOK
    <3> QED BY <1>1, <1>4, <3>1, <3>2, Numbers DEF DaysInv
  <2> QED BY <2>1, <2>2, <2>3
<1>6. \A n \in InFlight' :
        /\ n \in InFlight /\ n \in Report \ {m} /\ pay'[n] = pay[n]
        /\ (Grants(n)' <=> Grants(n)) /\ Bonus(n)' = Bonus(n) /\ Inviter(n)' = Inviter(n)
  BY <1>1 DEF InFlight, Grants, Bonus, Inviter, Payer
<1>7. Covered'
  <2> SUFFICES ASSUME NEW n \in InFlight'
               PROVE  /\ pay'[n].mine <= today' + granted'[Payer(n)] + PlanDays + Bonus(n)'
                      /\ Grants(n)' => pay'[n].theirs <= today' + granted'[Inviter(n)'] + RewardDays
    BY DEF Covered, Payer
  <2>1. /\ pay[n].mine <= today + granted[Payer(n)] + PlanDays + Bonus(n)
        /\ Grants(n) => pay[n].theirs <= today + granted[Inviter(n)] + RewardDays
    BY <1>6 DEF DaysInv, Covered
  <2> QED BY <1>1, <1>4, <1>6, <2>1, Numbers DEF DaysInv
<1>8. Added'
  <2> SUFFICES ASSUME NEW n \in InFlight' \ late'
               PROVE  /\ pay'[n].mine >= until'[Payer(n)] + PlanDays
                      /\ Grants(n)' => pay'[n].theirs >= until'[Inviter(n)'] + RewardDays
    BY DEF Added, Payer
  <2>1. n \in InFlight \ late /\ n \in Report \ {m} /\ ~ReadBefore(m, n)
    BY <1>1, <1>6
  <2>2. until'[Payer(n)] = until[Payer(n)]
    <3>1. Payer(n) \notin Writes(m)
      BY <2>1 DEF ReadBefore, InFlight
    <3> QED BY <1>1, <2>1, <3>1, Numbers DEF NewUntil, Writes, DaysInv
  <2>3. Grants(n) => until'[Inviter(n)] = until[Inviter(n)]
    <3>1. Grants(n) => Inviter(n) \notin Writes(m)
      BY <2>1 DEF ReadBefore, Grants
    <3> QED BY <1>1, <2>1, <3>1, Numbers DEF NewUntil, Writes, DaysInv
  <2> QED BY <1>6, <2>1, <2>2, <2>3 DEF DaysInv, Added
<1> QED BY <1>5, <1>7, <1>8 DEF DaysInv

\* The strengthened invariant is inductive.
LEMMA DaysStep ==
  ASSUME DaysInv, [PremiumNext]_premiumVars
  PROVE  DaysInv'
<1>1. LockInv'
  BY LockStep DEF DaysInv
<1>2. CASE \E m \in Report : ReadPayer(m)
  BY <1>1, <1>2, ReadDates
<1>3. CASE \E m \in Report : DecideReward(m)
  BY <1>1, <1>3, DecideDates
<1>4. CASE \E m \in Report : CommitPayment(m)
  BY <1>1, <1>4, CommitDates
<1>5. CASE \E m \in Report : Charge(m) \/ Flush(m) \/ BreakDeadlock(m) \/ FailRub(m)
  <2> PICK m \in Report : Charge(m) \/ Flush(m) \/ BreakDeadlock(m) \/ FailRub(m)
    BY <1>5
  <2>1. PICK p \in {"pending", "flushed", "failed"} :
          Moves(m, p) /\ (p = "flushed" => pay[m].phase = "read")
    BY DEF Charge, Flush, BreakDeadlock, FailRub
  <2>2. /\ pay'[m].phase = p /\ pay'[m].mine = pay[m].mine
        /\ pay'[m].grant = pay[m].grant /\ pay'[m].theirs = pay[m].theirs
        /\ \A n \in Report \ {m} : pay'[n] = pay[n]
    BY <2>1, MovesEffect DEF DaysInv, LockInv, Phases
  <2>3. UNCHANGED <<until, granted, late, today, inviter>>
    BY DEF Charge, Flush, BreakDeadlock, FailRub
  <2>4. today \in Nat
    BY DEF DaysInv, LockInv, PremiumTypeOK
  <2> QED BY <1>1, <2>1, <2>2, <2>3, <2>4, SameDates
       DEF InFlight, Grants, Inviter, Payer
<1>6. CASE RestartBot
  <2>1. UNCHANGED <<until, granted, late, today, inviter>> /\ today \in Nat
    BY <1>6 DEF RestartBot, DaysInv, LockInv, PremiumTypeOK
  <2>2. InFlight' = {}
    BY <1>6, RestartEffect DEF InFlight, DaysInv, LockInv
  <2> QED BY <1>1, <2>1, <2>2, SameDates
<1>7. CASE \E u, v \in User : Attach(u, v)
  <2> PICK u \in User, v \in User : Attach(u, v)
    BY <1>7
  <2>1. UNCHANGED <<until, granted, late, today, pay>> /\ today \in Nat /\ inviter[u] = Nobody
    BY DEF Attach, DaysInv, LockInv, PremiumTypeOK
  <2>2. \A n \in Report : Grants(n) => Inviter(n)' = Inviter(n)
    <3> SUFFICES ASSUME NEW n \in Report, Grants(n)
                 PROVE  Inviter(n)' = Inviter(n)
      OBVIOUS
    <3>1. Payer(n) # u /\ Payer(n) \in User
      BY <2>1, NobodyIsNoUser, Numbers DEF DaysInv, Inviter
    <3> QED BY <3>1 DEF Attach, DaysInv, LockInv, PremiumTypeOK, Inviter, Payer
  <2> QED BY <1>1, <2>1, <2>2, SameDates DEF InFlight, Grants
<1>8. CASE Midnight \/ UNCHANGED premiumVars
  <2>1. /\ UNCHANGED <<until, granted, late, pay, inviter>>
        /\ today \in Nat /\ today' >= today
    BY <1>8 DEF Midnight, premiumVars, DaysInv, LockInv, PremiumTypeOK
  <2> QED BY <1>1, <2>1, SameDates DEF InFlight, Grants, Inviter, Payer
<1> QED BY <1>2, <1>3, <1>4, <1>5, <1>6, <1>7, <1>8 DEF PremiumNext

\* Nobody has premium when the bot starts for the first time.
LEMMA DaysInit ==
  ASSUME PremiumInit
  PROVE  DaysInv
<1>1. LockInv
  BY LockInit
<1>2. InFlight = {}
  BY DEF PremiumInit, InFlight
<1> QED BY <1>1, <1>2 DEF PremiumInit, DaysInv, Covered, Added, NoDayForFree

(* Nobody holds more premium than payments and rewards in the tables give.  *)
THEOREM NoFreePremium == PremiumSpec => []NoDayForFree
<1>1. DaysInv => NoDayForFree
  BY DEF DaysInv
<1> QED BY <1>1, DaysInit, DaysStep, PTL DEF PremiumSpec

\* Only a commit enters a payment, and it has read what is still true.
LEMMA CommitAdds ==
  ASSUME DaysInv, [PremiumNext]_premiumVars, NEW m \in Report,
         m \in paid' \ paid, m \notin late
  PROVE  /\ until'[Payer(m)] >= until[Payer(m)] + PlanDays
         /\ m \in rewards' => until'[Inviter(m)] >= until[Inviter(m)] + RewardDays
<1>1. CommitPayment(m)
  <2>1. PICK n \in Report : CommitPayment(n)
    BY Zenon DEF PremiumNext, premiumVars, Midnight, RestartBot, Attach, Charge, ReadPayer, Flush,
           DecideReward, BreakDeadlock, FailRub
  <2>2. paid' = paid \cup {n}
    BY <2>1 DEF CommitPayment
  <2> QED BY <2>1, <2>2
<1>2. /\ pay[m].phase = "decided" /\ m \in InFlight
      /\ until' = NewUntil(m)
      /\ rewards' = IF pay[m].grant THEN rewards \cup {m} ELSE rewards
  BY <1>1 DEF CommitPayment, InFlight
<1>3. m \notin rewards
  BY <1>2 DEF DaysInv, LockInv, RewardIsDone
<1>4. /\ pay[m].mine >= until[Payer(m)] + PlanDays
      /\ Grants(m) => pay[m].theirs >= until[Inviter(m)] + RewardDays
  BY <1>2 DEF DaysInv, Added
<1>5. until'[Payer(m)] = pay[m].mine
  BY <1>2, Numbers DEF NewUntil, DaysInv
<1>6. m \in rewards' => Grants(m)
  BY <1>2, <1>3 DEF Grants
<1>7. Grants(m) => until'[Inviter(m)] = pay[m].theirs
  BY <1>2, Numbers DEF NewUntil, Writes, DaysInv, Grants
<1> QED BY <1>4, <1>5, <1>6, <1>7

(* A payment loses no day unless another one wrote a date after it read it. *)
THEOREM DaysLostOnlySo == PremiumSpec => DaysLostOnlyToOverlap
<1>1. DaysInv /\ [PremiumNext]_premiumVars =>
        [\A m \in Report :
           (m \in paid' \ paid /\ m \notin late) =>
              /\ until'[Payer(m)] >= until[Payer(m)] + PlanDays
              /\ m \in rewards' => until'[Inviter(m)] >= until[Inviter(m)] + RewardDays]_premiumVars
  BY CommitAdds
<1> QED BY <1>1, DaysInit, DaysStep, PTL DEF PremiumSpec, DaysLostOnlyToOverlap

-----------------------------------------------------------------------------
(* The producers.  Telegram: between the start and the handler every         *)
(* message is in a chat still to be read, in the answer of a history        *)
(* request, or accounted for (Accounted).  VK: at most one post has its     *)
(* key and no entry yet, and it is the one in hand (OneInHand), so that a   *)
(* fault can strand no more.                                                *)

USE ConfiguredAreChats, MessagesHaveChats, MostCopiesIsCount,
    PostsAreFinite, PostsHaveGroups, VkBounds

-----------------------------------------------------------------------------
(* Telegram.                                                                *)

Accounted ==
  phase # "down" =>
    \A m \in posted : ChatOf[m] \in Configured =>
      \/ copies[m] > 0
      \/ m \in old \cup failed \cup unheard \cup heard \cup toRead
      \/ ChatOf[m] \in unread

WatchesConfigured == phase # "down" => Configured \subseteq watched

LiveHasRead == phase = "live" => unread = {} /\ toRead = {}

TgInv == TgTypeOK /\ Accounted /\ WatchesConfigured /\ LiveHasRead

\* What the state of the producer is made of.
LEMMA TgParts ==
  TgTypeOK <=>
    /\ phase \in {"down", "backfilling", "live"}
    /\ watched \subseteq Chat /\ found \subseteq Chat /\ unread \subseteq Chat
    /\ toRead \subseteq Message /\ posted \subseteq Message /\ old \subseteq Message
    /\ heard \subseteq Message /\ unheard \subseteq Message /\ failed \subseteq Message
    /\ copies \in [Message -> Nat] /\ quiet \in BOOLEAN
BY DEF TgTypeOK

\* The same of the next state.
LEMMA TgPartsNext ==
  TgTypeOK' <=>
    /\ phase' \in {"down", "backfilling", "live"}
    /\ watched' \subseteq Chat /\ found' \subseteq Chat /\ unread' \subseteq Chat
    /\ toRead' \subseteq Message /\ posted' \subseteq Message /\ old' \subseteq Message
    /\ heard' \subseteq Message /\ unheard' \subseteq Message /\ failed' \subseteq Message
    /\ copies' \in [Message -> Nat] /\ quiet' \in BOOLEAN
BY DEF TgTypeOK

\* The invariant is inductive.
LEMMA TgStep ==
  ASSUME TgInv, [TgNext]_tgVars
  PROVE  TgInv'
<1> USE DEF TgInv, Accounted, WatchesConfigured, LiveHasRead
<1>1. CASE Start
  <2>1. TgTypeOK'
    BY <1>1, TgParts, TgPartsNext DEF Start
  <2> QED BY <1>1, <2>1, TgParts DEF Start
<1>2. CASE Register
  <2>1. TgTypeOK'
    BY <1>2, TgParts, TgPartsNext DEF Register
  <2> QED BY <1>2, <2>1 DEF Register
<1>3. CASE Silence
  <2>1. TgTypeOK'
    BY <1>3, TgParts, TgPartsNext DEF Silence
  <2> QED BY <1>3, <2>1 DEF Silence
<1>4. CASE SelfKill \/ Break
  <2>1. Ends
    BY <1>4 DEF SelfKill, Break
  <2>2. TgTypeOK'
    BY <2>1, TgParts, TgPartsNext DEF Ends
  <2> QED BY <2>1, <2>2 DEF Ends
<1>5. CASE \E c \in Chat : ReadChat(c)
  <2> PICK c \in Chat : ReadChat(c)
    BY <1>5
  <2>1. TgTypeOK'
    BY TgParts, TgPartsNext DEF ReadChat, InReach, Waiting
  <2> QED BY <2>1 DEF ReadChat, InReach, Waiting
<1>6. CASE \E c \in Chat : SkipChat(c)
  <2> PICK c \in Chat : SkipChat(c)
    BY <1>6
  <2>1. TgTypeOK'
    BY TgParts, TgPartsNext DEF SkipChat, Waiting
  <2> QED BY <2>1 DEF SkipChat, Waiting
<1>7. CASE \E c \in Chat : Discover(c)
  <2> PICK c \in Chat : Discover(c)
    BY <1>7
  <2>1. TgTypeOK'
    BY TgParts, TgPartsNext DEF Discover
  <2> QED BY <2>1 DEF Discover
<1>8. CASE \E m \in Message : BackfillMessage(m) \/ HandleMessage(m)
  <2> PICK m \in Message : BackfillMessage(m) \/ HandleMessage(m)
    BY <1>8
  <2>1. /\ copies[m] \in Nat /\ copies' = [copies EXCEPT ![m] = copies[m] + 1] /\ quiet' = FALSE
        /\ toRead' \cup heard' \subseteq toRead \cup heard
        /\ toRead' \subseteq toRead /\ heard' \subseteq heard
        /\ (toRead \cup heard) \ {m} \subseteq toRead' \cup heard'
        /\ UNCHANGED <<phase, watched, found, unread, posted, old, unheard, failed>>
    BY TgParts DEF BackfillMessage, HandleMessage, Enqueued
  <2>2. copies' \in [Message -> Nat]
    BY <2>1, TgParts
  <2>3. TgTypeOK'
    BY <2>1, <2>2, TgParts, TgPartsNext
  <2>4. copies'[m] > 0 /\ \A n \in Message \ {m} : copies'[n] = copies[n]
    BY <2>1, TgParts
  <2>5. posted \subseteq Message
    BY TgParts
  <2> QED BY <2>1, <2>3, <2>4, <2>5
<1>9. CASE \E m \in Message : Post(m)
  <2> PICK m \in Message : Post(m)
    BY <1>9
  <2>1. TgTypeOK'
    BY TgParts, TgPartsNext DEF Post
  <2> QED BY <2>1 DEF Post, Heard
<1>10. CASE \E m \in Message : FailMessage(m)
  <2> PICK m \in Message : FailMessage(m)
    BY <1>10
  <2>1. TgTypeOK'
    BY TgParts, TgPartsNext DEF FailMessage
  <2> QED BY <2>1 DEF FailMessage
<1>11. CASE \E m \in Message : Age(m)
  <2> PICK m \in Message : Age(m)
    BY <1>11
  <2>1. TgTypeOK'
    BY TgParts, TgPartsNext DEF Age
  <2> QED BY <2>1 DEF Age
<1>12. CASE UNCHANGED tgVars
  <2>1. TgTypeOK'
    BY <1>12, TgParts, TgPartsNext DEF tgVars
  <2> QED BY <1>12, <2>1 DEF tgVars
<1> QED
  BY <1>1, <1>2, <1>3, <1>4, <1>5, <1>6, <1>7, <1>8, <1>9, <1>10, <1>11, <1>12 DEF TgNext

\* The process is down at first.
LEMMA TgStart ==
  ASSUME TgInit
  PROVE  TgInv
<1>1. TgTypeOK
  BY TgParts DEF TgInit
<1> QED BY <1>1 DEF TgInit, TgInv, Accounted, WatchesConfigured, LiveHasRead

(* A live producer has missed only what was posted while its backfill went  *)
(* on, what is out of reach, and what it failed to enqueue.                 *)
THEOREM OnlyTheGapIsMissed == TgSpec => []MissedOnlyInGap
<1>1. TgInv => MissedOnlyInGap
  BY DEF TgInv, Accounted, LiveHasRead, MissedOnlyInGap
<1> QED BY <1>1, TgStart, TgStep, PTL DEF TgSpec

-----------------------------------------------------------------------------
(* VK.                                                                      *)

OneInHand == /\ inHand \subseteq seenKeys
             /\ \A p, q \in inHand : p = q

VkInv == VkTypeOK /\ OneInHand /\ AppendedOncePerKey

\* The invariant about hands and keys is inductive.
LEMMA VkStep ==
  ASSUME VkInv, [VkNext]_vkVars
  PROVE  VkInv'
<1> USE DEF VkInv, VkTypeOK, OneInHand, AppendedOncePerKey
<1>1. CASE \E p \in VkPost : Publish(p) \/ PushOut(p)
  BY <1>1 DEF Publish, PushOut
<1>2. CASE \E p \in VkPost : Mark(p)
  BY <1>2 DEF Mark, Batch, Unseen
<1>3. CASE \E p \in VkPost : Add(p)
  BY <1>3 DEF Add
<1>4. CASE \E p \in VkPost : Forget(p)
  BY <1>4 DEF Forget
<1>5. CASE \E g \in Groups : Fetch(g)
  BY <1>5 DEF Fetch
<1>6. CASE BeginCycle
  BY <1>6 DEF BeginCycle
<1>7. CASE Fault
  <2>1. /\ faults' = faults + 1 /\ inHand' = {} /\ fetched' = {} /\ cycle' = {}
        /\ UNCHANGED <<onWall, seenKeys, expired>>
        /\ \A p \in VkPost : entries'[p] \in {entries[p], entries[p] + (IF p \in inHand THEN 1 ELSE 0)}
        /\ entries' \in [VkPost -> Nat]
    BY <1>7 DEF Fault
  <2> QED BY <2>1
<1>8. CASE UNCHANGED vkVars
  BY <1>8 DEF vkVars
<1> QED BY <1>1, <1>2, <1>3, <1>4, <1>5, <1>6, <1>7, <1>8 DEF VkNext

\* The producer has fetched nothing at first.
LEMMA VkStart ==
  ASSUME VkInit
  PROVE  VkInv
BY DEF VkInit, VkInv, VkTypeOK, OneInHand, AppendedOncePerKey

\* The posts that are held back for good are finitely many.
LEMMA SwallowedIsFinite ==
  ASSUME VkTypeOK
  PROVE  IsFiniteSet(Swallowed) /\ Cardinality(Swallowed) \in Nat
<1>1. Swallowed \subseteq VkPost
  BY DEF Swallowed, VkTypeOK
<1> QED BY <1>1, FS_Subset, FS_CardinalityType

\* A step swallows the post in hand at most, and only by a fault.
LEMMA SwallowStep ==
  ASSUME VkInv, VkInv', OnePostPerFault, [VkNext]_vkVars
  PROVE  OnePostPerFault'
<1>1. IsFiniteSet(Swallowed) /\ Cardinality(Swallowed) \in Nat /\ Cardinality(Swallowed) <= faults
  BY SwallowedIsFinite DEF VkInv, OnePostPerFault
<1>2. ASSUME Swallowed' \subseteq Swallowed, faults' = faults
      PROVE  OnePostPerFault'
  <2>1. Cardinality(Swallowed') <= Cardinality(Swallowed) /\ Cardinality(Swallowed') \in Nat
    BY <1>1, <1>2, FS_Subset, FS_CardinalityType
  <2> QED BY <1>1, <1>2, <2>1 DEF OnePostPerFault, VkInv, VkTypeOK
<1>3. CASE Fault
  <2>1. Swallowed' \subseteq Swallowed \cup inHand /\ faults' = faults + 1
    BY <1>3 DEF Fault, Swallowed, VkInv, VkTypeOK
  <2>2. CASE inHand = {}
    <3>1. Cardinality(Swallowed') <= Cardinality(Swallowed) /\ Cardinality(Swallowed') \in Nat
      BY <1>1, <2>1, <2>2, FS_Subset, FS_CardinalityType
    <3> QED BY <1>1, <2>1, <3>1 DEF OnePostPerFault, VkInv, VkTypeOK
  <2>3. CASE inHand # {}
    <3> PICK p \in inHand : inHand = {p}
      BY <2>3 DEF VkInv, OneInHand
    <3>1. /\ IsFiniteSet(Swallowed \cup {p})
          /\ Cardinality(Swallowed \cup {p}) <= Cardinality(Swallowed) + 1
          /\ Cardinality(Swallowed \cup {p}) \in Nat
      <4>1. /\ IsFiniteSet(Swallowed \cup {p})
            /\ \/ Cardinality(Swallowed \cup {p}) = Cardinality(Swallowed)
               \/ Cardinality(Swallowed \cup {p}) = Cardinality(Swallowed) + 1
        BY <1>1, FS_AddElement
      <4> QED BY <1>1, <4>1
    <3>2. Cardinality(Swallowed') <= Cardinality(Swallowed \cup {p}) /\ Cardinality(Swallowed') \in Nat
      BY <2>1, <3>1, FS_Subset, FS_CardinalityType
    <3> QED BY <1>1, <2>1, <3>1, <3>2 DEF OnePostPerFault, VkInv, VkTypeOK
  <2> QED BY <2>2, <2>3
<1>4. CASE \E p \in VkPost : Mark(p)
  BY <1>2, <1>4 DEF Mark, Batch, Unseen, Swallowed
<1>5. CASE \E p \in VkPost : Add(p)
  BY <1>2, <1>5 DEF Add, Swallowed, VkInv, VkTypeOK
<1>6. CASE \E p \in VkPost : Forget(p)
  BY <1>2, <1>6 DEF Forget, Swallowed
<1>7. CASE \/ \E p \in VkPost : Publish(p) \/ PushOut(p)
           \/ \E g \in Groups : Fetch(g)
           \/ BeginCycle \/ UNCHANGED vkVars
  BY <1>2, <1>7 DEF Publish, PushOut, Fetch, BeginCycle, vkVars, Swallowed
<1> QED BY <1>3, <1>4, <1>5, <1>6, <1>7 DEF VkNext

(* A post is appended to the stream once per life of its seen key.          *)
THEOREM OnceEachKey == VkSpec => []AppendedOncePerKey
<1>1. VkInv => AppendedOncePerKey
  BY DEF VkInv
<1> QED BY <1>1, VkStart, VkStep, PTL DEF VkSpec

(* A fault holds back one post at most.                                     *)
THEOREM FaultTakesOne == VkSpec => []OnePostPerFault
<1>1. VkInit => VkInv /\ OnePostPerFault
  <2> SUFFICES ASSUME VkInit
               PROVE  VkInv /\ OnePostPerFault
    OBVIOUS
  <2>1. Swallowed = {}
    BY DEF VkInit, Swallowed
  <2> QED BY <2>1, VkStart, FS_EmptySet DEF VkInit, OnePostPerFault
<1>2. VkInv /\ OnePostPerFault /\ [VkNext]_vkVars => (VkInv /\ OnePostPerFault)'
  BY VkStep, SwallowStep
<1> QED BY <1>1, <1>2, PTL DEF VkSpec

(* A post is passed on once, but for an expiry or a fault each.             *)
THEOREM VkPassesOnOnce == VkSpec => []PassedOnOnce
BY OnceEachKey, FaultTakesOne, PTL DEF PassedOnOnce

-----------------------------------------------------------------------------
(* The windowed jobs.  Both properties follow from where the trigger stands  *)
(* (Clock): a run never begins earlier than a period after the one before   *)
(* it, and while nothing was left out never later.  So each listing of an   *)
(* item lies a period after the one before it (Spaced), and an item that no *)
(* run has read yet was created after the last one began (Fresh).           *)

Clock ==
  /\ started \in Nat /\ started <= now /\ now <= due
  /\ due >= started + Period
  /\ ~gap => due <= started + Period

Births == \A i \in Item : born[i] <= now /\ (listed[i] > 0 => born[i] # Unborn)

\* An item in the list of the run has been listed and not yet told.
ToldIsListed ==
  \A i \in Item : told[i] <= listed[i] /\ (i \in list => told[i] + 1 <= listed[i])

Spaced ==
  \A i \in Item : listed[i] > 0 =>
    /\ (listed[i] - 1) * Period <= started - born[i]
    /\ (listed[i] - 1) * Period <= Window[kind]

Fresh ==
  ~gap => \A i \in Item :
    born[i] # Unborn /\ listed[i] = 0 /\ i \notin notified => born[i] >= started

WindowInv == WindowTypeOK /\ Clock /\ Births /\ ToldIsListed /\ Spaced /\ Fresh

USE PeriodIsPositive, WindowsCoverPeriod, KindsOfJobs, LastMinuteIsMinute

-----------------------------------------------------------------------------

\* A period more.
LEMMA OneMore ==
  ASSUME NEW n \in Nat
  PROVE  n * Period = (n - 1) * Period + Period
OBVIOUS

\* Multiplication by the period keeps an order.
LEMMA FewerIsLess ==
  ASSUME NEW a \in Int, NEW b \in Int, a <= b
  PROVE  a * Period <= b * Period
<1>1. (b - a) * Period >= 0
  <2>1. b - a \in Nat /\ Period \in Nat
    OBVIOUS
  <2> QED BY <2>1
<1>2. b * Period = a * Period + (b - a) * Period
  OBVIOUS
<1> QED BY <1>1, <1>2

\* The state stays well formed.
LEMMA WindowTypeStep ==
  ASSUME WindowTypeOK, [WindowNext]_windowVars
  PROVE  WindowTypeOK'
<1>1. CASE Minute
  BY <1>1 DEF Minute, WindowTypeOK
<1>2. CASE StartRun
  <2>1. PICK S \in SUBSET Item :
          /\ taken' = S /\ list' = S
          /\ listed' = [i \in Item |-> IF i \in S THEN listed[i] + 1 ELSE listed[i]]
          /\ gap' = (gap \/ S # Due)
    BY <1>2 DEF StartRun
  <2>2. started' \in Int /\ due' \in Nat
    BY <1>2 DEF StartRun, WindowTypeOK
  <2> QED BY <1>2, <2>1, <2>2 DEF StartRun, WindowTypeOK
<1>3. CASE SkipRun
  BY <1>3 DEF SkipRun, WindowTypeOK
<1>4. CASE EndRun
  BY <1>4 DEF EndRun, WindowTypeOK
<1>5. CASE RestartScheduler
  <2>1. due' \in Nat
    BY <1>5 DEF RestartScheduler, AfterPeriod, WindowTypeOK
  <2>2. list' = {} /\ taken' = {} /\ posting' = {} /\ running' = FALSE /\ gap' = TRUE
    BY <1>5 DEF RestartScheduler
  <2>3. UNCHANGED <<kind, now, started, born, notified, told, listed>>
    BY <1>5 DEF RestartScheduler
  <2> QED BY <2>1, <2>2, <2>3 DEF WindowTypeOK
<1>6. CASE \E i \in Item : Create(i)
  BY <1>6 DEF Create, WindowTypeOK
<1>7. CASE \E i \in Item : EndPosting(i)
  BY <1>7 DEF EndPosting, WindowTypeOK
<1>8. CASE \E i \in Item, delivered \in BOOLEAN : Tell(i, delivered)
  BY <1>8 DEF Tell, Newest, WindowTypeOK
<1>9. CASE UNCHANGED windowVars
  BY <1>9 DEF windowVars, WindowTypeOK
<1> QED BY <1>1, <1>2, <1>3, <1>4, <1>5, <1>6, <1>7, <1>8, <1>9 DEF WindowNext

\* The numbers the invariant speaks of.
LEMMA WindowNumbers ==
  ASSUME WindowTypeOK
  PROVE  /\ now \in Nat /\ due \in Nat /\ Period \in Nat /\ Period >= 1
         /\ kind \in JobKind /\ Window[kind] \in Nat /\ Window[kind] >= Period
         /\ \A i \in Item : born[i] \in Int /\ told[i] \in Nat /\ listed[i] \in Nat
BY DEF WindowTypeOK, Unborn

\* A run that begins lists what is in its window, a period after the last.
LEMMA StartStep ==
  ASSUME WindowInv, WindowTypeOK', StartRun
  PROVE  WindowInv'
<1> PICK S \in SUBSET Item :
      /\ IsRead(S)
      /\ list' = S
      /\ listed' = [i \in Item |-> IF i \in S THEN listed[i] + 1 ELSE listed[i]]
      /\ gap' = (gap \/ S # Due)
  BY DEF StartRun
<1>1. /\ now = due /\ started' = now /\ due' = due + Period
      /\ UNCHANGED <<kind, now, born, notified, told>>
  BY DEF StartRun
<1>2. Clock'
  BY <1>1, WindowNumbers DEF WindowInv, Clock
<1>3. \A i \in S : born[i] # Unborn /\ now - born[i] <= Window[kind]
  <2> SUFFICES ASSUME NEW i \in S
               PROVE  born[i] # Unborn /\ now - born[i] <= Window[kind]
    OBVIOUS
  <2>1. i \in Item /\ InWindow(i)
    BY DEF IsRead, Due
  <2> QED BY <2>1, WindowNumbers DEF WindowInv, InWindow
<1>4. Births'
  BY <1>1, <1>3, WindowNumbers DEF WindowInv, Births
<1>5. ToldIsListed'
  BY <1>1, WindowNumbers DEF WindowInv, ToldIsListed
<1>6. Spaced'
  <2> SUFFICES ASSUME NEW i \in Item, listed'[i] > 0
               PROVE  /\ (listed'[i] - 1) * Period <= started' - born'[i]
                      /\ (listed'[i] - 1) * Period <= Window[kind']
    BY DEF Spaced
  <2>1. CASE i \in S
    <3>1. listed'[i] - 1 = listed[i]
      BY <2>1, WindowNumbers DEF WindowInv
    <3>2. listed[i] * Period <= now - born[i]
      <4>1. CASE listed[i] = 0
        BY <4>1, WindowNumbers DEF WindowInv, Births
      <4>2. CASE listed[i] > 0
        <5>1. (listed[i] - 1) * Period <= started - born[i]
          BY <4>2 DEF WindowInv, Spaced
        <5>2. listed[i] * Period = (listed[i] - 1) * Period + Period
          BY OneMore, WindowNumbers DEF WindowInv
        <5>3. (listed[i] - 1) * Period \in Int
          BY WindowNumbers DEF WindowInv
        <5>4. started + Period <= now /\ started \in Int
          BY <1>1 DEF WindowInv, Clock
        <5> QED BY <5>1, <5>2, <5>3, <5>4, WindowNumbers DEF WindowInv
      <4> QED BY <4>1, <4>2, WindowNumbers DEF WindowInv
    <3>3. now - born[i] <= Window[kind]
      BY <1>3, <2>1
    <3>4. listed[i] * Period \in Int
      BY WindowNumbers DEF WindowInv
    <3> QED BY <1>1, <3>1, <3>2, <3>3, <3>4, WindowNumbers DEF WindowInv
  <2>2. CASE i \notin S
    <3>1. listed'[i] = listed[i] /\ (listed[i] - 1) * Period \in Int
      BY <2>2, WindowNumbers DEF WindowInv
    <3>2. /\ (listed[i] - 1) * Period <= started - born[i]
          /\ (listed[i] - 1) * Period <= Window[kind]
      BY <3>1 DEF WindowInv, Spaced
    <3>3. started \in Int /\ started <= now
      BY DEF WindowInv, Clock
    <3> QED BY <1>1, <3>1, <3>2, <3>3, WindowNumbers DEF WindowInv
  <2> QED BY <2>1, <2>2
<1>7. Fresh'
  <2> SUFFICES ASSUME ~gap', NEW i \in Item, born[i] # Unborn, i \notin notified
               PROVE  listed'[i] # 0
    BY <1>1 DEF Fresh
  <2>1. ~gap /\ S = Due
    OBVIOUS
  <2>2. CASE listed[i] = 0
    <3>1. born[i] >= started
      BY <2>1, <2>2 DEF WindowInv, Fresh
    <3>2. started >= now - Period /\ started \in Int
      BY <1>1, <2>1, WindowNumbers DEF WindowInv, Clock
    <3>3. InWindow(i)
      BY <3>1, <3>2, WindowNumbers DEF WindowInv, InWindow
    <3>4. i \in S
      BY <2>1, <3>3 DEF Due
    <3> QED BY <3>4, WindowNumbers DEF WindowInv
  <2>3. CASE listed[i] # 0
    BY <2>3, WindowNumbers DEF WindowInv
  <2> QED BY <2>2, <2>3
<1> QED BY <1>2, <1>4, <1>5, <1>6, <1>7 DEF WindowInv

\* A step that reads nothing: the clock and the trigger stay in order, nothing
\* is unmarked or told that was not in the list.
LEMMA OtherStep ==
  ASSUME WindowInv, WindowTypeOK', Clock', UNCHANGED <<kind, started, listed>>,
         now' >= now, gap => gap', notified \subseteq notified', list' \subseteq list,
         \A i \in Item :
           /\ born'[i] = born[i] \/ (born[i] = Unborn /\ born'[i] = now)
           /\ told'[i] = told[i] \/ (i \in list \ list' /\ told'[i] = told[i] + 1)
  PROVE  WindowInv'
<1>1. started \in Int /\ started <= now /\ now' \in Nat
  BY DEF WindowInv, Clock, WindowTypeOK
<1>2. Births'
  BY <1>1, WindowNumbers DEF WindowInv, Births
<1>3. ToldIsListed'
  BY WindowNumbers DEF WindowInv, ToldIsListed
<1>4. Spaced'
  <2> SUFFICES ASSUME NEW i \in Item, listed[i] > 0
               PROVE  /\ (listed[i] - 1) * Period <= started - born'[i]
                      /\ (listed[i] - 1) * Period <= Window[kind]
    BY DEF Spaced
  <2>1. born'[i] = born[i]
    BY DEF WindowInv, Births
  <2> QED BY <2>1 DEF WindowInv, Spaced
<1>5. Fresh'
  <2> SUFFICES ASSUME ~gap', NEW i \in Item,
                      born'[i] # Unborn, listed[i] = 0, i \notin notified'
               PROVE  born'[i] >= started
    BY DEF Fresh
  <2>1. ~gap /\ i \notin notified
    OBVIOUS
  <2>2. CASE born'[i] = born[i]
    BY <2>1, <2>2 DEF WindowInv, Fresh
  <2>3. CASE born'[i] = now
    BY <1>1, <2>3, WindowNumbers DEF WindowInv
  <2> QED BY <2>2, <2>3
<1> QED BY <1>2, <1>3, <1>4, <1>5 DEF WindowInv

\* The invariant is inductive.
LEMMA WindowStep ==
  ASSUME WindowInv, [WindowNext]_windowVars
  PROVE  WindowInv'
<1>1. WindowTypeOK'
  BY WindowTypeStep DEF WindowInv
<1>2. /\ now \in Nat /\ due \in Nat /\ Period \in Nat
      /\ \A i \in Item : born[i] \in Int /\ told[i] \in Nat /\ listed[i] \in Nat
  BY WindowNumbers DEF WindowInv
<1>3. CASE StartRun
  BY <1>1, <1>3, StartStep
<1>4. CASE Minute
  <2>1. Clock'
    BY <1>2, <1>4 DEF Minute, WindowInv, Clock
  <2> QED BY <1>1, <1>2, <1>4, <2>1, OtherStep DEF Minute
<1>5. CASE SkipRun
  <2>1. Clock'
    BY <1>2, <1>5 DEF SkipRun, WindowInv, Clock
  <2> QED BY <1>1, <1>2, <1>5, <2>1, OtherStep DEF SkipRun
<1>6. CASE EndRun
  <2>1. Clock'
    BY <1>6 DEF EndRun, WindowInv, Clock
  <2> QED BY <1>1, <1>2, <1>6, <2>1, OtherStep DEF EndRun
<1>7. CASE RestartScheduler
  <2>1. Clock'
    BY <1>2, <1>7 DEF RestartScheduler, AfterPeriod, WindowInv, Clock
  <2> QED BY <1>1, <1>2, <1>7, <2>1, OtherStep DEF RestartScheduler
<1>8. CASE \E i \in Item : Create(i)
  <2> PICK i \in Item : Create(i)
    BY <1>8
  <2>1. Clock'
    BY DEF Create, WindowInv, Clock
  <2>2. \A k \in Item : born'[k] = born[k] \/ (born[k] = Unborn /\ born'[k] = now)
    BY DEF Create, WindowInv, WindowTypeOK
  <2> QED BY <1>1, <1>2, <2>1, <2>2, OtherStep DEF Create
<1>9. CASE \E i \in Item : EndPosting(i)
  <2> PICK i \in Item : EndPosting(i)
    BY <1>9
  <2>1. Clock'
    BY DEF EndPosting, WindowInv, Clock
  <2>2. notified \subseteq notified'
    BY DEF EndPosting
  <2> QED BY <1>1, <1>2, <2>1, <2>2, OtherStep DEF EndPosting
<1>10. CASE \E i \in Item, delivered \in BOOLEAN : Tell(i, delivered)
  <2> PICK i \in Item, delivered \in BOOLEAN : Tell(i, delivered)
    BY <1>10
  <2>1. Clock'
    BY DEF Tell, WindowInv, Clock
  <2>2. notified \subseteq notified'
    BY DEF Tell
  <2>3. i \in list /\ list' \subseteq list \ {i}
    BY DEF Tell, Newest
  <2>4. \A k \in Item : told'[k] = told[k] \/ (k = i /\ told'[k] = told[k] + 1)
    BY DEF Tell, WindowInv, WindowTypeOK
  <2> QED BY <1>1, <1>2, <2>1, <2>2, <2>3, <2>4, OtherStep DEF Tell
<1>11. CASE UNCHANGED windowVars
  <2>1. Clock'
    BY <1>11 DEF windowVars, WindowInv, Clock
  <2> QED BY <1>1, <1>2, <1>11, <2>1, OtherStep DEF windowVars
<1> QED
  BY <1>3, <1>4, <1>5, <1>6, <1>7, <1>8, <1>9, <1>10, <1>11 DEF WindowNext

\* Nothing is born when the scheduler starts.
LEMMA WindowStart ==
  ASSUME WindowInit
  PROVE  WindowInv
<1>1. WindowTypeOK
  <2>1. born \in [Item -> {Unborn} \cup (0..LastMinute)]
    BY DEF WindowInit
  <2>2. now \in 0..LastMinute /\ due \in Nat /\ started \in Int
    BY DEF WindowInit
  <2> QED BY <2>1, <2>2 DEF WindowInit, WindowTypeOK
<1> QED
  BY <1>1 DEF WindowInit, WindowInv, Clock, Births, ToldIsListed, Spaced, Fresh, Unborn

\* What the invariant says of the two properties.
LEMMA WindowConclusions ==
  ASSUME WindowInv
  PROVE  NothingFallsThrough /\ ToldAsOftenAsWindowsOverlap
<1>1. NothingFallsThrough
  <2> SUFFICES ASSUME ~gap, NEW i \in Item, born[i] # Unborn, now - born[i] > Window[kind],
                      listed[i] = 0, i \notin notified
               PROVE  FALSE
    BY WindowNumbers DEF NothingFallsThrough, WindowInv
  <2>1. born[i] >= started
    BY DEF WindowInv, Fresh
  <2>2. started \in Int /\ now <= started + Period
    BY WindowNumbers DEF WindowInv, Clock
  <2> QED BY <2>1, <2>2, WindowNumbers DEF WindowInv
<1>2. ToldAsOftenAsWindowsOverlap
  <2> SUFFICES ASSUME NEW i \in Item
               PROVE  (told[i] - 1) * Period <= Window[kind]
    BY DEF ToldAsOftenAsWindowsOverlap
  <2>1. told[i] - 1 <= listed[i] - 1 /\ told[i] - 1 \in Int /\ listed[i] - 1 \in Int
    BY WindowNumbers DEF WindowInv, ToldIsListed
  <2>2. (told[i] - 1) * Period <= (listed[i] - 1) * Period
    BY <2>1, FewerIsLess
  <2>3. (listed[i] - 1) * Period <= Window[kind]
    <3>1. CASE listed[i] > 0
      BY <3>1 DEF WindowInv, Spaced
    <3>2. CASE listed[i] = 0
      <4>1. (listed[i] - 1) * Period = 0 - Period
        BY <3>2, WindowNumbers DEF WindowInv
      <4> QED BY <4>1, WindowNumbers DEF WindowInv
    <3> QED BY <3>1, <3>2, WindowNumbers DEF WindowInv
  <2>4. (told[i] - 1) * Period \in Int /\ (listed[i] - 1) * Period \in Int
    BY <2>1, WindowNumbers DEF WindowInv
  <2> QED BY <2>2, <2>3, <2>4, WindowNumbers DEF WindowInv
<1> QED BY <1>1, <1>2

(* Clock, runs and marks are always well formed.                            *)
THEOREM WindowTypeCorrect == WindowSpec => []WindowTypeOK
<1>1. WindowInit => WindowTypeOK
  BY WindowStart DEF WindowInv
<1> QED BY <1>1, WindowTypeStep, PTL DEF WindowSpec

(* Nothing leaves a window unread unless a run was left out or cut off.     *)
THEOREM NothingMissed == WindowSpec => []NothingFallsThrough
<1>1. WindowInv => NothingFallsThrough
  BY WindowConclusions
<1> QED BY <1>1, WindowStart, WindowStep, PTL DEF WindowSpec

(* Nothing is told more often than its window holds periods, and once more. *)
THEOREM ToldNoMoreOften == WindowSpec => []ToldAsOftenAsWindowsOverlap
<1>1. WindowInv => ToldAsOftenAsWindowsOverlap
  BY WindowConclusions
<1> QED BY <1>1, WindowStart, WindowStep, PTL DEF WindowSpec

USE ThresholdIsCount, CooldownIsMinutes, UpdatesAreFinite, LimitsAssumption, FinanceAssumption

-----------------------------------------------------------------------------
(* The watchdog: an error needs a handler that ran at the last heartbeat.   *)

\* Errors and handlers still running are no more than ran at the heartbeat.
ErrorsOfCrowd ==
  /\ errors + Cardinality(handling) <= crowd
  /\ crowd <= peak

WatchInv == WatchTypeOK /\ ErrorsOfCrowd /\ AlarmNeedsCrowd

\* The handlers that run are finitely many.
LEMMA HandlersAreFinite ==
  ASSUME NEW S, S \subseteq Update
  PROVE  IsFiniteSet(S) /\ Cardinality(S) \in Nat
BY FS_Subset, FS_CardinalityType

\* A handler that ends leaves one less.
LEMMA OneHandlerLess ==
  ASSUME WatchTypeOK, NEW u \in handling
  PROVE  Cardinality(handling \ {u}) = Cardinality(handling) - 1
BY HandlersAreFinite, FS_RemoveElement DEF WatchTypeOK

\* The invariant is inductive.
LEMMA WatchStep ==
  ASSUME WatchInv, [WatchNext]_watchVars
  PROVE  WatchInv'
<1>0. /\ errors \in Nat /\ crowd \in Nat /\ peak \in Nat /\ minute \in Nat
      /\ handling \subseteq Update /\ Cardinality(handling) \in Nat
  BY HandlersAreFinite DEF WatchInv, WatchTypeOK
<1>1. CASE \E u \in Update : BeginUpdate(u)
  <2> PICK u \in Update : BeginUpdate(u)
    BY <1>1
  <2>1. handling' \subseteq Update /\ Cardinality(handling') \in Nat
    <3>1. handling' \subseteq Update
      BY <1>0 DEF BeginUpdate
    <3> QED BY <3>1, HandlersAreFinite
  <2>2. /\ errors' = 0 /\ healthy' = TRUE /\ crowd' = Cardinality(handling')
        /\ peak' = (IF crowd' > peak THEN crowd' ELSE peak)
        /\ UNCHANGED <<minute, sample, lastAlert, alerts>>
    BY DEF BeginUpdate, AfterHeartbeat
  <2>3. peak' \in Nat /\ peak' >= peak /\ peak' >= crowd' /\ crowd' \in Nat
    BY <1>0, <2>1, <2>2
  <2>4. WatchTypeOK'
    BY <2>1, <2>2, <2>3 DEF WatchInv, WatchTypeOK
  <2>5. ErrorsOfCrowd'
    BY <2>1, <2>2, <2>3 DEF ErrorsOfCrowd
  <2>6. AlarmNeedsCrowd'
    BY <1>0, <2>2, <2>3 DEF WatchInv, AlarmNeedsCrowd
  <2> QED BY <2>4, <2>5, <2>6 DEF WatchInv
<1>2. CASE \E u \in Update : EndUpdate(u) \/ FailUpdate(u)
  <2> PICK u \in Update : EndUpdate(u) \/ FailUpdate(u)
    BY <1>2
  <2>1. /\ u \in handling /\ handling' = handling \ {u}
        /\ UNCHANGED <<minute, sample, lastAlert, alerts, crowd, peak>>
    BY DEF EndUpdate, FailUpdate
  <2>2. Cardinality(handling') = Cardinality(handling) - 1
    BY <2>1, OneHandlerLess DEF WatchInv
  <2>3. \/ errors' = errors /\ healthy' = healthy
        \/ errors' = errors + 1 /\ healthy' = (healthy /\ errors + 1 < Threshold)
    BY DEF EndUpdate, FailUpdate
  <2>a. healthy' \in BOOLEAN /\ (~healthy' => ~healthy \/ ~(errors + 1 < Threshold))
    BY <2>3, Zenon DEF WatchInv, WatchTypeOK
  <2>b. errors' \in Nat /\ (errors' = errors \/ errors' = errors + 1)
    BY <1>0, <2>3
  <2>4. WatchTypeOK'
    BY <2>1, <2>a, <2>b DEF WatchInv, WatchTypeOK
  <2>5. ErrorsOfCrowd'
    BY <1>0, <2>1, <2>2, <2>b DEF WatchInv, ErrorsOfCrowd
  <2>6. ~healthy' => crowd >= Threshold
    <3>1. ~healthy => crowd >= Threshold
      BY DEF WatchInv, AlarmNeedsCrowd
    <3>2. errors + 1 <= crowd
      <4>1. Cardinality(handling) >= 1
        BY <2>1, <2>2, HandlersAreFinite, <1>0
      <4> QED BY <1>0, <4>1 DEF WatchInv, ErrorsOfCrowd
    <3> QED BY <1>0, <2>a, <3>1, <3>2
  <2>7. AlarmNeedsCrowd'
    BY <2>1, <2>6 DEF WatchInv, AlarmNeedsCrowd
  <2> QED BY <2>4, <2>5, <2>7 DEF WatchInv
<1>3. CASE CheckHealth
  <2>1. WatchTypeOK'
    BY <1>0, <1>3 DEF CheckHealth, WatchInv, WatchTypeOK
  <2>2. ErrorsOfCrowd'
    BY <1>3 DEF CheckHealth, WatchInv, ErrorsOfCrowd
  <2>3. AlarmNeedsCrowd'
    BY <1>0, <1>3 DEF CheckHealth, WatchInv, AlarmNeedsCrowd, ErrorsOfCrowd
  <2> QED BY <2>1, <2>2, <2>3 DEF WatchInv
<1>4. CASE (\E delivered \in BOOLEAN : RaiseAlert(delivered)) \/ StaySilent
  <2>1. WatchTypeOK'
    BY <1>0, <1>4 DEF RaiseAlert, StaySilent, WatchInv, WatchTypeOK
  <2>2. ErrorsOfCrowd'
    BY <1>4 DEF RaiseAlert, StaySilent, WatchInv, ErrorsOfCrowd
  <2>3. AlarmNeedsCrowd'
    BY <1>4 DEF RaiseAlert, StaySilent, WatchInv, AlarmNeedsCrowd
  <2> QED BY <2>1, <2>2, <2>3 DEF WatchInv
<1>5. CASE UNCHANGED watchVars
  BY <1>5 DEF watchVars, WatchInv, WatchTypeOK, ErrorsOfCrowd, AlarmNeedsCrowd
<1> QED BY <1>1, <1>2, <1>3, <1>4, <1>5 DEF WatchNext

\* Nothing has failed at first.
LEMMA WatchStart ==
  ASSUME WatchInit
  PROVE  WatchInv
BY FS_EmptySet DEF WatchInit, WatchInv, WatchTypeOK, ErrorsOfCrowd, AlarmNeedsCrowd

(* The bot is called unhealthy, and its administrator alarmed, only after a *)
(* crowd of handlers that all failed.                                       *)
THEOREM NoAlarmWithoutCrowd == WatchSpec => []AlarmNeedsCrowd
<1>1. WatchInv => AlarmNeedsCrowd
  BY DEF WatchInv
<1> QED BY <1>1, WatchStart, WatchStep, PTL DEF WatchSpec

-----------------------------------------------------------------------------
(* The rate limit: who gives the counter its time to live.                  *)

\* A counter nobody owes a time to live has one, and it ends within a window
\* of the request that set it.
TimedOrOwed ==
  (count > 0 /\ ~spared /\ \A e \in Endpoint : call[e] # 1) =>
    ttl >= 1 /\ second + ttl <= begun + Span

LimitsInv == LimitsTypeOK /\ TimedOrOwed

\* The invariant is inductive.
LEMMA LimitsStep ==
  ASSUME LimitsInv, [LimitsNext]_limitVars
  PROVE  LimitsInv'
<1>0. /\ second \in Nat /\ second <= LastSecond /\ count \in Nat /\ ttl \in Int /\ begun \in Nat
      /\ Span \in Nat /\ Span >= 1 /\ LastSecond \in Nat
      /\ \A e \in Endpoint : call[e] \in Nat
  BY DEF LimitsInv, LimitsTypeOK, Forever
<1>1. CASE Second
  <2>1. second' = second + 1 /\ second < LastSecond /\ UNCHANGED <<call, begun, spared, verdict>>
    BY <1>1 DEF Second
  <2>2. count' = (IF ttl = 1 THEN 0 ELSE count) /\ ttl' = (IF ttl > 1 THEN ttl - 1 ELSE Forever)
    BY <1>1 DEF Second
  <2>3. ttl' \in {Forever} \cup 0..Span
    BY <1>0, <2>2 DEF LimitsInv, LimitsTypeOK, Forever
  <2>4. LimitsTypeOK'
    BY <1>0, <2>1, <2>2, <2>3 DEF LimitsInv, LimitsTypeOK
  <2>5. TimedOrOwed'
    <3> SUFFICES ASSUME count' > 0, ~spared, \A e \in Endpoint : call[e] # 1
                 PROVE  ttl' >= 1 /\ second' + ttl' <= begun + Span
      BY <2>1 DEF TimedOrOwed
    <3>1. ttl # 1 /\ count > 0
      BY <2>2
    <3>2. ttl >= 1 /\ second + ttl <= begun + Span
      BY <3>1 DEF LimitsInv, TimedOrOwed
    <3>3. ttl' = ttl - 1
      BY <1>0, <2>2, <3>1, <3>2 DEF Forever
    <3> QED BY <1>0, <2>1, <3>1, <3>2, <3>3
  <2> QED BY <2>4, <2>5 DEF LimitsInv
<1>2. CASE \E e \in Endpoint : Incr(e)
  <2> PICK e \in Endpoint : Incr(e)
    BY <1>2
  <2>1. /\ call[e] = 0 /\ count' = count + 1 /\ call' = [call EXCEPT ![e] = count + 1]
        /\ begun' = (IF count = 0 THEN second ELSE begun)
        /\ UNCHANGED <<second, ttl, spared, verdict>>
    BY DEF Incr
  <2>2. LimitsTypeOK'
    BY <1>0, <2>1 DEF LimitsInv, LimitsTypeOK
  <2>3. call'[e] = count + 1 /\ \A d \in Endpoint \ {e} : call'[d] = call[d]
    BY <2>1 DEF LimitsInv, LimitsTypeOK
  <2>4. TimedOrOwed'
    BY <1>0, <2>1, <2>3 DEF LimitsInv, TimedOrOwed
  <2> QED BY <2>2, <2>4 DEF LimitsInv
<1>3. CASE \E e \in Endpoint : Judge(e)
  <2> PICK e \in Endpoint : Judge(e)
    BY <1>3
  <2>1. /\ ttl' = (IF call[e] = 1 /\ count > 0 THEN Span ELSE ttl)
        /\ call' = [call EXCEPT ![e] = 0]
        /\ begun' = (IF call[e] = 1 THEN second ELSE begun)
        /\ UNCHANGED <<second, count, spared>>
    BY DEF Judge, FirstOfWindow
  <2>2. LimitsTypeOK'
    BY <1>0, <2>1 DEF Judge, LimitsInv, LimitsTypeOK
  <2>3. call'[e] = 0 /\ \A d \in Endpoint \ {e} : call'[d] = call[d]
    BY <2>1 DEF LimitsInv, LimitsTypeOK
  <2>4. TimedOrOwed'
    <3>1. CASE call[e] = 1
      BY <1>0, <2>1, <3>1 DEF TimedOrOwed
    <3>2. CASE call[e] # 1
      BY <1>0, <2>1, <2>3, <3>2 DEF LimitsInv, TimedOrOwed
    <3> QED BY <3>1, <3>2
  <2> QED BY <2>2, <2>4 DEF LimitsInv
<1>4. CASE \E e \in Endpoint : FailOpen(e)
  <2> PICK e \in Endpoint : FailOpen(e)
    BY <1>4
  <2>1. /\ call' = [call EXCEPT ![e] = 0] /\ spared' = (spared \/ call[e] = 1)
        /\ UNCHANGED <<second, count, ttl, begun>>
    BY DEF FailOpen
  <2>2. LimitsTypeOK'
    BY <1>0, <2>1 DEF FailOpen, LimitsInv, LimitsTypeOK
  <2>3. call'[e] = 0 /\ \A d \in Endpoint \ {e} : call'[d] = call[d]
    BY <2>1 DEF LimitsInv, LimitsTypeOK
  <2>4. TimedOrOwed'
    BY <1>0, <2>1, <2>3 DEF LimitsInv, TimedOrOwed
  <2> QED BY <2>2, <2>4 DEF LimitsInv
<1>5. CASE UNCHANGED limitVars
  BY <1>5 DEF limitVars, LimitsInv, LimitsTypeOK, TimedOrOwed
<1> QED BY <1>1, <1>2, <1>3, <1>4, <1>5 DEF LimitsNext

\* No address has asked at first.
LEMMA LimitsStart ==
  ASSUME LimitsInit
  PROVE  LimitsInv
<1>1. second \in 0..LastSecond /\ begun \in 0..LastSecond /\ count \in Nat /\ ttl = Forever
  BY DEF LimitsInit
<1>2. LimitsTypeOK
  BY <1>1 DEF LimitsInit, LimitsTypeOK
<1> QED BY <1>2 DEF LimitsInit, LimitsInv, TimedOrOwed

(* Requests are counted no longer than a window, unless Redis failed the    *)
(* first of them or it is still on its way.                                 *)
THEOREM CounterEnds == LimitsSpec => []CounterLives
<1>1. ASSUME LimitsInv
      PROVE  CounterLives
  <2> SUFFICES ASSUME count > 0, ~spared, \A e \in Endpoint : call[e] # 1
               PROVE  second < begun + Span
    BY DEF CounterLives
  <2>1. ttl >= 1 /\ second + ttl <= begun + Span
    BY <1>1 DEF LimitsInv, TimedOrOwed
  <2>2. second \in Int /\ ttl \in Int /\ begun \in Int /\ Span \in Int
    BY <1>1 DEF LimitsInv, LimitsTypeOK, Forever
  <2> QED BY <2>1, <2>2
<1> QED BY <1>1, LimitsStart, LimitsStep, PTL DEF LimitsSpec

-----------------------------------------------------------------------------
(* The ledger: what the hourly job reads is still true of the past when it  *)
(* commits.                                                                 *)

\* Unpaid transactions that are late have been noted as such.
LateIsTardy ==
  \A t \in Txn : ledger[t].status \in Unpaid /\ Late(t, hour) => t \in tardy

\* So have those the job has read, and found late for its own time.
TodoIsTardy ==
  \A t \in check.todo :
    ledger[t].status # "none" /\ (Late(t, check.since) => t \in tardy)

RowsAreTardy ==
  \A r \in blacked \cup check.rows : r[2] \in tardy /\ r[1] \in Phone

OneRowEach ==
  \A r, q \in blacked \cup check.rows : r[1] = q[1] => r = q

FinanceInv == FinanceTypeOK /\ LateIsTardy /\ TodoIsTardy /\ RowsAreTardy /\ OneRowEach

\* The fields of the ledger and of the job.
LEMMA FinanceFields ==
  ASSUME FinanceTypeOK
  PROVE  /\ hour \in Nat /\ LastHour \in Nat /\ check.since \in Int
         /\ check.todo \subseteq Txn /\ check.fined \subseteq Txn /\ check.rows \subseteq Rows
         /\ \A t \in Txn : /\ ledger[t].status \in TxnStatus \cup {"none"}
                           /\ ledger[t].deadline \in Nat /\ ledger[t].penalty \in BOOLEAN
BY DEF FinanceTypeOK

\* A step that leaves the black list and the job alone, keeps the deadlines of
\* what exists, and notes whatever becomes late.
LEMMA LedgerStep ==
  ASSUME FinanceInv, FinanceTypeOK', LateIsTardy', UNCHANGED <<blacked, check>>,
         tardy \subseteq tardy',
         \A t \in Txn : ledger[t].status # "none" =>
           ledger'[t].status # "none" /\ ledger'[t].deadline = ledger[t].deadline
  PROVE  FinanceInv'
<1>1. TodoIsTardy'
  BY FinanceFields DEF FinanceInv, TodoIsTardy, Late
<1>2. RowsAreTardy' /\ OneRowEach'
  BY DEF FinanceInv, RowsAreTardy, OneRowEach
<1> QED BY <1>1, <1>2 DEF FinanceInv

\* The hour strikes.
LEMMA HourStep ==
  ASSUME FinanceInv, Hour
  PROVE  FinanceInv'
<1>1. FinanceTypeOK'
  BY DEF Hour, FinanceInv, FinanceTypeOK
<1>2. LateIsTardy'
  BY DEF Hour, LateIsTardy, Late
<1> QED BY <1>1, <1>2, LedgerStep DEF Hour

\* A transaction is created on time.
LEMMA CreateStep ==
  ASSUME FinanceInv, NEW t \in Txn, NEW d \in Days, CreateTransaction(t, d)
  PROVE  FinanceInv'
<1> DEFINE r == [status |-> "delivered", deadline |-> hour + d, penalty |-> FALSE]
<1>1. hour \in Nat /\ d \in Nat
  BY FinanceFields DEF FinanceInv
<1>2. /\ ledger'[t] = r /\ \A s \in Txn \ {t} : ledger'[s] = ledger[s]
      /\ ledger[t].status = "none"
      /\ UNCHANGED <<hour, blacked, check, tardy, toldBlocked>>
  BY DEF CreateTransaction, NotCreated, FinanceInv, FinanceTypeOK
<1>3. r \in [status : TxnStatus \cup {"none"}, deadline : Nat, penalty : BOOLEAN]
  BY <1>1 DEF TxnStatus, Unpaid
<1>4. ledger' \in [Txn -> [status : TxnStatus \cup {"none"}, deadline : Nat, penalty : BOOLEAN]]
  BY <1>3 DEF CreateTransaction, FinanceInv, FinanceTypeOK
<1>5. FinanceTypeOK'
  BY <1>2, <1>4 DEF FinanceInv, FinanceTypeOK
<1>6. LateIsTardy'
  <2> SUFFICES ASSUME NEW s \in Txn, ledger'[s].status \in Unpaid, Late(s, hour)'
               PROVE  s \in tardy'
    BY DEF LateIsTardy
  <2>1. CASE s = t
    BY <1>1, <1>2, <2>1 DEF Late
  <2>2. CASE s # t
    BY <1>2, <2>2 DEF FinanceInv, LateIsTardy, Late
  <2> QED BY <2>1, <2>2
<1> QED BY <1>2, <1>5, <1>6, LedgerStep

\* Any status follows any other.
LEMMA StatusStep ==
  ASSUME FinanceInv, NEW t \in Txn, NEW s \in TxnStatus, UpdateStatus(t, s)
  PROVE  FinanceInv'
<1>1. /\ ledger'[t].status = s /\ ledger'[t].deadline = ledger[t].deadline
      /\ \A u \in Txn \ {t} : ledger'[u] = ledger[u]
      /\ ledger' \in [Txn -> [status : TxnStatus \cup {"none"}, deadline : Nat, penalty : BOOLEAN]]
  BY DEF UpdateStatus, FinanceInv, FinanceTypeOK
<1>2. /\ tardy' = tardy \cup (IF s \in Unpaid /\ Late(t, hour) THEN {t} ELSE {})
      /\ UNCHANGED <<hour, blacked, check, toldBlocked>>
  BY DEF UpdateStatus
<1>3. FinanceTypeOK'
  BY <1>1, <1>2 DEF FinanceInv, FinanceTypeOK
<1>4. LateIsTardy'
  <2> SUFFICES ASSUME NEW u \in Txn, ledger'[u].status \in Unpaid, Late(u, hour)'
               PROVE  u \in tardy'
    BY DEF LateIsTardy
  <2>1. CASE u = t
    BY <1>1, <1>2, <2>1 DEF Late
  <2>2. CASE u # t
    BY <1>1, <1>2, <2>2 DEF FinanceInv, LateIsTardy, Late
  <2> QED BY <2>1, <2>2
<1>5. s # "none"
  BY DEF TxnStatus, Unpaid
<1> QED BY <1>1, <1>2, <1>3, <1>4, <1>5, LedgerStep

\* The job has nothing in hand.
LEMMA IdleCheckStep ==
  ASSUME FinanceInv, FinanceTypeOK', LateIsTardy', check' = NoCheck, tardy' = tardy,
         blacked' \subseteq blacked \cup check.rows
  PROVE  FinanceInv'
<1>1. check'.todo = {} /\ check'.rows = {}
  BY DEF NoCheck
<1> QED BY <1>1 DEF FinanceInv, TodoIsTardy, RowsAreTardy, OneRowEach

\* The job reads what is overdue.
LEMMA StartCheckStep ==
  ASSUME FinanceInv, StartCheck
  PROVE  FinanceInv'
<1> DEFINE overdue == {t \in Txn : Overdue(t) /\ ledger[t].deadline < hour /\ ~ledger[t].penalty}
<1>1. /\ UNCHANGED <<hour, ledger, blacked, tardy, toldBlocked>>
      /\ check' = IF overdue = {} THEN NoCheck ELSE [NoCheck EXCEPT !.since = hour, !.todo = overdue]
  BY DEF StartCheck
<1>2. LateIsTardy'
  BY <1>1 DEF FinanceInv, LateIsTardy, Late
<1>3. CASE overdue = {}
  <2>1. check' = NoCheck
    BY <1>1, <1>3
  <2>2. NoCheck \in [since : Int, todo : SUBSET Txn, fined : SUBSET Txn, rows : SUBSET Rows]
    BY DEF NoCheck
  <2>3. FinanceTypeOK'
    BY <1>1, <2>1, <2>2, Zenon DEF FinanceInv, FinanceTypeOK
  <2> QED BY <1>1, <1>2, <2>1, <2>3, IdleCheckStep
<1>4. CASE overdue # {}
  <2>1. check' = [since |-> hour, todo |-> overdue, fined |-> {}, rows |-> {}]
    BY <1>1, <1>4 DEF NoCheck
  <2>2. overdue \subseteq Txn /\ hour \in Int
    BY FinanceFields DEF FinanceInv
  <2>3. FinanceTypeOK'
    <3> HIDE DEF overdue
    <3>1. check' \in [since : Int, todo : SUBSET Txn, fined : SUBSET Txn, rows : SUBSET Rows]
      BY <2>1, <2>2
    <3> QED BY <1>1, <3>1 DEF FinanceInv, FinanceTypeOK
  <2>4. TodoIsTardy'
    <3> SUFFICES ASSUME NEW t \in overdue
                 PROVE  ledger[t].status # "none" /\ (Late(t, hour) => t \in tardy)
      BY <1>1, <2>1 DEF TodoIsTardy, Late
    <3>1. ledger[t].status \in Unpaid /\ t \in Txn
      BY DEF Overdue
    <3> QED BY <3>1 DEF FinanceInv, LateIsTardy, Unpaid
  <2>5. RowsAreTardy' /\ OneRowEach'
    <3> HIDE DEF overdue
    <3>1. check'.rows = {}
      BY <2>1
    <3>2. UNCHANGED <<blacked, tardy>>
      BY DEF StartCheck
    <3> QED BY <3>1, <3>2 DEF FinanceInv, RowsAreTardy, OneRowEach
  <2> QED BY <1>2, <2>3, <2>4, <2>5 DEF FinanceInv
<1> QED BY <1>3, <1>4

\* The job adds a row for a phone that has none.
LEMMA PenalizeStep ==
  ASSUME FinanceInv, NEW t \in Txn, Penalize(t)
  PROVE  FinanceInv'
<1> DEFINE fined == Late(t, check.since) /\ PhoneOf[t] # NoPhone
           newFined == check.fined \cup (IF fined THEN {t} ELSE {})
           newRow == IF fined /\ Unlisted(t) THEN {<<PhoneOf[t], t>>} ELSE {}
           newRows == check.rows \cup newRow
<1>1. /\ t \in check.todo
      /\ check' = [check EXCEPT !.todo = check.todo \ {t}, !.fined = newFined, !.rows = newRows]
      /\ UNCHANGED <<hour, ledger, blacked, tardy>>
      /\ toldBlocked' \subseteq toldBlocked \cup {t}
  BY DEF Penalize
<1>2. check.todo \subseteq Txn /\ newFined \subseteq Txn /\ newRows \subseteq Rows
  <2>1. check.fined \subseteq Txn /\ check.rows \subseteq Rows /\ check.todo \subseteq Txn
    BY FinanceFields DEF FinanceInv
  <2>2. fined => PhoneOf[t] \in Phone
    OBVIOUS
  <2> QED BY <2>1, <2>2 DEF Rows
<1>3. newRow # {} => /\ newRow = {<<PhoneOf[t], t>>} /\ t \in tardy /\ PhoneOf[t] \in Phone
                    /\ \A r \in blacked \cup check.rows : r[1] # PhoneOf[t]
  BY <1>1 DEF FinanceInv, TodoIsTardy, Unlisted
<1> HIDE DEF newFined, newRow
<1>4. /\ check'.todo = check.todo \ {t} /\ check'.rows = newRows /\ check'.fined = newFined
      /\ check'.since = check.since
      /\ check' \in [since : Int, todo : SUBSET Txn, fined : SUBSET Txn, rows : SUBSET Rows]
  BY <1>1, <1>2 DEF FinanceInv, FinanceTypeOK
<1>5. FinanceTypeOK'
  BY <1>1, <1>4 DEF FinanceInv, FinanceTypeOK
<1>6. LateIsTardy' /\ TodoIsTardy'
  BY <1>1, <1>4 DEF FinanceInv, LateIsTardy, TodoIsTardy, Late
<1>7. RowsAreTardy'
  BY <1>1, <1>3, <1>4 DEF FinanceInv, RowsAreTardy
<1>8. OneRowEach'
  BY <1>1, <1>3, <1>4 DEF FinanceInv, OneRowEach
<1> QED BY <1>5, <1>6, <1>7, <1>8 DEF FinanceInv

\* The job commits its rows, or loses them.
LEMMA EndCheckStep ==
  ASSUME FinanceInv, CommitCheck \/ FailCheck
  PROVE  FinanceInv'
<1>1. /\ check' = NoCheck /\ UNCHANGED <<hour, tardy, toldBlocked>>
      /\ blacked' \subseteq blacked \cup check.rows
  BY DEF CommitCheck, FailCheck
<1>2. /\ ledger' \in [Txn -> [status : TxnStatus \cup {"none"}, deadline : Nat, penalty : BOOLEAN]]
      /\ \A t \in Txn : /\ ledger'[t].status = ledger[t].status
                        /\ ledger'[t].deadline = ledger[t].deadline
  <2>1. CASE CommitCheck
    <3>1. ledger' = [t \in Txn |-> IF t \in check.fined THEN [ledger[t] EXCEPT !.penalty = TRUE]
                                                        ELSE ledger[t]]
      BY <2>1 DEF CommitCheck
    <3>2. \A x \in [status : TxnStatus \cup {"none"}, deadline : Nat, penalty : BOOLEAN] :
            /\ [x EXCEPT !.penalty = TRUE] \in
                 [status : TxnStatus \cup {"none"}, deadline : Nat, penalty : BOOLEAN]
            /\ [x EXCEPT !.penalty = TRUE].status = x.status
            /\ [x EXCEPT !.penalty = TRUE].deadline = x.deadline
      OBVIOUS
    <3> QED BY <3>1, <3>2 DEF FinanceInv, FinanceTypeOK
  <2>2. CASE FailCheck
    BY <2>2 DEF FailCheck, FinanceInv, FinanceTypeOK
  <2> QED BY <2>1, <2>2
<1>3. FinanceTypeOK'
  <2>1. NoCheck \in [since : Int, todo : SUBSET Txn, fined : SUBSET Txn, rows : SUBSET Rows]
    BY DEF NoCheck
  <2>2. blacked' \subseteq Rows
    BY <1>1, FinanceFields DEF FinanceInv, FinanceTypeOK
  <2> QED BY <1>1, <1>2, <2>1, <2>2 DEF FinanceInv, FinanceTypeOK
<1>4. LateIsTardy'
  BY <1>1, <1>2 DEF FinanceInv, LateIsTardy, Late
<1> QED BY <1>1, <1>3, <1>4, IdleCheckStep

\* The invariant is inductive.
LEMMA FinanceStep ==
  ASSUME FinanceInv, [FinanceNext]_financeVars
  PROVE  FinanceInv'
<1>1. CASE UNCHANGED financeVars
  BY <1>1 DEF financeVars, FinanceInv, FinanceTypeOK, LateIsTardy, TodoIsTardy, RowsAreTardy,
              OneRowEach, Late
<1> QED
  BY <1>1, HourStep, CreateStep, StatusStep, StartCheckStep, PenalizeStep, EndCheckStep
  DEF FinanceNext

\* The ledger is empty at first.
LEMMA FinanceStart ==
  ASSUME FinanceInit
  PROVE  FinanceInv
<1>1. NotCreated \in [status : TxnStatus \cup {"none"}, deadline : Nat, penalty : BOOLEAN]
  BY DEF NotCreated
<1>2. NoCheck \in [since : Int, todo : SUBSET Txn, fined : SUBSET Txn, rows : SUBSET Rows]
  BY DEF NoCheck
<1>3. FinanceTypeOK
  BY <1>1, <1>2 DEF FinanceInit, FinanceTypeOK
<1>4. LateIsTardy
  BY DEF FinanceInit, LateIsTardy, NotCreated, Unpaid
<1> QED BY <1>3, <1>4 DEF FinanceInit, FinanceInv, TodoIsTardy, RowsAreTardy, OneRowEach, NoCheck

(* A phone is blocked once, and for a payment that really was late.         *)
THEOREM BlockedFairly == FinanceSpec => []BlockedOnceAndLate
<1>1. FinanceInv => BlockedOnceAndLate
  BY DEF FinanceInv, RowsAreTardy, OneRowEach, BlockedOnceAndLate
<1> QED BY <1>1, FinanceStart, FinanceStep, PTL DEF FinanceSpec
=============================================================================

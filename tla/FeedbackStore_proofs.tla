------------------------ MODULE FeedbackStore_proofs ------------------------
(***************************************************************************)
(* Theorems about FeedbackStore, for any number of workers, traces,        *)
(* answers and feedback requests.                                          *)
(***************************************************************************)
EXTENDS FeedbackStore, TLAPS

-----------------------------------------------------------------------------
(***************************************************************************)
(* Workers.                                                                *)
(***************************************************************************)
Asking   == {"recording", "recorded"}
Handling == {"selecting", "storing", "stored"}

LEMMA WorkerFields ==
    ASSUME NEW h \in Worker
    PROVE  /\ h.pc \in {"idle"} \union Asking \union Handling
           /\ h.pc = "idle" <=> h = Idle
           /\ h.pc \in Asking => h.trace \in Traces /\ h.response \in Responses
           /\ h.pc \in Handling => h.id \in 1..MaxFeedback /\ h.row \in Run \union {NoRun}
  BY DEF Worker, Idle, Asking, Handling

LEMMA AskingWorker ==
    ASSUME NEW t \in Traces, NEW r \in Responses
    PROVE  LET h == [pc |-> "recording", trace |-> t, response |-> r]
           IN h \in Worker /\ h.pc = "recording" /\ h.trace = t /\ h.response = r
  BY DEF Worker

LEMMA HandlingWorker ==
    ASSUME NEW pc \in Handling, NEW id \in 1..MaxFeedback, NEW row \in Run \union {NoRun}
    PROVE  LET h == [pc |-> pc, id |-> id, row |-> row]
           IN h \in Worker /\ h.pc = pc /\ h.id = id /\ h.row = row
  BY DEF Worker, Handling

LEMMA WorkerGoesOn ==
    ASSUME NEW h \in Worker
    PROVE  /\ h.pc \in Asking =>
                LET g == [h EXCEPT !.pc = "recorded"]
                IN /\ g \in Worker /\ g.pc = "recorded"
                   /\ g.trace = h.trace /\ g.response = h.response
           /\ h.pc \in Handling =>
                LET g == [h EXCEPT !.pc = "stored"]
                IN /\ g \in Worker /\ g.pc = "stored"
                   /\ g.id = h.id /\ g.row = h.row
  <1>1. CASE h.pc \in Asking
    <2>1. h \in [pc : Asking, trace : Traces, response : Responses]
      BY <1>1 DEF Worker, Asking
    <2>2. LET g == [h EXCEPT !.pc = "recorded"]
          IN /\ g \in [pc : Asking, trace : Traces, response : Responses]
             /\ g.pc = "recorded" /\ g.trace = h.trace /\ g.response = h.response
      BY <2>1 DEF Asking
    <2> QED BY <1>1, <2>2 DEF Worker, Asking, Handling
  <1>2. CASE h.pc \in Handling
    <2>1. h \in [pc : Handling, id : 1..MaxFeedback, row : Run \union {NoRun}]
      BY <1>2 DEF Worker, Handling
    <2>2. LET g == [h EXCEPT !.pc = "stored"]
          IN /\ g \in [pc : Handling, id : 1..MaxFeedback, row : Run \union {NoRun}]
             /\ g.pc = "stored" /\ g.id = h.id /\ g.row = h.row
      BY <2>1 DEF Handling
    <2> QED BY <1>2, <2>2 DEF Worker, Asking, Handling
  <1> QED BY <1>1, <1>2

-----------------------------------------------------------------------------
(***************************************************************************)
(* The inductive invariant.                                                *)
(***************************************************************************)
\* The log has the feedback of number i, as RecordedIsStored wants it.
Logged(i) ==
    \E e \in events :
        /\ e.id = i
        /\ e.trace = opinion[i].trace
        /\ e.rating = opinion[i].rating
        /\ e.correction = opinion[i].correction
        /\ \/ e.response = opinion[i].response
           \/ ~opinion[i].quoted /\ e.trace = NoTrace
           \/ ~opinion[i].quoted /\ runs[e.trace] = NoRun
           \/ ~opinion[i].quoted /\ asked[e.trace] = Many

Typed ==
    /\ runs \in [Traces -> Run \union {NoRun}]
    /\ events \subseteq Event
    /\ worker \in [Workers -> Worker]
    /\ asked \in [Traces -> 0..Many]
    /\ delivered \subseteq Delivery
    /\ opinion \in Seq(Opinion)
    /\ status \in Seq(Status) /\ Len(status) = Len(opinion)

Corrected ==
    \A t \in Traces :
        runs[t] # NoRun /\ runs[t].correction # NoText => runs[t].rating # NoRating

Asks(w, t) == worker[w].pc \in Asking /\ worker[w].trace = t

\* As long as one query carried a trace id, there is one answer to it.
Single(t) ==
    asked[t] # Many =>
        /\ \A d, e \in delivered : d.trace = t /\ e.trace = t => d.response = e.response
        /\ \A d \in delivered :
              d.trace = t /\ runs[t] # NoRun => d.response = runs[t].response
        /\ \A w \in Workers : Asks(w, t) =>
              /\ \A d \in delivered : d.trace # t
              /\ \A v \in Workers : Asks(v, t) => v = w
              /\ runs[t] # NoRun => worker[w].response = runs[t].response
        /\ asked[t] = 0 =>
              /\ \A d \in delivered : d.trace # t
              /\ \A w \in Workers : ~Asks(w, t)
              /\ runs[t] = NoRun

\* A feedback that names a trace is about an answer delivered under it.
Judged ==
    \A i \in 1..Len(opinion) : opinion[i].trace # NoTrace =>
        \E d \in delivered : d.trace = opinion[i].trace /\ d.response = opinion[i].response

\* What the log says, a client said.
Truthful ==
    \A e \in events :
        /\ e.id \in 1..Len(opinion)
        /\ e.trace = opinion[e.id].trace
        /\ e.rating = opinion[e.id].rating
        /\ e.correction = opinion[e.id].correction

\* A worker that handles feedback knows which, and the run it loaded is still
\* there, with a rating if it had one.
Loaded(w) ==
    LET h == worker[w]
        t == opinion[h.id].trace
    IN h.pc \in Handling =>
         /\ h.id \in 1..Len(opinion)
         /\ h.pc = "selecting" => t \in Traces
         /\ h.row # NoRun =>
              /\ t \in Traces /\ runs[t] # NoRun
              /\ h.row.response = runs[t].response
              /\ h.row.rating # NoRating => runs[t].rating # NoRating
         /\ h.row = NoRun /\ h.pc # "selecting" /\ t # NoTrace =>
              runs[t] = NoRun \/ asked[t] = Many
         /\ h.pc = "stored" => Logged(h.id)

Inv ==
    /\ Typed
    /\ Corrected
    /\ \A t \in Traces : Single(t)
    /\ Judged
    /\ Truthful
    /\ \A w \in Workers : Loaded(w)
    /\ \A i \in 1..Len(opinion) : status[i] = "recorded" => Logged(i)

-----------------------------------------------------------------------------
(***************************************************************************)
(* The actions, one by one.                                                *)
(***************************************************************************)
LEMMA QueryShape ==
    ASSUME Typed, NEW w \in Workers, NEW t \in Traces, NEW r \in Responses,
           Query(w, t, r)
    PROVE  /\ worker[w] = Idle /\ worker'[w].pc = "recording"
           /\ worker'[w].trace = t /\ worker'[w].response = r
           /\ \A v \in Workers \ {w} : worker'[v] = worker[v]
           /\ \A u \in Traces \ {t} : asked'[u] = asked[u]
           /\ asked[t] = 0 => asked'[t] = 1
           /\ asked[t] # 0 => asked'[t] = Many
           /\ Typed'
  <1> DEFINE h == [pc |-> "recording", trace |-> t, response |-> r]
  <1>1. h \in Worker /\ h.pc = "recording" /\ h.trace = t /\ h.response = r
    BY AskingWorker
  <1>2. worker[w] = Idle /\ worker' = [worker EXCEPT ![w] = h]
        /\ UNCHANGED <<runs, events, delivered, opinion, status>>
    BY DEF Query
  <1> HIDE DEF h
  <1>3. worker' \in [Workers -> Worker] /\ worker'[w] = h
        /\ \A v \in Workers \ {w} : worker'[v] = worker[v]
    BY <1>1, <1>2 DEF Typed
  <1>4. asked[t] \in 0..2 /\ asked' = [asked EXCEPT ![t] = IF asked[t] = 2 THEN 2 ELSE asked[t] + 1]
    BY DEF Typed, Query, Count, Many
  <1>5. /\ asked' \in [Traces -> 0..Many]
        /\ \A u \in Traces \ {t} : asked'[u] = asked[u]
        /\ asked[t] = 0 => asked'[t] = 1
        /\ asked[t] # 0 => asked'[t] = Many
    BY <1>4 DEF Typed, Many
  <1> QED BY <1>1, <1>2, <1>3, <1>5 DEF Typed

LEMMA RecordRunShape ==
    ASSUME Typed, NEW w \in Workers, RecordRun(w)
    PROVE  LET t == worker[w].trace
           IN /\ Asks(w, t) /\ t \in Traces /\ worker'[w].pc = "recorded"
              /\ worker'[w].trace = t /\ worker'[w].response = worker[w].response
              /\ \A v \in Workers \ {w} : worker'[v] = worker[v]
              /\ runs[t] = NoRun /\ runs'[t] # NoRun
              /\ runs'[t].response = worker[w].response
              /\ runs'[t].correction = NoText
              /\ \A u \in Traces \ {t} : runs'[u] = runs[u]
              /\ Typed'
  <1> DEFINE q == worker[w]
             t == q.trace
             run == [response |-> q.response, rating |-> NoRating, correction |-> NoText]
  <1>1. q \in Worker /\ q.pc = "recording" /\ q.pc \in Asking
    BY DEF Typed, RecordRun, Asking
  <1>2. t \in Traces /\ q.response \in Responses
    BY <1>1, WorkerFields
  <1>3. run \in Run /\ run # NoRun /\ run.response = q.response /\ run.correction = NoText
    BY <1>2, NoSuchRun DEF Run, Text
  <1>4. /\ runs[t] = NoRun
        /\ runs' = [runs EXCEPT ![t] = run]
        /\ worker' = [worker EXCEPT ![w] = [q EXCEPT !.pc = "recorded"]]
        /\ UNCHANGED <<events, asked, delivered, opinion, status>>
    BY DEF RecordRun
  <1>5. LET g == [q EXCEPT !.pc = "recorded"]
        IN g \in Worker /\ g.pc = "recorded" /\ g.trace = t /\ g.response = q.response
    BY <1>1, WorkerGoesOn
  <1> HIDE DEF run
  <1>6. /\ runs' \in [Traces -> Run \union {NoRun}] /\ runs'[t] = run
        /\ \A u \in Traces \ {t} : runs'[u] = runs[u]
    BY <1>2, <1>3, <1>4 DEF Typed
  <1>7. /\ worker' \in [Workers -> Worker]
        /\ worker'[w].pc = "recorded" /\ worker'[w].trace = t
        /\ worker'[w].response = q.response
        /\ \A v \in Workers \ {w} : worker'[v] = worker[v]
    BY <1>4, <1>5 DEF Typed
  <1> QED BY <1>1, <1>2, <1>3, <1>4, <1>6, <1>7 DEF Typed, Asks

LEMMA DeliverShape ==
    ASSUME Typed, NEW w \in Workers, Deliver(w)
    PROVE  LET t == worker[w].trace
           IN /\ Asks(w, t) /\ t \in Traces /\ worker'[w] = Idle
              /\ \A v \in Workers \ {w} : worker'[v] = worker[v]
              /\ \E d : /\ delivered' = delivered \union {d}
                        /\ d.trace = t /\ d.response = worker[w].response
              /\ Typed'
  <1> DEFINE q == worker[w]
             t == q.trace
             d == [trace |-> t, response |-> q.response]
  <1>1. q \in Worker /\ q.pc \in Asking
    BY DEF Typed, Deliver, Asking
  <1>2. t \in Traces /\ q.response \in Responses
    BY <1>1, WorkerFields
  <1>3. d \in Delivery /\ d.trace = t /\ d.response = q.response
    BY <1>2 DEF Delivery
  <1>4. /\ delivered' = delivered \union {d}
        /\ worker' = [worker EXCEPT ![w] = Idle]
        /\ UNCHANGED <<runs, events, asked, opinion, status>>
    BY DEF Deliver
  <1> HIDE DEF d
  <1>5. Idle \in Worker
    BY DEF Idle, Worker
  <1> QED BY <1>1, <1>2, <1>3, <1>4, <1>5 DEF Typed, Asks

LEMMA FeedbackShape ==
    ASSUME Typed, NEW w \in Workers, NEW o \in Opinion, Feedback(w, o)
    PROVE  /\ worker[w] = Idle
           /\ worker'[w].pc = IF o.trace = NoTrace THEN "storing" ELSE "selecting"
           /\ worker'[w].id = Len(opinion) + 1 /\ worker'[w].row = NoRun
           /\ \A v \in Workers \ {w} : worker'[v] = worker[v]
           /\ Len(opinion') = Len(opinion) + 1 /\ opinion'[Len(opinion) + 1] = o
           /\ \A i \in 1..Len(opinion) : opinion'[i] = opinion[i] /\ status'[i] = status[i]
           /\ status'[Len(opinion) + 1] = "pending"
           /\ Typed'
  <1> DEFINE pc == IF o.trace = NoTrace THEN "storing" ELSE "selecting"
             n == Len(opinion) + 1
             h == [pc |-> pc, id |-> n, row |-> NoRun]
  <1>1. opinion \in Seq(Opinion) /\ status \in Seq(Status) /\ Len(status) = Len(opinion)
        /\ "pending" \in Status
    BY DEF Typed, Status
  <1>2. n \in 1..MaxFeedback /\ pc \in Handling
    BY <1>1, FeedbackConfig DEF Feedback, Handling
  <1>3. h \in Worker /\ h.pc = pc /\ h.id = n /\ h.row = NoRun
    BY <1>2, HandlingWorker
  <1>4. /\ worker[w] = Idle /\ worker' = [worker EXCEPT ![w] = h]
        /\ opinion' = Append(opinion, o) /\ status' = Append(status, "pending")
        /\ UNCHANGED <<runs, events, asked, delivered>>
    BY DEF Feedback
  <1>5. /\ opinion' \in Seq(Opinion) /\ status' \in Seq(Status)
        /\ Len(opinion') = Len(opinion) + 1 /\ Len(status') = Len(opinion) + 1
        /\ opinion'[n] = o /\ status'[n] = "pending"
        /\ \A i \in 1..Len(opinion) : opinion'[i] = opinion[i] /\ status'[i] = status[i]
    BY <1>1, <1>4
  <1> HIDE DEF h
  <1>6. /\ worker' \in [Workers -> Worker] /\ worker'[w] = h
        /\ \A v \in Workers \ {w} : worker'[v] = worker[v]
    BY <1>3, <1>4 DEF Typed
  <1> QED BY <1>3, <1>4, <1>5, <1>6 DEF Typed

LEMMA SelectShape ==
    ASSUME Typed, NEW w \in Workers, Select(w), Loaded(w)
    PROVE  /\ worker[w].pc = "selecting" /\ worker'[w].pc = "storing"
           /\ worker'[w].id = worker[w].id
           /\ worker'[w].row = runs[opinion[worker[w].id].trace]
           /\ \A v \in Workers \ {w} : worker'[v] = worker[v]
           /\ Typed'
  <1> DEFINE id == worker[w].id
             row == runs[opinion[id].trace]
             h == [pc |-> "storing", id |-> id, row |-> row]
  <1>1. worker[w] \in Worker /\ worker[w].pc = "selecting" /\ worker[w].pc \in Handling
    BY DEF Typed, Select, Handling
  <1>2. id \in 1..MaxFeedback /\ opinion[id].trace \in Traces
    BY <1>1, WorkerFields DEF Loaded
  <1>3. row \in Run \union {NoRun}
    BY <1>2 DEF Typed
  <1>4. h \in Worker /\ h.pc = "storing" /\ h.id = id /\ h.row = row
    BY <1>2, <1>3, HandlingWorker DEF Handling
  <1>5. worker' = [worker EXCEPT ![w] = h]
        /\ UNCHANGED <<runs, events, asked, delivered, opinion, status>>
    BY DEF Select
  <1> HIDE DEF h
  <1>6. /\ worker' \in [Workers -> Worker] /\ worker'[w] = h
        /\ \A v \in Workers \ {w} : worker'[v] = worker[v]
    BY <1>4, <1>5 DEF Typed
  <1> QED BY <1>1, <1>4, <1>5, <1>6 DEF Typed


\* The UPDATE keeps the answer, and never takes a rating away.
LEMMA WrittenShape ==
    ASSUME NEW run \in Run, NEW row \in Run, NEW o \in Opinion,
           row.rating # NoRating => run.rating # NoRating
    PROVE  LET new == Written(run, row, o)
           IN /\ new \in Run /\ new # NoRun
              /\ new.response = run.response
              /\ run.rating # NoRating => new.rating # NoRating
              /\ (run.correction # NoText => run.rating # NoRating)
                   => (new.correction # NoText => new.rating # NoRating)
  <1> DEFINE new == Written(run, row, o)
  <1>1. o.rating \in Ratings /\ o.correction \in Text /\ o.rating # NoRating
    BY FeedbackConfig DEF Opinion
  <1>2. /\ new.response = run.response
        /\ new.rating = IF o.rating # row.rating THEN o.rating ELSE run.rating
        /\ new.correction = IF o.correction # row.correction
                            THEN o.correction ELSE run.correction
        /\ new = [response |-> new.response, rating |-> new.rating,
                  correction |-> new.correction]
    BY DEF Written
  <1> HIDE DEF new
  <1>3. new \in Run
    BY <1>1, <1>2 DEF Run
  <1>4. new.rating # NoRating
    BY <1>1, <1>2
  <1>5. /\ new # NoRun
        /\ run.rating # NoRating => new.rating # NoRating
        /\ (run.correction # NoText => run.rating # NoRating)
             => (new.correction # NoText => new.rating # NoRating)
    BY <1>3, <1>4, NoSuchRun
  <1> QED BY <1>2, <1>3, <1>5 DEF new

LEMMA StoreShape ==
    ASSUME Inv, NEW w \in Workers, Store(w)
    PROVE  LET h == worker[w]
               t == opinion[h.id].trace
               e == EventOf(h.id, h.row)
           IN /\ h.pc = "storing" /\ h.id \in 1..Len(opinion)
              /\ worker'[w].pc = "stored" /\ worker'[w].id = h.id
              /\ worker'[w].row = h.row
              /\ \A v \in Workers \ {w} : worker'[v] = worker[v]
              /\ events' = events \union {e}
              /\ h.row = NoRun => runs' = runs
              /\ h.row # NoRun =>
                   /\ t \in Traces /\ runs[t] # NoRun /\ runs'[t] # NoRun
                   /\ runs'[t].response = runs[t].response
                   /\ runs[t].rating # NoRating => runs'[t].rating # NoRating
                   /\ runs'[t].correction # NoText => runs'[t].rating # NoRating
                   /\ \A u \in Traces \ {t} : runs'[u] = runs[u]
              /\ Typed'
  <1> DEFINE h == worker[w]
             o == opinion[h.id]
             t == o.trace
             e == EventOf(h.id, h.row)
  <1>1. Typed /\ Loaded(w) /\ h \in Worker /\ h.pc = "storing" /\ h.pc \in Handling
    BY DEF Inv, Typed, Store, Handling
  <1>2. /\ h.id \in 1..Len(opinion) /\ h.id \in 1..MaxFeedback
        /\ h.row \in Run \union {NoRun}
    BY <1>1, WorkerFields DEF Loaded
  <1>3. o \in Opinion
    BY <1>1, <1>2 DEF Typed
  <1>4. e \in Event
    <2>1. h.row # NoRun => h.row.response \in Responses
      BY <1>2 DEF Run
    <2> QED BY <1>2, <1>3, <2>1 DEF EventOf, Event, Opinion
  <1>5. /\ events' = events \union {e}
        /\ runs' = IF h.row = NoRun THEN runs
                   ELSE [runs EXCEPT ![t] = Written(runs[t], h.row, o)]
        /\ worker' = [worker EXCEPT ![w] = [h EXCEPT !.pc = "stored"]]
        /\ UNCHANGED <<asked, delivered, opinion, status>>
    BY DEF Store
  <1>6. LET g == [h EXCEPT !.pc = "stored"]
        IN g \in Worker /\ g.pc = "stored" /\ g.id = h.id /\ g.row = h.row
    BY <1>1, WorkerGoesOn
  <1>7. /\ worker' \in [Workers -> Worker]
        /\ worker'[w].pc = "stored" /\ worker'[w].id = h.id /\ worker'[w].row = h.row
        /\ \A v \in Workers \ {w} : worker'[v] = worker[v]
    BY <1>1, <1>5, <1>6 DEF Typed
  <1>8. h.row # NoRun =>
          /\ t \in Traces /\ runs[t] # NoRun /\ runs'[t] # NoRun
          /\ runs'[t].response = runs[t].response
          /\ runs[t].rating # NoRating => runs'[t].rating # NoRating
          /\ runs'[t].correction # NoText => runs'[t].rating # NoRating
          /\ \A u \in Traces \ {t} : runs'[u] = runs[u]
          /\ runs' \in [Traces -> Run \union {NoRun}]
    <2> SUFFICES ASSUME h.row # NoRun
                 PROVE  /\ t \in Traces /\ runs[t] # NoRun /\ runs'[t] # NoRun
                        /\ runs'[t].response = runs[t].response
                        /\ runs[t].rating # NoRating => runs'[t].rating # NoRating
                        /\ runs'[t].correction # NoText => runs'[t].rating # NoRating
                        /\ \A u \in Traces \ {t} : runs'[u] = runs[u]
                        /\ runs' \in [Traces -> Run \union {NoRun}]
      OBVIOUS
    <2> DEFINE new == Written(runs[t], h.row, o)
    <2>1. /\ t \in Traces /\ runs[t] # NoRun /\ h.row \in Run /\ runs[t] \in Run
          /\ h.row.rating # NoRating => runs[t].rating # NoRating
          /\ runs[t].correction # NoText => runs[t].rating # NoRating
      BY <1>1, <1>2 DEF Loaded, Inv, Corrected, Typed
    <2>2. /\ new \in Run /\ new # NoRun /\ new.response = runs[t].response
          /\ runs[t].rating # NoRating => new.rating # NoRating
          /\ new.correction # NoText => new.rating # NoRating
      BY <1>3, <2>1, WrittenShape
    <2>3. runs' = [runs EXCEPT ![t] = new]
      BY <1>5
    <2> HIDE DEF new
    <2> QED BY <1>1, <2>1, <2>2, <2>3 DEF Typed
  <1>9. Typed'
    BY <1>1, <1>4, <1>5, <1>7, <1>8 DEF Typed
  <1> QED BY <1>1, <1>2, <1>5, <1>7, <1>8, <1>9

LEMMA FinishShape ==
    ASSUME Typed, NEW w \in Workers, Loaded(w), Recorded(w) \/ NotStored(w)
    PROVE  /\ worker[w].pc \in Handling /\ worker[w].id \in 1..Len(opinion)
           /\ worker'[w] = Idle
           /\ \A v \in Workers \ {w} : worker'[v] = worker[v]
           /\ \A i \in 1..Len(opinion) : status'[i] = "recorded" =>
                 \/ status[i] = "recorded"
                 \/ i = worker[w].id /\ worker[w].pc = "stored"
           /\ Typed'
  <1>1. worker[w].pc \in Handling /\ worker[w].id \in 1..Len(opinion)
    BY DEF Recorded, NotStored, Handling, Loaded
  <1>2. /\ worker' = [worker EXCEPT ![w] = Idle]
        /\ UNCHANGED <<runs, events, asked, delivered, opinion>>
    BY DEF Recorded, NotStored
  <1>3. Idle \in Worker
    BY DEF Idle, Worker
  <1>4. PICK a \in Status : /\ status' = [status EXCEPT ![worker[w].id] = a]
                            /\ a = "recorded" => worker[w].pc = "stored"
    <2>1. CASE Recorded(w)
      BY <2>1 DEF Recorded, Status
    <2>2. CASE NotStored(w)
      BY <2>2 DEF NotStored, Status
    <2> QED BY <2>1, <2>2
  <1>5. /\ status' \in Seq(Status) /\ Len(status') = Len(status)
        /\ \A i \in 1..Len(opinion) :
              status'[i] = IF i = worker[w].id THEN a ELSE status[i]
    BY <1>1, <1>4 DEF Typed
  <1> QED BY <1>1, <1>2, <1>3, <1>4, <1>5 DEF Typed

LEMMA CrashShape ==
    ASSUME Typed, Crash
    PROVE  /\ \A w \in Workers : worker'[w] = Idle
           /\ Typed'
  <1>1. Idle \in Worker
    BY DEF Idle, Worker
  <1> QED BY <1>1 DEF Crash, Typed

-----------------------------------------------------------------------------
(***************************************************************************)
(* What only grows.                                                        *)
(***************************************************************************)
Grows ==
    /\ events \subseteq events'
    /\ delivered \subseteq delivered'
    /\ Len(opinion) <= Len(opinion')
    /\ \A i \in 1..Len(opinion) : opinion'[i] = opinion[i]
    /\ \A t \in Traces : asked[t] = Many => asked'[t] = Many
    /\ \A t \in Traces : runs[t] # NoRun =>
          /\ runs'[t] # NoRun /\ runs'[t].response = runs[t].response
          /\ runs[t].rating # NoRating => runs'[t].rating # NoRating
    /\ \A t \in Traces : runs[t] = NoRun /\ runs'[t] # NoRun =>
          asked[t] = Many \/ \A d \in delivered : d.trace # t

LEMMA StepGrows ==
    ASSUME Inv, [Next]_storeVars
    PROVE  Grows /\ Typed'
  <1>1. Typed /\ Len(opinion) \in Nat
    BY DEF Inv, Typed
  <1>2. ASSUME NEW w \in Workers, NEW t \in Traces, NEW r \in Responses, Query(w, t, r)
        PROVE  Grows /\ Typed'
    <2>1. /\ \A u \in Traces \ {t} : asked'[u] = asked[u]
          /\ asked[t] # 0 => asked'[t] = Many
          /\ Typed'
      BY <1>1, <1>2, QueryShape
    <2> QED BY <1>1, <1>2, <2>1 DEF Grows, Query, Many
  <1>3. ASSUME NEW w \in Workers, RecordRun(w) PROVE Grows /\ Typed'
    <2> DEFINE t == worker[w].trace
    <2>1. /\ Asks(w, t) /\ t \in Traces /\ runs[t] = NoRun
          /\ \A u \in Traces \ {t} : runs'[u] = runs[u]
          /\ Typed'
      BY <1>1, <1>3, RecordRunShape
    <2>2. asked[t] = Many \/ \A d \in delivered : d.trace # t
      BY <2>1 DEF Inv, Single
    <2> QED BY <1>1, <1>3, <2>1, <2>2 DEF Grows, RecordRun
  <1>4. ASSUME NEW w \in Workers, Deliver(w) PROVE Grows /\ Typed'
    <2>1. Typed' /\ delivered \subseteq delivered'
      BY <1>1, <1>4, DeliverShape
    <2> QED BY <1>1, <1>4, <2>1 DEF Grows, Deliver
  <1>5. ASSUME NEW w \in Workers, NEW o \in Opinion, Feedback(w, o)
        PROVE  Grows /\ Typed'
    <2>1. /\ Len(opinion') = Len(opinion) + 1 /\ Typed'
          /\ \A i \in 1..Len(opinion) : opinion'[i] = opinion[i]
      BY <1>1, <1>5, FeedbackShape
    <2> QED BY <1>1, <1>5, <2>1 DEF Grows, Feedback
  <1>6. ASSUME NEW w \in Workers, Select(w) PROVE Grows /\ Typed'
    <2>1. Typed'
      BY <1>1, <1>6, SelectShape DEF Inv
    <2>2. UNCHANGED <<runs, events, asked, delivered, opinion>>
      BY <1>6 DEF Select
    <2> QED BY <1>1, <2>1, <2>2 DEF Grows
  <1>7. ASSUME NEW w \in Workers, Store(w) PROVE Grows /\ Typed'
    <2> DEFINE h == worker[w]
               t == opinion[h.id].trace
    <2>1. /\ events \subseteq events' /\ Typed'
          /\ h.row = NoRun => runs' = runs
          /\ h.row # NoRun =>
               /\ t \in Traces /\ runs[t] # NoRun /\ runs'[t] # NoRun
               /\ runs'[t].response = runs[t].response
               /\ runs[t].rating # NoRating => runs'[t].rating # NoRating
               /\ \A u \in Traces \ {t} : runs'[u] = runs[u]
      BY <1>7, StoreShape
    <2>2. UNCHANGED <<asked, delivered, opinion>>
      BY <1>7 DEF Store
    <2> QED BY <1>1, <2>1, <2>2 DEF Grows
  <1>8. ASSUME NEW w \in Workers, Recorded(w) \/ NotStored(w) PROVE Grows /\ Typed'
    <2>1. Typed'
      BY <1>1, <1>8, FinishShape DEF Inv
    <2>2. UNCHANGED <<runs, events, asked, delivered, opinion>>
      BY <1>8 DEF Recorded, NotStored
    <2> QED BY <1>1, <2>1, <2>2 DEF Grows
  <1>9. CASE Crash
    BY <1>1, <1>9, CrashShape DEF Grows, Crash
  <1>10. CASE UNCHANGED storeVars
    BY <1>1, <1>10 DEF Grows, Typed, storeVars
  <1> QED BY <1>2, <1>3, <1>4, <1>5, <1>6, <1>7, <1>8, <1>9, <1>10 DEF Next

-----------------------------------------------------------------------------
(***************************************************************************)
(* The parts of the invariant.                                             *)
(***************************************************************************)
LEMMA CorrectedStep ==
    ASSUME Inv, [Next]_storeVars
    PROVE  Corrected'
  <1>1. ASSUME runs' = runs PROVE Corrected'
    BY <1>1 DEF Inv, Corrected
  <1>2. ASSUME NEW w \in Workers, RecordRun(w) PROVE Corrected'
    <2> DEFINE t == worker[w].trace
    <2>1. /\ runs'[t].correction = NoText
          /\ \A u \in Traces \ {t} : runs'[u] = runs[u]
      BY <1>2, RecordRunShape DEF Inv
    <2> QED BY <2>1 DEF Inv, Corrected
  <1>3. ASSUME NEW w \in Workers, Store(w) PROVE Corrected'
    <2> DEFINE t == opinion[worker[w].id].trace
    <2>1. CASE worker[w].row = NoRun
      BY <1>1, <1>3, <2>1, StoreShape
    <2>2. CASE worker[w].row # NoRun
      <3>1. /\ runs'[t].correction # NoText => runs'[t].rating # NoRating
            /\ \A u \in Traces \ {t} : runs'[u] = runs[u]
        BY <1>3, <2>2, StoreShape
      <3> QED BY <3>1 DEF Inv, Corrected
    <2> QED BY <2>1, <2>2
  <1>4. \/ runs' = runs
        \/ \E w \in Workers : RecordRun(w) \/ Store(w)
    BY DEF Next, Query, Deliver, Feedback, Select, Recorded, NotStored, Crash, storeVars
  <1> QED BY <1>1, <1>2, <1>3, <1>4

\* A logged feedback stays logged: its event stays, and the run of its trace does
\* not appear from nowhere.
LEMMA LoggedStays ==
    ASSUME Inv, Grows, NEW i \in 1..Len(opinion), Logged(i)
    PROVE  Logged(i)'
  <1>1. PICK e \in events :
          /\ e.id = i /\ e.trace = opinion[i].trace
          /\ e.rating = opinion[i].rating /\ e.correction = opinion[i].correction
          /\ \/ e.response = opinion[i].response
             \/ ~opinion[i].quoted /\ e.trace = NoTrace
             \/ ~opinion[i].quoted /\ runs[e.trace] = NoRun
             \/ ~opinion[i].quoted /\ asked[e.trace] = Many
    BY DEF Logged
  <1>2. e \in events' /\ opinion'[i] = opinion[i]
    BY <1>1 DEF Grows
  <1>3. e.trace = NoTrace \/ e.trace \in Traces
    BY <1>1 DEF Inv, Typed, Event
  <1>4. ASSUME e.trace \in Traces,
               runs[e.trace] = NoRun \/ asked[e.trace] = Many
        PROVE  runs'[e.trace] = NoRun \/ asked'[e.trace] = Many
    <2>1. CASE asked[e.trace] = Many
      BY <1>4, <2>1 DEF Grows
    <2>2. CASE runs[e.trace] = NoRun /\ runs'[e.trace] # NoRun
      <3>1. \E d \in delivered : d.trace = e.trace
        BY <1>1, <1>4, FeedbackConfig DEF Inv, Judged
      <3>2. asked[e.trace] = Many
        BY <1>4, <2>2, <3>1 DEF Grows
      <3> QED BY <1>4, <3>2 DEF Grows
    <2> QED BY <1>4, <2>1, <2>2
  <1> QED BY <1>1, <1>2, <1>3, <1>4 DEF Logged

\* What a worker has loaded stays good while it does nothing.
LEMMA LoadedStays ==
    ASSUME Inv, Grows, Typed', NEW w \in Workers, worker'[w] = worker[w]
    PROVE  Loaded(w)'
  <1> SUFFICES ASSUME worker[w].pc \in Handling PROVE Loaded(w)'
    BY DEF Loaded
  <1> DEFINE h == worker[w]
             t == opinion[h.id].trace
  <1>1. Loaded(w) /\ h.id \in 1..Len(opinion) /\ opinion'[h.id] = opinion[h.id]
    BY DEF Inv, Loaded, Grows
  <1>2. h.id \in 1..Len(opinion')
    BY <1>1 DEF Grows, Inv, Typed
  <1>3. h.pc = "stored" => Logged(h.id)'
    BY <1>1, LoggedStays DEF Loaded
  <1>4. h.row # NoRun =>
          /\ t \in Traces /\ runs'[t] # NoRun
          /\ h.row.response = runs'[t].response
          /\ h.row.rating # NoRating => runs'[t].rating # NoRating
    BY <1>1 DEF Loaded, Grows
  <1>5. ASSUME h.row = NoRun, h.pc # "selecting", t # NoTrace
        PROVE  runs'[t] = NoRun \/ asked'[t] = Many
    <2>1. t \in Traces
      <3>1. opinion[h.id] \in Opinion
        BY <1>1 DEF Inv, Typed
      <3> QED BY <1>5, <3>1 DEF Opinion
    <2>2. \E d \in delivered : d.trace = t
      BY <1>1, <1>5 DEF Inv, Judged
    <2>3. runs[t] = NoRun \/ asked[t] = Many
      BY <1>1, <1>5 DEF Loaded
    <2> QED BY <2>1, <2>2, <2>3 DEF Grows
  <1> QED BY <1>1, <1>2, <1>3, <1>4, <1>5 DEF Loaded

LEMMA IdleLoaded ==
    ASSUME NEW w \in Workers, worker'[w].pc \notin Handling
    PROVE  Loaded(w)'
  BY DEF Loaded

LEMMA LoadedStep ==
    ASSUME Inv, [Next]_storeVars, NEW v \in Workers
    PROVE  Loaded(v)'
  <1>1. Grows /\ Typed' /\ Typed /\ Loaded(v)
    BY StepGrows DEF Inv
  <1>2. CASE worker'[v] = worker[v]
    BY <1>1, <1>2, LoadedStays
  <1>3. ASSUME NEW t \in Traces, NEW r \in Responses, Query(v, t, r)
        PROVE  Loaded(v)'
    BY <1>1, <1>3, QueryShape, IdleLoaded DEF Handling
  <1>4. CASE RecordRun(v)
    BY <1>1, <1>4, RecordRunShape, IdleLoaded DEF Handling
  <1>5. CASE Deliver(v) \/ Recorded(v) \/ NotStored(v) \/ Crash
    <2>1. worker'[v].pc = "idle"
      BY <1>1, <1>5, DeliverShape, FinishShape, CrashShape DEF Idle
    <2> QED BY <2>1, IdleLoaded DEF Handling
  <1>6. ASSUME NEW o \in Opinion, Judges(o), Feedback(v, o) PROVE Loaded(v)'
    <2> DEFINE h == worker'[v]
    <2>1. /\ h.pc = IF o.trace = NoTrace THEN "storing" ELSE "selecting"
          /\ h.id = Len(opinion) + 1 /\ h.row = NoRun
          /\ Len(opinion') = Len(opinion) + 1 /\ opinion'[Len(opinion) + 1] = o
      BY <1>1, <1>6, FeedbackShape
    <2>2. h.id \in 1..Len(opinion') /\ opinion'[h.id] = o
      BY <1>1, <2>1 DEF Typed
    <2>3. o.trace # NoTrace => o.trace \in Traces
      BY DEF Opinion
    <2> QED BY <2>1, <2>2, <2>3 DEF Loaded
  <1>7. CASE Select(v)
    <2> DEFINE h == worker'[v]
               t == opinion[h.id].trace
    <2>1. /\ worker[v].pc = "selecting" /\ h.pc = "storing" /\ h.id = worker[v].id
          /\ h.row = runs[opinion[worker[v].id].trace]
      BY <1>1, <1>7, SelectShape
    <2>2. UNCHANGED <<runs, events, asked, opinion>>
      BY <1>7 DEF Select
    <2>3. h.id \in 1..Len(opinion) /\ t \in Traces /\ h.row = runs[t]
      BY <1>1, <2>1 DEF Loaded, Handling
    <2> QED BY <2>1, <2>2, <2>3 DEF Loaded
  <1>8. CASE Store(v)
    <2> DEFINE h == worker[v]
               g == worker'[v]
               t == opinion[h.id].trace
               e == EventOf(h.id, h.row)
    <2>1. /\ h.pc = "storing" /\ h.id \in 1..Len(opinion)
          /\ g.pc = "stored" /\ g.id = h.id /\ g.row = h.row
          /\ events' = events \union {e}
          /\ h.row = NoRun => runs' = runs
          /\ h.row # NoRun =>
               /\ t \in Traces /\ runs[t] # NoRun /\ runs'[t] # NoRun
               /\ runs'[t].response = runs[t].response
               /\ runs[t].rating # NoRating => runs'[t].rating # NoRating
      BY <1>8, StoreShape DEF Inv
    <2>2. opinion' = opinion /\ asked' = asked
      BY <1>8 DEF Store
    <2>3. /\ h.row # NoRun =>
               /\ h.row.response = runs[t].response
               /\ h.row.rating # NoRating => runs[t].rating # NoRating
          /\ h.row = NoRun /\ t # NoTrace => runs[t] = NoRun \/ asked[t] = Many
      BY <1>1, <2>1 DEF Loaded, Handling
    <2>4. Logged(h.id)'
      <3>1. /\ e \in events' /\ e.id = h.id /\ e.trace = t
            /\ e.rating = opinion[h.id].rating
            /\ e.correction = opinion[h.id].correction
            /\ opinion[h.id].quoted => e.response = opinion[h.id].response
            /\ ~opinion[h.id].quoted /\ h.row # NoRun => e.response = h.row.response
        BY <2>1 DEF EventOf
      <3>2. ASSUME ~opinion[h.id].quoted, t # NoTrace, h.row # NoRun, asked[t] # Many
            PROVE  e.response = opinion[h.id].response
        <4>1. PICK d \in delivered : d.trace = t /\ d.response = opinion[h.id].response
          BY <2>1, <3>2 DEF Inv, Judged
        <4>2. d.response = runs[t].response
          BY <2>1, <3>2, <4>1 DEF Inv, Single
        <4> QED BY <2>3, <3>1, <3>2, <4>1, <4>2
      <3>3. h.row = NoRun /\ t # NoTrace => runs'[t] = NoRun \/ asked[t] = Many
        BY <2>1, <2>3
      <3> HIDE DEF e
      <3> QED BY <2>1, <2>2, <3>1, <3>2, <3>3 DEF Logged
    <2> HIDE DEF e
    <2> QED BY <2>1, <2>2, <2>3, <2>4 DEF Loaded
  <1>9. worker'[v] = worker[v] \/ Crash
        \/ \/ \E t \in Traces, r \in Responses : Query(v, t, r)
           \/ RecordRun(v) \/ Deliver(v) \/ Select(v) \/ Store(v) \/ Recorded(v)
           \/ NotStored(v) \/ \E o \in Opinion : Judges(o) /\ Feedback(v, o)
    <2>1. ASSUME NEW w \in Workers \ {v},
                 \/ \E t \in Traces, r \in Responses : Query(w, t, r)
                 \/ RecordRun(w) \/ Deliver(w) \/ Select(w) \/ Store(w) \/ Recorded(w)
                 \/ NotStored(w) \/ \E o \in Opinion : Judges(o) /\ Feedback(w, o)
          PROVE  worker'[v] = worker[v]
      BY <1>1, <2>1 DEF Typed, Query, RecordRun, Deliver, Feedback, Select, Store,
                        Recorded, NotStored
    <2>2. UNCHANGED storeVars => worker'[v] = worker[v]
      BY DEF storeVars
    <2> QED BY <2>1, <2>2 DEF Next
  <1> QED BY <1>2, <1>3, <1>4, <1>5, <1>6, <1>7, <1>8, <1>9

\* What clients said stays said.
LEMMA JudgedStep ==
    ASSUME Inv, [Next]_storeVars
    PROVE  Judged' /\ Truthful'
  <1>1. Grows /\ Typed' /\ Typed /\ Judged /\ Truthful
    BY StepGrows DEF Inv
  <1>2. ASSUME opinion' = opinion PROVE Judged'
    BY <1>1, <1>2 DEF Judged, Grows
  <1>3. ASSUME events' = events PROVE Truthful'
    BY <1>1, <1>3 DEF Truthful, Grows, Typed
  <1>4. ASSUME NEW w \in Workers, NEW o \in Opinion, Judges(o), Feedback(w, o)
        PROVE  Judged' /\ Truthful'
    <2>1. /\ Len(opinion') = Len(opinion) + 1 /\ opinion'[Len(opinion) + 1] = o
          /\ delivered' = delivered /\ events' = events
      BY <1>1, <1>4, FeedbackShape DEF Feedback
    <2>2. o.trace # NoTrace =>
             \E d \in delivered : d.trace = o.trace /\ d.response = o.response
      BY <1>4 DEF Judges
    <2>3. Judged'
      <3> SUFFICES ASSUME NEW i \in 1..Len(opinion'), opinion'[i].trace # NoTrace
                   PROVE  \E d \in delivered : d.trace = opinion'[i].trace
                                               /\ d.response = opinion'[i].response
        BY <2>1 DEF Judged
      <3>1. i \in 1..Len(opinion) \/ i = Len(opinion) + 1
        BY <1>1, <2>1 DEF Typed
      <3> QED BY <1>1, <2>1, <2>2, <3>1 DEF Judged, Grows
    <2> QED BY <1>3, <2>1, <2>3
  <1>5. ASSUME NEW w \in Workers, Store(w) PROVE Judged' /\ Truthful'
    <2> DEFINE h == worker[w]
               e == EventOf(h.id, h.row)
    <2>1. events' = events \union {e} /\ h.id \in 1..Len(opinion) /\ opinion' = opinion
      BY <1>5, StoreShape DEF Store
    <2>2. /\ e.id = h.id /\ e.trace = opinion[h.id].trace
          /\ e.rating = opinion[h.id].rating
          /\ e.correction = opinion[h.id].correction
      BY DEF EventOf
    <2> HIDE DEF e
    <2>3. Truthful'
      BY <1>1, <2>1, <2>2 DEF Truthful
    <2> QED BY <1>2, <2>1, <2>3
  <1>6. \/ opinion' = opinion /\ events' = events
        \/ \E w \in Workers : Store(w) \/ \E o \in Opinion : Judges(o) /\ Feedback(w, o)
    BY DEF Next, Query, RecordRun, Deliver, Select, Recorded, NotStored, Crash, storeVars
  <1> QED BY <1>2, <1>3, <1>4, <1>5, <1>6

LEMMA LoggedStep ==
    ASSUME Inv, [Next]_storeVars, NEW i \in 1..Len(opinion'), status'[i] = "recorded"
    PROVE  Logged(i)'
  <1>1. Grows /\ Typed' /\ Typed
    BY StepGrows DEF Inv
  <1>2. CASE i \in 1..Len(opinion) /\ status[i] = "recorded"
    BY <1>1, <1>2, LoggedStays DEF Inv
  <1>3. ASSUME NEW w \in Workers, Recorded(w) \/ NotStored(w) PROVE Logged(i)'
    <2>1. i \in 1..Len(opinion)
      BY <1>3 DEF Recorded, NotStored
    <2>2. Loaded(w)
      BY DEF Inv
    <2>3. \/ status[i] = "recorded"
          \/ i = worker[w].id /\ worker[w].pc = "stored"
      BY <1>1, <1>3, <2>1, <2>2, FinishShape
    <2>4. CASE i = worker[w].id /\ worker[w].pc = "stored"
      BY <1>1, <2>1, <2>2, <2>4, LoggedStays DEF Loaded, Handling
    <2> QED BY <1>2, <2>1, <2>3, <2>4
  <1>4. ASSUME NEW w \in Workers, NEW o \in Opinion, Feedback(w, o) PROVE Logged(i)'
    <2>1. /\ Len(opinion') = Len(opinion) + 1 /\ status'[Len(opinion) + 1] = "pending"
          /\ \A j \in 1..Len(opinion) : status'[j] = status[j]
      BY <1>1, <1>4, FeedbackShape
    <2>2. i \in 1..Len(opinion)
      BY <1>1, <2>1 DEF Typed
    <2> QED BY <1>2, <2>1, <2>2
  <1>5. \/ opinion' = opinion /\ status' = status
        \/ \E w \in Workers : Recorded(w) \/ NotStored(w) \/ \E o \in Opinion : Feedback(w, o)
    BY DEF Next, Query, RecordRun, Deliver, Select, Store, Crash, storeVars
  <1> QED BY <1>2, <1>3, <1>4, <1>5

-----------------------------------------------------------------------------
(***************************************************************************)
(* One answer for a trace that one query carried.                          *)
(***************************************************************************)
\* A step that touches neither the trace's count, nor its answers, nor the
\* answers to come, leaves it single.
LEMMA SingleStays ==
    ASSUME NEW t \in Traces, Single(t), asked'[t] = asked[t],
           \A d \in delivered' : d.trace = t => d \in delivered,
           \A w \in Workers : Asks(w, t)' =>
               Asks(w, t) /\ worker'[w].response = worker[w].response,
           runs'[t] # NoRun => runs[t] # NoRun /\ runs'[t].response = runs[t].response
    PROVE  Single(t)'
  BY DEF Single

LEMMA SingleStep ==
    ASSUME Inv, [Next]_storeVars, NEW t \in Traces
    PROVE  Single(t)'
  <1>1. Typed /\ Single(t)
    BY DEF Inv
  <1>2. ASSUME NEW w \in Workers, NEW u \in Traces, NEW r \in Responses, Query(w, u, r)
        PROVE  Single(t)'
    <2>1. /\ worker[w] = Idle /\ worker'[w].pc = "recording"
          /\ worker'[w].trace = u /\ worker'[w].response = r
          /\ \A v \in Workers \ {w} : worker'[v] = worker[v]
          /\ \A x \in Traces \ {u} : asked'[x] = asked[x]
          /\ asked[u] = 0 => asked'[u] = 1
          /\ asked[u] # 0 => asked'[u] = Many
      BY <1>1, <1>2, QueryShape
    <2>2. UNCHANGED <<runs, delivered>>
      BY <1>2 DEF Query
    <2>3. CASE t # u
      <3>1. \A v \in Workers : Asks(v, t)' =>
               Asks(v, t) /\ worker'[v].response = worker[v].response
        BY <2>1, <2>3 DEF Asks
      <3> QED BY <1>1, <2>1, <2>2, <2>3, <3>1, SingleStays
    <2>4. CASE t = u /\ asked[u] # 0
      BY <2>1, <2>4 DEF Single
    <2>5. CASE t = u /\ asked[u] = 0
      <3>1. /\ \A d \in delivered : d.trace # t
            /\ \A v \in Workers : ~Asks(v, t)
            /\ runs[t] = NoRun
        BY <1>1, <2>5 DEF Single, Many
      <3>2. \A v \in Workers : Asks(v, t)' => v = w
        BY <2>1, <3>1 DEF Asks
      <3>3. asked'[t] = 1
        BY <2>1, <2>5
      <3> QED BY <2>2, <3>1, <3>2, <3>3 DEF Single
    <2> QED BY <2>3, <2>4, <2>5
  <1>3. ASSUME NEW w \in Workers, RecordRun(w) PROVE Single(t)'
    <2> DEFINE u == worker[w].trace
    <2>1. /\ Asks(w, u) /\ u \in Traces /\ worker'[w].pc = "recorded"
          /\ worker'[w].trace = u /\ worker'[w].response = worker[w].response
          /\ \A v \in Workers \ {w} : worker'[v] = worker[v]
          /\ runs'[u].response = worker[w].response
          /\ \A x \in Traces \ {u} : runs'[x] = runs[x]
      BY <1>1, <1>3, RecordRunShape
    <2>2. UNCHANGED <<asked, delivered>>
      BY <1>3 DEF RecordRun
    <2>3. \A v \in Workers : Asks(v, t)' =>
             Asks(v, t) /\ worker'[v].response = worker[v].response
      BY <2>1 DEF Asks
    <2>4. CASE t # u
      BY <1>1, <2>1, <2>2, <2>3, <2>4, SingleStays
    <2>5. CASE t = u
      <3>1. asked[t] # Many =>
              /\ \A d \in delivered : d.trace # t
              /\ \A v \in Workers : Asks(v, t) => v = w
              /\ asked[t] # 0
        BY <1>1, <2>1, <2>5 DEF Single
      <3> QED BY <2>1, <2>2, <2>3, <2>5, <3>1 DEF Single
    <2> QED BY <2>4, <2>5
  <1>4. ASSUME NEW w \in Workers, Deliver(w) PROVE Single(t)'
    <2> DEFINE u == worker[w].trace
    <2>1. /\ Asks(w, u) /\ u \in Traces /\ worker'[w] = Idle
          /\ \A v \in Workers \ {w} : worker'[v] = worker[v]
      BY <1>1, <1>4, DeliverShape
    <2>2. PICK d : /\ delivered' = delivered \union {d}
                   /\ d.trace = u /\ d.response = worker[w].response
      BY <1>1, <1>4, DeliverShape
    <2>3. UNCHANGED <<asked, runs>>
      BY <1>4 DEF Deliver
    <2>4. \A v \in Workers : Asks(v, t)' => v # w /\ Asks(v, t)
                                /\ worker'[v].response = worker[v].response
      BY <2>1 DEF Asks, Idle, Asking
    <2>5. CASE t # u
      BY <1>1, <2>2, <2>3, <2>4, <2>5, SingleStays
    <2>6. CASE t = u
      <3>1. asked[t] # Many =>
              /\ \A e \in delivered : e.trace # t
              /\ \A v \in Workers : Asks(v, t) => v = w
              /\ runs[t] # NoRun => worker[w].response = runs[t].response
              /\ asked[t] # 0
        BY <1>1, <2>1, <2>6 DEF Single
      <3>2. asked'[t] # Many =>
              /\ \A e \in delivered' : e.trace = t => e = d
              /\ \A v \in Workers : ~Asks(v, t)'
        BY <2>2, <2>3, <2>4, <3>1
      <3> QED BY <2>2, <2>3, <3>1, <3>2 DEF Single
    <2> QED BY <2>5, <2>6
  <1>5. ASSUME UNCHANGED <<asked, delivered>>,
               \A v \in Workers : worker'[v].pc \in Asking => worker'[v] = worker[v],
               runs'[t] # NoRun => runs[t] # NoRun /\ runs'[t].response = runs[t].response
        PROVE  Single(t)'
    BY <1>1, <1>5, SingleStays DEF Asks
  <1>6. ASSUME NEW w \in Workers, NEW o \in Opinion, Feedback(w, o) PROVE Single(t)'
    BY <1>1, <1>5, <1>6, FeedbackShape DEF Feedback, Asking
  <1>7. ASSUME NEW w \in Workers, Select(w) PROVE Single(t)'
    <2>1. worker'[w].pc = "storing" /\ \A v \in Workers \ {w} : worker'[v] = worker[v]
      BY <1>1, <1>7, SelectShape DEF Inv
    <2> QED BY <1>5, <1>7, <2>1 DEF Select, Asking
  <1>8. ASSUME NEW w \in Workers, Store(w) PROVE Single(t)'
    <2>1. worker'[w].pc = "stored" /\ \A v \in Workers \ {w} : worker'[v] = worker[v]
      BY <1>8, StoreShape
    <2>2. runs'[t] # NoRun => runs[t] # NoRun /\ runs'[t].response = runs[t].response
      BY <1>8, StoreShape
    <2> QED BY <1>5, <1>8, <2>1, <2>2 DEF Store, Asking
  <1>9. ASSUME NEW w \in Workers, Recorded(w) \/ NotStored(w) PROVE Single(t)'
    <2>1. worker'[w] = Idle /\ \A v \in Workers \ {w} : worker'[v] = worker[v]
      BY <1>1, <1>9, FinishShape DEF Inv
    <2> QED BY <1>5, <1>9, <2>1 DEF Recorded, NotStored, Asking, Idle
  <1>10. CASE Crash
    BY <1>1, <1>5, <1>10, CrashShape DEF Crash, Asking, Idle
  <1>11. CASE UNCHANGED storeVars
    BY <1>5, <1>11 DEF storeVars
  <1> QED BY <1>2, <1>3, <1>4, <1>6, <1>7, <1>8, <1>9, <1>10, <1>11 DEF Next

-----------------------------------------------------------------------------
LEMMA InvInit == Init => Inv
  <1> SUFFICES ASSUME Init PROVE Inv
    OBVIOUS
  <1>1. Typed
    BY DEF Init, Typed, Idle, Worker, Many
  <1>2. Len(opinion) = 0 /\ Idle.pc = "idle"
    BY DEF Init, Idle
  <1>3. Corrected /\ Judged /\ Truthful
    BY <1>2 DEF Init, Corrected, Judged, Truthful
  <1>4. \A t \in Traces : Single(t)
    BY <1>2 DEF Init, Single, Asks, Asking
  <1>5. \A w \in Workers : Loaded(w)
    BY <1>2 DEF Init, Loaded, Handling
  <1> QED BY <1>1, <1>2, <1>3, <1>4, <1>5 DEF Inv

LEMMA InvStep == Inv /\ [Next]_storeVars => Inv'
  <1> SUFFICES ASSUME Inv, [Next]_storeVars PROVE Inv'
    OBVIOUS
  <1>1. /\ Typed' /\ Corrected' /\ Judged' /\ Truthful'
        /\ (\A t \in Traces : Single(t))'
        /\ (\A w \in Workers : Loaded(w))'
    BY StepGrows, CorrectedStep, JudgedStep, SingleStep, LoadedStep
  <1>2. (\A i \in 1..Len(opinion) : status[i] = "recorded" => Logged(i))'
    BY LoggedStep
  <1> QED BY <1>1, <1>2 DEF Inv

LEMMA Invariant == Spec => []Inv
  BY InvInit, InvStep, PTL DEF Spec

\* Every variable has its type, and a run carries a correction only with a rating.
THEOREM Types == Spec => []TypeOK
  <1>1. Inv => TypeOK
    BY DEF Inv, Typed, Corrected, TypeOK
  <1> QED BY <1>1, Invariant, PTL

\* A feedback that POST /feedback calls recorded is in the log, with the answer it
\* judges (record_feedback).
THEOREM RecordedMeansStored == Spec => []RecordedIsStored
  <1>1. Inv => RecordedIsStored
    BY DEF Inv, RecordedIsStored, Logged
  <1> QED BY <1>1, Invariant, PTL

\* A recorded run keeps its answer (record_query_run and record_feedback).
THEOREM RunsStay == Spec => RunsWrittenOnce
  <1>1. Inv /\ [Next]_storeVars =>
          [\A t \in Traces : runs[t] # NoRun =>
              runs'[t] # NoRun /\ runs'[t].response = runs[t].response]_storeVars
    BY StepGrows DEF Grows
  <1> QED BY <1>1, Invariant, PTL DEF Spec, RunsWrittenOnce

\* A record of the dataset about a trace that one query carried pairs what one
\* client was given with what it said (export_jsonl).
THEOREM FreshFaithful == Spec => []FreshTracesFaithful
  <1>1. Inv => FreshTracesFaithful
    <2> SUFFICES ASSUME Inv, NEW e \in events, e.trace # NoTrace, runs[e.trace] # NoRun,
                        asked[e.trace] = 1
                 PROVE  \E i \in 1..Len(opinion) :
                          /\ opinion[i].trace = e.trace
                          /\ opinion[i].response = runs[e.trace].response
                          /\ opinion[i].rating = e.rating
                          /\ opinion[i].correction = e.correction
      BY DEF FreshTracesFaithful, Dataset, Faithful
    <2>1. /\ e.id \in 1..Len(opinion) /\ opinion[e.id].trace = e.trace
          /\ opinion[e.id].rating = e.rating
          /\ opinion[e.id].correction = e.correction
      BY DEF Inv, Truthful
    <2>2. PICK d \in delivered : d.trace = e.trace /\ d.response = opinion[e.id].response
      BY <2>1 DEF Inv, Judged
    <2>3. e.trace \in Traces
      BY DEF Inv, Typed, Event
    <2>4. d.response = runs[e.trace].response
      BY <2>2, <2>3 DEF Inv, Single, Many
    <2> QED BY <2>1, <2>2, <2>4
  <1> QED BY <1>1, Invariant, PTL


-----------------------------------------------------------------------------
(***************************************************************************)
(* When a run shows two people's feedback.                                 *)
(***************************************************************************)
\* What RunShowsOneFeedback says of one run.
Shows(t) ==
    runs[t] # NoRun /\ runs[t].rating # NoRating =>
        \E i \in 1..Len(opinion) :
            /\ opinion[i].trace = t
            /\ opinion[i].rating = runs[t].rating
            /\ opinion[i].correction = runs[t].correction

\* A lost update: the run has changed since the worker that now writes it loaded it.
StaleWrite(t) ==
    \E w \in Workers :
        /\ Store(w)
        /\ opinion[worker[w].id].trace = t
        /\ worker[w].row # NoRun
        /\ worker[w].row # runs[t]

\* The run a worker loaded is still what the table holds.
Fresh(w) ==
    worker[w].pc = "storing" /\ worker[w].row # NoRun =>
        worker[w].row = runs[opinion[worker[w].id].trace]

\* Written over the row it was loaded from, the feedback of a run is the writer's.
LEMMA WrittenFresh ==
    ASSUME NEW run \in Run, NEW o \in Opinion
    PROVE  /\ Written(run, run, o).rating = o.rating
           /\ Written(run, run, o).correction = o.correction
  BY DEF Written

\* A run that is left alone shows what it showed.
LEMMA ShowsStays ==
    ASSUME Grows, Typed, Typed', NEW t \in Traces, Shows(t), runs'[t] = runs[t]
    PROVE  Shows(t)'
  <1> SUFFICES ASSUME runs[t] # NoRun, runs[t].rating # NoRating
               PROVE  \E i \in 1..Len(opinion') :
                        /\ opinion'[i].trace = t
                        /\ opinion'[i].rating = runs[t].rating
                        /\ opinion'[i].correction = runs[t].correction
    BY DEF Shows
  <1>1. PICK i \in 1..Len(opinion) :
          /\ opinion[i].trace = t
          /\ opinion[i].rating = runs[t].rating
          /\ opinion[i].correction = runs[t].correction
    BY DEF Shows
  <1>2. Len(opinion) \in Nat /\ Len(opinion') \in Nat
    BY DEF Typed
  <1>3. i \in 1..Len(opinion') /\ opinion'[i] = opinion[i]
    BY <1>1, <1>2 DEF Grows
  <1> QED BY <1>1, <1>3

\* A run that is written without a lost update shows the feedback just stored.
LEMMA StoreShows ==
    ASSUME Inv, NEW w \in Workers, Store(w), worker[w].row # NoRun,
           NEW t \in Traces, opinion[worker[w].id].trace = t, worker[w].row = runs[t]
    PROVE  Shows(t)'
  <1> DEFINE h == worker[w]
             o == opinion[h.id]
  <1>1. /\ h.id \in 1..Len(opinion) /\ t \in Traces /\ runs[t] # NoRun
    BY StoreShape
  <1>2. o \in Opinion /\ runs[t] \in Run
    BY <1>1 DEF Inv, Typed
  <1>3. /\ runs' = [runs EXCEPT ![t] = Written(runs[t], h.row, o)]
        /\ opinion' = opinion
    BY DEF Store
  <1>4. runs'[t] = Written(runs[t], runs[t], o)
    BY <1>1, <1>3 DEF Inv, Typed
  <1>5. runs'[t].rating = o.rating /\ runs'[t].correction = o.correction
    BY <1>2, <1>4, WrittenFresh
  <1> QED BY <1>1, <1>3, <1>5 DEF Shows

\* Who changes a run: the query it records, or a feedback that loaded it.
LEMMA RunChanges ==
    ASSUME Inv, [Next]_storeVars, NEW t \in Traces, runs'[t] # runs[t]
    PROVE  \E w \in Workers :
             \/ RecordRun(w) /\ worker[w].trace = t
             \/ Store(w) /\ worker[w].row # NoRun /\ opinion[worker[w].id].trace = t
  <1>1. ASSUME NEW w \in Workers, RecordRun(w) PROVE worker[w].trace = t
    BY <1>1, RecordRunShape DEF Inv
  <1>2. ASSUME NEW w \in Workers, Store(w)
        PROVE  worker[w].row # NoRun /\ opinion[worker[w].id].trace = t
    BY <1>2, StoreShape
  <1>3. (\E w \in Workers : RecordRun(w) \/ Store(w)) \/ runs' = runs
    BY DEF Next, Query, Deliver, Feedback, Select, Recorded, NotStored, Crash, storeVars
  <1> QED BY <1>1, <1>2, <1>3

LEMMA RecordShows ==
    ASSUME Inv, NEW w \in Workers, RecordRun(w),
           NEW t \in Traces, worker[w].trace = t
    PROVE  Shows(t)'
  <1>1. runs'[t] = [response |-> worker[w].response, rating |-> NoRating,
                    correction |-> NoText]
    BY DEF RecordRun, Inv, Typed
  <1>2. runs'[t].rating = NoRating
    BY <1>1
  <1> QED BY <1>2 DEF Shows

\* Only a lost update makes a run show a rating and a correction that no one sent
\* together: whenever nobody else wrote the run between record_feedback's SELECT
\* and its UPDATE, the run shows the feedback just stored.
THEOREM TornOnlyByStaleRow ==
    Spec => [][\A t \in Traces : Shows(t) => Shows(t)' \/ StaleWrite(t)]_storeVars
  <1>1. Inv /\ [Next]_storeVars =>
          [\A t \in Traces : Shows(t) => Shows(t)' \/ StaleWrite(t)]_storeVars
    <2> SUFFICES ASSUME Inv, [Next]_storeVars, NEW t \in Traces, Shows(t), ~StaleWrite(t)
                 PROVE  Shows(t)'
      OBVIOUS
    <2>1. Grows /\ Typed /\ Typed'
      BY StepGrows DEF Inv
    <2>2. CASE runs'[t] = runs[t]
      BY <2>1, <2>2, ShowsStays
    <2>3. CASE runs'[t] # runs[t]
      <3>1. PICK w \in Workers :
              \/ RecordRun(w) /\ worker[w].trace = t
              \/ Store(w) /\ worker[w].row # NoRun /\ opinion[worker[w].id].trace = t
        BY <2>3, RunChanges
      <3>2. CASE RecordRun(w) /\ worker[w].trace = t
        BY <3>2, RecordShows
      <3>3. CASE Store(w) /\ worker[w].row # NoRun /\ opinion[worker[w].id].trace = t
        BY <3>3, StoreShows DEF StaleWrite
      <3> QED BY <3>1, <3>2, <3>3
    <2> QED BY <2>2, <2>3
  <1> QED BY <1>1, Invariant, PTL DEF Spec

\* Alone, a worker finds what it loaded.
LEMMA FreshStep ==
    ASSUME Inv, [Next]_storeVars, \A v, w \in Workers : v = w,
           NEW w \in Workers, Fresh(w)
    PROVE  Fresh(w)'
  <1>1. Typed /\ Grows /\ Loaded(w)
    BY StepGrows DEF Inv
  <1>2. ASSUME NEW t \in Traces, NEW r \in Responses, Query(w, t, r) PROVE Fresh(w)'
    BY <1>1, <1>2, QueryShape DEF Fresh
  <1>3. CASE RecordRun(w)
    BY <1>1, <1>3, RecordRunShape DEF Fresh
  <1>4. CASE Deliver(w)
    BY <1>1, <1>4, DeliverShape DEF Fresh, Idle
  <1>5. ASSUME NEW o \in Opinion, Feedback(w, o) PROVE Fresh(w)'
    BY <1>1, <1>5, FeedbackShape DEF Fresh
  <1>6. CASE Select(w)
    BY <1>1, <1>6, SelectShape DEF Fresh, Select
  <1>7. CASE Store(w)
    BY <1>7, StoreShape DEF Fresh
  <1>8. CASE Recorded(w) \/ NotStored(w)
    BY <1>1, <1>8, FinishShape DEF Fresh, Idle
  <1>9. CASE Crash
    BY <1>1, <1>9, CrashShape DEF Fresh, Idle
  <1>10. CASE UNCHANGED storeVars
    BY <1>10 DEF Fresh, storeVars
  <1> QED BY <1>2, <1>3, <1>4, <1>5, <1>6, <1>7, <1>8, <1>9, <1>10 DEF Next

\* In a service that handles one request at a time a run never shows two people's
\* feedback: what breaks it (RunShowsOneFeedback) is the overlap of two requests,
\* not a failed call or a crash.
THEOREM OneWorkerNeverTears ==
    ASSUME \A v, w \in Workers : v = w
    PROVE  Spec => []RunShowsOneFeedback
  <1> DEFINE AllFresh == \A w \in Workers : Fresh(w)
             Alone == Inv /\ AllFresh /\ RunShowsOneFeedback
  <1>1. RunShowsOneFeedback <=> \A t \in Traces : Shows(t)
    BY DEF RunShowsOneFeedback, Shows
  <1>2. RunShowsOneFeedback' <=> \A t \in Traces : Shows(t)'
    BY DEF RunShowsOneFeedback, Shows
  <1>3. Init => Alone
    <2> SUFFICES ASSUME Init PROVE AllFresh /\ \A t \in Traces : Shows(t)
      BY <1>1, InvInit
    <2> QED BY DEF Init, Idle, Fresh, Shows
  <1>4. Alone /\ [Next]_storeVars => Alone'
    <2> SUFFICES ASSUME Alone, [Next]_storeVars PROVE Alone'
      OBVIOUS
    <2>1. Inv'
      BY InvStep
    <2>2. AllFresh'
      BY FreshStep
    <2>3. ASSUME NEW t \in Traces PROVE Shows(t)'
      <3>1. Grows /\ Typed /\ Typed' /\ Shows(t)
        BY <1>1, StepGrows DEF Inv
      <3>2. CASE runs'[t] = runs[t]
        BY <3>1, <3>2, ShowsStays
      <3>3. CASE runs'[t] # runs[t]
        <4>1. PICK w \in Workers :
                \/ RecordRun(w) /\ worker[w].trace = t
                \/ Store(w) /\ worker[w].row # NoRun /\ opinion[worker[w].id].trace = t
          BY <3>3, RunChanges
        <4>2. CASE RecordRun(w) /\ worker[w].trace = t
          BY <4>2, RecordShows
        <4>3. CASE Store(w) /\ worker[w].row # NoRun /\ opinion[worker[w].id].trace = t
          <5>1. worker[w].row = runs[t]
            BY <4>3 DEF Fresh, Store
          <5> QED BY <4>3, <5>1, StoreShows
        <4> QED BY <4>1, <4>2, <4>3
      <3> QED BY <3>2, <3>3
    <2> QED BY <1>2, <2>1, <2>2, <2>3
  <1>5. Alone => RunShowsOneFeedback
    OBVIOUS
  <1> QED BY <1>3, <1>4, <1>5, PTL DEF Spec


-----------------------------------------------------------------------------
(***************************************************************************)
(* A feedback is handled once.                                             *)
(***************************************************************************)
\* A worker that handles a feedback is the only one to do so, and nobody has
\* answered it yet; until its commit takes effect the log knows nothing of it.
Sole(w) ==
    worker[w].pc \in Handling =>
        /\ status[worker[w].id] = "pending"
        /\ \A v \in Workers :
              worker[v].pc \in Handling /\ worker[v].id = worker[w].id => v = w
        /\ worker[w].pc # "stored" => \A e \in events : e.id # worker[w].id

\* No feedback is in the log twice.
LoggedOnce == \A e, f \in events : e.id = f.id => e = f

\* The log only grows, and an answer that POST /feedback has given stands.
LogAndAnswersStand ==
    [][ /\ events \subseteq events'
        /\ \A i \in 1..Len(opinion) :
              status[i] # "pending" => status'[i] = status[i] ]_storeVars

SoleInv == (\A w \in Workers : Sole(w)) /\ LoggedOnce

AnswersStand ==
    \A i \in 1..Len(opinion) : status[i] # "pending" => status'[i] = status[i]

\* A worker that handles no feedback by this step, or the same as before, of which
\* nothing else has changed.
LEMMA SoleLocal ==
    ASSUME Inv, SoleInv, NEW w \in Workers,
           \A v \in Workers \ {w} : worker'[v] = worker[v],
           worker'[w].pc \in Handling =>
              /\ worker[w].pc \in Handling /\ worker'[w].id = worker[w].id
              /\ worker'[w].pc # "stored" => worker[w].pc # "stored",
           UNCHANGED events,
           \A i \in 1..Len(opinion) :
              status'[i] = status[i] \/ (worker[w].pc \in Handling /\ i = worker[w].id
                                          /\ worker'[w].pc \notin Handling)
    PROVE  SoleInv' /\ AnswersStand
  <1>1. ASSUME NEW u \in Workers, worker'[u].pc \in Handling
        PROVE  /\ worker[u].pc \in Handling /\ worker'[u].id = worker[u].id
               /\ worker'[u].pc # "stored" => worker[u].pc # "stored"
               /\ worker[u].id \in 1..Len(opinion)
    BY <1>1 DEF Inv, Loaded
  <1>2. ASSUME NEW u \in Workers PROVE Sole(u)'
    <2> SUFFICES ASSUME worker'[u].pc \in Handling
                 PROVE  /\ status'[worker'[u].id] = "pending"
                        /\ \A v \in Workers : worker'[v].pc \in Handling
                              /\ worker'[v].id = worker'[u].id => v = u
                        /\ worker'[u].pc # "stored" =>
                              \A e \in events' : e.id # worker'[u].id
      BY DEF Sole
    <2>1. Sole(u)
      BY DEF SoleInv
    <2>2. \A v \in Workers : worker'[v].pc \in Handling /\ worker'[v].id = worker'[u].id
             => v = u
      BY <1>1, <2>1 DEF Sole
    <2>3. status'[worker'[u].id] = "pending"
      BY <1>1, <2>1 DEF Sole
    <2>4. worker'[u].pc # "stored" => \A e \in events' : e.id # worker'[u].id
      BY <1>1, <2>1 DEF Sole
    <2> QED BY <2>2, <2>3, <2>4
  <1>3. AnswersStand
    BY DEF AnswersStand, SoleInv, Sole
  <1> QED BY <1>2, <1>3 DEF SoleInv, LoggedOnce

LEMMA FeedbackSole ==
    ASSUME Inv, SoleInv, NEW w \in Workers, NEW o \in Opinion, Feedback(w, o)
    PROVE  SoleInv' /\ AnswersStand
  <1> DEFINE n == Len(opinion) + 1
  <1>1. /\ worker'[w].id = n
        /\ \A v \in Workers \ {w} : worker'[v] = worker[v]
        /\ \A i \in 1..Len(opinion) : status'[i] = status[i]
        /\ status'[n] = "pending"
        /\ events' = events
    BY FeedbackShape DEF Inv, Feedback
  <1>2. Len(opinion) \in Nat
    BY DEF Inv, Typed
  <1>3. \A v \in Workers : worker[v].pc \in Handling => worker[v].id \in 1..Len(opinion)
    BY DEF Inv, Loaded
  <1>4. \A e \in events : e.id \in 1..Len(opinion)
    BY DEF Inv, Truthful
  <1>5. n \notin 1..Len(opinion)
    BY <1>2
  <1> HIDE DEF n
  <1>6. Sole(w)'
    BY <1>1, <1>3, <1>4, <1>5 DEF Sole
  <1>7. ASSUME NEW u \in Workers \ {w} PROVE Sole(u)'
    <2>1. Sole(u) /\ worker'[u] = worker[u]
      BY <1>1 DEF SoleInv
    <2> QED BY <1>1, <1>3, <1>5, <2>1 DEF Sole
  <1>8. LoggedOnce' /\ AnswersStand
    BY <1>1 DEF SoleInv, LoggedOnce, AnswersStand
  <1> QED BY <1>6, <1>7, <1>8 DEF SoleInv

LEMMA StoreSole ==
    ASSUME Inv, SoleInv, NEW w \in Workers, Store(w)
    PROVE  SoleInv' /\ AnswersStand
  <1> DEFINE id == worker[w].id
             e  == EventOf(id, worker[w].row)
  <1>1. /\ worker[w].pc = "storing" /\ worker[w].pc \in Handling
        /\ worker'[w].pc = "stored" /\ worker'[w].id = id
        /\ \A v \in Workers \ {w} : worker'[v] = worker[v]
        /\ events' = events \union {e}
        /\ status' = status
    BY StoreShape DEF Handling, Store
  <1>2. e.id = id
    BY DEF EventOf
  <1>3. /\ status[id] = "pending"
        /\ \A v \in Workers : worker[v].pc \in Handling /\ worker[v].id = id => v = w
        /\ \A f \in events : f.id # id
    BY <1>1 DEF SoleInv, Sole
  <1> HIDE DEF e, id
  <1>4. Sole(w)'
    BY <1>1, <1>3 DEF Sole
  <1>5. ASSUME NEW u \in Workers \ {w} PROVE Sole(u)'
    <2>1. Sole(u) /\ worker'[u] = worker[u]
      BY <1>1 DEF SoleInv
    <2> QED BY <1>1, <1>2, <1>3, <2>1 DEF Sole
  <1>6. LoggedOnce'
    BY <1>1, <1>2, <1>3 DEF SoleInv, LoggedOnce
  <1>7. AnswersStand
    BY <1>1 DEF AnswersStand
  <1> QED BY <1>4, <1>5, <1>6, <1>7 DEF SoleInv

LEMMA FinishSole ==
    ASSUME Inv, SoleInv, NEW w \in Workers, Recorded(w) \/ NotStored(w)
    PROVE  SoleInv' /\ AnswersStand
  <1>1. /\ worker[w].pc \in Handling /\ worker'[w] = Idle
        /\ \A v \in Workers \ {w} : worker'[v] = worker[v]
        /\ events' = events
    BY FinishShape DEF Inv, Recorded, NotStored
  <1>2. PICK a : status' = [status EXCEPT ![worker[w].id] = a]
    BY DEF Recorded, NotStored
  <1>3. DOMAIN status = 1..Len(opinion)
    BY DEF Inv, Typed
  <1>4. \A i \in 1..Len(opinion) : status'[i] = status[i] \/ i = worker[w].id
    BY <1>2, <1>3
  <1>5. Idle.pc \notin Handling
    BY DEF Idle, Handling
  <1> QED BY <1>1, <1>4, <1>5, SoleLocal

LEMMA SoleStep ==
    ASSUME Inv, SoleInv, [Next]_storeVars
    PROVE  SoleInv' /\ AnswersStand
  <1>1. Typed
    BY DEF Inv
  <1>2. ASSUME NEW w \in Workers, NEW t \in Traces, NEW r \in Responses, Query(w, t, r)
        PROVE  SoleInv' /\ AnswersStand
    <2>1. /\ worker'[w].pc \notin Handling
          /\ \A v \in Workers \ {w} : worker'[v] = worker[v]
          /\ UNCHANGED <<events, status>>
      BY <1>1, <1>2, QueryShape DEF Query, Handling
    <2> QED BY <2>1, SoleLocal
  <1>3. ASSUME NEW w \in Workers, RecordRun(w) PROVE SoleInv' /\ AnswersStand
    <2>1. /\ worker'[w].pc \notin Handling
          /\ \A v \in Workers \ {w} : worker'[v] = worker[v]
          /\ UNCHANGED <<events, status>>
      BY <1>1, <1>3, RecordRunShape DEF RecordRun, Handling
    <2> QED BY <2>1, SoleLocal
  <1>4. ASSUME NEW w \in Workers, Deliver(w) PROVE SoleInv' /\ AnswersStand
    <2>1. /\ worker'[w].pc \notin Handling
          /\ \A v \in Workers \ {w} : worker'[v] = worker[v]
          /\ UNCHANGED <<events, status>>
      BY <1>1, <1>4, DeliverShape DEF Deliver, Handling, Idle
    <2> QED BY <2>1, SoleLocal
  <1>5. ASSUME NEW w \in Workers, Select(w) PROVE SoleInv' /\ AnswersStand
    <2>1. /\ worker[w].pc = "selecting" /\ worker'[w].pc = "storing"
          /\ worker'[w].id = worker[w].id
          /\ \A v \in Workers \ {w} : worker'[v] = worker[v]
          /\ UNCHANGED <<events, status>>
      BY <1>1, <1>5, SelectShape DEF Select, Inv
    <2>2. worker[w].pc \in Handling
      BY <2>1 DEF Handling
    <2> QED BY <2>1, <2>2, SoleLocal
  <1>6. CASE Crash
    <2>1. \A v \in Workers : worker'[v] = Idle
      BY <1>1, <1>6, CrashShape
    <2>2. UNCHANGED <<events, opinion, status>> /\ Idle.pc \notin Handling
      BY <1>6 DEF Crash, Idle, Handling
    <2> QED BY <2>1, <2>2 DEF SoleInv, Sole, LoggedOnce, AnswersStand
  <1>7. CASE UNCHANGED storeVars
    BY <1>7 DEF storeVars, SoleInv, Sole, LoggedOnce, AnswersStand
  <1> QED BY <1>2, <1>3, <1>4, <1>5, <1>6, <1>7, FeedbackSole, StoreSole, FinishSole DEF Next

\* A feedback is stored at most once and answered at most once, and neither is
\* taken back, whatever overlaps, fails or crashes (record_feedback, _feedback).
THEOREM HandledOnce == Spec => []LoggedOnce /\ LogAndAnswersStand
  <1>1. Init => SoleInv
    BY DEF Init, SoleInv, Sole, LoggedOnce, Idle, Handling
  <1>2. Inv /\ SoleInv /\ [Next]_storeVars =>
          /\ SoleInv'
          /\ [ /\ events \subseteq events'
               /\ \A i \in 1..Len(opinion) :
                     status[i] # "pending" => status'[i] = status[i] ]_storeVars
    BY SoleStep, StepGrows DEF Grows, AnswersStand
  <1>3. SoleInv => LoggedOnce
    BY DEF SoleInv
  <1> QED BY <1>1, <1>2, <1>3, Invariant, PTL DEF Spec, LogAndAnswersStand

=============================================================================

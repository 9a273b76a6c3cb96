---------------------------- MODULE FeedbackStore ----------------------------
(***************************************************************************)
(* What the service keeps about its answers: the tables query_runs and     *)
(* feedback_events, written by POST /query (QueryService, record_query_run)*)
(* and POST /feedback (record_feedback), read by the dataset exporter.     *)
(*                                                                         *)
(* A worker is a request being handled, by any process of the service.     *)
(* Each await on the database is a point where another worker may step in, *)
(* the call may fail, or the process may crash.                            *)
(***************************************************************************)
EXTENDS Naturals, Sequences, FiniteSets

CONSTANTS
    Workers,        \* requests handled at the same time
    Traces,         \* trace ids
    Responses,      \* payloads of POST /query
    Ratings,        \* FeedbackRequest.rating
    Corrections,    \* texts of FeedbackRequest.corrected_answer
    MaxFeedback     \* bound: feedback requests sent

CONSTANTS NoTrace, NoResponse, NoRating, NoText, NoRun   \* None, in Python

ASSUME FeedbackConfig ==
    /\ MaxFeedback \in Nat
    /\ NoTrace \notin Traces
    /\ NoResponse \notin Responses
    /\ NoRating \notin Ratings
    /\ NoText \notin Corrections

Text == Corrections \union {NoText}

\* The columns of QueryRun that matter here; feedback_comment and feedback_at
\* are written with the other two.
Run == [response : Responses, rating : Ratings \union {NoRating},
        correction : Text]

ASSUME NoSuchRun == NoRun \notin Run

\* A feedback request: the trace and the response the client has in mind, what
\* it says of them, whether it sends the response along (model_response) and
\* the answer it got from POST /feedback.
Opinion == [trace : Traces \union {NoTrace},
            response : Responses \union {NoResponse},
            quoted : BOOLEAN, rating : Ratings, correction : Text]

Status == {"pending", "recorded", "degraded_not_stored"}

\* FeedbackEvent; id is the number of the request it stores.
Event == [id : 1..MaxFeedback, trace : Traces \union {NoTrace},
          response : Responses \union {NoResponse}, rating : Ratings,
          correction : Text]

Delivery == [trace : Traces, response : Responses]

\* A worker: which request it handles, and for feedback the row it selected.
Worker ==
    [pc : {"idle"}]
      \union
    [pc : {"recording", "recorded"}, trace : Traces, response : Responses]
      \union
    [pc : {"selecting", "storing", "stored"}, id : 1..MaxFeedback,
     row : Run \union {NoRun}]

VARIABLES
    runs,       \* table query_runs, by trace_id
    events,     \* table feedback_events
    worker,     \* the request each worker is handling
    asked,      \* how many queries carried each trace id, counted up to Many
    delivered,  \* the answers clients have
    opinion,    \* the feedback requests sent, in order
    status      \* what the service answered to each of them

storeVars == <<runs, events, worker, asked, delivered, opinion, status>>

Idle == [pc |-> "idle"]
Many == 2

Init ==
    /\ runs = [t \in Traces |-> NoRun]
    /\ events = {}
    /\ worker = [w \in Workers |-> Idle]
    /\ asked = [t \in Traces |-> 0]
    /\ delivered = {}
    /\ opinion = <<>>
    /\ status = <<>>

-----------------------------------------------------------------------------
\* The trace id of a query is the client's x-trace-id, if it sends one that is a
\* UUID, or a new one.  A client may send the same one again.
Count(t) == [asked EXCEPT ![t] = IF @ = Many THEN Many ELSE @ + 1]

\* POST /query: the answer is computed and about to be recorded.
Query(w, t, r) ==
    /\ worker[w] = Idle
    /\ asked' = Count(t)
    /\ worker' = [worker EXCEPT
                    ![w] = [pc |-> "recording", trace |-> t, response |-> r]]
    /\ UNCHANGED <<runs, events, delivered, opinion, status>>

\* Mutant: the run of a repeated trace id replaces the one recorded before.
RecordRun_Upsert(w) ==
    LET q == worker[w] IN
    /\ q.pc = "recording"
    /\ runs' = [runs EXCEPT ![q.trace] =
                  [response |-> q.response, rating |-> NoRating,
                   correction |-> NoText]]
    /\ worker' = [worker EXCEPT ![w].pc = "recorded"]
    /\ UNCHANGED <<events, asked, delivered, opinion, status>>

\* record_query_run: trace_id is the primary key, a second INSERT fails.
RecordRun(w) ==
    LET q == worker[w] IN
    /\ q.pc = "recording"
    /\ runs[q.trace] = NoRun
    /\ runs' = [runs EXCEPT ![q.trace] =
                  [response |-> q.response, rating |-> NoRating,
                   correction |-> NoText]]
    /\ worker' = [worker EXCEPT ![w].pc = "recorded"]
    /\ UNCHANGED <<events, asked, delivered, opinion, status>>

\* The answer goes out, whether recording it succeeded or raised.
Deliver(w) ==
    LET q == worker[w] IN
    /\ q.pc \in {"recording", "recorded"}
    /\ delivered' = delivered \union
                      {[trace |-> q.trace, response |-> q.response]}
    /\ worker' = [worker EXCEPT ![w] = Idle]
    /\ UNCHANGED <<runs, events, asked, opinion, status>>

-----------------------------------------------------------------------------
\* POST /feedback.  Without a trace id there is no row to select.
Feedback(w, o) ==
    /\ worker[w] = Idle
    /\ Len(opinion) < MaxFeedback
    /\ opinion' = Append(opinion, o)
    /\ status' = Append(status, "pending")
    /\ worker' = [worker EXCEPT ![w] =
                    [pc |-> IF o.trace = NoTrace THEN "storing" ELSE "selecting",
                     id |-> Len(opinion) + 1, row |-> NoRun]]
    /\ UNCHANGED <<runs, events, asked, delivered>>

\* A client judges an answer it was given, with its trace id or without (or with
\* one that is no UUID), or judges nothing in particular.
Judges(o) ==
    \/ \E d \in delivered :
          o.response = d.response /\ o.trace \in {d.trace, NoTrace}
    \/ o.trace = NoTrace /\ o.response = NoResponse /\ ~o.quoted

\* The select of the query run: the session keeps the columns as it found them.
Select(w) ==
    LET h == worker[w] IN
    /\ h.pc = "selecting"
    /\ worker' = [worker EXCEPT
                    ![w] = [pc |-> "storing", id |-> h.id,
                            row |-> runs[opinion[h.id].trace]]]
    /\ UNCHANGED <<runs, events, asked, delivered, opinion, status>>

\* Mutant: only the correction is written to the run.
Written_NoRating(run, row, o) ==
    [run EXCEPT !.correction = o.correction]

\* What the UPDATE makes of a run: the unit of work names the columns whose
\* value is not the one the session loaded, and only those.
Written(run, row, o) ==
    [response   |-> run.response,
     rating     |-> IF o.rating # row.rating THEN o.rating ELSE run.rating,
     correction |-> IF o.correction # row.correction
                    THEN o.correction ELSE run.correction]

EventOf(id, row) ==
    LET o == opinion[id] IN
    [id |-> id, trace |-> o.trace,
     response |-> IF o.quoted THEN o.response
                  ELSE IF row # NoRun THEN row.response ELSE NoResponse,
     rating |-> o.rating, correction |-> o.correction]

\* Mutant: the event is logged only with the run it is about.
Store_OnlyWithRun(w) ==
    LET h == worker[w]
        o == opinion[h.id]
    IN
    /\ h.pc = "storing"
    /\ events' = IF h.row = NoRun THEN events
                 ELSE events \union {EventOf(h.id, h.row)}
    /\ runs' = IF h.row = NoRun THEN runs
               ELSE [runs EXCEPT ![o.trace] = Written(@, h.row, o)]
    /\ worker' = [worker EXCEPT ![w].pc = "stored"]
    /\ UNCHANGED <<asked, delivered, opinion, status>>

\* The commit takes effect: the UPDATE of the run, if one was selected, and the
\* INSERT of the event, in one transaction.
Store(w) ==
    LET h == worker[w]
        o == opinion[h.id]
    IN
    /\ h.pc = "storing"
    /\ events' = events \union {EventOf(h.id, h.row)}
    /\ runs' = IF h.row = NoRun THEN runs
               ELSE [runs EXCEPT ![o.trace] = Written(@, h.row, o)]
    /\ worker' = [worker EXCEPT ![w].pc = "stored"]
    /\ UNCHANGED <<asked, delivered, opinion, status>>

\* The commit returns.
Recorded(w) ==
    LET h == worker[w] IN
    /\ h.pc = "stored"
    /\ status' = [status EXCEPT ![h.id] = "recorded"]
    /\ worker' = [worker EXCEPT ![w] = Idle]
    /\ UNCHANGED <<runs, events, asked, delivered, opinion>>

\* The select or the commit raises; the connection may be lost before the
\* commit takes effect, or after.
NotStored(w) ==
    LET h == worker[w] IN
    /\ h.pc \in {"selecting", "storing", "stored"}
    /\ status' = [status EXCEPT ![h.id] = "degraded_not_stored"]
    /\ worker' = [worker EXCEPT ![w] = Idle]
    /\ UNCHANGED <<runs, events, asked, delivered, opinion>>

\* The service goes down and comes up again; the database stays.
Crash ==
    /\ \E w \in Workers : worker[w] # Idle
    /\ worker' = [w \in Workers |-> Idle]
    /\ UNCHANGED <<runs, events, asked, delivered, opinion, status>>

Next ==
    \/ \E w \in Workers :
         \/ \E t \in Traces, r \in Responses : Query(w, t, r)
         \/ RecordRun(w)
         \/ Deliver(w)
         \/ \E o \in Opinion : Judges(o) /\ Feedback(w, o)
         \/ Select(w)
         \/ Store(w)
         \/ Recorded(w)
         \/ NotStored(w)
    \/ Crash

Spec == Init /\ [][Next]_storeVars

-----------------------------------------------------------------------------
\* Mutant: the correction comes from the run, which holds only the last one.
Dataset_FromRun ==
    {[trace |-> e.trace, response |-> runs[e.trace].response,
      rating |-> e.rating, correction |-> runs[e.trace].correction] :
       e \in {e \in events : e.trace # NoTrace /\ e.correction # NoText
                              /\ runs[e.trace] # NoRun}}

\* export_jsonl: query_runs joined with the events that carry a correction.
Dataset ==
    {[trace |-> e.trace, response |-> runs[e.trace].response,
      rating |-> e.rating, correction |-> e.correction] :
       e \in {e \in events : e.trace # NoTrace /\ e.correction # NoText
                              /\ runs[e.trace] # NoRun}}

-----------------------------------------------------------------------------
\* Every variable has its type, and a run carries a correction only with a
\* rating.
TypeOK ==
    /\ runs \in [Traces -> Run \union {NoRun}]
    /\ \A t \in Traces : runs[t] # NoRun /\ runs[t].correction # NoText
          => runs[t].rating # NoRating
    /\ events \subseteq Event
    /\ worker \in [Workers -> Worker]
    /\ asked \in [Traces -> 0..Many]
    /\ delivered \subseteq Delivery
    /\ opinion \in Seq(Opinion)
    /\ status \in [1..Len(opinion) -> Status]

\* A feedback the service calls recorded is in the log, word for word, and with
\* the answer it judges: the one the client sent along, or the one recorded under
\* its trace id, if that was recorded and no other query carried the same id.
RecordedIsStored ==
    \A i \in 1..Len(opinion) : status[i] = "recorded" =>
        \E e \in events :
            /\ e.id = i
            /\ e.trace = opinion[i].trace
            /\ e.rating = opinion[i].rating
            /\ e.correction = opinion[i].correction
            /\ \/ e.response = opinion[i].response
               \/ ~opinion[i].quoted /\ e.trace = NoTrace
               \/ ~opinion[i].quoted /\ runs[e.trace] = NoRun
               \/ ~opinion[i].quoted /\ asked[e.trace] = Many

\* A recorded run keeps the answer it was written with and is never removed,
\* also when a later query carries the same trace id.
RunsWrittenOnce ==
    [][\A t \in Traces : runs[t] # NoRun =>
          runs'[t] # NoRun /\ runs'[t].response = runs[t].response]_storeVars

\* A record of the dataset pairs an answer with a correction and a rating that
\* one client gave of this very answer.
Faithful(d) ==
    \E i \in 1..Len(opinion) :
        /\ opinion[i].trace = d.trace
        /\ opinion[i].response = d.response
        /\ opinion[i].rating = d.rating
        /\ opinion[i].correction = d.correction

\* Every record about a trace id that one query carried is faithful, however
\* feedback on it overlaps and whatever fails or crashes.
FreshTracesFaithful == \A d \in Dataset : asked[d.trace] = 1 => Faithful(d)

\* README.md:184 has clients send the trace_id of the response they judge: every
\* record of the dataset is faithful.
DatasetFaithful == \A d \in Dataset : Faithful(d)

\* The feedback columns of a run come from one feedback: nobody's rating stands
\* beside somebody else's correction.
RunShowsOneFeedback ==
    \A t \in Traces :
        runs[t] # NoRun /\ runs[t].rating # NoRating =>
            \E i \in 1..Len(opinion) :
                /\ opinion[i].trace = t
                /\ opinion[i].rating = runs[t].rating
                /\ opinion[i].correction = runs[t].correction

=============================================================================

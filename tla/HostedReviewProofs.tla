-------------------------- MODULE HostedReviewProofs --------------------------
(* Theorems about HostedReview for any number of workers, commits and webhooks. *)
EXTENDS HostedReview, TLAPS

\* The phases that have read the head, the files, have a session, have read its request.
HasMeta == {"files", "check", "engine", "running", "ended"}
HasFiles == {"check", "engine", "running", "ended"}
HasSession == {"engine", "running", "ended"}
HasRequest == {"running", "ended"}

\* A review of head h, with its files, unless the head was replaced.
Sound(r, h) == r # NoReview /\ r.head = h /\ (r.diff = h \/ Replaced(h))

\* A webhook after that of d asks for the review of another head.
Superseded(d) == \E e \in Sent : e > d /\ events[e].asks /\ events[e].head # events[d].head

\* The last webhook tells of the head, and other heads have been superseded.
EventTable ==
  /\ Len(events) \in Sent /\ events[Len(events)].head = pr.head
  /\ \A d \in Sent : events[d].head # pr.head => Superseded(d)

\* A job exists exactly for the deliveries that ask for one.
DeliveryTable ==
  /\ deliveries \subseteq Sent
  /\ \A d \in Delivery :
       /\ job[d].status # "absent" <=> d \in deliveries /\ events[d].asks
       /\ job[d].why # "none" => job[d].status # "absent"

\* What a worker has read, by phase.
AttemptOK(w) ==
  LET k == wk[w]
      h == events[k.job].head
  IN  /\ k.phase # "idle" => k.job \in Sent
      /\ k.phase \in HasMeta =>
           /\ k.snap.head = h \/ Superseded(k.job)
           /\ k.snap.head = pr.head \/ Replaced(k.snap.head)
      /\ k.phase \in HasFiles => k.snap.diff = k.snap.head \/ Replaced(k.snap.head)
      /\ k.phase \in HasSession => k.snap.head = h /\ session[h].request # NoReview
      /\ k.phase \in HasRequest => Sound(k.given, h)
      /\ k.phase = "ended" => session[h].result # NoReview /\ k.fresh

AttemptTable == \A w \in Worker : AttemptOK(w)

\* A session directory holds what is about its head.
SessionTable ==
  \A h \in Commit : /\ session[h].request # NoReview => Sound(session[h].request, h)
                    /\ session[h].result # NoReview => Sound(session[h].result, h)

\* What is stored.
RunTable ==
  \A d \in Delivery : runs[d] # NoRun =>
    /\ d \in Sent
    /\ job[d].status = "complete"
    /\ row # NoRow
    /\ runs[d].fresh
    /\ runs[d].head = events[d].head
    /\ runs[d].diff = runs[d].head \/ Replaced(runs[d].head)

\* A job is dropped for its head only when it has been superseded.
StaleTable ==
  \A d \in Delivery : job[d].why = "stale" => Superseded(d)

HostInv == /\ EventTable
           /\ DeliveryTable
           /\ AttemptTable
           /\ SessionTable
           /\ RunTable
           /\ StaleTable

-----------------------------------------------------------------------------
(* Types. *)

JobRow == [status : {"absent", "queued", "running", "complete", "failed"},
           holder : Worker \cup {NoWorker},
           why : {"none", "stale", "tried"}]

Directory == [request : Review \cup {NoReview}, result : Review \cup {NoReview}]

Record == [phase : Phase, job : Delivery \cup {NoJob}, snap : Snapshot,
           given : Review \cup {NoReview}, fresh : BOOLEAN]

\* The types of the parts, by name.
LEMMA PartTypes ==
  ASSUME TypeOK
  PROVE  /\ job \in [Delivery -> JobRow]
         /\ session \in [Commit -> Directory]
         /\ wk \in [Worker -> Record]
  BY DEF TypeOK, JobRow, Directory, Record

\* A row of jobs that changes its status.
LEMMA JobRowType ==
  ASSUME NEW r \in JobRow, NEW st \in {"running", "complete"},
         NEW h \in Worker \cup {NoWorker}
  PROVE  [r EXCEPT !.status = st, !.holder = h] \in JobRow
  BY DEF JobRow

\* A worker that moves, with what it has read.
LEMMA RecordType ==
  ASSUME NEW k \in Record, NEW ph \in Phase, NEW d \in Delivery, NEW s \in Snapshot,
         NEW g \in Review \cup {NoReview}
  PROVE  /\ [k EXCEPT !.phase = ph, !.job = d] \in Record
         /\ [k EXCEPT !.phase = ph, !.snap = s] \in Record
         /\ [k EXCEPT !.phase = ph, !.given = g] \in Record
         /\ [k EXCEPT !.phase = ph, !.fresh = TRUE] \in Record
         /\ [k EXCEPT !.phase = ph] \in Record
         /\ [k EXCEPT !.fresh = TRUE] \in Record
         /\ k.snap \in Snapshot
  BY DEF Record

\* Webhooks already sent stay as they are.
LEMMA Appended ==
  ASSUME TypeOK, NEW asks \in BOOLEAN, NEW h \in Commit, NEW s \in State,
         Happens(asks, h, s)
  PROVE  /\ events' \in Seq(Event) /\ Len(events') <= MaxEvent
         /\ Len(events') = Len(events) + 1
         /\ \A e \in Sent : e \in Sent' /\ events'[e] = events[e]
         /\ Len(events') \in Sent'
         /\ events'[Len(events')] = [asks |-> asks, head |-> h, state |-> s]
         /\ Sent' = Sent \cup {Len(events')}
<1>1. [asks |-> asks, head |-> h, state |-> s] \in Event
  BY DEF Event
<1>2. events \in Seq(Event) /\ Len(events) <= MaxEvent /\ Len(events) < MaxEvent
  BY DEF TypeOK, Happens
<1>3. Len(events) \in Nat /\ MaxEvent \in Nat
  BY <1>2, BoundAssumption
<1>4. events' = Append(events, [asks |-> asks, head |-> h, state |-> s])
  BY DEF Happens
<1>5. /\ events' \in Seq(Event)
      /\ Len(events') = Len(events) + 1
      /\ \A e \in 1..Len(events) : events'[e] = events[e]
      /\ events'[Len(events) + 1] = [asks |-> asks, head |-> h, state |-> s]
  BY <1>1, <1>2, <1>4
<1> QED BY <1>2, <1>3, <1>5 DEF Sent

\* A webhook that was sent is an Event.
LEMMA SentIsEvent ==
  ASSUME TypeOK, NEW e \in Sent
  PROVE  events[e] \in Event /\ events[e].head \in Commit /\ e \in Delivery
<1>1. events \in Seq(Event) /\ Len(events) <= MaxEvent /\ e \in 1..Len(events)
  BY DEF TypeOK, Sent
<1>2. events[e] \in Event /\ Len(events) \in Nat
  BY <1>1
<1> QED BY <1>1, <1>2, BoundAssumption DEF Event, Delivery

\* GitHub's own steps.
LEMMA ChangeCases ==
  ASSUME TypeOK, Change
  PROVE  \E asks \in BOOLEAN, h \in Commit, s \in State :
           /\ Happens(asks, h, s)
           /\ h = pr.head \/ asks
<1>1. pr.head \in Commit /\ pr.state \in State
  BY DEF TypeOK
<1>2. CASE Push
  BY <1>2 DEF Push, State
<1>3. CASE Ready
  BY <1>1, <1>3 DEF Ready, State
<1>4. CASE Close
  BY <1>1, <1>4 DEF Close, State
<1>5. CASE Reopen
  BY <1>1, <1>5 DEF Reopen, State
<1> QED BY <1>2, <1>3, <1>4, <1>5 DEF Change

LEMMA TypeChange == ASSUME TypeOK, Change PROVE TypeOK'
<1>1. PICK asks \in BOOLEAN, h \in Commit, s \in State : Happens(asks, h, s)
  BY ChangeCases
<1>2. events' \in Seq(Event) /\ Len(events') <= MaxEvent
  BY <1>1, Appended
<1>3. pr' \in [head : Commit, state : State]
  BY <1>1 DEF Happens
<1> QED BY <1>1, <1>2, <1>3 DEF Happens, TypeOK, store

LEMMA TypeWebhook ==
  ASSUME TypeOK, NEW d \in Delivery, Lose(d) \/ Ingest(d) \/ Recover(d)
  PROVE  TypeOK'
<1> USE DEF TypeOK
<1>1. CASE Lose(d)
  BY <1>1 DEF Lose, store
<1>2. CASE Ingest(d)
  <2>1. d \in Sent
    BY <1>2 DEF Ingest
  <2>2. events[d] \in Event
    BY <2>1, SentIsEvent
  <2>3. row' \in [head : Commit, state : State] \cup {NoRow}
    BY <1>2, <2>2 DEF Ingest, Told, Event
  <2>4. job' \in [Delivery -> JobRow]
    BY <1>2 DEF Ingest, Queued, JobRow
  <2> QED BY <1>2, <2>3, <2>4 DEF Ingest, github, JobRow
<1>3. CASE Recover(d)
  <2>1. job' \in [Delivery -> JobRow]
    BY <1>3 DEF Recover, Queued, JobRow
  <2> QED BY <1>3, <2>1 DEF Recover, github, JobRow
<1> QED BY <1>1, <1>2, <1>3

\* Ending an attempt.
LEMMA LeavesType ==
  ASSUME TypeOK, NEW w \in Worker, Leaves(w)
  PROVE  wk' \in [Worker -> Record]
<1>1. Idle \in Record
  BY BoundAssumption DEF Idle, Record, Nothing, Snapshot, Commit, State, Phase
<1> QED BY <1>1 DEF TypeOK, Leaves, Record

LEMMA TypeFail ==
  ASSUME TypeOK, NEW w \in Worker,
         NEW st \in {"queued", "failed"}, NEW why \in {"none", "stale", "tried"},
         Fail(w, st, why)
  PROVE  TypeOK'
<1>1. wk' \in [Worker -> Record]
  BY LeavesType DEF Fail
<1>2. job' \in [Delivery -> JobRow]
  BY DEF Fail, TypeOK, JobRow
<1> QED BY <1>1, <1>2 DEF Fail, TypeOK, github, JobRow, Record

\* A worker with a job works on a webhook that was sent.
LEMMA HeadOfJob ==
  ASSUME TypeOK, AttemptTable, NEW w \in Worker, wk[w].phase # "idle"
  PROVE  wk[w].job \in Sent /\ SessionOf(w) \in Commit
  BY SentIsEvent DEF AttemptTable, AttemptOK, SessionOf

LEMMA TypeWorker ==
  ASSUME TypeOK, AttemptTable, NEW w \in Worker,
         Sync(w) \/ Work(w) \/ Trouble(w)
  PROVE  TypeOK'
<1> DEFINE JobOK == job' \in [Delivery -> JobRow]
           WkOK == wk' \in [Worker -> Record]
           SessionOK == session' \in [Commit -> Directory]
<1>a. ASSUME JobOK, WkOK, SessionOK, UNCHANGED github, UNCHANGED deliveries,
             known' \in BOOLEAN, row' \in [head : Commit, state : State] \cup {NoRow},
             runs' \in [Delivery -> Run \cup {NoRun}]
      PROVE  TypeOK'
  BY <1>a DEF TypeOK, github, JobRow, Directory, Record
<1>b. /\ job \in [Delivery -> JobRow]
      /\ session \in [Commit -> Directory]
      /\ wk \in [Worker -> Record]
      /\ known \in BOOLEAN /\ row \in [head : Commit, state : State] \cup {NoRow}
      /\ runs \in [Delivery -> Run \cup {NoRun}]
  BY PartTypes DEF TypeOK
<1>c. pr.head \in Commit /\ pr.state \in State
  BY DEF TypeOK
<1>d. wk[w] \in Record /\ wk[w].snap \in Snapshot
  BY <1>b, RecordType DEF Record
<1> HIDE DEF JobOK, WkOK, SessionOK
<1> USE <1>b
<1>1. CASE Sync(w)
  BY <1>1, <1>a DEF Sync, JobOK, WkOK, SessionOK
<1>2. ASSUME NEW d \in Delivery, Claim(w, d) PROVE TypeOK'
  <2>1. [job[d] EXCEPT !.status = "running", !.holder = w] \in JobRow
    BY JobRowType
  <2>2. [wk[w] EXCEPT !.phase = "meta", !.job = d] \in Record
    BY <1>d DEF Record, Phase
  <2>3. JobOK /\ WkOK /\ SessionOK
    BY <1>2, <2>1, <2>2 DEF Claim, JobOK, WkOK, SessionOK
  <2> QED BY <1>2, <2>3, <1>a DEF Claim
<1>3. CASE ReadMeta(w)
  <2>1. [wk[w].snap EXCEPT !.head = pr.head, !.state = Reported(pr.state)] \in Snapshot
    BY <1>c, <1>d DEF Snapshot, Reported, State
  <2>2. [wk[w] EXCEPT !.phase = "files",
           !.snap = [wk[w].snap EXCEPT !.head = pr.head, !.state = Reported(pr.state)]] \in Record
    BY <1>d, <2>1 DEF Record, Phase
  <2>3. JobOK /\ WkOK /\ SessionOK
    <3>1. wk' = [wk EXCEPT ![w] = [wk[w] EXCEPT !.phase = "files",
                                  !.snap = [wk[w].snap EXCEPT !.head = pr.head, !.state = Reported(pr.state)]]]
      BY <1>3 DEF ReadMeta
    <3>2. WkOK
      BY <2>2, <3>1 DEF WkOK
    <3> QED BY <1>3, <3>2 DEF ReadMeta, store, JobOK, SessionOK
  <2> QED BY <1>3, <2>3, <1>a DEF ReadMeta, store
<1>4. CASE ReadFiles(w)
  <2>1. [wk[w].snap EXCEPT !.diff = pr.head] \in Snapshot
    BY <1>c, <1>d DEF Snapshot
  <2>2. [wk[w] EXCEPT !.phase = "check", !.snap = [wk[w].snap EXCEPT !.diff = pr.head]] \in Record
    BY <1>d, <2>1 DEF Record, Phase
  <2>3. JobOK /\ WkOK /\ SessionOK
    <3>1. wk' = [wk EXCEPT ![w] = [wk[w] EXCEPT !.phase = "check", !.snap = [wk[w].snap EXCEPT !.diff = pr.head]]]
      BY <1>4 DEF ReadFiles
    <3>2. WkOK
      BY <2>2, <3>1 DEF WkOK
    <3> QED BY <1>4, <3>2 DEF ReadFiles, store, JobOK, SessionOK
  <2> QED BY <1>4, <2>3, <1>a DEF ReadFiles, store
<1>5. CASE FailStale(w)
  BY <1>5, TypeFail DEF FailStale
<1>6. CASE Begin(w)
  <2>1. [wk[w] EXCEPT !.phase = "engine"] \in Record
    BY <1>d DEF Record, Phase
  <2>2. [head |-> wk[w].snap.head, diff |-> wk[w].snap.diff] \in Review
    BY <1>d DEF Snapshot, Review
  <2>3. JobOK /\ WkOK /\ SessionOK
    BY <1>6, <2>1, <2>2 DEF Begin, store, JobOK, WkOK, SessionOK, Directory, Record
  <2> QED BY <1>6, <2>3, <1>a DEF Begin, store
<1>7. CASE ReadRequest(w)
  <2>1. SessionOf(w) \in Commit
    BY <1>7, HeadOfJob DEF ReadRequest
  <2>2. [wk[w] EXCEPT !.phase = "running", !.given = session[SessionOf(w)].request]
          \in Record
    BY <1>d, <2>1 DEF Record, Phase, Directory
  <2>3. JobOK /\ WkOK /\ SessionOK
    BY <1>7, <2>2 DEF ReadRequest, store, JobOK, WkOK, SessionOK
  <2> QED BY <1>7, <2>3, <1>a DEF ReadRequest, store
<1>8. CASE WriteResult(w)
  <2>1. \A v \in Worker : /\ [wk[v] EXCEPT !.phase = "ended", !.fresh = TRUE] \in Record
                          /\ [wk[v] EXCEPT !.fresh = TRUE] \in Record
                          /\ wk[v] \in Record
    BY DEF Record, Phase
  <2>2. wk[w].given \in Review \cup {NoReview}
    BY <1>d DEF Record
  <2>3. JobOK /\ WkOK /\ SessionOK
    BY <1>8, <2>1, <2>2 DEF WriteResult, store, JobOK, WkOK, SessionOK, Directory
  <2> QED BY <1>8, <2>3, <1>a DEF WriteResult, store
<1>9. CASE StoreRun(w)
  <2>1. WkOK
    BY <1>9, LeavesType DEF StoreRun, WkOK
  <2>2. SessionOf(w) \in Commit /\ session[SessionOf(w)].result \in Review
    BY <1>9, HeadOfJob DEF StoreRun, HasResult, AttemptTable, AttemptOK, SessionOf, Directory
  <2>3. runs' \in [Delivery -> Run \cup {NoRun}]
    BY <1>9, <1>d, <2>2 DEF StoreRun, Review, Run, Record
  <2>4. \A d \in Delivery :
          [job[d] EXCEPT !.status = "complete", !.holder = NoWorker] \in JobRow
    BY JobRowType
  <2>5. JobOK
    BY <1>9, <2>4 DEF StoreRun, JobOK
  <2>6. row' \in [head : Commit, state : State]
    BY <1>9, <1>d DEF StoreRun, Upsert, Snapshot, State
  <2> QED BY <1>9, <2>1, <2>3, <2>5, <2>6, <1>a DEF StoreRun, SessionOK
<1>10. CASE LoseJob(w)
  BY <1>10, <1>a, LeavesType DEF LoseJob, store, JobOK, WkOK, SessionOK
<1>11. CASE FailJob(w)
  BY <1>11, TypeFail DEF FailJob
<1>12. CASE Stop(w)
  BY <1>12, <1>a, LeavesType DEF Stop, store, JobOK, WkOK, SessionOK
<1> QED BY <1>1, <1>2, <1>3, <1>4, <1>5, <1>6, <1>7, <1>8, <1>9, <1>10, <1>11, <1>12
        DEF Work, Trouble

-----------------------------------------------------------------------------
(* The invariant: frames. *)

\* What webhooks have told of heads is not taken back by later ones.
LEMMA HistoryStays ==
  ASSUME TypeOK, \A e \in Sent : e \in Sent' /\ events'[e] = events[e]
  PROVE  /\ \A h : Replaced(h) => Replaced(h)'
         /\ \A d \in Sent : Superseded(d) => Superseded(d)'
  BY DEF Replaced, Superseded

\* Nothing is taken from a worker that does not move.
LEMMA Unmoved ==
  ASSUME TypeOK, NEW v \in Worker, AttemptOK(v), wk'[v] = wk[v],
         \A e \in Sent : e \in Sent' /\ events'[e] = events[e],
         \A h : h = pr.head => h = pr'.head \/ Replaced(h)',
         \A h \in Commit :
           /\ session[h].request # NoReview => session'[h].request # NoReview
           /\ session[h].result # NoReview => session'[h].result # NoReview
  PROVE  AttemptOK(v)'
<1>1. CASE wk[v].phase = "idle"
  BY <1>1 DEF AttemptOK, HasMeta, HasFiles, HasSession, HasRequest
<1>2. CASE wk[v].phase # "idle"
  <2>1. wk[v].job \in Sent
    BY <1>2 DEF AttemptOK
  <2>2. /\ events'[wk[v].job] = events[wk[v].job] /\ wk[v].job \in Sent'
        /\ events[wk[v].job].head \in Commit
    BY <2>1, SentIsEvent
  <2>3. ASSUME NEW j, NEW h, NEW g,
               j = wk[v].job, h = events[wk[v].job].head, g = wk[v].snap.head
        PROVE  /\ wk[v].phase \in HasMeta => /\ g = h \/ Superseded(j)'
                                             /\ g = pr'.head \/ Replaced(g)'
               /\ wk[v].phase \in HasFiles => wk[v].snap.diff = g \/ Replaced(g)'
               /\ wk[v].phase \in HasRequest =>
                    /\ wk[v].given # NoReview /\ wk[v].given.head = h
                    /\ wk[v].given.diff = h \/ Replaced(h)'
    <3>1. Replaced(g) => Replaced(g)'
      BY HistoryStays
    <3>2. Replaced(h) => Replaced(h)'
      BY HistoryStays
    <3>3. Superseded(j) => Superseded(j)'
      BY <2>1, <2>3, HistoryStays
    <3> QED BY <2>3, <3>1, <3>2, <3>3 DEF AttemptOK, Sound
  <2> QED BY <2>2, <2>3 DEF AttemptOK, Sound, Replaced, Superseded
<1> QED BY <1>1, <1>2

\* A worker that has left its job.
LEMMA LeftOK ==
  ASSUME TypeOK, NEW w \in Worker, Leaves(w), AttemptTable,
         UNCHANGED <<pr, events, session>>
  PROVE  AttemptTable'
<1>1. AttemptOK(w)'
  BY DEF TypeOK, Leaves, Idle, AttemptOK, HasMeta, HasFiles, HasSession, HasRequest
<1>2. ASSUME NEW v \in Worker \ {w} PROVE AttemptOK(v)'
  <2>1. wk'[v] = wk[v]
    BY <1>2 DEF TypeOK, Leaves
  <2> QED BY <2>1, Unmoved DEF AttemptTable, Sent
<1> QED BY <1>1, <1>2 DEF AttemptTable

-----------------------------------------------------------------------------
(* The invariant: GitHub. *)

LEMMA InvChange == ASSUME TypeOK, HostInv, Change PROVE HostInv'
<1> USE DEF HostInv
<1>1. PICK asks \in BOOLEAN, h \in Commit, s \in State :
        Happens(asks, h, s) /\ (h = pr.head \/ asks)
  BY ChangeCases
<1> DEFINE last == Len(events')
<1>2. /\ \A e \in Sent : e \in Sent' /\ events'[e] = events[e] /\ e < last
      /\ last \in Sent' /\ Sent' = Sent \cup {last}
      /\ events'[last] = [asks |-> asks, head |-> h, state |-> s]
  <2>1. /\ \A e \in Sent : e \in Sent' /\ events'[e] = events[e]
        /\ last \in Sent' /\ Sent' = Sent \cup {last}
        /\ events'[last] = [asks |-> asks, head |-> h, state |-> s]
        /\ last = Len(events) + 1
    BY <1>1, Appended
  <2>2. \A e \in Sent : e < last
    BY <2>1 DEF TypeOK, Sent
  <2> QED BY <2>1, <2>2
<1>3. pr'.head = h
  BY <1>1 DEF Happens
<1>4. UNCHANGED <<deliveries, row, job, runs, session, wk>>
  BY <1>1 DEF Happens, store
<1> HIDE DEF last
<1>5. /\ \A g : Replaced(g) => Replaced(g)'
      /\ \A d \in Sent : Superseded(d) => Superseded(d)'
  BY <1>2, HistoryStays
<1>6. EventTable'
  <2>1. ASSUME NEW d \in Sent', events'[d].head # h
        PROVE  Superseded(d)'
    <3>1. d \in Sent /\ events'[d] = events[d] /\ d < last
      BY <1>2, <2>1
    <3>2. CASE h = pr.head
      BY <1>5, <2>1, <3>1, <3>2 DEF EventTable
    <3>3. CASE asks
      BY <1>2, <2>1, <3>1, <3>3 DEF Superseded
    <3> QED BY <1>1, <3>2, <3>3
  <2> QED BY <1>2, <1>3, <2>1 DEF EventTable, last
<1>7. ASSUME NEW g, g = pr.head PROVE g = pr'.head \/ Replaced(g)'
  <2>1. Len(events) \in Sent' /\ events'[Len(events)].head = g /\ Len(events) < last
    BY <1>2, <1>7 DEF EventTable
  <2> QED BY <1>2, <1>3, <2>1 DEF Replaced
<1>8. DeliveryTable'
  <2>1. deliveries' \subseteq Sent'
    BY <1>2, <1>4 DEF DeliveryTable
  <2>2. \A d \in deliveries : events'[d] = events[d]
    BY <1>2 DEF DeliveryTable
  <2> QED BY <2>1, <2>2, <1>4 DEF DeliveryTable
<1>9. AttemptTable'
  BY <1>2, <1>4, <1>7, Unmoved DEF AttemptTable
<1>10. SessionTable'
  BY <1>4, <1>5 DEF SessionTable, Sound
<1>11. RunTable'
  BY <1>2, <1>4, <1>5 DEF RunTable
<1>12. StaleTable'
  BY <1>4, <1>5 DEF StaleTable, DeliveryTable
<1> QED BY <1>6, <1>8, <1>9, <1>10, <1>11, <1>12

-----------------------------------------------------------------------------
(* The invariant: webhooks and the queue. *)

\* What depends on neither jobs nor workers.
LEMMA QuietParts ==
  ASSUME HostInv, UNCHANGED <<pr, events, session>>
  PROVE  /\ EventTable' /\ SessionTable' /\ Sent' = Sent
         /\ \A h : Replaced(h)' <=> Replaced(h)
         /\ \A d : Superseded(d)' <=> Superseded(d)
  BY DEF HostInv, EventTable, SessionTable, Sound, Replaced, Superseded, Sent

\* What depends on workers alone.
LEMMA QuietWorkers ==
  ASSUME HostInv, UNCHANGED <<pr, events, session, wk>>
  PROVE  AttemptTable'
  BY DEF HostInv, AttemptTable, AttemptOK, Sound, Replaced, Superseded, Sent

\* A delivery that is new has no job yet.
LEMMA InvIngest ==
  ASSUME TypeOK, HostInv, NEW d \in Delivery, Ingest(d)
  PROVE  HostInv'
<1> USE DEF HostInv
<1>1. /\ UNCHANGED <<pr, events, runs, session, wk>>
      /\ d \in Sent /\ d \notin deliveries /\ deliveries' = deliveries \cup {d}
      /\ row' = Told(events[d])
      /\ job' = IF events[d].asks THEN [job EXCEPT ![d] = Queued] ELSE job
  BY DEF Ingest, github, New, Asks
<1>2. /\ EventTable' /\ SessionTable' /\ AttemptTable' /\ Sent' = Sent
      /\ \A h : Replaced(h)' <=> Replaced(h)
      /\ \A c : Superseded(c)' <=> Superseded(c)
  BY <1>1, QuietParts, QuietWorkers
<1>3. job[d].status = "absent"
  BY <1>1 DEF DeliveryTable
<1>4. /\ \A c \in Delivery \ {d} : job'[c] = job[c]
      /\ events[d].asks => job'[d] = Queued
      /\ ~events[d].asks => job'[d] = job[d]
  BY <1>1 DEF TypeOK
<1>5. DeliveryTable'
  <2>1. deliveries' \subseteq Sent'
    BY <1>1, <1>2 DEF DeliveryTable
  <2>2. ASSUME NEW c \in Delivery
        PROVE  /\ job'[c].status # "absent" <=> c \in deliveries' /\ events'[c].asks
               /\ job'[c].why # "none" => job'[c].status # "absent"
    <3>1. CASE c = d
      BY <1>1, <1>3, <1>4, <3>1 DEF DeliveryTable, Queued
    <3>2. CASE c # d
      BY <1>1, <1>4, <3>2 DEF DeliveryTable
    <3> QED BY <3>1, <3>2
  <2> QED BY <2>1, <2>2 DEF DeliveryTable
<1>6. RunTable'
  <2>1. row # NoRow => row' # NoRow
    <3>1. events[d] \in Event
      BY <1>1, SentIsEvent
    <3> QED BY <1>1, <3>1, ValueAssumption DEF Told, Event
  <2>2. runs[d] = NoRun
    BY <1>3 DEF RunTable
  <2> QED BY <1>1, <1>2, <1>4, <2>1, <2>2 DEF RunTable
<1>7. StaleTable'
  BY <1>2, <1>4 DEF StaleTable, Queued
<1> QED BY <1>2, <1>5, <1>6, <1>7

\* The queue's steps: no job appears, none that is complete changes, and a job
\* dropped for its head has an old one.
LEMMA JobStep ==
  ASSUME TypeOK, HostInv, UNCHANGED <<pr, events, deliveries, row, runs, session>>,
         AttemptTable',
         \A d \in Delivery :
           \/ job'[d] = job[d]
           \/ /\ job[d].status \notin {"absent", "complete"} /\ job'[d].status # "absent"
              /\ job'[d].why = "stale" => Superseded(d)
  PROVE  HostInv'
<1> USE DEF HostInv
<1>1. /\ EventTable' /\ SessionTable' /\ Sent' = Sent
      /\ \A h : Replaced(h)' <=> Replaced(h)
      /\ \A d : Superseded(d)' <=> Superseded(d)
  BY QuietParts
<1>2. DeliveryTable'
  BY <1>1 DEF DeliveryTable
<1>3. RunTable'
  BY <1>1 DEF RunTable
<1>4. StaleTable'
  BY <1>1 DEF StaleTable
<1> QED BY <1>1, <1>2, <1>3, <1>4

LEMMA InvRecover ==
  ASSUME TypeOK, HostInv, NEW d \in Delivery, Recover(d)
  PROVE  HostInv'
<1>1. UNCHANGED <<pr, events, deliveries, row, runs, session, wk>>
  BY DEF Recover, github
<1>2. AttemptTable'
  BY <1>1, QuietWorkers
<1>3. \A c \in Delivery : job'[c] = job[c] \/ (c = d /\ job'[c] = Queued)
  BY DEF Recover, TypeOK
<1> QED BY <1>1, <1>2, <1>3, JobStep DEF Recover, Queued

LEMMA InvClaim ==
  ASSUME TypeOK, HostInv, NEW w \in Worker, NEW d \in Delivery, Claim(w, d)
  PROVE  HostInv'
<1>1. UNCHANGED <<pr, events, deliveries, row, runs, session>>
  BY DEF Claim, github
<1>2. d \in Sent
  BY DEF Claim, HostInv, DeliveryTable
<1>3. AttemptTable'
  <2>1. wk'[w].phase = "meta" /\ wk'[w].job = d /\ \A v \in Worker \ {w} : wk'[v] = wk[v]
    BY DEF Claim, TypeOK
  <2>2. AttemptOK(w)'
    BY <1>1, <1>2, <2>1
       DEF AttemptOK, HasMeta, HasFiles, HasSession, HasRequest, Sent
  <2>3. ASSUME NEW v \in Worker \ {w} PROVE AttemptOK(v)'
    BY <1>1, <2>1, <2>3, Unmoved DEF HostInv, AttemptTable, Sent
  <2> QED BY <2>2, <2>3 DEF AttemptTable
<1>4. \A c \in Delivery \ {d} : job'[c] = job[c]
  BY DEF Claim, TypeOK
<1>5. /\ job[d].status = "queued" /\ job'[d].status = "running"
      /\ job'[d].why = job[d].why
  <2>1. job \in [Delivery -> JobRow]
    BY PartTypes
  <2> QED BY <2>1 DEF Claim, JobRow
<1>6. job'[d].why = "stale" => Superseded(d)
  BY <1>5 DEF HostInv, StaleTable
<1> QED BY <1>1, <1>3, <1>4, <1>5, <1>6, JobStep

\* A worker's end of its attempt.
LEMMA InvFail ==
  ASSUME TypeOK, HostInv, NEW w \in Worker,
         NEW st \in {"queued", "failed"}, NEW why \in {"none", "stale", "tried"},
         Fail(w, st, why),
         why = "stale" => Superseded(wk[w].job)
  PROVE  HostInv'
<1>1. /\ UNCHANGED <<pr, events, deliveries, row, runs, session>> /\ Leaves(w)
      /\ job' = IF Owns(w)
                THEN [job EXCEPT ![wk[w].job] =
                        [status |-> st, holder |-> NoWorker, why |-> why]]
                ELSE job
  BY DEF Fail, github
<1>2. AttemptTable'
  BY <1>1, LeftOK DEF HostInv
<1>3. ASSUME NEW c \in Delivery, job'[c] # job[c]
      PROVE  /\ job[c].status = "running" /\ c = wk[w].job
             /\ job'[c] = [status |-> st, holder |-> NoWorker, why |-> why]
  BY <1>1, <1>3 DEF TypeOK, Owns
<1> QED BY <1>1, <1>2, <1>3, JobStep

-----------------------------------------------------------------------------
(* The invariant: workers. *)

\* A step of a worker that changes its record alone, or a session too.
LEMMA WorkerStep ==
  ASSUME TypeOK, HostInv, NEW w \in Worker,
         UNCHANGED <<pr, events, store>>, AttemptOK(w)',
         \A v \in Worker \ {w} : wk'[v] = wk[v] \/ AttemptOK(v)',
         \A h \in Commit :
           /\ session[h].request # NoReview => session'[h].request # NoReview
           /\ session[h].result # NoReview => session'[h].result # NoReview,
         SessionTable'
  PROVE  HostInv'
<1> USE DEF HostInv
<1>1. EventTable' /\ DeliveryTable' /\ RunTable' /\ StaleTable'
  BY DEF EventTable, DeliveryTable, RunTable, StaleTable, Replaced, Superseded, Sent, store
<1>2. \A e \in Sent : e \in Sent' /\ events'[e] = events[e]
  BY DEF Sent
<1>3. ASSUME NEW v \in Worker \ {w} PROVE AttemptOK(v)'
  BY <1>2, Unmoved DEF AttemptTable
<1> QED BY <1>1, <1>3 DEF AttemptTable

LEMMA InvReadMeta ==
  ASSUME TypeOK, HostInv, NEW w \in Worker, ReadMeta(w)
  PROVE  HostInv'
<1>1. /\ UNCHANGED <<pr, events, store, session>> /\ wk[w].phase = "meta"
      /\ wk' = [wk EXCEPT ![w] = [@ EXCEPT !.phase = "files",
                 !.snap = [wk[w].snap EXCEPT !.head = pr.head, !.state = Reported(pr.state)]]]
  BY DEF ReadMeta, github
<1>2. /\ wk'[w].phase = "files" /\ wk'[w].snap.head = pr.head /\ wk'[w].job = wk[w].job
      /\ \A v \in Worker \ {w} : wk'[v] = wk[v]
  BY <1>1 DEF TypeOK, Snapshot
<1>3. wk[w].job \in Sent
  BY <1>1 DEF HostInv, AttemptTable, AttemptOK
<1>4. events[wk[w].job].head # pr.head => Superseded(wk[w].job)
  BY <1>3 DEF HostInv, EventTable
<1>5. AttemptOK(w)'
  BY <1>1, <1>2, <1>3, <1>4
     DEF AttemptOK, HasMeta, HasFiles, HasSession, HasRequest, Superseded, Sent
<1>6. SessionTable'
  BY <1>1, QuietParts
<1> QED BY <1>1, <1>2, <1>5, <1>6, WorkerStep

LEMMA InvReadFiles ==
  ASSUME TypeOK, HostInv, NEW w \in Worker, ReadFiles(w)
  PROVE  HostInv'
<1>1. /\ UNCHANGED <<pr, events, store, session>> /\ wk[w].phase = "files"
      /\ wk' = [wk EXCEPT ![w] = [@ EXCEPT !.phase = "check",
                                  !.snap = [wk[w].snap EXCEPT !.diff = pr.head]]]
  BY DEF ReadFiles, github
<1>2. /\ wk'[w].phase = "check" /\ wk'[w].snap.head = wk[w].snap.head
      /\ wk'[w].snap.diff = pr.head /\ wk'[w].job = wk[w].job
      /\ \A v \in Worker \ {w} : wk'[v] = wk[v]
  BY <1>1 DEF TypeOK, Snapshot
<1>3. AttemptOK(w)
  BY DEF HostInv, AttemptTable
<1>4. AttemptOK(w)'
  BY <1>1, <1>2, <1>3
     DEF AttemptOK, HasMeta, HasFiles, HasSession, HasRequest, Replaced, Superseded, Sent
<1>5. SessionTable'
  BY <1>1, QuietParts
<1> QED BY <1>1, <1>2, <1>4, <1>5, WorkerStep

LEMMA InvBegin ==
  ASSUME TypeOK, HostInv, NEW w \in Worker, Begin(w)
  PROVE  HostInv'
<1> DEFINE h == SessionOf(w)
           r == [head |-> wk[w].snap.head, diff |-> wk[w].snap.diff]
<1>1. /\ UNCHANGED <<pr, events, store>> /\ wk[w].phase = "check"
      /\ wk[w].snap.head = h
      /\ wk' = [wk EXCEPT ![w].phase = "engine"]
      /\ session' = [session EXCEPT ![h].request = r]
  BY DEF Begin, github, Stale, SessionOf
<1>2. AttemptOK(w) /\ h \in Commit /\ h = events[wk[w].job].head
  BY <1>1, HeadOfJob DEF HostInv, AttemptTable, SessionOf
<1>3. /\ wk'[w].phase = "engine" /\ wk'[w].snap = wk[w].snap /\ wk'[w].job = wk[w].job
      /\ \A v \in Worker \ {w} : wk'[v] = wk[v]
  BY <1>1 DEF TypeOK
<1>4. r \in Review
  BY DEF TypeOK, Snapshot, Review
<1>5. r # NoReview /\ r.head = h /\ r.diff = wk[w].snap.diff
  BY <1>1, <1>4, ValueAssumption
<1> HIDE DEF h, r
<1>6. /\ session'[h].request = r /\ session'[h].result = session[h].result
      /\ \A g \in Commit \ {h} : session'[g] = session[g]
  BY <1>1, <1>2 DEF TypeOK
<1>7. Sound(r, h)
  BY <1>1, <1>2, <1>5 DEF AttemptOK, HasFiles, Sound
<1>8. SessionTable'
  <2>1. ASSUME NEW g \in Commit
        PROVE  /\ session'[g].request # NoReview => Sound(session'[g].request, g)
               /\ session'[g].result # NoReview => Sound(session'[g].result, g)
    BY <1>6, <1>7 DEF HostInv, SessionTable
  <2> QED BY <2>1, <1>1 DEF SessionTable, Sound, Replaced, Sent
<1>9. AttemptOK(w)'
  BY <1>1, <1>2, <1>3, <1>5, <1>6
     DEF AttemptOK, HasMeta, HasFiles, HasSession, HasRequest, Replaced, Superseded, Sent
<1> QED BY <1>1, <1>3, <1>5, <1>6, <1>8, <1>9, WorkerStep

LEMMA InvReadRequest ==
  ASSUME TypeOK, HostInv, NEW w \in Worker, ReadRequest(w)
  PROVE  HostInv'
<1> DEFINE h == SessionOf(w)
<1>1. /\ UNCHANGED <<pr, events, store, session>> /\ wk[w].phase = "engine"
      /\ wk' = [wk EXCEPT ![w] = [@ EXCEPT !.phase = "running", !.given = session[h].request]]
  BY DEF ReadRequest, github
<1>2. AttemptOK(w) /\ h \in Commit /\ h = events[wk[w].job].head
  BY <1>1, HeadOfJob DEF HostInv, AttemptTable, SessionOf
<1>3. /\ wk'[w].phase = "running" /\ wk'[w].snap = wk[w].snap /\ wk'[w].job = wk[w].job
      /\ wk'[w].given = session[h].request
      /\ \A v \in Worker \ {w} : wk'[v] = wk[v]
  BY <1>1 DEF TypeOK
<1> HIDE DEF h
<1>4. Sound(session[h].request, h)
  BY <1>1, <1>2 DEF HostInv, SessionTable, AttemptOK, HasSession
<1>5. AttemptOK(w)'
  <2>1. Sound(wk[w].given, h)'
    BY <1>1, <1>2, <1>3, <1>4 DEF h, SessionOf, Sound, Replaced, Sent
  <2> QED BY <1>1, <1>2, <1>3, <2>1
          DEF AttemptOK, HasMeta, HasFiles, HasSession, HasRequest, Replaced, Superseded, Sent,
              h, SessionOf
<1>6. SessionTable'
  BY <1>1, QuietParts
<1> QED BY <1>1, <1>3, <1>5, <1>6, WorkerStep

LEMMA InvWriteResult ==
  ASSUME TypeOK, HostInv, NEW w \in Worker, WriteResult(w)
  PROVE  HostInv'
<1> DEFINE h == SessionOf(w)
<1>1. /\ UNCHANGED <<pr, events, store>> /\ wk[w].phase = "running"
      /\ session' = [session EXCEPT ![h].result = wk[w].given]
  BY DEF WriteResult, github
<1>2. AttemptOK(w) /\ h \in Commit /\ h = events[wk[w].job].head
  BY <1>1, HeadOfJob DEF HostInv, AttemptTable, SessionOf
<1>3. /\ wk'[w] = [wk[w] EXCEPT !.phase = "ended", !.fresh = TRUE]
      /\ \A v \in Worker \ {w} :
           wk'[v] = wk[v] \/ wk'[v] = [wk[v] EXCEPT !.fresh = TRUE]
  BY DEF WriteResult
<1>4. /\ wk'[w].phase = "ended" /\ wk'[w].fresh /\ wk'[w].snap = wk[w].snap
      /\ wk'[w].job = wk[w].job /\ wk'[w].given = wk[w].given
  BY <1>3 DEF TypeOK
<1> HIDE DEF h
<1>5. Sound(wk[w].given, h)
  BY <1>1, <1>2 DEF AttemptOK, HasRequest
<1>6. /\ session'[h].result = wk[w].given /\ session'[h].request = session[h].request
      /\ \A g \in Commit \ {h} : session'[g] = session[g]
  BY <1>1, <1>2 DEF TypeOK
<1>7. SessionTable'
  <2>1. ASSUME NEW g \in Commit
        PROVE  /\ session'[g].request # NoReview => Sound(session'[g].request, g)
               /\ session'[g].result # NoReview => Sound(session'[g].result, g)
    BY <1>5, <1>6 DEF HostInv, SessionTable
  <2> QED BY <2>1, <1>1 DEF SessionTable, Sound, Replaced, Sent
<1>8. AttemptOK(w)'
  <2>1. wk[w].given # NoReview
    BY <1>5 DEF Sound
  <2> QED BY <1>1, <1>2, <1>4, <1>5, <1>6, <2>1
          DEF AttemptOK, HasMeta, HasFiles, HasSession, HasRequest, Sent, Sound, Replaced,
              Superseded
<1>9. \A g \in Commit :
        /\ session[g].request # NoReview => session'[g].request # NoReview
        /\ session[g].result # NoReview => session'[g].result # NoReview
  BY <1>5, <1>6 DEF Sound
<1>10. ASSUME NEW v \in Worker \ {w}, wk'[v] = [wk[v] EXCEPT !.fresh = TRUE]
       PROVE  AttemptOK(v)'
  <2>1. /\ wk'[v].phase = wk[v].phase /\ wk'[v].job = wk[v].job /\ wk'[v].snap = wk[v].snap
        /\ wk'[v].given = wk[v].given /\ wk'[v].fresh
    BY <1>10 DEF TypeOK
  <2>2. AttemptOK(v)
    BY DEF HostInv, AttemptTable
  <2>3. wk[v].phase # "idle" => events[wk[v].job].head \in Commit
    BY <2>2, SentIsEvent DEF AttemptOK
  <2> QED BY <1>1, <1>9, <2>1, <2>2, <2>3
          DEF AttemptOK, HasMeta, HasFiles, HasSession, HasRequest, Sent, Sound, Replaced,
              Superseded
<1> QED BY <1>1, <1>3, <1>7, <1>8, <1>9, <1>10, WorkerStep

LEMMA InvStoreRun ==
  ASSUME TypeOK, HostInv, NEW w \in Worker, StoreRun(w)
  PROVE  HostInv'
<1> USE DEF HostInv
<1> DEFINE j == wk[w].job
           h == events[j].head
           r == session[h].result
           stored == [head |-> r.head, diff |-> r.diff, fresh |-> wk[w].fresh]
<1>1. /\ UNCHANGED <<pr, events, deliveries, session>> /\ Leaves(w)
      /\ wk[w].phase = "ended" /\ j # NoJob /\ job[j].status = "running"
      /\ row' = Upsert(w)
      /\ runs' = [runs EXCEPT ![j] = stored]
      /\ job' = [job EXCEPT ![j] = [@ EXCEPT !.status = "complete", !.holder = NoWorker]]
  BY DEF StoreRun, HasResult, Owns, github, SessionOf
<1>2. j \in Sent /\ h \in Commit /\ j \in Delivery
  BY <1>1, HeadOfJob, SentIsEvent DEF SessionOf
<1>3. wk[w].fresh /\ Sound(r, h)
  BY <1>1, <1>2 DEF AttemptTable, AttemptOK, SessionTable
<1>4. row' # NoRow
  <2>1. row' \in [head : Commit, state : State]
    BY <1>1 DEF Upsert, TypeOK, Snapshot, State
  <2> QED BY <2>1, ValueAssumption
<1>5. /\ runs'[j].head = h /\ runs'[j].diff = r.diff /\ runs'[j].fresh
      /\ \A d \in Delivery \ {j} : runs'[d] = runs[d]
  BY <1>1, <1>2, <1>3 DEF TypeOK, Sound
<1>6. /\ job'[j].status = "complete" /\ job'[j].why = job[j].why
      /\ \A d \in Delivery \ {j} : job'[d] = job[d]
  BY <1>1, <1>2, PartTypes DEF JobRow
<1> HIDE DEF j, h, r, stored
<1>7. /\ EventTable' /\ SessionTable' /\ Sent' = Sent
      /\ \A g : Replaced(g)' <=> Replaced(g)
      /\ \A d : Superseded(d)' <=> Superseded(d)
  BY <1>1, QuietParts
<1>8. DeliveryTable'
  <2>1. ASSUME NEW d \in Delivery
        PROVE  /\ job'[d].status # "absent" <=> d \in deliveries /\ events[d].asks
               /\ job'[d].why # "none" => job'[d].status # "absent"
    <3>1. CASE d = j
      BY <1>1, <1>6, <3>1 DEF DeliveryTable
    <3>2. CASE d # j
      BY <1>6, <3>2 DEF DeliveryTable
    <3> QED BY <3>1, <3>2
  <2> QED BY <2>1, <1>1, <1>7 DEF DeliveryTable
<1>9. AttemptTable'
  BY <1>1, LeftOK
<1>10. StaleTable'
  BY <1>6, <1>7 DEF StaleTable
<1>11. RunTable'
  <2>1. ASSUME NEW d \in Delivery, runs'[d] # NoRun
        PROVE  /\ d \in Sent /\ job'[d].status = "complete" /\ runs'[d].fresh
               /\ runs'[d].head = events[d].head
               /\ runs'[d].diff = runs'[d].head \/ Replaced(runs'[d].head)
    <3>1. CASE d = j
      BY <1>2, <1>3, <1>5, <1>6, <3>1 DEF Sound, h
    <3>2. CASE d # j
      BY <1>5, <1>6, <2>1, <3>2 DEF RunTable
    <3> QED BY <3>1, <3>2
  <2> QED BY <2>1, <1>1, <1>4, <1>7 DEF RunTable
<1> QED BY <1>7, <1>8, <1>9, <1>10, <1>11

\* A process that ends.
LEMMA InvLeaves ==
  ASSUME TypeOK, HostInv, NEW w \in Worker, Leaves(w), UNCHANGED <<pr, events, store, session>>
  PROVE  HostInv'
<1>1. AttemptTable'
  BY LeftOK DEF HostInv
<1> QED BY <1>1, JobStep DEF store

-----------------------------------------------------------------------------
(* Theorems. *)

LEMMA InitInv == Init => TypeOK /\ HostInv
<1> SUFFICES ASSUME Init PROVE TypeOK /\ HostInv
  OBVIOUS
<1>1. 1 \in Commit /\ 1 \in Delivery /\ 1 <= MaxEvent
  BY BoundAssumption DEF Commit, Delivery
<1>2. /\ events \in Seq(Event) /\ Len(events) = 1
      /\ events[1].head = 1 /\ pr.head = 1
  <2>1. [asks |-> pr.state = "open", head |-> 1, state |-> pr.state] \in Event
    BY <1>1 DEF Init, Event
  <2> QED BY <2>1 DEF Init
<1>3. Idle \in Record
  BY <1>1 DEF Idle, Record, Nothing, Snapshot, State, Phase
<1>4. TypeOK
  <2>1. /\ wk \in [Worker -> Record]
        /\ job \in [Delivery -> JobRow]
        /\ session \in [Commit -> Directory]
    BY <1>3 DEF Init, JobRow, Directory
  <2> QED BY <1>1, <1>2, <2>1 DEF Init, TypeOK, Record, JobRow, Directory, State
<1>5. EventTable
  BY <1>2 DEF Init, EventTable, Superseded, Sent
<1>6. DeliveryTable /\ StaleTable /\ RunTable /\ SessionTable
  BY DEF Init, DeliveryTable, StaleTable, RunTable, SessionTable
<1>7. AttemptTable
  BY DEF Init, AttemptTable, AttemptOK, Idle, HasMeta, HasFiles, HasSession, HasRequest
<1> QED BY <1>4, <1>5, <1>6, <1>7 DEF HostInv

LEMMA InvNext == TypeOK /\ HostInv /\ [Next]_vars => TypeOK' /\ HostInv'
<1> SUFFICES ASSUME TypeOK, HostInv, [Next]_vars PROVE TypeOK' /\ HostInv'
  OBVIOUS
<1>1. CASE Change
  BY <1>1, TypeChange, InvChange
<1>2. ASSUME NEW d \in Delivery, Lose(d) \/ Ingest(d) \/ Recover(d)
      PROVE  TypeOK' /\ HostInv'
  <2>1. TypeOK'
    BY <1>2, TypeWebhook
  <2>2. CASE Lose(d)
    <3>1. AttemptTable'
      BY <2>2, QuietWorkers DEF Lose
    <3> QED BY <2>1, <2>2, <3>1, JobStep DEF Lose, store
  <2> QED BY <1>2, <2>1, <2>2, InvIngest, InvRecover
<1>3. ASSUME NEW w \in Worker, Sync(w) \/ Work(w) \/ Trouble(w)
      PROVE  TypeOK' /\ HostInv'
  <2>1. TypeOK'
    BY <1>3, TypeWorker DEF HostInv
  <2>2. CASE Sync(w)
    <3>1. AttemptTable'
      BY <2>2, QuietWorkers DEF Sync, github
    <3> QED BY <2>1, <2>2, <3>1, JobStep DEF Sync, github
  <2>3. CASE FailStale(w)
    <3>1. AttemptOK(w) /\ wk[w].phase = "check" /\ Stale(w) /\ wk[w].job \in Sent
      BY <2>3 DEF FailStale, HostInv, AttemptTable, AttemptOK
    <3>2. Superseded(wk[w].job)
      BY <3>1 DEF AttemptOK, HasMeta, Stale
    <3> QED BY <2>1, <2>3, <3>2, InvFail DEF FailStale
  <2>4. CASE FailJob(w)
    BY <2>1, <2>4, InvFail DEF FailJob
  <2>5. CASE LoseJob(w) \/ Stop(w)
    BY <2>1, <2>5, InvLeaves DEF LoseJob, Stop, github
  <2> QED BY <1>3, <2>1, <2>2, <2>3, <2>4, <2>5, InvClaim, InvReadMeta, InvReadFiles,
             InvBegin, InvReadRequest, InvWriteResult, InvStoreRun DEF Work, Trouble
<1>4. CASE UNCHANGED vars
  <2>1. TypeOK'
    BY <1>4 DEF TypeOK, vars
  <2>2. AttemptTable'
    BY <1>4, QuietWorkers DEF vars
  <2> QED BY <1>4, <2>1, <2>2, JobStep DEF vars
<1> QED BY <1>1, <1>2, <1>3, <1>4 DEF Next

\* Every variable keeps its type.
THEOREM TypeCorrect == Spec => []TypeOK
<1> QED BY InitInv, InvNext, PTL DEF Spec

\* The inductive invariant, from which the properties follow.
THEOREM HostInvariant == Spec => []HostInv
<1> QED BY InitInv, InvNext, PTL DEF Spec

\* A run is never without its pull request's row.
THEOREM RunsHaveRows == Spec => []RunHasRow
<1>1. HostInv => RunHasRow
  BY DEF HostInv, RunTable, RunHasRow
<1> QED BY <1>1, HostInvariant, PTL

\* What is stored for a job is a review of its head that was ended for this attempt,
\* whatever other attempts have left in the session directory.
THEOREM ReviewsAreTheirJobs == Spec => []ReviewIsOfItsJob
<1>1. HostInv => ReviewIsOfItsJob
  BY DEF HostInv, RunTable, ReviewIsOfItsJob
<1> QED BY <1>1, HostInvariant, PTL

\* A review of a head that was never replaced has seen the files of this head.
THEOREM StandingRunsCohere == Spec => []StandingRunCoheres
<1>1. HostInv => StandingRunCoheres
  BY DEF HostInv, RunTable, StandingRunCoheres
<1> QED BY <1>1, HostInvariant, PTL

\* A job that is dropped as outdated leaves the pull request to a later delivery of
\* another head, which has a job once it has arrived.
THEOREM DroppedJobsAreSuperseded == Spec => []StaleIsSuperseded
<1>1. TypeOK /\ HostInv => StaleIsSuperseded
  <2> SUFFICES ASSUME TypeOK, HostInv, NEW d \in Delivery, job[d].why = "stale"
               PROVE  \E e \in Sent : /\ e > d /\ events[e].head # events[d].head
                                      /\ e \in deliveries => job[e].status # "absent"
    BY DEF StaleIsSuperseded
  <2>1. PICK e \in Sent : e > d /\ events[e].asks /\ events[e].head # events[d].head
    BY DEF HostInv, StaleTable, Superseded
  <2>2. e \in Delivery
    BY SentIsEvent
  <2> QED BY <2>1, <2>2 DEF HostInv, DeliveryTable
<1> QED BY <1>1, HostInvariant, TypeCorrect, PTL

-----------------------------------------------------------------------------
(* The refinement. *)

\* What the ledger sees of a row of jobs.
Seen(r) == IF r.status \in {"queued", "running"} THEN "open" ELSE r.status

\* Steps behind the scenes.
LEMMA HiddenStep ==
  ASSUME \A d \in Delivery : Seen(job'[d]) = Seen(job[d]), UNCHANGED runs
  PROVE  UNCHANGED Ledger!ledgerVars
  BY DEF Seen, Ledger!ledgerVars

\* One row changes in the eyes of the ledger, and no run appears.
LEMMA SeenStep ==
  ASSUME NEW j \in Delivery, UNCHANGED runs,
         \A d \in Delivery \ {j} : job'[d] = job[d],
         \/ Seen(job'[j]) = Seen(job[j])
         \/ Seen(job[j]) = "absent" /\ Seen(job'[j]) = "open"
         \/ Seen(job[j]) = "open" /\ Seen(job'[j]) = "failed"
  PROVE  [Ledger!Next]_(Ledger!ledgerVars)
<1>1. CASE Seen(job'[j]) = Seen(job[j])
  BY <1>1, HiddenStep
<1>2. CASE Seen(job[j]) = "absent" /\ Seen(job'[j]) = "open"
  BY <1>2 DEF Seen, Ledger!Next, Ledger!Accept
<1>3. CASE Seen(job[j]) = "open" /\ Seen(job'[j]) = "failed"
  BY <1>3 DEF Seen, Ledger!Next, Ledger!GiveUp
<1> QED BY <1>1, <1>2, <1>3

LEMMA LedgerStep ==
  ASSUME TypeOK, HostInv, [Next]_vars
  PROVE  [Ledger!Next]_(Ledger!ledgerVars)
<1>1. CASE UNCHANGED <<job, runs>>
  BY <1>1, HiddenStep
<1>2. ASSUME NEW d \in Delivery, Ingest(d) PROVE [Ledger!Next]_(Ledger!ledgerVars)
  <2>1. job[d].status = "absent"
    BY <1>2 DEF Ingest, New, HostInv, DeliveryTable
  <2>2. /\ UNCHANGED runs /\ \A c \in Delivery \ {d} : job'[c] = job[c]
        /\ job'[d] = job[d] \/ job'[d] = Queued
    BY <1>2 DEF Ingest, TypeOK
  <2> QED BY <2>1, <2>2, SeenStep DEF Seen, Queued
<1>3. ASSUME NEW d \in Delivery, Recover(d) PROVE [Ledger!Next]_(Ledger!ledgerVars)
  <2>1. /\ UNCHANGED runs /\ \A c \in Delivery \ {d} : job'[c] = job[c]
        /\ job'[d] = Queued /\ job[d].status = "running"
    BY <1>3 DEF Recover, TypeOK
  <2> QED BY <2>1, SeenStep DEF Seen, Queued
<1>4. ASSUME NEW w \in Worker, NEW d \in Delivery, Claim(w, d)
      PROVE  [Ledger!Next]_(Ledger!ledgerVars)
  <2>1. /\ UNCHANGED runs /\ \A c \in Delivery \ {d} : job'[c] = job[c]
        /\ job'[d].status = "running" /\ job[d].status = "queued"
    BY <1>4, PartTypes DEF Claim, JobRow
  <2> QED BY <2>1, SeenStep DEF Seen
<1>5. ASSUME NEW w \in Worker, NEW st \in {"queued", "failed"},
             NEW why \in {"none", "stale", "tried"}, Fail(w, st, why)
      PROVE  [Ledger!Next]_(Ledger!ledgerVars)
  <2>1. CASE ~Owns(w)
    BY <1>5, <1>1, <2>1 DEF Fail
  <2>2. CASE Owns(w)
    <3>1. wk[w].job \in Delivery /\ job[wk[w].job].status = "running"
      BY <2>2 DEF Owns, TypeOK
    <3>2. /\ UNCHANGED runs /\ \A c \in Delivery \ {wk[w].job} : job'[c] = job[c]
          /\ job'[wk[w].job].status = st
      BY <1>5, <2>2, <3>1 DEF Fail, TypeOK
    <3> QED BY <3>1, <3>2, SeenStep DEF Seen
  <2> QED BY <2>1, <2>2
<1>6. ASSUME NEW w \in Worker, StoreRun(w) PROVE [Ledger!Next]_(Ledger!ledgerVars)
  <2> DEFINE j == wk[w].job
  <2>1. j \in Delivery /\ j \in Sent /\ SessionOf(w) \in Commit /\ job[j].status = "running"
    BY <1>6, HeadOfJob, SentIsEvent DEF StoreRun, HasResult, Owns, HostInv
  <2>2. session[SessionOf(w)].result \in Review /\ wk[w].fresh \in BOOLEAN
    BY <1>6, <2>1, PartTypes
       DEF StoreRun, HasResult, HostInv, AttemptTable, AttemptOK, SessionOf, Directory, Record
  <2>3. /\ job'[j].status = "complete" /\ \A c \in Delivery \ {j} : job'[c] = job[c]
        /\ runs'[j] # NoRun /\ \A c \in Delivery \ {j} : runs'[c] = runs[c]
    <3>1. [head |-> session[SessionOf(w)].result.head,
           diff |-> session[SessionOf(w)].result.diff, fresh |-> wk[w].fresh] \in Run
      BY <2>2 DEF Review, Run
    <3> QED BY <1>6, <2>1, <3>1, PartTypes, ValueAssumption DEF StoreRun, TypeOK, JobRow
  <2>4. ASSUME NEW d \in Delivery, d = j PROVE Ledger!Deliver(d)
    BY <2>1, <2>3, <2>4 DEF Ledger!Deliver
  <2>5. \E d \in Delivery : Ledger!Deliver(d)
    BY <2>1, <2>4
  <2> QED BY <2>5 DEF Ledger!Next
<1>7. CASE Change
  BY <1>1, <1>7 DEF Change, Push, Ready, Close, Reopen, Happens, store
<1>8. ASSUME NEW d \in Delivery, Lose(d) PROVE [Ledger!Next]_(Ledger!ledgerVars)
  BY <1>1, <1>8 DEF Lose, store
<1>9. ASSUME NEW w \in Worker, Sync(w) \/ Work(w) \/ Trouble(w)
      PROVE  [Ledger!Next]_(Ledger!ledgerVars)
  <2>1. CASE Sync(w)
    BY <1>1, <2>1 DEF Sync
  <2>2. CASE Work(w)
    <3>1. CASE FailStale(w)
      BY <1>5, <3>1 DEF FailStale
    <3>2. CASE ReadMeta(w) \/ ReadFiles(w) \/ Begin(w) \/ ReadRequest(w)
      BY <1>1, <3>2 DEF ReadMeta, ReadFiles, Begin, ReadRequest, store
    <3>3. CASE WriteResult(w) \/ LoseJob(w)
      BY <1>1, <3>3 DEF WriteResult, LoseJob, store
    <3> QED BY <2>2, <3>1, <3>2, <3>3, <1>4, <1>6 DEF Work
  <2>3. CASE FailJob(w)
    BY <1>5, <2>3 DEF FailJob
  <2>4. CASE Stop(w)
    BY <1>1, <2>4 DEF Stop, store
  <2> QED BY <1>9, <2>1, <2>2, <2>3, <2>4 DEF Trouble
<1>10. CASE UNCHANGED vars
  BY <1>1, <1>10 DEF vars
<1> QED BY <1>2, <1>3, <1>7, <1>8, <1>9, <1>10 DEF Next

\* With webhooks lost, repeated and overtaken and sessions shared, each delivery that asks
\* for a review is accepted once and settled at most once, with one review or none.
THEOREM HostedImplementsLedger == Spec => LedgerSpec
<1>1. Init => Ledger!Init
  BY DEF Init, Ledger!Init
<1> QED BY <1>1, HostInvariant, TypeCorrect, LedgerStep, PTL DEF Spec, LedgerSpec, Ledger!Spec
=============================================================================

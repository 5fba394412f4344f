---------------------------- MODULE Publication ----------------------------
(***************************************************************************)
(* Publishing a stored review as a comment of one pull request:            *)
(* publish_run (app/server/services.py), publish_preview                   *)
(* (app/server/github.py) and record_publish (app/server/repositories.py). *)
(*                                                                         *)
(* A worker publishes the review it has just stored, and the web process   *)
(* publishes any stored review when an admin asks for it.  Each of the     *)
(* HTTP requests and each insert is a step of its own; between two of them *)
(* other publishers, a push to the branch, a deletion of the comment on    *)
(* GitHub, or the end of the process may come.                             *)
(***************************************************************************)
EXTENDS Naturals, Sequences, FiniteSets

CONSTANTS
  Web,           \* web processes
  Worker,        \* worker processes
  Run,           \* rows of runs of this pull request; each has its own preview
  Sha,          \* commit ids
  HeadOf,        \* runs.head_sha
  NoRun,         \* the run of a process that publishes nothing
  Deleted,       \* a comment that is no longer there
  NoComment,     \* no comment with the marker was listed
  MaxComments    \* bound: comments with the marker ever created

Publisher == Web \cup Worker

ASSUME ValueAssumption == NoRun \notin Run /\ Deleted \notin Run /\ NoComment \notin Nat
ASSUME RunAssumption == HeadOf \in [Run -> Sha]
ASSUME PublisherAssumption == IsFiniteSet(Publisher)
ASSUME BoundAssumption == MaxComments \in Nat

VARIABLES
  head,          \* the head of the pull request on GitHub
  comments,      \* the comments carrying MARKER, oldest first: whose preview each shows
  stored,        \* rows of runs
  audit,         \* rows of publish_audit
  cut,           \* runs a publication of which ended with no row: history
  pub            \* the publish_run calls, one per process at most

vars == <<head, comments, stored, audit, cut, pub>>

-----------------------------------------------------------------------------

\* Before the head check, the listing, the write, the read-back, and the two
\* calls of record_publish.
Phase == {"check", "list", "write", "read", "success", "failure"}

Idle == [phase |-> "idle", run |-> NoRun, target |-> NoComment]

Call == [phase : Phase, run : Run, target : 1..MaxComments \cup {NoComment}]

AuditRow == [run : Run, status : {"success", "failed"}]

\* Every variable has its type.
TypeOK == /\ head \in Sha
          /\ comments \in Seq(Run \cup {Deleted}) /\ Len(comments) <= MaxComments
          /\ stored \subseteq Run
          /\ audit \subseteq AuditRow
          /\ cut \subseteq Run
          /\ pub \in [Publisher -> Call \cup {Idle}]

Init == /\ head \in Sha
        /\ comments = <<>>
        /\ stored = {}
        /\ audit = {}
        /\ cut = {}
        /\ pub = [p \in Publisher |-> Idle]

Goto(p, ph) == pub' = [pub EXCEPT ![p].phase = ph]

Advance(p, ph, c) == pub' = [pub EXCEPT ![p].phase = ph, ![p].target = c]

Begin(p, r) == pub' = [pub EXCEPT ![p] = [phase |-> "check", run |-> r, target |-> NoComment]]

-----------------------------------------------------------------------------
(* GitHub and its users. *)

PushHead == /\ \E h \in Sha \ {head} : head' = h
            /\ UNCHANGED <<comments, stored, audit, cut, pub>>

DeleteComment == /\ \E c \in 1..Len(comments) : comments' = [comments EXCEPT ![c] = Deleted]
                 /\ UNCHANGED <<head, stored, audit, cut, pub>>

-----------------------------------------------------------------------------
(* The callers of publish_run. *)

\* process_one_job, publication enabled: complete_job has returned.
PublishStored(p, r) == /\ p \in Worker
                       /\ pub[p].phase = "idle"
                       /\ r \notin stored
                       /\ stored' = stored \cup {r}
                       /\ Begin(p, r)
                       /\ UNCHANGED <<head, comments, audit, cut>>

\* POST /runs/{run_id}/publish: an async handler that calls publish_run without
\* await, which holds the event loop: one call per web process at a time.
PublishOnRequest(p, r) == /\ p \in Web
                          /\ pub[p].phase = "idle"
                          /\ r \in stored
                          /\ Begin(p, r)
                          /\ UNCHANGED <<head, comments, stored, audit, cut>>

-----------------------------------------------------------------------------
(* publish_preview. *)

CheckHead(p) ==
  /\ pub[p].phase = "check"
  /\ \/ head = HeadOf[pub[p].run] /\ Goto(p, "list")
     \/ Goto(p, "failure")                   \* the head has moved, or no answer
  /\ UNCHANGED <<head, comments, stored, audit, cut>>

Shown == {c \in 1..Len(comments) : comments[c] # Deleted}

\* Faulty: only a comment that shows this very review is taken for the old one.
FirstListedOwn(r) ==
  LET own == {c \in Shown : comments[c] = r}
  IN  IF own = {} THEN {NoComment} ELSE {c \in own : \A e \in own : c <= e}

\* The first listed comment with the marker, whichever review it shows.
FirstListed(r) ==
  IF Shown = {} THEN {NoComment} ELSE {c \in Shown : \A e \in Shown : c <= e}

ListComments(p) ==
  /\ pub[p].phase = "list"
  /\ \/ \E c \in FirstListed(pub[p].run) : Advance(p, "write", c)
     \/ Goto(p, "failure")
  /\ UNCHANGED <<head, comments, stored, audit, cut>>

\* The write reaches GitHub; the answer reaches the caller or is lost.
Answered(p, c) == Advance(p, "read", c) \/ Goto(p, "failure")

Patch(p) == LET c == pub[p].target IN
  /\ c \in Shown
  /\ comments' = [comments EXCEPT ![c] = pub[p].run]
  /\ Answered(p, c)

\* Faulty: the read-back asks for the comment before the new one.
PostPrevious(p) ==
  /\ pub[p].target = NoComment
  /\ Len(comments) < MaxComments
  /\ comments' = Append(comments, pub[p].run)
  /\ Answered(p, Len(comments))

Post(p) ==
  /\ pub[p].target = NoComment
  /\ Len(comments) < MaxComments
  /\ comments' = Append(comments, pub[p].run)
  /\ Answered(p, Len(comments) + 1)

WriteComment(p) ==
  /\ pub[p].phase = "write"
  /\ \/ Patch(p)
     \/ Post(p)
     \/ Goto(p, "failure") /\ UNCHANGED comments    \* refused, deleted, or not sent
  /\ UNCHANGED <<head, stored, audit, cut>>

\* Faulty: the read-back is repeated until it matches.
AfterReadRepeat(p) ==
  IF comments[pub[p].target] = pub[p].run THEN {"success", "failure"} ELSE {"read"}

\* The read-back must show this preview; the request itself may fail.
AfterRead(p) ==
  IF comments[pub[p].target] = pub[p].run THEN {"success", "failure"} ELSE {"failure"}

ReadBack(p) ==
  /\ pub[p].phase = "read"
  /\ \E ph \in AfterRead(p) : Goto(p, ph)
  /\ UNCHANGED <<head, comments, stored, audit, cut>>

-----------------------------------------------------------------------------
(* record_publish, committed and acknowledged or not. *)

Outcome == {"ok", "aborted", "unacked"}

Audited(r, s) == audit' = audit \cup {[run |-> r, status |-> s]}

\* Inside the try block: its exception is one more reason to record a failure.
RecordSuccess(p, o) ==
  /\ pub[p].phase = "success"
  /\ IF o # "aborted" THEN Audited(pub[p].run, "success") ELSE UNCHANGED audit
  /\ IF o = "ok" THEN pub' = [pub EXCEPT ![p] = Idle] ELSE Goto(p, "failure")
  /\ UNCHANGED <<head, comments, stored, cut>>

\* Faulty: the exception is passed on and nothing is recorded.
RecordFailureOmitted(p, o) ==
  /\ pub[p].phase = "failure"
  /\ pub' = [pub EXCEPT ![p] = Idle]
  /\ UNCHANGED <<head, comments, stored, audit, cut>>

\* In the except block: its exception goes to the caller, who only logs it.
RecordFailure(p, o) ==
  /\ pub[p].phase = "failure"
  /\ IF o # "aborted"
     THEN Audited(pub[p].run, "failed") /\ UNCHANGED cut
     ELSE cut' = cut \cup {pub[p].run} /\ UNCHANGED audit
  /\ pub' = [pub EXCEPT ![p] = Idle]
  /\ UNCHANGED <<head, comments, stored>>

\* The call ends with no record: a kill; a stop signal, whose
\* KeyboardInterrupt is no Exception and passes the handler of publish_run; or
\* run_detail failing, which comes before the try block and the head check.
BreakOff(p) == /\ pub[p].phase # "idle"
               /\ cut' = cut \cup {pub[p].run}
               /\ pub' = [pub EXCEPT ![p] = Idle]
               /\ UNCHANGED <<head, comments, stored, audit>>

-----------------------------------------------------------------------------

Step(p) == \/ CheckHead(p) \/ ListComments(p) \/ WriteComment(p) \/ ReadBack(p)
           \/ \E o \in Outcome : RecordSuccess(p, o) \/ RecordFailure(p, o)

Next == \/ PushHead \/ DeleteComment
        \/ \E p \in Publisher : \/ \E r \in Run : PublishStored(p, r) \/ PublishOnRequest(p, r)
                                \/ Step(p)
                                \/ BreakOff(p)

Spec == Init /\ [][Next]_vars

\* Requests and inserts return: httpx has a timeout.
FairSpec == Spec /\ \A p \in Publisher : WF_vars(Step(p))

-----------------------------------------------------------------------------
(* Properties. *)

\* The calls that listed no comment and have not written one yet.
Posting == {p \in Publisher : pub[p].phase = "write" /\ pub[p].target = NoComment}

\* Publication is idempotent up to overlap: however often reviews are
\* published, whatever requests fail, lose their answer or are cut by a crash,
\* and whatever is deleted meanwhile, a pull request shows at most as many
\* review comments as there are processes that publish: one, if they do not
\* overlap.
FewComments == Cardinality(Shown) + Cardinality(Posting) <= Cardinality(Publisher)

\* No publication ends in silence: from the moment a review is stored, either
\* a publication of it is on its way, or it has a row of publish_audit, unless
\* the process ended, or the database was away before the first request or
\* after the last.
NothingSilent ==
  \A r \in stored : \/ \E p \in Publisher : pub[p].run = r
                    \/ \E a \in audit : a.run = r
                    \/ r \in cut

\* Every stored review gets its record, and no publication hangs.
AuditFollows ==
  \A r \in Run : (r \in stored) ~> (r \in cut \/ \E a \in audit : a.run = r)

\* WI-MVP-001.md: "stale runs cannot publish".
StaleNeverPublishes ==
  [][\A c \in 1..Len(comments') :
       (comments'[c] # Deleted /\ (c > Len(comments) \/ comments'[c] # comments[c]))
         => HeadOf[comments'[c]] = head]_vars
=============================================================================

------------------------- MODULE PublicationProofs -------------------------
(***************************************************************************)
(* Theorems about Publication for every finite set of publishing processes *)
(* and any number of reviews and commits.                                  *)
(***************************************************************************)
EXTENDS Publication, FiniteSetTheorems, TLAPS

-----------------------------------------------------------------------------
(* Calls of publish_run. *)

\* What every step of a call p does: it moves that call and no other.
Moves(p) == \A q \in Publisher \ {p} : pub'[q] = pub[q]

\* A call that advances moves nobody else.
LEMMA AdvanceCall ==
  ASSUME TypeOK, NEW p \in Publisher, pub[p].phase # "idle", NEW ph \in Phase,
         NEW c \in 1..MaxComments \cup {NoComment}, Advance(p, ph, c)
  PROVE  /\ pub' \in [Publisher -> Call \cup {Idle}]
         /\ Moves(p)
         /\ pub'[p].phase = ph /\ pub'[p].run = pub[p].run /\ pub'[p].target = c
         /\ pub[p].run \in Run
<1>1. pub \in [Publisher -> Call \cup {Idle}] /\ pub[p] \in Call
  BY DEF TypeOK, Idle
<1>2. pub' = [pub EXCEPT ![p] = [pub[p] EXCEPT !.phase = ph, !.target = c]]
  BY <1>1 DEF Advance
<1>3. /\ [pub[p] EXCEPT !.phase = ph, !.target = c] \in Call
      /\ pub[p].run \in Run
  BY <1>1 DEF Call
<1>4. /\ [pub[p] EXCEPT !.phase = ph, !.target = c].phase = ph
      /\ [pub[p] EXCEPT !.phase = ph, !.target = c].run = pub[p].run
      /\ [pub[p] EXCEPT !.phase = ph, !.target = c].target = c
  BY <1>1 DEF Call
<1>5. QED
  BY <1>1, <1>2, <1>3, <1>4 DEF Moves

\* The same with the comment it writes to unchanged.
LEMMA GotoCall ==
  ASSUME TypeOK, NEW p \in Publisher, pub[p].phase # "idle", NEW ph \in Phase, Goto(p, ph)
  PROVE  /\ pub' \in [Publisher -> Call \cup {Idle}]
         /\ Moves(p)
         /\ pub'[p].phase = ph /\ pub'[p].run = pub[p].run
         /\ pub[p].run \in Run
<1>1. pub \in [Publisher -> Call \cup {Idle}] /\ pub[p] \in Call
  BY DEF TypeOK, Idle
<1>2. pub' = [pub EXCEPT ![p] = [pub[p] EXCEPT !.phase = ph]]
  BY <1>1 DEF Goto
<1>3. /\ [pub[p] EXCEPT !.phase = ph] \in Call
      /\ pub[p].run \in Run
  BY <1>1 DEF Call
<1>4. /\ [pub[p] EXCEPT !.phase = ph].phase = ph
      /\ [pub[p] EXCEPT !.phase = ph].run = pub[p].run
  BY <1>1 DEF Call
<1>5. QED
  BY <1>1, <1>2, <1>3, <1>4 DEF Moves

\* A new call stands before the head check.
LEMMA BeginCall ==
  ASSUME TypeOK, NEW p \in Publisher, NEW r \in Run, Begin(p, r)
  PROVE  /\ pub' \in [Publisher -> Call \cup {Idle}]
         /\ Moves(p)
         /\ pub'[p].phase = "check" /\ pub'[p].run = r
<1>1. [phase |-> "check", run |-> r, target |-> NoComment] \in Call
  BY DEF Call, Phase
<1>2. QED
  BY <1>1 DEF TypeOK, Begin, Moves

\* A call that ends leaves an idle process.
LEMMA EndCall ==
  ASSUME TypeOK, NEW p \in Publisher, pub' = [pub EXCEPT ![p] = Idle]
  PROVE  /\ pub' \in [Publisher -> Call \cup {Idle}]
         /\ Moves(p)
         /\ pub'[p] = Idle
  BY DEF TypeOK, Moves

\* No comment is chosen only if none is there.
LEMMA ListedType ==
  ASSUME TypeOK, NEW r, NEW c \in FirstListed(r)
  PROVE  /\ c \in 1..MaxComments \cup {NoComment}
         /\ c = NoComment => Shown = {}
  BY ValueAssumption, BoundAssumption DEF FirstListed, Shown, TypeOK

-----------------------------------------------------------------------------
(* What each step of a call does. *)

\* A step of call p that leaves GitHub as it is and keeps to its review: it
\* goes on, or it ends with a row of publish_audit or in cut.
Proceeds(p) ==
  /\ UNCHANGED <<head, comments, stored>>
  /\ cut \subseteq cut' /\ cut' \subseteq Run
  /\ audit \subseteq audit' /\ audit' \subseteq AuditRow
  /\ pub' \in [Publisher -> Call \cup {Idle}]
  /\ Moves(p)
  /\ pub[p].run \in Run
  /\ \/ pub'[p].run = pub[p].run /\ pub'[p].phase # "write"
     \/ /\ pub'[p].run = pub[p].run
        /\ pub'[p].target = NoComment => Shown = {}
     \/ /\ pub'[p] = Idle
        /\ pub[p].run \in cut' \/ \E a \in audit' : a.run = pub[p].run

\* A request that fails or only reads proceeds.
LEMMA GotoProceeds ==
  ASSUME TypeOK, NEW p \in Publisher, pub[p].phase # "idle",
         NEW ph \in Phase \ {"write"}, Goto(p, ph),
         UNCHANGED <<head, comments, stored, audit, cut>>
  PROVE  Proceeds(p)
  BY GotoCall DEF Proceeds, TypeOK

\* The listing makes a call a posting one only if no comment is there.
LEMMA ListProceeds ==
  ASSUME TypeOK, NEW p \in Publisher, ListComments(p)
  PROVE  Proceeds(p)
<1>1. UNCHANGED <<head, comments, stored, audit, cut>> /\ pub[p].phase # "idle"
  BY DEF ListComments
<1>2. {"write", "failure"} \subseteq Phase
  BY DEF Phase
<1>3. ASSUME NEW c \in FirstListed(pub[p].run), Advance(p, "write", c)
      PROVE  Proceeds(p)
  <2>1. c \in 1..MaxComments \cup {NoComment} /\ (c = NoComment => Shown = {})
    BY ListedType
  <2>2. QED
    BY <1>1, <1>2, <1>3, <2>1, AdvanceCall DEF Proceeds, TypeOK
<1>4. QED
  BY <1>1, <1>2, <1>3, GotoProceeds DEF ListComments

\* record_publish proceeds: a call ends with a record or a cut.
LEMMA RecordProceeds ==
  ASSUME TypeOK, NEW p \in Publisher, NEW o \in Outcome,
         RecordSuccess(p, o) \/ RecordFailure(p, o)
  PROVE  Proceeds(p)
<1>1. pub[p].phase # "idle" /\ pub[p].run \in Run
  BY DEF RecordSuccess, RecordFailure, TypeOK, Call, Idle
<1>2. \A s \in {"success", "failed"} : [run |-> pub[p].run, status |-> s] \in AuditRow
  BY <1>1 DEF AuditRow
<1>3. UNCHANGED <<head, comments, stored>>
  BY DEF RecordSuccess, RecordFailure
<1>4. CASE RecordSuccess(p, o)
  <2>1. /\ audit \subseteq audit' /\ audit' \subseteq AuditRow /\ cut' = cut
        /\ o = "ok" => \E a \in audit' : a.run = pub[p].run
    BY <1>2, <1>4 DEF RecordSuccess, Audited, TypeOK
  <2>2. CASE o = "ok"
    BY <1>1, <1>3, <1>4, <2>1, <2>2, EndCall DEF RecordSuccess, Proceeds, TypeOK
  <2>3. CASE o # "ok"
    <3>1. "failure" \in Phase /\ Goto(p, "failure")
      BY <1>4, <2>3 DEF RecordSuccess, Phase
    <3>2. QED
      BY <1>1, <1>3, <2>1, <3>1, GotoCall DEF Proceeds, TypeOK
  <2>4. QED
    BY <2>2, <2>3
<1>5. CASE RecordFailure(p, o)
  <2>1. /\ audit \subseteq audit' /\ audit' \subseteq AuditRow
        /\ cut \subseteq cut' /\ cut' \subseteq Run
        /\ pub[p].run \in cut' \/ \E a \in audit' : a.run = pub[p].run
    BY <1>1, <1>2, <1>5 DEF RecordFailure, Audited, TypeOK
  <2>2. QED
    BY <1>1, <1>3, <1>5, <2>1, EndCall DEF RecordFailure, Proceeds
<1>6. QED
  BY <1>4, <1>5

\* A call that breaks off leaves a cut.
LEMMA BreakOffProceeds ==
  ASSUME TypeOK, NEW p \in Publisher, BreakOff(p)
  PROVE  Proceeds(p)
<1>1. pub[p].run \in Run
  BY DEF BreakOff, TypeOK, Call, Idle
<1>2. QED
  BY <1>1, EndCall DEF BreakOff, Proceeds, TypeOK

\* A write: the one step of a call that changes the comments.
Writes(p) ==
  /\ UNCHANGED <<head, stored, audit, cut>>
  /\ pub[p].phase = "write"
  /\ pub' \in [Publisher -> Call \cup {Idle}]
  /\ Moves(p)
  /\ pub[p].run \in Run
  /\ pub'[p].run = pub[p].run /\ pub'[p].phase # "write"
  /\ \/ /\ pub[p].target \in Shown
        /\ comments' = [comments EXCEPT ![pub[p].target] = pub[p].run]
     \/ /\ pub[p].target = NoComment
        /\ Len(comments) < MaxComments
        /\ comments' = Append(comments, pub[p].run)
     \/ UNCHANGED comments

\* A write adds a comment only if the call was a posting one.
LEMMA WriteWrites ==
  ASSUME TypeOK, NEW p \in Publisher, WriteComment(p)
  PROVE  Writes(p)
<1>1. UNCHANGED <<head, stored, audit, cut>> /\ pub[p].phase = "write"
  BY DEF WriteComment
<1>2. {"read", "failure"} \subseteq Phase
  BY DEF Phase
<1>3. ASSUME NEW c \in 1..MaxComments, Answered(p, c)
      PROVE  /\ pub' \in [Publisher -> Call \cup {Idle}]
             /\ Moves(p)
             /\ pub[p].run \in Run
             /\ pub'[p].run = pub[p].run /\ pub'[p].phase # "write"
  BY <1>1, <1>2, <1>3, AdvanceCall, GotoCall DEF Answered
<1>4. CASE Patch(p)
  <2>1. PICK c \in Shown : c = pub[p].target
    BY <1>4 DEF Patch
  <2>2. c \in 1..MaxComments
    BY BoundAssumption DEF Shown, TypeOK
  <2>3. QED
    BY <1>1, <1>3, <1>4, <2>1, <2>2 DEF Patch, Writes
<1>5. CASE Post(p)
  <2>1. Len(comments) + 1 \in 1..MaxComments
    BY <1>5, BoundAssumption DEF Post, TypeOK
  <2>2. QED
    BY <1>1, <1>3, <1>5, <2>1 DEF Post, Writes
<1>6. CASE Goto(p, "failure") /\ UNCHANGED comments
  BY <1>1, <1>2, <1>6, GotoCall DEF Writes
<1>7. QED
  BY <1>4, <1>5, <1>6 DEF WriteComment

\* A process starts a call for a stored review.
Begins(p) ==
  /\ UNCHANGED <<head, comments, audit, cut>>
  /\ pub[p].phase = "idle"
  /\ pub' \in [Publisher -> Call \cup {Idle}]
  /\ Moves(p)
  /\ pub'[p].phase = "check"
  /\ pub'[p].run \in Run
  /\ stored' = stored \cup {pub'[p].run}

\* A call begins with a stored review.
LEMMA BeginBegins ==
  ASSUME TypeOK, NEW p \in Publisher, NEW r \in Run,
         PublishStored(p, r) \/ PublishOnRequest(p, r)
  PROVE  Begins(p)
<1>1. /\ Begin(p, r) /\ pub[p].phase = "idle"
      /\ UNCHANGED <<head, comments, audit, cut>>
      /\ stored' = stored \cup {r}
  BY DEF PublishStored, PublishOnRequest
<1>2. QED
  BY <1>1, BeginCall DEF Begins

\* The four kinds of steps.
LEMMA StepCases ==
  ASSUME TypeOK, [Next]_vars
  PROVE  \/ PushHead
         \/ DeleteComment
         \/ \E p \in Publisher : Begins(p) \/ Writes(p) \/ Proceeds(p)
         \/ UNCHANGED vars
<1>1. ASSUME NEW p \in Publisher, CheckHead(p) \/ ReadBack(p) PROVE Proceeds(p)
  <2>1. PICK ph \in {"list", "success", "failure"} : Goto(p, ph)
    BY <1>1 DEF CheckHead, ReadBack, AfterRead
  <2>2. ph \in Phase \ {"write"} /\ pub[p].phase # "idle"
    BY <1>1 DEF CheckHead, ReadBack, Phase
  <2>3. UNCHANGED <<head, comments, stored, audit, cut>>
    BY <1>1 DEF CheckHead, ReadBack
  <2>4. QED
    BY <2>1, <2>2, <2>3, GotoProceeds
<1>2. QED
  BY <1>1, ListProceeds, RecordProceeds, BreakOffProceeds, WriteWrites, BeginBegins DEF Next, Step

-----------------------------------------------------------------------------
(* The invariants. *)

\* The comments, the tables and the calls keep their types.
THEOREM TypeCorrect == Spec => []TypeOK
<1>1. Init => TypeOK
  BY BoundAssumption DEF Init, TypeOK
<1>2. TypeOK /\ [Next]_vars => TypeOK'
  <2> SUFFICES ASSUME TypeOK, [Next]_vars PROVE TypeOK'
    OBVIOUS
  <2>1. CASE PushHead
    BY <2>1 DEF PushHead, TypeOK
  <2>2. CASE DeleteComment
    BY <2>2 DEF DeleteComment, TypeOK
  <2>3. ASSUME NEW p \in Publisher, Begins(p) PROVE TypeOK'
    BY <2>3 DEF Begins, TypeOK
  <2>4. ASSUME NEW p \in Publisher, Proceeds(p) PROVE TypeOK'
    BY <2>4 DEF Proceeds, TypeOK
  <2>5. ASSUME NEW p \in Publisher, Writes(p) PROVE TypeOK'
    <3>1. comments' \in Seq(Run \cup {Deleted}) /\ Len(comments') <= MaxComments
      BY <2>5, BoundAssumption DEF Writes, TypeOK, Shown
    <3>2. QED
      BY <2>5, <3>1 DEF Writes, TypeOK
  <2>6. CASE UNCHANGED vars
    BY <2>6 DEF vars, TypeOK
  <2>7. QED
    BY <2>1, <2>2, <2>3, <2>4, <2>5, <2>6, StepCases
<1>3. QED
  BY <1>1, <1>2, PTL DEF Spec

\* No publication of a stored review ends without a trace of it.
THEOREM NeverSilent == Spec => []NothingSilent
<1>1. Init => NothingSilent
  BY DEF Init, NothingSilent
<1>2. TypeOK /\ NothingSilent /\ [Next]_vars => NothingSilent'
  <2> SUFFICES ASSUME TypeOK, NothingSilent, [Next]_vars, NEW r \in stored'
               PROVE  \/ \E p \in Publisher : pub'[p].run = r
                      \/ \E a \in audit' : a.run = r
                      \/ r \in cut'
    BY DEF NothingSilent
  <2>1. CASE PushHead \/ DeleteComment \/ UNCHANGED vars
    BY <2>1 DEF PushHead, DeleteComment, vars, NothingSilent
  <2>2. ASSUME NEW p \in Publisher, Begins(p)
        PROVE  \/ \E q \in Publisher : pub'[q].run = r
               \/ \E a \in audit' : a.run = r
               \/ r \in cut'
    <3>1. CASE r = pub'[p].run
      BY <3>1
    <3>2. CASE r \in stored
      <4>1. pub[p].run = NoRun /\ r # NoRun
        BY <2>2, ValueAssumption DEF Begins, TypeOK, Call, Phase, Idle
      <4>2. QED
        BY <2>2, <3>2, <4>1 DEF Begins, Moves, NothingSilent
    <3>3. QED
      BY <2>2, <3>1, <3>2 DEF Begins
  <2>3. ASSUME NEW p \in Publisher, Writes(p) \/ Proceeds(p)
        PROVE  \/ \E q \in Publisher : pub'[q].run = r
               \/ \E a \in audit' : a.run = r
               \/ r \in cut'
    BY <2>3 DEF Writes, Proceeds, Moves, NothingSilent
  <2>4. QED
    BY <2>1, <2>2, <2>3, StepCases
<1>3. QED
  BY <1>1, <1>2, TypeCorrect, PTL DEF Spec

-----------------------------------------------------------------------------
(* At most one comment with the marker per publishing process. *)

\* What the bound counts is finite.
LEMMA FiniteTables ==
  ASSUME TypeOK
  PROVE  /\ IsFiniteSet(Shown) /\ Cardinality(Shown) \in Nat
         /\ IsFiniteSet(Posting) /\ Cardinality(Posting) \in Nat
         /\ Cardinality(Posting) <= Cardinality(Publisher)
         /\ Cardinality(Publisher) \in Nat
<1>1. IsFiniteSet(1..Len(comments)) /\ Shown \in SUBSET (1..Len(comments))
  BY FS_Interval DEF TypeOK, Shown
<1>2. IsFiniteSet(Shown) /\ Cardinality(Shown) \in Nat
  BY <1>1, FS_Subset, FS_CardinalityType
<1>3. Posting \in SUBSET Publisher
  BY DEF Posting
<1>4. /\ IsFiniteSet(Posting) /\ Cardinality(Posting) \in Nat
      /\ Cardinality(Posting) <= Cardinality(Publisher)
      /\ Cardinality(Publisher) \in Nat
  BY <1>3, PublisherAssumption, FS_Subset, FS_CardinalityType
<1>5. QED
  BY <1>2, <1>4

\* Fewer comments and fewer calls about to post keep the bound.
LEMMA FewerKeep ==
  ASSUME TypeOK, FewComments, Shown' \subseteq Shown, Posting' \subseteq Posting
  PROVE  FewComments'
<1>1. Cardinality(Shown') <= Cardinality(Shown) /\ IsFiniteSet(Shown')
  BY FiniteTables, FS_Subset
<1>2. Cardinality(Posting') <= Cardinality(Posting) /\ IsFiniteSet(Posting')
  BY FiniteTables, FS_Subset
<1>3. Cardinality(Shown') \in Nat /\ Cardinality(Posting') \in Nat
  BY <1>1, <1>2, FS_CardinalityType
<1>4. QED
  BY <1>1, <1>2, <1>3, FiniteTables DEF FewComments

\* A post turns one call about to post into one comment.
LEMMA PostKeeps ==
  ASSUME TypeOK, FewComments, NEW p \in Publisher, Writes(p),
         pub[p].target = NoComment, comments' = Append(comments, pub[p].run)
  PROVE  FewComments'
<1> DEFINE n == Len(comments) + 1
<1>1. comments \in Seq(Run \cup {Deleted}) /\ Len(comments) \in Nat
  BY DEF TypeOK
<1>2. Shown' \subseteq Shown \cup {n}
  BY <1>1 DEF Shown
<1>3. p \in Posting /\ Posting' = Posting \ {p}
  BY DEF Writes, Posting, Moves
<1>4. Cardinality(Posting') = Cardinality(Posting) - 1
  BY <1>3, FiniteTables, FS_RemoveElement
<1>5. IsFiniteSet(Shown \cup {n}) /\ Cardinality(Shown \cup {n}) <= Cardinality(Shown) + 1
  <2> HIDE DEF n
  <2>1. IsFiniteSet(Shown) /\ Cardinality(Shown) \in Nat
    BY FiniteTables
  <2>2. /\ IsFiniteSet(Shown \cup {n})
        /\ Cardinality(Shown \cup {n})
             = IF n \in Shown THEN Cardinality(Shown) ELSE Cardinality(Shown) + 1
    BY <2>1, FS_AddElement
  <2>3. QED
    BY <2>1, <2>2
<1>6. /\ Cardinality(Shown') <= Cardinality(Shown \cup {n})
      /\ Cardinality(Shown') \in Nat
  BY <1>2, <1>5, FS_Subset, FS_CardinalityType
<1>7. Cardinality(Shown \cup {n}) \in Nat
  BY <1>5, FS_CardinalityType
<1>8. QED
  BY <1>4, <1>5, <1>6, <1>7, FiniteTables DEF FewComments

\* However publications overlap, fail, or are cut, a pull request shows at
\* most one review comment per publishing process: one, if there is one.
THEOREM CommentsAreFew == Spec => []FewComments
<1>1. Init => FewComments
  <2> SUFFICES ASSUME Init PROVE FewComments
    OBVIOUS
  <2>1. Shown = {} /\ Posting = {}
    BY DEF Init, Shown, Posting, Idle
  <2>2. QED
    BY <2>1, FS_EmptySet, FS_CardinalityType, PublisherAssumption DEF FewComments
<1>2. TypeOK /\ FewComments /\ [Next]_vars => FewComments'
  <2> SUFFICES ASSUME TypeOK, FewComments, [Next]_vars PROVE FewComments'
    OBVIOUS
  <2>1. CASE PushHead \/ UNCHANGED vars
    <3>1. Shown' = Shown /\ Posting' = Posting
      BY <2>1 DEF PushHead, vars, Shown, Posting
    <3>2. QED
      BY <3>1, FewerKeep
  <2>2. CASE DeleteComment
    <3>1. Posting' = Posting
      BY <2>2 DEF DeleteComment, Posting
    <3>2. Shown' \subseteq Shown
      BY <2>2 DEF DeleteComment, Shown, TypeOK
    <3>3. QED
      BY <3>1, <3>2, FewerKeep
  <2>3. ASSUME NEW p \in Publisher, Begins(p) PROVE FewComments'
    <3>1. Shown' = Shown /\ Posting' \subseteq Posting
      BY <2>3 DEF Begins, Shown, Posting, Moves
    <3>2. QED
      BY <3>1, FewerKeep
  <2>4. ASSUME NEW p \in Publisher, Proceeds(p) PROVE FewComments'
    <3>1. Shown' = Shown
      BY <2>4 DEF Proceeds, Shown
    <3>2. CASE Posting' \subseteq Posting
      BY <3>1, <3>2, FewerKeep
    \* A call comes to post only if it listed no comment at all.
    <3>3. CASE ~(Posting' \subseteq Posting)
      <4>1. p \in Posting'
        BY <2>4, <3>3 DEF Proceeds, Posting, Moves
      <4>2. Shown = {}
        BY <2>4, <4>1 DEF Proceeds, Posting, Idle
      <4>3. Posting' \in SUBSET Publisher
        BY DEF Posting
      <4>4. Cardinality(Posting') <= Cardinality(Publisher) /\ Cardinality(Posting') \in Nat
        BY <4>3, PublisherAssumption, FS_Subset, FS_CardinalityType
      <4>5. Cardinality(Shown') = 0
        BY <3>1, <4>2, FS_EmptySet
      <4>6. QED
        BY <4>4, <4>5, FiniteTables DEF FewComments
    <3>4. QED
      BY <3>2, <3>3
  <2>5. ASSUME NEW p \in Publisher, Writes(p) PROVE FewComments'
    <3>1. Posting' \subseteq Posting
      BY <2>5 DEF Writes, Posting, Moves
    <3>2. CASE UNCHANGED comments
      BY <3>1, <3>2, FewerKeep DEF Shown
    <3>3. CASE /\ pub[p].target \in Shown
               /\ comments' = [comments EXCEPT ![pub[p].target] = pub[p].run]
      <4>1. Shown' \subseteq Shown
        BY <3>3 DEF Shown, TypeOK
      <4>2. QED
        BY <3>1, <4>1, FewerKeep
    <3>4. QED
      BY <2>5, <3>2, <3>3, PostKeeps DEF Writes
  <2>6. QED
    BY <2>1, <2>2, <2>3, <2>4, <2>5, StepCases
<1>3. QED
  BY <1>1, <1>2, TypeCorrect, PTL DEF Spec

-----------------------------------------------------------------------------
(* What stale reviews need. *)

\* No push comes while a publication stands between its head check and its write.
Quiet == PushHead => \A p \in Publisher : pub[p].phase \notin {"list", "write"}

QuietSpec == Init /\ [][Next /\ Quiet]_vars

\* A call that has passed the head check and has not written is of the head that stands.
Current == \A p \in Publisher : pub[p].phase \in {"list", "write"} => head = HeadOf[pub[p].run]

\* The only way to the write is through the head check, and keeps the review.
LEMMA WindowOpens ==
  ASSUME TypeOK, NEW p \in Publisher, Step(p) \/ BreakOff(p),
         pub'[p].phase \in {"list", "write"}
  PROVE  /\ head' = head /\ Moves(p) /\ pub'[p].run = pub[p].run
         /\ pub[p].phase = "list" \/ head = HeadOf[pub[p].run]
<1>1. {"list", "write", "read", "success", "failure"} \subseteq Phase
  BY DEF Phase
<1>2. ASSUME NEW ph \in {"read", "success", "failure"}, pub[p].phase # "idle", Goto(p, ph)
      PROVE  FALSE
  BY <1>1, <1>2, GotoCall
<1>3. ~BreakOff(p)
  BY EndCall DEF BreakOff, Idle
<1>4. ASSUME NEW o \in Outcome PROVE ~RecordSuccess(p, o) /\ ~RecordFailure(p, o)
  BY <1>2, EndCall DEF RecordSuccess, RecordFailure, Idle
<1>5. ~ReadBack(p)
  BY <1>2 DEF ReadBack, AfterRead
<1>6. ~WriteComment(p)
  <2>1. ASSUME WriteComment(p), NEW c \in 1..MaxComments, Answered(p, c) PROVE FALSE
    BY <1>1, <1>2, <2>1, AdvanceCall DEF Answered, WriteComment
  <2>2. ASSUME WriteComment(p), Patch(p) PROVE FALSE
    BY <2>1, <2>2, BoundAssumption DEF Patch, Shown, TypeOK
  <2>3. ASSUME WriteComment(p), Post(p) PROVE FALSE
    <3>1. Len(comments) + 1 \in 1..MaxComments
      BY <2>3, BoundAssumption DEF Post, TypeOK
    <3>2. QED
      BY <2>1, <2>3, <3>1 DEF Post
  <2>4. QED
    BY <1>2, <2>2, <2>3 DEF WriteComment
<1>7. CASE CheckHead(p)
  <2>1. Goto(p, "list") /\ head = HeadOf[pub[p].run] /\ pub[p].phase # "idle" /\ head' = head
    BY <1>2, <1>7 DEF CheckHead
  <2>2. QED
    BY <1>1, <2>1, GotoCall
<1>8. CASE ListComments(p)
  <2>1. pub[p].phase = "list" /\ head' = head
    BY <1>8 DEF ListComments
  <2>2. PICK c \in FirstListed(pub[p].run) : Advance(p, "write", c)
    BY <1>2, <1>8 DEF ListComments
  <2>3. c \in 1..MaxComments \cup {NoComment}
    BY ListedType
  <2>4. QED
    BY <1>1, <2>1, <2>2, <2>3, AdvanceCall
<1>9. QED
  BY <1>3, <1>4, <1>5, <1>6, <1>7, <1>8 DEF Step

\* Between the check and the write only a push can make a review stale.
LEMMA CurrentStep ==
  ASSUME TypeOK, Current, [Next /\ Quiet]_vars
  PROVE  Current'
<1>1. CASE PushHead
  BY <1>1 DEF PushHead, Quiet, Current, vars
<1>2. CASE DeleteComment \/ UNCHANGED vars
  BY <1>2 DEF DeleteComment, Current, vars
<1>3. ASSUME NEW p \in Publisher, NEW r \in Run, PublishStored(p, r) \/ PublishOnRequest(p, r)
      PROVE  Current'
  BY <1>3, BeginBegins DEF Begins, Moves, Current
<1>4. ASSUME NEW p \in Publisher, Step(p) \/ BreakOff(p)
      PROVE  Current'
  <2>1. head' = head /\ Moves(p)
    BY <1>4
    DEF Step, CheckHead, ListComments, WriteComment, Patch, Post, Answered, ReadBack,
        RecordSuccess, RecordFailure, BreakOff, Goto, Advance, Moves, TypeOK
  <2>2. QED
    BY <1>4, <2>1, WindowOpens DEF Current, Moves
<1>5. QED
  BY <1>1, <1>2, <1>3, <1>4 DEF Next

\* A write shows no other review than the one it is of.
LEMMA WriteIsCurrent ==
  ASSUME TypeOK, Current, [Next]_vars, NEW c \in 1..Len(comments'),
         comments'[c] # Deleted, c > Len(comments) \/ comments'[c] # comments[c]
  PROVE  HeadOf[comments'[c]] = head
<1>1. ASSUME comments' = comments PROVE FALSE
  BY <1>1 DEF TypeOK
<1>2. CASE DeleteComment
  BY <1>2 DEF DeleteComment, TypeOK
<1>3. ASSUME NEW p \in Publisher, Writes(p) PROVE HeadOf[comments'[c]] = head
  <2>1. head = HeadOf[pub[p].run]
    BY <1>3 DEF Writes, Current
  <2>2. CASE /\ pub[p].target \in Shown
             /\ comments' = [comments EXCEPT ![pub[p].target] = pub[p].run]
    BY <2>1, <2>2 DEF TypeOK, Shown
  <2>3. CASE comments' = Append(comments, pub[p].run)
    BY <2>1, <2>3 DEF TypeOK
  <2>4. QED
    BY <1>1, <1>3, <2>2, <2>3 DEF Writes
<1>4. QED
  BY <1>1, <1>2, <1>3, StepCases DEF PushHead, Begins, Proceeds, vars

\* WI-MVP-001.md: "stale runs cannot publish".  A push between the head check and the
\* write is the one thing that lets them: without it no step of any publisher, whatever
\* else overlaps, fails or is cut off, shows a review of another commit than the head.
THEOREM StaleNeedsAPush == QuietSpec => StaleNeverPublishes
<1>1. Init => Current
  BY DEF Init, Current, Idle
<1>2. QuietSpec => []TypeOK
  <2>1. [Next /\ Quiet]_vars => [Next]_vars
    OBVIOUS
  <2>2. QED
    BY <2>1, TypeCorrect, PTL DEF QuietSpec, Spec
<1>3. TypeOK /\ Current /\ [Next /\ Quiet]_vars => Current'
  BY CurrentStep
<1>4. TypeOK /\ Current /\ [Next /\ Quiet]_vars =>
        [\A c \in 1..Len(comments') :
           (comments'[c] # Deleted /\ (c > Len(comments) \/ comments'[c] # comments[c]))
             => HeadOf[comments'[c]] = head]_vars
  BY WriteIsCurrent
<1>5. QED
  BY <1>1, <1>2, <1>3, <1>4, PTL DEF QuietSpec, StaleNeverPublishes
=============================================================================

---------------------------- MODULE AccessProofs ----------------------------
(***************************************************************************)
(* Proofs about who gets in: for any number of sessions, calls, accounts,  *)
(* roles, branches, companies, processes and requests, and any length of   *)
(* their bounds.  One door moves at a time, so each door has an inductive  *)
(* invariant of its own, and the theorems at the end join them.            *)
(***************************************************************************)
EXTENDS MCAccess, Sequences, Sums

-----------------------------------------------------------------------------
(* The support sessions.                                                   *)

\* The consent of a row goes with its status and its mode.
Consented(row) ==
    /\ row.status = "active" /\ row.mode # "READ_ONLY" =>
           row.consent \in {"direct", "emergency"}
    /\ row.status = "approved" => row.consent = "company"

\* The inductive invariant: no call, however old what it read, parts a status
\* from its consent.
SupportInv == SupportTypeOK /\ \A s \in Sessions : Consented(rows[s])

\* The row of a session that was never asked for.
LEMMA NoRowTyped == NoRow \in RowType /\ Consented(NoRow)
BY DEF NoRow, RowType, Statuses, Modes, Consented

\* Nothing is asked for at first.
LEMMA SupportStarts == SupportInit => SupportInv
BY NoRowTyped DEF SupportInit, SupportInv, SupportTypeOK, Policies

\* The row of a new session has the consent its status says.
LEMMA OpenedTyped ==
    ASSUME now \in Nat, NEW o \in Operators \union {NoSupportCall}, NEW m \in Modes,
           NEW d \in Nat,
           NEW consent \in BOOLEAN
    PROVE  Opened(o, m, d, consent) \in RowType /\ Consented(Opened(o, m, d, consent))
<1>1. now + d \in Nat /\ now + RequestTime \in Nat
  BY DEF RequestTime
<1> QED
  BY <1>1 DEF Opened, RowType, Consented, RequiresApproval, Statuses, Modes

\* Closing the other sessions of the operator changes no consent.
LEMMA ClosedTyped ==
    ASSUME SupportInv, NEW o \in Operators \union {NoSupportCall}
    PROVE  /\ WithOthersClosed(o) \in [Sessions -> RowType]
           /\ \A s \in Sessions : /\ Consented(WithOthersClosed(o)[s])
                                  /\ rows[s].ended => WithOthersClosed(o)[s].ended
<1>1. ASSUME NEW s \in Sessions
      PROVE  /\ WithOthersClosed(o)[s] \in RowType
             /\ Consented(WithOthersClosed(o)[s])
             /\ rows[s].ended => WithOthersClosed(o)[s].ended
  <2> DEFINE ended == rows[s].ended \/ (rows[s].operator = o /\ IsActive(rows[s], now))
  <2>1. WithOthersClosed(o)[s] = [rows[s] EXCEPT !.ended = ended]
    BY Zenon DEF WithOthersClosed
  <2>2. ended \in BOOLEAN /\ (rows[s].ended => ended)
    OBVIOUS
  <2>3. rows[s] \in RowType /\ Consented(rows[s])
    BY DEF SupportInv, SupportTypeOK
  <2> HIDE DEF ended
  <2> QED
    BY <2>1, <2>2, <2>3 DEF RowType, Consented
<1> QED
  BY <1>1 DEF WithOthersClosed

\* A step of the support sessions keeps the invariant, and ends no session
\* less than it was.
StepKeeps == SupportInv' /\ \A s \in Sessions : rows[s].ended => rows'[s].ended

\* A new session over what `base' has of the others.
LEMMA OpenKeeps ==
    ASSUME SupportInv,
           NEW base \in [Sessions -> RowType], \A s \in Sessions : Consented(base[s]),
           \A s \in Sessions : rows[s].ended => base[s].ended,
           NEW s \in Sessions, NEW o \in Operators \union {NoSupportCall}, NEW m \in Modes,
           NEW d \in Nat,
           NEW consent \in BOOLEAN,
           Open(base, s, o, m, d, consent)
    PROVE  /\ rows' \in [Sessions -> RowType]
           /\ token' \in [Sessions -> Nat]
           /\ \A x \in Sessions : Consented(rows'[x])
           /\ \A x \in Sessions : rows[x].ended => rows'[x].ended
<1>1. now \in Nat /\ token \in [Sessions -> Nat]
  BY DEF SupportInv, SupportTypeOK
<1>2. rows[s] = NoRow /\ rows' = [base EXCEPT ![s] = Opened(o, m, d, consent)]
  BY DEF Open
<1>3. Opened(o, m, d, consent) \in RowType /\ Consented(Opened(o, m, d, consent))
  BY <1>1, OpenedTyped
<1>4. token' \in [Sessions -> Nat]
  <2>1. UNCHANGED token \/ Issue(s, now + d)
    BY DEF Open
  <2>2. now + d \in Nat
    BY <1>1
  <2> QED
    BY <1>1, <2>1, <2>2 DEF Issue
<1>5. ~rows[s].ended
  BY <1>2 DEF NoRow
<1> QED
  BY <1>2, <1>3, <1>4, <1>5

\* What a call took from its row has the types of a row.
LEMMA LoadedTyped ==
    ASSUME SupportInv, NEW c \in SupportCalls, loaded[c] # NoSupportCall
    PROVE  loaded[c].session \in Sessions /\ loaded[c].row \in RowType
BY DEF SupportInv, SupportTypeOK

\* A call that ends leaves the types of the calls.
LEMMA DoneTyped ==
    ASSUME SupportInv, NEW c \in SupportCalls, Done(c)
    PROVE  loaded' \in [SupportCalls ->
               {NoSupportCall} \union [session : Sessions, row : RowType]]
BY DEF SupportInv, SupportTypeOK, Done

\* A new session, with the consent its mode and the policy ask for.
LEMMA OpeningKeeps == SupportInv /\ Opening => StepKeeps
<1> SUFFICES ASSUME SupportInv, NEW o \in Operators, NEW s \in Sessions, NEW d \in Durations,
                    \/ \E m \in Modes, consent \in BOOLEAN : Start(o, s, m, d, consent)
                    \/ Emergency(o, s, d)
             PROVE  StepKeeps
  BY DEF Opening
<1>1. d \in Nat /\ now \in Nat
  BY SupportAssumption DEF SupportInv, SupportTypeOK
<1>2. ASSUME NEW m \in Modes, NEW consent \in BOOLEAN, Start(o, s, m, d, consent)
      PROVE  StepKeeps
  <2>1. Open(WithOthersClosed(o), s, o, m, d, consent)
    BY <1>2 DEF Start
  <2>2. /\ WithOthersClosed(o) \in [Sessions -> RowType]
        /\ \A x \in Sessions : /\ Consented(WithOthersClosed(o)[x])
                               /\ rows[x].ended => WithOthersClosed(o)[x].ended
    BY ClosedTyped
  <2>3. /\ rows' \in [Sessions -> RowType]
        /\ token' \in [Sessions -> Nat]
        /\ \A x \in Sessions : Consented(rows'[x])
        /\ \A x \in Sessions : rows[x].ended => rows'[x].ended
    BY <1>1, <2>1, <2>2, OpenKeeps
  <2> QED
    BY <1>2, <2>3 DEF StepKeeps, SupportInv, SupportTypeOK, Start
<1>3. ASSUME Emergency(o, s, d) PROVE StepKeeps
  <2> DEFINE row == [NoRow EXCEPT !.status = "active", !.operator = o,
                                  !.expires = now + d, !.duration = d,
                                  !.consent = "emergency"]
  <2>1. rows[s] = NoRow /\ rows' = [rows EXCEPT ![s] = row] /\ Issue(s, now + d)
    BY <1>3 DEF Emergency
  <2>2. now + d \in Nat
    BY <1>1
  <2>3. row \in RowType /\ Consented(row)
    BY <1>1, <2>2 DEF RowType, NoRow, Consented, Statuses, Modes
  <2>4. ~rows[s].ended
    BY <2>1 DEF NoRow
  <2>5. token' \in [Sessions -> Nat]
    BY <2>1, <2>2 DEF SupportInv, SupportTypeOK, Issue
  <2>6. /\ rows' \in [Sessions -> RowType]
        /\ \A x \in Sessions : Consented(rows'[x])
        /\ \A x \in Sessions : rows[x].ended => rows'[x].ended
    BY <2>1, <2>3, <2>4 DEF SupportInv, SupportTypeOK
  <2> QED
    BY <1>3, <2>5, <2>6 DEF StepKeeps, SupportInv, SupportTypeOK, Emergency
<1> QED
  BY <1>2, <1>3

\* One row is written, its types, its consent and its end respected.
LEMMA RowKeeps ==
    ASSUME SupportInv, NEW s \in Sessions, NEW row \in RowType, Consented(row),
           rows[s].ended => row.ended, rows' = [rows EXCEPT ![s] = row]
    PROVE  /\ rows' \in [Sessions -> RowType]
           /\ \A x \in Sessions : Consented(rows'[x])
           /\ \A x \in Sessions : rows[x].ended => rows'[x].ended
BY DEF SupportInv, SupportTypeOK

\* The ways to write columns of a row.
LEMMA ColumnsTyped ==
    ASSUME NEW row \in RowType, Consented(row), NEW expires \in Nat, NEW d \in Nat
    PROVE  /\ \A new \in {[row EXCEPT !.duration = d, !.expires = expires],
                          [row EXCEPT !.status = "approved", !.expires = expires,
                                      !.duration = d, !.consent = "company"],
                          [row EXCEPT !.ended = TRUE],
                          [row EXCEPT !.status = "request_expired"],
                          [row EXCEPT !.status = "rejected", !.ended = TRUE]} :
                 new \in RowType /\ Consented(new) /\ (row.ended => new.ended)
BY DEF RowType, Consented, Statuses

\* A call that writes one row, or none.
LEMMA CallKeeps ==
    ASSUME SupportInv, NEW c \in SupportCalls, Call(c)
    PROVE  StepKeeps
<1>1. /\ rows \in [Sessions -> RowType] /\ token \in [Sessions -> Nat] /\ now \in Nat
      /\ \A s \in Sessions : Consented(rows[s])
  BY DEF SupportInv, SupportTypeOK
<1>2. ASSUME NEW s \in Sessions, Load(c, s) PROVE StepKeeps
  BY <1>2 DEF StepKeeps, SupportInv, SupportTypeOK, Load
<1>3. ASSUME NEW s \in Sessions, Upgrade(c, s) PROVE StepKeeps
  <2> DEFINE o == loaded[c].row.operator
             base == [WithOthersClosed(o) EXCEPT ![loaded[c].session].ended = TRUE]
  <2>1. /\ loaded[c].session \in Sessions /\ loaded[c].row \in RowType
        /\ IsActive(loaded[c].row, now)
        /\ Open(base, s, o, "WRITE", loaded[c].row.duration, TRUE)
    BY <1>3, LoadedTyped DEF Upgrade
  <2>2. o \in Operators \union {NoSupportCall} /\ loaded[c].row.duration \in Nat
    BY <2>1 DEF RowType
  <2>3. /\ WithOthersClosed(o) \in [Sessions -> RowType]
        /\ \A x \in Sessions : /\ Consented(WithOthersClosed(o)[x])
                               /\ rows[x].ended => WithOthersClosed(o)[x].ended
    BY <2>2, ClosedTyped
  <2>4. /\ base \in [Sessions -> RowType]
        /\ \A x \in Sessions : /\ Consented(base[x])
                               /\ rows[x].ended => base[x].ended
    <3> DEFINE closed == WithOthersClosed(o)
               s0 == loaded[c].session
               row == [closed[s0] EXCEPT !.ended = TRUE]
    <3>1. base = [closed EXCEPT ![s0] = row]
      BY Zenon
    <3>2. closed[s0] \in RowType /\ Consented(closed[s0])
      BY <2>1, <2>3
    <3> HIDE DEF closed, s0
    <3>3. row \in RowType /\ Consented(row) /\ row.ended
      BY <3>2 DEF RowType, Consented
    <3> HIDE DEF row, base
    <3> QED
      BY <2>1, <2>3, <3>1, <3>3 DEF closed, s0
  <2>5. /\ rows' \in [Sessions -> RowType]
        /\ token' \in [Sessions -> Nat]
        /\ \A x \in Sessions : Consented(rows'[x])
        /\ \A x \in Sessions : rows[x].ended => rows'[x].ended
    <3> "WRITE" \in Modes /\ TRUE \in BOOLEAN
      BY DEF Modes
    <3> HIDE DEF base, o
    <3> QED
      BY <2>1, <2>2, <2>4, OpenKeeps
  <2> QED
    BY <1>3, <2>5, DoneTyped DEF StepKeeps, SupportInv, SupportTypeOK, Upgrade
<1>4. ASSUME NEW d \in Durations, Extend(c, d) PROVE StepKeeps
  <2> DEFINE s == loaded[c].session
             longer == loaded[c].row.duration + d
             expires == loaded[c].row.expires + d
  <2>1. /\ s \in Sessions /\ longer \in Nat /\ expires \in Nat
        /\ rows' = [rows EXCEPT ![s] = [rows[s] EXCEPT !.duration = longer,
                                                       !.expires = expires]]
        /\ Issue(s, expires) /\ Done(c) /\ UNCHANGED <<job, policy, now>>
    BY <1>4, LoadedTyped, SupportAssumption DEF Extend, RowType
  <2> HIDE DEF s, longer, expires
  <2>2. token' \in [Sessions -> Nat]
    BY <1>1, <2>1 DEF Issue
  <2>3. /\ rows' \in [Sessions -> RowType]
        /\ \A x \in Sessions : Consented(rows'[x])
        /\ \A x \in Sessions : rows[x].ended => rows'[x].ended
    BY <1>1, <2>1, RowKeeps, ColumnsTyped
  <2> QED
    BY <2>1, <2>2, <2>3, DoneTyped DEF StepKeeps, SupportInv, SupportTypeOK
<1>5. ASSUME NEW d \in Durations, Approve(c, d) PROVE StepKeeps
  <2> DEFINE s == loaded[c].session
             expires == now + d
  <2>1. /\ s \in Sessions /\ d \in Nat /\ expires \in Nat
        /\ rows' = [rows EXCEPT ![s] =
               [rows[s] EXCEPT !.status = "approved", !.expires = expires,
                               !.duration = d, !.consent = "company"]]
        /\ Done(c) /\ UNCHANGED <<token, job, policy, now>>
    BY <1>1, <1>5, LoadedTyped, SupportAssumption DEF Approve
  <2> HIDE DEF s, expires
  <2>2. /\ rows' \in [Sessions -> RowType]
        /\ \A x \in Sessions : Consented(rows'[x])
        /\ \A x \in Sessions : rows[x].ended => rows'[x].ended
    BY <1>1, <2>1, RowKeeps, ColumnsTyped
  <2> QED
    BY <2>1, <2>2, DoneTyped DEF StepKeeps, SupportInv, SupportTypeOK
<1>6. ASSUME Finish(c) \/ Lapse(c) \/ ApproveLate(c) \/ Reject(c) PROVE StepKeeps
  <2> DEFINE s == loaded[c].session
  <2>1. /\ s \in Sessions /\ Done(c) /\ UNCHANGED <<token, job, policy, now>>
        /\ \/ rows' = [rows EXCEPT ![s] = [rows[s] EXCEPT !.ended = TRUE]]
           \/ rows' = [rows EXCEPT ![s] = [rows[s] EXCEPT !.status = "request_expired"]]
           \/ rows' = [rows EXCEPT ![s] =
                  [rows[s] EXCEPT !.status = "rejected", !.ended = TRUE]]
    BY <1>6, LoadedTyped DEF Finish, Lapse, ApproveLate, Reject
  <2> HIDE DEF s
  <2>2. /\ rows' \in [Sessions -> RowType]
        /\ \A x \in Sessions : Consented(rows'[x])
        /\ \A x \in Sessions : rows[x].ended => rows'[x].ended
    BY <1>1, <2>1, RowKeeps, ColumnsTyped
  <2> QED
    BY <2>1, <2>2, DoneTyped DEF StepKeeps, SupportInv, SupportTypeOK
<1>7. ASSUME Enter(c) \/ Drop(c) PROVE StepKeeps
  <2>1. token' \in [Sessions -> Nat]
    BY <1>1, <1>7, LoadedTyped DEF Enter, Drop, Issue, RowType
  <2> QED
    BY <1>7, <2>1, DoneTyped DEF StepKeeps, SupportInv, SupportTypeOK, Enter, Drop
<1> QED
  BY <1>2, <1>3, <1>4, <1>5, <1>6, <1>7 DEF Call

\* The job, the policy and the clock.
LEMMA JobKeeps == SupportInv /\ (JobRead \/ JobCommit \/ SetPolicy \/ Tick) => StepKeeps
<1> SUFFICES ASSUME SupportInv, JobRead \/ JobCommit \/ SetPolicy \/ Tick PROVE StepKeeps
  OBVIOUS
<1>1. CASE JobCommit
  <2>1. ASSUME NEW s \in Sessions
        PROVE  /\ rows'[s] \in RowType /\ Consented(rows'[s])
               /\ rows[s].ended => rows'[s].ended
    <3> DEFINE ended == rows[s].ended \/ s \in job.past
               status == IF s \in job.unanswered THEN "expired" ELSE rows[s].status
    <3>1. rows'[s] = [rows[s] EXCEPT !.ended = ended, !.status = status]
      BY <1>1, Zenon DEF JobCommit
    <3>2. ended \in BOOLEAN /\ (rows[s].ended => ended)
      OBVIOUS
    <3>3. rows[s] \in RowType /\ Consented(rows[s]) /\ status \in {"expired", rows[s].status}
      BY DEF SupportInv, SupportTypeOK
    <3> HIDE DEF ended, status
    <3> QED
      BY <3>1, <3>2, <3>3 DEF RowType, Consented, Statuses
  <2> QED
    BY <1>1, <2>1 DEF StepKeeps, SupportInv, SupportTypeOK, JobCommit
<1>2. CASE JobRead
  <2>1. PastTime \subseteq Sessions /\ Unanswered \subseteq Sessions
    BY DEF PastTime, Unanswered
  <2> QED
    BY <1>2, <2>1 DEF StepKeeps, SupportInv, SupportTypeOK, JobRead
<1>3. CASE SetPolicy \/ Tick
  BY <1>3 DEF StepKeeps, SupportInv, SupportTypeOK, SetPolicy, Tick
<1> QED
  BY <1>1, <1>2, <1>3

\* No step of the support sessions does.
LEMMA SupportKeeps == SupportInv /\ [SupportNext]_supportVars => StepKeeps
<1>1. SupportInv /\ UNCHANGED supportVars => StepKeeps
  BY DEF StepKeeps, SupportInv, SupportTypeOK, supportVars
<1> QED
  BY <1>1, OpeningKeeps, CallKeeps, JobKeeps DEF SupportNext

\* A session that admits a write has the consent that goes with it.
LEMMA ConsentSeen == SupportInv => ConsentBehindWrites
BY DEF SupportInv, ConsentBehindWrites, Consented, Admitted, IsActive

-----------------------------------------------------------------------------
(* The branches of a member of the staff.                                  *)

\* The cardinality the component counts with.
LEMMA GivenCount == \A S : Given!Cardinality(S) = Cardinality(S)
BY Zenon DEF Given!Cardinality, Cardinality

OneDefaultOf(set) == Cardinality({r \in set : r[2]}) = 1

GivenRows == GivenIds \X BOOLEAN

\* A request that none overtook deletes what is there; what a request inserts
\* has one default, or is nothing.
GivenInv ==
    /\ assigned \subseteq GivenRows
    /\ assigning \in [LoginCalls -> [gone : SUBSET GivenRows, new : SUBSET GivenRows,
                                     busy : BOOLEAN, overtaken : BOOLEAN]]
    /\ mixed \in BOOLEAN
    /\ \A c \in LoginCalls :
          /\ assigning[c].busy /\ ~assigning[c].overtaken => assigning[c].gone = assigned
          /\ assigning[c].new = {} \/ OneDefaultOf(assigning[c].new)
    /\ assigned # {} /\ ~mixed => OneDefaultOf(assigned)

\* Nobody has a branch yet.
LEMMA GivenStarts == Given!AssignInit => GivenInv
<1> SUFFICES ASSUME Given!AssignInit PROVE GivenInv
  OBVIOUS
<1>1. Given!NotAssigning \in [gone : SUBSET GivenRows, new : SUBSET GivenRows,
                             busy : BOOLEAN, overtaken : BOOLEAN]
  BY DEF Given!NotAssigning
<1>2. ~Given!NotAssigning.busy /\ Given!NotAssigning.new = {}
  BY DEF Given!NotAssigning
<1> QED
  BY <1>1, <1>2 DEF Given!AssignInit, GivenInv

\* What the invariant says of a run.
LEMMA GivenSeen == GivenInv => Given!OneDefault
BY GivenCount DEF GivenInv, Given!OneDefault, OneDefaultOf

\* What a request gives has one default.
LEMMA RowsHaveOneDefault ==
    ASSUME NEW given \in SUBSET GivenIds, NEW default \in given
    PROVE  Given!Rows(given, default) \subseteq GivenRows /\ OneDefaultOf(Given!Rows(given, default))
<1>0. ASSUME NEW r \in Given!Rows(given, default)
      PROVE  r \in GivenRows /\ (r[2] => r = <<default, TRUE>>)
  <2>1. PICK b \in given : r = <<b, b = default>>
    BY Zenon DEF Given!Rows
  <2>2. CASE b = default
    <3>1. r = <<b, TRUE>>
      BY <2>1, <2>2, Zenon
    <3> QED
      BY <2>2, <3>1 DEF GivenRows
  <2>3. CASE b # default
    <3>1. r = <<b, FALSE>>
      BY <2>1, <2>3, Zenon
    <3> QED
      BY <3>1 DEF GivenRows
  <2> QED
    BY <2>2, <2>3
<1>1. {r \in Given!Rows(given, default) : r[2]} = {<<default, TRUE>>}
  <2>1. <<default, default = default>> \in Given!Rows(given, default)
    BY Zenon DEF Given!Rows
  <2>2. <<default, TRUE>> \in Given!Rows(given, default)
    BY <2>1, Zenon
  <2>3. <<default, TRUE>>[2]
    OBVIOUS
  <2> QED
    BY <1>0, <2>2, <2>3, Zenon
<1>2. Given!Rows(given, default) \subseteq GivenRows
  BY <1>0
<1> QED
  BY <1>1, <1>2, FS_Singleton DEF OneDefaultOf

\* Every step of the assignments.
LEMMA GivenKeeps == GivenInv /\ [Given!AssignNext]_assignVars => GivenInv'
<1>1. GivenInv /\ UNCHANGED assignVars => GivenInv'
  BY DEF GivenInv, assignVars
<1>2. ASSUME GivenInv, NEW c \in LoginCalls, Given!AssignNone(c) PROVE GivenInv'
  BY <1>2 DEF GivenInv, Given!AssignNone, Given!NotAssigning
<1>3. ASSUME GivenInv, NEW c \in LoginCalls, NEW given \in SUBSET GivenIds,
             NEW default \in GivenIds, Given!Assign(c, given, default)
      PROVE  GivenInv'
  <2>1. default \in given
    BY <1>3 DEF Given!Assign
  <2>2. /\ Given!Rows(given, default) \subseteq GivenRows
        /\ OneDefaultOf(Given!Rows(given, default))
    BY <2>1, RowsHaveOneDefault
  <2> QED
    BY <1>3, <2>2 DEF GivenInv, Given!Assign, Given!NotAssigning
<1>4. ASSUME GivenInv, NEW c \in LoginCalls, Given!CommitAssign(c) PROVE GivenInv'
  <2> DEFINE call == assigning[c]
             kept == assigned \ call.gone
  <2>1. CASE assigning' = [assigning EXCEPT ![c] = Given!NotAssigning]
             /\ UNCHANGED <<assigned, mixed>>
    BY <1>4, <2>1 DEF GivenInv, Given!NotAssigning
  <2>2. CASE /\ assigned' = kept \union call.new
             /\ assigning' = [x \in LoginCalls |->
                    IF x = c THEN Given!NotAssigning
                    ELSE [assigning[x] EXCEPT !.overtaken = assigning[x].busy]]
             /\ mixed' = call.overtaken
    <3>1. call.busy
      BY <1>4 DEF Given!CommitAssign
    <3>2. /\ assigning' \in [LoginCalls -> [gone : SUBSET GivenRows, new : SUBSET GivenRows,
                                            busy : BOOLEAN, overtaken : BOOLEAN]]
          /\ \A x \in LoginCalls :
                /\ ~(assigning'[x].busy /\ ~assigning'[x].overtaken)
                /\ assigning'[x].new = {} \/ OneDefaultOf(assigning'[x].new)
      BY <1>4, <2>2 DEF GivenInv, Given!NotAssigning
    <3>3. ~call.overtaken => assigned' = call.new
      BY <1>4, <2>2, <3>1 DEF GivenInv
    <3>4. assigned' \subseteq GivenRows /\ mixed' \in BOOLEAN
      BY <1>4, <2>2 DEF GivenInv
    <3>5. call.new = {} \/ OneDefaultOf(call.new)
      BY <1>4 DEF GivenInv
    <3> QED
      BY <2>2, <3>2, <3>3, <3>4, <3>5 DEF GivenInv, OneDefaultOf
  <2> QED
    BY <1>4, <2>1, <2>2 DEF Given!CommitAssign
<1> QED
  BY <1>1, <1>2, <1>3, <1>4 DEF Given!AssignNext

-----------------------------------------------------------------------------
(* The team of the platform.                                               *)

AccountTypes == [state : {"none", "on", "off", "gone"}, admin : BOOLEAN]

TeamCallTypes ==
    {Platform!NoTeamCall} \union
    [op : {"deactivate", "delete", "roles"}, on : Team, admin : BOOLEAN, overtaken : BOOLEAN]

\* A call that nothing overtook decided on the accounts as they still are.
Looked(call) ==
    /\ call.op \in {"deactivate", "delete"} => Platform!NotTheLast(call.on)
    /\ call.op = "roles" =>
           (account[call.on].admin /\ ~call.admin => Platform!ActiveAdmins \ {call.on} # {})

TeamInv ==
    /\ account \in [Team -> AccountTypes]
    /\ teamCalls \in [LoginCalls -> TeamCallTypes]
    /\ forced \in BOOLEAN
    /\ \A c \in LoginCalls : ~teamCalls[c].overtaken => Looked(teamCalls[c])
    /\ Platform!AnAdminRemains

\* A Cardinality of the instance is that of the library.
LEMMA TeamCount == \A S : Platform!Cardinality(S) = Cardinality(S)
BY Zenon DEF Platform!Cardinality, Cardinality

\* Somebody who is not the last leaves another one.
LEMMA AnotherIsLeft ==
    ASSUME NEW u \in Team, Platform!NotTheLast(u), u \in Platform!ActiveAdmins
    PROVE  Platform!ActiveAdmins \ {u} # {}
<1>1. Cardinality(Platform!ActiveAdmins) > 1
  BY TeamCount DEF Platform!NotTheLast
<1>2. Platform!ActiveAdmins # {u}
  BY <1>1, FS_Singleton
<1> QED
  BY <1>2

\* The team begins with its first administrator.
LEMMA TeamStarts == Platform!TeamInit => TeamInv
<1> SUFFICES ASSUME Platform!TeamInit PROVE TeamInv
  OBVIOUS
<1>1. PICK first \in Team :
          account = [u \in Team |-> [state |-> IF u = first THEN "on" ELSE "none",
                                     admin |-> u = first]]
  BY DEF Platform!TeamInit
<1>2. account \in [Team -> AccountTypes]
  BY <1>1 DEF AccountTypes
<1>3. first \in Platform!ActiveAdmins
  BY <1>1 DEF Platform!ActiveAdmins, Platform!AdminsOf
<1>4. Platform!NoTeamCall \in TeamCallTypes /\ Looked(Platform!NoTeamCall)
  BY DEF TeamCallTypes, Platform!NoTeamCall, Looked
<1> QED
  BY <1>2, <1>3, <1>4 DEF Platform!TeamInit, TeamInv, Platform!AnAdminRemains

\* A call begins: nothing has overtaken it yet.
LEMMA TeamAskKeeps ==
    ASSUME TeamInv, NEW c \in LoginCalls, NEW op \in {"deactivate", "delete", "roles"},
           NEW u \in Team, NEW admin \in BOOLEAN, Platform!Ask(c, op, u, admin),
           op \in {"deactivate", "delete"} => Platform!NotTheLast(u),
           op = "roles" =>
               (account[u].admin /\ ~admin => Platform!ActiveAdmins \ {u} # {})
    PROVE  TeamInv'
<1> DEFINE call == [Platform!NoTeamCall EXCEPT !.op = op, !.on = u, !.admin = admin]
<1>1. /\ teamCalls' = [teamCalls EXCEPT ![c] = call]
      /\ UNCHANGED <<account, forced>>
  BY Zenon DEF Platform!Ask
<1>2. call \in TeamCallTypes /\ call.op = op /\ call.on = u /\ call.admin = admin
  BY DEF TeamCallTypes, Platform!NoTeamCall
<1> HIDE DEF call
<1>3. Platform!ActiveAdmins' = Platform!ActiveAdmins
  BY <1>1 DEF Platform!ActiveAdmins, Platform!AdminsOf
<1>4. \A x \in LoginCalls : ~teamCalls'[x].overtaken => Looked(teamCalls[x])' \/ x = c
  BY <1>1, <1>3 DEF TeamInv, Looked, Platform!NotTheLast
<1>5. Looked(teamCalls[c])'
  BY <1>1, <1>2, <1>3 DEF TeamInv, Looked, Platform!NotTheLast
<1> QED
  BY <1>1, <1>2, <1>3, <1>4, <1>5 DEF TeamInv, Platform!AnAdminRemains

\* The accounts change and the calls under way are overtaken; a change that
\* looked leaves an administrator if there was one.
LEMMA SettleKeeps ==
    ASSUME TeamInv, NEW calls \in SUBSET LoginCalls, NEW accounts \in [Team -> AccountTypes],
           NEW looked \in BOOLEAN, Platform!Settle(calls, accounts, looked),
           looked => (Platform!AdminsOf(accounts) = {} => Platform!ActiveAdmins = {})
    PROVE  TeamInv'
<1>1. account' = accounts /\ forced' = (Platform!AdminsOf(accounts) = {} /\ (forced \/ ~looked))
  BY DEF Platform!Settle
<1>2. Platform!ActiveAdmins' = Platform!AdminsOf(accounts)
  BY <1>1 DEF Platform!ActiveAdmins, Platform!AdminsOf
<1>3. Platform!AnAdminRemains'
  BY <1>1, <1>2 DEF TeamInv, Platform!AnAdminRemains
<1>4. ASSUME NEW x \in LoginCalls
      PROVE  /\ teamCalls'[x] \in TeamCallTypes
             /\ ~teamCalls'[x].overtaken => Looked(teamCalls[x])'
  <2>1. CASE teamCalls'[x] = Platform!NoTeamCall
    BY <2>1 DEF TeamCallTypes, Platform!NoTeamCall, Looked
  <2>2. CASE /\ teamCalls[x] # Platform!NoTeamCall
             /\ teamCalls'[x] = [teamCalls[x] EXCEPT !.overtaken = TRUE]
    BY <2>2 DEF TeamInv, TeamCallTypes
  <2> QED
    BY <2>1, <2>2 DEF Platform!Settle
<1>5. DOMAIN teamCalls' = LoginCalls /\ teamCalls' = [x \in LoginCalls |-> teamCalls'[x]]
  BY DEF Platform!Settle
<1>6. forced' \in BOOLEAN
  BY <1>1
<1> QED
  BY <1>1, <1>3, <1>4, <1>5, <1>6 DEF TeamInv

\* What a call does to the accounts.
LEMMA CommitTeamKeeps ==
    ASSUME TeamInv, NEW c \in LoginCalls, Platform!CommitTeam(c)
    PROVE  TeamInv'
<1> DEFINE call == teamCalls[c]
           off == [account EXCEPT ![call.on].state = IF @ = "on" THEN "off" ELSE @]
           gone == [account EXCEPT ![call.on].state = "gone"]
           roles == [account EXCEPT ![call.on].admin = call.admin]
<1>1. call \in [op : {"deactivate", "delete", "roles"}, on : Team, admin : BOOLEAN,
                overtaken : BOOLEAN]
  BY DEF TeamInv, TeamCallTypes, Platform!CommitTeam, Platform!NoTeamCall
<1>2. \/ call.op = "deactivate" /\ Platform!Settle({c}, off, ~call.overtaken)
      \/ call.op = "delete" /\ Platform!Settle({c}, gone, ~call.overtaken)
      \/ call.op = "roles" /\ Platform!Settle({c}, roles, ~call.overtaken)
  BY Zenon DEF Platform!CommitTeam
<1>3. /\ off \in [Team -> AccountTypes] /\ gone \in [Team -> AccountTypes]
      /\ roles \in [Team -> AccountTypes]
  BY <1>1 DEF TeamInv, AccountTypes
<1>4. ~call.overtaken => Looked(call)
  BY DEF TeamInv
<1>5. /\ Platform!AdminsOf(off) = Platform!ActiveAdmins \ {call.on}
      /\ Platform!AdminsOf(gone) = Platform!ActiveAdmins \ {call.on}
  BY <1>1 DEF TeamInv, AccountTypes, Platform!ActiveAdmins, Platform!AdminsOf
<1>6. /\ call.admin => Platform!ActiveAdmins \subseteq Platform!AdminsOf(roles)
      /\ ~account[call.on].admin => Platform!ActiveAdmins \subseteq Platform!AdminsOf(roles)
      /\ Platform!ActiveAdmins \ {call.on} \subseteq Platform!AdminsOf(roles)
  BY <1>1 DEF TeamInv, AccountTypes, Platform!ActiveAdmins, Platform!AdminsOf
<1>7. ~call.overtaken /\ call.op \in {"deactivate", "delete"} =>
          (Platform!ActiveAdmins \ {call.on} = {} => Platform!ActiveAdmins = {})
  BY <1>1, <1>4, AnotherIsLeft DEF Looked
<1>8. ~call.overtaken /\ call.op = "roles" =>
          (Platform!AdminsOf(roles) = {} => Platform!ActiveAdmins = {})
  BY <1>1, <1>4, <1>6 DEF Looked
<1>9. {c} \in SUBSET LoginCalls /\ (~call.overtaken) \in BOOLEAN
  OBVIOUS
<1> HIDE DEF call, off, gone, roles
<1> QED
  BY <1>2, <1>3, <1>5, <1>7, <1>8, <1>9, SettleKeeps

\* What changes an account at once.
LEMMA AtOnceKeeps ==
    ASSUME TeamInv, NEW u \in Team,
           \/ Platform!Deactivate(u) \/ Platform!Activate(u)
           \/ Platform!Crear(u, FALSE) \/ Platform!Invite(u)
    PROVE  TeamInv'
<1>1. account \in [Team -> AccountTypes] /\ {} \in SUBSET LoginCalls
  BY DEF TeamInv
<1>2. ASSUME NEW before \in {"on", "off"}, NEW state \in {"on", "off"},
             Platform!Actualizar(u, before, state)
      PROVE  TeamInv'
  <2> DEFINE accounts == [account EXCEPT ![u].state = state]
  <2>1. accounts \in [Team -> AccountTypes]
    BY <1>1 DEF AccountTypes
  <2>2. state = "on" => Platform!ActiveAdmins \subseteq Platform!AdminsOf(accounts)
    BY <1>1 DEF AccountTypes, Platform!ActiveAdmins, Platform!AdminsOf
  <2>3. Platform!Settle({}, accounts, state = "on")
    BY <1>2, Zenon DEF Platform!Actualizar
  <2>4. CASE state = "on"
    <3>1. Platform!Settle({}, accounts, TRUE)
      BY <2>3, <2>4, Zenon
    <3> HIDE DEF accounts
    <3> QED
      BY <1>1, <2>1, <2>2, <2>4, <3>1, SettleKeeps
  <2>5. CASE state # "on"
    <3>1. Platform!Settle({}, accounts, FALSE)
      BY <2>3, <2>5, Zenon
    <3> HIDE DEF accounts
    <3> QED
      BY <1>1, <2>1, <3>1, SettleKeeps
  <2> QED
    BY <2>4, <2>5
<1>3. ASSUME NEW admin \in BOOLEAN, Platform!Crear(u, admin) PROVE TeamInv'
  <2> DEFINE accounts == [account EXCEPT ![u] = [state |-> "on", admin |-> admin]]
  <2>1. Platform!Settle({}, accounts, TRUE) /\ account[u].state = "none"
    BY <1>3, Zenon DEF Platform!Crear
  <2>2. accounts \in [Team -> AccountTypes]
    BY <1>1 DEF AccountTypes
  <2>3. Platform!ActiveAdmins \subseteq Platform!AdminsOf(accounts)
    BY <1>1, <2>1 DEF AccountTypes, Platform!ActiveAdmins, Platform!AdminsOf
  <2> HIDE DEF accounts
  <2> QED
    BY <1>1, <2>1, <2>2, <2>3, SettleKeeps
<1> QED
  BY <1>2, <1>3 DEF Platform!Deactivate, Platform!Activate, Platform!Invite

\* Every step of the platform's team.
LEMMA TeamKeeps == TeamInv /\ [Platform!TeamNext]_teamVars => TeamInv'
<1>1. TeamInv /\ UNCHANGED teamVars => TeamInv'
  BY DEF TeamInv, teamVars, Looked, Platform!NotTheLast, Platform!ActiveAdmins,
         Platform!AdminsOf, Platform!AnAdminRemains
<1>2. ASSUME TeamInv, NEW c \in LoginCalls, NEW u \in Team,
             Platform!DeactivateAdmin(c, u) \/ Platform!DeleteAdmin(c, u)
      PROVE  TeamInv'
  BY <1>2, TeamAskKeeps DEF Platform!DeactivateAdmin, Platform!DeleteAdmin
<1>3. ASSUME TeamInv, NEW c \in LoginCalls, NEW u \in Team, NEW admin \in BOOLEAN,
             Platform!AssignTeamRoles(c, u, admin)
      PROVE  TeamInv'
  BY <1>3, TeamAskKeeps DEF Platform!AssignTeamRoles
<1> QED
  BY <1>1, <1>2, <1>3, CommitTeamKeeps, AtOnceKeeps DEF Platform!TeamNext

-----------------------------------------------------------------------------
(* The staff of a company and its roles.                                   *)

Somebody == \E u \in Staff : Company!AtWork(u)

StaffOps == {"hire", "assign", "deactivate", "delete", "bring"}
RoleOps == {"create", "open", "close", "drop"}

StaffCallTypes ==
    {Company!NothingToDo} \union
    [op : StaffOps, on : Staff, add : SUBSET (Staff \X Roles),
     del : SUBSET (Staff \X Roles), overtaken : BOOLEAN] \union
    [op : RoleOps, on : Roles, add : {{}}, del : {{}}, overtaken : BOOLEAN]

\* What commits next leaves somebody at work, if the call decided on what is
\* there: the one who asked, or whoever there was.
LeavesSomebody(call) ==
    /\ call.op \in {"hire", "bring"} => call.del = {}
    /\ call.op \in {"deactivate", "delete"} =>
           /\ call.add = {} /\ call.del = {}
           /\ \E a \in Staff \ {call.on} : Company!AtWork(a)
    /\ call.op = "assign" =>
           /\ \A h \in call.add \union call.del : h[1] = call.on
           /\ \E a \in Staff :
                 /\ Company!AtWork(a)
                 /\ a = call.on =>
                       \E r \in Roles : /\ <<a, r>> \in holds \union call.add
                                        /\ <<a, r>> \notin call.del
    /\ call.op = "drop" => Company!Holders(call.on) = {}

StaffInv ==
    /\ person \in [Staff -> {"none", "on", "off", "gone"}]
    /\ roleIs \in [Roles -> {"none", "on", "off"}]
    /\ holds \subseteq Staff \X Roles
    /\ staffCalls \in [LoginCalls -> StaffCallTypes]
    /\ stripped = {}
    /\ together \in BOOLEAN
    /\ \A c \in LoginCalls : LET call == staffCalls[c]
                             IN  ~call.overtaken => LeavesSomebody(call)
    /\ Somebody \/ together

\* Who holds what, one row of user_roles at a time.
LEMMA AtWorkRows ==
    ASSUME NEW u
    PROVE  /\ Company!AtWork(u) <=> person[u] = "on" /\ \E h \in holds : h[1] = u
           /\ Company!AtWork(u)' <=> person'[u] = "on" /\ \E h \in holds' : h[1] = u
BY DEF Company!AtWork, Company!RolesOf

\* Every company begins with somebody who administers it.
LEMMA StaffStarts == Company!StaffInit => StaffInv
<1> SUFFICES ASSUME Company!StaffInit PROVE StaffInv
  OBVIOUS
<1>1. PICK first \in Staff, r \in Roles :
          /\ person = [u \in Staff |-> IF u = first THEN "on" ELSE "none"]
          /\ roleIs = [x \in Roles |-> IF x = r THEN "on" ELSE "none"]
          /\ holds = {<<first, r>>}
  BY DEF Company!StaffInit
<1>2. Company!AtWork(first)
  BY <1>1, AtWorkRows
<1>3. Company!NothingToDo \in StaffCallTypes /\ LeavesSomebody(Company!NothingToDo)
  BY DEF StaffCallTypes, Company!NothingToDo, LeavesSomebody
<1>4. /\ person \in [Staff -> {"none", "on", "off", "gone"}]
      /\ roleIs \in [Roles -> {"none", "on", "off"}]
      /\ holds \subseteq Staff \X Roles
  BY <1>1
<1>5. staffCalls = [c \in LoginCalls |-> Company!NothingToDo] /\ stripped = {} /\ together = FALSE
  BY DEF Company!StaffInit
<1>6. Somebody
  BY <1>2 DEF Somebody
<1> QED
  BY <1>3, <1>4, <1>5, <1>6 DEF StaffInv

\* What the invariant says of a run.
LEMMA StaffSeen == StaffInv => Company!SomeoneAtWork /\ Company!NobodyStripped
BY DEF StaffInv, Company!SomeoneAtWork, Company!NobodyStripped, Somebody

\* A call begins on what is there.
LEMMA StaffAskKeeps ==
    ASSUME StaffInv, NEW c \in LoginCalls, NEW op, NEW on, NEW add, NEW del,
           Company!Ask(c, op, on, add, del),
           \/ op \in StaffOps /\ on \in Staff /\ add \in SUBSET (Staff \X Roles)
                              /\ del \in SUBSET (Staff \X Roles)
           \/ op \in RoleOps /\ on \in Roles /\ add = {} /\ del = {},
           LeavesSomebody([Company!NothingToDo EXCEPT !.op = op, !.on = on,
                                                      !.add = add, !.del = del])
    PROVE  StaffInv'
<1> DEFINE call == [Company!NothingToDo EXCEPT !.op = op, !.on = on,
                                               !.add = add, !.del = del]
<1>1. /\ staffCalls' = [staffCalls EXCEPT ![c] = call]
      /\ UNCHANGED <<person, roleIs, holds, stripped, together>>
  BY Zenon DEF Company!Ask
<1>2. call \in StaffCallTypes
  BY DEF StaffCallTypes, Company!NothingToDo
<1>3. Somebody' <=> Somebody
  BY <1>1 DEF Somebody, Company!AtWork, Company!RolesOf
<1>4. ASSUME NEW x, LeavesSomebody(x) PROVE LeavesSomebody(x)'
  BY <1>1, <1>4 DEF LeavesSomebody, Company!AtWork, Company!RolesOf, Company!Holders
<1>5. LeavesSomebody(call)'
  BY <1>4
<1> HIDE DEF call
<1>6. ASSUME NEW x \in LoginCalls PROVE ~staffCalls'[x].overtaken => LeavesSomebody(staffCalls[x])'
  BY <1>1, <1>4, <1>5 DEF StaffInv
<1> QED
  BY <1>1, <1>2, <1>3, <1>6 DEF StaffInv

\* A commit overtakes the other calls, and nobody is left only if somebody was
\* not there before or the call itself had been overtaken.
LEMMA StaffDoneKeeps ==
    ASSUME StaffInv, NEW c \in LoginCalls, Company!Done(c),
           person' \in [Staff -> {"none", "on", "off", "gone"}],
           roleIs' \in [Roles -> {"none", "on", "off"}],
           holds' \subseteq Staff \X Roles, stripped' = {},
           together' = ((together \/ staffCalls[c].overtaken) /\ ~Somebody'),
           ~staffCalls[c].overtaken /\ Somebody => Somebody'
    PROVE  StaffInv'
<1>1. ASSUME NEW x \in LoginCalls
      PROVE  /\ staffCalls'[x] \in StaffCallTypes
             /\ ~staffCalls'[x].overtaken => LeavesSomebody(staffCalls[x])'
  <2>1. CASE staffCalls'[x] = Company!NothingToDo
    BY <2>1 DEF StaffCallTypes, Company!NothingToDo, LeavesSomebody
  <2>2. CASE /\ staffCalls[x] # Company!NothingToDo
             /\ staffCalls'[x] = [staffCalls[x] EXCEPT !.overtaken = TRUE]
    <3>1. /\ staffCalls[x] \in StaffCallTypes \ {Company!NothingToDo}
      BY <2>2 DEF StaffInv
    <3>2. staffCalls'[x] \in StaffCallTypes /\ staffCalls'[x].overtaken
      BY <2>2, <3>1 DEF StaffCallTypes
    <3> QED
      BY <3>2
  <2> QED
    BY <2>1, <2>2 DEF Company!Done
<1>2. staffCalls' = [x \in LoginCalls |-> staffCalls'[x]]
  BY DEF Company!Done
<1>3. together' \in BOOLEAN /\ (Somebody' \/ together')
  BY DEF StaffInv
<1> QED
  BY <1>1, <1>2, <1>3 DEF StaffInv

\* What is done to a member.
LEMMA CommitPersonKeeps ==
    ASSUME StaffInv, NEW c \in LoginCalls, Company!CommitPerson(c)
    PROVE  StaffInv'
<1> DEFINE call == staffCalls[c]
<1>1. /\ call.op \in StaffOps /\ call.on \in Staff /\ call.overtaken \in BOOLEAN
      /\ call.add \subseteq Staff \X Roles /\ call.del \subseteq Staff \X Roles
  BY DEF StaffInv, StaffCallTypes, Company!NothingToDo, Company!CommitPerson, Company!Ends,
         StaffOps, RoleOps
<1>2. /\ person' = IF call.op = "assign" THEN person
                   ELSE [person EXCEPT ![call.on] = Company!Ends[call.op]]
      /\ holds' = (holds \ call.del) \union call.add
      /\ Company!Done(c) /\ UNCHANGED <<roleIs, stripped>>
  BY DEF Company!CommitPerson
<1>3. call.op # "assign" => Company!Ends[call.op] =
          IF call.op \in {"hire", "bring"} THEN "on"
          ELSE IF call.op = "deactivate" THEN "off" ELSE "gone"
  BY <1>1 DEF Company!Ends, StaffOps
<1>4. /\ person' \in [Staff -> {"none", "on", "off", "gone"}]
      /\ holds' \subseteq Staff \X Roles
  BY <1>1, <1>2, <1>3 DEF StaffInv
<1>5. together' = ((together \/ call.overtaken) /\ ~Somebody')
  BY AtWorkRows DEF Company!CommitPerson, Somebody
<1>6. ASSUME ~call.overtaken, Somebody PROVE Somebody'
  <2>1. LeavesSomebody(call)
    BY <1>6 DEF StaffInv
  <2>2. CASE call.op \in {"hire", "bring"}
    <3>1. PICK a \in Staff : Company!AtWork(a)
      BY <1>6 DEF Somebody
    <3>2. holds \subseteq holds' /\ person'[a] = "on"
      BY <1>1, <1>2, <1>3, <2>1, <2>2, <3>1, AtWorkRows DEF LeavesSomebody, StaffInv
    <3> QED
      BY <3>1, <3>2, AtWorkRows DEF Somebody
  <2>3. CASE call.op \in {"deactivate", "delete"}
    <3>1. PICK a \in Staff \ {call.on} : Company!AtWork(a)
      BY <2>1, <2>3 DEF LeavesSomebody
    <3>2. holds' = holds /\ person'[a] = person[a]
      BY <1>1, <1>2, <2>1, <2>3 DEF LeavesSomebody, StaffInv
    <3> QED
      BY <3>1, <3>2, AtWorkRows DEF Somebody
  <2>4. CASE call.op = "assign"
    <3>1. PICK a \in Staff :
              /\ Company!AtWork(a)
              /\ a = call.on => \E r \in Roles : /\ <<a, r>> \in holds \union call.add
                                                 /\ <<a, r>> \notin call.del
      BY <2>1, <2>4 DEF LeavesSomebody
    <3>2. \E h \in holds' : h[1] = a
      <4>1. CASE a = call.on
        <5>1. PICK r \in Roles : <<a, r>> \in holds \union call.add /\ <<a, r>> \notin call.del
          BY <3>1, <4>1
        <5>2. <<a, r>> \in holds' /\ <<a, r>>[1] = a
          BY <1>2, <5>1
        <5> QED
          BY <5>2, Zenon
      <4>2. CASE a # call.on
        <5>1. PICK h \in holds : h[1] = a
          BY <3>1, AtWorkRows
        <5>2. h \notin call.del
          BY <2>1, <2>4, <4>2, <5>1 DEF LeavesSomebody
        <5> QED
          BY <1>2, <5>1, <5>2
      <4> QED
        BY <4>1, <4>2
    <3>3. person'[a] = "on"
      BY <1>2, <2>4, <3>1, AtWorkRows
    <3> QED
      BY <3>2, <3>3, AtWorkRows DEF Somebody
  <2> QED
    BY <1>1, <2>2, <2>3, <2>4 DEF StaffOps
<1> QED
  BY <1>2, <1>4, <1>5, <1>6, StaffDoneKeeps DEF StaffInv

\* What is done to a role.
LEMMA CommitRoleKeeps ==
    ASSUME StaffInv, NEW c \in LoginCalls, Company!CommitRole(c)
    PROVE  StaffInv'
<1> DEFINE call == staffCalls[c]
<1>1. /\ call.op \in RoleOps /\ call.on \in Roles
  BY DEF StaffInv, StaffCallTypes, Company!NothingToDo, Company!CommitRole, StaffOps, RoleOps
<1>2. /\ Company!Done(c) /\ UNCHANGED person
      /\ roleIs' \in [Roles -> {"none", "on", "off"}]
      /\ holds' \subseteq Staff \X Roles
  BY <1>1 DEF Company!CommitRole, StaffInv
<1>3. together' = ((together \/ call.overtaken) /\ ~Somebody')
  BY AtWorkRows DEF Company!CommitRole, Somebody
<1>4. ~call.overtaken => holds' = holds
  <2> SUFFICES ASSUME ~call.overtaken, call.op = "drop" PROVE holds' = holds
    BY DEF Company!CommitRole
  <2>1. Company!Holders(call.on) = {}
    BY DEF StaffInv, LeavesSomebody
  <2>2. holds' = {h \in holds : h[2] # call.on}
    BY DEF Company!CommitRole
  <2> QED
    BY <2>1, <2>2 DEF Company!Holders
<1>5. stripped' = {}
  <2> SUFFICES ASSUME call.op = "drop" PROVE Company!Taken(c, call.on) = {}
    BY DEF Company!CommitRole, StaffInv
  <2>1. CASE call.overtaken
    BY <2>1 DEF Company!Taken
  <2>2. CASE ~call.overtaken
    <3>1. Company!Holders(call.on) = {}
      BY <2>2 DEF StaffInv, LeavesSomebody
    <3> QED
      BY <2>2, <3>1 DEF Company!Taken, Company!Holders
  <2> QED
    BY <2>1, <2>2
<1>6. ~call.overtaken /\ Somebody => Somebody'
  BY <1>2, <1>4, AtWorkRows DEF Somebody
<1> QED
  BY <1>2, <1>3, <1>5, <1>6, StaffDoneKeeps DEF StaffInv

\* A call of UserService begins.
LEMMA MemberAskKeeps ==
    ASSUME StaffInv, NEW c \in LoginCalls, NEW u \in Staff,
           \/ \E given \in SUBSET Roles : Company!Hire(c, u, given)
           \/ \E actor \in Staff :
               \/ \E given \in SUBSET Roles : Company!Assign(c, actor, u, given)
               \/ Company!Deactivate(c, actor, u) \/ Company!Delete(c, actor, u)
               \/ Company!Activate(c, actor, u) \/ Company!Restore(c, actor, u)
    PROVE  StaffInv'
<1>1. ASSUME NEW given \in SUBSET Roles, Company!Hire(c, u, given) PROVE StaffInv'
  <2>1. Company!Ask(c, "hire", u, {u} \X given, {})
    BY <1>1 DEF Company!Hire
  <2>2. {u} \X given \in SUBSET (Staff \X Roles) /\ "hire" \in StaffOps
    BY DEF StaffOps
  <2>3. LeavesSomebody([Company!NothingToDo EXCEPT !.op = "hire", !.on = u,
                                                   !.add = {u} \X given, !.del = {}])
    BY DEF LeavesSomebody, Company!NothingToDo
  <2> QED
    BY <2>1, <2>2, <2>3, StaffAskKeeps
<1>2. ASSUME NEW actor \in Staff, NEW given \in SUBSET Roles, Company!Assign(c, actor, u, given)
      PROVE  StaffInv'
  <2> DEFINE held == Company!RolesOf(u)
             add == {u} \X (given \ held)
             del == {u} \X (held \ given)
  <2>1. /\ Company!Ask(c, "assign", u, add, del) /\ Company!AtWork(actor)
        /\ actor = u => given # {}
    BY <1>2 DEF Company!Assign
  <2>2. held \in SUBSET Roles /\ \A r \in held : <<u, r>> \in holds
    BY DEF StaffInv, Company!RolesOf
  <2>3. add \in SUBSET (Staff \X Roles) /\ del \in SUBSET (Staff \X Roles) /\ "assign" \in StaffOps
    BY <2>2 DEF StaffOps
  <2>4. \A h \in add \union del : h[1] = u
    OBVIOUS
  <2>5. actor = u => \E r \in Roles : <<u, r>> \in holds \union add /\ <<u, r>> \notin del
    <3> SUFFICES ASSUME actor = u
                 PROVE  \E r \in Roles : <<u, r>> \in holds \union add /\ <<u, r>> \notin del
      OBVIOUS
    <3>1. PICK r \in given : TRUE
      BY <2>1
    <3> QED
      BY <2>2, <3>1
  <2> HIDE DEF held, add, del
  <2>6. LeavesSomebody([Company!NothingToDo EXCEPT !.op = "assign", !.on = u,
                                                   !.add = add, !.del = del])
    BY <2>1, <2>4, <2>5 DEF LeavesSomebody, Company!NothingToDo
  <2> QED
    BY <2>1, <2>3, <2>6, StaffAskKeeps
<1>3. ASSUME NEW actor \in Staff, Company!Deactivate(c, actor, u) \/ Company!Delete(c, actor, u)
      PROVE  StaffInv'
  <2>1. PICK op \in {"deactivate", "delete"} : Company!Ask(c, op, u, {}, {})
    BY <1>3 DEF Company!Deactivate, Company!Delete
  <2>2. actor \in Staff \ {u} /\ Company!AtWork(actor)
    BY <1>3 DEF Company!Deactivate, Company!Delete, Company!NotOneself
  <2>3. LeavesSomebody([Company!NothingToDo EXCEPT !.op = op, !.on = u, !.add = {}, !.del = {}])
    BY <2>2 DEF LeavesSomebody, Company!NothingToDo
  <2>4. op \in StaffOps /\ {} \in SUBSET (Staff \X Roles)
    BY DEF StaffOps
  <2> QED
    BY <2>1, <2>3, <2>4, StaffAskKeeps
<1>4. ASSUME NEW actor \in Staff, Company!Activate(c, actor, u) \/ Company!Restore(c, actor, u)
      PROVE  StaffInv'
  <2>1. Company!Ask(c, "bring", u, {}, {})
    BY <1>4 DEF Company!Activate, Company!Restore
  <2>2. LeavesSomebody([Company!NothingToDo EXCEPT !.op = "bring", !.on = u, !.add = {}, !.del = {}])
    BY DEF LeavesSomebody, Company!NothingToDo
  <2>3. "bring" \in StaffOps /\ {} \in SUBSET (Staff \X Roles)
    BY DEF StaffOps
  <2> QED
    BY <2>1, <2>2, <2>3, StaffAskKeeps
<1> QED
  BY <1>1, <1>2, <1>3, <1>4

\* A call of RoleService begins.
LEMMA RoleAskKeeps ==
    ASSUME StaffInv, NEW c \in LoginCalls, NEW r \in Roles,
           \/ Company!CreateRole(c, r) \/ Company!ActivateRole(c, r)
           \/ Company!DeactivateRole(c, r) \/ Company!DeleteRole(c, r)
    PROVE  StaffInv'
<1>1. PICK op \in RoleOps : /\ Company!Ask(c, op, r, {}, {})
                            /\ op = "drop" => Company!Holders(r) = {}
  BY DEF RoleOps, Company!CreateRole, Company!ActivateRole, Company!DeactivateRole,
         Company!DeleteRole
<1>2. LeavesSomebody([Company!NothingToDo EXCEPT !.op = op, !.on = r, !.add = {}, !.del = {}])
  BY <1>1 DEF LeavesSomebody, Company!NothingToDo, RoleOps
<1> QED
  BY <1>1, <1>2, StaffAskKeeps

\* Every step of the staff of a company.
LEMMA StaffKeeps == StaffInv /\ [Company!StaffNext]_staffVars => StaffInv'
<1>1. ASSUME StaffInv, UNCHANGED <<person, roleIs, holds, stripped, together>>,
             staffCalls' \in [LoginCalls -> StaffCallTypes],
             \A c \in LoginCalls : staffCalls'[c] = staffCalls[c]
                                   \/ staffCalls'[c] = Company!NothingToDo
      PROVE  StaffInv'
  <2>1. Somebody' <=> Somebody
    BY <1>1 DEF Somebody, Company!AtWork, Company!RolesOf
  <2>2. ASSUME NEW x, LeavesSomebody(x) PROVE LeavesSomebody(x)'
    BY <1>1, <2>2 DEF LeavesSomebody, Company!AtWork, Company!RolesOf, Company!Holders
  <2>3. LeavesSomebody(Company!NothingToDo)
    BY DEF LeavesSomebody, Company!NothingToDo
  <2>4. ASSUME NEW c \in LoginCalls
        PROVE  ~staffCalls'[c].overtaken => LeavesSomebody(staffCalls[c])'
    BY <1>1, <2>2, <2>3 DEF StaffInv
  <2> QED
    BY <1>1, <2>1, <2>4 DEF StaffInv
<1>2. StaffInv /\ UNCHANGED staffVars => StaffInv'
  BY <1>1 DEF StaffInv, staffVars
<1>3. ASSUME StaffInv, NEW c \in LoginCalls, Company!Fail(c) PROVE StaffInv'
  <2>1. Company!NothingToDo \in StaffCallTypes
    BY DEF StaffCallTypes
  <2> QED
    BY <1>1, <1>3, <2>1 DEF Company!Fail, StaffInv
<1> QED
  BY <1>2, <1>3, CommitPersonKeeps, CommitRoleKeeps, MemberAskKeeps, RoleAskKeeps
     DEF Company!StaffNext

-----------------------------------------------------------------------------
(* The companies that sign up.                                             *)

CompanyTypes == [made : BOOLEAN, admin : BOOLEAN, contact : Emails \union {""},
                 from : Links \union {NoLink}, template : BOOLEAN, again : BOOLEAN]

MailTypes == [state : {"none", "sent", "expired", "used"}, slug : Slugs \union {""},
              email : Emails \union {""}]

EnteringTypes == [busy : BOOLEAN, from : Links \union {NoLink},
                  slug : Entry!Names \union {""}, email : Emails \union {""},
                  template : BOOLEAN, imported : BOOLEAN, again : BOOLEAN]

MadeFrom(s, l) == company[s].made /\ company[s].from = l

\* A request that a link began asks for what the link says; once the link is
\* used, the e-mail is taken, or became free while the request was deciding.
FromItsLink(call) ==
    call.busy =>
        /\ call.slug \in Entry!Names /\ call.email \in Emails
        /\ call.imported => call.template
        /\ call.template => call.from = NoLink
        /\ call.from \in Links =>
              /\ mail[call.from].state # "none" /\ mail[call.from].email = call.email
              /\ mail[call.from].state = "used" => user[call.email] # "free" \/ call.again

EntryInv ==
    /\ company \in [Entry!Names -> CompanyTypes]
    /\ user \in [Emails -> {"free", "live", "deleted"}]
    /\ mail \in [Links -> MailTypes]
    /\ entering \in [LoginCalls -> EnteringTypes]
    /\ \A l \in Links : mail[l].state # "none" => mail[l].slug \in Slugs /\ mail[l].email \in Emails
    /\ \A c \in LoginCalls : FromItsLink(entering[c])
    /\ \A l \in Links : mail[l].state = "used" <=> \E s \in Entry!Names : MadeFrom(s, l)
    /\ \A l \in Links : \A s, t \in Entry!Names :
          MadeFrom(s, l) /\ MadeFrom(t, l) /\ s # t => company[s].again \/ company[t].again
    /\ \A s \in Entry!Names : company[s].made /\ ~company[s].admin => company[s].template

\* No company, and no link.
LEMMA EntryStarts == Entry!SignupInit => EntryInv
<1> SUFFICES ASSUME Entry!SignupInit PROVE EntryInv
  OBVIOUS
<1>1. /\ Entry!NoCompany \in CompanyTypes /\ ~Entry!NoCompany.made
      /\ Entry!NoMail \in MailTypes /\ Entry!NoMail.state = "none"
      /\ Entry!NotEntering \in EnteringTypes /\ ~Entry!NotEntering.busy
  BY DEF CompanyTypes, MailTypes, EnteringTypes, Entry!NoCompany, Entry!NoMail,
         Entry!NotEntering
<1> QED
  BY <1>1 DEF Entry!SignupInit, EntryInv, FromItsLink, MadeFrom

\* What the invariant says of a run.
LEMMA EntrySeen == EntryInv => Entry!OneCompanyPerLink /\ Entry!WholeUnlessTemplate
BY DEF EntryInv, MadeFrom, Entry!OneCompanyPerLink, Entry!WholeUnlessTemplate, Entry!Open

\* The requests that change no company.
LEMMA AskingKeeps ==
    ASSUME EntryInv, NEW c \in LoginCalls,
           \/ \E l \in Links : Entry!Verificar(c, l)
           \/ \E s \in Slugs, e \in Emails, template \in BOOLEAN :
                 Entry!Registrar(c, s, e, template)
           \/ Entry!Fail(c)
    PROVE  EntryInv'
<1>1. PICK call \in EnteringTypes : /\ entering' = [entering EXCEPT ![c] = call]
                                    /\ FromItsLink(call)
  <2>1. ASSUME NEW l \in Links, Entry!Verificar(c, l)
        PROVE  \E call \in EnteringTypes : /\ entering' = [entering EXCEPT ![c] = call]
                                           /\ FromItsLink(call)
    <3>1. PICK s \in Entry!Names :
              entering' = [entering EXCEPT ![c] =
                  [Entry!NotEntering EXCEPT !.busy = TRUE, !.from = l, !.slug = s,
                                            !.email = mail[l].email]]
      BY <2>1 DEF Entry!Verificar, EntryInv, Entry!Names
    <3>2. mail[l].state = "sent" /\ mail[l].email \in Emails
      BY <2>1 DEF Entry!Verificar, EntryInv
    <3> DEFINE call == [Entry!NotEntering EXCEPT !.busy = TRUE, !.from = l, !.slug = s,
                                                 !.email = mail[l].email]
    <3>3. call \in EnteringTypes /\ FromItsLink(call)
      BY <3>2 DEF EnteringTypes, FromItsLink, Entry!NotEntering
    <3> QED
      BY <3>1, <3>3
  <2>2. ASSUME NEW s \in Slugs, NEW e \in Emails, NEW template \in BOOLEAN,
               Entry!Registrar(c, s, e, template)
        PROVE  \E call \in EnteringTypes : /\ entering' = [entering EXCEPT ![c] = call]
                                           /\ FromItsLink(call)
    <3> DEFINE call == [Entry!NotEntering EXCEPT !.busy = TRUE, !.slug = s, !.email = e,
                                                 !.template = template]
    <3>1. entering' = [entering EXCEPT ![c] = call]
      BY <2>2, Zenon DEF Entry!Registrar
    <3>2. call \in EnteringTypes /\ FromItsLink(call)
      BY LinksAssumption DEF EnteringTypes, FromItsLink, Entry!NotEntering, Entry!Names,
                             Entry!SignupAssumption
    <3> QED
      BY <3>1, <3>2
  <2>3. Entry!NotEntering \in EnteringTypes /\ FromItsLink(Entry!NotEntering)
    BY DEF EnteringTypes, FromItsLink, Entry!NotEntering
  <2> QED
    BY <2>1, <2>2, <2>3 DEF Entry!Fail
<1>2. UNCHANGED <<company, user, mail>>
  BY DEF Entry!Verificar, Entry!Registrar, Entry!Fail
<1>3. ASSUME NEW x, FromItsLink(x) PROVE FromItsLink(x)'
  BY <1>2, <1>3 DEF FromItsLink
<1> QED
  BY <1>1, <1>2, <1>3 DEF EntryInv, MadeFrom

\* The companies of a step: those there were, but for one name.
LEMMA ImportarKeeps ==
    ASSUME EntryInv, NEW c \in LoginCalls, Entry!Importar(c)
    PROVE  EntryInv'
<1> DEFINE call == entering[c]
<1>1. /\ call.busy /\ call.template /\ ~call.imported /\ call \in EnteringTypes
      /\ call.slug \in Entry!Names /\ call.email \in Emails /\ call.from = NoLink
  BY DEF Entry!Importar, EntryInv, FromItsLink
<1>2. UNCHANGED <<user, mail>>
  BY DEF Entry!Importar
<1>3. ASSUME NEW x, FromItsLink(x) PROVE FromItsLink(x)'
  BY <1>2, <1>3 DEF FromItsLink
<1>4. CASE /\ Entry!Open(call.slug)
           /\ company' = [company EXCEPT ![call.slug] = Entry!Made(call)]
           /\ entering' = [entering EXCEPT ![c].imported = TRUE]
  <2>1. /\ Entry!Made(call) \in CompanyTypes /\ Entry!Made(call).from = NoLink
        /\ Entry!Made(call).template
    BY <1>1 DEF Entry!Made, CompanyTypes, EnteringTypes
  <2>2. company' \in [Entry!Names -> CompanyTypes]
    BY <1>1, <1>4, <2>1 DEF EntryInv
  <2>3. /\ [call EXCEPT !.imported = TRUE] \in EnteringTypes
        /\ FromItsLink([call EXCEPT !.imported = TRUE])
    BY <1>1, LinksAssumption DEF EnteringTypes, FromItsLink, Entry!SignupAssumption
  <2>4. /\ entering' \in [LoginCalls -> EnteringTypes]
        /\ \A x \in LoginCalls : FromItsLink(entering[x])'
    BY <1>3, <1>4, <2>3 DEF EntryInv
  <2>5. \A s \in Entry!Names, l \in Links : MadeFrom(s, l)' <=> MadeFrom(s, l)
    BY <1>1, <1>4, <2>1, LinksAssumption
       DEF EntryInv, MadeFrom, Entry!Open, Entry!SignupAssumption
  <2>6. \A s \in Entry!Names : company'[s] = company[s] \/ s = call.slug
    BY <1>1, <1>4 DEF EntryInv
  <2>7. \A l \in Links : ~MadeFrom(call.slug, l)
    BY <1>4 DEF MadeFrom, Entry!Open
  <2>8. \A s \in Entry!Names : company'[s].made /\ ~company'[s].admin => company'[s].template
    BY <1>1, <1>4, <2>1 DEF EntryInv
  <2>9. \A l \in Links : \A s, t \in Entry!Names :
            MadeFrom(s, l)' /\ MadeFrom(t, l)' /\ s # t => company'[s].again \/ company'[t].again
    BY <2>5, <2>6, <2>7 DEF EntryInv
  <2> QED
    BY <1>2, <2>2, <2>4, <2>5, <2>8, <2>9 DEF EntryInv
<1>5. CASE entering' = [entering EXCEPT ![c] = Entry!NotEntering] /\ UNCHANGED company
  <2>1. Entry!NotEntering \in EnteringTypes /\ FromItsLink(Entry!NotEntering)
    BY DEF EnteringTypes, FromItsLink, Entry!NotEntering
  <2> QED
    BY <1>2, <1>3, <1>5, <2>1 DEF EntryInv, MadeFrom
<1> QED
  BY <1>4, <1>5 DEF Entry!Importar

\* The transaction that makes a company, or finishes one made from a template.
LEMMA EnterKeeps ==
    ASSUME EntryInv, NEW c \in LoginCalls, Entry!Enter(c)
    PROVE  EntryInv'
<1> DEFINE call == entering[c]
           made == [(IF call.imported THEN company[call.slug] ELSE Entry!Made(call))
                       EXCEPT !.admin = TRUE]
<1>1. /\ call.busy /\ call \in EnteringTypes /\ FromItsLink(call)
      /\ call.slug \in Entry!Names /\ call.email \in Emails
      /\ call.imported => call.template
      /\ call.template => call.imported /\ call.from = NoLink
      /\ entering' = [entering EXCEPT ![c] = Entry!NotEntering]
  BY DEF Entry!Enter, EntryInv, FromItsLink
<1>2. /\ Entry!NotEntering \in EnteringTypes /\ ~Entry!NotEntering.busy
      /\ entering' \in [LoginCalls -> EnteringTypes]
      /\ \A x \in LoginCalls : entering'[x] = entering[x] \/ ~entering'[x].busy
  BY <1>1 DEF EnteringTypes, EntryInv, Entry!NotEntering
<1>3. CASE UNCHANGED <<company, user, mail>>
  BY <1>2, <1>3 DEF EntryInv, FromItsLink, MadeFrom
<1>4. CASE /\ Entry!Accepted(call)
           /\ company' = [company EXCEPT ![call.slug] = made]
           /\ user' = [user EXCEPT ![call.email] = "live"]
           /\ mail' = [l \in Links |-> IF l = call.from
                                       THEN [mail[l] EXCEPT !.state = "used"]
                                       ELSE mail[l]]
  <2>1. user[call.email] = "free" /\ (call.imported \/ ~company[call.slug].made)
    BY <1>4 DEF Entry!Accepted, Entry!Open
  <2>2. /\ made \in CompanyTypes /\ made.admin
        /\ call.imported => made.made = company[call.slug].made
                            /\ made.from = company[call.slug].from
                            /\ made.again = company[call.slug].again
        /\ ~call.imported => made.made /\ made.from = call.from /\ made.again = call.again
    <3> DEFINE base == IF call.imported THEN company[call.slug] ELSE Entry!Made(call)
    <3>1. /\ base \in CompanyTypes
          /\ call.imported => base = company[call.slug]
          /\ ~call.imported => base.made /\ base.from = call.from /\ base.again = call.again
      <4>1. company[call.slug] \in CompanyTypes
        BY <1>1 DEF EntryInv
      <4>2. /\ Entry!Made(call) \in CompanyTypes /\ Entry!Made(call).made
            /\ Entry!Made(call).from = call.from /\ Entry!Made(call).again = call.again
        BY <1>1 DEF CompanyTypes, EnteringTypes, Entry!Made
      <4> QED
        BY <4>1, <4>2
    <3>2. made = [base EXCEPT !.admin = TRUE]
      OBVIOUS
    <3> HIDE DEF base, made
    <3>3. /\ made \in CompanyTypes /\ made.admin /\ made.made = base.made
          /\ made.from = base.from /\ made.again = base.again
      BY <3>1, <3>2 DEF CompanyTypes
    <3> QED
      BY <3>1, <3>3
  <2> HIDE DEF made
  <2>3. /\ company' \in [Entry!Names -> CompanyTypes]
        /\ user' \in [Emails -> {"free", "live", "deleted"}]
        /\ company'[call.slug] = made
        /\ \A s \in Entry!Names : s # call.slug => company'[s] = company[s]
    BY <1>1, <1>4, <2>2 DEF EntryInv
  <2>4. /\ mail' \in [Links -> MailTypes]
        /\ \A l \in Links : /\ mail'[l].slug = mail[l].slug /\ mail'[l].email = mail[l].email
                            /\ l = call.from => mail'[l].state = "used"
                            /\ l # call.from => mail'[l].state = mail[l].state
    <3>1. ASSUME NEW l \in Links
          PROVE  LET used == [mail[l] EXCEPT !.state = "used"]
                 IN  /\ used \in MailTypes /\ used.slug = mail[l].slug
                     /\ used.email = mail[l].email /\ used.state = "used"
                     /\ mail[l] \in MailTypes
      BY DEF EntryInv, MailTypes
    <3> QED
      BY <1>4, <3>1
  <2>5. call.from \in Links => mail[call.from].state # "none" /\ mail[call.from].email = call.email
                               /\ ~call.imported
    BY <1>1, LinksAssumption DEF FromItsLink, Entry!SignupAssumption
  <2>6. \A l \in Links : mail'[l].state # "none" => mail'[l].slug \in Slugs /\ mail'[l].email \in Emails
    BY <2>4, <2>5 DEF EntryInv
  <2>7. ASSUME NEW x \in LoginCalls PROVE FromItsLink(entering[x])'
    <3>1. CASE ~entering'[x].busy
      BY <3>1 DEF FromItsLink
    <3>2. CASE entering'[x] = entering[x] /\ entering[x].busy
      <4>1. FromItsLink(entering[x])
        BY DEF EntryInv
      <4>2. user'[entering[x].email] # "free" \/ user'[entering[x].email] = user[entering[x].email]
        BY <1>1, <1>4, <3>2, <4>1 DEF EntryInv, FromItsLink
      <4>3. entering[x].from \in Links /\ entering[x].from = call.from =>
                user'[entering[x].email] # "free"
        BY <1>1, <1>4, <2>5, <3>2, <4>1 DEF EntryInv, FromItsLink
      <4> QED
        BY <2>4, <3>2, <4>1, <4>2, <4>3 DEF FromItsLink
    <3> QED
      BY <1>2, <3>1, <3>2
  <2>8. ASSUME NEW l \in Links, l # call.from, NEW s \in Entry!Names
        PROVE  MadeFrom(s, l)' <=> MadeFrom(s, l)
    BY <2>1, <2>2, <2>3, <2>8 DEF MadeFrom
  <2> PICK name \in Entry!Names : name = call.slug
    BY <1>1
  <2>9. ASSUME NEW l \in Links, l = call.from
        PROVE  /\ MadeFrom(name, l)'
               /\ \A s \in Entry!Names : s # name => (MadeFrom(s, l)' <=> MadeFrom(s, l))
               /\ \A s \in Entry!Names : MadeFrom(s, l) => call.again
    <3>1. MadeFrom(name, l)'
      BY <2>2, <2>3, <2>5, <2>9 DEF MadeFrom
    <3>2. \A s \in Entry!Names : MadeFrom(s, l) => mail[l].state = "used"
      BY DEF EntryInv
    <3>3. mail[l].state = "used" => call.again
      BY <1>1, <2>1, <2>9 DEF FromItsLink
    <3> QED
      BY <2>3, <3>1, <3>2, <3>3 DEF MadeFrom
  <2>10. \A l \in Links : mail'[l].state = "used" <=> \E s \in Entry!Names : MadeFrom(s, l)'
    BY <1>1, <2>4, <2>8, <2>9 DEF EntryInv
  <2>11. ASSUME NEW l \in Links, NEW s \in Entry!Names, NEW t \in Entry!Names,
                MadeFrom(s, l)', MadeFrom(t, l)', s # t
         PROVE  company'[s].again \/ company'[t].again
    <3>1. CASE l = call.from
      <4>1. ~call.imported /\ company'[call.slug].again = call.again
        BY <2>2, <2>3, <2>5, <3>1
      <4>2. CASE s = name \/ t = name
        BY <2>9, <2>11, <3>1, <4>1, <4>2
      <4>3. CASE s # name /\ t # name
        BY <2>3, <2>9, <2>11, <3>1, <4>3 DEF EntryInv
      <4> QED
        BY <4>2, <4>3
    <3>2. CASE l # call.from
      <4>1. MadeFrom(s, l) /\ MadeFrom(t, l)
        BY <2>8, <2>11, <3>2
      <4>2. company[s].again \/ company[t].again
        BY <2>11, <4>1 DEF EntryInv
      <4>3. MadeFrom(call.slug, l) => call.imported
        BY <2>1 DEF MadeFrom
      <4>4. \A x \in Entry!Names : MadeFrom(x, l) => company'[x].again = company[x].again
        BY <2>2, <2>3, <4>3
      <4> QED
        BY <4>1, <4>2, <4>4
    <3> QED
      BY <3>1, <3>2
  <2>12. \A s \in Entry!Names : company'[s].made /\ ~company'[s].admin => company'[s].template
    BY <2>2, <2>3 DEF EntryInv
  <2> QED
    BY <1>2, <2>3, <2>4, <2>6, <2>7, <2>10, <2>11, <2>12 DEF EntryInv
<1> QED
  BY <1>3, <1>4 DEF Entry!Enter

\* What happens to a link that nobody opens.
LEMMA LinkKeeps ==
    ASSUME EntryInv, NEW l \in Links,
           \/ Entry!Expire(l)
           \/ \E s \in Slugs, e \in Emails : Entry!Solicitar(l, s, e)
    PROVE  EntryInv'
<1>1. PICK row \in MailTypes :
          /\ mail' = [mail EXCEPT ![l] = row]
          /\ row.state \in {"sent", "expired"} /\ mail[l].state \in {"none", "sent"}
          /\ row.slug \in Slugs /\ row.email \in Emails
          /\ mail[l].state = "none" \/ row.email = mail[l].email
          /\ UNCHANGED <<company, user, entering>>
  <2>1. CASE Entry!Expire(l)
    <3> DEFINE row == [mail[l] EXCEPT !.state = "expired"]
    <3>1. mail[l] \in MailTypes /\ mail[l].state = "sent"
          /\ mail[l].slug \in Slugs /\ mail[l].email \in Emails
      BY <2>1 DEF Entry!Expire, EntryInv
    <3>2. mail' = [mail EXCEPT ![l] = row]
      BY <2>1, Zenon DEF Entry!Expire
    <3>3. /\ row \in MailTypes /\ row.state = "expired"
          /\ row.slug = mail[l].slug /\ row.email = mail[l].email
      BY <3>1 DEF MailTypes
    <3> HIDE DEF row
    <3> QED
      BY <2>1, <3>1, <3>2, <3>3 DEF Entry!Expire
  <2>2. ASSUME NEW s \in Slugs, NEW e \in Emails, Entry!Solicitar(l, s, e)
        PROVE  \E row \in MailTypes :
                  /\ mail' = [mail EXCEPT ![l] = row]
                  /\ row.state \in {"sent", "expired"} /\ mail[l].state \in {"none", "sent"}
                  /\ row.slug \in Slugs /\ row.email \in Emails
                  /\ mail[l].state = "none" \/ row.email = mail[l].email
                  /\ UNCHANGED <<company, user, entering>>
    <3> DEFINE row == [state |-> "sent", slug |-> s, email |-> e]
    <3>1. row \in MailTypes
      BY DEF MailTypes
    <3> QED
      BY <2>2, <3>1 DEF Entry!Solicitar
  <2> QED
    BY <2>1, <2>2
<1>2. \A k \in Links : k # l => mail'[k] = mail[k]
  BY <1>1 DEF EntryInv
<1>3. mail' \in [Links -> MailTypes] /\ mail'[l].state # "used" /\ mail[l].state # "used"
  BY <1>1 DEF EntryInv
<1>4. ASSUME NEW x \in LoginCalls PROVE FromItsLink(entering[x])'
  <2>1. FromItsLink(entering[x])
    BY DEF EntryInv
  <2>2. entering'[x] = entering[x] /\ user' = user /\ mail'[l] = mail'[l]
    BY <1>1
  <2>3. mail'[l].state # "none" /\ (mail[l].state = "none" \/ mail'[l].email = mail[l].email)
    BY <1>1 DEF EntryInv
  <2> QED
    BY <1>2, <1>3, <2>1, <2>2, <2>3 DEF FromItsLink
<1>5. \A s \in Entry!Names, k \in Links : MadeFrom(s, k)' <=> MadeFrom(s, k)
  BY <1>1 DEF MadeFrom
<1>6. \A k \in Links : mail'[k].state # "none" => mail'[k].slug \in Slugs /\ mail'[k].email \in Emails
  BY <1>1, <1>2 DEF EntryInv
<1>7. \A k \in Links : mail'[k].state = "used" <=> mail[k].state = "used"
  BY <1>2, <1>3
<1> QED
  BY <1>1, <1>3, <1>4, <1>5, <1>6, <1>7 DEF EntryInv

\* What the users do with their e-mails, and a company with its own.
LEMMA PeopleKeeps ==
    ASSUME EntryInv, NEW e \in Emails,
           \/ Entry!Register(e)
           \/ Entry!DeleteUser(e)
           \/ \E f \in Emails : Entry!ChangeEmail(e, f)
           \/ \E s \in Entry!Names : Entry!ChangeContact(s, e)
    PROVE  EntryInv'
<1>1. ASSUME NEW state \in {"live", "deleted"}, user' = [user EXCEPT ![e] = state],
             UNCHANGED <<company, mail, entering>>
      PROVE  EntryInv'
  <2>1. user' \in [Emails -> {"free", "live", "deleted"}]
    BY <1>1 DEF EntryInv
  <2>2. \A g \in Emails : user[g] # "free" => user'[g] # "free"
    BY <1>1 DEF EntryInv
  <2>3. ASSUME NEW x \in LoginCalls PROVE FromItsLink(entering[x])'
    BY <1>1, <2>2 DEF EntryInv, FromItsLink
  <2> QED
    BY <1>1, <2>1, <2>3 DEF EntryInv, MadeFrom
<1>2. ASSUME NEW f \in Emails, Entry!ChangeEmail(e, f) PROVE EntryInv'
  <2>1. /\ user' = [user EXCEPT ![e] = "free", ![f] = "live"] /\ UNCHANGED <<company, mail>>
        /\ user[e] = "live" /\ user[f] = "free"
    BY <1>2 DEF Entry!ChangeEmail
  <2>2. /\ user' \in [Emails -> {"free", "live", "deleted"}]
        /\ \A g \in Emails : user[g] # "free" /\ g # e => user'[g] # "free"
    BY <2>1 DEF EntryInv
  <2>3. ASSUME NEW x \in LoginCalls
        PROVE  /\ entering'[x] \in EnteringTypes
               /\ \A k \in {"busy", "from", "slug", "email", "template", "imported"} :
                     entering'[x][k] = entering[x][k]
               /\ entering'[x].again <=>
                     entering[x].again \/ (entering[x].busy /\ entering[x].email = e)
    <3> DEFINE call == entering[x]
               again == call.again \/ (call.busy /\ call.email = e)
    <3>1. entering'[x] = [call EXCEPT !.again = again]
      BY <1>2, Zenon DEF Entry!ChangeEmail
    <3>2. call \in EnteringTypes /\ again \in BOOLEAN
      BY DEF EntryInv, EnteringTypes
    <3> HIDE DEF again
    <3>3. /\ [call EXCEPT !.again = again] \in EnteringTypes
          /\ [call EXCEPT !.again = again].again = again
          /\ \A k \in {"busy", "from", "slug", "email", "template", "imported"} :
                [call EXCEPT !.again = again][k] = call[k]
      BY <3>2 DEF EnteringTypes
    <3> QED
      BY <3>1, <3>3 DEF again
  <2>4. entering' \in [LoginCalls -> EnteringTypes]
    <3>1. entering' = [x \in LoginCalls |->
              [entering[x] EXCEPT !.again = @ \/ (entering[x].busy /\ entering[x].email = e)]]
      BY <1>2 DEF Entry!ChangeEmail
    <3> QED
      BY <2>3, <3>1, Zenon
  <2>5. ASSUME NEW x \in LoginCalls PROVE FromItsLink(entering[x])'
    <3>1. FromItsLink(entering[x])
      BY DEF EntryInv
    <3>2. /\ entering'[x].busy = entering[x].busy /\ entering'[x].from = entering[x].from
          /\ entering'[x].slug = entering[x].slug /\ entering'[x].email = entering[x].email
          /\ entering'[x].template = entering[x].template
          /\ entering'[x].imported = entering[x].imported
      BY <2>3
    <3>3. entering[x].again => entering'[x].again
      BY <2>3
    <3>4. entering[x].busy /\ entering[x].email = e => entering'[x].again
      BY <2>3
    <3> QED
      BY <2>1, <2>2, <3>1, <3>2, <3>3, <3>4 DEF FromItsLink
  <2> QED
    BY <2>1, <2>2, <2>4, <2>5 DEF EntryInv, MadeFrom
<1>3. ASSUME NEW s \in Entry!Names, Entry!ChangeContact(s, e) PROVE EntryInv'
  <2>1. /\ company' = [company EXCEPT ![s].contact = e]
        /\ UNCHANGED <<user, mail, entering>>
    BY <1>3 DEF Entry!ChangeContact
  <2>2. /\ [company[s] EXCEPT !.contact = e] \in CompanyTypes
        /\ \A k \in {"made", "admin", "from", "template", "again"} :
              [company[s] EXCEPT !.contact = e][k] = company[s][k]
    <3>1. company[s] \in CompanyTypes
      BY DEF EntryInv
    <3> QED
      BY <3>1 DEF CompanyTypes
  <2>3. /\ company' \in [Entry!Names -> CompanyTypes]
        /\ \A x \in Entry!Names, k \in {"made", "admin", "from", "template", "again"} :
              company'[x][k] = company[x][k]
    BY <2>1, <2>2 DEF EntryInv
  <2>4. \A x \in Entry!Names :
            /\ company'[x].made = company[x].made /\ company'[x].admin = company[x].admin
            /\ company'[x].from = company[x].from
            /\ company'[x].template = company[x].template
            /\ company'[x].again = company[x].again
    BY <2>3
  <2>5. ASSUME NEW x \in LoginCalls PROVE FromItsLink(entering[x])'
    BY <2>1 DEF EntryInv, FromItsLink
  <2> QED
    BY <2>1, <2>3, <2>4, <2>5 DEF EntryInv, MadeFrom
<1>4. CASE Entry!Register(e)
  BY <1>1, <1>4 DEF Entry!Register
<1>5. CASE Entry!DeleteUser(e)
  BY <1>1, <1>5 DEF Entry!DeleteUser
<1> QED
  BY <1>2, <1>3, <1>4, <1>5

\* Every step of the sign-ups.
LEMMA EntryKeeps == EntryInv /\ [Entry!SignupNext]_entryVars => EntryInv'
<1> SUFFICES ASSUME EntryInv, [Entry!SignupNext]_entryVars PROVE EntryInv'
  OBVIOUS
<1>1. CASE UNCHANGED entryVars
  <2>1. ASSUME NEW x, FromItsLink(x) PROVE FromItsLink(x)'
    BY <1>1, <2>1 DEF entryVars, FromItsLink
  <2> QED
    BY <1>1, <2>1 DEF entryVars, EntryInv, MadeFrom
<1>2. CASE Entry!SignupNext
  BY <1>2, AskingKeeps, ImportarKeeps, EnterKeeps, LinkKeeps, PeopleKeeps DEF Entry!SignupNext
<1> QED
  BY <1>1, <1>2

-----------------------------------------------------------------------------
(* The logins of a user.                                                   *)

Taken(t) == tokens[t].chain # 0

Child(t, p) == Taken(t) /\ tokens[t].parent = p

Refreshing(c, t) == User!Holds(c, "refresh") /\ logins[c].on = t

Resetting(c, l) == User!Holds(c, "reset") /\ logins[c].on = l

\* The rows are written in order, and a token has a successor or is live.
TokensInOrder ==
    /\ \A t \in User!Ids : ~Taken(t) => tokens[t] = User!NoToken
    /\ \E n \in 0..MaxTokens : \A t \in User!Ids : Taken(t) <=> t <= n
    /\ \A t \in User!Ids : tokens[t].parent \in User!Ids => Taken(tokens[t].parent)
    /\ \A p, t \in User!Ids : tokens[p].live => ~Child(t, p)

\* Two calls held the token, or one holds it that another has exchanged.
RefreshHeld ==
    /\ \A c \in LoginCalls : User!Holds(c, "refresh") =>
          \E p \in User!Ids : Refreshing(c, p) /\ Taken(p)
    /\ \A c, d \in LoginCalls, p \in User!Ids :
          c # d /\ Refreshing(c, p) /\ Refreshing(d, p) => <<"refresh", p>> \in overlapped
    /\ \A c \in LoginCalls, p, t \in User!Ids :
          Refreshing(c, p) /\ Child(t, p) => <<"refresh", p>> \in overlapped
    /\ \A p, t, u \in User!Ids :
          t # u /\ Child(t, p) /\ Child(u, p) => <<"refresh", p>> \in overlapped

ResetHeld ==
    /\ \A c \in LoginCalls : User!Holds(c, "reset") =>
          \E l \in Links : Resetting(c, l) /\ links[l].state # "none"
    /\ \A l \in Links : links[l].state # "used" => links[l].passwords = 0
    /\ \A c, d \in LoginCalls, l \in Links :
          c # d /\ Resetting(c, l) /\ Resetting(d, l) => <<"reset", l>> \in overlapped
    /\ \A c \in LoginCalls, l \in Links :
          Resetting(c, l) /\ links[l].passwords # 0 => <<"reset", l>> \in overlapped
    /\ \A l \in Links : links[l].passwords > 1 => <<"reset", l>> \in overlapped

\* What is live of an old password, or a call is about to exchange, outran it.
Outruns ==
    /\ \A t \in User!Ids :
          tokens[t].live /\ tokens[t].password # password => tokens[t].chain \in outran
    /\ \A c \in LoginCalls, t \in User!Ids :
          Refreshing(c, t) /\ tokens[t].password # password => tokens[t].chain \in outran

LoginInv == User!LoginTypeOK /\ TokensInOrder /\ RefreshHeld /\ ResetHeld /\ Outruns

\* Nobody has logged in.
LEMMA LoginStarts == User!LoginInit => LoginInv
<1> SUFFICES ASSUME User!LoginInit PROVE LoginInv
  OBVIOUS
<1>1. MaxTokens \in Nat
  BY LinksAssumption DEF User!LoginsAssumption
<1>2. User!NoToken \in User!TokenType
  BY <1>1 DEF User!NoToken, User!TokenType
<1>3. /\ \A t \in User!Ids : tokens[t] = User!NoToken
      /\ \A l \in Links : links[l] = [state |-> "none", passwords |-> 0]
      /\ \A c \in LoginCalls : logins[c] = NoLoginCall
  BY DEF User!LoginInit
<1>4. User!LoginTypeOK
  BY <1>2 DEF User!LoginInit, User!LoginTypeOK
<1>5. TokensInOrder
  BY <1>1, <1>3 DEF TokensInOrder, Taken, Child, User!NoToken, User!Ids
<1>6. RefreshHeld /\ ResetHeld /\ Outruns
  BY <1>3 DEF RefreshHeld, ResetHeld, Outruns, Refreshing, Resetting, User!Holds, Child, Taken,
              User!NoToken
<1> QED
  BY <1>4, <1>5, <1>6 DEF LoginInv

\* A Cardinality of the instance is that of the library.
LEMMA LoginCount == \A S : User!Cardinality(S) = Cardinality(S)
BY Zenon DEF User!Cardinality, Cardinality

\* The tokens issued are the first ones, and the next is not among them.
LEMMA NextIsFree ==
    ASSUME LoginInv
    PROVE  /\ User!Issued = {t \in User!Ids : Taken(t)}
           /\ User!NextId \in Nat \ {0}
           /\ \A t \in User!Ids : Taken(t) <=> t < User!NextId
<1>1. User!Issued = {t \in User!Ids : Taken(t)}
  BY DEF LoginInv, TokensInOrder, User!Issued, Taken, User!NoToken
<1>2. PICK n \in 0..MaxTokens : \A t \in User!Ids : Taken(t) <=> t <= n
  BY DEF LoginInv, TokensInOrder
<1>3. n \in Nat /\ MaxTokens \in Nat /\ n <= MaxTokens
  BY LinksAssumption DEF User!LoginsAssumption
<1>4. User!Issued = 1..n
  BY <1>1, <1>2, <1>3 DEF User!Ids
<1>5. Cardinality(1..n) = n
  BY <1>3, FS_Interval
<1>6. User!NextId = n + 1
  BY <1>4, <1>5, LoginCount DEF User!NextId
<1> QED
  BY <1>1, <1>2, <1>3, <1>6 DEF User!Ids

\* What the invariant says of a run.
LEMMA LoginSeen ==
    LoginInv => User!LoginTypeOK /\ User!SpentOnce /\ User!OldPasswordOut
<1> SUFFICES ASSUME LoginInv PROVE User!LoginTypeOK /\ User!SpentOnce /\ User!OldPasswordOut
  OBVIOUS
<1>1. User!OldPasswordOut
  BY NextIsFree DEF LoginInv, Outruns, User!OldPasswordOut, User!Live
<1>2. ASSUME NEW p \in User!Issued,
             User!Cardinality({t \in User!Issued : tokens[t].parent = p}) > 1
      PROVE  <<"refresh", p>> \in overlapped
  <2> DEFINE successors == {t \in User!Issued : tokens[t].parent = p}
  <2>1. Cardinality(successors) > 1
    BY <1>2, LoginCount
  <2>2. successors \subseteq User!Issued
    OBVIOUS
  <2> HIDE DEF successors
  <2>3. successors # {}
    BY <2>1, FS_EmptySet
  <2>4. ASSUME NEW t PROVE successors # {t}
    <3>1. Cardinality({t}) = 1
      BY FS_Singleton
    <3>2. 1 # 1 + 1 /\ ~(1 > 1)
      OBVIOUS
    <3> QED
      BY <2>1, <3>1, <3>2, Zenon
  <2>5. PICK t \in successors, u \in successors : t # u
    BY <2>3, <2>4
  <2> USE DEF successors
  <2> QED
    BY <2>2, <2>5, NextIsFree DEF LoginInv, RefreshHeld, Child
<1> QED
  BY <1>1, <1>2 DEF LoginInv, ResetHeld, User!SpentOnce

\* A call begins with what it reads live, or open.
LEMMA BeginKeeps ==
    ASSUME LoginInv, NEW c \in LoginCalls, NEW op \in {"login", "refresh", "change", "reset"},
           NEW on \in User!Ids \union Links \union {0}, User!Begin(c, op, on),
           op = "refresh" => on \in User!Ids /\ tokens[on].live,
           op = "reset" => on \in Links /\ links[on].state = "open"
    PROVE  LoginInv'
<1> DEFINE call == [op |-> op, on |-> on, password |-> IF op = "login" THEN password ELSE 0]
<1>1. /\ logins' = [logins EXCEPT ![c] = call] /\ logins[c] = NoLoginCall
      /\ UNCHANGED <<tokens, links, password, today, outran>>
  BY Zenon DEF User!Begin
<1>2. call \in User!CallType /\ call.op = op /\ call.on = on
  <2>1. password \in Nat
    BY DEF LoginInv, User!LoginTypeOK
  <2> QED
    BY <2>1 DEF User!CallType
<1> HIDE DEF call
<1>3. overlapped \subseteq overlapped'
  BY DEF User!Begin
<1>4. ASSUME NEW d \in LoginCalls, User!Holds(d, op), logins[d].on = on
      PROVE  <<op, on>> \in overlapped'
  BY <1>4 DEF User!Begin
<1>5. logins'[c] = call /\ \A d \in LoginCalls : d # c => logins'[d] = logins[d]
  BY <1>1 DEF LoginInv, User!LoginTypeOK
<1>6. User!LoginTypeOK'
  BY <1>1, <1>2 DEF LoginInv, User!LoginTypeOK
<1>7. TokensInOrder'
  BY <1>1 DEF LoginInv, TokensInOrder, Taken, Child
<1>8. /\ \A d \in LoginCalls : \A p : Refreshing(d, p)' /\ d # c => Refreshing(d, p)
      /\ \A d \in LoginCalls : \A l : Resetting(d, l)' /\ d # c => Resetting(d, l)
      /\ \A p : Refreshing(c, p)' => op = "refresh" /\ on = p
      /\ \A l : Resetting(c, l)' => op = "reset" /\ on = l
  BY <1>2, <1>5 DEF Refreshing, Resetting, User!Holds
<1>9. ASSUME NEW d \in LoginCalls, d # c
      PROVE  /\ User!Holds(d, "refresh")' => User!Holds(d, "refresh")
             /\ User!Holds(d, "reset")' => User!Holds(d, "reset")
             /\ \A p : Refreshing(d, p) => Refreshing(d, p)'
             /\ \A l : Resetting(d, l) => Resetting(d, l)'
  BY <1>5, <1>9 DEF User!Holds, Refreshing, Resetting
<1>10. op = "refresh" => Taken(on) /\ \A t \in User!Ids : ~Child(t, on)
  BY DEF LoginInv, TokensInOrder, User!NoToken
<1>11. RefreshHeld'
  <2>1. ASSUME NEW d \in LoginCalls, User!Holds(d, "refresh")'
        PROVE  \E p \in User!Ids : Refreshing(d, p)' /\ Taken(p)'
    <3>1. CASE d # c
      BY <1>1, <1>9, <2>1, <3>1 DEF LoginInv, RefreshHeld, Taken
    <3>2. CASE d = c
      BY <1>1, <1>2, <1>5, <1>10, <2>1, <3>2 DEF User!Holds, Refreshing, Taken
    <3> QED
      BY <3>1, <3>2
  <2>2. ASSUME NEW d \in LoginCalls, NEW e \in LoginCalls, NEW p \in User!Ids,
               d # e, Refreshing(d, p)', Refreshing(e, p)'
        PROVE  <<"refresh", p>> \in overlapped'
    <3>1. CASE d # c /\ e # c
      BY <1>3, <1>8, <2>2, <3>1 DEF LoginInv, RefreshHeld
    <3>2. CASE d = c
      BY <1>4, <1>8, <2>2, <3>2 DEF Refreshing
    <3>3. CASE e = c
      BY <1>4, <1>8, <2>2, <3>3 DEF Refreshing
    <3> QED
      BY <3>1, <3>2, <3>3
  <2>3. ASSUME NEW d \in LoginCalls, NEW p \in User!Ids, NEW t \in User!Ids,
               Refreshing(d, p)', Child(t, p)'
        PROVE  <<"refresh", p>> \in overlapped'
    BY <1>1, <1>3, <1>8, <1>10, <2>3 DEF LoginInv, RefreshHeld, Child, Taken
  <2>4. ASSUME NEW p \in User!Ids, NEW t \in User!Ids, NEW u \in User!Ids,
               t # u, Child(t, p)', Child(u, p)'
        PROVE  <<"refresh", p>> \in overlapped'
    BY <1>1, <1>3, <2>4 DEF LoginInv, RefreshHeld, Child, Taken
  <2> QED
    BY <2>1, <2>2, <2>3, <2>4 DEF RefreshHeld
<1>12. ResetHeld'
  <2>1. ASSUME NEW d \in LoginCalls, User!Holds(d, "reset")'
        PROVE  \E l \in Links : Resetting(d, l)' /\ links'[l].state # "none"
    <3>1. CASE d # c
      BY <1>1, <1>9, <2>1, <3>1 DEF LoginInv, ResetHeld
    <3>2. CASE d = c
      BY <1>1, <1>2, <1>5, <2>1, <3>2 DEF User!Holds, Resetting
    <3> QED
      BY <3>1, <3>2
  <2>2. ASSUME NEW d \in LoginCalls, NEW e \in LoginCalls, NEW l \in Links,
               d # e, Resetting(d, l)', Resetting(e, l)'
        PROVE  <<"reset", l>> \in overlapped'
    <3>1. CASE d # c /\ e # c
      BY <1>3, <1>8, <2>2, <3>1 DEF LoginInv, ResetHeld
    <3>2. CASE d = c
      BY <1>4, <1>8, <2>2, <3>2 DEF Resetting
    <3>3. CASE e = c
      BY <1>4, <1>8, <2>2, <3>3 DEF Resetting
    <3> QED
      BY <3>1, <3>2, <3>3
  <2>3. ASSUME NEW d \in LoginCalls, NEW l \in Links, Resetting(d, l)', links'[l].passwords # 0
        PROVE  <<"reset", l>> \in overlapped'
    BY <1>1, <1>3, <1>8, <2>3 DEF LoginInv, ResetHeld
  <2> QED
    BY <1>1, <1>3, <2>1, <2>2, <2>3 DEF LoginInv, ResetHeld
<1>13. Outruns'
  BY <1>1, <1>8 DEF LoginInv, Outruns
<1> QED
  BY <1>6, <1>7, <1>11, <1>12, <1>13 DEF LoginInv

\* A call is over, and nothing else: the invariant asks less.
LEMMA EndedLogin ==
    ASSUME LoginInv, NEW c \in LoginCalls, User!End(c)
    PROVE  /\ logins' \in [LoginCalls -> {NoLoginCall} \union User!CallType]
           /\ \A d \in LoginCalls : \A op : User!Holds(d, op)' => d # c /\ User!Holds(d, op)
           /\ \A d \in LoginCalls : \A t : Refreshing(d, t)' => d # c /\ Refreshing(d, t)
           /\ \A d \in LoginCalls : \A l : Resetting(d, l)' => d # c /\ Resetting(d, l)
           /\ \A d \in LoginCalls : d # c => logins'[d] = logins[d]
<1>1. /\ logins' = [logins EXCEPT ![c] = NoLoginCall]
      /\ logins \in [LoginCalls -> {NoLoginCall} \union User!CallType]
  BY DEF User!End, LoginInv, User!LoginTypeOK
<1>2. logins'[c] = NoLoginCall /\ \A d \in LoginCalls : d # c => logins'[d] = logins[d]
  BY <1>1
<1> QED
  BY <1>1, <1>2 DEF User!Holds, Refreshing, Resetting

\* Tokens are revoked at most: nothing else of their rows changes.
TokensKept ==
    /\ tokens' \in [User!Ids -> User!TokenType]
    /\ \A t \in User!Ids :
          /\ tokens'[t].chain = tokens[t].chain /\ tokens'[t].parent = tokens[t].parent
          /\ tokens'[t].password = tokens[t].password
          /\ tokens'[t].live => tokens[t].live
          /\ ~Taken(t) => tokens'[t] = User!NoToken

\* A row revoked is the row it was, but for that; a row not issued is the same.
LEMMA RevokedRow ==
    ASSUME LoginInv, NEW t \in User!Ids
    PROVE  LET row == [tokens[t] EXCEPT !.live = FALSE]
           IN  /\ row \in User!TokenType /\ ~row.live
               /\ row.chain = tokens[t].chain /\ row.parent = tokens[t].parent
               /\ row.password = tokens[t].password
               /\ ~Taken(t) => row = User!NoToken
<1>1. tokens[t] \in User!TokenType /\ (~Taken(t) => tokens[t] = User!NoToken)
  BY DEF LoginInv, TokensInOrder, User!LoginTypeOK
<1>2. [User!NoToken EXCEPT !.live = FALSE] = User!NoToken
  <2>1. ASSUME NEW row \in User!TokenType, row.live = FALSE
        PROVE  [row EXCEPT !.live = FALSE] = row
    <3> DEFINE same == [row EXCEPT !.live = FALSE]
    <3>1. /\ same \in User!TokenType
          /\ same.live = row.live
          /\ same.chain = row.chain /\ same.parent = row.parent
          /\ same.born = row.born /\ same.password = row.password
      BY <2>1 DEF User!TokenType
    <3> HIDE DEF same
    <3>2. same = row
      BY <3>1 DEF User!TokenType
    <3> QED
      BY <3>2 DEF same
  <2>2. User!NoToken \in User!TokenType /\ User!NoToken.live = FALSE
    BY LinksAssumption DEF User!NoToken, User!TokenType, User!LoginsAssumption
  <2> QED
    BY <2>1, <2>2
<1> QED
  BY <1>1, <1>2 DEF User!TokenType

\* Revoking disturbs neither the order nor who succeeds whom.
LEMMA KeptInOrder ==
    ASSUME LoginInv, TokensKept
    PROVE  /\ TokensInOrder'
           /\ \A t \in User!Ids : Taken(t)' <=> Taken(t)
           /\ \A t \in User!Ids : \A p : Child(t, p)' <=> Child(t, p)
<1>1. /\ \A t \in User!Ids : Taken(t)' <=> Taken(t)
      /\ \A t \in User!Ids : \A p : Child(t, p)' <=> Child(t, p)
  BY DEF TokensKept, Taken, Child
<1>2. \A t \in User!Ids : tokens'[t].parent \in User!Ids => Taken(tokens[t].parent)
  BY DEF TokensKept, LoginInv, TokensInOrder
<1>3. \A t \in User!Ids : ~Taken(t)' => tokens'[t] = User!NoToken
  BY <1>1 DEF TokensKept
<1>4. \E n \in 0..MaxTokens : \A t \in User!Ids : Taken(t)' <=> t <= n
  BY <1>1 DEF LoginInv, TokensInOrder
<1>5. \A p, t \in User!Ids : tokens'[p].live => ~Child(t, p)'
  BY <1>1 DEF TokensKept, LoginInv, TokensInOrder
<1>6. \A t \in User!Ids : tokens'[t].parent \in User!Ids => tokens'[tokens'[t].parent].chain # 0
  BY <1>2 DEF TokensKept, Taken
<1> QED
  BY <1>1, <1>3, <1>4, <1>5, <1>6 DEF TokensInOrder, Taken

\* Revoking every token, as the database does it.
LEMMA AllRevokedKept == LoginInv /\ tokens' = User!AllRevoked =>
                            TokensKept /\ \A t \in User!Ids : ~tokens'[t].live
BY RevokedRow DEF User!AllRevoked, TokensKept

\* Less is held, and the tokens are revoked at most.
LEMMA LessHeld ==
    ASSUME LoginInv, TokensKept, overlapped' = overlapped,
           \A d \in LoginCalls : \A t : Refreshing(d, t)' => Refreshing(d, t)
    PROVE  RefreshHeld'
<1>1. ASSUME NEW c \in LoginCalls, User!Holds(c, "refresh")'
      PROVE  \E p \in User!Ids : Refreshing(c, p)' /\ Taken(p)'
  <2>1. PICK p : Refreshing(c, p)'
    BY <1>1 DEF Refreshing
  <2>2. Refreshing(c, p)
    BY <2>1
  <2>3. p \in User!Ids /\ Taken(p)
    BY <2>2 DEF LoginInv, RefreshHeld, Refreshing
  <2> QED
    BY <2>1, <2>3, KeptInOrder
<1> QED
  BY <1>1, KeptInOrder DEF LoginInv, RefreshHeld

\* A reuse, an old token, a logout, and the closing of the other sessions.
LEMMA RevokingKeeps ==
    ASSUME LoginInv, NEW t \in User!Ids,
           User!Reuse(t) \/ User!RefreshAged(t) \/ User!Revoke(t) \/ User!RevokeOthers(t)
    PROVE  LoginInv'
<1>1. UNCHANGED <<links, password, logins, today, overlapped, outran>>
  BY DEF User!Reuse, User!RefreshAged, User!Revoke, User!RevokeOthers
<1>2. TokensKept
  <2>1. CASE User!Reuse(t)
    BY <2>1, AllRevokedKept DEF User!Reuse
  <2>2. CASE User!RefreshAged(t) \/ User!Revoke(t)
    <3>1. tokens' = [tokens EXCEPT ![t] = [tokens[t] EXCEPT !.live = FALSE]]
      BY <2>2, Zenon DEF User!RefreshAged, User!Revoke
    <3> QED
      BY <3>1, RevokedRow DEF TokensKept, LoginInv, User!LoginTypeOK, TokensInOrder
  <2>3. CASE User!RevokeOthers(t)
    <3>1. tokens' = [u \in User!Ids |-> IF u = t THEN tokens[u]
                                                 ELSE [tokens[u] EXCEPT !.live = FALSE]]
      BY <2>3 DEF User!RevokeOthers
    <3> QED
      BY <3>1, RevokedRow DEF TokensKept, LoginInv, User!LoginTypeOK, TokensInOrder
  <2> QED
    BY <2>1, <2>2, <2>3
<1>3. \A d \in LoginCalls : \A u : Refreshing(d, u)' <=> Refreshing(d, u)
  BY <1>1 DEF Refreshing, User!Holds
<1>4. RefreshHeld'
  BY <1>1, <1>2, <1>3, LessHeld
<1>5. ResetHeld'
  BY <1>1 DEF LoginInv, ResetHeld, Resetting, User!Holds
<1>6. Outruns'
  BY <1>1, <1>2, <1>3 DEF LoginInv, Outruns, TokensKept
<1>7. User!LoginTypeOK'
  BY <1>1, <1>2 DEF LoginInv, User!LoginTypeOK, TokensKept
<1> QED
  BY <1>2, <1>4, <1>5, <1>6, <1>7, KeptInOrder DEF LoginInv

\* A row is issued where the next one stands, as successor of one revoked by
\* then, and others are revoked at most.
Issuing(n) ==
    /\ tokens' \in [User!Ids -> User!TokenType]
    /\ tokens'[n].chain \in User!Ids
    /\ tokens'[n].parent \in User!Ids =>
           Taken(tokens'[n].parent) /\ ~tokens'[tokens'[n].parent].live
    /\ \A t \in User!Ids \ {n} :
          /\ tokens'[t].chain = tokens[t].chain /\ tokens'[t].parent = tokens[t].parent
          /\ tokens'[t].password = tokens[t].password
          /\ tokens'[t].live => tokens[t].live
          /\ ~Taken(t) => tokens'[t] = User!NoToken

\* Issuing keeps the order, and adds one token and one successor.
LEMMA IssuedInOrder ==
    ASSUME LoginInv, NEW n \in User!Ids, n = User!NextId, NEW parent,
           parent = tokens'[n].parent, Issuing(n)
    PROVE  /\ TokensInOrder' /\ ~Taken(n)
           /\ \A t \in User!Ids : Taken(t)' <=> Taken(t) \/ t = n
           /\ \A t, p \in User!Ids : Child(t, p)' <=> Child(t, p) \/ (t = n /\ p = parent)
<1>1. ~Taken(n) /\ \A t \in User!Ids : Taken(t) <=> t < n
  BY NextIsFree DEF User!Ids
<1>2. MaxTokens \in Nat /\ n \in 1..MaxTokens
  BY LinksAssumption DEF User!LoginsAssumption, User!Ids
<1>3. \A t \in User!Ids : Taken(t)' <=> Taken(t) \/ t = n
  BY <1>2 DEF Issuing, Taken, User!Ids
<1>4. \A t, p \in User!Ids : Child(t, p)' <=> Child(t, p) \/ (t = n /\ p = parent)
  BY <1>1, <1>3 DEF Issuing, Child
<1>5. \A t \in User!Ids : ~Taken(t)' => tokens'[t] = User!NoToken
  BY <1>3 DEF Issuing
<1>6. \E m \in 0..MaxTokens : \A t \in User!Ids : Taken(t)' <=> t <= m
  <2>1. \A t \in User!Ids : Taken(t)' <=> t <= n
    BY <1>1, <1>2, <1>3 DEF User!Ids
  <2>2. n \in 0..MaxTokens
    BY <1>2
  <2> QED
    BY <2>1, <2>2
<1>7. \A t \in User!Ids : tokens'[t].parent \in User!Ids => tokens'[tokens'[t].parent].chain # 0
  <2>1. ASSUME NEW t \in User!Ids, tokens'[t].parent \in User!Ids
        PROVE  Taken(tokens'[t].parent)
    <3>1. CASE t = n
      BY <2>1, <3>1 DEF Issuing
    <3>2. CASE t # n
      BY <2>1, <3>2 DEF Issuing, LoginInv, TokensInOrder
    <3> QED
      BY <3>1, <3>2
  <2>2. ASSUME NEW p \in User!Ids, Taken(p) PROVE tokens'[p].chain # 0
    BY <1>3, <2>2 DEF Taken
  <2> QED
    BY <2>1, <2>2
<1>8. ASSUME NEW p \in User!Ids, NEW t \in User!Ids, tokens'[p].live, Child(t, p)'
      PROVE  FALSE
  <2>1. CASE Child(t, p)
    <3>1. Taken(p)
      BY <2>1 DEF LoginInv, TokensInOrder, Child
    <3>2. tokens[p].live
      BY <1>1, <1>8, <3>1 DEF Issuing
    <3> QED
      BY <2>1, <3>2 DEF LoginInv, TokensInOrder
  <2>2. CASE t = n /\ p = parent
    BY <1>8, <2>2 DEF Issuing
  <2> QED
    BY <1>4, <1>8, <2>1, <2>2
<1> QED
  BY <1>1, <1>3, <1>4, <1>5, <1>6, <1>7, <1>8 DEF TokensInOrder, Taken

\* A login ends with the first token of a new chain.
LEMMA LoginKeeps ==
    ASSUME LoginInv, NEW c \in LoginCalls, User!LoginCommit(c)
    PROVE  LoginInv'
<1> DEFINE n == User!NextId
           new == [chain |-> n, parent |-> 0, live |-> TRUE, born |-> today,
                   password |-> logins[c].password]
<1>1. /\ User!Holds(c, "login") /\ n \in User!Ids /\ User!End(c)
      /\ tokens' = [tokens EXCEPT ![n] = new]
      /\ UNCHANGED <<links, password, today, overlapped>>
  BY DEF User!LoginCommit, User!Issue
<1>2. MaxTokens \in Nat
  BY LinksAssumption DEF User!LoginsAssumption
<1>3. logins[c].password \in Nat /\ today \in Nat
  BY <1>1 DEF LoginInv, User!LoginTypeOK, User!Holds, User!CallType
<1>4. new \in User!TokenType
  BY <1>1, <1>2, <1>3 DEF User!TokenType, User!Ids
<1>5. PICK m \in User!Ids : m = n
  BY <1>1
<1>6. tokens'[m] = new /\ \A t \in User!Ids \ {m} : tokens'[t] = tokens[t]
  BY <1>1, <1>5 DEF LoginInv, User!LoginTypeOK
<1>7. tokens' \in [User!Ids -> User!TokenType]
  BY <1>1, <1>4 DEF LoginInv, User!LoginTypeOK
<1>8. tokens'[m].parent = 0 /\ tokens'[m].chain = m /\ tokens'[m].password = logins[c].password
  BY <1>5, <1>6
<1>9. 0 \notin User!Ids
  BY DEF User!Ids
<1>10. Issuing(m)
  BY <1>6, <1>7, <1>8, <1>9 DEF Issuing, LoginInv, TokensInOrder
<1> HIDE DEF n, new
<1>11. /\ TokensInOrder' /\ ~Taken(m)
       /\ \A t \in User!Ids : Taken(t)' <=> Taken(t) \/ t = m
       /\ \A t, p \in User!Ids : Child(t, p)' <=> Child(t, p)
  BY <1>5, <1>8, <1>9, <1>10, IssuedInOrder DEF n
<1>12. RefreshHeld'
  <2>1. ASSUME NEW d \in LoginCalls, User!Holds(d, "refresh")'
        PROVE  \E p \in User!Ids : Refreshing(d, p)' /\ Taken(p)'
    <3>1. PICK p : Refreshing(d, p)'
      BY <2>1 DEF Refreshing
    <3>2. p \in User!Ids /\ Taken(p)
      BY <1>1, <3>1, EndedLogin DEF LoginInv, RefreshHeld, Refreshing
    <3> QED
      BY <1>11, <3>1, <3>2
  <2> QED
    BY <1>1, <1>11, <2>1, EndedLogin DEF LoginInv, RefreshHeld
<1>13. ResetHeld'
  <2>1. ASSUME NEW d \in LoginCalls, User!Holds(d, "reset")'
        PROVE  \E l \in Links : Resetting(d, l)' /\ links'[l].state # "none"
    <3>1. PICK l : Resetting(d, l)'
      BY <2>1 DEF Resetting
    <3>2. l \in Links /\ links[l].state # "none"
      BY <1>1, <3>1, EndedLogin DEF LoginInv, ResetHeld, Resetting
    <3> QED
      BY <1>1, <3>1, <3>2
  <2> QED
    BY <1>1, <2>1, EndedLogin DEF LoginInv, ResetHeld
<1>14. outran \subseteq outran' /\ (logins[c].password # password => m \in outran')
       /\ outran' \subseteq User!Ids
  BY <1>5 DEF User!LoginCommit, n, LoginInv, User!LoginTypeOK
<1>15. Outruns'
  <2>1. ASSUME NEW t \in User!Ids, tokens'[t].live, tokens'[t].password # password
        PROVE  tokens'[t].chain \in outran'
    BY <1>6, <1>8, <1>14, <2>1 DEF LoginInv, Outruns
  <2>2. ASSUME NEW d \in LoginCalls, NEW t \in User!Ids, Refreshing(d, t)',
               tokens'[t].password # password
        PROVE  tokens'[t].chain \in outran'
    <3>1. Refreshing(d, t)
      BY <1>1, <2>2, EndedLogin
    <3>2. Taken(t)
      BY <3>1 DEF LoginInv, RefreshHeld, Refreshing
    <3>3. t # m
      BY <1>11, <3>2
    <3> QED
      BY <1>6, <1>14, <2>2, <3>1, <3>3 DEF LoginInv, Outruns
  <2> QED
    BY <1>1, <2>1, <2>2 DEF Outruns
<1>16. User!LoginTypeOK'
  BY <1>1, <1>7, <1>14, EndedLogin DEF LoginInv, User!LoginTypeOK
<1> QED
  BY <1>11, <1>12, <1>13, <1>15, <1>16 DEF LoginInv

\* A call that ends leaves the links of the others as they were.
LEMMA ResetLeft ==
    ASSUME LoginInv, NEW c \in LoginCalls, User!End(c), links' = links, overlapped' = overlapped
    PROVE  ResetHeld'
<1>1. ASSUME NEW d \in LoginCalls, User!Holds(d, "reset")'
      PROVE  \E l \in Links : Resetting(d, l)' /\ links'[l].state # "none"
  <2>1. PICK l : Resetting(d, l)'
    BY <1>1 DEF Resetting
  <2>2. l \in Links /\ links[l].state # "none"
    BY <2>1, EndedLogin DEF LoginInv, ResetHeld, Resetting
  <2> QED
    BY <2>1, <2>2
<1> QED
  BY <1>1, EndedLogin DEF LoginInv, ResetHeld

\* A refresh ends with the next token, and the old one is revoked.
LEMMA RefreshKeeps ==
    ASSUME LoginInv, NEW c \in LoginCalls, User!RefreshCommit(c)
    PROVE  LoginInv'
<1>1. PICK old \in User!Ids : Refreshing(c, old) /\ Taken(old)
  BY DEF LoginInv, RefreshHeld, User!RefreshCommit
<1>2. PICK n \in User!Ids : n = User!NextId
  BY DEF User!RefreshCommit
<1> DEFINE new == [chain |-> tokens[old].chain, parent |-> old, live |-> TRUE,
                   born |-> today, password |-> tokens[old].password]
           issued == [tokens EXCEPT ![n] = new]
           revoked == [tokens[old] EXCEPT !.live = FALSE]
<1>3. /\ tokens' = [issued EXCEPT ![old] = [issued[old] EXCEPT !.live = FALSE]]
      /\ User!End(c) /\ UNCHANGED <<links, password, today, overlapped, outran>>
  BY <1>1, <1>2, Zenon DEF User!RefreshCommit, User!Issue, Refreshing
<1>4. n # old
  BY <1>1, <1>2, NextIsFree DEF User!Ids
<1>5. tokens \in [User!Ids -> User!TokenType] /\ today \in Nat /\ MaxTokens \in Nat
  BY LinksAssumption DEF LoginInv, User!LoginTypeOK, User!LoginsAssumption
<1>6. new \in User!TokenType /\ new.chain \in User!Ids
  BY <1>1, <1>5 DEF User!TokenType, User!Ids, Taken
<1>7. /\ revoked \in User!TokenType /\ ~revoked.live
      /\ revoked.chain = tokens[old].chain /\ revoked.parent = tokens[old].parent
      /\ revoked.password = tokens[old].password
  BY RevokedRow
<1>8. issued \in [User!Ids -> User!TokenType] /\ issued[n] = new
      /\ \A t \in User!Ids \ {n} : issued[t] = tokens[t]
  BY <1>5, <1>6
<1>9. new.parent = old /\ new.chain = tokens[old].chain /\ new.password = tokens[old].password
  OBVIOUS
<1> HIDE DEF new, issued, revoked
<1>10. tokens' = [issued EXCEPT ![old] = revoked]
  BY <1>3, <1>4, <1>8 DEF revoked
<1>11. /\ tokens' \in [User!Ids -> User!TokenType]
       /\ tokens'[n] = new /\ tokens'[old] = revoked
       /\ \A t \in User!Ids \ {n, old} : tokens'[t] = tokens[t]
  BY <1>4, <1>7, <1>8, <1>10
<1>12. /\ Issuing(n)
       /\ \A t \in User!Ids \ {n} :
             /\ tokens'[t].chain = tokens[t].chain
             /\ tokens'[t].password = tokens[t].password
             /\ tokens'[t].live => tokens[t].live
  BY <1>1, <1>4, <1>6, <1>7, <1>9, <1>11 DEF Issuing, LoginInv, TokensInOrder
<1>13. /\ TokensInOrder' /\ ~Taken(n)
       /\ \A t \in User!Ids : Taken(t)' <=> Taken(t) \/ t = n
       /\ \A t, p \in User!Ids : Child(t, p)' <=> Child(t, p) \/ (t = n /\ p = old)
  BY <1>2, <1>9, <1>11, <1>12, IssuedInOrder
<1>14. \A d \in LoginCalls : \A p : Refreshing(d, p)' =>
           d # c /\ Refreshing(d, p) /\ p \in User!Ids /\ Taken(p)
  BY <1>3, EndedLogin DEF LoginInv, RefreshHeld, Refreshing
<1>15. RefreshHeld'
  <2>1. ASSUME NEW d \in LoginCalls, User!Holds(d, "refresh")'
        PROVE  \E p \in User!Ids : Refreshing(d, p)' /\ Taken(p)'
    <3>1. PICK p : Refreshing(d, p)'
      BY <2>1 DEF Refreshing
    <3> QED
      BY <1>13, <1>14, <3>1
  <2>2. ASSUME NEW d \in LoginCalls, NEW p \in User!Ids, NEW t \in User!Ids,
               Refreshing(d, p)', Child(t, p)'
        PROVE  <<"refresh", p>> \in overlapped
    <3>1. CASE Child(t, p)
      BY <1>14, <2>2, <3>1 DEF LoginInv, RefreshHeld
    <3>2. CASE p = old
      BY <1>1, <1>14, <2>2, <3>2 DEF LoginInv, RefreshHeld
    <3> QED
      BY <1>13, <2>2, <3>1, <3>2
  <2>3. ASSUME NEW p \in User!Ids, NEW t \in User!Ids, NEW u \in User!Ids, t # u,
               Child(t, p)', Child(u, p)'
        PROVE  <<"refresh", p>> \in overlapped
    <3>1. CASE Child(t, p) /\ Child(u, p)
      BY <2>3, <3>1 DEF LoginInv, RefreshHeld
    <3>2. CASE p = old /\ (Child(t, p) \/ Child(u, p))
      BY <1>1, <3>2 DEF LoginInv, RefreshHeld
    <3> QED
      BY <1>13, <2>3, <3>1, <3>2
  <2>4. \A d, e \in LoginCalls, p \in User!Ids :
            d # e /\ Refreshing(d, p)' /\ Refreshing(e, p)' => <<"refresh", p>> \in overlapped
    BY <1>14 DEF LoginInv, RefreshHeld
  <2> QED
    BY <1>3, <2>1, <2>2, <2>3, <2>4 DEF RefreshHeld
<1>16. Outruns'
  <2>1. tokens[old].password # password => tokens[old].chain \in outran
    BY <1>1 DEF LoginInv, Outruns
  <2>2. ASSUME NEW t \in User!Ids, tokens'[t].live, tokens'[t].password # password
        PROVE  tokens'[t].chain \in outran
    <3>1. CASE t = n
      BY <1>9, <1>11, <2>1, <2>2, <3>1
    <3>2. CASE t # n
      BY <1>12, <2>2, <3>2 DEF LoginInv, Outruns
    <3> QED
      BY <3>1, <3>2
  <2>3. ASSUME NEW d \in LoginCalls, NEW t \in User!Ids, Refreshing(d, t)',
               tokens'[t].password # password
        PROVE  tokens'[t].chain \in outran
    <3>1. t # n /\ Refreshing(d, t)
      BY <1>13, <1>14, <2>3
    <3> QED
      BY <1>12, <2>3, <3>1 DEF LoginInv, Outruns
  <2> QED
    BY <1>3, <2>2, <2>3 DEF Outruns
<1>17. User!LoginTypeOK'
  BY <1>3, <1>11, EndedLogin DEF LoginInv, User!LoginTypeOK
<1>18. ResetHeld'
  BY <1>3, ResetLeft
<1> QED
  BY <1>13, <1>15, <1>16, <1>17, <1>18 DEF LoginInv

\* The new password closes what is live, and what outruns it is written down.
LEMMA PasswordSet ==
    ASSUME LoginInv, NEW c \in LoginCalls, User!SetPassword(c)
    PROVE  /\ TokensInOrder' /\ RefreshHeld' /\ Outruns'
           /\ tokens' \in [User!Ids -> User!TokenType] /\ password' \in Nat
           /\ outran' \subseteq User!Ids
<1>1. /\ password' = password + 1 /\ tokens' = User!AllRevoked /\ User!End(c)
      /\ outran' = outran \union User!Outrunning /\ overlapped' = overlapped
  BY DEF User!SetPassword
<1>2. TokensKept /\ \A t \in User!Ids : ~tokens'[t].live
  BY <1>1, AllRevokedKept
<1>3. TokensInOrder'
  BY <1>2, KeptInOrder
<1>4. \A d \in LoginCalls : \A t : Refreshing(d, t)' => Refreshing(d, t)
  BY <1>1, EndedLogin
<1>5. RefreshHeld'
  BY <1>1, <1>2, <1>4, LessHeld
<1>6. ASSUME NEW d \in LoginCalls, NEW t \in User!Ids, Refreshing(d, t)'
      PROVE  tokens'[t].chain \in outran'
  <2>1. User!Holds(d, "refresh") /\ logins[d].on = t
    BY <1>4, <1>6 DEF Refreshing
  <2>2. tokens[t].chain \in User!Outrunning
    BY <2>1 DEF User!Outrunning
  <2> QED
    BY <1>1, <1>2, <2>2 DEF TokensKept
<1>7. Outruns'
  BY <1>2, <1>6 DEF Outruns
<1>8. User!Outrunning \subseteq User!Ids
  <2>1. \A d \in LoginCalls : User!Holds(d, "refresh") =>
            logins[d].on \in User!Ids /\ Taken(logins[d].on)
    BY DEF LoginInv, RefreshHeld, Refreshing
  <2>2. \A t \in User!Ids : Taken(t) => tokens[t].chain \in User!Ids
    BY LinksAssumption DEF LoginInv, User!LoginTypeOK, User!TokenType, Taken, User!Ids,
                           User!LoginsAssumption
  <2> QED
    BY <2>1, <2>2 DEF User!Outrunning
<1> QED
  BY <1>1, <1>2, <1>3, <1>5, <1>7, <1>8 DEF TokensKept, LoginInv, User!LoginTypeOK

\* The password is changed by whoever knows it.
LEMMA ChangeKeeps ==
    ASSUME LoginInv, NEW c \in LoginCalls, User!ChangeCommit(c)
    PROVE  LoginInv'
<1>1. User!SetPassword(c) /\ User!End(c) /\ UNCHANGED <<links, today, overlapped>>
  BY DEF User!ChangeCommit, User!SetPassword
<1>2. ResetHeld'
  BY <1>1, ResetLeft
<1>3. User!LoginTypeOK'
  BY <1>1, PasswordSet, EndedLogin DEF LoginInv, User!LoginTypeOK
<1> QED
  BY <1>1, <1>2, <1>3, PasswordSet DEF LoginInv

\* What becomes of the links that nobody is using.
LEMMA SpentLinks ==
    ASSUME LoginInv
    PROVE  /\ User!AllSpent \in [Links -> [state : {"none", "open", "used"}, passwords : Nat]]
           /\ \A l \in Links :
                 /\ User!AllSpent[l].passwords = links[l].passwords
                 /\ User!AllSpent[l].state =
                        IF links[l].state = "open" THEN "used" ELSE links[l].state
<1>1. links \in [Links -> [state : {"none", "open", "used"}, passwords : Nat]]
  BY DEF LoginInv, User!LoginTypeOK
<1>2. ASSUME NEW row \in [state : {"none", "open", "used"}, passwords : Nat]
      PROVE  LET used == [row EXCEPT !.state = "used"]
             IN  /\ used \in [state : {"none", "open", "used"}, passwords : Nat]
                 /\ used.state = "used" /\ used.passwords = row.passwords
  OBVIOUS
<1> QED
  BY <1>1, <1>2 DEF User!AllSpent

\* A link is used: it sets the password, and every open link is spent with it.
LEMMA ResetKeeps ==
    ASSUME LoginInv, NEW c \in LoginCalls, User!ResetCommit(c)
    PROVE  LoginInv'
<1> DEFINE LinkTypes == [state : {"none", "open", "used"}, passwords : Nat]
<1>1. PICK on \in Links : Resetting(c, on) /\ links[on].state # "none"
  BY DEF LoginInv, ResetHeld, User!ResetCommit
<1> DEFINE row == [User!AllSpent[on] EXCEPT !.passwords = User!AllSpent[on].passwords + 1]
<1>2. links' = [User!AllSpent EXCEPT ![on] = row]
  BY <1>1, Zenon DEF User!ResetCommit, Resetting
<1>3. User!AllSpent \in [Links -> LinkTypes]
  BY SpentLinks
<1>4. /\ row \in LinkTypes /\ row.state = "used"
      /\ row.passwords = links[on].passwords + 1
  <2>1. /\ User!AllSpent[on] \in LinkTypes /\ User!AllSpent[on].state = "used"
        /\ User!AllSpent[on].passwords = links[on].passwords
    BY <1>1, <1>3, SpentLinks
  <2> QED
    BY <2>1
<1> HIDE DEF row
<1>5. /\ links' \in [Links -> LinkTypes]
      /\ links'[on].state = "used" /\ links'[on].passwords = links[on].passwords + 1
      /\ \A l \in Links : l # on => links'[l] = User!AllSpent[l]
  BY <1>2, <1>3, <1>4
<1>6. \A l \in Links : /\ links'[l].state # "open" /\ (links'[l].state = "none" => links[l].state = "none")
                       /\ l # on => links'[l].passwords = links[l].passwords
  BY <1>5, SpentLinks
<1>7. /\ User!SetPassword(c) /\ User!End(c) /\ UNCHANGED <<today, overlapped>>
      /\ \A l \in Links : links[l].passwords \in Nat
  BY DEF User!ResetCommit, User!SetPassword, LoginInv, User!LoginTypeOK
<1>8. \A d \in LoginCalls : \A l : Resetting(d, l)' =>
          d # c /\ Resetting(d, l) /\ l \in Links /\ links[l].state # "none"
  BY <1>7, EndedLogin DEF LoginInv, ResetHeld, Resetting
<1>9. ResetHeld'
  <2>1. ASSUME NEW d \in LoginCalls, User!Holds(d, "reset")'
        PROVE  \E l \in Links : Resetting(d, l)' /\ links'[l].state # "none"
    <3>1. PICK l : Resetting(d, l)'
      BY <2>1 DEF Resetting
    <3> QED
      BY <1>6, <1>8, <3>1
  <2>2. ASSUME NEW l \in Links, links'[l].state # "used" PROVE links'[l].passwords = 0
    BY <1>5, <1>6, <2>2, SpentLinks DEF LoginInv, ResetHeld
  <2>3. ASSUME NEW d \in LoginCalls, NEW l \in Links, Resetting(d, l)', links'[l].passwords # 0
        PROVE  <<"reset", l>> \in overlapped
    <3>1. CASE l = on
      BY <1>1, <1>8, <2>3, <3>1 DEF LoginInv, ResetHeld
    <3>2. CASE l # on
      BY <1>6, <1>8, <2>3, <3>2 DEF LoginInv, ResetHeld
    <3> QED
      BY <3>1, <3>2
  <2>4. ASSUME NEW l \in Links, links'[l].passwords > 1
        PROVE  <<"reset", l>> \in overlapped
    <3>1. CASE l = on
      <4>1. links[on].passwords # 0
        BY <1>5, <1>7, <2>4, <3>1
      <4> QED
        BY <1>1, <3>1, <4>1 DEF LoginInv, ResetHeld
    <3>2. CASE l # on
      BY <1>6, <2>4, <3>2 DEF LoginInv, ResetHeld
    <3> QED
      BY <3>1, <3>2
  <2>5. \A d, e \in LoginCalls, l \in Links :
            d # e /\ Resetting(d, l)' /\ Resetting(e, l)' => <<"reset", l>> \in overlapped
    BY <1>8 DEF LoginInv, ResetHeld
  <2> QED
    BY <1>7, <2>1, <2>2, <2>3, <2>4, <2>5 DEF ResetHeld
<1>10. User!LoginTypeOK'
  BY <1>5, <1>7, PasswordSet, EndedLogin DEF LoginInv, User!LoginTypeOK
<1> QED
  BY <1>7, <1>9, <1>10, PasswordSet DEF LoginInv

\* A link is asked for, and an invitation spends the others first.
LEMMA LinksKeep ==
    ASSUME LoginInv, NEW l \in Links, User!RequestReset(l) \/ User!Invite(l)
    PROVE  LoginInv'
<1> DEFINE LinkTypes == [state : {"none", "open", "used"}, passwords : Nat]
<1>1. UNCHANGED <<tokens, password, logins, today, overlapped, outran>> /\ links[l].state = "none"
  BY DEF User!RequestReset, User!Invite
<1>2. /\ links \in [Links -> LinkTypes] /\ User!AllSpent \in [Links -> LinkTypes]
      /\ links[l].passwords = 0
  BY <1>1, SpentLinks DEF LoginInv, User!LoginTypeOK, ResetHeld
<1>3. PICK base \in {links, User!AllSpent} :
          links' = [base EXCEPT ![l] = [base[l] EXCEPT !.state = "open"]]
  BY Zenon DEF User!RequestReset, User!Invite
<1>4. /\ base \in [Links -> LinkTypes] /\ base[l].passwords = 0
      /\ \A k \in Links : /\ base[k].passwords = links[k].passwords
                          /\ base[k].state \in {links[k].state, "used"}
                          /\ base[k].state = "none" => links[k].state = "none"
  BY <1>2, SpentLinks
<1> HIDE DEF LinkTypes
<1>5. /\ [base[l] EXCEPT !.state = "open"] \in LinkTypes
      /\ [base[l] EXCEPT !.state = "open"].state = "open"
      /\ [base[l] EXCEPT !.state = "open"].passwords = 0
  <2>1. base[l] \in LinkTypes
    BY <1>4
  <2> QED
    BY <1>4, <2>1 DEF LinkTypes
<1>6. /\ links' \in [Links -> LinkTypes]
      /\ links'[l].state = "open" /\ links'[l].passwords = 0
      /\ \A k \in Links : k # l => links'[k] = base[k]
  BY <1>3, <1>4, <1>5
<1>7. \A k \in Links : /\ links'[k].passwords = links[k].passwords
                       /\ links'[k].state = "none" => links[k].state = "none"
                       /\ links'[k].state # "used" => links'[k].passwords = 0
  BY <1>2, <1>4, <1>6 DEF LoginInv, ResetHeld
<1>8. \A d \in LoginCalls : \A k : (Resetting(d, k)' <=> Resetting(d, k))
                               /\ (Refreshing(d, k)' <=> Refreshing(d, k))
  BY <1>1 DEF Resetting, Refreshing, User!Holds
<1>9. ResetHeld'
  <2>1. ASSUME NEW d \in LoginCalls, User!Holds(d, "reset")'
        PROVE  \E k \in Links : Resetting(d, k)' /\ links'[k].state # "none"
    BY <1>1, <1>7, <1>8, <2>1 DEF LoginInv, ResetHeld, User!Holds
  <2> QED
    BY <1>1, <1>7, <1>8, <2>1 DEF LoginInv, ResetHeld
<1>10. RefreshHeld' /\ Outruns' /\ TokensInOrder'
  BY <1>1 DEF LoginInv, RefreshHeld, Outruns, TokensInOrder, Refreshing, User!Holds, Child, Taken
<1>11. User!LoginTypeOK'
  BY <1>1, <1>6 DEF LoginInv, User!LoginTypeOK, LinkTypes
<1> QED
  BY <1>9, <1>10, <1>11 DEF LoginInv

\* Every step of the logins.
LEMMA LoginsKeep == LoginInv /\ [User!LoginNext]_loginVars => LoginInv'
<1> SUFFICES ASSUME LoginInv, [User!LoginNext]_loginVars PROVE LoginInv'
  OBVIOUS
<1>1. CASE UNCHANGED loginVars
  BY <1>1 DEF loginVars, LoginInv, User!LoginTypeOK, TokensInOrder, RefreshHeld, ResetHeld,
              Outruns, Refreshing, Resetting, User!Holds, Child, Taken
<1>2. ASSUME NEW c \in LoginCalls, User!Abandon(c) PROVE LoginInv'
  <2>1. User!End(c) /\ UNCHANGED <<tokens, links, password, today, overlapped, outran>>
    BY <1>2 DEF User!Abandon
  <2>2. TokensKept
    BY <2>1 DEF TokensKept, LoginInv, User!LoginTypeOK, TokensInOrder
  <2>3. \A d \in LoginCalls : \A t : Refreshing(d, t)' => Refreshing(d, t)
    BY <2>1, EndedLogin
  <2>4. RefreshHeld' /\ ResetHeld' /\ TokensInOrder'
    BY <2>1, <2>2, <2>3, LessHeld, ResetLeft, KeptInOrder
  <2>5. Outruns'
    BY <2>1, <2>3 DEF LoginInv, Outruns
  <2>6. User!LoginTypeOK'
    BY <2>1, EndedLogin DEF LoginInv, User!LoginTypeOK
  <2> QED
    BY <2>4, <2>5, <2>6 DEF LoginInv
<1>3. CASE User!NextDay
  <2>1. today' = today + 1 /\ UNCHANGED <<tokens, links, password, logins, overlapped, outran>>
    BY <1>3 DEF User!NextDay
  <2> QED
    BY <2>1 DEF LoginInv, User!LoginTypeOK, TokensInOrder, RefreshHeld, ResetHeld,
                Outruns, Refreshing, Resetting, User!Holds, Child, Taken
<1>4. ASSUME NEW c \in LoginCalls, User!LoginRead(c) \/ User!ChangeRead(c) PROVE LoginInv'
  BY <1>4, BeginKeeps DEF User!LoginRead, User!ChangeRead
<1>5. ASSUME NEW c \in LoginCalls, NEW t \in User!Ids, User!RefreshRead(c, t) PROVE LoginInv'
  BY <1>5, BeginKeeps DEF User!RefreshRead, User!Live
<1>6. ASSUME NEW c \in LoginCalls, NEW l \in Links, User!ResetRead(c, l) PROVE LoginInv'
  BY <1>6, BeginKeeps DEF User!ResetRead
<1>7. CASE User!LoginNext
  BY <1>2, <1>3, <1>4, <1>5, <1>6, <1>7, LoginKeeps, RefreshKeeps, ChangeKeeps, ResetKeeps,
     RevokingKeeps, LinksKeep DEF User!LoginNext
<1> QED
  BY <1>1, <1>7

-----------------------------------------------------------------------------
(* The limits on requests.                                                 *)

\* The instance counts as the library does.
LEMMA RatesCount ==
    \A S : Rates!Cardinality(S) = Cardinality(S) /\ (Rates!IsFiniteSet(S) <=> IsFiniteSet(S))
BY Zenon DEF Rates!Cardinality, Cardinality, Rates!IsFiniteSet, IsFiniteSet

\* What is given of the limits, and the keys of a user and of a company.
LEMMA LimitsSay ==
    /\ IsFiniteSet(Hosts) /\ MaxKeys \in Nat /\ Span \in Nat /\ Span > 0
    /\ \A k \in Rates!Keys : Rates!LimitOf(k) \in Nat
    /\ Rates!ByAddress \in Rates!Keys
    /\ \A u \in Staff : /\ Rates!Voice(u)[1] = <<"voice_user", u>>
                        /\ Rates!Voice(u)[2] = <<"voice_tenant", CompanyOf[u]>>
                        /\ <<"voice_user", u>> \in Rates!Keys
                        /\ <<"voice_tenant", CompanyOf[u]>> \in Rates!Keys
<1>1. IsFiniteSet(Hosts) /\ MaxKeys \in Nat /\ Span \in Nat /\ Span > 0
  BY LimitsAssumption, RatesCount DEF Rates!RatesAssumption
<1>2. ASSUME NEW k \in Rates!Keys PROVE Rates!LimitOf(k) \in Nat
  <2>1. k[1] \in Rates!Policies
    BY DEF Rates!Keys, Rates!Policies
  <2> QED
    BY <2>1, LimitsAssumption DEF Rates!LimitOf, Rates!RatesAssumption
<1>3. Rates!ByAddress \in Rates!Keys
  BY DEF Rates!Keys, Rates!ByAddress
<1>4. ASSUME NEW u \in Staff
      PROVE  /\ Rates!Voice(u)[1] = <<"voice_user", u>>
             /\ Rates!Voice(u)[2] = <<"voice_tenant", CompanyOf[u]>>
             /\ <<"voice_user", u>> \in Rates!Keys
             /\ <<"voice_tenant", CompanyOf[u]>> \in Rates!Keys
  BY DEF Rates!Keys, Rates!Voice
<1> QED
  BY <1>1, <1>2, <1>3, <1>4

\* The least of a set of numbers is one of them, and no more than any.
LEMMA LeastNumber ==
    ASSUME NEW S \in SUBSET Nat, S # {}
    PROVE  Rates!Min(S) \in S /\ \A n \in S : Rates!Min(S) <= n
<1>1. PICK m \in S : \A n \in S : ~(<<n, m>> \in OpToRel(<, Nat))
  BY WFMin, NatLessThanWellFounded
<1>2. ASSUME NEW n \in S, ~ (m <= n) PROVE FALSE
  <2>1. <<n, m>> \in Nat \X Nat
    OBVIOUS
  <2>2. <<n, m>>[1] < <<n, m>>[2]
    BY <1>2
  <2>3. <<n, m>> \in OpToRel(<, Nat)
    BY <2>1, <2>2 DEF OpToRel
  <2> QED
    BY <1>1, <2>3
<1>3. \E x \in S : \A y \in S : x <= y
  BY <1>2
<1> QED
  BY <1>3 DEF Rates!Min

\* Where what is left of a bucket begins.
From(q, cut, f) ==
    /\ f \in 1 .. Len(q) + 1
    /\ \A i \in 1 .. f - 1 : q[i] <= cut
    /\ f <= Len(q) => q[f] > cut

\* There is one such place, and what is left is what follows it.
LEMMA AfterBegins ==
    ASSUME NEW q \in Seq(Nat), NEW cut \in Int
    PROVE  \E f \in Nat : From(q, cut, f) /\ Rates!After(q, cut) = SubSeq(q, f, Len(q))
<1> DEFINE S == {i \in 1 .. Len(q) + 1 : i <= Len(q) => q[i] > cut}
<1>1. S \in SUBSET Nat /\ Len(q) + 1 \in S
  OBVIOUS
<1>2. PICK f : f = Rates!Min(S)
  OBVIOUS
<1>3. f \in S /\ \A n \in S : f <= n
  <2> HIDE DEF S
  <2> QED
    BY <1>1, <1>2, LeastNumber
<1>4. ASSUME NEW i \in 1 .. f - 1 PROVE q[i] <= cut
  <2>1. i \in 1 .. Len(q) /\ q[i] \in Nat /\ ~ (f <= i)
    BY <1>3
  <2> QED
    BY <1>3, <2>1
<1>5. Rates!After(q, cut) = SubSeq(q, f, Len(q))
  BY <1>2 DEF Rates!After
<1> QED
  BY <1>3, <1>4, <1>5 DEF From

\* Wherever it begins, that is the place, and what is left follows from there.
LEMMA AfterIs ==
    ASSUME NEW q \in Seq(Nat), NEW cut \in Int, NEW f, From(q, cut, f)
    PROVE  /\ Rates!After(q, cut) = SubSeq(q, f, Len(q))
           /\ Rates!After(q, cut) \in Seq(Nat)
           /\ Len(Rates!After(q, cut)) = Len(q) + 1 - f
           /\ \A i \in 1 .. Len(Rates!After(q, cut)) : Rates!After(q, cut)[i] = q[f + i - 1]
<1>1. PICK g \in Nat : From(q, cut, g) /\ Rates!After(q, cut) = SubSeq(q, g, Len(q))
  BY AfterBegins
<1>2. f \in Nat /\ Len(q) \in Nat
  BY DEF From
<1>3. ~ (f < g)
  <2> SUFFICES ASSUME f < g PROVE FALSE
    OBVIOUS
  <2>1. f \in 1 .. g - 1 /\ f <= Len(q) /\ q[f] \in Nat
    BY <1>1, <1>2 DEF From
  <2> QED
    BY <1>1, <2>1 DEF From
<1>4. ~ (g < f)
  <2> SUFFICES ASSUME g < f PROVE FALSE
    OBVIOUS
  <2>1. g \in 1 .. f - 1 /\ g <= Len(q) /\ q[g] \in Nat
    BY <1>1, <1>2 DEF From
  <2> QED
    BY <1>1, <2>1 DEF From
<1>5. f = g
  BY <1>1, <1>2, <1>3, <1>4
<1>6. Rates!After(q, cut) = SubSeq(q, f, Len(q))
  BY <1>1, <1>5
<1>7. f \in 1 .. Len(q) + 1
  BY DEF From
<1>8. SubSeq(q, f, Len(q)) \in Seq(Nat) /\ Len(SubSeq(q, f, Len(q))) = Len(q) + 1 - f
      /\ \A i \in 1 .. Len(SubSeq(q, f, Len(q))) : SubSeq(q, f, Len(q))[i] = q[f + i - 1]
  BY <1>2, <1>7
<1> QED
  BY <1>6, <1>8

\* A bucket up to a moment: its times go up, and none is later.
Ascending(q, t) ==
    /\ q \in Seq(Nat)
    /\ \A i \in 1 .. Len(q) : q[i] <= t
    /\ \A i, j \in 1 .. Len(q) : i <= j => q[i] <= q[j]

\* What is left of what is left, and what one more adds to it.
LEMMA AfterTwice ==
    ASSUME NEW t \in Nat, NEW q, Ascending(q, t), NEW cut \in Int, NEW w, w = Rates!After(q, cut),
           NEW y \in Int, y >= cut
    PROVE  /\ Ascending(w, t) /\ Ascending(Append(w, t), t)
           /\ Len(Rates!After(w, y)) = Len(Rates!After(q, y))
           /\ Len(Rates!After(Append(w, t), y)) =
                 IF y < t THEN Len(Rates!After(q, y)) + 1 ELSE 0
<1>0. q \in Seq(Nat) /\ Len(q) \in Nat
  BY DEF Ascending
<1>1. PICK f \in Nat : From(q, cut, f)
  BY <1>0, AfterBegins
<1>2. /\ w \in Seq(Nat) /\ Len(w) = Len(q) + 1 - f
      /\ \A i \in 1 .. Len(w) : w[i] = q[f + i - 1] /\ f + i - 1 \in 1 .. Len(q)
      /\ f >= 1 /\ f <= Len(q) + 1
  <2>1. f \in 1 .. Len(q) + 1
    BY <1>1 DEF From
  <2>2. w \in Seq(Nat) /\ Len(w) = Len(q) + 1 - f
    BY <1>0, <1>1, AfterIs
  <2>3. ASSUME NEW i \in 1 .. Len(w) PROVE w[i] = q[f + i - 1] /\ f + i - 1 \in 1 .. Len(q)
    <3>1. i \in 1 .. Len(q) + 1 - f
      BY <2>2
    <3>2. w[i] = q[f + i - 1]
      <4>1. w = SubSeq(q, f, Len(q))
        BY <1>0, <1>1, AfterIs
      <4> QED
        BY <1>0, <2>1, <3>1, <4>1
    <3>3. f + i - 1 \in 1 .. Len(q)
      BY <1>0, <2>1, <3>1
    <3> QED
      BY <3>2, <3>3
  <2>4. f >= 1 /\ f <= Len(q) + 1
    BY <1>0, <2>1
  <2> QED
    BY <2>2, <2>3, <2>4
<1>3. Ascending(w, t)
  <2>1. ASSUME NEW i \in 1 .. Len(w) PROVE w[i] <= t
    BY <1>2 DEF Ascending
  <2>2. ASSUME NEW i \in 1 .. Len(w), NEW j \in 1 .. Len(w), i <= j PROVE w[i] <= w[j]
    <3>1. f + i - 1 \in 1 .. Len(q) /\ f + j - 1 \in 1 .. Len(q)
      BY <1>2
    <3>2. f + i - 1 <= f + j - 1
      BY <1>0, <1>2, <2>2
    <3>3. q[f + i - 1] <= q[f + j - 1]
      BY <3>1, <3>2 DEF Ascending
    <3> QED
      BY <1>2, <3>3
  <2> QED
    BY <1>2, <2>1, <2>2 DEF Ascending
<1>4. PICK v : v = Append(w, t)
  OBVIOUS
<1>5. /\ v \in Seq(Nat) /\ Len(v) = Len(w) + 1 /\ v[Len(w) + 1] = t
      /\ \A i \in 1 .. Len(w) : v[i] = w[i] /\ w[i] \in Nat
  BY <1>2, <1>4
<1>6. Ascending(v, t)
  <2>0. Len(w) \in Nat
    BY <1>2
  <2>1. ASSUME NEW i \in 1 .. Len(v) PROVE v[i] <= t /\ (i # Len(v) => i \in 1 .. Len(w))
    <3>1. CASE i = Len(w) + 1
      BY <1>5, <2>0, <3>1
    <3>2. CASE i # Len(w) + 1
      <4>1. i \in 1 .. Len(w)
        BY <1>5, <2>0, <3>2
      <4> QED
        BY <1>3, <1>5, <4>1 DEF Ascending
    <3> QED
      BY <3>1, <3>2
  <2>2. ASSUME NEW i \in 1 .. Len(v), NEW j \in 1 .. Len(v), i <= j PROVE v[i] <= v[j]
    <3>1. CASE j = Len(v)
      BY <1>5, <2>0, <2>1, <3>1
    <3>2. CASE j # Len(v)
      <4>1. i # Len(v) /\ j \in 1 .. Len(w)
        BY <1>5, <2>0, <2>1, <2>2, <3>2
      <4>2. i \in 1 .. Len(w)
        BY <2>1, <4>1
      <4>3. w[i] <= w[j]
        BY <1>3, <2>2, <4>1, <4>2 DEF Ascending
      <4> QED
        BY <1>5, <4>1, <4>2, <4>3
    <3> QED
      BY <3>1, <3>2
  <2> QED
    BY <1>5, <2>1, <2>2 DEF Ascending
<1>7. ASSUME NEW x \in Int, x >= cut
      PROVE  /\ Len(Rates!After(w, x)) = Len(Rates!After(q, x))
             /\ Len(Rates!After(v, x)) = IF x < t THEN Len(Rates!After(q, x)) + 1 ELSE 0
  <2>1. PICK g \in Nat : From(q, x, g)
    BY <1>0, AfterBegins
  <2>2. g \in 1 .. Len(q) + 1 /\ (\A i \in 1 .. g - 1 : q[i] <= x) /\ (g <= Len(q) => q[g] > x)
    BY <2>1 DEF From
  <2>3. f <= g
    <3> SUFFICES ASSUME g < f PROVE FALSE
      BY <1>1, <2>1
    <3>1. g \in 1 .. f - 1 /\ g <= Len(q) /\ q[g] \in Nat
      BY <1>0, <1>2, <2>2
    <3>2. q[g] <= cut /\ q[g] > x
      BY <1>1, <2>2, <3>1 DEF From
    <3> QED
      BY <1>7, <3>1, <3>2
  <2>4. From(w, x, g + 1 - f)
    <3>1. g + 1 - f \in 1 .. Len(w) + 1
      BY <1>2, <2>2, <2>3
    <3>2. ASSUME NEW i \in 1 .. (g + 1 - f) - 1 PROVE w[i] <= x /\ i \in 1 .. Len(w)
      <4>1. i \in 1 .. Len(w)
        BY <1>2, <3>1
      <4>2. f + i - 1 \in 1 .. g - 1
        BY <1>2, <2>2, <2>3
      <4>3. q[f + i - 1] <= x
        BY <2>2, <4>2
      <4> QED
        BY <1>2, <4>1, <4>3
    <3>3. ASSUME g + 1 - f <= Len(w) PROVE w[g + 1 - f] > x /\ g + 1 - f \in 1 .. Len(w)
      <4>1. g + 1 - f \in 1 .. Len(w)
        BY <3>1, <3>3
      <4>2. w[g + 1 - f] = q[f + (g + 1 - f) - 1]
        BY <1>2, <4>1
      <4>3. f + (g + 1 - f) - 1 = g /\ g <= Len(q)
        BY <1>0, <1>2, <3>3
      <4> QED
        BY <2>2, <4>1, <4>2, <4>3
    <3> QED
      BY <3>1, <3>2, <3>3 DEF From
  <2>5. Len(Rates!After(q, x)) = Len(q) + 1 - g
    BY <1>0, <2>1, AfterIs
  <2>6. Len(Rates!After(w, x)) = Len(w) + 1 - (g + 1 - f)
    BY <1>2, <2>4, AfterIs
  <2>7. CASE x < t
    <3>1. From(v, x, g + 1 - f)
      <4>1. g + 1 - f \in 1 .. Len(v) + 1
        BY <1>2, <1>5, <2>2, <2>3
      <4>2. ASSUME NEW i \in 1 .. (g + 1 - f) - 1 PROVE v[i] <= x
        <5>1. i \in 1 .. Len(w)
          BY <1>2, <2>2, <2>3
        <5>2. w[i] <= x
          BY <2>4 DEF From
        <5> QED
          BY <1>5, <5>1, <5>2
      <4>3. g + 1 - f <= Len(v) => v[g + 1 - f] > x
        <5>1. CASE g + 1 - f = Len(w) + 1
          BY <1>5, <2>7, <5>1
        <5>2. CASE g + 1 - f # Len(w) + 1
          <6>1. g + 1 - f \in 1 .. Len(w)
            <7>1. Len(w) \in Nat /\ g + 1 - f \in 1 .. Len(w) + 1
              BY <1>2, <2>4 DEF From
            <7> QED
              BY <5>2, <7>1
          <6>2. w[g + 1 - f] > x
            BY <2>4, <6>1 DEF From
          <6> QED
            BY <1>5, <6>1, <6>2
        <5> QED
          BY <5>1, <5>2
      <4> QED
        BY <4>1, <4>2, <4>3 DEF From
    <3>2. Len(Rates!After(v, x)) = Len(v) + 1 - (g + 1 - f)
      BY <1>5, <3>1, AfterIs
    <3> QED
      BY <1>2, <1>5, <2>2, <2>5, <2>6, <2>7, <3>2
  <2>8. CASE ~ (x < t)
    <3>1. From(v, x, Len(v) + 1)
      <4>1. \A i \in 1 .. Len(v) : v[i] <= x
        BY <1>6, <2>8 DEF Ascending
      <4> QED
        BY <1>5, <4>1 DEF From
    <3>2. Len(Rates!After(v, x)) = Len(v) + 1 - (Len(v) + 1)
      BY <1>5, <3>1, AfterIs
    <3> QED
      BY <1>2, <1>5, <2>2, <2>5, <2>6, <2>8, <3>2
  <2> QED
    BY <2>7, <2>8
<1> QED
  BY <1>3, <1>4, <1>6, <1>7

\* The same of what is left by its name.
LEMMA LeftAgain ==
    ASSUME NEW t \in Nat, NEW q, Ascending(q, t), NEW cut \in Int, NEW y \in Int, y >= cut
    PROVE  /\ Ascending(Rates!After(q, cut), t)
           /\ Len(Rates!After(Rates!After(q, cut), y)) = Len(Rates!After(q, y))
<1>1. PICK w : w = Rates!After(q, cut)
  OBVIOUS
<1>2. /\ Ascending(w, t) /\ Len(Rates!After(w, y)) = Len(Rates!After(q, y))
      /\ Len(Rates!After(Append(w, t), y)) = IF y < t THEN Len(Rates!After(q, y)) + 1 ELSE 0
  BY <1>1, AfterTwice
<1> QED
  BY <1>1, <1>2

\* And with one more at the end.
LEMMA LeftWithOne ==
    ASSUME NEW t \in Nat, NEW q, Ascending(q, t), NEW cut \in Int, NEW y \in Int, y >= cut
    PROVE  /\ Ascending(Append(Rates!After(q, cut), t), t)
           /\ Len(Rates!After(Append(Rates!After(q, cut), t), y)) =
                 IF y < t THEN Len(Rates!After(q, y)) + 1 ELSE 0
<1>1. PICK w : w = Rates!After(q, cut)
  OBVIOUS
<1>2. /\ Ascending(Append(w, t), t)
      /\ Len(Rates!After(Append(w, t), y)) = IF y < t THEN Len(Rates!After(q, y)) + 1 ELSE 0
  BY <1>1, AfterTwice
<1> QED
  BY <1>1, <1>2

\* Nothing is left of a bucket whose last one is old.
LEMMA NoneAfter ==
    ASSUME NEW t \in Nat, NEW q, Ascending(q, t), NEW cut \in Int, NEW x \in Int, x >= cut,
           q = <<>> \/ q[Len(q)] <= cut
    PROVE  Len(Rates!After(q, x)) = 0
<1>1. q \in Seq(Nat) /\ Len(q) \in Nat
  BY DEF Ascending
<1>2. \A i \in 1 .. Len(q) : q[i] <= x
  <2> TAKE i \in 1 .. Len(q)
  <2>1. Len(q) \in 1 .. Len(q) /\ i <= Len(q) /\ q # <<>>
    BY <1>1
  <2>2. q[i] <= q[Len(q)] /\ q[i] \in Nat /\ q[Len(q)] \in Nat
    BY <1>1, <2>1 DEF Ascending
  <2> QED
    BY <2>1, <2>2
<1>3. From(q, x, Len(q) + 1)
  BY <1>1, <1>2 DEF From
<1> QED
  BY <1>1, <1>3, AfterIs

-----------------------------------------------------------------------------
\* How many of the times of a key are later than a moment.
Left(b, k, x) == IF k \in DOMAIN b THEN Len(Rates!After(b[k], x)) ELSE 0

\* What a process of its own keeps by a moment: room for its keys, their times
\* in order, and for every key as many left as were let through.
Tabled(b, t) ==
    /\ DOMAIN b \subseteq Rates!Keys /\ IsFiniteSet(DOMAIN b) /\ Cardinality(DOMAIN b) <= MaxKeys
    /\ \A k \in DOMAIN b : Ascending(b[k], t)

Counted(b, l, t) ==
    \A k \in Rates!Keys :
        /\ IsFiniteSet(l[k]) /\ Cardinality(l[k]) <= Rates!LimitOf(k)
        /\ \A e \in l[k] : e.at \in Nat /\ t - Span < e.at /\ e.at <= t
        /\ \A x \in Int : x >= t - Span =>
               Left(b, k, x) = Cardinality({e \in l[k] : e.at > x})

Tallied(b, l, t) == Tabled(b, t) /\ Counted(b, l, t)

\* The sweep drops no key of which something is left.
LEMMA SweptKeeps ==
    ASSUME moment \in Nat, NEW b, NEW l, Tallied(b, l, moment), NEW sweep
    PROVE  Tallied(Rates!Swept(b, sweep), l, moment)
<1>0. Span \in Nat /\ moment - Span \in Int /\ MaxKeys \in Nat
  BY LimitsSay
<1>1. PICK live : live = IF sweep \/ Rates!Cardinality(DOMAIN b) >= MaxKeys
                         THEN {k \in DOMAIN b : ~Rates!Stale(b[k])} ELSE DOMAIN b
  OBVIOUS
<1>2. PICK c : c = [k \in live |-> b[k]]
  OBVIOUS
<1>3. c = Rates!Swept(b, sweep)
  BY Zenon, <1>1, <1>2 DEF Rates!Swept
<1>4. live \subseteq DOMAIN b /\ \A k \in DOMAIN b : k \notin live => Rates!Stale(b[k])
  BY <1>1
<1>5. DOMAIN c = live /\ \A k \in live : c[k] = b[k]
  BY <1>2
<1>6. IsFiniteSet(live) /\ Cardinality(live) <= Cardinality(DOMAIN b)
      /\ Cardinality(live) \in Nat /\ Cardinality(DOMAIN b) \in Nat
  BY <1>4, FS_Subset, FS_CardinalityType DEF Tallied, Tabled
<1>7. Tabled(c, moment)
  <2>1. Cardinality(live) <= MaxKeys
    BY <1>0, <1>6 DEF Tallied, Tabled
  <2> QED
    BY <1>4, <1>5, <1>6, <2>1 DEF Tallied, Tabled
<1>8. ASSUME NEW k \in Rates!Keys, NEW x \in Int, x >= moment - Span
      PROVE  Left(c, k, x) = Left(b, k, x)
  <2>1. CASE k \in live
    BY <1>4, <1>5, <2>1 DEF Left
  <2>2. CASE k \in DOMAIN b /\ k \notin live
    <3>1. Ascending(b[k], moment) /\ Rates!Stale(b[k])
      BY <1>4, <2>2 DEF Tallied, Tabled
    <3>2. Len(Rates!After(b[k], x)) = 0
      BY <1>0, <1>8, <3>1, NoneAfter DEF Rates!Stale
    <3> QED
      BY <1>5, <2>2, <3>2 DEF Left
  <2>3. CASE k \notin DOMAIN b
    BY <1>4, <1>5, <2>3 DEF Left
  <2> QED
    BY <2>1, <2>2, <2>3
<1>9. Counted(c, l, moment)
  BY <1>8 DEF Tallied, Counted
<1> QED
  BY <1>3, <1>7, <1>9 DEF Tallied

\* Everything that was let through is left to count.
LEMMA AllCount ==
    ASSUME moment \in Nat, NEW b, NEW l, Tallied(b, l, moment), NEW k \in Rates!Keys
    PROVE  Left(b, k, moment - Span) = Cardinality(l[k])
<1>1. moment - Span \in Int
  BY LimitsSay
<1>2. {e \in l[k] : e.at > moment - Span} = l[k]
  BY DEF Tallied, Counted
<1>3. Left(b, k, moment - Span) = Cardinality({e \in l[k] : e.at > moment - Span})
  BY <1>1 DEF Tallied, Counted
<1> QED
  BY <1>2, <1>3

\* A key has room in the table, or is in it.
LEMMA RoomForOne ==
    ASSUME NEW b, Tabled(b, moment), NEW k \in Rates!Keys, NEW q, Ascending(q, moment),
           k \in DOMAIN b \/ Cardinality(DOMAIN b) < MaxKeys
    PROVE  Tabled(Rates!Put(b, k, q), moment)
<1>1. PICK c : c = Rates!Put(b, k, q)
  OBVIOUS
<1>2. DOMAIN c = DOMAIN b \union {k} /\ \A x \in DOMAIN c : c[x] = IF x = k THEN q ELSE b[x]
  BY <1>1 DEF Rates!Put
<1>3. IsFiniteSet(DOMAIN c) /\ Cardinality(DOMAIN b) \in Nat
      /\ Cardinality(DOMAIN c) =
            IF k \in DOMAIN b THEN Cardinality(DOMAIN b) ELSE Cardinality(DOMAIN b) + 1
  BY <1>2, FS_AddElement, FS_CardinalityType DEF Tabled
<1>4. Cardinality(DOMAIN c) <= MaxKeys
  BY <1>3, LimitsSay DEF Tabled
<1>5. DOMAIN c \subseteq Rates!Keys /\ \A x \in DOMAIN c : Ascending(c[x], moment)
  BY <1>2 DEF Tabled
<1> QED
  BY <1>1, <1>3, <1>4, <1>5 DEF Tabled

\* A check counts one more when it lets somebody through, and drops only what
\* is old when it does not.
LEMMA PermitirKeeps ==
    ASSUME moment \in Nat, NEW b, NEW l, Tallied(b, l, moment), DOMAIN l = Rates!Keys,
           NEW k \in Rates!Keys, NEW e, e.at = moment, e \notin l[k], NEW sweep, NEW s,
           s = [ok |-> TRUE, buckets |-> b, log |-> l]
    PROVE  \E ok \in BOOLEAN : \E c, m :
             /\ Rates!Permitir(s, k, e, sweep) = [ok |-> ok, buckets |-> c, log |-> m]
             /\ m = IF ok THEN [l EXCEPT ![k] = @ \union {e}] ELSE l
             /\ Tallied(c, m, moment)
<1>0. Span \in Nat /\ Span > 0 /\ moment - Span \in Int /\ MaxKeys \in Nat
      /\ Rates!LimitOf(k) \in Nat
  BY LimitsSay
<1>1. PICK a : a = Rates!Swept(b, sweep)
  OBVIOUS
<1>2. Tallied(a, l, moment)
  BY <1>1, SweptKeeps
<1>3. PICK q : q = IF k \in DOMAIN a THEN Rates!Window(a[k]) ELSE <<>>
  OBVIOUS
<1>4. Rates!Permitir(s, k, e, sweep) =
        IF k \notin DOMAIN a /\ Rates!Cardinality(DOMAIN a) >= MaxKeys
        THEN [s EXCEPT !.ok = FALSE, !.buckets = a]
        ELSE IF Len(q) >= Rates!LimitOf(k)
        THEN [s EXCEPT !.ok = FALSE, !.buckets = Rates!Put(a, k, q)]
        ELSE [s EXCEPT !.buckets = Rates!Put(a, k, Append(q, moment)),
                       !.log[k] = @ \union {e}]
  BY Zenon, <1>1, <1>3 DEF Rates!Permitir
<1>5. /\ Ascending(q, moment) /\ Ascending(Append(q, moment), moment)
      /\ Len(q) = Left(a, k, moment - Span)
      /\ \A x \in Int : x >= moment - Span =>
           /\ Len(Rates!After(q, x)) = Left(a, k, x)
           /\ Len(Rates!After(Append(q, moment), x)) =
                 IF x < moment THEN Left(a, k, x) + 1 ELSE 0
  <2>1. CASE k \in DOMAIN a
    <3>1. PICK z, cut : z = a[k] /\ cut = moment - Span
      OBVIOUS
    <3>2. Ascending(z, moment) /\ q = Rates!After(z, cut) /\ cut \in Int /\ cut < moment
      BY <1>0, <1>2, <1>3, <2>1, <3>1 DEF Tallied, Tabled, Rates!Window
    <3>3. Ascending(q, moment) /\ Ascending(Append(q, moment), moment)
      BY <3>2, LeftAgain, LeftWithOne, cut >= cut
    <3>4. ASSUME NEW x \in Int, x >= cut
          PROVE  /\ Len(Rates!After(q, x)) = Len(Rates!After(z, x))
                 /\ Len(Rates!After(Append(q, moment), x)) =
                       IF x < moment THEN Len(Rates!After(z, x)) + 1 ELSE 0
      <4>1. Len(Rates!After(Rates!After(z, cut), x)) = Len(Rates!After(z, x))
        BY <3>2, <3>4, LeftAgain
      <4>2. Len(Rates!After(Append(Rates!After(z, cut), moment), x)) =
               IF x < moment THEN Len(Rates!After(z, x)) + 1 ELSE 0
        BY <3>2, <3>4, LeftWithOne
      <4> QED
        BY <3>2, <4>1, <4>2
    <3>5. Len(Rates!After(z, cut)) = Len(q)
      BY <3>2
    <3> QED
      BY <2>1, <3>1, <3>2, <3>3, <3>4, <3>5 DEF Left
  <2>2. CASE k \notin DOMAIN a
    <3>1. q = <<>> /\ Ascending(q, moment)
      BY <1>3, <2>2 DEF Ascending
    <3>2. \A x \in Int : Len(Rates!After(q, x)) = 0
      BY <3>1, NoneAfter
    <3>3. PICK v : v = Append(q, moment)
      OBVIOUS
    <3>4. v \in Seq(Nat) /\ Len(v) = 1 /\ v[1] = moment
      BY <3>1, <3>3
    <3>5. Ascending(v, moment)
      BY <3>4 DEF Ascending
    <3>6. ASSUME NEW x \in Int
          PROVE  Len(Rates!After(v, x)) = IF x < moment THEN 1 ELSE 0
      <4>1. CASE x < moment
        <5>1. From(v, x, 1)
          BY <3>4, <4>1 DEF From
        <5> QED
          BY <3>4, <4>1, <5>1, AfterIs
      <4>2. CASE ~ (x < moment)
        BY <3>4, <3>5, <4>2, NoneAfter
      <4> QED
        BY <4>1, <4>2
    <3> QED
      BY <1>0, <2>2, <3>1, <3>2, <3>3, <3>5, <3>6 DEF Left
  <2> QED
    BY <2>1, <2>2
<1>6. Len(q) = Cardinality(l[k])
  BY <1>2, <1>5, AllCount
<1>7. CASE k \notin DOMAIN a /\ Rates!Cardinality(DOMAIN a) >= MaxKeys
  <2>1. Rates!Permitir(s, k, e, sweep) = [ok |-> FALSE, buckets |-> a, log |-> l]
    BY <1>4, <1>7
  <2> QED
    BY <1>2, <2>1
<1>8. CASE ~ (k \notin DOMAIN a /\ Rates!Cardinality(DOMAIN a) >= MaxKeys)
  <2>0. k \in DOMAIN a \/ Cardinality(DOMAIN a) < MaxKeys
    <3>1. Cardinality(DOMAIN a) \in Nat
      BY <1>2, FS_CardinalityType DEF Tallied, Tabled
    <3> QED
      BY <1>0, <1>8, <3>1, RatesCount
  <2>1. CASE Len(q) >= Rates!LimitOf(k)
    <3>1. PICK c : c = Rates!Put(a, k, q)
      OBVIOUS
    <3>2. Rates!Permitir(s, k, e, sweep) = [ok |-> FALSE, buckets |-> c, log |-> l]
      BY <1>4, <1>8, <2>1, <3>1
    <3>3. Tabled(c, moment)
      BY <1>2, <1>5, <2>0, <3>1, RoomForOne DEF Tallied
    <3>4. ASSUME NEW j \in Rates!Keys, NEW x \in Int, x >= moment - Span
          PROVE  Left(c, j, x) = Left(a, j, x)
      BY <1>5, <3>1, <3>4 DEF Left, Rates!Put
    <3>5. Counted(c, l, moment)
      BY <1>2, <3>4 DEF Tallied, Counted
    <3> QED
      BY <3>2, <3>3, <3>5 DEF Tallied
  <2>2. CASE ~ (Len(q) >= Rates!LimitOf(k))
    <3>1. PICK c, m : c = Rates!Put(a, k, Append(q, moment)) /\ m = [l EXCEPT ![k] = @ \union {e}]
      OBVIOUS
    <3>2. Rates!Permitir(s, k, e, sweep) = [ok |-> TRUE, buckets |-> c, log |-> m]
      BY <1>4, <1>8, <2>2, <3>1
    <3>3. Tabled(c, moment)
      BY <1>2, <1>5, <2>0, <3>1, RoomForOne DEF Tallied
    <3>4. ASSUME NEW j \in Rates!Keys
          PROVE  /\ IsFiniteSet(m[j]) /\ Cardinality(m[j]) <= Rates!LimitOf(j)
                 /\ \A d \in m[j] : d.at \in Nat /\ moment - Span < d.at /\ d.at <= moment
                 /\ \A x \in Int : x >= moment - Span =>
                       Left(c, j, x) = Cardinality({d \in m[j] : d.at > x})
      <4>0. Counted(a, l, moment)
        BY <1>2 DEF Tallied
      <4>1. CASE j # k
        <5>1. m[j] = l[j]
          BY <3>1, <4>1
        <5>2. \A x \in Int : Left(c, j, x) = Left(a, j, x)
          BY <3>1, <4>1 DEF Left, Rates!Put
        <5> QED
          BY <4>0, <5>1, <5>2 DEF Counted
      <4>2. CASE j = k
        <5>1. m[j] = l[k] \union {e}
          BY <3>1, <4>2
        <5>2. IsFiniteSet(l[k]) /\ Cardinality(l[k]) \in Nat
          BY <4>0, FS_CardinalityType DEF Counted
        <5>3. IsFiniteSet(m[j]) /\ Cardinality(m[j]) = Cardinality(l[k]) + 1
          BY <5>1, <5>2, FS_AddElement
        <5>4. Cardinality(m[j]) <= Rates!LimitOf(j)
          BY <1>0, <1>6, <2>2, <4>2, <5>2, <5>3
        <5>5. ASSUME NEW d \in m[j] PROVE d.at \in Nat /\ moment - Span < d.at /\ d.at <= moment
          <6>1. CASE d = e
            BY <1>0, <6>1
          <6>2. CASE d # e
            BY <4>0, <5>1, <6>2 DEF Counted
          <6> QED
            BY <6>1, <6>2
        <5>6. ASSUME NEW x \in Int, x >= moment - Span
              PROVE  Left(c, j, x) = Cardinality({d \in m[j] : d.at > x})
          <6>1. Left(c, j, x) = IF x < moment THEN Left(a, k, x) + 1 ELSE 0
            <7>1. Left(c, j, x) = Len(Rates!After(Append(q, moment), x))
              BY <3>1, <4>2 DEF Left, Rates!Put
            <7> QED
              BY <1>5, <5>6, <7>1
          <6>2. PICK D : D = {d \in l[k] : d.at > x}
            OBVIOUS
          <6>3. IsFiniteSet(D) /\ Cardinality(D) = Left(a, k, x) /\ Cardinality(D) \in Nat
                /\ e \notin D
            BY <4>0, <5>2, <5>6, <6>2, FS_Subset, FS_CardinalityType DEF Counted
          <6>4. CASE x < moment
            <7>1. {d \in m[j] : d.at > x} = D \union {e}
              BY <5>1, <6>2, <6>4
            <7>2. Cardinality(D \union {e}) = Cardinality(D) + 1
              BY <6>3, FS_AddElement
            <7> QED
              BY <6>1, <6>3, <6>4, <7>1, <7>2
          <6>5. CASE ~ (x < moment)
            <7>1. {d \in m[j] : d.at > x} = {}
              BY <5>5, <6>5
            <7> QED
              BY <6>1, <6>5, <7>1, FS_EmptySet
          <6> QED
            BY <6>4, <6>5
        <5> QED
          BY <5>3, <5>4, <5>5, <5>6
      <4> QED
        BY <4>1, <4>2
    <3>5. Counted(c, m, moment)
      BY <3>4 DEF Counted
    <3> QED
      BY <3>1, <3>2, <3>3, <3>5 DEF Tallied
  <2> QED
    BY <2>1, <2>2
<1> QED
  BY <1>7, <1>8

\* Who was let through at a moment is numbered up to how many they are.
Numbered(l, t) ==
    \A k \in Rates!Keys : k[1] # "voice_tenant" =>
        \A e \in l[k] : e.at = t => e.nth \in Nat /\ e.nth <= Cardinality(l[k])

\* The key of a user, and that of the company of a user.
OfUser(u) == <<"voice_user", u>>

OfCompany(u) == <<"voice_tenant", CompanyOf[u]>>

\* What a user draws from the company, the user has drawn from his own.
OwnFirst(l) == \A u \in Staff : \A e \in l[OfCompany(u)] : e.who = u => e \in l[OfUser(u)]

\* What a process of its own keeps.
MemoryKept(b, l, t) == Tallied(b, l, t) /\ Numbered(l, t) /\ OwnFirst(l)

\* The keys are not one another.
LEMMA KeysApart ==
    /\ Rates!ByAddress \in Rates!Keys /\ Rates!ByAddress[1] # "voice_tenant"
    /\ \A u \in Staff : /\ OfUser(u) \in Rates!Keys /\ OfCompany(u) \in Rates!Keys
                        /\ OfUser(u)[1] # "voice_tenant" /\ OfCompany(u)[1] = "voice_tenant"
                        /\ OfUser(u) # Rates!ByAddress /\ OfCompany(u) # Rates!ByAddress
                        /\ Rates!Voice(u)[1] = OfUser(u) /\ Rates!Voice(u)[2] = OfCompany(u)
                        /\ \A v \in Staff : OfUser(u) # OfCompany(v)
    /\ \A u, v \in Staff : OfUser(u) = OfUser(v) => u = v
BY LimitsSay DEF OfUser, OfCompany, Rates!ByAddress

\* The entry of a check that is its first is new.
LEMMA EntryIsNew ==
    ASSUME NEW l, NEW t \in Nat, Numbered(l, t), NEW k \in Rates!Keys, k[1] # "voice_tenant",
           IsFiniteSet(l[k]), NEW e, e.at = t, e.nth = Cardinality(l[k]) + 1
    PROVE  e \notin l[k]
<1>1. Cardinality(l[k]) \in Nat
  BY FS_CardinalityType
<1> QED
  BY <1>1 DEF Numbered

\* It is numbered as the rest are.
LEMMA NumberedOneMore ==
    ASSUME NEW l, NEW t \in Nat, Numbered(l, t), DOMAIN l = Rates!Keys, NEW k \in Rates!Keys,
           IsFiniteSet(l[k]), NEW e, e.at = t, e \notin l[k],
           k[1] # "voice_tenant" => e.nth = Cardinality(l[k]) + 1,
           NEW m, m = [l EXCEPT ![k] = @ \union {e}]
    PROVE  Numbered(m, t)
<1>1. Cardinality(l[k]) \in Nat /\ Cardinality(l[k] \union {e}) = Cardinality(l[k]) + 1
  BY FS_CardinalityType, FS_AddElement
<1>2. ASSUME NEW j \in Rates!Keys, j[1] # "voice_tenant", NEW d \in m[j], d.at = t
      PROVE  d.nth \in Nat /\ d.nth <= Cardinality(m[j])
  <2>1. CASE j # k
    <3>1. m[j] = l[j]
      BY <2>1
    <3> QED
      BY <1>2, <3>1 DEF Numbered
  <2>2. CASE j = k
    <3>1. m[j] = l[k] \union {e}
      BY <2>2
    <3>2. CASE d = e
      BY <1>1, <1>2, <2>2, <3>1, <3>2
    <3>3. CASE d # e
      <4>1. d.nth \in Nat /\ d.nth <= Cardinality(l[k])
        BY <1>2, <2>2, <3>1, <3>3 DEF Numbered
      <4> QED
        BY <1>1, <3>1, <4>1
    <3> QED
      BY <3>2, <3>3
  <2> QED
    BY <2>1, <2>2
<1> QED
  BY <1>2 DEF Numbered

\* The check of the address, in a process of its own.
LEMMA AddressKeeps ==
    ASSUME moment \in Nat, NEW b, NEW l, MemoryKept(b, l, moment), DOMAIN l = Rates!Keys,
           NEW e, e.at = moment, e.nth = Cardinality(l[Rates!ByAddress]) + 1, NEW sweep, NEW s,
           s = [ok |-> TRUE, buckets |-> b, log |-> l]
    PROVE  \E ok \in BOOLEAN : \E c, m :
             /\ Rates!Permitir(s, Rates!ByAddress, e, sweep) = [ok |-> ok, buckets |-> c, log |-> m]
             /\ DOMAIN m = Rates!Keys
             /\ MemoryKept(c, m, moment)
<1>1. PICK k : k = Rates!ByAddress
  OBVIOUS
<1>2. k \in Rates!Keys /\ k[1] # "voice_tenant"
      /\ \A u \in Staff : /\ k # OfUser(u) /\ k # OfCompany(u)
                          /\ OfUser(u) \in Rates!Keys /\ OfCompany(u) \in Rates!Keys
  BY <1>1, KeysApart
<1>3. IsFiniteSet(l[k])
  BY <1>2 DEF MemoryKept, Tallied, Counted
<1>4. e \notin l[k]
  BY <1>1, <1>2, <1>3, EntryIsNew DEF MemoryKept
<1>5a. PICK ok \in BOOLEAN : \E c, m :
        /\ Rates!Permitir(s, k, e, sweep) = [ok |-> ok, buckets |-> c, log |-> m]
        /\ m = IF ok THEN [l EXCEPT ![k] = @ \union {e}] ELSE l
        /\ Tallied(c, m, moment)
  BY <1>2, <1>4, PermitirKeeps DEF MemoryKept
<1>5. PICK c, m :
        /\ Rates!Permitir(s, k, e, sweep) = [ok |-> ok, buckets |-> c, log |-> m]
        /\ m = IF ok THEN [l EXCEPT ![k] = @ \union {e}] ELSE l
        /\ Tallied(c, m, moment)
  BY <1>5a
<1>6. Numbered(m, moment)
  BY <1>1, <1>2, <1>3, <1>4, <1>5, NumberedOneMore DEF MemoryKept
<1>7. OwnFirst(m)
  BY <1>2, <1>5 DEF MemoryKept, OwnFirst
<1>8. DOMAIN m = Rates!Keys
  BY <1>5
<1> QED
  BY <1>1, <1>5, <1>6, <1>7, <1>8 DEF MemoryKept

\* The two checks of a transcription, in a process of its own.
LEMMA VoiceKeeps ==
    ASSUME moment \in Nat, NEW b, NEW l, MemoryKept(b, l, moment), DOMAIN l = Rates!Keys,
           NEW u \in Staff, NEW e, e.at = moment, e.who = u,
           e.nth = Cardinality(l[OfUser(u)]) + 1, NEW sweep, NEW s,
           s = [ok |-> TRUE, buckets |-> b, log |-> l],
           NEW z, z = Rates!Permitir(s, OfUser(u), e, sweep),
           NEW y, y = IF z.ok THEN Rates!Permitir(z, OfCompany(u), e, sweep) ELSE z
    PROVE  /\ DOMAIN y.log = Rates!Keys
           /\ MemoryKept(y.buckets, y.log, moment)
<1>1. PICK k, o : k = OfUser(u) /\ o = OfCompany(u)
  OBVIOUS
<1>2. /\ k \in Rates!Keys /\ o \in Rates!Keys /\ k # o
      /\ k[1] # "voice_tenant" /\ o[1] = "voice_tenant"
      /\ \A v \in Staff : /\ OfUser(v) = k => u = v
                          /\ OfUser(v) # o /\ OfUser(v) \in Rates!Keys
                          /\ OfCompany(v) # k /\ OfCompany(v) \in Rates!Keys
  BY <1>1, KeysApart
<1>3. IsFiniteSet(l[k]) /\ IsFiniteSet(l[o])
  BY <1>2 DEF MemoryKept, Tallied, Counted
<1>4. e \notin l[k]
  BY <1>1, <1>2, <1>3, EntryIsNew DEF MemoryKept
<1>5. e \notin l[o]
  BY <1>1, <1>4 DEF MemoryKept, OwnFirst
<1>6a. PICK ok \in BOOLEAN : \E c, m :
        /\ z = [ok |-> ok, buckets |-> c, log |-> m]
        /\ m = IF ok THEN [l EXCEPT ![k] = @ \union {e}] ELSE l
        /\ Tallied(c, m, moment)
  BY <1>1, <1>2, <1>4, PermitirKeeps DEF MemoryKept
<1>6. PICK c, m :
        /\ z = [ok |-> ok, buckets |-> c, log |-> m]
        /\ m = IF ok THEN [l EXCEPT ![k] = @ \union {e}] ELSE l
        /\ Tallied(c, m, moment)
  BY <1>6a
<1>7. Numbered(m, moment) /\ DOMAIN m = Rates!Keys
  <2>1. Numbered(m, moment)
    BY <1>1, <1>2, <1>3, <1>4, <1>6, NumberedOneMore DEF MemoryKept
  <2> QED
    BY <1>6, <2>1
<1>8. OwnFirst(m)
  BY <1>1, <1>2, <1>6 DEF MemoryKept, OwnFirst
<1>9. CASE ~ ok
  BY <1>6, <1>7, <1>8, <1>9 DEF MemoryKept
<1>10. CASE ok
  <2>1. m[k] = l[k] \union {e} /\ m[o] = l[o]
    BY <1>2, <1>6, <1>10
  <2>2. z = [ok |-> TRUE, buckets |-> c, log |-> m] /\ e \notin m[o]
    BY <1>5, <1>6, <1>10, <2>1
  <2>3a. PICK ok2 \in BOOLEAN : \E c2, m2 :
          /\ Rates!Permitir(z, o, e, sweep) = [ok |-> ok2, buckets |-> c2, log |-> m2]
          /\ m2 = IF ok2 THEN [m EXCEPT ![o] = @ \union {e}] ELSE m
          /\ Tallied(c2, m2, moment)
    <3>1. Tallied(c, m, moment) /\ o \in Rates!Keys /\ DOMAIN m = Rates!Keys
      BY <1>2, <1>6, <1>7
    <3> QED
      BY <2>2, <3>1, PermitirKeeps
  <2>3. PICK c2, m2 :
          /\ Rates!Permitir(z, o, e, sweep) = [ok |-> ok2, buckets |-> c2, log |-> m2]
          /\ m2 = IF ok2 THEN [m EXCEPT ![o] = @ \union {e}] ELSE m
          /\ Tallied(c2, m2, moment)
    BY <2>3a
  <2>4. y = [ok |-> ok2, buckets |-> c2, log |-> m2]
    BY <1>1, <2>2, <2>3
  <2>5. Numbered(m2, moment)
    BY <1>2, <1>3, <1>7, <2>1, <2>2, <2>3, NumberedOneMore
  <2>6. OwnFirst(m2)
    <3>1. ASSUME NEW v \in Staff, NEW d \in m2[OfCompany(v)], d.who = v
          PROVE  d \in m2[OfUser(v)]
      <4>1. m2[OfUser(v)] = m[OfUser(v)]
        BY <1>2, <1>7, <2>3
      <4>2. CASE d \in m[OfCompany(v)]
        BY <1>8, <3>1, <4>1, <4>2 DEF OwnFirst
      <4>3. CASE d \notin m[OfCompany(v)]
        <5>1. d = e
          BY <1>2, <1>7, <2>3, <3>1, <4>3
        <5>2. v = u /\ OfUser(v) = k
          BY <1>1, <3>1, <5>1
        <5> QED
          BY <2>1, <4>1, <5>1, <5>2
      <4> QED
        BY <4>2, <4>3
    <3> QED
      BY <3>1 DEF OwnFirst
  <2>7. DOMAIN m2 = Rates!Keys
    BY <1>7, <2>3
  <2>8. y.log = m2 /\ y.buckets = c2
    BY <2>4
  <2> QED
    BY <2>3, <2>5, <2>6, <2>7, <2>8 DEF MemoryKept
<1> QED
  BY <1>9, <1>10

\* Time takes from the log what leaves the window.
LEMMA TickTallied ==
    ASSUME NEW t \in Nat, NEW b, NEW l, MemoryKept(b, l, t),
           NEW m, \A k \in Rates!Keys : m[k] = {e \in l[k] : e.at > t + 1 - Span}
    PROVE  MemoryKept(b, m, t + 1)
<1>0. Span \in Nat /\ Span > 0 /\ t + 1 \in Nat /\ t + 1 - Span \in Int
  BY LimitsSay
<1>1. Tabled(b, t + 1)
  <2>1. ASSUME NEW k \in DOMAIN b PROVE Ascending(b[k], t + 1)
    <3>1. PICK q : q = b[k]
      OBVIOUS
    <3>2. Ascending(q, t)
      BY <3>1 DEF MemoryKept, Tallied, Tabled
    <3>3. ASSUME NEW i \in 1 .. Len(q) PROVE q[i] <= t + 1
      <4>1. q[i] \in Nat /\ q[i] <= t
        BY <3>2 DEF Ascending
      <4> QED
        BY <4>1
    <3>4. Ascending(q, t + 1)
      BY <3>2, <3>3 DEF Ascending
    <3> QED
      BY <3>1, <3>4
  <2> QED
    BY <2>1 DEF MemoryKept, Tallied, Tabled
<1>2. PICK v : v = t + 1
  OBVIOUS
<1>3. Counted(b, l, t) /\ v \in Nat /\ v - Span \in Int /\ v - Span > t - Span
  BY <1>0, <1>2 DEF MemoryKept, Tallied
<1>4. ASSUME NEW k \in Rates!Keys
      PROVE  m[k] = {e \in l[k] : e.at > v - Span}
  <2>1. PICK w : w = t + 1 - Span
    OBVIOUS
  <2>2. w = v - Span
    BY <1>0, <1>2, <2>1
  <2>3. m[k] = {e \in l[k] : e.at > w}
    BY <2>1
  <2> QED
    BY <2>2, <2>3
<1>5. ASSUME NEW k \in Rates!Keys
      PROVE  /\ IsFiniteSet(m[k]) /\ Cardinality(m[k]) <= Rates!LimitOf(k)
             /\ m[k] \subseteq l[k]
  <2>1. IsFiniteSet(l[k]) /\ Cardinality(l[k]) <= Rates!LimitOf(k) /\ Rates!LimitOf(k) \in Nat
    BY <1>3, LimitsSay DEF Counted
  <2>2. m[k] \subseteq l[k]
    BY <1>4
  <2>3. IsFiniteSet(m[k]) /\ Cardinality(m[k]) <= Cardinality(l[k])
        /\ Cardinality(m[k]) \in Nat /\ Cardinality(l[k]) \in Nat
    BY <2>1, <2>2, FS_Subset, FS_CardinalityType
  <2> QED
    BY <2>1, <2>2, <2>3
<1>6. ASSUME NEW k \in Rates!Keys, NEW e \in m[k]
      PROVE  e.at \in Nat /\ v - Span < e.at /\ e.at <= v /\ e.at # v
  <2>1. e.at \in Nat /\ e.at <= t /\ e.at > v - Span
    BY <1>3, <1>4 DEF Counted
  <2> QED
    BY <1>2, <2>1
<1>7. ASSUME NEW k \in Rates!Keys, NEW x \in Int, x >= v - Span
      PROVE  Left(b, k, x) = Cardinality({e \in m[k] : e.at > x})
  <2>1. \A e \in l[k] : e.at \in Nat
    BY <1>3 DEF Counted
  <2>2. {e \in m[k] : e.at > x} = {e \in l[k] : e.at > x}
    BY <1>3, <1>4, <1>7, <2>1
  <2>3. x >= t - Span
    BY <1>0, <1>3, <1>7
  <2>4. Left(b, k, x) = Cardinality({e \in l[k] : e.at > x})
    BY <1>3, <2>3 DEF Counted
  <2> QED
    BY <2>2, <2>4
<1>8. Counted(b, m, v)
  BY <1>5, <1>6, <1>7 DEF Counted
<1>9. Numbered(m, v)
  BY <1>6 DEF Numbered
<1>10. OwnFirst(m)
  <2>1. ASSUME NEW u \in Staff, NEW e \in m[OfCompany(u)], e.who = u
        PROVE  e \in m[OfUser(u)]
    <3>1. OfCompany(u) \in Rates!Keys /\ OfUser(u) \in Rates!Keys
      BY KeysApart
    <3>2. e \in l[OfCompany(u)] /\ e.at > v - Span
      BY <1>4, <3>1
    <3>3. e \in l[OfUser(u)]
      BY <2>1, <3>2 DEF MemoryKept, OwnFirst
    <3> QED
      BY <1>4, <3>1, <3>2, <3>3
  <2> QED
    BY <2>1 DEF OwnFirst
<1> QED
  BY <1>1, <1>2, <1>8, <1>9, <1>10 DEF MemoryKept, Tallied

\* The instance adds up as Sums does.
LEMMA RatesSums == \A f, D : Rates!SumFunctionOnSet(f, D) = SumFunctionOnSet(f, D)
BY Zenon DEF Rates!SumFunctionOnSet, SumFunctionOnSet, Rates!FoldFunctionOnSet, FoldFunctionOnSet,
             Rates!MapThenFoldSet, MapThenFoldSet

\* A count up to the limit of its key.
Upto(n, k) == IF n <= Rates!LimitOf(k) THEN n ELSE Rates!LimitOf(k)

\* The processes that share Redis.
Sharing == {h \in Hosts : mode[h] = "redis"}

\* How many each process that shares let through, and how many of those it
\* counted itself.
Lets(k) == [h \in Sharing |-> Cardinality(log[h][k])]

Falls(k) == [h \in Hosts |-> Upto(fallback[h][k], k)]

\* Those that share let through no more than the counters say.
SharedKept ==
    \A k \in Rates!Keys :
        /\ \A h \in Sharing : /\ IsFiniteSet(log[h][k])
                             /\ \A e \in log[h][k] : e.at = Rates!Fixed(moment)
        /\ SumFunctionOnSet(Lets(k), Sharing)
              <= Upto(shared[k], k) + SumFunctionOnSet(Falls(k), Hosts)

\* A count of one more is one more of those within the limit, when it is within.
LEMMA OneMoreUpto ==
    ASSUME NEW k \in Rates!Keys, NEW n \in Nat
    PROVE  /\ Rates!Incremented(n, k) \in Nat
           /\ Upto(n, k) \in Nat /\ Upto(n, k) <= Rates!LimitOf(k)
           /\ Upto(Rates!Incremented(n, k), k) \in Nat
           /\ Upto(n, k) <= Upto(Rates!Incremented(n, k), k)
           /\ Rates!Incremented(n, k) <= Rates!LimitOf(k) =>
                  Upto(Rates!Incremented(n, k), k) = Upto(n, k) + 1
<1>1. Rates!LimitOf(k) \in Nat
  BY LimitsSay
<1> QED
  BY <1>1 DEF Rates!Incremented, Upto

\* Those that share are finitely many.
LEMMA SharingFinite == IsFiniteSet(Sharing) /\ Sharing \subseteq Hosts
BY LimitsSay, FS_Subset DEF Sharing

\* The types of the counters and of the tables.
CountersOK ==
    /\ moment \in Nat
    /\ mode \in [Hosts -> {"memory", "redis"}]
    /\ shared \in [Rates!Keys -> Nat]
    /\ fallback \in [Hosts -> [Rates!Keys -> Nat]]
    /\ DOMAIN buckets = Hosts
    /\ DOMAIN log = Hosts /\ \A h \in Hosts : DOMAIN log[h] = Rates!Keys

\* What is being checked is of a user, and something is left of it.
CheckingOK ==
    /\ DOMAIN checking = Slots
    /\ \A r \in Slots : checking[r] # NoRequest =>
           /\ checking[r] = [host |-> checking[r].host, user |-> checking[r].user,
                             left |-> checking[r].left]
           /\ checking[r].host \in Hosts /\ checking[r].user \in Staff
           /\ checking[r].left \in Seq(Rates!Keys) /\ checking[r].left # <<>>

\* The inductive invariant of the limits.
LimitsInv ==
    /\ CountersOK /\ CheckingOK /\ SharedKept
    /\ \A h \in Hosts : IF mode[h] = "memory" THEN MemoryKept(buckets[h], log[h], moment)
                       ELSE buckets[h] = <<>>

\* A request counted in Redis, or by the process that did not hear from it.
LEMMA CountKeeps ==
    ASSUME CountersOK, SharedKept, NEW h \in Sharing, NEW k \in Rates!Keys,
           NEW answer \in {"counted", "lost", "down"},
           Rates!Count(h, k, answer)
    PROVE  CountersOK' /\ SharedKept'
<1>0. h \in Hosts /\ IsFiniteSet(Sharing) /\ Sharing \subseteq Hosts /\ IsFiniteSet(Hosts)
  BY SharingFinite, LimitsSay
<1>1. /\ moment' = moment /\ mode' = mode /\ buckets' = buckets
      /\ shared' = IF answer = "down" THEN shared
                   ELSE [shared EXCEPT ![k] = Rates!Incremented(shared[k], k)]
      /\ fallback' = IF answer = "counted" THEN fallback
                     ELSE [fallback EXCEPT ![h][k] = Rates!Incremented(fallback[h][k], k)]
  BY DEF Rates!Count
<1>2. PICK e : /\ e.at = Rates!Fixed(moment)
               /\ log' = IF Rates!Passed(h, k, answer)
                         THEN [log EXCEPT ![h][k] = @ \union {e}] ELSE log
  <2>1. PICK e : e = Rates!Entry(h, k, Rates!Fixed(moment), "anyone")
    OBVIOUS
  <2>2. e.at = Rates!Fixed(moment)
    BY <2>1 DEF Rates!Entry
  <2> QED
    BY <2>1, <2>2 DEF Rates!Count
<1>3. shared[k] \in Nat /\ fallback[h][k] \in Nat
      /\ Rates!Incremented(shared[k], k) \in Nat /\ Rates!Incremented(fallback[h][k], k) \in Nat
  BY <1>0, OneMoreUpto DEF CountersOK
<1>4. CountersOK'
  <2>1. shared' \in [Rates!Keys -> Nat]
    BY <1>1, <1>3 DEF CountersOK
  <2>2. fallback' \in [Hosts -> [Rates!Keys -> Nat]]
    BY <1>1, <1>3 DEF CountersOK
  <2>3. DOMAIN log' = Hosts /\ \A g \in Hosts : DOMAIN log'[g] = Rates!Keys
    BY <1>2 DEF CountersOK
  <2> QED
    BY <1>1, <2>1, <2>2, <2>3 DEF CountersOK
<1>5. Sharing' = Sharing
  BY <1>1 DEF Sharing
<1>6. ASSUME NEW g \in Sharing, NEW j \in Rates!Keys
      PROVE  /\ IsFiniteSet(log'[g][j])
             /\ \A d \in log'[g][j] : d.at = Rates!Fixed(moment)
             /\ Cardinality(log[g][j]) \in Nat /\ Cardinality(log'[g][j]) \in Nat
             /\ g # h \/ j # k \/ ~Rates!Passed(h, k, answer) => log'[g][j] = log[g][j]
             /\ Cardinality(log'[g][j]) <= Cardinality(log[g][j]) + 1
  <2>0. IsFiniteSet(log[g][j]) /\ (\A d \in log[g][j] : d.at = Rates!Fixed(moment))
        /\ Cardinality(log[g][j]) \in Nat /\ g \in Hosts
    BY <1>0, FS_CardinalityType DEF SharedKept
  <2>1. CASE g # h \/ j # k \/ ~Rates!Passed(h, k, answer)
    <3>1. log'[g][j] = log[g][j]
      BY <1>2, <2>0, <2>1 DEF CountersOK
    <3> QED
      BY <2>0, <3>1
  <2>2. CASE ~ (g # h \/ j # k \/ ~Rates!Passed(h, k, answer))
    <3>1. log'[g][j] = log[g][j] \union {e}
      BY <1>2, <2>0, <2>2 DEF CountersOK
    <3>2. IsFiniteSet(log[g][j] \union {e})
          /\ Cardinality(log[g][j] \union {e}) <= Cardinality(log[g][j]) + 1
          /\ Cardinality(log[g][j] \union {e}) \in Nat
      <4>1. PICK D : D = log[g][j]
        OBVIOUS
      <4>2. IsFiniteSet(D \union {e}) /\ Cardinality(D) \in Nat
            /\ Cardinality(D \union {e}) =
                  IF e \in D THEN Cardinality(D) ELSE Cardinality(D) + 1
        BY <2>0, <4>1, FS_AddElement
      <4> QED
        BY <4>1, <4>2
    <3> QED
      BY <1>2, <2>0, <2>2, <3>1, <3>2
  <2> QED
    BY <2>1, <2>2
<1>7. ASSUME NEW j \in Rates!Keys
      PROVE  SumFunctionOnSet(Lets(j), Sharing)'
               <= Upto(shared'[j], j) + SumFunctionOnSet(Falls(j), Hosts)'
  <2>1. PICK f, f1 : f = Lets(j) /\ f1 = [g \in Sharing |-> Cardinality(log'[g][j])]
    OBVIOUS
  <2>2. PICK w, w1 : w = Falls(j) /\ w1 = [g \in Hosts |-> Upto(fallback'[g][j], j)]
    OBVIOUS
  <2>3. Lets(j)' = f1 /\ Falls(j)' = w1
    BY <1>5, <2>1, <2>2 DEF Lets, Falls
  <2>4. SumFunctionOnSet(f, Sharing) <= Upto(shared[j], j) + SumFunctionOnSet(w, Hosts)
    BY <2>1, <2>2 DEF SharedKept
  <2>5. \A g \in Sharing : f[g] \in Nat /\ f1[g] \in Nat /\ f1[g] <= f[g] + 1
                         /\ (g # h \/ j # k \/ ~Rates!Passed(h, k, answer) => f1[g] = f[g])
    BY <1>6, <2>1 DEF Lets
  <2>6. shared[j] \in Nat /\ Upto(shared[j], j) \in Nat /\ shared'[j] \in Nat
        /\ Upto(shared'[j], j) \in Nat /\ Upto(shared[j], j) <= Upto(shared'[j], j)
    <3>1. shared[j] \in Nat /\ shared'[j] \in Nat
      BY <1>4 DEF CountersOK
    <3>2. shared'[j] = shared[j] \/ shared'[j] = Rates!Incremented(shared[j], j)
      BY <1>1 DEF CountersOK
    <3> QED
      BY <3>1, <3>2, OneMoreUpto
  <2>7. ASSUME NEW g \in Hosts
        PROVE  /\ w[g] \in Nat /\ w1[g] \in Nat /\ w[g] <= w1[g]
               /\ g # h \/ j # k \/ answer = "counted" => w1[g] = w[g]
    <3>1. fallback[g][j] \in Nat /\ fallback'[g][j] \in Nat
      BY <1>4 DEF CountersOK
    <3>2. \/ fallback'[g][j] = fallback[g][j]
          \/ /\ fallback'[g][j] = Rates!Incremented(fallback[g][j], j)
             /\ g = h /\ j = k /\ answer # "counted"
      BY <1>1 DEF CountersOK
    <3>3. w[g] = Upto(fallback[g][j], j) /\ w1[g] = Upto(fallback'[g][j], j)
      BY <2>2 DEF Falls
    <3> QED
      BY <3>1, <3>2, <3>3, OneMoreUpto
  <2>8. /\ SumFunctionOnSet(f, Sharing) \in Nat /\ SumFunctionOnSet(f1, Sharing) \in Nat
        /\ SumFunctionOnSet(w, Hosts) \in Nat /\ SumFunctionOnSet(w1, Hosts) \in Nat
        /\ SumFunctionOnSet(w, Hosts) <= SumFunctionOnSet(w1, Hosts)
    BY <1>0, <2>5, <2>7, SumIsNat, SumAtMost
  <2>9. CASE j # k \/ ~Rates!Passed(h, k, answer)
    <3>1. SumFunctionOnSet(f1, Sharing) = SumFunctionOnSet(f, Sharing)
      <4>1. \A g \in Sharing : f1[g] = f[g]
        BY <2>5, <2>9
      <4> QED
        BY <1>0, <4>1, SumAlike
    <3> QED
      BY <1>5, <2>3, <2>4, <2>6, <2>8, <3>1
  <2>10. CASE j = k /\ Rates!Passed(h, k, answer)
    <3>1. SumFunctionOnSet(f1, Sharing) <= SumFunctionOnSet(f, Sharing) + 1
      <4>2. SumFunctionOnSet(f1, Sharing) = SumFunctionOnSet(f, Sharing) - f[h] + f1[h]
        <5>1. \A g \in Sharing : f[g] \in Int /\ f1[g] \in Int
          BY <2>5
        <5>2. \A g \in Sharing : g # h => f[g] = f1[g]
          BY <2>5
        <5> QED
          BY <1>0, <5>1, <5>2, SumChanged
      <4>3. f[h] \in Nat /\ f1[h] \in Nat /\ f1[h] <= f[h] + 1
        BY <2>5
      <4> QED
        BY <2>8, <4>2, <4>3
    <3>2. CASE answer = "counted"
      <4>1. shared'[k] = Rates!Incremented(shared[k], k)
            /\ Rates!Incremented(shared[k], k) <= Rates!LimitOf(k)
        BY <1>1, <2>10, <3>2 DEF CountersOK, Rates!Passed
      <4>2. Upto(shared'[k], k) = Upto(shared[k], k) + 1
        BY <1>3, <4>1, OneMoreUpto
      <4> QED
        BY <1>5, <2>3, <2>4, <2>6, <2>8, <2>10, <3>1, <4>2
    <3>3. CASE answer # "counted"
      <4>1. fallback'[h][k] = Rates!Incremented(fallback[h][k], k)
            /\ Rates!Incremented(fallback[h][k], k) <= Rates!LimitOf(k)
        BY <1>0, <1>1, <2>10, <3>3 DEF CountersOK, Rates!Passed
      <4>2. w1[h] = w[h] + 1
        BY <1>0, <1>3, <2>2, <2>10, <4>1, OneMoreUpto DEF Falls
      <4>3. \A g \in Hosts : w[g] \in Int /\ w1[g] \in Int /\ (g # h => w[g] = w1[g])
        BY <2>7
      <4>4. SumFunctionOnSet(w1, Hosts) = SumFunctionOnSet(w, Hosts) - w[h] + w1[h]
        BY <1>0, <4>3, SumChanged
      <4>5. w[h] \in Nat
        BY <1>0, <2>7
      <4> QED
        BY <1>5, <2>3, <2>4, <2>6, <2>8, <3>1, <4>2, <4>4, <4>5
    <3> QED
      BY <3>2, <3>3
  <2> QED
    BY <2>9, <2>10
<1>8. SharedKept'
  <2>1. \A j \in Rates!Keys : \A g \in Sharing :
           IsFiniteSet(log'[g][j]) /\ \A d \in log'[g][j] : d.at = Rates!Fixed(moment)'
    BY <1>1, <1>6 DEF Rates!Fixed
  <2> QED
    BY <1>5, <1>7, <2>1 DEF SharedKept
<1> QED
  BY <1>4, <1>8

\* A process of its own moves, and those that share do not.
LEMMA HostKeeps ==
    ASSUME LimitsInv, NEW h \in Hosts, mode[h] = "memory", NEW c, NEW m,
           buckets' = [buckets EXCEPT ![h] = c], log' = [log EXCEPT ![h] = m],
           DOMAIN m = Rates!Keys, MemoryKept(c, m, moment),
           moment' = moment, mode' = mode, shared' = shared, fallback' = fallback, CheckingOK'
    PROVE  LimitsInv'
<1>1. CountersOK'
  BY DEF LimitsInv, CountersOK
<1>2. Sharing' = Sharing /\ h \notin Sharing /\ Sharing \subseteq Hosts
  BY DEF Sharing
<1>3. \A g \in Sharing : log'[g] = log[g]
  BY <1>2 DEF LimitsInv, CountersOK
<1>4. \A k \in Rates!Keys : Lets(k)' = Lets(k) /\ Falls(k)' = Falls(k)
  BY <1>2, <1>3 DEF Lets, Falls
<1>5. SharedKept'
  <2>1. Rates!Fixed(moment)' = Rates!Fixed(moment)
    BY DEF Rates!Fixed
  <2>2. \A k \in Rates!Keys : \A g \in Sharing :
           IsFiniteSet(log'[g][k]) /\ \A e \in log'[g][k] : e.at = Rates!Fixed(moment)'
    BY <1>3, <2>1 DEF LimitsInv, SharedKept
  <2>3. \A k \in Rates!Keys : SumFunctionOnSet(Lets(k)', Sharing)
             <= Upto(shared[k], k) + SumFunctionOnSet(Falls(k)', Hosts)
    BY <1>4 DEF LimitsInv, SharedKept
  <2> QED
    BY <1>2, <2>2, <2>3 DEF SharedKept
<1>6. ASSUME NEW g \in Hosts, mode[g] = "memory"
      PROVE  MemoryKept(buckets'[g], log'[g], moment')
  <2>1. CASE g = h
    <3>1. buckets'[g] = c /\ log'[g] = m
      BY <2>1 DEF LimitsInv, CountersOK
    <3> QED
      BY <3>1
  <2>2. CASE g # h
    <3>1. buckets'[g] = buckets[g] /\ log'[g] = log[g]
      BY <2>2 DEF LimitsInv, CountersOK
    <3> QED
      BY <1>6, <3>1 DEF LimitsInv
  <2> QED
    BY <2>1, <2>2
<1>7. ASSUME NEW g \in Hosts, mode[g] # "memory" PROVE buckets'[g] = <<>>
  <2>1. g # h
    BY <1>7
  <2> QED
    BY <1>7, <2>1 DEF LimitsInv, CountersOK
<1> QED
  BY <1>1, <1>5, <1>6, <1>7 DEF LimitsInv

\* A request begins its checks with something to check, of a user.
LEMMA BeginsChecking ==
    ASSUME CheckingOK, NEW r \in Slots, NEW h \in Hosts, NEW u \in Staff, NEW ok,
           checking' = IF ok THEN [checking EXCEPT ![r] =
                              [host |-> h, user |-> u, left |-> Rates!Voice(u)]] ELSE checking
    PROVE  CheckingOK'
<1>1. Rates!Voice(u) \in Seq(Rates!Keys) /\ Rates!Voice(u) # <<>>
  <2>1. PICK a, o : a = <<"voice_user", u>> /\ o = <<"voice_tenant", CompanyOf[u]>>
    OBVIOUS
  <2>2. Rates!Voice(u) = <<a, o>> /\ a \in Rates!Keys /\ o \in Rates!Keys
    BY <2>1, LimitsSay DEF Rates!Voice
  <2> QED
    BY <2>2
<1>2. PICK c : c = [host |-> h, user |-> u, left |-> Rates!Voice(u)]
  OBVIOUS
<1>3. c.host = h /\ c.user = u /\ c.left = Rates!Voice(u)
      /\ c = [host |-> c.host, user |-> c.user, left |-> c.left]
  BY <1>2
<1>4. checking' = IF ok THEN [checking EXCEPT ![r] = c] ELSE checking
  BY <1>2
<1> QED
  BY <1>1, <1>3, <1>4 DEF CheckingOK

\* A request that ends leaves nothing to check.
LEMMA EndsChecking ==
    ASSUME CheckingOK, NEW r \in Slots, checking' = [checking EXCEPT ![r] = NoRequest]
    PROVE  CheckingOK'
BY DEF CheckingOK

\* A request that arrives at a process of its own.
LEMMA ArriveKeeps ==
    ASSUME LimitsInv, NEW r \in Slots, NEW h \in Hosts, NEW u \in Staff, NEW sweep,
           Rates!Arrive(r, h, u, sweep)
    PROVE  LimitsInv'
<1>1. PICK s, e, z : /\ s = Rates!Of(h) /\ e = Rates!Entry(h, Rates!ByAddress, moment, u)
                     /\ z = Rates!Permitir(s, Rates!ByAddress, e, sweep)
  OBVIOUS
<1>2. /\ mode[h] = "memory"
      /\ buckets' = [buckets EXCEPT ![h] = z.buckets]
      /\ log' = [log EXCEPT ![h] = z.log]
      /\ checking' = IF z.ok THEN [checking EXCEPT ![r] =
                          [host |-> h, user |-> u, left |-> Rates!Voice(u)]] ELSE checking
      /\ moment' = moment /\ mode' = mode /\ shared' = shared /\ fallback' = fallback
  BY Zenon, <1>1 DEF Rates!Arrive
<1>3. s = [ok |-> TRUE, buckets |-> buckets[h], log |-> log[h]]
      /\ e.at = moment /\ e.nth = Cardinality(log[h][Rates!ByAddress]) + 1
  BY <1>1, RatesCount DEF Rates!Of, Rates!Entry
<1>4. MemoryKept(buckets[h], log[h], moment) /\ DOMAIN log[h] = Rates!Keys /\ moment \in Nat
  BY <1>2 DEF LimitsInv, CountersOK
<1>5a. PICK ok \in BOOLEAN : \E c, m :
        /\ z = [ok |-> ok, buckets |-> c, log |-> m]
        /\ DOMAIN m = Rates!Keys
        /\ MemoryKept(c, m, moment)
  BY <1>1, <1>3, <1>4, AddressKeeps
<1>5. PICK c, m :
        /\ z = [ok |-> ok, buckets |-> c, log |-> m]
        /\ DOMAIN m = Rates!Keys
        /\ MemoryKept(c, m, moment)
  BY <1>5a
<1>6. z.buckets = c /\ z.log = m
  BY <1>5
<1>7. CheckingOK'
  BY <1>2, BeginsChecking DEF LimitsInv
<1> QED
  BY <1>2, <1>5, <1>6, <1>7, HostKeeps

\* The rest of the checks of a request, in a process of its own.
LEMMA CheckKeeps ==
    ASSUME LimitsInv, NEW r \in Slots, NEW sweep, Rates!Check(r, sweep)
    PROVE  LimitsInv'
<1>1. PICK h, u : h = checking[r].host /\ u = checking[r].user
  OBVIOUS
<1>2. PICK y : y = Rates!Charged(h, u, sweep)
  OBVIOUS
<1>3. /\ checking[r] # NoRequest /\ mode[h] = "memory"
      /\ buckets' = [buckets EXCEPT ![h] = y.buckets]
      /\ log' = [log EXCEPT ![h] = y.log]
      /\ checking' = [checking EXCEPT ![r] = NoRequest]
      /\ moment' = moment /\ mode' = mode /\ shared' = shared /\ fallback' = fallback
  BY Zenon, <1>1, <1>2 DEF Rates!Check
<1>4. h \in Hosts /\ u \in Staff
  BY <1>1, <1>3 DEF LimitsInv, CheckingOK
<1>5. Rates!Voice(u)[1] = OfUser(u) /\ Rates!Voice(u)[2] = OfCompany(u) /\ OfUser(u) \in Rates!Keys
  BY <1>4, KeysApart
<1>6. PICK s, e : s = Rates!Of(h) /\ e = Rates!Entry(h, OfUser(u), moment, u)
  OBVIOUS
<1>7. PICK z : z = Rates!Permitir(s, OfUser(u), e, sweep)
  OBVIOUS
<1>8. y = IF z.ok THEN Rates!Permitir(z, OfCompany(u), e, sweep) ELSE z
  BY <1>2, <1>5, <1>6, <1>7 DEF Rates!Charged
<1>9. s = [ok |-> TRUE, buckets |-> buckets[h], log |-> log[h]]
      /\ e.at = moment /\ e.who = u /\ e.nth = Cardinality(log[h][OfUser(u)]) + 1
  BY <1>6, RatesCount DEF Rates!Of, Rates!Entry
<1>10. MemoryKept(buckets[h], log[h], moment) /\ DOMAIN log[h] = Rates!Keys /\ moment \in Nat
  BY <1>3, <1>4 DEF LimitsInv, CountersOK
<1>11. DOMAIN y.log = Rates!Keys /\ MemoryKept(y.buckets, y.log, moment)
  BY <1>4, <1>7, <1>8, <1>9, <1>10, VoiceKeeps
<1>12. CheckingOK'
  BY <1>3, EndsChecking DEF LimitsInv
<1> QED
  BY <1>3, <1>4, <1>11, <1>12, HostKeeps

\* A request of those that share moves nothing in a process of its own.
LEMMA SharedMoves ==
    ASSUME LimitsInv, NEW h \in Hosts, mode[h] = "redis", NEW k \in Rates!Keys,
           NEW answer \in {"counted", "lost", "down"}, Rates!Count(h, k, answer), CheckingOK'
    PROVE  LimitsInv'
<1>1. h \in Sharing
  BY DEF Sharing
<1>2. CountersOK' /\ SharedKept'
  BY <1>1, CountKeeps DEF LimitsInv
<1>3. moment' = moment /\ mode' = mode /\ buckets' = buckets
  BY DEF Rates!Count
<1>4. ASSUME NEW g \in Hosts, mode[g] = "memory" PROVE log'[g] = log[g]
  <2>1. g # h
    BY <1>4
  <2> QED
    BY <2>1 DEF Rates!Count, LimitsInv, CountersOK
<1> QED
  BY <1>2, <1>3, <1>4 DEF LimitsInv

\* A request that arrives where the counters are shared.
LEMMA ArriveSharedKeeps ==
    ASSUME LimitsInv, NEW r \in Slots, NEW h \in Hosts, NEW u \in Staff,
           NEW answer \in {"counted", "lost", "down"}, Rates!ArriveShared(r, h, u, answer)
    PROVE  LimitsInv'
<1>1. /\ mode[h] = "redis" /\ Rates!Count(h, Rates!ByAddress, answer)
      /\ checking' = IF Rates!Passed(h, Rates!ByAddress, answer)
                     THEN [checking EXCEPT ![r] =
                              [host |-> h, user |-> u, left |-> Rates!Voice(u)]] ELSE checking
  BY DEF Rates!ArriveShared
<1>2. PICK ok : ok = Rates!Passed(h, Rates!ByAddress, answer)
  OBVIOUS
<1>3. CheckingOK'
  BY <1>1, <1>2, BeginsChecking DEF LimitsInv
<1> QED
  BY <1>1, <1>3, SharedMoves, KeysApart

\* The next check of a request, where the counters are shared.
LEMMA CheckSharedKeeps ==
    ASSUME LimitsInv, NEW r \in Slots, NEW answer \in {"counted", "lost", "down"},
           Rates!CheckShared(r, answer)
    PROVE  LimitsInv'
<1>1. PICK h, ks : h = checking[r].host /\ ks = checking[r].left
  OBVIOUS
<1>2. /\ checking[r] # NoRequest /\ mode[h] = "redis"
      /\ Rates!Count(h, Head(ks), answer)
      /\ checking' = IF Rates!Passed(h, Head(ks), answer) /\ Len(ks) > 1
                     THEN [checking EXCEPT ![r].left = Tail(@)]
                     ELSE [checking EXCEPT ![r] = NoRequest]
  BY <1>1 DEF Rates!CheckShared
<1>3. /\ checking[r] = [host |-> h, user |-> checking[r].user, left |-> ks]
      /\ h \in Hosts /\ checking[r].user \in Staff /\ ks \in Seq(Rates!Keys) /\ ks # <<>>
  BY <1>1, <1>2 DEF LimitsInv, CheckingOK
<1>4. Head(ks) \in Rates!Keys
  BY <1>3
<1>5. CheckingOK'
  <2>1. CASE Len(ks) > 1 /\ Rates!Passed(h, Head(ks), answer)
    <3>1. PICK t, c : t = Tail(ks) /\ c = [host |-> h, user |-> checking[r].user, left |-> t]
      OBVIOUS
    <3>2. checking' = [checking EXCEPT ![r] = c]
      <4>1. PICK u, v : u = checking[r].user /\ v = [host |-> h, user |-> u, left |-> ks]
        OBVIOUS
      <4>2. [v EXCEPT !.left = t] = [host |-> h, user |-> u, left |-> t]
        BY <4>1
      <4>3. checking[r] = v /\ c = [host |-> h, user |-> u, left |-> t]
        BY <1>3, <3>1, <4>1
      <4>4. checking' = [checking EXCEPT ![r] = [checking[r] EXCEPT !.left = t]]
        BY <1>1, <1>2, <2>1, <3>1
      <4> QED
        BY <4>2, <4>3, <4>4
    <3>3. t \in Seq(Rates!Keys) /\ t # <<>>
      <4>1. t \in Seq(Rates!Keys) /\ Len(t) = Len(ks) - 1 /\ Len(ks) \in Nat
        BY <1>3, <3>1
      <4>2. Len(t) # 0
        BY <2>1, <4>1
      <4>3. t # <<>>
        <5>1. Len(<<>>) = 0
          OBVIOUS
        <5> SUFFICES ASSUME t = <<>> PROVE FALSE
          OBVIOUS
        <5> QED
          BY <4>2, <5>1, Zenon
      <4> QED
        BY <4>1, <4>3
    <3>4. c.host = h /\ c.user = checking[r].user /\ c.left = t
          /\ c = [host |-> c.host, user |-> c.user, left |-> c.left]
      BY <3>1
    <3> QED
      BY <1>3, <3>2, <3>3, <3>4 DEF LimitsInv, CheckingOK
  <2>2. CASE ~ (Len(ks) > 1 /\ Rates!Passed(h, Head(ks), answer))
    <3>1. checking' = [checking EXCEPT ![r] = NoRequest]
      BY <1>2, <2>2
    <3> QED
      BY <3>1, EndsChecking DEF LimitsInv
  <2> QED
    BY <2>1, <2>2
<1> QED
  BY <1>2, <1>3, <1>4, <1>5, SharedMoves

\* Time passes for all.
LEMMA TickKeeps ==
    ASSUME LimitsInv, Rates!Tick
    PROVE  LimitsInv'
<1>1. PICK same : same = (Rates!Fixed(moment') = Rates!Fixed(moment))
  OBVIOUS
<1>2. /\ moment' = moment + 1 /\ mode' = mode /\ buckets' = buckets /\ checking' = checking
      /\ log' = [h \in Hosts |-> [k \in Rates!Keys |->
                    {e \in log[h][k] : Rates!Kept(h, e)}]]
      /\ shared' = [k \in Rates!Keys |-> IF same THEN shared[k] ELSE 0]
      /\ fallback' = [h \in Hosts |-> [k \in Rates!Keys |-> IF same THEN fallback[h][k] ELSE 0]]
  BY Zenon, <1>1 DEF Rates!Tick
<1>3. CountersOK'
  <2>1. moment' \in Nat
    BY <1>2 DEF LimitsInv, CountersOK
  <2>2. shared' \in [Rates!Keys -> Nat] /\ fallback' \in [Hosts -> [Rates!Keys -> Nat]]
    BY <1>2 DEF LimitsInv, CountersOK
  <2>3. DOMAIN log' = Hosts /\ \A h \in Hosts : DOMAIN log'[h] = Rates!Keys
    BY <1>2
  <2> QED
    BY <1>2, <2>1, <2>2, <2>3 DEF LimitsInv, CountersOK
<1>4. CheckingOK'
  BY <1>2 DEF LimitsInv, CheckingOK
<1>5. ASSUME NEW h \in Hosts, mode[h] = "memory"
      PROVE  MemoryKept(buckets'[h], log'[h], moment')
  <2>1. PICK b, l, m : b = buckets[h] /\ l = log[h] /\ m = log'[h]
    OBVIOUS
  <2>2. ASSUME NEW k \in Rates!Keys
        PROVE  m[k] = {e \in l[k] : e.at > moment + 1 - Span}
    <3>1. m[k] = {e \in l[k] : Rates!Kept(h, e)}
      BY <1>2, <2>1
    <3>2. \A e : Rates!Kept(h, e) <=> e.at > moment + 1 - Span
      BY <1>5 DEF Rates!Kept
    <3> QED
      BY <3>1, <3>2
  <2>3. MemoryKept(b, l, moment) /\ moment \in Nat
    BY <1>5, <2>1 DEF LimitsInv, CountersOK
  <2>4. MemoryKept(b, m, moment + 1)
    BY <2>2, <2>3, TickTallied
  <2> QED
    BY <1>2, <2>1, <2>4
<1>6. Sharing' = Sharing /\ Sharing \subseteq Hosts
  BY <1>2 DEF Sharing
<1>7. ASSUME NEW h \in Sharing, NEW k \in Rates!Keys
      PROVE  log'[h][k] = IF same THEN log[h][k] ELSE {}
  <2>1. log'[h][k] = {e \in log[h][k] : Rates!Kept(h, e)} /\ mode[h] # "memory"
    BY <1>2, <1>6 DEF Sharing
  <2>2. \A e : Rates!Kept(h, e) <=> e.at = Rates!Fixed(moment')
    BY <1>2, <2>1 DEF Rates!Kept
  <2>3. \A e \in log[h][k] : e.at = Rates!Fixed(moment)
    BY DEF LimitsInv, SharedKept
  <2>4. CASE same
    <3>1. \A e \in log[h][k] : Rates!Kept(h, e)
      BY <1>1, <2>2, <2>3, <2>4
    <3> QED
      BY <2>1, <2>4, <3>1
  <2>5. CASE ~ same
    <3>1. \A e \in log[h][k] : ~ Rates!Kept(h, e)
      <4>1. Rates!Fixed(moment') # Rates!Fixed(moment)
        BY <1>1, <2>5
      <4> QED
        BY <2>2, <2>3, <4>1
    <3> QED
      BY <2>1, <2>5, <3>1
  <2> QED
    BY <2>4, <2>5
<1>8. Rates!Fixed(moment)' = Rates!Fixed(moment')
  BY DEF Rates!Fixed
<1>9. SharedKept'
  <2>1. ASSUME NEW k \in Rates!Keys, NEW h \in Sharing
        PROVE  IsFiniteSet(log'[h][k]) /\ \A e \in log'[h][k] : e.at = Rates!Fixed(moment')
    <3>1. IsFiniteSet(log[h][k]) /\ \A e \in log[h][k] : e.at = Rates!Fixed(moment)
      BY DEF LimitsInv, SharedKept
    <3> QED
      BY <1>1, <1>7, <3>1, FS_EmptySet
  <2>2. ASSUME NEW k \in Rates!Keys
        PROVE  SumFunctionOnSet(Lets(k)', Sharing)
                 <= Upto(shared'[k], k) + SumFunctionOnSet(Falls(k)', Hosts)
    <3>1. CASE same
      <4>1. Lets(k)' = Lets(k)
        BY <1>6, <1>7, <3>1 DEF Lets
      <4>2. Falls(k)' = Falls(k)
        BY <1>2, <3>1 DEF Falls
      <4>3. shared'[k] = shared[k]
        BY <1>2, <3>1
      <4> QED
        BY <4>1, <4>2, <4>3 DEF LimitsInv, SharedKept
    <3>2. CASE ~ same
      <4>1. PICK f, w : f = Lets(k)' /\ w = Falls(k)'
        OBVIOUS
      <4>2. \A h \in Sharing : f[h] = 0
        <5>1. Cardinality({}) = 0
          BY FS_EmptySet
        <5> QED
          BY <1>6, <1>7, <3>2, <4>1, <5>1 DEF Lets
      <4>3. \A h \in Hosts : w[h] \in Nat
        <5> TAKE h \in Hosts
        <5>1. fallback'[h][k] \in Nat
          BY <1>3 DEF CountersOK
        <5>2. w[h] = Upto(fallback'[h][k], k)
          BY <4>1 DEF Falls
        <5> QED
          BY <5>1, <5>2, OneMoreUpto
      <4>4. SumFunctionOnSet(f, Sharing) = 0
        BY <4>2, SharingFinite, SumOfZeros
      <4>5. SumFunctionOnSet(w, Hosts) \in Nat
        BY <4>3, LimitsSay, SumIsNat
      <4>6. Upto(shared'[k], k) \in Nat
        BY <1>3, OneMoreUpto DEF CountersOK
      <4> QED
        BY <4>1, <4>4, <4>5, <4>6
    <3> QED
      BY <3>1, <3>2
  <2> QED
    BY <1>6, <1>8, <2>1, <2>2 DEF SharedKept
<1> QED
  BY <1>2, <1>3, <1>4, <1>5, <1>9 DEF LimitsInv

\* At first nobody has asked for anything.
LEMMA LimitsStart == Rates!RateInit => LimitsInv
<1> SUFFICES ASSUME Rates!RateInit PROVE LimitsInv
  OBVIOUS
<1>1. /\ moment \in 0 .. Span - 1 /\ mode \in [Hosts -> {"memory", "redis"}]
      /\ buckets = [h \in Hosts |-> <<>>] /\ shared = [k \in Rates!Keys |-> 0]
      /\ fallback = [h \in Hosts |-> [k \in Rates!Keys |-> 0]]
      /\ checking = [r \in Slots |-> NoRequest]
      /\ log = [h \in Hosts |-> [k \in Rates!Keys |-> {}]]
  BY DEF Rates!RateInit
<1>2. CountersOK /\ CheckingOK
  BY <1>1, LimitsSay DEF CountersOK, CheckingOK
<1>3. IsFiniteSet({}) /\ Cardinality({}) = 0
  BY FS_EmptySet
<1>4. SharedKept
  <2>1. ASSUME NEW k \in Rates!Keys
        PROVE  SumFunctionOnSet(Lets(k), Sharing)
                 <= Upto(shared[k], k) + SumFunctionOnSet(Falls(k), Hosts)
    <3>1. PICK f, w : f = Lets(k) /\ w = Falls(k)
      OBVIOUS
    <3>2. \A h \in Sharing : f[h] = 0
      BY <1>1, <1>3, <3>1, SharingFinite DEF Lets
    <3>3. \A h \in Hosts : w[h] = 0
      BY <1>1, <3>1, LimitsSay DEF Falls, Upto
    <3>4. SumFunctionOnSet(f, Sharing) = 0 /\ SumFunctionOnSet(w, Hosts) = 0
      BY <3>2, <3>3, SharingFinite, LimitsSay, SumOfZeros
    <3>5. Upto(shared[k], k) = 0
      BY <1>1, LimitsSay DEF Upto
    <3> QED
      BY <3>1, <3>4, <3>5
  <2> QED
    BY <1>1, <1>3, <2>1, SharingFinite DEF SharedKept
<1>5. ASSUME NEW h \in Hosts PROVE MemoryKept(buckets[h], log[h], moment)
  <2>1. PICK b, l : b = buckets[h] /\ l = log[h]
    OBVIOUS
  <2>2. DOMAIN b = {} /\ \A k \in Rates!Keys : l[k] = {}
    BY <1>1, <2>1
  <2>3. Tabled(b, moment)
    BY <1>3, <2>2, LimitsSay DEF Tabled
  <2>4. Counted(b, l, moment)
    <3>1. ASSUME NEW k \in Rates!Keys
          PROVE  /\ IsFiniteSet(l[k]) /\ Cardinality(l[k]) <= Rates!LimitOf(k)
                 /\ \A x \in Int : Left(b, k, x) = Cardinality({e \in l[k] : e.at > x})
      <4>1. l[k] = {} /\ \A x : {e \in l[k] : e.at > x} = {}
        BY <2>2
      <4>2. \A x : Left(b, k, x) = 0
        BY <2>2 DEF Left
      <4> QED
        BY <1>3, <4>1, <4>2, LimitsSay
    <3> QED
      BY <2>2, <3>1 DEF Counted
  <2>5. Numbered(l, moment) /\ OwnFirst(l)
    BY <2>2, KeysApart DEF Numbered, OwnFirst
  <2> QED
    BY <2>1, <2>3, <2>4, <2>5 DEF MemoryKept, Tallied
<1>6. \A h \in Hosts : buckets[h] = <<>>
  BY <1>1
<1> QED
  BY <1>2, <1>4, <1>5, <1>6 DEF LimitsInv

\* Every step keeps them.
LEMMA LimitsKeep == LimitsInv /\ [Rates!RateNext]_rateVars => LimitsInv'
<1> SUFFICES ASSUME LimitsInv, [Rates!RateNext]_rateVars PROVE LimitsInv'
  OBVIOUS
<1>1. CASE Rates!Tick
  BY <1>1, TickKeeps
<1>2. ASSUME NEW r \in Slots, NEW h \in Hosts, NEW u \in Staff, NEW sweep,
             Rates!Arrive(r, h, u, sweep)
      PROVE  LimitsInv'
  BY <1>2, ArriveKeeps
<1>3. ASSUME NEW r \in Slots, NEW h \in Hosts, NEW u \in Staff, NEW answer \in Rates!Answers,
             Rates!ArriveShared(r, h, u, answer)
      PROVE  LimitsInv'
  BY <1>3, ArriveSharedKeeps DEF Rates!Answers
<1>4. ASSUME NEW r \in Slots, NEW sweep, Rates!Check(r, sweep) PROVE LimitsInv'
  BY <1>4, CheckKeeps
<1>5. ASSUME NEW r \in Slots, NEW answer \in Rates!Answers, Rates!CheckShared(r, answer)
      PROVE  LimitsInv'
  BY <1>5, CheckSharedKeeps DEF Rates!Answers
<1>6. CASE UNCHANGED rateVars
  <2>1. /\ moment' = moment /\ mode' = mode /\ buckets' = buckets /\ shared' = shared
        /\ fallback' = fallback /\ checking' = checking /\ log' = log
    BY <1>6 DEF rateVars
  <2>2. Sharing' = Sharing
    BY <2>1 DEF Sharing
  <2>3. \A k : Lets(k)' = Lets(k) /\ Falls(k)' = Falls(k)
    BY <2>1, <2>2 DEF Lets, Falls
  <2>4. CountersOK' /\ CheckingOK'
    BY <2>1 DEF LimitsInv, CountersOK, CheckingOK
  <2>5. SharedKept'
    BY <2>1, <2>2, <2>3 DEF LimitsInv, SharedKept, Rates!Fixed
  <2> QED
    BY <2>1, <2>4, <2>5 DEF LimitsInv
<1>7. CASE Rates!RateNext
  BY Zenon, <1>1, <1>2, <1>3, <1>4, <1>5, <1>7 DEF Rates!RateNext
<1> QED
  BY <1>6, <1>7

\* What they show of the limits.
LEMMA LimitsSeen ==
    LimitsInv => Rates!LimitsKept /\ Rates!SharedSpared /\ Rates!TableBounded
<1> SUFFICES ASSUME LimitsInv PROVE Rates!LimitsKept /\ Rates!SharedSpared /\ Rates!TableBounded
  OBVIOUS
<1>1. ASSUME NEW h \in Hosts, mode[h] = "memory"
      PROVE  /\ \A k \in Rates!Keys : IsFiniteSet(log[h][k])
                                     /\ Cardinality(log[h][k]) <= Rates!LimitOf(k)
             /\ OwnFirst(log[h])
             /\ Cardinality(DOMAIN buckets[h]) <= MaxKeys
  BY <1>1 DEF LimitsInv, MemoryKept, Tallied, Tabled, Counted
<1>2. ASSUME NEW h \in Hosts, NEW u \in Staff, mode[h] = "memory"
      PROVE  Rates!Cardinality({e \in log[h][OfCompany(u)] : e.who = u}) <= Limit["voice_user"]
  <2>1. PICK S : S = {e \in log[h][OfCompany(u)] : e.who = u}
    OBVIOUS
  <2>2. OfUser(u) \in Rates!Keys /\ S \subseteq log[h][OfUser(u)]
    BY <1>1, <1>2, <2>1, KeysApart DEF OwnFirst
  <2>3. Cardinality(S) <= Cardinality(log[h][OfUser(u)]) /\ Cardinality(S) \in Nat
        /\ Cardinality(log[h][OfUser(u)]) \in Nat
    BY <1>1, <1>2, <2>2, FS_Subset, FS_CardinalityType
  <2>4. Rates!LimitOf(OfUser(u)) = Limit["voice_user"] /\ Limit["voice_user"] \in Nat
    BY <2>2, LimitsSay DEF Rates!LimitOf, OfUser
  <2>5. Cardinality(log[h][OfUser(u)]) <= Limit["voice_user"]
    BY <1>1, <1>2, <2>2, <2>4
  <2>6. Cardinality(S) <= Limit["voice_user"]
    BY <2>3, <2>4, <2>5
  <2> QED
    BY <2>1, <2>6, RatesCount
<1>3. Rates!SharedSpared
  <2>1. \A u \in Staff : <<"voice_tenant", CompanyOf[u]>> = OfCompany(u)
    BY DEF OfCompany
  <2> QED
    BY <1>2, <2>1 DEF Rates!SharedSpared
<1>4. Rates!TableBounded
  <2>1. ASSUME NEW h \in Hosts PROVE Cardinality(DOMAIN buckets[h]) <= MaxKeys
    <3>1. CASE mode[h] = "memory"
      BY <1>1, <3>1
    <3>2. CASE mode[h] # "memory"
      <4>1. buckets[h] = <<>>
        BY <3>2 DEF LimitsInv, CountersOK
      <4>2. DOMAIN buckets[h] = {}
        BY <4>1
      <4> QED
        BY <4>2, FS_EmptySet, LimitsSay
    <3> QED
      BY <3>1, <3>2
  <2> QED
    BY <2>1, RatesCount DEF Rates!TableBounded
<1>5. ASSUME NEW k \in Rates!Keys
      PROVE  Rates!Through({h \in Hosts : mode[h] = "redis"}, k)
               <= Rates!LimitOf(k) * (1 + Rates!Cardinality(Rates!FellBack(k)))
  <2>1. PICK w, F, n : w = Falls(k) /\ F = Rates!FellBack(k) /\ n = Rates!LimitOf(k)
    OBVIOUS
  <2>2. n \in Nat
    BY <2>1, LimitsSay
  <2>3. F \subseteq Hosts /\ \A h \in Hosts : h \in F <=> fallback[h][k] > 0
    BY <2>1 DEF Rates!FellBack
  <2>4. ASSUME NEW h \in Hosts PROVE w[h] \in Nat /\ w[h] <= n /\ (h \notin F => w[h] = 0)
    <3>1. fallback[h][k] \in Nat
      BY DEF LimitsInv, CountersOK
    <3>2. w[h] = Upto(fallback[h][k], k)
      BY <2>1 DEF Falls
    <3>3. h \notin F => fallback[h][k] = 0
      BY <2>3, <3>1
    <3> QED
      BY <2>1, <2>2, <3>1, <3>2, <3>3 DEF Upto
  <2>5. IsFiniteSet(F) /\ Cardinality(F) \in Nat /\ Hosts \cap F = F
    BY <2>3, LimitsSay, FS_Subset, FS_CardinalityType
  <2>6. SumFunctionOnSet(w, Hosts) <= n * Cardinality(Hosts \cap F)
    BY <2>2, <2>4, LimitsSay, SumOverSome
  <2>7. SumFunctionOnSet(w, Hosts) \in Nat
    BY <2>4, LimitsSay, SumIsNat
  <2>8. PICK c \in Nat : c = Cardinality(F)
    BY <2>5
  <2>9. n * (1 + c) = n + n * c /\ n * c \in Nat
    BY <2>2
  <2>10. SumFunctionOnSet(Lets(k), Sharing) <= Upto(shared[k], k) + SumFunctionOnSet(w, Hosts)
    BY <2>1 DEF LimitsInv, SharedKept
  <2>11. Upto(shared[k], k) \in Nat /\ Upto(shared[k], k) <= n
    BY <2>1, OneMoreUpto DEF LimitsInv, CountersOK
  <2>12. SumFunctionOnSet(Lets(k), Sharing) \in Nat
    <3>1. \A h \in Sharing : Lets(k)[h] \in Nat
      BY FS_CardinalityType DEF LimitsInv, SharedKept, Lets
    <3> QED
      BY <3>1, SharingFinite, SumIsNat
  <2>13. SumFunctionOnSet(w, Hosts) <= n * c
    BY <2>5, <2>6, <2>8
  <2>14. SumFunctionOnSet(Lets(k), Sharing) <= n * (1 + c)
    BY <2>2, <2>7, <2>9, <2>10, <2>11, <2>12, <2>13
  <2>15. Rates!Through({h \in Hosts : mode[h] = "redis"}, k) = SumFunctionOnSet(Lets(k), Sharing)
    BY RatesSums, RatesCount DEF Rates!Through, Lets, Sharing
  <2> QED
    BY <2>1, <2>8, <2>14, <2>15, RatesCount
<1>6. Rates!LimitsKept
  BY <1>1, <1>5, RatesCount DEF Rates!LimitsKept
<1> QED
  BY <1>3, <1>4, <1>6

-----------------------------------------------------------------------------
(* The doors together: the invariant of the one that moves.                *)

AccessInv ==
    /\ SupportInv
    /\ door = "logins" => LoginInv
    /\ door = "team" => TeamInv
    /\ door = "staff" => StaffInv
    /\ door = "branches" => GivenInv
    /\ door = "sign-up" => EntryInv
    /\ door = "limits" => LimitsInv

\* Every door starts well.
LEMMA AccessStarts == AccessInit => AccessInv
BY SupportStarts, LoginStarts, TeamStarts, StaffStarts, GivenStarts, EntryStarts,
   LimitsStart DEF AccessInit, AccessInv

\* A door's step disturbs no other, and keeps its own.
LEMMA AccessKeeps == AccessInv /\ [AccessNext]_accessVars => AccessInv' /\ StepKeeps
<1> SUFFICES ASSUME AccessInv, [AccessNext]_accessVars PROVE AccessInv' /\ StepKeeps
  OBVIOUS
<1>1. door' = door
  BY DEF AccessNext, Supporting, LoggingIn, Governing, Staffing, Assigning, SigningUp, Limiting,
         accessVars
<1>2. StepKeeps
  <2>1. [SupportNext]_supportVars
    BY DEF AccessNext, Supporting, LoggingIn, Governing, Staffing, Assigning, SigningUp,
           Limiting, accessVars
  <2> QED
    BY <2>1, SupportKeeps DEF AccessInv
<1>3. CASE door = "logins"
  <2>1. [User!LoginNext]_loginVars
    BY <1>3 DEF AccessNext, Supporting, LoggingIn, Governing, Staffing, Assigning, SigningUp,
                Limiting, accessVars
  <2> QED
    BY <1>1, <1>2, <1>3, <2>1, LoginsKeep DEF AccessInv, StepKeeps
<1>4. CASE door = "team"
  <2>1. [Platform!TeamNext]_teamVars
    BY <1>4 DEF AccessNext, Supporting, LoggingIn, Governing, Staffing, Assigning, SigningUp,
                Limiting, accessVars
  <2> QED
    BY <1>1, <1>2, <1>4, <2>1, TeamKeeps DEF AccessInv, StepKeeps
<1>5. CASE door = "staff"
  <2>1. [Company!StaffNext]_staffVars
    BY <1>5 DEF AccessNext, Supporting, LoggingIn, Governing, Staffing, Assigning, SigningUp,
                Limiting, accessVars
  <2> QED
    BY <1>1, <1>2, <1>5, <2>1, StaffKeeps DEF AccessInv, StepKeeps
<1>6. CASE door = "branches"
  <2>1. [Given!AssignNext]_assignVars
    BY <1>6 DEF AccessNext, Supporting, LoggingIn, Governing, Staffing, Assigning, SigningUp,
                Limiting, accessVars
  <2> QED
    BY <1>1, <1>2, <1>6, <2>1, GivenKeeps DEF AccessInv, StepKeeps
<1>7. CASE door = "sign-up"
  <2>1. [Entry!SignupNext]_entryVars
    BY <1>7 DEF AccessNext, Supporting, LoggingIn, Governing, Staffing, Assigning, SigningUp,
                Limiting, accessVars
  <2> QED
    BY <1>1, <1>2, <1>7, <2>1, EntryKeeps DEF AccessInv, StepKeeps
<1>8. CASE door = "limits"
  <2>1. [Rates!RateNext]_rateVars
    BY <1>8 DEF AccessNext, Supporting, LoggingIn, Governing, Staffing, Assigning, SigningUp,
                Limiting, accessVars
  <2> QED
    BY <1>1, <1>2, <1>8, <2>1, LimitsKeep DEF AccessInv, StepKeeps
<1>9. CASE door \notin {"logins", "team", "staff", "branches", "sign-up", "limits"}
  BY <1>1, <1>2, <1>9 DEF AccessInv, StepKeeps
<1> QED
  BY <1>2, <1>3, <1>4, <1>5, <1>6, <1>7, <1>8, <1>9

\* The invariant holds of every state that a run reaches.
THEOREM AccessInvariant == AccessSpec => []AccessInv
<1>1. AccessInv /\ [AccessNext]_accessVars => AccessInv'
  BY AccessKeeps
<1> QED
  BY <1>1, AccessStarts, PTL DEF AccessSpec

\* Every row, call and token has its type, whatever the calls in progress.
THEOREM AccessTypes == AccessSpec => []TypesOK
<1>1. AccessInv => TypesOK
  BY LoginSeen DEF AccessInv, SupportInv, TypesOK
<1> QED
  BY <1>1, AccessInvariant, PTL

\* Whoever writes in a company's data has its consent, or the emergency is
\* written down (support_access_service.py).
THEOREM ConsentIsBehind == AccessSpec => []ConsentBehindWrites
<1>1. AccessInv => ConsentBehindWrites
  BY ConsentSeen DEF AccessInv
<1> QED
  BY <1>1, AccessInvariant, PTL

\* A refresh token, a reset link and a sign-up link are spent once, but for
\* the calls that held them at one time; an old password opens nothing new.
THEOREM CredentialsAreSpent == AccessSpec => []CredentialsSpent
<1>1. AccessInv => CredentialsSpent
  BY LoginSeen, EntrySeen DEF AccessInv, CredentialsSpent
<1> QED
  BY <1>1, AccessInvariant, PTL

\* The platform, every company and every user with branches are left with
\* somebody in charge, but for the ways around it that the modules name.
THEOREM SomebodyIsInCharge == AccessSpec => []SomebodyInCharge
<1>1. AccessInv => SomebodyInCharge
  BY StaffSeen, GivenSeen DEF AccessInv, TeamInv, SomebodyInCharge
<1> QED
  BY <1>1, AccessInvariant, PTL

\* Nobody is let through more often than the limits allow, in a process of its
\* own or between those that share Redis but for what each that fell back let
\* through; a user leaves the company its quota, and no table outgrows its size
\* (rate_limit.py, redis.py).
THEOREM LimitsAreKept == AccessSpec => []LimitsKept
<1>1. AccessInv => LimitsKept
  BY LimitsSeen DEF AccessInv, LimitsKept
<1> QED
  BY <1>1, AccessInvariant, PTL

\* A support session that has ended stays ended, whatever the calls that read
\* it before still write.
THEOREM EndedIsForGood == AccessSpec => EndedForGood
<1>1. AccessInv /\ [AccessNext]_accessVars => AccessInv' /\ StepKeeps
  BY AccessKeeps
<1>2. StepKeeps => [\A s \in Sessions : rows[s].ended => rows'[s].ended]_supportVars
  BY DEF StepKeeps
<1> QED
  BY <1>1, <1>2, AccessInvariant, PTL DEF AccessSpec, EndedForGood

=============================================================================

--------------------------- MODULE SupportSessions ---------------------------
(***************************************************************************)
(* The temporary access of a platform operator to one company              *)
(* (src/src/plataforma_saas/application/support_service.py), the token      *)
(* that carries it (auth/web/dependencies.py) and the job that closes what *)
(* ran out (jobs/runner.py).                                               *)
(*                                                                         *)
(* A call reads its row, decides, and commits later the columns it         *)
(* changed; nothing is locked, so between the two any other call, the job  *)
(* or the clock may move.  `loaded' holds what each call in progress read. *)
(* Time runs in steps of fifteen minutes; the ten minutes a request waits  *)
(* for its answer are one step.                                            *)
(***************************************************************************)
EXTENDS Integers, FiniteSets

CONSTANTS Sessions,      \* the rows of support_sessions
          Operators,     \* platform accounts with support.access
          SupportCalls,         \* calls in progress at once
          Durations,     \* the durations the schemas accept
          MaxDuration,   \* 240 minutes
          MaxTime,       \* bound of the clock
          NoSupportCall

ASSUME SupportAssumption ==
    /\ Durations \subseteq 1..MaxDuration
    /\ MaxDuration \in Nat /\ MaxTime \in Nat
    /\ NoSupportCall \notin Operators

VARIABLES rows, token, loaded, job, policy, now

supportVars == <<rows, token, loaded, job, policy, now>>

Modes == {"WRITE", "READ_ONLY"}
Policies == {"require_approval", "allow_read_only"}
RequestTime == 1

NoRow == [status |-> "none", mode |-> "WRITE", operator |-> NoSupportCall,
          expires |-> 0, answerBy |-> 0, duration |-> 0,
          ended |-> FALSE, consent |-> "none"]

\* SupportSessionModel.is_active
IsActive(row, t) ==
    /\ row.status \in {"active", "approved"}
    /\ ~row.ended
    /\ t < row.expires

\* get_access_context and validate_support_session, at every request made
\* with a support token: the row and the company are read again.
Admitted(s, writes) ==
    /\ now < token[s]
    /\ IsActive(rows[s], now)
    /\ writes => rows[s].mode # "READ_ONLY"

\* JWTService.create_support_token.  The tokens of a session differ in when
\* they expire; the longest stands for all, for each dies with its row.
Issue(s, expires) == token' = [token EXCEPT ![s] = IF expires > @ THEN expires ELSE @]

-----------------------------------------------------------------------------
\* The rows once `iniciar' has closed the active sessions of the operator.
WithOthersClosed(o) ==
    [s \in Sessions |->
        [rows[s] EXCEPT !.ended =
            @ \/ (rows[s].operator = o /\ IsActive(rows[s], now))]]

\* Mutant: the policy for reading exempts writing too.
RequiresApprovalByPolicy(mode, consent) == consent /\ policy = "require_approval"

RequiresApproval(mode, consent) ==
    consent /\ (policy = "require_approval" \/ mode # "READ_ONLY")

Opened(o, mode, d, consent) ==
    LET waits == RequiresApproval(mode, consent)
    IN  [status   |-> IF waits THEN "pending_approval" ELSE "active",
         mode     |-> mode, operator |-> o,
         expires  |-> now + d,
         answerBy |-> IF waits THEN now + RequestTime ELSE 0,
         duration |-> d,    ended    |-> FALSE,
         consent  |-> IF waits THEN "none"
                      ELSE IF consent THEN "policy" ELSE "direct"]

\* The session of operator o is added to `base' and, unless it has to wait
\* for the company, its token is handed out.
Open(base, s, o, mode, d, consent) ==
    LET row == Opened(o, mode, d, consent)
    IN  /\ rows[s] = NoRow
        /\ rows' = [base EXCEPT ![s] = row]
        /\ IF RequiresApproval(mode, consent) THEN UNCHANGED token
                                            ELSE Issue(s, now + d)

\* iniciar: `consent' is FALSE on the route /platform/tenants/{id}/support-sessions.
Start(o, s, mode, d, consent) ==
    /\ Open(WithOthersClosed(o), s, o, mode, d, consent)
    /\ UNCHANGED <<loaded, job, policy, now>>

\* emergencia: at most thirty minutes, closes no other session.
Emergency(o, s, d) ==
    LET row == [NoRow EXCEPT !.status = "active", !.operator = o,
                             !.expires = now + d, !.duration = d,
                             !.consent = "emergency"]
    IN  /\ d \in Durations \intersect 1..2
        /\ rows[s] = NoRow
        /\ rows' = [rows EXCEPT ![s] = row]
        /\ Issue(s, now + d)
        /\ UNCHANGED <<loaded, job, policy, now>>

-----------------------------------------------------------------------------
\* db.get, the start of every call below; on a session that is over none of
\* them does anything.
Load(c, s) ==
    /\ loaded[c] = NoSupportCall
    /\ rows[s] # NoRow
    /\ rows[s].ended => rows[s].status = "pending_approval"
    /\ loaded' = [loaded EXCEPT ![c] = [session |-> s, row |-> rows[s]]]
    /\ UNCHANGED <<rows, token, job, policy, now>>

Done(c) == loaded' = [loaded EXCEPT ![c] = NoSupportCall]

\* A call that is refused, or only reads, changes nothing.
Drop(c) ==
    /\ loaded[c] # NoSupportCall
    /\ Done(c)
    /\ UNCHANGED <<rows, token, job, policy, now>>

\* pasar_a_escritura: ends the session and asks for another that may write.
Upgrade(c, s) ==
    /\ loaded[c] # NoSupportCall
    /\ IsActive(loaded[c].row, now)
    /\ LET old == loaded[c].session
           o   == loaded[c].row.operator
       IN  Open([WithOthersClosed(o) EXCEPT ![old].ended = TRUE],
                s, o, "WRITE", loaded[c].row.duration, TRUE)
    /\ Done(c)
    /\ UNCHANGED <<job, policy, now>>

\* extender
Extend(c, minutes) ==
    /\ loaded[c] # NoSupportCall
    /\ IsActive(loaded[c].row, now)
    /\ loaded[c].row.duration + minutes <= MaxDuration
    /\ LET s       == loaded[c].session
           expires == loaded[c].row.expires + minutes
       IN  /\ rows' = [rows EXCEPT ![s] =
                  [@ EXCEPT !.duration = loaded[c].row.duration + minutes,
                            !.expires  = expires]]
           /\ Issue(s, expires)
    /\ Done(c)
    /\ UNCHANGED <<job, policy, now>>

\* finalizar and revocar: both write ended_at once.
Finish(c) ==
    /\ loaded[c] # NoSupportCall
    /\ ~loaded[c].row.ended
    /\ rows' = [rows EXCEPT ![loaded[c].session].ended = TRUE]
    /\ Done(c)
    /\ UNCHANGED <<token, job, policy, now>>

\* obtener and entrar on a request nobody answered.
Lapse(c) ==
    /\ loaded[c] # NoSupportCall
    /\ loaded[c].row.status = "pending_approval"
    /\ loaded[c].row.answerBy < now
    /\ rows' = [rows EXCEPT ![loaded[c].session].status = "request_expired"]
    /\ Done(c)
    /\ UNCHANGED <<token, job, policy, now>>

\* entrar: a fresh token for a session that is active.
Enter(c) ==
    /\ loaded[c] # NoSupportCall
    /\ IsActive(loaded[c].row, now)
    /\ Issue(loaded[c].session, loaded[c].row.expires)
    /\ Done(c)
    /\ UNCHANGED <<rows, job, policy, now>>

\* aprobar looks at the time to answer before it looks at the status.
Late(row) == row.answerBy # 0 /\ row.answerBy < now

ApproveLate(c) ==
    /\ loaded[c] # NoSupportCall
    /\ Late(loaded[c].row)
    /\ rows' = [rows EXCEPT ![loaded[c].session].status = "request_expired"]
    /\ Done(c)
    /\ UNCHANGED <<token, job, policy, now>>

\* Mutant: the approval opens the session again.
ApproveAnew(c, minutes) ==
    /\ loaded[c] # NoSupportCall
    /\ ~Late(loaded[c].row)
    /\ loaded[c].row.status = "pending_approval"
    /\ LET s == loaded[c].session
       IN  rows' = [rows EXCEPT ![s] = [@ EXCEPT !.status  = "approved", !.ended = FALSE,
                                                 !.expires = now + minutes,
                                                 !.duration = minutes, !.consent = "company"]]
    /\ Done(c)
    /\ UNCHANGED <<token, job, policy, now>>

Approve(c, minutes) ==
    /\ loaded[c] # NoSupportCall
    /\ ~Late(loaded[c].row)
    /\ loaded[c].row.status = "pending_approval"
    /\ LET s == loaded[c].session
       IN  rows' = [rows EXCEPT ![s] = [@ EXCEPT !.status   = "approved",
                                                 !.expires  = now + minutes,
                                                 !.duration = minutes,
                                                 !.consent  = "company"]]
    /\ Done(c)
    /\ UNCHANGED <<token, job, policy, now>>

\* rechazar
Reject(c) ==
    /\ loaded[c] # NoSupportCall
    /\ loaded[c].row.status = "pending_approval"
    /\ rows' = [rows EXCEPT ![loaded[c].session] =
                   [@ EXCEPT !.status = "rejected", !.ended = TRUE]]
    /\ Done(c)
    /\ UNCHANGED <<token, job, policy, now>>

-----------------------------------------------------------------------------
\* The job support.expire: both selects, then one commit of what they found.
PastTime == {s \in Sessions : rows[s] # NoRow /\ ~rows[s].ended /\ rows[s].expires < now}
Unanswered == {s \in Sessions : rows[s].status = "pending_approval" /\ rows[s].answerBy < now}

JobRead ==
    /\ job = NoSupportCall
    /\ PastTime \union Unanswered # {}
    /\ job' = [past |-> PastTime, unanswered |-> Unanswered]
    /\ UNCHANGED <<rows, token, loaded, policy, now>>

\* Mutant: the job writes a status of its own.
JobCommitLapsed ==
    /\ job # NoSupportCall
    /\ rows' = [s \in Sessions |->
                  [rows[s] EXCEPT !.ended = @ \/ s \in job.past,
                                  !.status = IF s \in job.unanswered THEN "lapsed" ELSE @]]
    /\ job' = NoSupportCall
    /\ UNCHANGED <<token, loaded, policy, now>>

JobCommit ==
    /\ job # NoSupportCall
    /\ rows' = [s \in Sessions |->
                  [rows[s] EXCEPT !.ended = @ \/ s \in job.past,
                                  !.status = IF s \in job.unanswered THEN "expired" ELSE @]]
    /\ job' = NoSupportCall
    /\ UNCHANGED <<token, loaded, policy, now>>

\* actualizar_politica
SetPolicy ==
    /\ policy' \in Policies \ {policy}
    /\ UNCHANGED <<rows, token, loaded, job, now>>

Tick ==
    /\ now < MaxTime
    /\ now' = now + 1
    /\ UNCHANGED <<rows, token, loaded, job, policy>>

-----------------------------------------------------------------------------
SupportInit ==
    /\ rows = [s \in Sessions |-> NoRow]
    /\ token = [s \in Sessions |-> 0]
    /\ loaded = [c \in SupportCalls |-> NoSupportCall]
    /\ job = NoSupportCall
    /\ policy = "require_approval"
    /\ now = 0

Opening ==
    \E o \in Operators, s \in Sessions, d \in Durations :
        \/ \E mode \in Modes, consent \in BOOLEAN : Start(o, s, mode, d, consent)
        \/ Emergency(o, s, d)

Call(c) ==
    \/ \E s \in Sessions : Load(c, s) \/ Upgrade(c, s)
    \/ \E d \in Durations : Extend(c, d) \/ Approve(c, d)
    \/ Finish(c) \/ Lapse(c) \/ Enter(c) \/ ApproveLate(c) \/ Reject(c) \/ Drop(c)

SupportNext ==
    \/ Opening
    \/ \E c \in SupportCalls : Call(c)
    \/ JobRead \/ JobCommit
    \/ SetPolicy \/ Tick

SupportSpec == SupportInit /\ [][SupportNext]_supportVars

-----------------------------------------------------------------------------
Statuses == {"none", "pending_approval", "active", "approved", "rejected",
             "request_expired", "expired"}
RowType == [status : Statuses, mode : Modes, operator : Operators \union {NoSupportCall},
            expires : Nat, answerBy : Nat, duration : Nat,
            ended : BOOLEAN, consent : {"none", "policy", "direct", "emergency", "company"}]

SupportTypeOK ==
    /\ rows \in [Sessions -> RowType]
    /\ token \in [Sessions -> Nat]
    /\ loaded \in [SupportCalls ->
           {NoSupportCall} \union [session : Sessions, row : RowType]]
    /\ job \in {NoSupportCall} \union
           [past : SUBSET Sessions, unanswered : SUBSET Sessions]
    /\ policy \in Policies /\ now \in Nat

\* Whoever can change a company's data through a support token was let in by
\* that company, or in an emergency, or by the route that asks nobody: never
\* by a request still waiting, and never because the policy exempts reading.
ConsentBehindWrites ==
    \A s \in Sessions :
        Admitted(s, TRUE) => rows[s].consent \in {"company", "emergency", "direct"}

\* No session ever has more than four hours left: extensions add up to that at
\* most, also when calls that read the row at different times commit on it.
TimeBounded ==
    \A s \in Sessions : rows[s].expires - now <= MaxDuration

\* A session that was ended (by its operator, a revocation, a refusal, the
\* job or the next session) never admits anyone again: a call that read the
\* row before does not bring it back.
EndedForGood ==
    [][\A s \in Sessions : rows[s].ended => rows'[s].ended]_supportVars

=============================================================================

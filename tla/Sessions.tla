------------------------------ MODULE Sessions ------------------------------
(***************************************************************************)
(* Sessions of the operator (api/v1/auth.py, api/v1/security_ops.py): a    *)
(* refresh cookie names a row of auth_sessions, each refresh replaces the  *)
(* row by another one of its family, and a family is revoked as a whole.   *)
(*                                                                         *)
(* Requests of several tabs overlap; tabs of one browser share its cookie  *)
(* jar, which changes when an answer arrives.  A refresh locks its row; a  *)
(* bulk revocation sees the rows that are live when its statement starts   *)
(* and waits for those that are locked.  The password, the second factor   *)
(* and the access token are guards that always hold here.                  *)
(***************************************************************************)
EXTENDS Naturals, Sequences, FiniteSets

CONSTANTS
  Tabs, Browsers,
  BrowserOf,       \* [Tabs -> Browsers]
  MaxSessions

ASSUME SessionAssumption ==
  MaxSessions \in Nat /\ IsFiniteSet(Tabs) /\ BrowserOf \in [Tabs -> Browsers]

VARIABLES
  sessions,  \* AuthSession rows
  jar,       \* browser -> the row its refresh cookie names, 0 for no cookie
  requests   \* tab -> its request in flight

sessionVars == <<sessions, jar, requests>>

SessionIds == 0..MaxSessions
NoRequest == [step |-> "idle", op |-> "refresh", row |-> 0, seen |-> {}]

SessionTypeOK ==
  /\ sessions \in Seq([family : 1..MaxSessions, revoked : BOOLEAN, expired : BOOLEAN])
  /\ Len(sessions) <= MaxSessions
  /\ jar \in [Browsers -> SessionIds]
  /\ requests \in [Tabs -> [step : {"idle", "sent", "locked", "revoking", "answered"},
                            op : {"login", "refresh", "logout", "dismiss"},
                            row : SessionIds, seen : SUBSET (1..MaxSessions)]]

SessionInit ==
  /\ sessions = <<>> /\ jar = [b \in Browsers |-> 0]
  /\ requests = [t \in Tabs |-> NoRequest]

LiveRows(family) ==
  {i \in DOMAIN sessions : sessions[i].family = family /\ ~sessions[i].revoked}
Begin(t, request) == requests[t].step = "idle" /\ requests' = [requests EXCEPT ![t] = request]
Advance(t, step) == requests' = [requests EXCEPT ![t].step = step]
\* A refresh holds its row from the SELECT ... FOR UPDATE to its commit.
HeldBy(t, i) == requests[t].op = "refresh" /\ requests[t].row = i
                /\ requests[t].step \in {"locked", "revoking"}
Room == Len(sessions) + Cardinality({t \in Tabs : requests[t].step = "locked"}) < MaxSessions

-----------------------------------------------------------------------------
\* login opens a family.
LogIn(t) ==
  LET new == Len(sessions) + 1 IN
  /\ Room
  /\ sessions' = Append(sessions, [family |-> new, revoked |-> FALSE, expired |-> FALSE])
  /\ Begin(t, [step |-> "answered", op |-> "login", row |-> new, seen |-> {}])
  /\ UNCHANGED jar

SendRefresh(t) ==
  LET i == jar[BrowserOf[t]] IN
  /\ i # 0
  /\ Begin(t, [step |-> "sent", op |-> "refresh", row |-> i, seen |-> {}])
  /\ UNCHANGED <<sessions, jar>>

\* Mutant of RowFree: the row is read without a lock.
RowAnyway(t, i) == TRUE

RowFree(t, i) == \A u \in Tabs \ {t} : ~HeldBy(u, i)

\* refresh reads its row under the lock: usable, or the family is revoked.
LockSession(t) ==
  LET i == requests[t].row
      usable == ~sessions[i].revoked /\ ~sessions[i].expired
  IN  /\ requests[t].step = "sent" /\ RowFree(t, i)
      /\ IF usable THEN Room /\ Advance(t, "locked")
         ELSE requests' = [requests EXCEPT ![t].step = "revoking",
                                           ![t].seen = LiveRows(sessions[i].family)]
      /\ UNCHANGED <<sessions, jar>>

ReplaceSession(t) ==
  LET i == requests[t].row
      new == [family |-> sessions[i].family, revoked |-> FALSE, expired |-> FALSE]
  IN  /\ requests[t].step = "locked"
      /\ sessions' = Append([sessions EXCEPT ![i].revoked = TRUE], new)
      /\ requests' = [requests EXCEPT ![t].step = "answered", ![t].row = Len(sessions) + 1]
      /\ UNCHANGED jar

-----------------------------------------------------------------------------
\* revoke (the logout of the tab's own family) and revoke_session of another one.
LogOut(t) ==
  LET i == jar[BrowserOf[t]] IN
  /\ i # 0
  /\ Begin(t, [step |-> "revoking", op |-> "logout", row |-> 0,
               seen |-> LiveRows(sessions[i].family)])
  /\ UNCHANGED <<sessions, jar>>

DismissFamily(t, family) ==
  LET i == jar[BrowserOf[t]] IN
  /\ i # 0 /\ LiveRows(family) # {} /\ sessions[i].family # family
  /\ Begin(t, [step |-> "revoking", op |-> "dismiss", row |-> 0, seen |-> LiveRows(family)])
  /\ UNCHANGED <<sessions, jar>>

\* The bulk update; a row that was replaced in between is revoked already, and
\* its replacement is not among the rows the statement saw.
RevokeFamily(t) ==
  /\ requests[t].step = "revoking"
  /\ \A i \in requests[t].seen : RowFree(t, i)
  /\ sessions' = [i \in DOMAIN sessions |->
       IF i \in requests[t].seen THEN [sessions[i] EXCEPT !.revoked = TRUE] ELSE sessions[i]]
  /\ requests' = [requests EXCEPT ![t] = [NoRequest EXCEPT !.step = "answered", !.op = requests[t].op]]
  /\ UNCHANGED jar

\* The transaction fails: nothing is written.
AbortRequest(t) ==
  /\ requests[t].step \in {"sent", "locked", "revoking"}
  /\ requests' = [requests EXCEPT ![t] = NoRequest]
  /\ UNCHANGED <<sessions, jar>>

-----------------------------------------------------------------------------
\* The answer arrives: it sets the cookie, or clears whatever cookie is there.
ReceiveAnswer(t) ==
  /\ requests[t].step = "answered"
  /\ jar' = IF requests[t].op = "dismiss" THEN jar
            ELSE [jar EXCEPT ![BrowserOf[t]] = requests[t].row]
  /\ requests' = [requests EXCEPT ![t] = NoRequest]
  /\ UNCHANGED sessions

LoseAnswer(t) ==
  /\ requests[t].step = "answered"
  /\ requests' = [requests EXCEPT ![t] = NoRequest]
  /\ UNCHANGED <<sessions, jar>>

ExpireSession(i) ==
  /\ ~sessions[i].expired /\ ~sessions[i].revoked
  /\ sessions' = [sessions EXCEPT ![i].expired = TRUE]
  /\ UNCHANGED <<jar, requests>>

SessionNext ==
  \/ \E t \in Tabs :
       \/ LogIn(t) \/ SendRefresh(t) \/ LockSession(t) \/ ReplaceSession(t)
       \/ LogOut(t) \/ RevokeFamily(t) \/ AbortRequest(t) \/ ReceiveAnswer(t) \/ LoseAnswer(t)
       \/ \E i \in DOMAIN sessions : DismissFamily(t, sessions[i].family)
  \/ \E i \in DOMAIN sessions : ExpireSession(i)

SessionSpec == SessionInit /\ [][SessionNext]_sessionVars

-----------------------------------------------------------------------------
\* A family has at most one session that can be refreshed, however refreshes,
\* logouts and revocations of its tabs overlap and whichever answers are lost
\* (refresh, which replaces a row under its lock).
OneLiveSession ==
  \A i, j \in DOMAIN sessions :
    sessions[i].family = sessions[j].family /\ ~sessions[i].revoked /\ ~sessions[j].revoked => i = j
=============================================================================

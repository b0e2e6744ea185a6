------------------------ MODULE AdministrationProofs ------------------------
(***************************************************************************)
(* Theorems about the components that administer the panel itself:         *)
(* Sessions, SystemOperations and PanelRelease, which share no state.      *)
(***************************************************************************)
EXTENDS Sessions, SystemOperations, PanelRelease, SequenceTheorems, FiniteSetTheorems, TLAPS

-----------------------------------------------------------------------------
(* Numbers and tables.                                                     *)

\* A table as it is, with a row appended, and with a row overwritten.
LEMMA SeqRows ==
  ASSUME NEW S, NEW q \in Seq(S)
  PROVE  DOMAIN q = 1..Len(q) /\ Len(q) \in Nat /\ \A i \in DOMAIN q : q[i] \in S
BY LenProperties, ElementOfSeq

LEMMA SeqAppended ==
  ASSUME NEW S, NEW q \in Seq(S), NEW x \in S, NEW p, p = Append(q, x)
  PROVE  /\ p \in Seq(S) /\ Len(p) = Len(q) + 1 /\ DOMAIN p = DOMAIN q \cup {Len(p)}
         /\ p[Len(p)] = x /\ \A i \in DOMAIN q : p[i] = q[i] /\ i # Len(p)
BY AppendProperties, SeqRows

LEMMA SeqWritten ==
  ASSUME NEW S, NEW q \in Seq(S), NEW i \in DOMAIN q, NEW x \in S, NEW p, p = [q EXCEPT ![i] = x]
  PROVE  /\ p \in Seq(S) /\ DOMAIN p = DOMAIN q
         /\ \A j \in DOMAIN q : p[j] = IF j = i THEN x ELSE q[j]
BY ExceptSeq, SeqRows

-----------------------------------------------------------------------------
(***************************************************************************)
(* Sessions, for any tabs, browsers and number of sessions: the types, and *)
(* that a family has at most one session that can be refreshed.            *)
(***************************************************************************)

SessionRow == [family : 1..MaxSessions, revoked : BOOLEAN, expired : BOOLEAN]
TabRequest == [step : {"idle", "sent", "locked", "revoking", "answered"},
            op : {"login", "refresh", "logout", "dismiss"},
            row : SessionIds, seen : SUBSET (1..MaxSessions)]
Locked == {t \in Tabs : requests[t].step = "locked"}

\* Cookies and requests name rows that exist, and a family is named after its
\* first row.
Located ==
  /\ \A b \in Browsers : jar[b] <= Len(sessions)
  /\ \A t \in Tabs : /\ requests[t].row <= Len(sessions)
                     /\ requests[t].step \in {"sent", "locked"} => requests[t].row # 0
  /\ \A i \in DOMAIN sessions : sessions[i].family <= Len(sessions)

\* A locked row is not revoked, and one tab holds it.
Holding ==
  /\ \A t \in Locked : requests[t].op = "refresh" /\ ~sessions[requests[t].row].revoked
  /\ \A t, u \in Locked : requests[t].row = requests[u].row => t = u

\* What waits for a row's lock is a refresh.
Asking == \A t \in Tabs : requests[t].step = "sent" => requests[t].op = "refresh"

\* Each locked row has room for its replacement.
Reserved == Len(sessions) + Cardinality(Locked) <= MaxSessions

\* The inductive invariant.
SessionInv == SessionTypeOK /\ Located /\ Holding /\ Asking /\ Reserved /\ OneLiveSession

-----------------------------------------------------------------------------
(* Facts the steps share.                                                   *)

LEMMA SessionRows ==
  ASSUME NEW rows \in Seq(SessionRow)
  PROVE  /\ DOMAIN rows = 1..Len(rows) /\ Len(rows) \in Nat
         /\ \A i \in DOMAIN rows : rows[i] \in SessionRow
<1>1. DOMAIN rows = 1..Len(rows) /\ Len(rows) \in Nat
    BY LenProperties
<1> QED
    BY <1>1, ElementOfSeq

LEMMA SessionTypes ==
  ASSUME SessionTypeOK
  PROVE  /\ sessions \in Seq(SessionRow) /\ Len(sessions) <= MaxSessions
         /\ DOMAIN sessions = 1..Len(sessions) /\ Len(sessions) \in Nat
         /\ \A i \in DOMAIN sessions : sessions[i] \in SessionRow
         /\ jar \in [Browsers -> SessionIds]
         /\ requests \in [Tabs -> TabRequest]
<1>1. /\ sessions \in Seq(SessionRow) /\ Len(sessions) <= MaxSessions
      /\ jar \in [Browsers -> SessionIds]
      /\ requests \in [Tabs -> TabRequest]
    BY DEF SessionTypeOK, SessionRow, TabRequest
<1> QED
    BY <1>1, SessionRows

LEMMA LockedFinite == IsFiniteSet(Locked) /\ Cardinality(Locked) \in Nat
<1>1. Locked \subseteq Tabs /\ IsFiniteSet(Tabs)
    BY SessionAssumption DEF Locked
<1>2. IsFiniteSet(Locked)
    BY <1>1, FS_Subset
<1> QED
    BY <1>2, FS_CardinalityType

\* A step that adds no row and locks none keeps the invariant, when it brings
\* no row back and revokes none that stays locked.
LEMMA QuietSession ==
  ASSUME SessionInv,
         sessions' \in Seq(SessionRow), Len(sessions') = Len(sessions),
         \A i \in DOMAIN sessions : /\ sessions'[i].family = sessions[i].family
                                    /\ sessions[i].revoked => sessions'[i].revoked,
         jar' \in [Browsers -> SessionIds], \A b \in Browsers : jar'[b] <= Len(sessions),
         requests' \in [Tabs -> TabRequest],
         \A u \in Tabs : /\ requests'[u].row <= Len(sessions)
                         /\ requests'[u].step \in {"sent", "locked"} => requests'[u].row # 0,
         \A u \in Tabs : requests'[u].step = "locked" =>
                           requests'[u] = requests[u] /\ ~sessions'[requests[u].row].revoked,
         \A u \in Tabs : requests'[u].step = "sent" => requests'[u].op = "refresh"
  PROVE  SessionInv'
<1>t. /\ Len(sessions) <= MaxSessions /\ DOMAIN sessions = 1..Len(sessions) /\ Len(sessions) \in Nat
      /\ DOMAIN sessions' = 1..Len(sessions')
    BY SessionTypes, SessionRows DEF SessionInv
<1>1. SessionTypeOK'
    BY <1>t DEF SessionTypeOK, SessionRow, TabRequest
<1>2. Located'
    BY <1>t DEF SessionInv, Located
<1>3. Locked' \subseteq Locked
    BY DEF Locked
<1>4. Holding'
    BY <1>3 DEF SessionInv, Holding, Locked
<1>5. Cardinality(Locked') <= Cardinality(Locked) /\ Cardinality(Locked') \in Nat
      /\ Cardinality(Locked) \in Nat
    BY <1>3, LockedFinite, FS_Subset, FS_CardinalityType
<1>6. Reserved'
    BY <1>5, <1>t, SessionAssumption DEF SessionInv, Reserved
<1>7. OneLiveSession'
    BY <1>t DEF SessionInv, OneLiveSession
<1>8. Asking'
    BY DEF Asking
<1> QED
    BY <1>1, <1>2, <1>4, <1>6, <1>7, <1>8 DEF SessionInv

LEMMA SessionInitInv == SessionInit => SessionInv
<1> SUFFICES ASSUME SessionInit PROVE SessionInv
    OBVIOUS
<1>1. sessions \in Seq(SessionRow) /\ Len(sessions) = 0 /\ DOMAIN sessions = {}
    BY EmptySeq DEF SessionInit
<1>2. jar \in [Browsers -> SessionIds] /\ \A b \in Browsers : jar[b] = 0
    BY SessionAssumption DEF SessionInit, SessionIds
<1>3. NoRequest \in TabRequest
    BY SessionAssumption DEF NoRequest, TabRequest, SessionIds
<1>4. requests \in [Tabs -> TabRequest] /\ \A t \in Tabs : requests[t] = NoRequest
    BY <1>3 DEF SessionInit
<1>5. Locked = {}
    BY <1>4 DEF Locked, NoRequest
<1>6. SessionTypeOK
    BY <1>1, <1>2, <1>4, SessionAssumption DEF SessionTypeOK, SessionRow, TabRequest
<1>7. Located
    BY <1>1, <1>2, <1>4 DEF Located, NoRequest
<1>8. Holding
    BY <1>5 DEF Holding
<1>9. Reserved
    BY <1>1, <1>5, FS_EmptySet, SessionAssumption DEF Reserved
<1>10. OneLiveSession
    BY <1>1 DEF OneLiveSession
<1>11. Asking
    BY <1>4 DEF Asking, NoRequest
<1> QED
    BY <1>6, <1>7, <1>8, <1>9, <1>10, <1>11 DEF SessionInv

-----------------------------------------------------------------------------
(* The three steps that lock or add a row.                                  *)

LEMMA LogInInv == ASSUME SessionInv, NEW t \in Tabs, LogIn(t) PROVE SessionInv'
<1> DEFINE new == Len(sessions) + 1
           row == [family |-> new, revoked |-> FALSE, expired |-> FALSE]
           answer == [step |-> "answered", op |-> "login", row |-> new, seen |-> {}]
<1>t. /\ sessions \in Seq(SessionRow) /\ DOMAIN sessions = 1..Len(sessions) /\ Len(sessions) \in Nat
      /\ \A i \in DOMAIN sessions : sessions[i] \in SessionRow
      /\ requests \in [Tabs -> TabRequest] /\ MaxSessions \in Nat
    BY SessionTypes, SessionAssumption DEF SessionInv
<1>0. /\ Len(sessions) + Cardinality(Locked) < MaxSessions
      /\ sessions' = Append(sessions, row)
      /\ requests[t].step = "idle" /\ requests' = [requests EXCEPT ![t] = answer]
      /\ jar' = jar
    BY DEF LogIn, Room, Begin, Locked
<1>1. Cardinality(Locked) \in Nat /\ new \in 1..MaxSessions
    BY <1>0, <1>t, LockedFinite
<1>2. row \in SessionRow /\ row.family = new /\ row.revoked = FALSE
    BY <1>1 DEF SessionRow
<1>3. answer \in TabRequest /\ answer.step = "answered" /\ answer.row = new
    BY <1>1 DEF TabRequest, SessionIds
<1> HIDE DEF row, answer
<1>4. /\ sessions' \in Seq(SessionRow) /\ Len(sessions') = new
      /\ \A i \in 1..Len(sessions) : sessions'[i] = sessions[i]
      /\ sessions'[new] = row
    BY <1>0, <1>2, <1>t, AppendProperties
<1>5. DOMAIN sessions' = 1..new
    BY <1>4, SessionRows
<1>6. /\ requests' \in [Tabs -> TabRequest] /\ requests'[t] = answer
      /\ \A u \in Tabs \ {t} : requests'[u] = requests[u]
    BY <1>0, <1>3, <1>t
<1>7. Locked' = Locked
    BY <1>6, <1>3, <1>0 DEF Locked
<1>8. SessionTypeOK'
    BY <1>0, <1>1, <1>4, <1>6 DEF SessionInv, SessionTypeOK, SessionRow, TabRequest
<1>9. Located'
    <2>1. \A b \in Browsers : jar'[b] <= new
        BY <1>0, <1>t, SessionTypes DEF SessionInv, Located, SessionIds
    <2>2. \A u \in Tabs : /\ requests'[u].row <= new
                          /\ requests'[u].step \in {"sent", "locked"} => requests'[u].row # 0
        BY <1>6, <1>3, <1>t DEF SessionInv, Located, TabRequest, SessionIds
    <2>3. ASSUME NEW i \in 1..new PROVE sessions'[i].family <= new
        <3>1. CASE i = new
            BY <3>1, <1>4, <1>2, <1>t
        <3>2. CASE i # new
            <4>1. i \in 1..Len(sessions)
                BY <3>2, <1>t
            <4>2. sessions[i].family \in Nat /\ sessions[i].family <= Len(sessions)
                BY <4>1, <1>t DEF SessionInv, Located, SessionRow
            <4> QED
                BY <4>1, <4>2, <1>4, <1>t
        <3> QED
            BY <3>1, <3>2
    <2> QED
        BY <2>1, <2>2, <2>3, <1>4, <1>5 DEF Located
<1>10. Holding'
    <2>1. \A u \in Locked : requests'[u] = requests[u] /\ requests[u].row \in 1..Len(sessions)
        BY <1>6, <1>0, <1>t DEF SessionInv, Located, Locked, TabRequest, SessionIds
    <2> QED
        BY <2>1, <1>4, <1>7 DEF SessionInv, Holding
<1>11. Reserved'
    BY <1>0, <1>1, <1>4, <1>7, <1>t DEF Reserved
<1>12. OneLiveSession'
    <2>1. \A i \in 1..Len(sessions) : sessions'[i].family <= Len(sessions)
        BY <1>4, <1>t DEF SessionInv, Located
    <2>2. \A i \in 1..Len(sessions) : sessions'[i].family # sessions'[new].family
        BY <2>1, <1>4, <1>2, <1>t DEF SessionRow
    <2> QED
        BY <2>2, <1>4, <1>5, <1>t DEF SessionInv, OneLiveSession
<1>13. Asking'
    BY <1>3, <1>6 DEF SessionInv, Asking
<1> QED
    BY <1>8, <1>9, <1>10, <1>11, <1>12, <1>13 DEF SessionInv

\* A tab whose request is not idle names a row.
LEMMA FamilyNamed ==
  ASSUME SessionInv, NEW t \in Tabs, requests[t].step \in {"sent", "locked"}
  PROVE  requests[t].row \in 1..Len(sessions) /\ sessions[requests[t].row] \in SessionRow
<1>1. requests[t].row \in Nat /\ requests[t].row <= Len(sessions) /\ requests[t].row # 0
    BY SessionTypes DEF SessionInv, Located, TabRequest, SessionIds
<1> QED
    BY <1>1, SessionTypes DEF SessionInv

LEMMA LockInv ==
  ASSUME SessionInv, NEW t \in Tabs, requests[t].step = "sent", RowFree(t, requests[t].row),
         requests[t].op = "refresh", ~sessions[requests[t].row].revoked,
         Room, Advance(t, "locked"), UNCHANGED <<sessions, jar>>
  PROVE  SessionInv'
<1>t. /\ sessions \in Seq(SessionRow) /\ DOMAIN sessions = 1..Len(sessions) /\ Len(sessions) \in Nat
      /\ requests \in [Tabs -> TabRequest] /\ MaxSessions \in Nat
    BY SessionTypes, SessionAssumption DEF SessionInv
<1>0. /\ Len(sessions) + Cardinality(Locked) < MaxSessions
      /\ requests' = [requests EXCEPT ![t].step = "locked"]
      /\ jar' = jar /\ sessions' = sessions
    BY DEF Room, Advance, Locked
<1>1. PICK r \in TabRequest : r = [requests[t] EXCEPT !.step = "locked"]
    BY <1>t DEF TabRequest
<1>2. r.row = requests[t].row /\ r.op = "refresh" /\ r.step = "locked"
    BY <1>1, <1>t DEF TabRequest
<1>3. /\ requests' \in [Tabs -> TabRequest] /\ requests'[t] = r
      /\ \A u \in Tabs \ {t} : requests'[u] = requests[u]
    BY <1>0, <1>1, <1>t
<1>4. Locked' = Locked \cup {t} /\ t \notin Locked
    BY <1>3, <1>2 DEF Locked
<1>5. Cardinality(Locked') = Cardinality(Locked) + 1 /\ Cardinality(Locked) \in Nat
    BY <1>4, LockedFinite, FS_AddElement
<1>6. SessionTypeOK'
    BY <1>0, <1>3 DEF SessionInv, SessionTypeOK, SessionRow, TabRequest
<1>7. Located'
    BY <1>0, <1>2, <1>3 DEF SessionInv, Located
<1>8. Holding'
    <2>1. \A u \in Locked : requests'[u] = requests[u] /\ requests[u].row # requests[t].row
        BY <1>3, <1>4 DEF SessionInv, Holding, Locked, RowFree, HeldBy
    <2> QED
        BY <2>1, <1>0, <1>2, <1>3, <1>4 DEF SessionInv, Holding
<1>9. Reserved'
    BY <1>0, <1>5, <1>t DEF Reserved
<1>10. OneLiveSession'
    BY <1>0 DEF SessionInv, OneLiveSession
<1>11. Asking'
    BY <1>2, <1>3 DEF SessionInv, Asking
<1> QED
    BY <1>6, <1>7, <1>8, <1>9, <1>10, <1>11 DEF SessionInv

LEMMA ReplaceInv == ASSUME SessionInv, NEW t \in Tabs, ReplaceSession(t) PROVE SessionInv'
<1> DEFINE i == requests[t].row
           new == Len(sessions) + 1
           row == [family |-> sessions[i].family, revoked |-> FALSE, expired |-> FALSE]
           old == [sessions[i] EXCEPT !.revoked = TRUE]
           rest == [sessions EXCEPT ![i] = old]
<1>t. /\ sessions \in Seq(SessionRow) /\ DOMAIN sessions = 1..Len(sessions) /\ Len(sessions) \in Nat
      /\ \A j \in DOMAIN sessions : sessions[j] \in SessionRow
      /\ requests \in [Tabs -> TabRequest] /\ MaxSessions \in Nat
    BY SessionTypes, SessionAssumption DEF SessionInv
<1>0. /\ requests[t].step = "locked"
      /\ sessions' = Append(rest, row)
      /\ requests' = [requests EXCEPT ![t].step = "answered", ![t].row = new]
      /\ jar' = jar
    BY DEF ReplaceSession
<1>i. i \in 1..Len(sessions) /\ sessions[i] \in SessionRow /\ sessions[i].family \in 1..MaxSessions
    BY <1>0, FamilyNamed DEF SessionRow
<1>1. t \in Locked /\ ~sessions[i].revoked
    BY <1>0 DEF SessionInv, Holding, Locked
<1>2. row \in SessionRow /\ row.family = sessions[i].family /\ row.revoked = FALSE
    BY <1>i DEF SessionRow
<1>3. old \in SessionRow /\ old.family = sessions[i].family /\ old.revoked = TRUE
    BY <1>i DEF SessionRow
<1> HIDE DEF row, old
<1>4. /\ rest \in Seq(SessionRow) /\ Len(rest) = Len(sessions) /\ rest[i] = old
      /\ \A j \in 1..Len(sessions) : j # i => rest[j] = sessions[j]
    BY <1>3, <1>i, <1>t, ExceptSeq
<1> HIDE DEF rest
<1>5. /\ sessions' \in Seq(SessionRow) /\ Len(sessions') = new
      /\ \A j \in 1..Len(sessions) : sessions'[j] = rest[j]
      /\ sessions'[new] = row
    BY <1>0, <1>2, <1>4, AppendProperties
<1>6. DOMAIN sessions' = 1..new
    BY <1>5, SessionRows
<1>7. Locked \ {t} \subseteq Locked
    OBVIOUS
<1>8. Cardinality(Locked \ {t}) = Cardinality(Locked) - 1 /\ Cardinality(Locked) \in Nat
    BY <1>1, LockedFinite, FS_RemoveElement
<1>n. Len(sessions) + Cardinality(Locked) <= MaxSessions /\ 1 <= Cardinality(Locked)
    <2>1. IsFiniteSet(Locked \ {t})
        BY LockedFinite, FS_Subset
    <2>2. Cardinality(Locked \ {t}) \in Nat
        BY <2>1, FS_CardinalityType
    <2> QED
        BY <1>8, <2>2 DEF SessionInv, Reserved
<1>9. new \in 1..MaxSessions
    BY <1>n, <1>8, <1>t
<1>10. PICK r \in TabRequest : r = [requests[t] EXCEPT !.step = "answered", !.row = new]
    <2>1. requests[t] \in TabRequest /\ new \in SessionIds
        BY <1>t, <1>9 DEF SessionIds
    <2> HIDE DEF new
    <2>2. [requests[t] EXCEPT !.step = "answered", !.row = new] \in TabRequest
        BY <2>1 DEF TabRequest
    <2> QED
        BY <2>2
<1>11. r.row = new /\ r.step = "answered"
    BY <1>10, <1>t DEF TabRequest
<1>12. /\ requests' \in [Tabs -> TabRequest] /\ requests'[t] = r
       /\ \A u \in Tabs \ {t} : requests'[u] = requests[u]
    BY <1>0, <1>10, <1>t
<1>13. Locked' = Locked \ {t}
    BY <1>12, <1>11 DEF Locked
<1>14. SessionTypeOK'
    BY <1>0, <1>5, <1>9, <1>12 DEF SessionInv, SessionTypeOK, SessionRow, TabRequest
<1>15. Located'
    <2>1. \A b \in Browsers : jar'[b] <= new
        BY <1>0, <1>t, SessionTypes DEF SessionInv, Located, SessionIds
    <2>2. \A u \in Tabs : /\ requests'[u].row <= new
                          /\ requests'[u].step \in {"sent", "locked"} => requests'[u].row # 0
        BY <1>12, <1>11, <1>9, <1>t DEF SessionInv, Located, TabRequest, SessionIds
    <2>3. \A j \in 1..Len(sessions) : sessions[j].family \in Nat /\ sessions[j].family <= Len(sessions)
        BY <1>t DEF SessionInv, Located, SessionRow
    <2>4. ASSUME NEW j \in 1..new PROVE sessions'[j].family <= new
        <3>1. CASE j = new
            BY <3>1, <2>3, <1>2, <1>5, <1>i, <1>t
        <3>2. CASE j # new
            <4>1. j \in 1..Len(sessions) /\ sessions'[j] = rest[j]
                BY <3>2, <1>5, <1>t
            <4>2. rest[j].family = sessions[j].family
                BY <4>1, <1>3, <1>4
            <4> QED
                BY <4>1, <4>2, <2>3, <1>t
        <3> QED
            BY <3>1, <3>2
    <2> QED
        BY <2>1, <2>2, <2>4, <1>5, <1>6 DEF Located
<1>16. Holding'
    <2>1. \A u \in Locked \ {t} : /\ requests'[u] = requests[u] /\ requests[u].row # i
                                  /\ requests[u].row \in 1..Len(sessions)
        <3> SUFFICES ASSUME NEW u \in Locked \ {t}
                     PROVE  /\ requests'[u] = requests[u] /\ requests[u].row # i
                            /\ requests[u].row \in 1..Len(sessions)
            OBVIOUS
        <3>1. u \in Tabs /\ requests[u].step = "locked"
            BY DEF Locked
        <3> QED
            BY <3>1, <1>1, <1>12, FamilyNamed DEF SessionInv, Holding
    <2>2. \A u \in Locked \ {t} : sessions'[requests[u].row] = sessions[requests[u].row]
        BY <2>1, <1>4, <1>5
    <2> QED
        BY <2>1, <2>2, <1>13 DEF SessionInv, Holding
<1>17. Reserved'
    BY <1>5, <1>8, <1>13, <1>n, <1>t DEF Reserved
<1>18. OneLiveSession'
    <2>1. sessions'[i].revoked /\ sessions'[new].family = sessions[i].family
        BY <1>2, <1>3, <1>4, <1>5, <1>i
    <2>2. \A j \in 1..Len(sessions) : j # i => sessions'[j] = sessions[j]
        BY <1>4, <1>5
    <2>3. \A j \in 1..Len(sessions) :
             j # i /\ sessions[j].family = sessions[i].family => sessions[j].revoked
        BY <1>1, <1>i, <1>t DEF SessionInv, OneLiveSession
    <2>4. \A j, k \in 1..Len(sessions) :
             sessions[j].family = sessions[k].family /\ ~sessions[j].revoked /\ ~sessions[k].revoked
             => j = k
        BY <1>t DEF SessionInv, OneLiveSession
    <2>5. ASSUME NEW j \in 1..new, NEW k \in 1..new, sessions'[j].family = sessions'[k].family,
                 ~sessions'[j].revoked, ~sessions'[k].revoked
          PROVE  j = k
        <3>1. j # i /\ k # i
            BY <2>1, <2>5
        <3>2. j \in 1..Len(sessions) \/ j = new
            BY <1>t
        <3>3. k \in 1..Len(sessions) \/ k = new
            BY <1>t
        <3> QED
            BY <3>1, <3>2, <3>3, <2>1, <2>2, <2>3, <2>4, <2>5
    <2> QED
        BY <2>5, <1>6 DEF OneLiveSession
<1>19. Asking'
    BY <1>11, <1>12 DEF SessionInv, Asking
<1> QED
    BY <1>14, <1>15, <1>16, <1>17, <1>18, <1>19 DEF SessionInv

-----------------------------------------------------------------------------
(* The other steps are quiet.                                               *)

\* A tab's step that leaves the rows and the cookies alone and locks nothing.
LEMMA AskInv ==
  ASSUME SessionInv, NEW t \in Tabs, NEW r \in TabRequest, requests' = [requests EXCEPT ![t] = r],
         r.row <= Len(sessions), r.step \in {"sent", "locked"} => r.row # 0,
         r.step # "locked", r.step = "sent" => r.op = "refresh", UNCHANGED <<sessions, jar>>
  PROVE  SessionInv'
<1>t. /\ sessions \in Seq(SessionRow) /\ jar \in [Browsers -> SessionIds]
      /\ requests \in [Tabs -> TabRequest]
    BY SessionTypes DEF SessionInv
<1>1. /\ requests' \in [Tabs -> TabRequest] /\ requests'[t] = r
      /\ \A u \in Tabs \ {t} : requests'[u] = requests[u]
    BY <1>t
<1>2. \A u \in Tabs : requests'[u].step = "locked" =>
        requests'[u] = requests[u] /\ ~sessions'[requests[u].row].revoked
    BY <1>1 DEF SessionInv, Holding, Locked
<1>3. \A u \in Tabs : /\ requests'[u].row <= Len(sessions)
                      /\ requests'[u].step \in {"sent", "locked"} => requests'[u].row # 0
    BY <1>1 DEF SessionInv, Located
<1>4. \A b \in Browsers : jar'[b] <= Len(sessions)
    BY DEF SessionInv, Located
<1>5. \A u \in Tabs : requests'[u].step = "sent" => requests'[u].op = "refresh"
    BY <1>1 DEF SessionInv, Asking
<1> QED
    BY <1>t, <1>1, <1>2, <1>3, <1>4, <1>5, QuietSession

LEMMA SessionStepInv == SessionInv /\ [SessionNext]_sessionVars => SessionInv'
<1> SUFFICES ASSUME SessionInv, [SessionNext]_sessionVars PROVE SessionInv'
    OBVIOUS
<1>t. /\ sessions \in Seq(SessionRow) /\ Len(sessions) <= MaxSessions
      /\ DOMAIN sessions = 1..Len(sessions) /\ Len(sessions) \in Nat
      /\ \A i \in DOMAIN sessions : sessions[i] \in SessionRow
      /\ jar \in [Browsers -> SessionIds] /\ requests \in [Tabs -> TabRequest]
    BY SessionTypes DEF SessionInv
<1>m. MaxSessions \in Nat /\ BrowserOf \in [Tabs -> Browsers]
    BY SessionAssumption
<1>n. NoRequest \in TabRequest /\ NoRequest.row = 0 /\ NoRequest.step = "idle"
    BY <1>m DEF NoRequest, TabRequest, SessionIds
<1>j. \A b \in Browsers : jar[b] \in 0..Len(sessions)
    BY <1>t, <1>m DEF SessionInv, Located, SessionIds
<1>l. \A family : LiveRows(family) \subseteq 1..MaxSessions
    BY <1>t, <1>m DEF LiveRows
<1>r. \A t \in Tabs : requests[t].row \in 0..Len(sessions)
    BY <1>t, <1>m DEF SessionInv, Located, TabRequest, SessionIds
<1>1. ASSUME NEW t \in Tabs, LogIn(t) PROVE SessionInv'
    BY <1>1, LogInInv
<1>2. ASSUME NEW t \in Tabs, SendRefresh(t) PROVE SessionInv'
    <2> DEFINE r == [step |-> "sent", op |-> "refresh", row |-> jar[BrowserOf[t]], seen |-> {}]
    <2>1. r \in TabRequest /\ r.row <= Len(sessions) /\ r.row # 0 /\ r.step # "locked"
        BY <1>2, <1>j, <1>m, <1>t DEF SendRefresh, TabRequest, SessionIds
    <2>2. requests' = [requests EXCEPT ![t] = r] /\ UNCHANGED <<sessions, jar>>
        BY <1>2 DEF SendRefresh, Begin
    <2> QED
        BY <2>1, <2>2, AskInv
<1>3. ASSUME NEW t \in Tabs, LockSession(t) PROVE SessionInv'
    <2>r. requests[t].step = "sent" /\ RowFree(t, requests[t].row) /\ UNCHANGED <<sessions, jar>>
        BY <1>3 DEF LockSession
    <2>1. CASE ~sessions[requests[t].row].revoked /\ ~sessions[requests[t].row].expired
        <3>1. Room /\ Advance(t, "locked")
            BY <1>3, <2>1 DEF LockSession
        <3>2. requests[t].op = "refresh"
            BY <2>r DEF SessionInv, Asking
        <3> QED
            BY <2>1, <2>r, <3>1, <3>2, LockInv
    <2>2. CASE sessions[requests[t].row].revoked \/ sessions[requests[t].row].expired
        <3> DEFINE seen == LiveRows(sessions[requests[t].row].family)
        <3>1. requests' = [requests EXCEPT ![t].step = "revoking", ![t].seen = seen]
            BY <1>3, <2>2 DEF LockSession
        <3>2. seen \in SUBSET (1..MaxSessions)
            BY <1>l
        <3> HIDE DEF seen
        <3>3. PICK r \in TabRequest : r = [requests[t] EXCEPT !.step = "revoking", !.seen = seen]
            BY <3>2, <1>t DEF TabRequest
        <3>4. r.step = "revoking" /\ r.row = requests[t].row
            BY <3>3, <1>t DEF TabRequest
        <3>5. requests' = [requests EXCEPT ![t] = r]
            BY <3>1, <3>3, <1>t
        <3>6. /\ r.row <= Len(sessions) /\ r.step # "locked" /\ r.step # "sent"
              /\ sessions' = sessions /\ jar' = jar
            BY <3>4, <1>r, <1>t, <2>r
        <3> QED
            BY <3>5, <3>6, AskInv
    <2> QED
        BY <2>1, <2>2
<1>4. ASSUME NEW t \in Tabs, ReplaceSession(t) PROVE SessionInv'
    BY <1>4, ReplaceInv
<1>5. ASSUME NEW t \in Tabs, NEW family, NEW op \in {"logout", "dismiss"},
             Begin(t, [step |-> "revoking", op |-> op, row |-> 0, seen |-> LiveRows(family)]),
             UNCHANGED <<sessions, jar>>
      PROVE  SessionInv'
    <2> DEFINE r == [step |-> "revoking", op |-> op, row |-> 0, seen |-> LiveRows(family)]
    <2>1. r \in TabRequest /\ r.row <= Len(sessions) /\ r.step = "revoking"
        BY <1>l, <1>m, <1>t DEF TabRequest, SessionIds
    <2>2. requests' = [requests EXCEPT ![t] = r]
        BY <1>5 DEF Begin
    <2> QED
        BY <2>1, <2>2, <1>5, AskInv
<1>6. ASSUME NEW t \in Tabs, LogOut(t) PROVE SessionInv'
    BY <1>6, <1>5 DEF LogOut
<1>7. ASSUME NEW t \in Tabs, NEW i \in DOMAIN sessions, DismissFamily(t, sessions[i].family) PROVE SessionInv'
    BY <1>7, <1>5 DEF DismissFamily
<1>8. ASSUME NEW t \in Tabs, RevokeFamily(t) PROVE SessionInv'
    <2> DEFINE seen == requests[t].seen
    <2>0. /\ requests[t].step = "revoking" /\ \A i \in seen : RowFree(t, i)
          /\ sessions' = [i \in DOMAIN sessions |->
               IF i \in seen THEN [sessions[i] EXCEPT !.revoked = TRUE] ELSE sessions[i]]
          /\ requests' = [requests EXCEPT ![t] =
               [NoRequest EXCEPT !.step = "answered", !.op = requests[t].op]]
          /\ jar' = jar
        BY <1>8 DEF RevokeFamily
    <2> HIDE DEF seen
    <2>1. PICK r \in TabRequest : r = [NoRequest EXCEPT !.step = "answered", !.op = requests[t].op]
        BY <1>n, <1>t DEF TabRequest, NoRequest
    <2>2. r.step = "answered" /\ r.row = 0
        BY <2>1 DEF NoRequest
    <2>3. /\ requests' \in [Tabs -> TabRequest] /\ requests'[t] = r
          /\ \A u \in Tabs \ {t} : requests'[u] = requests[u]
        BY <2>0, <2>1, <1>t
    <2>4. \A i \in 1..Len(sessions) :
             /\ sessions'[i] \in SessionRow /\ sessions'[i].family = sessions[i].family
             /\ sessions[i].revoked => sessions'[i].revoked
             /\ i \notin seen => sessions'[i] = sessions[i]
        <3> SUFFICES ASSUME NEW i \in 1..Len(sessions)
                     PROVE  /\ sessions'[i] \in SessionRow /\ sessions'[i].family = sessions[i].family
                            /\ sessions[i].revoked => sessions'[i].revoked
                            /\ i \notin seen => sessions'[i] = sessions[i]
            OBVIOUS
        <3>1. sessions[i] \in SessionRow
            BY <1>t
        <3>2. [sessions[i] EXCEPT !.revoked = TRUE] \in SessionRow
            BY <3>1 DEF SessionRow
        <3> QED
            BY <2>0, <1>t, <3>1, <3>2 DEF SessionRow
    <2>5. sessions' \in Seq(SessionRow) /\ Len(sessions') = Len(sessions)
        <3>1. sessions' \in [1..Len(sessions) -> SessionRow]
            BY <2>0, <2>4, <1>t
        <3> QED
            BY <3>1, <1>t
    <2>6. \A u \in Tabs : requests'[u].step = "locked" =>
            requests'[u] = requests[u] /\ ~sessions'[requests[u].row].revoked
        <3> SUFFICES ASSUME NEW u \in Tabs, requests'[u].step = "locked"
                     PROVE  requests'[u] = requests[u] /\ ~sessions'[requests[u].row].revoked
            OBVIOUS
        <3>1. u # t /\ requests'[u] = requests[u] /\ requests[u].step = "locked"
            BY <2>2, <2>3
        <3>2. requests[u].op = "refresh" /\ ~sessions[requests[u].row].revoked
            BY <3>1 DEF SessionInv, Holding, Locked
        <3>3. requests[u].row \in 1..Len(sessions)
            BY <3>1, FamilyNamed
        <3>4. requests[u].row \notin seen
            BY <3>1, <3>2, <2>0 DEF RowFree, HeldBy
        <3> QED
            BY <3>1, <3>2, <3>3, <3>4, <2>4
    <2>7. \A u \in Tabs : /\ requests'[u].row <= Len(sessions)
                          /\ requests'[u].step \in {"sent", "locked"} => requests'[u].row # 0
        BY <2>2, <2>3, <1>t DEF SessionInv, Located
    <2>8. \A u \in Tabs : requests'[u].step = "sent" => requests'[u].op = "refresh"
        BY <2>2, <2>3 DEF SessionInv, Asking
    <2>9. \A i \in DOMAIN sessions : /\ sessions'[i].family = sessions[i].family
                                     /\ sessions[i].revoked => sessions'[i].revoked
        BY <2>4, <1>t
    <2>10. jar' \in [Browsers -> SessionIds] /\ \A b \in Browsers : jar'[b] <= Len(sessions)
        BY <2>0, <1>t, <1>j
    <2>11. requests' \in [Tabs -> TabRequest]
        BY <2>3
    <2> QED
        BY <2>5, <2>6, <2>7, <2>8, <2>9, <2>10, <2>11, QuietSession
<1>9. ASSUME NEW t \in Tabs, requests' = [requests EXCEPT ![t] = NoRequest], UNCHANGED sessions,
             jar' \in [Browsers -> SessionIds], \A b \in Browsers : jar'[b] <= Len(sessions)
      PROVE  SessionInv'
    <2>1. /\ requests' \in [Tabs -> TabRequest] /\ requests'[t] = NoRequest
          /\ \A u \in Tabs \ {t} : requests'[u] = requests[u]
        BY <1>9, <1>n, <1>t
    <2>2. \A u \in Tabs : requests'[u].step = "locked" =>
            requests'[u] = requests[u] /\ ~sessions'[requests[u].row].revoked
        BY <2>1, <1>n, <1>9 DEF SessionInv, Holding, Locked
    <2>3. \A u \in Tabs : /\ requests'[u].row <= Len(sessions)
                          /\ requests'[u].step \in {"sent", "locked"} => requests'[u].row # 0
        BY <2>1, <1>n, <1>t DEF SessionInv, Located
    <2>4. \A u \in Tabs : requests'[u].step = "sent" => requests'[u].op = "refresh"
        BY <2>1, <1>n DEF SessionInv, Asking
    <2> QED
        BY <1>9, <2>1, <2>2, <2>3, <2>4, <1>t, QuietSession
<1>10. ASSUME NEW t \in Tabs, AbortRequest(t) \/ LoseAnswer(t) PROVE SessionInv'
    <2>1. requests' = [requests EXCEPT ![t] = NoRequest] /\ sessions' = sessions /\ jar' = jar
        BY <1>10 DEF AbortRequest, LoseAnswer
    <2>2. jar' \in [Browsers -> SessionIds] /\ \A b \in Browsers : jar'[b] <= Len(sessions)
        BY <2>1, <1>t, <1>j
    <2> QED
        BY <2>1, <2>2, <1>9
<1>11. ASSUME NEW t \in Tabs, ReceiveAnswer(t) PROVE SessionInv'
    <2>1. /\ requests' = [requests EXCEPT ![t] = NoRequest] /\ sessions' = sessions
          /\ jar' = jar \/ jar' = [jar EXCEPT ![BrowserOf[t]] = requests[t].row]
        BY <1>11 DEF ReceiveAnswer
    <2>2. requests[t].row \in SessionIds
        BY <1>t DEF TabRequest
    <2>3. jar' \in [Browsers -> SessionIds] /\ \A b \in Browsers : jar'[b] <= Len(sessions)
        BY <2>1, <2>2, <1>t, <1>j, <1>r
    <2> QED
        BY <2>1, <2>3, <1>9
<1>12. ASSUME NEW i \in DOMAIN sessions, ExpireSession(i) PROVE SessionInv'
    <2>1. /\ ~sessions[i].revoked /\ sessions' = [sessions EXCEPT ![i].expired = TRUE]
          /\ requests' = requests /\ jar' = jar
        BY <1>12 DEF ExpireSession
    <2>2. PICK r \in SessionRow : r = [sessions[i] EXCEPT !.expired = TRUE]
        BY <1>t DEF SessionRow
    <2>3. r.family = sessions[i].family /\ (r.revoked <=> sessions[i].revoked)
        BY <2>2, <1>t DEF SessionRow
    <2>4. sessions' = [sessions EXCEPT ![i] = r]
        BY <2>1, <2>2
    <2>5. /\ sessions' \in Seq(SessionRow) /\ Len(sessions') = Len(sessions) /\ sessions'[i] = r
          /\ \A j \in 1..Len(sessions) : j # i => sessions'[j] = sessions[j]
        BY <2>4, <1>t, ExceptSeq
    <2>6. \A j \in 1..Len(sessions) : /\ sessions'[j].family = sessions[j].family
                                      /\ sessions'[j].revoked <=> sessions[j].revoked
        BY <2>3, <2>5
    <2>7. \A u \in Tabs : requests'[u].step = "locked" =>
            requests'[u] = requests[u] /\ ~sessions'[requests[u].row].revoked
        BY <2>1, <2>6, FamilyNamed DEF SessionInv, Holding, Locked
    <2> QED
        BY <2>1, <2>5, <2>6, <2>7, <1>t, <1>j, QuietSession DEF SessionInv, Located, Asking
<1>13. CASE UNCHANGED sessionVars
    <2>1. sessions' = sessions /\ jar' = jar /\ requests' = requests
        BY <1>13 DEF sessionVars
    <2>2. \A u \in Tabs : requests'[u].step = "locked" =>
            requests'[u] = requests[u] /\ ~sessions'[requests[u].row].revoked
        BY <2>1 DEF SessionInv, Holding, Locked
    <2> QED
        BY <2>1, <2>2, <1>t, <1>j, QuietSession DEF SessionInv, Located, Asking
<1> QED
    BY <1>1, <1>2, <1>3, <1>4, <1>6, <1>7, <1>8, <1>10, <1>11, <1>12, <1>13 DEF SessionNext

\* The rows, the cookies and the requests keep their types, and no more rows
\* are opened than there is room for (LogIn, ReplaceSession).
THEOREM SessionTypeCorrect == SessionSpec => []SessionTypeOK
<1>1. SessionInv => SessionTypeOK
    BY DEF SessionInv
<1> QED
    BY SessionInitInv, SessionStepInv, <1>1, PTL DEF SessionSpec

\* A family never has two sessions that can be refreshed, because a refresh
\* holds its row from reading it until it has replaced it (refresh).
THEOREM OneSessionPerFamily == SessionSpec => []OneLiveSession
<1>1. SessionInv => OneLiveSession
    BY DEF SessionInv
<1> QED
    BY SessionInitInv, SessionStepInv, <1>1, PTL DEF SessionSpec

-----------------------------------------------------------------------------
(***************************************************************************)
(* SystemOperations, for any clients and number of operations: the types,  *)
(* and that two workflows never run at once.                               *)
(***************************************************************************)

-----------------------------------------------------------------------------
(* The inductive invariant of SystemOperations.                             *)

\* The client has created its row and is not done with it.
Holds(c, n) == clients[c].step \in {"created", "accepted", "refused"} /\ clients[c].row = n

\* A row under way is held by one client, and not dispatched before it was.
HolderInv ==
  /\ \A c \in Clients : clients[c].step \in {"created", "accepted", "refused"} => clients[c].row \in DOMAIN operations
  /\ \A c, d \in Clients : \A n \in DOMAIN operations : Holds(c, n) /\ Holds(d, n) => c = d
  /\ \A c \in Clients : clients[c].step = "created" => workflows[clients[c].row] = "none"
  /\ \A c \in Clients : clients[c].step = "refused" /\ ~doubted => workflows[clients[c].row] = "none"

\* A poll that saw a conclusion saw the last word.
PollInv ==
  \A p \in Pollers : pollers[p].row # 0 =>
    /\ pollers[p].row \in DOMAIN operations
    /\ pollers[p].seen \in Conclusions => workflows[pollers[p].row] = pollers[p].seen

\* A row that is closed has a workflow that ended, or never got one and never will.
ClosedInv ==
  ~doubted => \A n \in DOMAIN operations : operations[n].status \notin ActiveStatuses =>
    \/ workflows[n] \in Conclusions
    \/ workflows[n] = "none" /\ \A c \in Clients : ~Holds(c, n)

AloneInv == \A m, n \in ActiveOperations : m = n

SuccessInv == \A n \in DOMAIN operations : operations[n].status = "success" => workflows[n] = "success"

OperationInv == OperationTypeOK /\ HolderInv /\ PollInv /\ ClosedInv /\ AloneInv /\ SuccessInv

-----------------------------------------------------------------------------
(* Facts the steps share.                                                   *)

OperationRow == [status : Statuses, noted : BOOLEAN]
RunStates == {"none", "queued", "in_progress"} \cup Conclusions

LEMMA OperationTypes ==
  ASSUME OperationTypeOK
  PROVE  /\ operations \in Seq(OperationRow) /\ DOMAIN operations = 1..Len(operations) /\ Len(operations) \in Nat
         /\ \A n \in DOMAIN operations : operations[n] \in OperationRow /\ workflows[n] \in RunStates
         /\ \A n \in DOMAIN operations : operations[n].status \in Statuses
<1>1. operations \in Seq(OperationRow) /\ workflows \in [DOMAIN operations -> RunStates]
    BY DEF OperationTypeOK, OperationRow, RunStates
<1>2. /\ DOMAIN operations = 1..Len(operations) /\ Len(operations) \in Nat
      /\ \A n \in DOMAIN operations : operations[n] \in OperationRow
    BY <1>1, SeqRows
<1>3. \A n \in DOMAIN operations : operations[n].status \in Statuses
    BY <1>2 DEF OperationRow
<1> QED
    BY <1>1, <1>2, <1>3

\* A write of a row either takes effect or is refused; a second active row
\* cannot come of it.
LEMMA StatusWritten ==
  ASSUME OperationInv, NEW n \in DOMAIN operations, NEW status \in Statuses, SetStatus(n, status)
  PROVE  /\ operations' \in Seq(OperationRow) /\ DOMAIN operations' = DOMAIN operations
         /\ Len(operations') = Len(operations)
         /\ \A m \in DOMAIN operations : m # n => operations'[m] = operations[m]
         /\ operations'[n].status \in {operations[n].status, status}
         /\ status \notin ActiveStatuses => operations'[n].status = status
         /\ AloneInv'
<1>t. /\ operations \in Seq(OperationRow) /\ operations[n] \in OperationRow /\ OperationTypeOK
      /\ DOMAIN operations = 1..Len(operations) /\ Len(operations) \in Nat
    BY OperationTypes DEF OperationInv
<1>a. CASE Admits(n, status)
    <2>1. PICK row : row = [operations[n] EXCEPT !.status = status]
        OBVIOUS
    <2>2. row \in OperationRow /\ row.status = status
        BY <1>t, <2>1 DEF OperationRow
    <2>3. operations' = [operations EXCEPT ![n] = row]
        BY <1>a, <2>1 DEF SetStatus
    <2>4. /\ operations' \in Seq(OperationRow) /\ DOMAIN operations' = DOMAIN operations
          /\ \A m \in DOMAIN operations : operations'[m] = IF m = n THEN row ELSE operations[m]
        BY <1>t, <2>2, <2>3, SeqWritten
    <2>5. Len(operations') = Len(operations)
        BY <1>t, <2>4, LenProperties
    <2>6. ASSUME NEW m1 \in DOMAIN operations', NEW m2 \in DOMAIN operations',
                 operations'[m1].status \in ActiveStatuses, operations'[m2].status \in ActiveStatuses
          PROVE  m1 = m2
        BY <1>a, <2>2, <2>4, <2>6 DEF Admits, OperationInv, AloneInv, ActiveOperations
    <2>7. AloneInv'
        BY <2>6 DEF AloneInv, ActiveOperations
    <2> QED
        BY <2>2, <2>4, <2>5, <2>7
<1>b. CASE ~Admits(n, status)
    <2>1. operations' = operations /\ status \in ActiveStatuses
        BY <1>b DEF SetStatus, Admits
    <2> QED
        BY <1>t, <2>1 DEF OperationInv, AloneInv, ActiveOperations
<1> QED
    BY <1>a, <1>b

\* A client that lets go of its row.
LEMMA ClientLeaves ==
  ASSUME OperationInv, NEW c \in Clients, clients' = [clients EXCEPT ![c] = NoClient]
  PROVE  /\ clients' \in [Clients -> [step : {"idle", "checked", "created", "accepted", "refused"}, row : 0..MaxOperations]]
         /\ clients'[c].step = "idle" /\ \A d \in Clients : d # c => clients'[d] = clients[d]
         /\ \A d \in Clients, n \in DOMAIN operations :
              (clients'[d].step \in {"created", "accepted", "refused"} /\ clients'[d].row = n) =>
                d # c /\ Holds(d, n)
<1>1. clients \in [Clients -> [step : {"idle", "checked", "created", "accepted", "refused"}, row : 0..MaxOperations]]
    BY DEF OperationInv, OperationTypeOK
<1>2. NoClient \in [step : {"idle", "checked", "created", "accepted", "refused"}, row : 0..MaxOperations]
      /\ NoClient.step = "idle"
    BY OperationAssumption DEF NoClient
<1> QED
    BY <1>1, <1>2 DEF Holds

\* What is left of the invariant when a request writes a row and is done.
LEMMA WriteAndLeave ==
  ASSUME OperationInv, NEW c \in Clients, NEW status \in Statuses, clients[c].row \in DOMAIN operations,
         SetStatus(clients[c].row, status), clients' = [clients EXCEPT ![c] = NoClient],
         status \in {"queued", "failure"},
         status = "failure" => clients[c].step = "refused",
         UNCHANGED <<workflows, pollers, doubted>>
  PROVE  OperationInv'
<1> DEFINE n == clients[c].row
<1>1. /\ operations' \in Seq(OperationRow) /\ DOMAIN operations' = DOMAIN operations
      /\ Len(operations') = Len(operations)
      /\ \A m \in DOMAIN operations : m # n => operations'[m] = operations[m]
      /\ operations'[n].status \in {operations[n].status, status}
      /\ AloneInv'
    BY StatusWritten
<1>2. /\ clients' \in [Clients -> [step : {"idle", "checked", "created", "accepted", "refused"}, row : 0..MaxOperations]]
      /\ clients'[c].step = "idle" /\ \A d \in Clients : d # c => clients'[d] = clients[d]
    BY ClientLeaves
<1>3. OperationTypeOK'
    BY <1>1, <1>2 DEF OperationInv, OperationTypeOK, OperationRow
<1>4. HolderInv'
    BY <1>1, <1>2 DEF OperationInv, HolderInv, Holds
<1>5. PollInv'
    BY <1>1 DEF OperationInv, PollInv
<1>6. SuccessInv'
    <2>1. status # "success"
        OBVIOUS
    <2> QED
        BY <1>1, <2>1 DEF OperationInv, SuccessInv
<1>7. ClosedInv'
    <2>1. SUFFICES ASSUME ~doubted, NEW m \in DOMAIN operations, operations'[m].status \notin ActiveStatuses
                   PROVE  \/ workflows[m] \in Conclusions
                          \/ workflows[m] = "none" /\
                             \A d \in Clients : ~(clients'[d].step \in {"created", "accepted", "refused"} /\ clients'[d].row = m)
        BY <1>1 DEF ClosedInv, Holds
    <2>2. CASE operations'[m].status = operations[m].status
        <3>1. \/ workflows[m] \in Conclusions
              \/ workflows[m] = "none" /\ \A d \in Clients : ~Holds(d, m)
            BY <2>1, <2>2 DEF OperationInv, ClosedInv
        <3> QED
            BY <1>2, <3>1 DEF Holds
    <2>3. CASE operations'[m].status # operations[m].status
        <3>1. m = n /\ operations'[m].status = status /\ status = "failure"
            BY <1>1, <2>1, <2>3 DEF ActiveStatuses
        <3>2. clients[c].step = "refused" /\ Holds(c, m) /\ workflows[m] = "none"
            BY <2>1, <3>1 DEF OperationInv, HolderInv, Holds
        <3>3. \A d \in Clients : Holds(d, m) => d = c
            BY <3>2 DEF OperationInv, HolderInv
        <3> QED
            BY <1>2, <3>2, <3>3 DEF Holds
    <2> QED
        BY <2>2, <2>3
<1> QED
    BY <1>1, <1>3, <1>4, <1>5, <1>6, <1>7 DEF OperationInv

\* ... or when a poller writes one.
LEMMA PollerWrites ==
  ASSUME OperationInv, NEW p \in Pollers, NEW status \in Statuses, pollers[p].row \in DOMAIN operations,
         SetStatus(pollers[p].row, status), pollers' = [pollers EXCEPT ![p] = NoPoller],
         \/ status \in ActiveStatuses /\ doubted' = doubted
         \/ status \in Conclusions /\ workflows[pollers[p].row] = status /\ doubted' = doubted
         \/ status = "unknown" /\ doubted' = TRUE,
         UNCHANGED <<workflows, clients>>
  PROVE  OperationInv'
<1> DEFINE n == pollers[p].row
<1>1. /\ operations' \in Seq(OperationRow) /\ DOMAIN operations' = DOMAIN operations
      /\ Len(operations') = Len(operations)
      /\ \A m \in DOMAIN operations : m # n => operations'[m] = operations[m]
      /\ operations'[n].status \in {operations[n].status, status}
      /\ AloneInv'
    BY StatusWritten
<1>2. pollers \in [Pollers -> [row : 0..MaxOperations, seen : {"queued", "in_progress"} \cup Conclusions]]
    BY DEF OperationInv, OperationTypeOK
<1>3. /\ NoPoller \in [row : 0..MaxOperations, seen : {"queued", "in_progress"} \cup Conclusions] /\ NoPoller.row = 0
    BY OperationAssumption DEF NoPoller
<1>4. /\ pollers' \in [Pollers -> [row : 0..MaxOperations, seen : {"queued", "in_progress"} \cup Conclusions]]
      /\ pollers'[p].row = 0 /\ \A q \in Pollers : q # p => pollers'[q] = pollers[q]
    BY <1>2, <1>3
<1>d. doubted \in BOOLEAN /\ doubted' \in BOOLEAN /\ (doubted => doubted')
    BY DEF OperationInv, OperationTypeOK
<1>5. OperationTypeOK'
    BY <1>1, <1>4, <1>d DEF OperationInv, OperationTypeOK, OperationRow
<1>6. HolderInv'
    BY <1>1, <1>d DEF OperationInv, HolderInv, Holds
<1>7. PollInv'
    BY <1>1, <1>4 DEF OperationInv, PollInv
<1>8. SuccessInv'
    <2>1. status = "success" => workflows[n] = "success"
        BY DEF ActiveStatuses
    <2> QED
        BY <1>1, <2>1 DEF OperationInv, SuccessInv
<1>9. ClosedInv'
    <2>1. SUFFICES ASSUME ~doubted', NEW m \in DOMAIN operations, operations'[m].status \notin ActiveStatuses
                   PROVE  \/ workflows[m] \in Conclusions
                          \/ workflows[m] = "none" /\ \A c \in Clients : ~Holds(c, m)
        BY <1>1 DEF ClosedInv, Holds
    <2>2. CASE operations'[m].status = operations[m].status
        BY <1>d, <2>1, <2>2 DEF OperationInv, ClosedInv
    <2>3. CASE operations'[m].status # operations[m].status
        <3>1. m = n /\ operations'[m].status = status
            BY <1>1, <2>3
        <3> QED
            BY <2>1, <3>1
    <2> QED
        BY <2>2, <2>3
<1> QED
    BY <1>1, <1>5, <1>6, <1>7, <1>8, <1>9 DEF OperationInv

-----------------------------------------------------------------------------
(* Every step keeps the invariant.                                          *)

LEMMA CheckActiveKeeps ==
  ASSUME OperationInv, NEW c \in Clients, CheckActive(c)
  PROVE  OperationInv'
<1>1. clients \in [Clients -> [step : {"idle", "checked", "created", "accepted", "refused"}, row : 0..MaxOperations]]
    BY DEF OperationInv, OperationTypeOK
<1>2. /\ clients' \in [Clients -> [step : {"idle", "checked", "created", "accepted", "refused"}, row : 0..MaxOperations]]
      /\ clients'[c].step = "checked" /\ \A d \in Clients : d # c => clients'[d] = clients[d]
    BY <1>1 DEF CheckActive
<1>3. UNCHANGED <<operations, workflows, pollers, doubted>>
    BY DEF CheckActive
<1>4. OperationTypeOK' /\ PollInv' /\ AloneInv' /\ SuccessInv'
    BY <1>2, <1>3 DEF OperationInv, OperationTypeOK, PollInv, AloneInv, ActiveOperations, SuccessInv
<1>5. HolderInv'
    BY <1>2, <1>3 DEF OperationInv, HolderInv, Holds
<1>6. ClosedInv'
    BY <1>2, <1>3 DEF OperationInv, ClosedInv, Holds
<1> QED
    BY <1>4, <1>5, <1>6 DEF OperationInv

LEMMA CrashClientKeeps ==
  ASSUME OperationInv, NEW c \in Clients, clients' = [clients EXCEPT ![c] = NoClient],
         UNCHANGED <<operations, workflows, pollers, doubted>>
  PROVE  OperationInv'
<1>1. /\ clients' \in [Clients -> [step : {"idle", "checked", "created", "accepted", "refused"}, row : 0..MaxOperations]]
      /\ clients'[c].step = "idle" /\ \A d \in Clients : d # c => clients'[d] = clients[d]
    BY ClientLeaves
<1>2. OperationTypeOK' /\ PollInv' /\ AloneInv' /\ SuccessInv'
    BY <1>1 DEF OperationInv, OperationTypeOK, PollInv, AloneInv, ActiveOperations, SuccessInv
<1>3. HolderInv'
    BY <1>1 DEF OperationInv, HolderInv, Holds
<1>4. ClosedInv'
    BY <1>1 DEF OperationInv, ClosedInv, Holds
<1> QED
    BY <1>2, <1>3, <1>4 DEF OperationInv

LEMMA CreateOperationKeeps ==
  ASSUME OperationInv, NEW c \in Clients, CreateOperation(c)
  PROVE  OperationInv'
<1> DEFINE n == Len(operations) + 1
<1>t. /\ operations \in Seq(OperationRow) /\ DOMAIN operations = 1..Len(operations) /\ Len(operations) \in Nat
    BY OperationTypes DEF OperationInv
<1>a. CASE Admits(n, "requested") /\ n <= MaxOperations
    <2>0. PICK row : row = [status |-> "requested", noted |-> FALSE]
        OBVIOUS
    <2>1. row \in OperationRow /\ row.status = "requested"
        BY <2>0 DEF OperationRow, Statuses
    <2>2. operations' = Append(operations, row) /\ workflows' = Append(workflows, "none")
          /\ clients' = [clients EXCEPT ![c] = [step |-> "created", row |-> n]]
          /\ UNCHANGED <<pollers, doubted>>
        BY <1>a, <2>0 DEF CreateOperation
    <2>3. /\ operations' \in Seq(OperationRow) /\ Len(operations') = n /\ DOMAIN operations' = DOMAIN operations \cup {n}
          /\ operations'[n] = row /\ \A m \in DOMAIN operations : operations'[m] = operations[m] /\ m # n
        BY <1>t, <2>1, <2>2, SeqAppended
    <2>4. workflows \in Seq(RunStates) /\ Len(workflows) = Len(operations)
        <3>1. workflows \in [1..Len(operations) -> RunStates]
            BY <1>t DEF OperationInv, OperationTypeOK, RunStates
        <3> QED
            BY <1>t, <3>1, LenProperties
    <2>5. /\ workflows' \in Seq(RunStates) /\ DOMAIN workflows' = DOMAIN operations'
          /\ workflows'[n] = "none" /\ \A m \in DOMAIN operations : workflows'[m] = workflows[m]
        <3>1. "none" \in RunStates
            BY DEF RunStates
        <3>2. /\ workflows' \in Seq(RunStates) /\ Len(workflows') = Len(workflows) + 1
              /\ DOMAIN workflows' = DOMAIN workflows \cup {Len(workflows')}
              /\ workflows'[Len(workflows')] = "none" /\ \A m \in DOMAIN workflows : workflows'[m] = workflows[m]
            BY <2>2, <2>4, <3>1, SeqAppended
        <3>3. DOMAIN workflows = DOMAIN operations
            BY <1>t, <2>4, LenProperties
        <3> QED
            BY <2>3, <2>4, <3>2, <3>3
    <2>6. clients \in [Clients -> [step : {"idle", "checked", "created", "accepted", "refused"}, row : 0..MaxOperations]]
        BY DEF OperationInv, OperationTypeOK
    <2>7. n \in 0..MaxOperations
        BY <1>a, <1>t, OperationAssumption
    <2>8. /\ clients' \in [Clients -> [step : {"idle", "checked", "created", "accepted", "refused"}, row : 0..MaxOperations]]
          /\ clients'[c].step = "created" /\ clients'[c].row = n
          /\ \A d \in Clients : d # c => clients'[d] = clients[d]
        BY <2>2, <2>6, <2>7
    <2>9. OperationTypeOK'
        <3>1. workflows' \in [DOMAIN operations' -> RunStates]
            BY <2>5, ElementOfSeq, LenProperties
        <3> QED
            BY <1>a, <2>2, <2>3, <2>8, <3>1 DEF OperationInv, OperationTypeOK, OperationRow, RunStates
    <2>10. HolderInv'
        <3>1. n \in DOMAIN operations' /\ n \notin DOMAIN operations
            BY <1>t, <2>3
        <3>2. \A d \in Clients : d # c /\ clients[d].step \in {"created", "accepted", "refused"} =>
                clients[d].row \in DOMAIN operations /\ clients[d].row # n
            BY <3>1 DEF OperationInv, HolderInv
        <3>3. \A d \in Clients : clients'[d].step \in {"created", "accepted", "refused"} => clients'[d].row \in DOMAIN operations'
            BY <2>3, <2>8, <3>1, <3>2
        <3>4. \A d, e \in Clients : \A m \in DOMAIN operations' : Holds(d, m)' /\ Holds(e, m)' => d = e
            BY <2>3, <2>8, <3>2 DEF OperationInv, HolderInv, Holds
        <3>5. /\ \A d \in Clients : clients'[d].step = "created" => workflows'[clients'[d].row] = "none"
              /\ \A d \in Clients : clients'[d].step = "refused" /\ ~doubted' => workflows'[clients'[d].row] = "none"
            BY <2>2, <2>5, <2>8, <3>2 DEF OperationInv, HolderInv
        <3> QED
            BY <3>3, <3>4, <3>5 DEF HolderInv, Holds
    <2>11. PollInv'
        BY <2>2, <2>3, <2>5 DEF OperationInv, PollInv
    <2>12. AloneInv'
        <3>1. ActiveOperations = {}
            BY <1>a, <1>t DEF Admits, ActiveStatuses, ActiveOperations
        <3> QED
            BY <2>3, <3>1 DEF AloneInv, ActiveOperations
    <2>13. SuccessInv'
        BY <2>1, <2>3, <2>5 DEF OperationInv, SuccessInv
    <2>14. ClosedInv'
        BY <2>1, <2>2, <2>3, <2>5, <2>8 DEF OperationInv, ClosedInv, Holds, ActiveStatuses
    <2> QED
        BY <2>9, <2>10, <2>11, <2>12, <2>13, <2>14 DEF OperationInv
<1>b. CASE ~(Admits(n, "requested") /\ n <= MaxOperations)
    BY <1>b, CrashClientKeeps DEF CreateOperation
<1> QED
    BY <1>a, <1>b

LEMMA DispatchWorkflowKeeps ==
  ASSUME OperationInv, NEW c \in Clients, NEW taken \in BOOLEAN, NEW error \in BOOLEAN,
         DispatchWorkflow(c, taken, error)
  PROVE  OperationInv'
<1> DEFINE n == clients[c].row
<1>1. /\ clients[c].step = "created" /\ n \in DOMAIN operations /\ workflows[n] = "none" /\ Holds(c, n)
    BY DEF DispatchWorkflow, OperationInv, HolderInv, Holds
<1>2. clients \in [Clients -> [step : {"idle", "checked", "created", "accepted", "refused"}, row : 0..MaxOperations]]
      /\ workflows \in [DOMAIN operations -> RunStates]
    BY DEF OperationInv, OperationTypeOK, RunStates
<1>3. PICK step \in {"refused", "accepted"} : step = IF error THEN "refused" ELSE "accepted"
    OBVIOUS
<1>4. clients' = [clients EXCEPT ![c].step = step] /\ UNCHANGED <<operations, pollers>>
    BY <1>3 DEF DispatchWorkflow
<1>5. /\ clients' \in [Clients -> [step : {"idle", "checked", "created", "accepted", "refused"}, row : 0..MaxOperations]]
      /\ clients'[c].step = step /\ clients'[c].row = n /\ \A d \in Clients : d # c => clients'[d] = clients[d]
    BY <1>2, <1>4
<1>6. /\ workflows' \in [DOMAIN operations -> RunStates]
      /\ workflows'[n] = IF taken THEN "queued" ELSE "none"
      /\ \A m \in DOMAIN operations : m # n => workflows'[m] = workflows[m]
    BY <1>1, <1>2 DEF DispatchWorkflow, RunStates
<1>7. doubted \in BOOLEAN /\ doubted' \in BOOLEAN /\ (doubted => doubted') /\ (taken /\ error => doubted')
    BY DEF DispatchWorkflow, OperationInv, OperationTypeOK
<1>8. OperationTypeOK'
    BY <1>4, <1>5, <1>6, <1>7 DEF OperationInv, OperationTypeOK, RunStates
<1>9. AloneInv'
    BY <1>4 DEF OperationInv, AloneInv, ActiveOperations
<1>10. \A d \in Clients : \A m \in DOMAIN operations : Holds(d, m)' => Holds(d, m)
    BY <1>1, <1>4, <1>5 DEF Holds
<1>11. \A d \in Clients : d # c /\ clients[d].step \in {"created", "refused"} => clients[d].row # n
    BY <1>1 DEF OperationInv, HolderInv, Holds
<1>12. HolderInv'
    <2>1. \A d \in Clients : clients'[d].step \in {"created", "accepted", "refused"} => clients'[d].row \in DOMAIN operations'
        BY <1>1, <1>4, <1>5 DEF OperationInv, HolderInv
    <2>2. (\A d, e \in Clients : \A m \in DOMAIN operations : Holds(d, m) /\ Holds(e, m) => d = e)'
        BY <1>1, <1>4, <1>5 DEF OperationInv, HolderInv, Holds
    <2>3. \A d \in Clients : clients'[d].step = "created" => workflows'[clients'[d].row] = "none"
        BY <1>3, <1>5, <1>6, <1>11 DEF OperationInv, HolderInv
    <2>4. \A d \in Clients : clients'[d].step = "refused" /\ ~doubted' => workflows'[clients'[d].row] = "none"
        BY <1>3, <1>5, <1>6, <1>7, <1>11 DEF OperationInv, HolderInv
    <2> QED
        BY <1>4, <2>1, <2>2, <2>3, <2>4 DEF HolderInv
<1>13. PollInv'
    <2>1. \A p \in Pollers : pollers[p].row = n => pollers[p].seen \notin Conclusions
        <3>1. n # 0
            BY <1>1, OperationTypes DEF OperationInv
        <3> QED
            BY <1>1, <3>1 DEF OperationInv, PollInv, Conclusions
    <2> QED
        BY <1>4, <1>6, <2>1 DEF OperationInv, PollInv
<1>14. SuccessInv'
    BY <1>1, <1>4, <1>6 DEF OperationInv, SuccessInv
<1>15. ClosedInv'
    <2>1. SUFFICES ASSUME ~doubted', NEW m \in DOMAIN operations, operations[m].status \notin ActiveStatuses
                   PROVE  \/ workflows'[m] \in Conclusions
                          \/ workflows'[m] = "none" /\ \A d \in Clients : ~Holds(d, m)'
        BY <1>4 DEF ClosedInv, Holds
    <2>2. \/ workflows[m] \in Conclusions
          \/ workflows[m] = "none" /\ \A d \in Clients : ~Holds(d, m)
        BY <1>7, <2>1 DEF OperationInv, ClosedInv
    <2>3. m # n
        BY <1>1, <2>2 DEF Conclusions
    <2> QED
        BY <1>6, <1>10, <2>2, <2>3
<1> QED
    BY <1>8, <1>9, <1>12, <1>13, <1>14, <1>15 DEF OperationInv

LEMMA FinishDispatchKeeps ==
  ASSUME OperationInv, NEW c \in Clients, MarkQueued(c) \/ DispatchFailure(c)
  PROVE  OperationInv'
<1>1. clients[c].row \in DOMAIN operations
    BY DEF MarkQueued, DispatchFailure, OperationInv, HolderInv
<1>2. {"queued", "failure"} \subseteq Statuses
    BY DEF Statuses, Conclusions
<1> QED
    BY <1>1, <1>2, WriteAndLeave DEF MarkQueued, DispatchFailure

LEMMA BeginPollKeeps ==
  ASSUME OperationInv, NEW p \in Pollers, NEW n \in ActiveOperations, BeginPoll(p, n)
  PROVE  OperationInv'
<1>t. /\ DOMAIN operations = 1..Len(operations) /\ Len(operations) \in Nat /\ Len(operations) <= MaxOperations
      /\ n \in DOMAIN operations /\ workflows[n] \in RunStates
    BY OperationTypes DEF OperationInv, OperationTypeOK, ActiveOperations
<1>1. n \in 0..MaxOperations /\ n # 0
    BY <1>t, OperationAssumption
<1>2. PICK seen \in {"queued", "in_progress"} \cup Conclusions : seen = OperationStatus(n)
    BY <1>t DEF OperationStatus, RunStates
<1>3. seen \in Conclusions => workflows[n] = seen
    BY <1>2 DEF OperationStatus, Conclusions
<1>4. pollers \in [Pollers -> [row : 0..MaxOperations, seen : {"queued", "in_progress"} \cup Conclusions]]
    BY DEF OperationInv, OperationTypeOK
<1>5. /\ pollers' \in [Pollers -> [row : 0..MaxOperations, seen : {"queued", "in_progress"} \cup Conclusions]]
      /\ pollers'[p].row = n /\ pollers'[p].seen = seen /\ \A q \in Pollers : q # p => pollers'[q] = pollers[q]
    BY <1>1, <1>2, <1>4 DEF BeginPoll
<1>6. UNCHANGED <<operations, workflows, clients, doubted>>
    BY DEF BeginPoll
<1>7. OperationTypeOK'
    BY <1>5, <1>6 DEF OperationInv, OperationTypeOK
<1>8. PollInv'
    BY <1>3, <1>5, <1>6, <1>t DEF OperationInv, PollInv
<1>9. HolderInv' /\ ClosedInv' /\ AloneInv' /\ SuccessInv'
    BY <1>6 DEF OperationInv, HolderInv, ClosedInv, AloneInv, ActiveOperations, SuccessInv, Holds
<1> QED
    BY <1>7, <1>8, <1>9 DEF OperationInv

LEMMA FinishPollKeeps ==
  ASSUME OperationInv, NEW p \in Pollers, FinishPoll(p) \/ GiveUpOperation(p)
  PROVE  OperationInv'
<1>1. pollers[p].row \in DOMAIN operations
    BY DEF FinishPoll, GiveUpOperation, OperationInv, PollInv
<1>2. pollers[p].seen \in {"queued", "in_progress"} \cup Conclusions
    BY DEF OperationInv, OperationTypeOK
<1>3. pollers[p].row # 0
    BY DEF FinishPoll, GiveUpOperation
<1>4. pollers[p].seen \in Conclusions => workflows[pollers[p].row] = pollers[p].seen
    BY <1>3 DEF OperationInv, PollInv
<1>5. pollers[p].seen \in Statuses /\ "unknown" \in Statuses
    BY <1>2 DEF Statuses
<1>6. pollers[p].seen \in ActiveStatuses \/ pollers[p].seen \in Conclusions
    BY <1>2 DEF ActiveStatuses
<1> QED
    BY <1>1, <1>4, <1>5, <1>6, PollerWrites DEF FinishPoll, GiveUpOperation

LEMMA ReceiveWebhookKeeps ==
  ASSUME OperationInv, NEW n \in DOMAIN operations, ReceiveWebhook(n)
  PROVE  OperationInv'
<1>t. operations \in Seq(OperationRow) /\ DOMAIN operations = 1..Len(operations) /\ Len(operations) \in Nat
    BY OperationTypes DEF OperationInv
<1>1. workflows[n] \in Conclusions /\ UNCHANGED <<workflows, clients, pollers, doubted>>
    BY DEF ReceiveWebhook
<1>2. PICK row : row = [status |-> workflows[n], noted |-> TRUE]
    OBVIOUS
<1>3. row \in OperationRow /\ row.status = workflows[n]
    BY <1>1, <1>2 DEF OperationRow, Statuses
<1>4. operations' = [operations EXCEPT ![n] = row]
    BY <1>2 DEF ReceiveWebhook
<1>5. /\ operations' \in Seq(OperationRow) /\ DOMAIN operations' = DOMAIN operations
      /\ \A m \in DOMAIN operations : operations'[m] = IF m = n THEN row ELSE operations[m]
    BY <1>t, <1>3, <1>4, SeqWritten
<1>6. Len(operations') = Len(operations)
    BY <1>t, <1>5, LenProperties
<1>7. row.status \notin ActiveStatuses
    BY <1>1, <1>3 DEF Conclusions, ActiveStatuses
<1>8. OperationTypeOK'
    BY <1>1, <1>5, <1>6 DEF OperationInv, OperationTypeOK, OperationRow
<1>9. HolderInv' /\ PollInv'
    BY <1>1, <1>5 DEF OperationInv, HolderInv, PollInv, Holds
<1>10. AloneInv'
    BY <1>5, <1>7 DEF OperationInv, AloneInv, ActiveOperations
<1>11. ClosedInv'
    BY <1>1, <1>3, <1>5 DEF OperationInv, ClosedInv, Holds
<1>12. SuccessInv'
    BY <1>1, <1>3, <1>5 DEF OperationInv, SuccessInv
<1> QED
    BY <1>8, <1>9, <1>10, <1>11, <1>12 DEF OperationInv

LEMMA AdvanceWorkflowKeeps ==
  ASSUME OperationInv, NEW n \in DOMAIN operations, NEW to \in Conclusions \cup {"in_progress"},
         AdvanceWorkflow(n, to)
  PROVE  OperationInv'
<1>1. /\ workflows[n] \in {"queued", "in_progress"} /\ UNCHANGED <<operations, clients, pollers, doubted>>
    BY DEF AdvanceWorkflow
<1>2. workflows \in [DOMAIN operations -> RunStates]
    BY DEF OperationInv, OperationTypeOK, RunStates
<1>3. /\ workflows' \in [DOMAIN operations -> RunStates] /\ workflows'[n] = to
      /\ \A m \in DOMAIN operations : m # n => workflows'[m] = workflows[m]
    BY <1>2 DEF AdvanceWorkflow, RunStates
<1>4. workflows[n] # "none" /\ workflows[n] \notin Conclusions
    BY <1>1 DEF Conclusions
<1>5. OperationTypeOK'
    BY <1>1, <1>3 DEF OperationInv, OperationTypeOK, RunStates
<1>6. HolderInv'
    <2>1. \A c \in Clients : clients[c].step = "created" => clients[c].row # n
        BY <1>4 DEF OperationInv, HolderInv
    <2>2. \A c \in Clients : clients[c].step = "refused" /\ ~doubted => clients[c].row # n
        BY <1>4 DEF OperationInv, HolderInv
    <2> QED
        BY <1>1, <1>3, <2>1, <2>2 DEF OperationInv, HolderInv, Holds
<1>7. PollInv'
    <2>1. \A p \in Pollers : pollers[p].row = n => pollers[p].seen \notin Conclusions
        BY <1>4 DEF OperationInv, PollInv, OperationTypeOK
    <2> QED
        BY <1>1, <1>3, <2>1 DEF OperationInv, PollInv
<1>8. AloneInv'
    BY <1>1 DEF OperationInv, AloneInv, ActiveOperations
<1>9. SuccessInv'
    BY <1>1, <1>3, <1>4 DEF OperationInv, SuccessInv, Conclusions
<1>10. ClosedInv'
    <2>1. ~doubted => operations[n].status \in ActiveStatuses
        BY <1>4 DEF OperationInv, ClosedInv
    <2> QED
        BY <1>1, <1>3, <2>1 DEF OperationInv, ClosedInv, Holds
<1> QED
    BY <1>5, <1>6, <1>7, <1>8, <1>9, <1>10 DEF OperationInv

LEMMA OperationInitInv ==
  ASSUME OperationInit
  PROVE  OperationInv
<1>1. /\ operations = <<>> /\ workflows = <<>> /\ doubted = FALSE /\ DOMAIN operations = {} /\ Len(operations) = 0
      /\ clients = [c \in Clients |-> NoClient] /\ pollers = [p \in Pollers |-> NoPoller]
    BY DEF OperationInit
<1>2. OperationTypeOK
    <2>1. operations \in Seq([status : Statuses, noted : BOOLEAN]) /\ Len(operations) <= MaxOperations
        BY <1>1, OperationAssumption
    <2>2. workflows \in [DOMAIN operations -> {"none", "queued", "in_progress"} \cup Conclusions]
        BY <1>1
    <2>3. clients \in [Clients -> [step : {"idle", "checked", "created", "accepted", "refused"}, row : 0..MaxOperations]]
        BY <1>1, OperationAssumption DEF NoClient
    <2>4. pollers \in [Pollers -> [row : 0..MaxOperations, seen : {"queued", "in_progress"} \cup Conclusions]]
        BY <1>1, OperationAssumption DEF NoPoller
    <2> QED
        BY <1>1, <2>1, <2>2, <2>3, <2>4 DEF OperationTypeOK
<1>3. \A c \in Clients : clients[c].step = "idle"
    BY <1>1 DEF NoClient
<1>4. \A p \in Pollers : pollers[p].row = 0
    BY <1>1 DEF NoPoller
<1>5. HolderInv /\ PollInv /\ ClosedInv /\ AloneInv /\ SuccessInv
    BY <1>1, <1>3, <1>4 DEF HolderInv, PollInv, ClosedInv, AloneInv, ActiveOperations, SuccessInv, Holds
<1> QED
    BY <1>2, <1>5 DEF OperationInv

LEMMA OperationStepInv ==
  ASSUME OperationInv, [OperationNext]_operationVars
  PROVE  OperationInv'
<1>1. CASE UNCHANGED operationVars
    BY <1>1 DEF operationVars, OperationInv, OperationTypeOK, HolderInv, PollInv, ClosedInv, AloneInv,
                ActiveOperations, SuccessInv, Holds
<1>2. CASE \E c \in Clients : CheckActive(c)
    BY <1>2, CheckActiveKeeps
<1>3. CASE \E c \in Clients : CreateOperation(c)
    BY <1>3, CreateOperationKeeps
<1>4. CASE \E c \in Clients : MarkQueued(c) \/ DispatchFailure(c)
    BY <1>4, FinishDispatchKeeps
<1>5. CASE \E c \in Clients : CrashClient(c)
    BY <1>5, CrashClientKeeps DEF CrashClient
<1>6. CASE \E c \in Clients : \E taken, error \in BOOLEAN : DispatchWorkflow(c, taken, error)
    BY <1>6, DispatchWorkflowKeeps
<1>7. CASE \E p \in Pollers : FinishPoll(p) \/ GiveUpOperation(p)
    BY <1>7, FinishPollKeeps
<1>8. CASE \E p \in Pollers : \E n \in ActiveOperations : BeginPoll(p, n)
    BY <1>8, BeginPollKeeps
<1>9. CASE \E n \in DOMAIN operations : ReceiveWebhook(n)
    BY <1>9, ReceiveWebhookKeeps
<1>10. CASE \E n \in DOMAIN operations : \E to \in Conclusions \cup {"in_progress"} : AdvanceWorkflow(n, to)
    BY <1>10, AdvanceWorkflowKeeps
<1> QED
    BY <1>1, <1>2, <1>3, <1>4, <1>5, <1>6, <1>7, <1>8, <1>9, <1>10 DEF OperationNext

LEMMA OperationInvariant == OperationSpec => []OperationInv
BY OperationInitInv, OperationStepInv, PTL DEF OperationSpec

-----------------------------------------------------------------------------
(* Theorems about SystemOperations.                                         *)

\* Rows, workflows, requests and polls keep their types.
THEOREM OperationTypeCorrect == OperationSpec => []OperationTypeOK
<1>1. OperationInv => OperationTypeOK
    BY DEF OperationInv
<1> QED
    BY <1>1, OperationInvariant, PTL

\* Unless a dispatch was answered wrongly or a row given up, at most one
\* workflow is under way, and success is only said of a workflow that
\* succeeded (request_update, _refresh_operation, github_workflow_run_webhook).
THEOREM NeverTwoWorkflows == OperationSpec => []OneWorkflowAtOnce
<1>1. OperationInv => OneWorkflowAtOnce
    <2>1. SUFFICES ASSUME OperationInv PROVE OneWorkflowAtOnce
        OBVIOUS
    <2>2. DOMAIN workflows = DOMAIN operations
        BY <2>1 DEF OperationInv, OperationTypeOK
    <2>3. ASSUME ~doubted, NEW m \in DOMAIN workflows, workflows[m] \in {"queued", "in_progress"}
          PROVE  m \in ActiveOperations
        BY <2>1, <2>2, <2>3 DEF OperationInv, ClosedInv, ActiveOperations, Conclusions
    <2>4. ~doubted => \A m, n \in DOMAIN workflows :
            {workflows[m], workflows[n]} \subseteq {"queued", "in_progress"} => m = n
        BY <2>1, <2>3 DEF OperationInv, AloneInv
    <2> QED
        BY <2>1, <2>4 DEF OneWorkflowAtOnce, OperationInv, SuccessInv
<1> QED
    BY <1>1, OperationInvariant, PTL

-----------------------------------------------------------------------------
(***************************************************************************)
(* PanelRelease, for any releases and number of spare ones: the types, and *)
(* that whatever an upgrade or a rollback leaves behind, a panel can be    *)
(* started from it.                                                        *)
(***************************************************************************)

-----------------------------------------------------------------------------
(* The inductive invariant of PanelRelease.                                 *)

\* Both links lead to a directory or nowhere.
LinksLead == {current, previous} \ {None} \subseteq installed

\* What each step of a command has done to the links and to the state file: a
\* command goes from one release to another, both there to go back to.
CommandInv ==
  LET step == command.step
      there == command.to \in installed /\ command.from \in installed \cup {None} IN
  /\ step # "idle" => there
  /\ step = "built" => current = command.from
  /\ step \in {"switched", "linked", "recorded"} => current = command.to
  /\ step \in {"linked", "recorded"} /\ command.from # None => previous = command.from
  /\ step = "recorded" => state.current = command.to
  /\ step \in {"swapped", "tried", "undone"} => command.from # None
  /\ step \in {"returned", "undone"} => current = command.from /\ command.from # None
  /\ step \in {"swapped", "tried"} => current = command.to
  /\ step = "swapped" => previous = command.to
  /\ step \in {"tried", "undone"} => previous = command.from

\* While nothing has drifted, the state file names the release that was linked
\* when the command began, and the accepted release is one of two that stay
\* within reach, until the command records its own.
RecordInv ==
  LET step == command.step
      names(old) == /\ state.current = old
                    /\ state.lastGood # None => state.lastGood \in {old, previous} IN
  ~drifted =>
    /\ step \in {"idle", "built"} => names(current)
    /\ step \in {"switched", "returned"} => names(command.from)
    /\ step \in {"swapped", "tried", "undone"} =>
         /\ state.current = command.from
         /\ state.lastGood # None => state.lastGood \in {command.to, command.from}

PanelInv == PanelTypeOK /\ LinksLead /\ CommandInv /\ RecordInv

-----------------------------------------------------------------------------
(* Every step of PanelRelease keeps it.                                     *)

LEMMA PanelInitInv == PanelInit => PanelInv
<1> SUFFICES ASSUME PanelInit PROVE PanelInv
    OBVIOUS
<1>1. PanelTypeOK
    BY DEF PanelInit, PanelTypeOK, Link, StateFile, NoCommand
<1>2. LinksLead /\ CommandInv /\ RecordInv
    BY DEF PanelInit, LinksLead, CommandInv, RecordInv, NoCommand
<1> QED
    BY <1>1, <1>2 DEF PanelInv

\* A command that moves on keeps the releases it is about.
LEMMA StepTaken ==
  ASSUME PanelTypeOK, NEW name \in {"switched", "linked", "recorded", "returned", "tried", "undone"},
         Step(name)
  PROVE  /\ command'.step = name /\ command'.to = command.to /\ command'.from = command.from
         /\ command' \in [to : Link, from : Link,
              step : {"idle", "built", "switched", "linked", "recorded", "returned",
                      "swapped", "tried", "undone"}]
BY DEF PanelTypeOK, Step

LEMMA CommandLeft ==
  ASSUME Leave
  PROVE  /\ command'.step = "idle"
         /\ command' \in [to : Link, from : Link,
              step : {"idle", "built", "switched", "linked", "recorded", "returned",
                      "swapped", "tried", "undone"}]
BY DEF Leave, NoCommand, Link

LEMMA StateWritten ==
  ASSUME PanelTypeOK, NEW new \in Link
  PROVE  /\ [state EXCEPT !.current = new] \in StateFile
         /\ [state EXCEPT !.current = new].current = new
         /\ [state EXCEPT !.current = new].lastGood = state.lastGood
         /\ [state EXCEPT !.lastGood = new] \in StateFile
         /\ [state EXCEPT !.lastGood = new].lastGood = new
         /\ [state EXCEPT !.lastGood = new].current = state.current
         /\ \A b \in BOOLEAN : /\ [state EXCEPT !.cooling = b] \in StateFile
                               /\ [state EXCEPT !.cooling = b].current = state.current
                               /\ [state EXCEPT !.cooling = b].lastGood = state.lastGood
BY DEF PanelTypeOK, StateFile

LEMMA PanelTypes ==
  ASSUME PanelTypeOK
  PROVE  /\ command.to \in Link /\ command.from \in Link /\ current \in Link /\ previous \in Link
         /\ state.current \in Link /\ state.lastGood \in Link
         /\ installed \subseteq Link /\ None \notin installed
BY PanelAssumption DEF PanelTypeOK, StateFile, Link

-----------------------------------------------------------------------------

LEMMA QuietCommandsKeep ==
  ASSUME PanelInv,
         \/ \E r \in PanelReleases : InstallArchive(r)
         \/ EndCooldown \/ RunBackup \/ RunRestore \/ KillCommand \/ FailBeforeSwitch
  PROVE  PanelInv'
<1> USE DEF PanelInv
<1>1. ASSUME NEW r \in PanelReleases, InstallArchive(r)
      PROVE  PanelInv'
    BY <1>1 DEF InstallArchive, NoOneElse, PanelTypeOK, LinksLead, CommandInv, RecordInv
<1>2. CASE EndCooldown
    <2>1. PICK row \in StateFile : row = [state EXCEPT !.cooling = FALSE]
        BY StateWritten, PanelTypes
    <2>2. state' = row /\ row.current = state.current /\ row.lastGood = state.lastGood
        BY <1>2, <2>1, StateWritten, PanelTypes DEF EndCooldown
    <2> QED
        BY <1>2, <2>1, <2>2 DEF EndCooldown, NoOneElse, PanelTypeOK, LinksLead, CommandInv, RecordInv
<1>3. CASE RunBackup
    BY <1>3 DEF RunBackup, Saved, NoOneElse, PanelTypeOK, LinksLead, CommandInv, RecordInv
<1>4. CASE RunRestore
    BY <1>4 DEF RunRestore, Saved, NoOneElse, PanelTypeOK, LinksLead, CommandInv, RecordInv
<1>5. CASE KillCommand
    <2>1. PanelTypeOK'
        BY <1>5, CommandLeft DEF KillCommand, PanelTypeOK
    <2> QED
        BY <1>5, <2>1, CommandLeft DEF KillCommand, LinksLead, CommandInv, RecordInv
<1>6. CASE FailBeforeSwitch
    <2>1. PanelTypeOK'
        BY <1>6, CommandLeft DEF FailBeforeSwitch, PanelTypeOK
    <2> QED
        BY <1>6, <2>1, CommandLeft DEF FailBeforeSwitch, LinksLead, CommandInv, RecordInv
<1> QED
    BY <1>1, <1>2, <1>3, <1>4, <1>5, <1>6

LEMMA ActivateKeeps ==
  ASSUME PanelInv, NEW r \in PanelReleases, Activate(r)
  PROVE  PanelInv'
<1> USE DEF PanelInv
<1>1. command' = [step |-> "built", to |-> r, from |-> current]
    BY DEF Activate
<1>2. /\ snapshot' \in StateFile /\ r \in installed /\ command.step = "idle"
      /\ UNCHANGED <<installed, current, previous, state, drifted>>
    BY DEF Activate, Saved, PanelTypeOK, NoOneElse
<1>3. PanelTypeOK'
    BY <1>1, <1>2, PanelTypes DEF PanelTypeOK, Link
<1>4. LinksLead' /\ CommandInv' /\ RecordInv'
    BY <1>1, <1>2, PanelTypes DEF LinksLead, CommandInv, RecordInv, PanelTypeOK
<1> QED
    BY <1>3, <1>4

LEMMA SwitchesKeep ==
  ASSUME PanelInv, SwitchCurrent \/ LinkPreviousRelease \/ RecordCurrent
  PROVE  PanelInv'
<1> USE DEF PanelInv
<1>1. CASE SwitchCurrent
    <2>1. PanelTypeOK'
        BY <1>1, StepTaken, PanelTypes DEF SwitchCurrent, PanelTypeOK
    <2> QED
        BY <1>1, <2>1, StepTaken, PanelTypes DEF SwitchCurrent, LinksLead, CommandInv, RecordInv
<1>2. CASE LinkPreviousRelease
    <2>1. PanelTypeOK'
        BY <1>2, StepTaken, PanelTypes DEF LinkPreviousRelease, PanelTypeOK
    <2> QED
        BY <1>2, <2>1, StepTaken, PanelTypes DEF LinkPreviousRelease, LinksLead, CommandInv, RecordInv
<1>3. CASE RecordCurrent
    <2>1. PICK row \in StateFile : row = [state EXCEPT !.current = command.to]
        BY StateWritten, PanelTypes
    <2>2. state' = row /\ row.current = command.to
        BY <1>3, <2>1, StateWritten, PanelTypes DEF RecordCurrent
    <2>3. PanelTypeOK'
        BY <1>3, <2>2, StepTaken DEF RecordCurrent, PanelTypeOK
    <2> QED
        BY <1>3, <2>2, <2>3, StepTaken, PanelTypes DEF RecordCurrent, LinksLead, CommandInv, RecordInv
<1> QED
    BY <1>1, <1>2, <1>3

\* What is cleaned up is not linked.
LEMMA CrownAndCleanUpKeeps ==
  ASSUME PanelInv, NEW kept \in SUBSET installed, CrownAndCleanUp(kept)
  PROVE  PanelInv'
<1> USE DEF PanelInv
<1>1. PICK row \in StateFile : row = [state EXCEPT !.lastGood = command.to]
    BY StateWritten, PanelTypes
<1>2. /\ state' = row /\ row.current = command.to /\ row.lastGood = command.to
      /\ current = command.to /\ UNCHANGED <<current, previous, snapshot>> /\ ~drifted'
    BY <1>1, StateWritten, PanelTypes DEF CrownAndCleanUp, CommandInv
<1>3. installed' = kept \cup (installed \cap {current, previous})
    BY DEF CrownAndCleanUp, CleanedUp, LinkedReleases
<1>4. command'.step = "idle" /\ drifted' = FALSE
    BY CommandLeft DEF CrownAndCleanUp
<1>5. PanelTypeOK'
    BY <1>2, <1>3, <1>4, CommandLeft DEF CrownAndCleanUp, PanelTypeOK
<1> QED
    BY <1>2, <1>3, <1>4, <1>5 DEF LinksLead, CommandInv, RecordInv

LEMMA ReturnsKeep ==
  ASSUME PanelInv, SwitchBack \/ RecordReturn
  PROVE  PanelInv'
<1> USE DEF PanelInv
<1>1. CASE SwitchBack /\ command.from = None
    <2>1. PICK row \in StateFile : row = [state EXCEPT !.current = command.to]
        BY StateWritten, PanelTypes
    <2>2. state' = row /\ row.current = command.to /\ row.lastGood = state.lastGood
        BY <1>1, <2>1, StateWritten, PanelTypes DEF SwitchBack
    <2>3. command'.step = "idle" /\ PanelTypeOK'
        BY <1>1, <2>2, CommandLeft DEF SwitchBack, PanelTypeOK
    <2> QED
        BY <1>1, <2>2, <2>3 DEF SwitchBack, LinksLead, CommandInv, RecordInv
<1>2. CASE SwitchBack /\ command.from # None
    <2>1. PanelTypeOK'
        BY <1>2, StepTaken, PanelTypes DEF SwitchBack, PanelTypeOK
    <2> QED
        BY <1>2, <2>1, StepTaken, PanelTypes DEF SwitchBack, LinksLead, CommandInv, RecordInv
<1>3. CASE RecordReturn
    <2>1. PICK row \in StateFile : row = [state EXCEPT !.current = command.from]
        BY StateWritten, PanelTypes
    <2>2. state' = row /\ row.current = command.from /\ row.lastGood = state.lastGood
        BY <1>3, <2>1, StateWritten, PanelTypes DEF RecordReturn
    <2>3. command'.step = "idle" /\ PanelTypeOK'
        BY <1>3, <2>2, CommandLeft DEF RecordReturn, PanelTypeOK
    <2> QED
        BY <1>3, <2>2, <2>3 DEF RecordReturn, LinksLead, CommandInv, RecordInv
<1> QED
    BY <1>1, <1>2, <1>3

LEMMA RollbackBegun ==
  ASSUME PanelInv, BeginRollback, command.step = "idle", UNCHANGED <<installed, previous, snapshot, drifted>>,
         state' \in StateFile, state'.current = state.current, state'.lastGood = state.lastGood
  PROVE  PanelInv'
<1> USE DEF PanelInv
<1>1. /\ command' = [step |-> "swapped", to |-> previous, from |-> current] /\ current' = previous
      /\ current # None /\ previous # None
    BY DEF BeginRollback
<1>2. PanelTypeOK'
    BY <1>1, PanelTypes DEF PanelTypeOK
<1> QED
    BY <1>1, <1>2 DEF LinksLead, CommandInv, RecordInv

LEMMA RollbacksKeep ==
  ASSUME PanelInv,
         \/ RollbackRelease \/ SwapPrevious \/ RecordRollback \/ UndoCurrent \/ UndoPrevious
         \/ \E helps \in BOOLEAN : AutoRecover(helps)
  PROVE  PanelInv'
<1> USE DEF PanelInv
<1>1. CASE RollbackRelease
    BY <1>1, RollbackBegun DEF RollbackRelease, NoOneElse, PanelTypeOK
<1>2. CASE SwapPrevious
    <2>1. PanelTypeOK'
        BY <1>2, StepTaken, PanelTypes DEF SwapPrevious, PanelTypeOK
    <2> QED
        BY <1>2, <2>1, StepTaken, PanelTypes DEF SwapPrevious, LinksLead, CommandInv, RecordInv
<1>3. CASE RecordRollback
    <2>1. PICK row \in StateFile : row = [state EXCEPT !.current = command.to]
        BY StateWritten, PanelTypes
    <2>2. state' = row /\ row.current = command.to /\ row.lastGood = state.lastGood
        BY <1>3, <2>1, StateWritten, PanelTypes DEF RecordRollback
    <2>3. command'.step = "idle" /\ PanelTypeOK'
        BY <1>3, <2>2, CommandLeft DEF RecordRollback, PanelTypeOK
    <2> QED
        BY <1>3, <2>2, <2>3 DEF RecordRollback, LinksLead, CommandInv, RecordInv
<1>4. CASE UndoCurrent
    <2>1. PanelTypeOK'
        BY <1>4, StepTaken, PanelTypes DEF UndoCurrent, PanelTypeOK
    <2> QED
        BY <1>4, <2>1, StepTaken, PanelTypes DEF UndoCurrent, LinksLead, CommandInv, RecordInv
<1>5. CASE UndoPrevious
    <2>1. command'.step = "idle" /\ PanelTypeOK'
        BY <1>5, CommandLeft, PanelTypes DEF UndoPrevious, PanelTypeOK
    <2> QED
        BY <1>5, <2>1, PanelTypes DEF UndoPrevious, LinksLead, CommandInv, RecordInv
<1>6. ASSUME NEW helps \in BOOLEAN, AutoRecover(helps)
      PROVE  PanelInv'
    <2>1. PICK row \in StateFile : row = [state EXCEPT !.cooling = TRUE]
        BY StateWritten, PanelTypes
    <2>2. state' = row /\ row.current = state.current /\ row.lastGood = state.lastGood
        BY <1>6, <2>1, StateWritten, PanelTypes DEF AutoRecover
    <2>3. CASE BeginRollback
        BY <1>6, <2>2, <2>3, RollbackBegun DEF AutoRecover, NoOneElse
    <2>4. CASE UNCHANGED <<current, command>>
        BY <1>6, <2>2, <2>4 DEF AutoRecover, NoOneElse, PanelTypeOK, LinksLead, CommandInv, RecordInv
    <2> QED
        BY <1>6, <2>3, <2>4 DEF AutoRecover
<1> QED
    BY <1>1, <1>2, <1>3, <1>4, <1>5, <1>6

LEMMA PanelStepInv == PanelInv /\ [PanelNext]_panelVars => PanelInv'
<1> SUFFICES ASSUME PanelInv, [PanelNext]_panelVars PROVE PanelInv'
    OBVIOUS
<1>1. CASE UNCHANGED panelVars
    BY <1>1 DEF panelVars, PanelInv, PanelTypeOK, LinksLead, CommandInv, RecordInv
<1>2. CASE PanelNext
    BY <1>2, QuietCommandsKeep, ActivateKeeps, SwitchesKeep, CrownAndCleanUpKeeps, ReturnsKeep, RollbacksKeep
    DEF PanelNext
<1> QED
    BY <1>1, <1>2

LEMMA PanelInvariant == PanelSpec => []PanelInv
BY PanelInitInv, PanelStepInv, PTL DEF PanelSpec

-----------------------------------------------------------------------------
(* Theorems about PanelRelease.                                             *)

\* Every variable has its type, for any releases (release-manager.sh).
THEOREM PanelTypeCorrect == PanelSpec => []PanelTypeOK
<1>1. PanelInv => PanelTypeOK
    BY DEF PanelInv
<1> QED
    BY PanelInvariant, <1>1, PTL

\* WayBack: after a kill between any two steps both links lead to a directory,
\* and while nothing drifted the state file names the linked release and the
\* accepted one is within reach (activate_release, rollback_release,
\* auto_recover, cleanup_old_releases).
THEOREM PanelRecoverable == PanelSpec => []WayBack
<1>1. PanelInv => WayBack
    BY DEF PanelInv, LinksLead, RecordInv, WayBack, NoOneElse
<1> QED
    BY PanelInvariant, <1>1, PTL
=============================================================================

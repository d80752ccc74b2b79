-------------------------- MODULE ConnectionProofs --------------------------
(***************************************************************************)
(* Theorems about Connection, for any number of grants, authorizations and *)
(* requests, whatever the retention, for any lifetime of access tokens     *)
(* that is longer than two requests take.                                  *)
(***************************************************************************)
EXTENDS Connection, TLAPS

-----------------------------------------------------------------------------
\* Type correctness.

\* What a request holds at each of its statements: the strengthening that makes
\* TypeOK inductive.
Holding(h) ==
  LET r == req[h] IN
  /\ r.pc \in {"refresh", "use"} => r.op = "access"
  /\ r.op = "access" => r.pc \in {"refresh", "save", "use"}
  /\ r.pc \in {"refresh", "save", "use"} => r.row \in Row
  /\ r.pc = "refresh" => r.row.auth = "oauth" /\ r.row.refresh # NoGrant
  /\ r.pc = "save" /\ r.op = "access" => r.row.auth = "oauth"
  /\ r.pc = "save" /\ r.row.auth = "token"
       => r.row.refresh = NoGrant /\ r.row.token = r.row.site
  /\ r.pc = "forget" => r.state \in States

TypeInv == TypeOK /\ \A h \in Handlers : Holding(h)

LEMMA IdleType == Idle \in Request
  BY TimeAssumption DEF Idle, Request, PCs, Moments

LEMMA NotARow == \A r \in Row : r # NoRow
  BY DEF Row, NoRow

\* A request moves on or ends, and the others stay as they are.
LEMMA MoveType ==
  ASSUME TypeInv, NEW h \in Handlers, NEW r \in Request,
         req' = [req EXCEPT ![h] = r], Holding(h)'
  PROVE  /\ req' \in [Handlers -> Request]
         /\ \A k \in Handlers : Holding(k)'
  <1>1. \A k \in Handlers : k # h => req'[k] = req[k]
    BY DEF TypeInv, TypeOK
  <1> QED
    BY <1>1 DEF TypeInv, TypeOK, Holding

LEMMA FinishType ==
  ASSUME TypeInv, NEW h \in Handlers, Finish(h)
  PROVE  /\ req' \in [Handlers -> Request]
         /\ \A k \in Handlers : Holding(k)'
  <1>1. Idle \in Request /\ req' = [req EXCEPT ![h] = Idle]
    BY IdleType DEF Finish
  <1>2. Holding(h)'
    BY <1>1 DEF Holding, Idle, TypeInv, TypeOK
  <1> QED
    BY <1>1, <1>2, MoveType

\* The rows that requests make and store are rows.
LEMMA GrantRowType ==
  ASSUME now \in Times, NEW auth \in {"token", "oauth"}, NEW g \in Grants
  PROVE  /\ GrantRow(auth, g) \in Row
         /\ GrantRow(auth, g).auth = auth
         /\ auth = "token" => /\ GrantRow(auth, g).refresh = NoGrant
                              /\ GrantRow(auth, g).token = g
                              /\ GrantRow(auth, g).site = g
  <1>1. now + TTL \in Moments /\ now + Life \in Moments
    BY TimeAssumption DEF Times, Moments
  <1> QED
    BY <1>1 DEF GrantRow, Row

LEMMA RenewedType ==
  ASSUME now \in Times, NEW r \in Row, r.refresh # NoGrant,
         NEW rotated \in BOOLEAN
  PROVE  /\ Renewed(r, rotated) \in Row
         /\ Renewed(r, rotated).auth = r.auth
  <1>1. now + Life \in Moments
    BY TimeAssumption DEF Times, Moments
  <1> QED
    BY <1>1 DEF Renewed, Row

LEMMA UpsertType ==
  ASSUME row \in Row \cup {NoRow}, NEW r \in Row, Upsert(r),
         r.auth = "token" => r.refresh = NoGrant /\ r.token = r.site
  PROVE  /\ row' \in Row
         /\ row'.auth = "token"
              => row'.refresh = NoGrant /\ row'.token = row'.site
  <1>1. row.refresh \in Grants \cup {NoGrant}
    BY DEF Row, NoRow
  <1> QED
    BY <1>1 DEF Upsert, Row

LEMMA HandOverType ==
  ASSUME TypeInv, NEW h \in Handlers, NEW auth \in {"token", "oauth"},
         HandOver(h, auth), req[h].op # "access"
  PROVE  TypeInv'
  <1>1. PICK g \in Grants : /\ granted' = [granted EXCEPT ![g] = now]
                            /\ Carry(h, GrantRow(auth, g))
    BY DEF HandOver
  <1>2. now \in Times /\ req[h] \in Request /\ req \in [Handlers -> Request]
    BY DEF TypeInv, TypeOK
  <1>3. PICK fresh \in Row :
          /\ fresh = GrantRow(auth, g)
          /\ fresh.auth = "token" =>
               fresh.refresh = NoGrant /\ fresh.token = fresh.site
    BY <1>2, GrantRowType
  <1> DEFINE r == [req[h] EXCEPT !.pc = "save", !.row = fresh]
  <1>4. r \in Request /\ r.pc = "save" /\ r.row = fresh /\ r.op = req[h].op
    BY <1>2 DEF Request, PCs
  <1>5. req' = [req EXCEPT ![h] = r]
    BY <1>1, <1>3 DEF Carry
  <1>6. req'[h] = r
    BY <1>2, <1>5
  <1> HIDE DEF r
  <1>7. Holding(h)'
    BY <1>3, <1>4, <1>6 DEF Holding
  <1>8. granted' \in [Grants -> Times \cup {Never}]
    BY <1>1, <1>2 DEF TypeInv, TypeOK
  <1>9. req' \in [Handlers -> Request] /\ \A k \in Handlers : Holding(k)'
    BY <1>4, <1>5, <1>7, MoveType
  <1> QED
    BY <1>8, <1>9 DEF HandOver, TypeInv, TypeOK

LEMMA StepType ==
  ASSUME TypeInv, NEW h \in Handlers, Step(h)
  PROVE  TypeInv'
  <1>0. req[h] \in Request /\ Holding(h) /\ now \in Times
    BY DEF TypeInv, TypeOK
  <1>1. CASE Save(h)
    <2>1. /\ row' \in Row
          /\ row'.auth = "token"
               => row'.refresh = NoGrant /\ row'.token = row'.site
      BY <1>0, <1>1, UpsertType DEF Save, Holding, TypeInv, TypeOK
    <2>2. CASE Finish(h)
      BY <1>1, <2>1, <2>2, FinishType DEF Save, TypeInv, TypeOK
    <2>3. CASE req[h].op = "access" /\ Goto(h, "use")
      <3> DEFINE r == [req[h] EXCEPT !.pc = "use"]
      <3>1. /\ r \in Request /\ req' = [req EXCEPT ![h] = r] /\ r.pc = "use"
            /\ r.op = "access" /\ r.row = req[h].row
        BY <1>0, <2>3 DEF Goto, Request, PCs
      <3>2. req'[h] = r
        BY <3>1 DEF TypeInv, TypeOK
      <3> HIDE DEF r
      <3>3. Holding(h)'
        BY <1>0, <1>1, <3>1, <3>2 DEF Holding, Save
      <3> QED
        BY <1>1, <2>1, <3>1, <3>3, MoveType DEF Save, TypeInv, TypeOK
    <2> QED
      BY <1>1, <2>2, <2>3 DEF Save
  <1>2. CASE Verified(h) \/ Exchanged(h)
    <2>1. req[h].op # "access"
      BY <1>0, <1>2 DEF Verified, Exchanged, Holding
    <2> QED
      BY <1>2, <2>1, HandOverType DEF Verified, Exchanged
  <1>3. CASE Forget(h)
    <2>1. expires' \in [States -> Moments \cup {Unissued, Gone}]
      BY <1>3 DEF Forget, TypeInv, TypeOK
    <2>2. CASE Finish(h)
      BY <1>3, <2>1, <2>2, FinishType DEF Forget, TypeInv, TypeOK
    <2>3. CASE Goto(h, "exchange")
      <3> DEFINE r == [req[h] EXCEPT !.pc = "exchange"]
      <3>1. /\ r \in Request /\ req' = [req EXCEPT ![h] = r]
            /\ r.pc = "exchange" /\ r.op = req[h].op
        BY <1>0, <2>3 DEF Goto, Request, PCs
      <3>2. req'[h] = r
        BY <3>1 DEF TypeInv, TypeOK
      <3> HIDE DEF r
      <3>3. Holding(h)'
        BY <1>0, <1>3, <3>1, <3>2 DEF Holding, Forget
      <3> QED
        BY <1>3, <2>1, <3>1, <3>3, MoveType DEF Forget, TypeInv, TypeOK
    <2> QED
      BY <1>3, <2>2, <2>3 DEF Forget
  <1>4. CASE Refreshed(h)
    <2>1. PICK rotated \in BOOLEAN : Carry(h, Renewed(req[h].row, rotated))
      BY <1>4 DEF Refreshed
    <2>2. /\ Renewed(req[h].row, rotated) \in Row
          /\ Renewed(req[h].row, rotated).auth = "oauth"
      BY <1>0, <1>4, RenewedType DEF Refreshed, Holding
    <2> DEFINE r == [req[h] EXCEPT !.pc = "save",
                                   !.row = Renewed(req[h].row, rotated)]
    <2>3. /\ r \in Request /\ req' = [req EXCEPT ![h] = r] /\ r.pc = "save"
          /\ r.op = req[h].op /\ r.row = Renewed(req[h].row, rotated)
      BY <1>0, <2>1, <2>2 DEF Carry, Request, PCs
    <2>4. req'[h] = r
      BY <2>3 DEF TypeInv, TypeOK
    <2> HIDE DEF r
    <2>5. Holding(h)'
      BY <1>0, <1>4, <2>2, <2>3, <2>4 DEF Holding, Refreshed
    <2> QED
      BY <1>4, <2>3, <2>5, MoveType DEF Refreshed, TypeInv, TypeOK
  <1>5. CASE Use(h)
    BY <1>5, FinishType DEF Use, TypeInv, TypeOK
  <1> QED
    BY <1>1, <1>2, <1>3, <1>4, <1>5 DEF Step

LEMMA AccessType ==
  ASSUME TypeInv, NEW h \in Handlers, StartAccess(h)
  PROVE  TypeInv'
  <1>1. row \in Row /\ req \in [Handlers -> Request]
    BY DEF StartAccess, Readable, TypeInv, TypeOK
  <1>2. PICK pc \in {"use", "refresh"} :
          /\ req' = [req EXCEPT ![h] = [Idle EXCEPT !.op = "access",
                                                   !.pc = pc, !.row = row]]
          /\ pc = "refresh" => Stale(row) /\ row.refresh # NoGrant
    BY DEF StartAccess, Access, Serve
  <1> DEFINE r == [Idle EXCEPT !.op = "access", !.pc = pc, !.row = row]
  <1>3. r \in Request /\ r.pc = pc /\ r.row = row /\ r.op = "access"
    BY <1>1, IdleType DEF Idle, Request, PCs
  <1>4. req' = [req EXCEPT ![h] = r] /\ req'[h] = r
    BY <1>1, <1>2
  <1> HIDE DEF r
  <1>5. Holding(h)'
    BY <1>1, <1>2, <1>3, <1>4 DEF Holding, Stale
  <1>6. req' \in [Handlers -> Request] /\ \A k \in Handlers : Holding(k)'
    BY <1>3, <1>4, <1>5, MoveType
  <1> QED
    BY <1>6 DEF StartAccess, TypeInv, TypeOK

LEMMA StartType ==
  ASSUME TypeInv, NEW h \in Handlers, Start(h)
  PROVE  TypeInv'
  <1>1. req \in [Handlers -> Request]
    BY DEF TypeInv, TypeOK
  <1>2. CASE StartConnect(h)
    <2> DEFINE r == [Idle EXCEPT !.op = "connect", !.pc = "verify"]
    <2>1. r \in Request /\ r.pc = "verify" /\ r.op = "connect"
      BY IdleType DEF Idle, Request, PCs
    <2>2. req' = [req EXCEPT ![h] = r] /\ req'[h] = r
      BY <1>1, <1>2 DEF StartConnect, Serve
    <2> HIDE DEF r
    <2>3. Holding(h)'
      BY <2>1, <2>2 DEF Holding
    <2>4. req' \in [Handlers -> Request] /\ \A k \in Handlers : Holding(k)'
      BY <2>1, <2>2, <2>3, MoveType
    <2> QED
      BY <1>2, <2>4 DEF StartConnect, TypeInv, TypeOK
  <1>3. CASE StartCallback(h)
    <2>1. PICK s \in States :
            /\ Pending(s)
            /\ Serve(h, [Idle EXCEPT !.op = "callback", !.pc = "forget",
                                     !.state = s, !.expires = expires[s]])
      BY <1>3 DEF StartCallback
    <2>2. expires[s] \in Moments
      BY <2>1 DEF Pending, TypeInv, TypeOK
    <2> DEFINE r == [Idle EXCEPT !.op = "callback", !.pc = "forget",
                                 !.state = s, !.expires = expires[s]]
    <2>3. r \in Request /\ r.pc = "forget" /\ r.op = "callback" /\ r.state = s
      BY <2>2, IdleType DEF Idle, Request, PCs
    <2>4. req' = [req EXCEPT ![h] = r] /\ req'[h] = r
      BY <1>1, <2>1 DEF Serve
    <2> HIDE DEF r
    <2>5. Holding(h)'
      BY <2>3, <2>4 DEF Holding
    <2>6. req' \in [Handlers -> Request] /\ \A k \in Handlers : Holding(k)'
      BY <2>3, <2>4, <2>5, MoveType
    <2> QED
      BY <1>3, <2>6 DEF StartCallback, TypeInv, TypeOK
  <1> QED
    BY <1>2, <1>3, AccessType DEF Start

LEMMA TickType ==
  ASSUME TypeInv, Tick
  PROVE  TypeInv'
  <1>1. now' \in Times
    BY TimeAssumption DEF Tick, Times, TypeInv, TypeOK
  <1>2. req' \in [Handlers -> Request]
    BY ZenonT(60) DEF Tick, TypeInv, TypeOK, Request
  <1>3. ASSUME NEW h \in Handlers
        PROVE  Holding(h)'
    <2>1. /\ req'[h].op = req[h].op /\ req'[h].pc = req[h].pc
          /\ req'[h].row = req[h].row /\ req'[h].state = req[h].state
      BY DEF Tick, TypeInv, TypeOK, Request
    <2> QED
      BY <2>1 DEF TypeInv, Holding
  <1> QED
    BY <1>1, <1>2, <1>3 DEF Tick, TypeInv, TypeOK

LEMMA NextType ==
  ASSUME TypeInv, Next
  PROVE  TypeInv'
  <1>1. ASSUME NEW h \in Handlers, Abort(h)
        PROVE  TypeInv'
    BY <1>1, FinishType DEF Abort, TypeInv, TypeOK
  <1>2. ASSUME NEW s \in States, JiraAuthorizeURL(s)
        PROVE  TypeInv'
    <2>1. now + StateLife \in Moments
      BY TimeAssumption DEF TypeInv, TypeOK, Times, Moments
    <2>2. expires' \in [States -> Moments \cup {Unissued, Gone}]
      BY <1>2, <2>1 DEF JiraAuthorizeURL, TypeInv, TypeOK
    <2> QED
      BY <1>2, <2>2 DEF JiraAuthorizeURL, TypeInv, TypeOK, Holding
  <1>3. CASE DisconnectSource \/ Purge
    BY <1>3 DEF DisconnectSource, Purge, TypeInv, TypeOK, Holding, NoRow
  <1> QED
    BY <1>1, <1>2, <1>3, StartType, StepType, TickType DEF Next

LEMMA InitType == Init => TypeInv
  <1> SUFFICES ASSUME Init PROVE TypeInv
    OBVIOUS
  <1>1. now \in Times /\ row = NoRow /\ NoRow.auth = "none"
    BY TimeAssumption DEF Init, Times, NoRow
  <1>2. \A h \in Handlers : req[h] \in Request /\ Holding(h)
    BY IdleType DEF Init, Holding, Idle
  <1> QED
    BY <1>1, <1>2, IdleType DEF Init, TypeInv, TypeOK

LEMMA TypeInvInductive == Spec => []TypeInv
  <1>1. TypeInv /\ [Next]_vars => TypeInv'
    BY NextType DEF TypeInv, TypeOK, Holding, vars
  <1> QED
    BY <1>1, InitType, PTL DEF Spec

\* In every state, whatever requests overtake each other, the row is one that
\* its columns can hold, and a personal access token never shares it with what
\* an OAuth connection left behind (SaveSourceConnection).
THEOREM TypeCorrect == Spec => []TypeOK
  BY TypeInvInductive, PTL DEF TypeInv

-----------------------------------------------------------------------------
\* UsedInTime.

\* The strengthening of UsedInTime: also a refresh under way, and the write that
\* follows it, carry a row that was read before its deadline.
InTime(h) ==
  LET r == req[h] IN
  /\ r.op = "access" => now < r.row.until \/ (r.late /\ now = r.row.until)
  /\ r.pc = "exchange" =>
       now <= r.expires \/ (r.late /\ now = r.expires + 1)

TimeInv == TypeInv /\ \A h \in Handlers : InTime(h)

\* A request moves on: what holds of the others still does.
LEMMA TimeMove ==
  ASSUME TimeInv, TypeInv', NEW h \in Handlers, NEW r \in Request,
         req' = [req EXCEPT ![h] = r], now' = now,
         r.op = "access" => now < r.row.until \/ (r.late /\ now = r.row.until),
         r.pc = "exchange" =>
           now <= r.expires \/ (r.late /\ now = r.expires + 1)
  PROVE  TimeInv'
  <1>1. req \in [Handlers -> Request]
    BY DEF TimeInv, TypeInv, TypeOK
  <1>2. \A k \in Handlers : req'[k] = IF k = h THEN r ELSE req[k]
    BY <1>1
  <1>3. ASSUME NEW k \in Handlers
        PROVE  InTime(k)'
    <2>1. CASE k = h
      BY <1>2, <2>1 DEF InTime
    <2>2. CASE k # h
      BY <1>2, <2>2 DEF InTime, TimeInv
    <2> QED
      BY <2>1, <2>2
  <1> QED
    BY <1>3 DEF TimeInv

LEMMA TimeStart ==
  ASSUME TimeInv, TypeInv', NEW h \in Handlers, Start(h)
  PROVE  TimeInv'
  <1>1. now' = now
    BY DEF Start, StartConnect, StartCallback, StartAccess
  <1>2. req' \in [Handlers -> Request] /\ req \in [Handlers -> Request]
    BY DEF TimeInv, TypeInv, TypeOK
  <1>3. /\ req' = [req EXCEPT ![h] = req'[h]]
        /\ req'[h].op = "access" => now < req'[h].row.until
        /\ req'[h].pc # "exchange"
    BY <1>2, ZenonT(60) DEF Start, StartConnect, StartCallback, StartAccess, Access, Serve,
                Idle, Readable
  <1> QED
    BY <1>1, <1>2, <1>3, TimeMove

LEMMA TimeStep ==
  ASSUME TimeInv, TypeInv', NEW h \in Handlers, Step(h) \/ Abort(h)
  PROVE  TimeInv'
  <1>1. now' = now
    BY DEF Step, Save, Verified, Exchanged, HandOver, Forget, Refreshed, Use,
           Abort
  <1>2. req' \in [Handlers -> Request] /\ req \in [Handlers -> Request]
    BY DEF TimeInv, TypeInv, TypeOK
  <1>3. Holding(h) /\ InTime(h) /\ Holding(h)'
    BY DEF TimeInv, TypeInv
  <1>4. CASE Finish(h)
    <2>1. Idle.op = "none" /\ Idle.pc = "idle"
      BY DEF Idle
    <2> QED
      BY <1>1, <1>4, <2>1, IdleType, TimeMove DEF Finish
  <1>5. CASE Goto(h, "use") \/ (Goto(h, "exchange") /\ now <= req[h].expires)
    <2>1. /\ req' = [req EXCEPT ![h] = req'[h]] /\ req'[h].op = req[h].op
          /\ req'[h].row = req[h].row /\ req'[h].late = req[h].late
          /\ req'[h].expires = req[h].expires
          /\ req'[h].pc = "exchange" => now <= req[h].expires
      BY <1>2, <1>5 DEF Goto, Request
    <2> QED
      BY <1>1, <1>2, <1>3, <2>1, TimeMove DEF InTime
  <1>6. ASSUME NEW r, Carry(h, r), req[h].op = "access" => r.until = req[h].row.until
        PROVE  TimeInv'
    <2>1. /\ req' = [req EXCEPT ![h] = req'[h]] /\ req'[h].op = req[h].op
          /\ req'[h].row = r /\ req'[h].late = req[h].late
          /\ req'[h].pc = "save"
      BY <1>2, <1>6, ZenonT(60) DEF Carry, Request
    <2> QED
      BY <1>1, <1>2, <1>3, <1>6, <2>1, TimeMove DEF InTime
  <1>7. CASE Verified(h) \/ Exchanged(h)
    <2>1. req[h].op # "access"
      BY <1>3, <1>7 DEF Verified, Exchanged, Holding
    <2> QED
      BY <1>6, <1>7, <2>1 DEF Verified, Exchanged, HandOver
  <1>8. CASE Refreshed(h)
    <2>1. req[h].row \in Row
      BY <1>3, <1>8 DEF Refreshed, Holding
    <2>2. \A rotated \in BOOLEAN :
            Renewed(req[h].row, rotated).until = req[h].row.until
      BY <2>1 DEF Renewed, Row
    <2> QED
      BY <1>6, <1>8, <2>2 DEF Refreshed
  <1> QED
    BY <1>4, <1>5, <1>7, <1>8 DEF Step, Save, Forget, Use, Abort

LEMMA TimeTick ==
  ASSUME TimeInv, TypeInv', Tick
  PROVE  TimeInv'
  <1> SUFFICES ASSUME NEW h \in Handlers
               PROVE  InTime(h)'
    BY DEF TimeInv
  <1>1. req[h] \in Request /\ now \in Nat
    BY DEF TimeInv, TypeInv, TypeOK, Times
  <1>2. /\ req'[h].op = req[h].op /\ req'[h].pc = req[h].pc
        /\ req'[h].row = req[h].row /\ req'[h].expires = req[h].expires
        /\ req'[h].late = (req[h] # Idle) /\ ~req[h].late
    BY <1>1 DEF Tick, Request
  <1>3. CASE req[h].op = "access"
    <2>1. req[h].row \in Row /\ req[h] # Idle /\ req[h].pc # "exchange"
      BY <1>3 DEF TimeInv, TypeInv, Holding, Idle
    <2>2. req[h].row.until \in Nat
      BY <2>1, TimeAssumption DEF Row, Moments
    <2>3. now < req[h].row.until
      BY <1>2, <1>3 DEF InTime, TimeInv
    <2>4. now' < req[h].row.until \/ now' = req[h].row.until
      BY <1>1, <2>2, <2>3 DEF Tick
    <2> QED
      BY <1>2, <1>3, <2>1, <2>4 DEF InTime
  <1>4. CASE req[h].op # "access" /\ req[h].pc = "exchange"
    <2>1. req[h] # Idle /\ req[h].expires \in Nat
      BY <1>1, <1>4, TimeAssumption DEF Request, Idle, Moments
    <2>2. now <= req[h].expires
      BY <1>2, <1>4 DEF InTime, TimeInv
    <2>3. now' <= req[h].expires \/ now' = req[h].expires + 1
      BY <1>1, <2>1, <2>2, SMTT(30) DEF Tick
    <2> QED
      BY <1>2, <1>4, <2>1, <2>3 DEF InTime
  <1> QED
    BY <1>2, <1>3, <1>4 DEF InTime

LEMMA TimeInvInductive == Spec => []TimeInv
  <1>1. Init => TimeInv
    BY InitType DEF Init, TimeInv, InTime, Idle
  <1>2. TimeInv /\ [Next]_vars => TimeInv'
    <2> SUFFICES ASSUME TimeInv, [Next]_vars
                 PROVE  TimeInv'
      OBVIOUS
    <2>1. CASE UNCHANGED vars
      BY <2>1 DEF TimeInv, TypeInv, TypeOK, Holding, InTime, vars
    <2>2. CASE Next
      <3>1. TypeInv'
        BY <2>2, NextType DEF TimeInv
      <3>2. ASSUME NEW s \in States, JiraAuthorizeURL(s)
            PROVE  TimeInv'
        BY <3>1, <3>2 DEF JiraAuthorizeURL, TimeInv, InTime
      <3>3. CASE DisconnectSource \/ Purge
        BY <3>1, <3>3 DEF DisconnectSource, Purge, TimeInv, InTime
      <3> QED
        BY <2>2, <3>1, <3>2, <3>3, TimeStart, TimeStep, TimeTick DEF Next
    <2> QED
      BY <2>1, <2>2
  <1> QED
    BY <1>1, <1>2, PTL DEF Spec

\* No request calls a tracker with credentials past the room's deadline, or
\* exchanges the code of an authorization that took too long, unless the time ran
\* out while it was under way: whatever the purge does and however requests
\* interleave (RawSourceConnection, ConsumeOAuthState).
THEOREM OnlyUsedInTime == Spec => []UsedInTime
  <1>1. TimeInv => UsedInTime
    BY DEF TimeInv, TypeInv, Holding, InTime, UsedInTime
  <1> QED
    BY <1>1, TimeInvInductive, PTL

-----------------------------------------------------------------------------
\* RetentionKept.

\* The grants something of which is in the row r.
In(r) == {r.site, r.token, r.refresh} \ {NoGrant}

\* The deadline of r is counted from the oldest grant in it, unless it has
\* inherited a refresh token; its access token is no older.
Sound(r) ==
  /\ \A g \in In(r) :
       /\ granted[g] <= now
       /\ r.site \in Offline => granted[r.site] <= granted[g]
  /\ r.until = granted[r.site] + TTL
  /\ r.auth = "oauth" => granted[r.site] + Life <= r.tokenUntil

\* Requests on the way to store what has just been handed over.
Storing(h) == req[h].pc = "save" /\ req[h].op # "access"

\* Requests that refresh what they have read.
Refreshing(h) == req[h].op = "access" /\ req[h].pc \in {"refresh", "save"}

\* What is about to be stored for the first time is of one grant and recent.
Recent(h) ==
  LET r == req[h].row IN
  /\ In(r) = {r.site}
  /\ r.auth = "oauth" /\ r.site \in Offline => r.refresh = r.site
  /\ now <= granted[r.site] + IF req[h].late THEN 1 ELSE 0

\* What is being refreshed is old: older than anything stored meanwhile, if it
\* has a refresh token of its own.
Old(h) ==
  LET s == req[h].row.site IN
  /\ granted[s] + Life <= now
  /\ s \in Offline => \A g \in Held : granted[s] <= granted[g]
  /\ \/ row.site = s
     \/ row.auth # "oauth"
     \/ now + (IF req[h].late THEN 0 ELSE 1) < row.tokenUntil

AgeInv ==
  /\ TypeInv
  /\ row # NoRow => Sound(row)
  /\ \A h \in Handlers : Storing(h) \/ Refreshing(h) => Sound(req[h].row)
  /\ \A h \in Handlers : Storing(h) => Recent(h)
  /\ \A h \in Handlers : Refreshing(h) => Old(h)
  /\ \A h, k \in Handlers :
       Refreshing(h) /\ Refreshing(k) => req[h].row.site = req[k].row.site
LEMMA Numbers ==
  ASSUME TypeInv
  PROVE  /\ now \in Nat /\ now < Never /\ Life \in Nat /\ Life > 2 /\ TTL \in Nat
         /\ \A g \in Grants : granted[g] \in Nat
         /\ req \in [Handlers -> Request]
         /\ row \in Row \cup {NoRow}
  BY TimeAssumption, LifeAssumption DEF TypeInv, TypeOK, Times, Never

LEMMA RowNumbers ==
  ASSUME NEW r \in Row
  PROVE  /\ r.site \in In(r) /\ In(r) \subseteq Grants /\ r.site \in Grants
         /\ r.until \in Nat /\ r.tokenUntil \in Nat
         /\ r.auth \in {"token", "oauth"}
  BY TimeAssumption, GrantAssumption DEF Row, In, Moments

LEMMA CarriedRow ==
  ASSUME TypeInv, NEW h \in Handlers, Storing(h) \/ Refreshing(h)
  PROVE  req[h].row \in Row
  BY DEF TypeInv, Holding, Storing, Refreshing

LEMMA HeldIn ==
  /\ Held = In(row)
  /\ row = NoRow => Held = {}
  /\ row = NoRow => row.auth = "none"
  BY DEF Held, In, NoRow

\* Nothing is stored, handed over or refreshed.
LEMMA AgeKeep ==
  ASSUME AgeInv, TypeInv', now' = now, granted' = granted,
         row' = row \/ row' = NoRow,
         \A k \in Handlers : req'[k] = req[k]
                             \/ ~(Storing(k) \/ Refreshing(k))'
  PROVE  AgeInv'
  <1>1. (row # NoRow => Sound(row))'
    BY DEF AgeInv, Sound
  <1>2. \A k \in Handlers : (Storing(k) \/ Refreshing(k) => Sound(req[k].row))'
    BY DEF AgeInv, Sound, Storing, Refreshing
  <1>3. \A k \in Handlers : (Storing(k) => Recent(k))'
    BY DEF AgeInv, Recent, Storing, Refreshing
  <1>4. ASSUME NEW k \in Handlers, Refreshing(k)'
        PROVE  Old(k)'
    <2>1. req'[k] = req[k] /\ Refreshing(k) /\ Old(k)
      BY <1>4 DEF AgeInv, Refreshing
    <2>2. Held' = Held \/ Held' = {}
      BY HeldIn DEF Held, NoRow
    <2>3. row' = row \/ row'.auth = "none"
      BY DEF NoRow
    <2> QED
      BY <2>1, <2>2, <2>3 DEF Old
  <1>5. \A h, k \in Handlers :
          (Refreshing(h) /\ Refreshing(k) => req[h].row.site = req[k].row.site)'
    BY DEF AgeInv, Refreshing, Storing
  <1> QED
    BY <1>1, <1>2, <1>3, <1>4, <1>5 DEF AgeInv

LEMMA AgeStart ==
  ASSUME AgeInv, TypeInv', NEW h \in Handlers, StartAccess(h), Refreshing(h)'
  PROVE  AgeInv'
  <1>0. TypeInv
    BY DEF AgeInv
  <1>1. /\ row \in Row /\ row # NoRow /\ Sound(row) /\ Held = In(row)
        /\ now' = now /\ granted' = granted /\ row' = row
    BY <1>0, HeldIn DEF StartAccess, Readable, AgeInv, TypeInv, TypeOK
  <1>2. /\ Stale(row)
        /\ \A k \in Handlers : k # h => req'[k] = req[k]
        /\ req'[h].row = row /\ req'[h].op = "access" /\ req'[h].pc = "refresh"
    BY <1>0, ZenonT(60) DEF StartAccess, Access, Serve, Refreshing, TypeInv, TypeOK, Idle
  <1>3. row.auth = "oauth" /\ row.tokenUntil <= now
    BY <1>2 DEF Stale
  <1>4. granted[row.site] + Life <= now
    BY <1>0, <1>1, <1>3, Numbers, RowNumbers DEF Sound
  <1>5. \A k \in Handlers : Refreshing(k) => req[k].row.site = row.site
    BY <1>0, <1>1, <1>3, Numbers, RowNumbers DEF AgeInv, Old
  <1>6. (row # NoRow => Sound(row))'
    BY <1>1 DEF Sound
  <1>7. \A k \in Handlers : (Storing(k) \/ Refreshing(k) => Sound(req[k].row))'
    BY <1>1, <1>2 DEF AgeInv, Sound, Storing, Refreshing
  <1>8. \A k \in Handlers : (Storing(k) => Recent(k))'
    BY <1>1, <1>2 DEF AgeInv, Recent, Storing
  <1>9. \A k \in Handlers : (Refreshing(k) => Old(k))'
    <2>1. Held' = Held
      BY <1>1 DEF Held
    <2>2. Old(h)'
      BY <1>1, <1>2, <1>4, <2>1 DEF Old, Sound
    <2>3. ASSUME NEW k \in Handlers, k # h, Refreshing(k)'
          PROVE  Old(k)'
      BY <1>1, <1>2, <2>1, <2>3 DEF AgeInv, Old, Refreshing
    <2> QED
      BY <2>2, <2>3
  <1>10. \A j, k \in Handlers :
           (Refreshing(j) /\ Refreshing(k) => req[j].row.site = req[k].row.site)'
    <2>1. \A k \in Handlers : Refreshing(k)' => req'[k].row.site = row.site
      BY <1>2, <1>5 DEF Refreshing
    <2> QED
      BY <2>1
  <1> QED
    BY <1>6, <1>7, <1>8, <1>9, <1>10 DEF AgeInv

\* A handing over touches no grant that is stored or about to be.
LEMMA AgeHandOver ==
  ASSUME AgeInv, TypeInv', NEW h \in Handlers, NEW auth \in {"token", "oauth"},
         HandOver(h, auth), req[h].op # "access"
  PROVE  AgeInv'
  <1>0. TypeInv
    BY DEF AgeInv
  <1>1. PICK g \in Grants : /\ granted[g] = Never
                            /\ granted' = [granted EXCEPT ![g] = now]
                            /\ Carry(h, GrantRow(auth, g))
    BY DEF HandOver
  <1>2. now' = now /\ row' = row
    BY DEF HandOver
  <1>3. granted'[g] = now /\ \A f \in Grants : f # g => granted'[f] = granted[f]
    BY <1>0, <1>1 DEF TypeInv, TypeOK
  <1>4. PICK fresh \in Row : fresh = GrantRow(auth, g)
    BY <1>0, GrantRowType DEF TypeInv, TypeOK
  <1>5. /\ \A k \in Handlers : k # h => req'[k] = req[k]
        /\ req'[h].row = fresh /\ req'[h].pc = "save"
        /\ req'[h].op = req[h].op /\ req'[h].op # "access"
    BY <1>0, <1>1, <1>4, Numbers DEF Carry, Request
  <1>6. ASSUME NEW r \in Row, Sound(r)
        PROVE  /\ \A f \in In(r) : granted'[f] = granted[f]
               /\ Sound(r)'
    <2>1. g \notin In(r)
      BY <1>0, <1>1, <1>6, Numbers, RowNumbers DEF Sound
    <2>2. \A f \in In(r) : granted'[f] = granted[f]
      BY <1>3, <2>1, RowNumbers
    <2> QED
      BY <1>2, <1>6, <2>2, RowNumbers DEF Sound
  <1>7. /\ In(fresh) = {g} /\ fresh.site = g /\ fresh.until = now + TTL
        /\ fresh.auth = "oauth" /\ g \in Offline => fresh.refresh = g
        /\ fresh.auth = "oauth" => fresh.tokenUntil = now + Life
    BY <1>4, GrantAssumption DEF In, GrantRow
  <1>8. Sound(fresh)'
    BY <1>0, <1>2, <1>3, <1>7, Numbers DEF Sound
  <1>9. (row # NoRow => Sound(row))'
    <2>1. CASE row = NoRow
      BY <1>2, <2>1
    <2>2. CASE row # NoRow
      <3>1. PICK r \in Row : r = row /\ Sound(r)
        BY <1>0, <2>2, Numbers DEF AgeInv
      <3>2. Sound(r)'
        BY <1>6, <3>1
      <3>3. row' = r
        BY <1>2, <3>1
      <3> QED
        BY <3>2, <3>3 DEF Sound
    <2> QED
      BY <2>1, <2>2
  <1>10. ASSUME NEW k \in Handlers, k # h, (Storing(k) \/ Refreshing(k))'
         PROVE  /\ \E r \in Row : /\ req'[k].row = r /\ req[k].row = r
                                  /\ Sound(r) /\ Sound(r)'
                                  /\ \A f \in In(r) : granted'[f] = granted[f]
                /\ req'[k] = req[k]
                /\ Storing(k)' => Storing(k)
                /\ Refreshing(k)' => Refreshing(k)
    <2>1. /\ req'[k] = req[k]
          /\ Storing(k)' => Storing(k)
          /\ Refreshing(k)' => Refreshing(k)
      BY <1>5, <1>10 DEF Storing, Refreshing
    <2>2. PICK r \in Row : r = req[k].row /\ Sound(r)
      BY <1>0, <1>10, <2>1, CarriedRow DEF AgeInv
    <2> QED
      BY <1>6, <2>1, <2>2
  <1>11. \A k \in Handlers : (Storing(k) \/ Refreshing(k) => Sound(req[k].row))'
    <2>1. ASSUME NEW k \in Handlers, (Storing(k) \/ Refreshing(k))'
          PROVE  \E r \in Row : req'[k].row = r /\ Sound(r)'
      BY <1>5, <1>8, <1>10, <2>1
    <2> QED
      BY <2>1 DEF Sound
  <1>12. ASSUME NEW k \in Handlers, Storing(k)'
         PROVE  Recent(k)'
    <2>1. CASE k = h
      BY <1>0, <1>2, <1>3, <1>5, <1>7, <2>1, Numbers DEF Recent
    <2>2. CASE k # h
      <3>1. PICK r \in Row : /\ req'[k].row = r /\ req[k].row = r
                             /\ \A f \in In(r) : granted'[f] = granted[f]
        BY <1>10, <1>12, <2>2
      <3>2. req'[k] = req[k] /\ Recent(k)
        BY <1>10, <1>12, <2>2 DEF AgeInv
      <3> QED
        BY <1>2, <3>1, <3>2, RowNumbers DEF Recent
    <2> QED
      BY <2>1, <2>2
  <1>13. ASSUME NEW k \in Handlers, Refreshing(k)'
         PROVE  Old(k)'
    <2>1. k # h
      BY <1>5, <1>13 DEF Refreshing
    <2>2. PICK r \in Row : /\ req'[k].row = r /\ req[k].row = r
                           /\ \A f \in In(r) : granted'[f] = granted[f]
      BY <1>10, <1>13, <2>1
    <2>3. req'[k] = req[k] /\ Old(k)
      BY <1>10, <1>13, <2>1 DEF AgeInv
    <2>4. \A f \in Held : granted'[f] = granted[f]
      <3>1. CASE row = NoRow
        BY <3>1, HeldIn
      <3>2. CASE row # NoRow
        <4>1. PICK w \in Row : w = row /\ Sound(w)
          BY <1>0, <3>2, Numbers DEF AgeInv
        <4> QED
          BY <1>6, <4>1, HeldIn
      <3> QED
        BY <3>1, <3>2
    <2>5. Held' = Held
      BY <1>2 DEF Held
    <2>6. granted'[r.site] = granted[r.site]
      BY <2>2, RowNumbers
    <2> QED
      BY <1>2, <2>2, <2>3, <2>4, <2>5, <2>6 DEF Old
  <1>14. \A j, k \in Handlers :
           (Refreshing(j) /\ Refreshing(k) => req[j].row.site = req[k].row.site)'
    <2>1. \A k \in Handlers : Refreshing(k)' => req'[k] = req[k] /\ Refreshing(k)
      BY <1>5 DEF Refreshing
    <2> QED
      BY <2>1 DEF AgeInv
  <1> QED
    BY <1>9, <1>11, <1>12, <1>13, <1>14 DEF AgeInv

LEMMA AgeRefreshed ==
  ASSUME AgeInv, TypeInv', NEW h \in Handlers, Refreshed(h)
  PROVE  AgeInv'
  <1>0. TypeInv
    BY DEF AgeInv
  <1>1. PICK rotated \in BOOLEAN : Carry(h, Renewed(req[h].row, rotated))
    BY DEF Refreshed
  <1>2. now' = now /\ row' = row /\ granted' = granted /\ Held' = Held
    BY DEF Refreshed, Held
  <1>3. req[h].pc = "refresh" /\ req[h].op = "access" /\ Refreshing(h)
    BY <1>0 DEF Refreshed, TypeInv, Holding, Refreshing
  <1>4. PICK old \in Row : /\ old = req[h].row /\ Sound(old)
                           /\ old.refresh # NoGrant
    BY <1>0, <1>3, CarriedRow DEF AgeInv, TypeInv, Holding
  <1>5. PICK fresh \in Row : fresh = Renewed(old, rotated)
    BY <1>0, <1>4, RenewedType DEF TypeInv, TypeOK
  <1>6. /\ \A k \in Handlers : k # h => req'[k] = req[k]
        /\ req'[h].row = fresh /\ req'[h].pc = "save"
        /\ req'[h].op = "access" /\ req'[h].late = req[h].late
    BY <1>0, <1>1, <1>3, <1>4, <1>5, Numbers DEF Carry, Request
  <1>7. /\ fresh.site = old.site /\ fresh.until = old.until
        /\ fresh.tokenUntil = now + Life /\ In(fresh) \subseteq In(old)
    BY <1>5 DEF Renewed, In, Row
  <1>8. Sound(fresh)
    BY <1>0, <1>4, <1>7, Numbers, RowNumbers DEF Sound
  <1>9. (row # NoRow => Sound(row))'
    BY <1>2 DEF AgeInv, Sound
  <1>10. \A k \in Handlers : (Storing(k) \/ Refreshing(k) => Sound(req[k].row))'
    BY <1>2, <1>6, <1>8 DEF AgeInv, Sound, Storing, Refreshing
  <1>11. \A k \in Handlers : (Storing(k) => Recent(k))'
    BY <1>2, <1>6 DEF AgeInv, Recent, Storing
  <1>12. \A k \in Handlers : Refreshing(k)' =>
           /\ Refreshing(k) /\ req'[k].row.site = req[k].row.site
           /\ req'[k].late = req[k].late
    BY <1>3, <1>4, <1>6, <1>7 DEF Refreshing
  <1>13. \A k \in Handlers : (Refreshing(k) => Old(k))'
    BY <1>2, <1>12 DEF AgeInv, Old
  <1>14. \A j, k \in Handlers :
           (Refreshing(j) /\ Refreshing(k) => req[j].row.site = req[k].row.site)'
    BY <1>12 DEF AgeInv
  <1> QED
    BY <1>9, <1>10, <1>11, <1>13, <1>14 DEF AgeInv

\* What is stored is the row of the request, with perhaps the refresh token that
\* was there before: one that is no older than the connection being refreshed, if
\* that has one of its own.
LEMMA AgeSave ==
  ASSUME AgeInv, TypeInv', NEW h \in Handlers, Save(h)
  PROVE  AgeInv'
  <1>0. TypeInv
    BY DEF AgeInv
  <1>1. now' = now /\ granted' = granted /\ req[h].pc = "save"
    BY DEF Save
  <1>2. Storing(h) \/ Refreshing(h)
    BY <1>1 DEF Storing, Refreshing
  <1>3. PICK r \in Row : r = req[h].row /\ Sound(r)
    BY <1>0, <1>2, CarriedRow DEF AgeInv
  <1>4. \A k \in Handlers :
          /\ k # h => req'[k] = req[k]
          /\ (Storing(k) \/ Refreshing(k))' => k # h
    BY <1>0, Numbers DEF Save, Goto, Finish, Idle, Storing, Refreshing, Request
  <1>5. /\ row' \in Row /\ row'.site = r.site /\ row'.until = r.until
        /\ row'.auth = r.auth /\ row'.tokenUntil = r.tokenUntil
        /\ Held' = In(row') /\ Held' \subseteq In(r) \cup Held
        /\ Storing(h) /\ r.site \in Offline => Held' = In(r)
    <2>1. row' = IF r.auth = "oauth" /\ r.refresh = NoGrant
                 THEN [r EXCEPT !.refresh = row.refresh] ELSE r
      BY <1>3 DEF Save, Upsert
    <2>2. row.refresh \in Grants \cup {NoGrant}
      BY <1>0, Numbers DEF Row, NoRow
    <2>3. /\ row' \in Row /\ row'.site = r.site /\ row'.until = r.until
          /\ row'.auth = r.auth /\ row'.tokenUntil = r.tokenUntil
          /\ row'.token = r.token /\ row'.refresh \in {r.refresh, row.refresh}
      BY <2>1, <2>2 DEF Row
    <2>4. Held' = In(row')
      BY DEF Held, In
    <2>5. Storing(h) /\ r.site \in Offline => row' = r
      <3>1. Storing(h) => Recent(h)
        BY DEF AgeInv
      <3>2. Storing(h) /\ r.site \in Offline
              => (r.auth = "oauth" => r.refresh = r.site)
        BY <1>3, <3>1 DEF Recent
      <3>3. r.site # NoGrant
        BY GrantAssumption DEF Row
      <3> QED
        BY <2>1, <3>2, <3>3
    <2> QED
      BY <2>3, <2>4, <2>5 DEF Held, In
  <1>6. \A k \in Handlers : Refreshing(k) /\ req[k].row.site \in Offline =>
          \A g \in Held' : granted[req[k].row.site] <= granted[g]
    <2> SUFFICES ASSUME NEW k \in Handlers, Refreshing(k),
                        req[k].row.site \in Offline, NEW g \in Held'
                 PROVE  granted[req[k].row.site] <= granted[g]
      OBVIOUS
    <2>1. Old(k) /\ req[k].row \in Row
      BY <1>0, CarriedRow DEF AgeInv
    <2>2. CASE Refreshing(h)
      <3>1. r.site = req[k].row.site
        BY <1>3, <2>2 DEF AgeInv
      <3> QED
        BY <1>3, <1>5, <2>1, <3>1 DEF Old, Sound
    <2>3. CASE Storing(h)
      <3>1. CASE g \in Held
        BY <2>1, <3>1 DEF Old
      <3>2. CASE g \in In(r)
        <4>1. g = r.site /\ now <= granted[g] + 1 /\ g \in Grants
          BY <1>0, <1>3, <2>3, <3>2, Numbers, RowNumbers DEF AgeInv, Recent
        <4>2. granted[req[k].row.site] + Life <= now
          BY <2>1 DEF Old
        <4> QED
          BY <1>0, <2>1, <4>1, <4>2, Numbers, RowNumbers
      <3> QED
        BY <1>5, <3>1, <3>2
    <2> QED
      BY <1>2, <2>2, <2>3
  <1>7. Sound(row)'
    <2>1. \A g \in Held : granted[g] <= now
      <3>1. CASE row = NoRow
        BY <3>1, HeldIn
      <3>2. CASE row # NoRow
        BY <3>2, HeldIn DEF AgeInv, Sound
      <3> QED
        BY <3>1, <3>2
    <2>2. \A g \in Held' : granted[g] <= now
      BY <1>3, <1>5, <2>1 DEF Sound
    <2>3. r.site \in Offline => \A g \in Held' : granted[r.site] <= granted[g]
      <3>1. CASE Storing(h)
        BY <1>3, <1>5, <3>1 DEF Sound
      <3>2. CASE Refreshing(h)
        BY <1>3, <1>6, <3>2
      <3> QED
        BY <1>2, <3>1, <3>2
    <2> QED
      BY <1>1, <1>3, <1>5, <2>2, <2>3 DEF Sound
  <1>8. \A k \in Handlers : (Storing(k) \/ Refreshing(k) => Sound(req[k].row))'
    BY <1>1, <1>4 DEF AgeInv, Sound, Storing, Refreshing
  <1>9. \A k \in Handlers : (Storing(k) => Recent(k))'
    BY <1>1, <1>4 DEF AgeInv, Recent, Storing
  <1>10. ASSUME NEW k \in Handlers, Refreshing(k)'
         PROVE  Old(k)'
    <2>1. req'[k] = req[k] /\ Refreshing(k) /\ Old(k)
      BY <1>4, <1>10 DEF AgeInv, Refreshing
    <2>2. CASE Refreshing(h)
      <3>1. row'.site = req[k].row.site
        BY <1>3, <1>5, <2>1, <2>2 DEF AgeInv
      <3> QED
        BY <1>1, <1>6, <2>1, <3>1 DEF Old
    <2>3. CASE Storing(h)
      <3>1. r.auth = "oauth" => now + 1 < r.tokenUntil
        BY <1>0, <1>3, <2>3, Numbers, RowNumbers DEF AgeInv, Recent, Sound
      <3>2. \/ row'.auth # "oauth"
            \/ now + (IF req[k].late THEN 0 ELSE 1) < row'.tokenUntil
        BY <1>0, <1>5, <3>1, Numbers, RowNumbers
      <3> QED
        BY <1>1, <1>6, <2>1, <3>2 DEF Old
    <2> QED
      BY <1>2, <2>2, <2>3
  <1>11. \A j, k \in Handlers :
           (Refreshing(j) /\ Refreshing(k) => req[j].row.site = req[k].row.site)'
    <2>1. \A k \in Handlers : Refreshing(k)' => req'[k] = req[k] /\ Refreshing(k)
      BY <1>4 DEF Refreshing
    <2> QED
      BY <2>1 DEF AgeInv
  <1> QED
    BY <1>7, <1>8, <1>9, <1>10, <1>11 DEF AgeInv

LEMMA AgeTick ==
  ASSUME AgeInv, TypeInv', Tick
  PROVE  AgeInv'
  <1>0. TypeInv
    BY DEF AgeInv
  <1>1. now' = now + 1 /\ granted' = granted /\ row' = row /\ Held' = Held
    BY DEF Tick, Held
  <1>2. \A k \in Handlers :
          /\ req'[k].op = req[k].op /\ req'[k].pc = req[k].pc
          /\ req'[k].row = req[k].row
          /\ req'[k].late = (req[k] # Idle) /\ ~req[k].late
          /\ Storing(k)' = Storing(k) /\ Refreshing(k)' = Refreshing(k)
          /\ Storing(k) \/ Refreshing(k) => req[k] # Idle
    BY <1>0, Numbers DEF Tick, Request, Storing, Refreshing, Idle
  <1>3. ASSUME NEW r \in Row, Sound(r)
        PROVE  Sound(r)'
    BY <1>0, <1>1, <1>3, Numbers, RowNumbers DEF Sound
  <1>4. (row # NoRow => Sound(row))'
    <2>1. \A r \in Row : row = r /\ Sound(r) => Sound(r)'
      BY <1>3
    <2> QED
      BY <1>0, <1>1, <2>1, Numbers DEF AgeInv, Sound
  <1>5. ASSUME NEW k \in Handlers, (Storing(k) \/ Refreshing(k))'
        PROVE  Sound(req[k].row)'
    <2>1. PICK r \in Row : r = req[k].row /\ Sound(r)
      BY <1>0, <1>2, <1>5, CarriedRow DEF AgeInv
    <2>2. Sound(r)' /\ req'[k].row = r
      BY <1>2, <1>3, <2>1
    <2> QED
      BY <2>2 DEF Sound
  <1>6. ASSUME NEW k \in Handlers, Storing(k)'
        PROVE  Recent(k)'
    <2>1. Recent(k) /\ req[k].row \in Row /\ ~req[k].late /\ req'[k].late
      BY <1>0, <1>2, <1>6, CarriedRow DEF AgeInv
    <2> QED
      BY <1>0, <1>1, <1>2, <2>1, Numbers, RowNumbers DEF Recent
  <1>7. ASSUME NEW k \in Handlers, Refreshing(k)'
        PROVE  Old(k)'
    <2>1. Old(k) /\ req[k].row \in Row /\ ~req[k].late /\ req'[k].late
      BY <1>0, <1>2, <1>7, CarriedRow DEF AgeInv
    <2>2. row.auth = "oauth" => row \in Row
      BY <1>0, Numbers DEF NoRow
    <2> QED
      BY <1>0, <1>1, <1>2, <2>1, <2>2, Numbers, RowNumbers DEF Old
  <1>8. \A j, k \in Handlers :
          (Refreshing(j) /\ Refreshing(k) => req[j].row.site = req[k].row.site)'
    BY <1>2 DEF AgeInv
  <1> QED
    BY <1>4, <1>5, <1>6, <1>7, <1>8 DEF AgeInv

LEMMA AgeNext ==
  ASSUME AgeInv, Next
  PROVE  AgeInv'
  <1>1. TypeInv /\ TypeInv'
    BY NextType DEF AgeInv
  <1>2. req \in [Handlers -> Request]
    BY <1>1, Numbers
  <1>3. ASSUME NEW h \in Handlers,
               StartConnect(h) \/ StartCallback(h) \/ Forget(h) \/ Use(h)
               \/ Abort(h)
        PROVE  AgeInv'
    <2>1. now' = now /\ granted' = granted /\ row' = row
      BY <1>3 DEF StartConnect, StartCallback, Forget, Use, Abort
    <2>2. \A k \in Handlers : k # h => req'[k] = req[k]
      BY <1>2, <1>3 DEF StartConnect, StartCallback, Forget, Use, Abort, Serve,
                        Goto, Finish
    <2>3. req'[h].pc \in {"idle", "verify", "forget", "exchange"}
      <3>1. CASE Finish(h)
        BY <1>2, <3>1 DEF Finish, Idle
      <3>2. CASE Goto(h, "exchange")
        BY <1>2, <3>2 DEF Goto, Request
      <3>3. CASE StartConnect(h) \/ StartCallback(h)
        BY <1>2, <3>3 DEF StartConnect, StartCallback, Serve, Idle
      <3> QED
        BY <1>3, <3>1, <3>2, <3>3 DEF Forget, Use, Abort
    <2>4. ~(Storing(h) \/ Refreshing(h))'
      BY <2>3 DEF Storing, Refreshing
    <2> QED
      BY <1>1, <2>1, <2>2, <2>4, AgeKeep
  <1>4. ASSUME NEW h \in Handlers, StartAccess(h)
        PROVE  AgeInv'
    <2>1. CASE Refreshing(h)'
      BY <1>1, <1>4, <2>1, AgeStart
    <2>2. CASE ~Refreshing(h)'
      <3>1. now' = now /\ granted' = granted /\ row' = row
        BY <1>4 DEF StartAccess
      <3>2. /\ \A k \in Handlers : k # h => req'[k] = req[k]
            /\ req'[h].op = "access"
        BY <1>2, <1>4 DEF StartAccess, Access, Serve, Idle
      <3>3. ~(Storing(h) \/ Refreshing(h))'
        BY <2>2, <3>2 DEF Storing
      <3> QED
        BY <1>1, <3>1, <3>2, <3>3, AgeKeep
    <2> QED
      BY <2>1, <2>2
  <1>5. ASSUME NEW h \in Handlers, Verified(h) \/ Exchanged(h)
        PROVE  AgeInv'
    <2>1. req[h].op # "access"
      BY <1>1, <1>5 DEF Verified, Exchanged, TypeInv, Holding
    <2> QED
      BY <1>1, <1>5, <2>1, AgeHandOver DEF Verified, Exchanged
  <1>6. ASSUME NEW s \in States, JiraAuthorizeURL(s)
        PROVE  AgeInv'
    BY <1>1, <1>6, AgeKeep DEF JiraAuthorizeURL
  <1>7. CASE DisconnectSource \/ Purge
    BY <1>1, <1>7, AgeKeep DEF DisconnectSource, Purge
  <1> QED
    BY <1>1, <1>3, <1>4, <1>5, <1>6, <1>7, AgeRefreshed, AgeSave, AgeTick
    DEF Next, Start, Step

LEMMA AgeInvInductive == Spec => []AgeInv
  <1>1. Init => AgeInv
    BY InitType DEF Init, AgeInv, Storing, Refreshing, Idle
  <1>2. AgeInv /\ [Next]_vars => AgeInv'
    <2> SUFFICES ASSUME AgeInv, UNCHANGED vars
                 PROVE  AgeInv'
      BY AgeNext
    <2>1. TypeInv'
      BY DEF AgeInv, TypeInv, TypeOK, Holding, vars
    <2> QED
      BY <2>1, AgeKeep DEF vars
  <1> QED
    BY <1>1, <1>2, PTL DEF Spec

\* The room's row never keeps anything of a grant past CredentialTTL after its
\* handing over, whatever connections and refreshes overtake each other, but for a
\* refresh token inherited by an exchange that brought none: of a grant that did,
\* nothing older shares the row (saveJiraOAuth, SaveSourceConnection).
THEOREM RetentionHolds == Spec => []RetentionKept
  <1>1. AgeInv => RetentionKept
    <2> SUFFICES ASSUME AgeInv, NEW g \in Held, ~Inherited(g)
                 PROVE  row.until <= granted[g] + TTL
      BY DEF RetentionKept
    <2>1. TypeInv /\ row # NoRow
      BY HeldIn DEF AgeInv
    <2>2. row \in Row /\ Sound(row) /\ Held = In(row)
      BY <2>1, Numbers, HeldIn DEF AgeInv
    <2>3. granted[row.site] <= granted[g]
      BY <2>1, <2>2, Numbers, RowNumbers DEF Inherited, Sound
    <2> QED
      BY <2>1, <2>2, <2>3, Numbers, RowNumbers DEF Sound
  <1> QED
    BY <1>1, AgeInvInductive, PTL
=============================================================================

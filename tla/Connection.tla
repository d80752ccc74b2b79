----------------------------- MODULE Connection -----------------------------
(***************************************************************************)
(* The tracker connection of one room: the row of source_connections, the  *)
(* pending authorizations of the OAuth flow, and the requests that store,  *)
(* use, refresh and forget credentials.                                    *)
(*                                                                         *)
(* A grant is one handing over of credentials, by a token the tracker has  *)
(* verified or by an OAuth exchange; what is stored of it is told apart    *)
(* only by the grant it comes from.  Requests take less than a unit of     *)
(* time: the router gives them 30 seconds, each call to a tracker 20.      *)
(***************************************************************************)
EXTENDS Naturals

CONSTANTS
  Grants,     \* handings over that can ever happen
  Offline,    \* those of them whose exchange brings a refresh token as well
  States,     \* values of the OAuth state parameter (never reused)
  Handlers,   \* goroutines serving requests at the same time
  NoGrant,    \* no token; no row
  TTL,        \* CredentialTTL, 24 hours
  Life,       \* how long an OAuth access token is fresh
  StateLife,  \* how long an authorization may take, 10 minutes
  Horizon,    \* the clock stops here (bounds an instance)
  Unissued, Gone  \* a state before, and after, it has a row in oauth_states

Times == 0 .. Horizon
Never == Horizon + 1

\* Times and deadlines.
Moments == 0 .. Horizon + TTL + Life + StateLife

ASSUME TimeAssumption == /\ TTL \in Nat /\ Life \in Nat /\ StateLife \in Nat
                         /\ Horizon \in Nat
\* An access token is good for an hour: longer than two requests take.
ASSUME LifeAssumption == Life > 2
ASSUME GrantAssumption == NoGrant \notin Grants
ASSUME OfflineAssumption == Offline \subseteq Grants
ASSUME StateAssumption == Unissued # Gone /\ {Unissued, Gone} \cap Nat = {}

VARIABLES
  now,        \* the clock
  row,        \* the room's row in source_connections, or NoRow
  granted,    \* when each grant was handed over, or Never
  expires,    \* oauth_states: when each state expires, or Unissued, or Gone
  req         \* the requests in flight

vars == <<now, row, granted, expires, req>>

-----------------------------------------------------------------------------
\* site is the grant that named the site and fixed the deadline (until); token
\* and refresh are the grants the two tokens belong to.
NoRow ==
  [auth |-> "none", site |-> NoGrant, token |-> NoGrant, refresh |-> NoGrant,
   tokenUntil |-> 0, until |-> 0]

Row ==
  [auth : {"token", "oauth"}, site : Grants, token : Grants,
   refresh : Grants \cup {NoGrant}, tokenUntil : Moments, until : Moments]

\* TokenStale
Stale(r) == r.auth = "oauth" /\ r.tokenUntil <= now

\* A request: the connection it has read or is going to store, the state it was
\* called with and when that expires, and whether the clock has moved since it
\* started.
Idle == [op |-> "none", pc |-> "idle", row |-> NoRow, state |-> Gone,
         expires |-> 0, late |-> FALSE]

PCs == {"idle", "verify", "save", "refresh", "use", "forget",
        "exchange"}

Request ==
  [op : {"none", "connect", "access", "callback"}, pc : PCs,
   row : Row \cup {NoRow}, state : States \cup {Gone}, expires : Moments,
   late : BOOLEAN]

Serve(h, r) == req[h] = Idle /\ req' = [req EXCEPT ![h] = r]
Goto(h, pc) == req' = [req EXCEPT ![h].pc = pc]
Finish(h)   == req' = [req EXCEPT ![h] = Idle]

\* The request goes on to store r.
Carry(h, r) == req' = [req EXCEPT ![h].pc = "save", ![h].row = r]

Init ==
  /\ now = 0
  /\ row = NoRow
  /\ granted = [g \in Grants |-> Never]
  /\ expires = [s \in States |-> Unissued]
  /\ req = [h \in Handlers |-> Idle]

-----------------------------------------------------------------------------
\* Faulty variant of Upsert: keeps the refresh token whatever is stored.
UpsertKeep(r) ==
  row' = IF r.refresh = NoGrant THEN [r EXCEPT !.refresh = row.refresh] ELSE r

\* SaveSourceConnection: the upsert that all three flows end in.  A personal
\* access token has no refresh token; an OAuth write that brings none keeps the
\* one in the row, whatever row that is by now.
Upsert(r) ==
  row' = IF r.auth = "oauth" /\ r.refresh = NoGrant
         THEN [r EXCEPT !.refresh = row.refresh]
         ELSE r

\* The end of a request that stores a connection.
Save(h) ==
  /\ req[h].pc = "save"
  /\ Upsert(req[h].row)
  /\ IF req[h].op = "access" THEN Goto(h, "use") ELSE Finish(h)
  /\ UNCHANGED <<now, granted, expires>>

-----------------------------------------------------------------------------
\* ConnectSource: the tracker verifies the token, then it is stored.

StartConnect(h) ==
  /\ Serve(h, [Idle EXCEPT !.op = "connect", !.pc = "verify"])
  /\ UNCHANGED <<now, row, granted, expires>>

\* The row of a grant handed over now: the code looks at the clock when the
\* tracker has answered.  Exchange takes an answer without a refresh token.
GrantRow(auth, g) ==
  [auth |-> auth, site |-> g, token |-> g,
   refresh |-> IF auth = "oauth" /\ g \in Offline THEN g ELSE NoGrant,
   tokenUntil |-> now + IF auth = "oauth" THEN Life ELSE TTL,
   until |-> now + TTL]

HandOver(h, auth) ==
  /\ \E g \in Grants :
       /\ granted[g] = Never
       /\ granted' = [granted EXCEPT ![g] = now]
       /\ Carry(h, GrantRow(auth, g))
  /\ UNCHANGED <<now, row, expires>>

Verified(h) == req[h].pc = "verify" /\ HandOver(h, "token")

-----------------------------------------------------------------------------
\* JiraAuthorizeURL and JiraCompleteAuth.

Pending(s) == expires[s] \notin {Unissued, Gone}

\* SaveOAuthState: expired states are pruned, the new one is inserted.
JiraAuthorizeURL(s) ==
  /\ expires[s] = Unissued
  /\ expires' = [p \in States |->
                   IF p = s THEN now + StateLife
                   ELSE IF Pending(p) /\ expires[p] < now THEN Gone
                   ELSE expires[p]]
  /\ UNCHANGED <<now, row, granted, req>>

\* JiraCompleteAuth starts with ConsumeOAuthState: SELECT and DELETE in a
\* transaction.  With SQLite the transaction has the only connection to the
\* database and nothing comes in between; with Postgres, at its default
\* isolation, another request may, and a DELETE that finds the row gone is no
\* error.
StartCallback(h) ==
  /\ \E s \in States :
       /\ Pending(s)
       /\ Serve(h, [Idle EXCEPT !.op = "callback", !.pc = "forget",
                                !.state = s, !.expires = expires[s]])
  /\ UNCHANGED <<now, row, granted, expires>>

\* A state that has expired is deleted like any other, and refused.
Forget(h) ==
  /\ req[h].pc = "forget"
  /\ expires' = [expires EXCEPT ![req[h].state] = Gone]
  /\ IF now <= req[h].expires THEN Goto(h, "exchange") ELSE Finish(h)
  /\ UNCHANGED <<now, row, granted>>

\* Exchange and AccessibleResources.
Exchanged(h) == req[h].pc = "exchange" /\ HandOver(h, "oauth")

-----------------------------------------------------------------------------
\* sourceAccess, by a request that browses, imports or sends an estimate.

\* RawSourceConnection: a row past its deadline is as good as none.
Readable == row # NoRow /\ now < row.until

\* Credentials that are fresh are used as they are; stale ones are refreshed
\* first, and a row without a refresh token cannot be.
Access(h) ==
  \/ /\ ~Stale(row)
     /\ Serve(h, [Idle EXCEPT !.op = "access", !.pc = "use", !.row = row])
  \/ /\ Stale(row) /\ row.refresh # NoGrant
     /\ Serve(h, [Idle EXCEPT !.op = "access", !.pc = "refresh", !.row = row])

\* Faulty variant of StartAccess: relies on the purge.
StartAccessLate(h) == row # NoRow /\ Access(h)
                      /\ UNCHANGED <<now, row, granted, expires>>

StartAccess(h) == Readable /\ Access(h)
                  /\ UNCHANGED <<now, row, granted, expires>>

\* What is stored after a refresh: the row that was read, with a new access
\* token and perhaps a new refresh token.
Renewed(r, rotated) ==
  [r EXCEPT !.token = r.refresh,
            !.refresh = IF rotated THEN r.refresh ELSE NoGrant,
            !.tokenUntil = now + Life]

\* Faulty variant of Refreshed: counts the retention from the refresh.
RefreshedAnew(h) ==
  /\ req[h].pc = "refresh"
  /\ \E rotated \in BOOLEAN :
       Carry(h, [Renewed(req[h].row, rotated) EXCEPT !.until = now + TTL])
  /\ UNCHANGED <<now, row, granted, expires>>

\* The tracker answers with fresh tokens.
Refreshed(h) ==
  /\ req[h].pc = "refresh"
  /\ \E rotated \in BOOLEAN : Carry(h, Renewed(req[h].row, rotated))
  /\ UNCHANGED <<now, row, granted, expires>>

\* The tracker is called with the credentials in hand.
Use(h) == /\ req[h].pc = "use"
          /\ Finish(h)
          /\ UNCHANGED <<now, row, granted, expires>>

-----------------------------------------------------------------------------
\* Forgetting credentials, and what happens without any request.

DisconnectSource ==
  /\ row' = NoRow
  /\ UNCHANGED <<now, granted, expires, req>>

\* Faulty variant of Purge: looks for personal access tokens only.
PurgeTokens ==
  /\ row.auth = "token" /\ row.until <= now
  /\ row' = NoRow
  /\ UNCHANGED <<now, granted, expires, req>>

\* PurgeExpiredCredentials, from the job that runs every 15 minutes.
Purge ==
  /\ row # NoRow /\ row.until <= now
  /\ row' = NoRow
  /\ UNCHANGED <<now, granted, expires, req>>

\* A request stops: the tracker refuses, the caller hangs up, the server goes
\* down.
Abort(h) ==
  /\ req[h] # Idle
  /\ Finish(h)
  /\ UNCHANGED <<now, row, granted, expires>>

\* A unit of time passes.  A request that has seen one pass is over by the next.
Tick ==
  /\ now < Horizon
  /\ \A h \in Handlers : ~req[h].late
  /\ now' = now + 1
  /\ req' = [h \in Handlers |-> [req[h] EXCEPT !.late = req[h] # Idle]]
  /\ UNCHANGED <<row, granted, expires>>

-----------------------------------------------------------------------------
Start(h) == StartConnect(h) \/ StartCallback(h) \/ StartAccess(h)

Step(h) ==
  \/ Save(h) \/ Verified(h) \/ Forget(h) \/ Exchanged(h)
  \/ Refreshed(h) \/ Use(h)

Next ==
  \/ \E h \in Handlers : Start(h) \/ Step(h) \/ Abort(h)
  \/ \E s \in States : JiraAuthorizeURL(s)
  \/ DisconnectSource
  \/ Purge
  \/ Tick

Spec == Init /\ [][Next]_vars

\* Requests go on or are stopped, the purge keeps running, and time passes.
FairSpec ==
  /\ Spec
  /\ \A h \in Handlers : WF_vars(Step(h) \/ Abort(h))
  /\ WF_vars(Purge)
  /\ WF_vars(Tick)

-----------------------------------------------------------------------------
\* Properties.

\* Every row and every request holds what its columns or variables can hold; a
\* personal access token replaces whatever was stored before, refresh token
\* included.
TypeOK ==
  /\ now \in Times
  /\ row \in Row \cup {NoRow}
  /\ row.auth = "token" => row.refresh = NoGrant /\ row.token = row.site
  /\ granted \in [Grants -> Times \cup {Never}]
  /\ expires \in [States -> Moments \cup {Unissued, Gone}]
  /\ req \in [Handlers -> Request]

\* The grants something of which is stored.
Held == {row.site, row.token, row.refresh} \ {NoGrant}

\* The upsert keeps the row's refresh token when the new connection brings none:
\* so g's may be in the row of a later grant.
Inherited(g) == g # row.site /\ row.site \notin Offline

\* What the row keeps of a grant, it keeps for no longer than CredentialTTL from
\* the handing over, however often its tokens are refreshed and whichever writes
\* of connections and refreshes overtake each other (saveJiraOAuth,
\* SaveSourceConnection): except a refresh token that an exchange without one of
\* its own has inherited.
RetentionKept ==
  \A g \in Held : row.until <= granted[g] + TTL \/ Inherited(g)

\* A request never goes to the tracker with what has expired, whether a purge has
\* run or not: credentials past their deadline, or an authorization that has
\* taken too long.  Either may only expire while the request is under way.
UsedInTime ==
  \A h \in Handlers :
    /\ req[h].pc = "use" =>
         now < req[h].row.until \/ (req[h].late /\ now = req[h].row.until)
    /\ req[h].pc = "exchange" =>
         now <= req[h].expires \/ (req[h].late /\ now = req[h].expires + 1)

\* Credentials past their deadline are always deleted again, also when a late
\* refresh stores them once more after the purge; an inherited refresh token goes
\* with the connection that has inherited it.
PastDeadlineForgotten ==
  []<>(\A g \in Held : now < granted[g] + TTL \/ Inherited(g))

\* A refresh that is stored renews the connection it was read from, and brings
\* back none that the host has disconnected or replaced: DisconnectSource says
\* that it forgets a room's credentials immediately.
RefreshKeepsConnection ==
  [][\A h \in Handlers :
       Save(h) /\ req[h].op = "access" => row.site = req[h].row.site]_vars

=============================================================================

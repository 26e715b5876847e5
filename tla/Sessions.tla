------------------------------ MODULE Sessions ------------------------------
(***************************************************************************)
(* Logins, refreshes and logouts of the agent's API (api/server.ts) over   *)
(* the refresh tokens in Redis (api/auth/store.ts), and the check every    *)
(* other route begins with (api/auth/middleware.ts, local mode).           *)
(*                                                                         *)
(* Every call to Redis, to the user table or to the entitlement provider   *)
(* is a step; requests interleave between them and any of them may fail.   *)
(* A token is random, so a fresh one is one that was never made; access    *)
(* tokens verify by signature alone and stand for their user.              *)
(***************************************************************************)
EXTENDS Integers, FiniteSets

CONSTANTS None, Users, Requests, Tokens     \* Tokens bounds the refresh tokens made

ASSUME SessionsAssumption == None \notin Users \cup Tokens

VARIABLES owner,            \* qms:refresh-tokens: the user of each token, or None
          owned,            \* qms:user-tokens: the set of each user
          timed,            \* the tokens the expiry of that set was set for
          active, permitted,  \* the user table; the entitlement service
          pc, req,          \* each request: where it is, what it asks and holds
          made,             \* tokens made so far
          handed, over,     \* history: tokens answered to a client; tokens a client gave up
          crossed, allowed  \* history: users whose requests overlapped, or whose set ran out
                            \* under one; what was true at some moment since a request began

stores == <<owner, owned, timed, active, permitted>>
vars == <<stores, pc, req, made, handed, over, crossed, allowed>>

Idle == [kind |-> "none", user |-> None, token |-> None, read |-> {}, refuse |-> FALSE]

Init ==
    /\ owner = [t \in Tokens |-> None]
    /\ owned = [u \in Users |-> {}] /\ timed = [u \in Users |-> {}]
    /\ active = [u \in Users |-> TRUE] /\ permitted = [u \in Users |-> TRUE]
    /\ pc = [r \in Requests |-> "idle"] /\ req = [r \in Requests |-> Idle]
    /\ made = {} /\ handed = {} /\ over = {} /\ crossed = {}
    /\ allowed = [r \in Requests |-> {}]

-----------------------------------------------------------------------------
True(u) == (IF active[u] THEN {"active"} ELSE {}) \cup (IF permitted[u] THEN {"permitted"} ELSE {})

InFlight(u) == \E r \in Requests : req[r].user = u /\ req[r].kind # "serve"

Begin(r, at, asked) ==
    /\ pc[r] = "idle"
    /\ pc' = [pc EXCEPT ![r] = at]
    /\ req' = [req EXCEPT ![r] = asked]
    /\ allowed' = [allowed EXCEPT ![r] = True(asked.user)]
    /\ crossed' = IF asked.kind # "serve" /\ InFlight(asked.user) THEN crossed \cup {asked.user} ELSE crossed
    /\ UNCHANGED <<stores, made, handed, over>>

GoOn(r, at) == /\ pc' = [pc EXCEPT ![r] = at]
               /\ UNCHANGED <<handed, over, crossed, allowed>>
Ends(r) == /\ pc' = [pc EXCEPT ![r] = "idle"] /\ req' = [req EXCEPT ![r] = Idle]
           /\ allowed' = [allowed EXCEPT ![r] = {}] /\ UNCHANGED crossed
Refused(r) == Ends(r) /\ UNCHANGED <<stores, made, handed, over>>

(* Any call may reject: next(err), and what was done stays done.           *)
Fail(r) == pc[r] # "idle" /\ Refused(r)

(* POST /auth/login, the password verified.                                *)
Login(r, u) ==
    /\ active[u]
    /\ Begin(r, "list", [Idle EXCEPT !.kind = "login", !.user = u])

(* POST /auth/refresh, with a token its client was given.                  *)
Refresh(r, t) ==
    /\ t \in handed /\ owner[t] # None
    /\ Begin(r, "load", [Idle EXCEPT !.kind = "refresh", !.user = owner[t], !.token = t])
Load(r) ==
    /\ pc[r] = "load"
    /\ req' = [req EXCEPT ![r].refuse = ~active[req[r].user]]
    /\ GoOn(r, "find") /\ UNCHANGED <<stores, made>>

(* requireAuth: the row, then the entitlement, of the token's user.        *)
Authenticate(r, kind, u) ==
    /\ kind \in {"logout", "serve"}
    /\ Begin(r, "row", [Idle EXCEPT !.kind = kind, !.user = u])
ReadRow(r) ==
    /\ pc[r] = "row"
    /\ \/ ~active[req[r].user] /\ Refused(r)
       \/ active[req[r].user] /\ GoOn(r, "resolve") /\ UNCHANGED <<stores, req, made>>
(* An unreachable provider denies.                                         *)
AnswerOrLast(u) == permitted[u] \/ active[u]     \* mutant: a failed resolve is let through
Answer(u) == permitted[u]
Resolve(r) ==
    /\ pc[r] = "resolve" /\ Answer(req[r].user)
    /\ GoOn(r, IF req[r].kind = "logout" THEN "list" ELSE "serve")
    /\ UNCHANGED <<stores, req, made>>
Serve(r) == pc[r] = "serve" /\ Refused(r)     \* it changes nothing of this module

-----------------------------------------------------------------------------
(* revokeAllUserTokens.                                                    *)
List(r) ==
    /\ pc[r] = "list"
    /\ req' = [req EXCEPT ![r].read = owned[req[r].user]]
    /\ GoOn(r, IF owned[req[r].user] = {} THEN "unset" ELSE "delete")
    /\ UNCHANGED <<stores, made>>
DeleteKeys(r) ==
    /\ pc[r] = "delete"
    /\ owner' = [t \in Tokens |-> IF t \in req[r].read THEN None ELSE owner[t]]
    /\ GoOn(r, "unset")
    /\ UNCHANGED <<owned, timed, active, permitted, req, made>>
Unset(r) ==
    /\ pc[r] = "unset"
    /\ owned' = [owned EXCEPT ![req[r].user] = {}] /\ timed' = [timed EXCEPT ![req[r].user] = {}]
    /\ GoOn(r, IF req[r].kind = "login" THEN "set" ELSE "answer")
    /\ UNCHANGED <<owner, active, permitted, req, made>>

(* revokeRefreshToken; a token that is gone has no user to remove it from. *)
Then(r) == IF req[r].refuse THEN "refuse" ELSE "set"
Find(r) ==
    /\ pc[r] = "find"
    /\ GoOn(r, IF owner[req[r].token] = None THEN Then(r) ELSE "drop")
    /\ UNCHANGED <<stores, req, made>>
DropLater(r) == owner     \* mutant: the used token is kept
Drop(r) == [owner EXCEPT ![req[r].token] = None]
DropKey(r) ==
    /\ pc[r] = "drop"
    /\ owner' = Drop(r)
    /\ GoOn(r, "remove")
    /\ UNCHANGED <<owned, timed, active, permitted, req, made>>
Remove(r) ==
    /\ pc[r] = "remove"
    /\ owned' = [owned EXCEPT ![req[r].user] = @ \ {req[r].token}]
    /\ timed' = [timed EXCEPT ![req[r].user] = IF owned'[req[r].user] = {} THEN {} ELSE @]
    /\ GoOn(r, Then(r))
    /\ UNCHANGED <<owner, active, permitted, req, made>>
Refuse(r) == pc[r] = "refuse" /\ Refused(r)

(* storeRefreshToken, and updateLastLogin after a login.                   *)
SetKey(r) == \E t \in Tokens \ made :
    /\ pc[r] = "set"
    /\ owner' = [owner EXCEPT ![t] = req[r].user]
    /\ made' = made \cup {t} /\ req' = [req EXCEPT ![r].read = {t}]
    /\ GoOn(r, "add")
    /\ UNCHANGED <<owned, timed, active, permitted>>
AddForgotten(r) == owned[req[r].user]     \* mutant: SADD left out
Add(r) == owned[req[r].user] \cup req[r].read
AddToSet(r) ==
    /\ pc[r] = "add"
    /\ owned' = [owned EXCEPT ![req[r].user] = Add(r)]
    /\ GoOn(r, "expire")
    /\ UNCHANGED <<owner, timed, active, permitted, req, made>>
Time(r) ==
    /\ pc[r] = "expire"
    /\ timed' = [timed EXCEPT ![req[r].user] = owned[req[r].user]]
    /\ GoOn(r, "answer")
    /\ UNCHANGED <<owner, owned, active, permitted, req, made>>

(* The client gets its tokens, or knows that the old ones are gone.        *)
Respond(r) ==
    /\ pc[r] = "answer"
    /\ handed' = IF req[r].kind = "logout" THEN handed ELSE handed \cup req[r].read
    /\ over' = over \cup (CASE req[r].kind = "refresh" -> {req[r].token}
                            [] req[r].kind = "logout" -> req[r].read
                            [] OTHER -> {})
    /\ Ends(r) /\ UNCHANGED <<stores, made>>

-----------------------------------------------------------------------------
(* A key's time runs out, and a set's: not before that of the tokens its   *)
(* expiry was set for.                                                     *)
Expire(t) ==
    /\ owner[t] # None
    /\ owner' = [owner EXCEPT ![t] = None]
    /\ UNCHANGED <<owned, timed, active, permitted, pc, req, made, handed, over, crossed, allowed>>
ExpireSet(u) ==
    /\ timed[u] # {} /\ \A t \in timed[u] : owner[t] = None
    /\ owned' = [owned EXCEPT ![u] = {}] /\ timed' = [timed EXCEPT ![u] = {}]
    /\ crossed' = IF InFlight(u) THEN crossed \cup {u} ELSE crossed
    /\ UNCHANGED <<owner, active, permitted, pc, req, made, handed, over, allowed>>

(* An administrator.                                                       *)
Administer(u) ==
    /\ \/ \E b \in BOOLEAN : active' = [active EXCEPT ![u] = b] /\ UNCHANGED permitted
       \/ \E b \in BOOLEAN : permitted' = [permitted EXCEPT ![u] = b] /\ UNCHANGED active
    /\ allowed' = [r \in Requests |->
          IF req[r].user # u THEN allowed[r]
          ELSE allowed[r] \cup (IF active'[u] THEN {"active"} ELSE {})
                          \cup (IF permitted'[u] THEN {"permitted"} ELSE {})]
    /\ UNCHANGED <<owner, owned, timed, pc, req, made, handed, over, crossed>>

Revoke(r) == List(r) \/ DeleteKeys(r) \/ Unset(r) \/ Find(r) \/ DropKey(r) \/ Remove(r)
Store(r) == SetKey(r) \/ AddToSet(r) \/ Time(r)
Handle(r) ==
    \/ \E u \in Users : Login(r, u) \/ \E kind \in {"logout", "serve"} : Authenticate(r, kind, u)
    \/ \E t \in Tokens : Refresh(r, t)
    \/ Load(r) \/ ReadRow(r) \/ Resolve(r) \/ Serve(r) \/ Refuse(r) \/ Respond(r) \/ Fail(r)
Next ==
    \/ \E r \in Requests : Handle(r) \/ Revoke(r) \/ Store(r)
    \/ \E t \in Tokens : Expire(t)
    \/ \E u \in Users : ExpireSet(u) \/ Administer(u)

Spec == Init /\ [][Next]_vars

-----------------------------------------------------------------------------
(* server.ts: "Single-session-per-user".  Unless two requests of a user    *)
(* overlapped, or its set ran out under one, at most one of the tokens its clients were given is alive,  *)
(* the user's set names it, and a logout leaves none: whatever fails       *)
(* between the calls, whatever expires first.                              *)
Alive(u) == {t \in handed : owner[t] = u}
OneSession == \A u \in Users \ crossed :
    /\ Cardinality(Alive(u)) <= 1 /\ Alive(u) \subseteq owned[u]
    /\ \A r \in Requests :
          pc[r] = "answer" /\ req[r].kind = "logout" /\ req[r].user = u => Alive(u) = {}

(* store.ts, middleware.ts: a token that was rotated, or logged out, never *)
(* comes back, and nobody is served who was not, at some moment since the  *)
(* request began, an active user, and at some moment permitted.            *)
SpentStaysSpent == \A t \in over : owner[t] = None
ServedIsAllowed == \A r \in Requests : pc[r] = "serve" => allowed[r] = {"active", "permitted"}
RevocationHolds == SpentStaysSpent /\ ServedIsAllowed
=============================================================================

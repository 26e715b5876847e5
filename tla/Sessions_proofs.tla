--------------------------- MODULE Sessions_proofs ---------------------------
(***************************************************************************)
(* For any number of users, requests and tokens: a spent token never comes *)
(* back, and nobody is served who was not allowed while the request was    *)
(* under way (RevocationHolds); and a user whose requests did not overlap  *)
(* has one session (OneSession).                                           *)
(***************************************************************************)
EXTENDS Sessions, FiniteSetTheorems, TLAPS

Phases == {"idle", "load", "row", "resolve", "serve", "list", "delete", "unset", "find",
           "drop", "remove", "refuse", "set", "add", "expire", "answer"}
Asked == [kind : {"none", "login", "refresh", "logout", "serve"}, user : Users \cup {None},
          token : Tokens \cup {None}, read : SUBSET Tokens, refuse : BOOLEAN]

TypeOK ==
    /\ owner \in [Tokens -> Users \cup {None}]
    /\ owned \in [Users -> SUBSET Tokens] /\ timed \in [Users -> SUBSET Tokens]
    /\ active \in [Users -> BOOLEAN] /\ permitted \in [Users -> BOOLEAN]
    /\ pc \in [Requests -> Phases] /\ req \in [Requests -> Asked]
    /\ made \subseteq Tokens /\ handed \subseteq Tokens /\ over \subseteq Tokens
    /\ crossed \subseteq Users
    /\ allowed \in [Requests -> SUBSET {"active", "permitted"}]

(* Where a request of each kind may be, and whose it is.                   *)
WayOK(r) ==
    /\ req[r].kind = "none" <=> req[r].user = None
    /\ req[r].kind = "none" => pc[r] = "idle"
    /\ req[r].kind = "login" =>
         pc[r] \in {"list", "delete", "unset", "set", "add", "expire", "answer"}
    /\ req[r].kind = "refresh" =>
         /\ req[r].token \in Tokens
         /\ pc[r] \in {"load", "find", "drop", "remove", "refuse", "set", "add", "expire", "answer"}
    /\ req[r].kind = "logout" => pc[r] \in {"row", "resolve", "list", "delete", "unset", "answer"}
    /\ req[r].kind = "serve" => pc[r] \in {"row", "resolve", "serve"}
Ways == \A r \in Requests : WayOK(r)

Shape == TypeOK /\ Ways

(* What was ever stored, handed out, read or given up was made.            *)
MadeOnce ==
    /\ \A t \in Tokens : owner[t] # None => t \in made
    /\ \A u \in Users : owned[u] \subseteq made
    /\ handed \subseteq made /\ over \subseteq made
    /\ \A r \in Requests :
         /\ req[r].read \subseteq made
         /\ req[r].kind = "refresh" => req[r].token \in made

(* What a request is about to give up is gone from Redis by the time it    *)
(* makes the new token, or has emptied the set.                            *)
SpentBy(r) ==
    /\ req[r].kind = "refresh"
       /\ pc[r] \in {"remove", "refuse", "set", "add", "expire", "answer"} =>
         owner[req[r].token] = None
    /\ req[r].kind = "logout" /\ pc[r] \in {"unset", "answer"} =>
         \A t \in req[r].read : owner[t] = None
Spent == (\A r \in Requests : SpentBy(r)) /\ SpentStaysSpent

(* What was true while a request was under way has been noted, and each    *)
(* check it passed was of something true.                                  *)
NotedBy(r) ==
    /\ pc[r] # "idle" => /\ active[req[r].user] => "active" \in allowed[r]
                         /\ permitted[req[r].user] => "permitted" \in allowed[r]
    /\ pc[r] \in {"resolve", "serve"} => "active" \in allowed[r]
    /\ pc[r] = "serve" => "permitted" \in allowed[r]
Noted == \A r \in Requests : NotedBy(r)

Inv == Shape /\ MadeOnce /\ Spent /\ Noted

-----------------------------------------------------------------------------
(* Redis, the requests and what was handed out start empty.                *)
LEMMA InitInv == Init => Inv
BY SessionsAssumption DEF Init, Inv, Shape, TypeOK, Ways, WayOK, Phases, Asked, Idle, True,
   MadeOnce, Spent, SpentBy, SpentStaysSpent, Noted, NotedBy

(* A request that has begun is of some user.                               *)
LEMMA OfSomeUser ==
    ASSUME Shape, NEW r \in Requests, pc[r] # "idle"
    PROVE  /\ req[r].user \in Users
           /\ active[req[r].user] \in BOOLEAN /\ owned[req[r].user] \subseteq Tokens
<1>1. req[r] \in Asked /\ req[r].kind # "none"
  BY DEF Shape, TypeOK, Ways, WayOK
<1>2. req[r].user \in Users
  BY <1>1 DEF Shape, Ways, WayOK, Asked
<1> QED
  BY <1>2 DEF Shape, TypeOK

(* A request keeps its type with another answer or another set read.       *)
LEMMA StillAsked ==
    ASSUME req \in [Requests -> Asked], NEW r \in Requests,
           NEW b \in BOOLEAN, NEW S \in SUBSET Tokens
    PROVE  /\ [req EXCEPT ![r].refuse = b] \in [Requests -> Asked]
           /\ [req EXCEPT ![r].read = S] \in [Requests -> Asked]
BY DEF Asked

(* Every step keeps the types.                                             *)
LEMMA TypeStep ==
    ASSUME Shape, [Next]_vars PROVE TypeOK'
<1> USE SessionsAssumption DEF Shape, TypeOK, Phases, Asked, True, stores, Idle
<1>1. ASSUME NEW r \in Requests, NEW u \in Users, Login(r, u) PROVE TypeOK'
  BY <1>1 DEF Login, Begin
<1>2. ASSUME NEW r \in Requests, NEW k \in {"logout", "serve"}, NEW u \in Users,
              Authenticate(r, k, u) PROVE TypeOK'
  BY <1>2 DEF Authenticate, Begin
<1>3. ASSUME NEW r \in Requests, NEW t \in Tokens, Refresh(r, t) PROVE TypeOK'
  <2> DEFINE asked == [Idle EXCEPT !.kind = "refresh", !.user = owner[t], !.token = t]
  <2>1. asked \in Asked
    OBVIOUS
  <2>2. Begin(r, "load", asked)
    BY <1>3 DEF Refresh
  <2> HIDE DEF asked
  <2>3. req' \in [Requests -> Asked] /\ pc' \in [Requests -> Phases]
    BY <2>1, <2>2 DEF Begin
  <2>4. /\ allowed' \in [Requests -> SUBSET {"active", "permitted"}]
        /\ crossed' \subseteq Users /\ UNCHANGED <<stores, made, handed, over>>
    <3>1. asked.user \in Users
      BY <1>3 DEF Refresh, asked
    <3> QED
      BY <2>2, <3>1 DEF Begin
  <2> QED
    BY <2>3, <2>4
<1>4. ASSUME NEW r \in Requests, Load(r) PROVE TypeOK'
  <2> DEFINE refuse == ~active[req[r].user]
  <2>0. active[req[r].user] \in BOOLEAN
    BY <1>4, OfSomeUser DEF Load
  <2>1. refuse \in BOOLEAN /\ req' = [req EXCEPT ![r].refuse = refuse]
    BY <1>4, <2>0 DEF Load
  <2> HIDE DEF refuse
  <2>2. req' \in [Requests -> Asked]
    BY <2>1, StillAsked
  <2> QED
    BY <1>4, <2>2 DEF Load, GoOn
<1>5. ASSUME NEW r \in Requests, ReadRow(r) PROVE TypeOK'
  <2>1. CASE Refused(r)
    BY <1>5, <2>1 DEF ReadRow, Refused, Ends
  <2>2. CASE GoOn(r, "resolve") /\ UNCHANGED <<stores, req, made>>
    BY <2>2 DEF GoOn
  <2> QED
    BY <1>5, <2>1, <2>2 DEF ReadRow
<1>6. ASSUME NEW r \in Requests, Resolve(r) PROVE TypeOK'
  BY <1>6 DEF Resolve, GoOn, Answer
<1>7. ASSUME NEW r \in Requests, Serve(r) PROVE TypeOK'
  BY <1>7 DEF Serve, Refused, Ends
<1>8. ASSUME NEW r \in Requests, Refuse(r) PROVE TypeOK'
  BY <1>8 DEF Refuse, Refused, Ends
<1>9. ASSUME NEW r \in Requests, Respond(r) PROVE TypeOK'
  <2>1. req[r].token \in Tokens \cup {None} /\ req[r].read \subseteq Tokens
    OBVIOUS
  <2>2. handed' \subseteq Tokens
    BY <1>9, <2>1 DEF Respond
  <2>3. over' \subseteq Tokens
    BY <1>9, <2>1 DEF Respond, Ways, WayOK
  <2>4. UNCHANGED <<stores, made, crossed>>
    BY <1>9 DEF Respond, Ends
  <2>5. req' \in [Requests -> Asked] /\ pc' \in [Requests -> Phases]
        /\ allowed' \in [Requests -> SUBSET {"active", "permitted"}]
    BY <1>9 DEF Respond, Ends
  <2> QED
    BY <2>2, <2>3, <2>4, <2>5
<1>10. ASSUME NEW r \in Requests, Fail(r) PROVE TypeOK'
  BY <1>10 DEF Fail, Refused, Ends
<1>11. ASSUME NEW r \in Requests, List(r) PROVE TypeOK'
  <2>1. owned[req[r].user] \subseteq Tokens
    BY <1>11, OfSomeUser DEF List
  <2>2. req' \in [Requests -> Asked]
    BY <1>11, <2>1, StillAsked DEF List
  <2> QED
    BY <1>11, <2>2 DEF List, GoOn
<1>12. ASSUME NEW r \in Requests, DeleteKeys(r) PROVE TypeOK'
  BY <1>12 DEF DeleteKeys, GoOn
<1>13. ASSUME NEW r \in Requests, Unset(r) PROVE TypeOK'
  BY <1>13 DEF Unset, GoOn
<1>14. ASSUME NEW r \in Requests, Find(r) PROVE TypeOK'
  BY <1>14 DEF Find, Then, GoOn
<1>15. ASSUME NEW r \in Requests, DropKey(r) PROVE TypeOK'
  BY <1>15 DEF DropKey, Drop, GoOn
<1>16. ASSUME NEW r \in Requests, Remove(r) PROVE TypeOK'
  BY <1>16 DEF Remove, Then, GoOn
<1>17. ASSUME NEW r \in Requests, SetKey(r) PROVE TypeOK'
  <2>1. PICK t \in Tokens \ made :
          /\ owner' = [owner EXCEPT ![t] = req[r].user]
          /\ made' = made \cup {t} /\ req' = [req EXCEPT ![r].read = {t}]
    BY <1>17 DEF SetKey
  <2>2. owner' \in [Tokens -> Users \cup {None}] /\ made' \subseteq Tokens
    BY <2>1
  <2>3. req' \in [Requests -> Asked]
    <3>1. {t} \in SUBSET Tokens /\ req' = [req EXCEPT ![r].read = {t}]
      BY <2>1
    <3> QED
      BY <3>1, StillAsked
  <2> QED
    BY <1>17, <2>2, <2>3 DEF SetKey, GoOn
<1>18. ASSUME NEW r \in Requests, AddToSet(r) PROVE TypeOK'
  BY <1>18 DEF AddToSet, Add, GoOn
<1>19. ASSUME NEW r \in Requests, Time(r) PROVE TypeOK'
  BY <1>19 DEF Time, GoOn
<1>20. ASSUME NEW t \in Tokens, Expire(t) PROVE TypeOK'
  BY <1>20 DEF Expire
<1>21. ASSUME NEW u \in Users, ExpireSet(u) PROVE TypeOK'
  BY <1>21 DEF ExpireSet
<1>22. ASSUME NEW u \in Users, Administer(u) PROVE TypeOK'
  BY <1>22 DEF Administer
<1>23. CASE UNCHANGED vars
  BY <1>23 DEF vars
<1> QED
  BY <1>1, <1>2, <1>3, <1>4, <1>5, <1>6, <1>7, <1>8, <1>9, <1>10, <1>11, <1>12, <1>13,
     <1>14, <1>15, <1>16, <1>17, <1>18, <1>19, <1>20, <1>21, <1>22, <1>23 DEF Next, Handle,
     Revoke, Store

(* Every step leaves each request on its way.                              *)
LEMMA WaysStep ==
    ASSUME Shape, [Next]_vars PROVE Ways'
<1> USE SessionsAssumption DEF Shape, TypeOK, Ways, WayOK, stores, Idle
<1>1. ASSUME NEW r \in Requests, NEW u \in Users, Login(r, u) PROVE Ways'
  BY <1>1 DEF Login, Begin
<1>2. ASSUME NEW r \in Requests, NEW k \in {"logout", "serve"}, NEW u \in Users,
              Authenticate(r, k, u) PROVE Ways'
  BY <1>2 DEF Authenticate, Begin
<1>3. ASSUME NEW r \in Requests, NEW t \in Tokens, Refresh(r, t) PROVE Ways'
  BY <1>3 DEF Refresh, Begin
<1>4. ASSUME NEW r \in Requests, Load(r) PROVE Ways'
  BY <1>4 DEF Load, GoOn
<1>5. ASSUME NEW r \in Requests, ReadRow(r) PROVE Ways'
  BY <1>5 DEF ReadRow, GoOn, Refused, Ends
<1>6. ASSUME NEW r \in Requests, Resolve(r) PROVE Ways'
  BY <1>6 DEF Resolve, GoOn, Answer
<1>7. ASSUME NEW r \in Requests, Serve(r) PROVE Ways'
  BY <1>7 DEF Serve, Refused, Ends
<1>8. ASSUME NEW r \in Requests, Refuse(r) PROVE Ways'
  BY <1>8 DEF Refuse, Refused, Ends
<1>9. ASSUME NEW r \in Requests, Respond(r) PROVE Ways'
  BY <1>9 DEF Respond, Ends
<1>10. ASSUME NEW r \in Requests, Fail(r) PROVE Ways'
  BY <1>10 DEF Fail, Refused, Ends
<1>11. ASSUME NEW r \in Requests, List(r) PROVE Ways'
  BY <1>11 DEF List, GoOn
<1>12. ASSUME NEW r \in Requests, DeleteKeys(r) PROVE Ways'
  BY <1>12 DEF DeleteKeys, GoOn
<1>13. ASSUME NEW r \in Requests, Unset(r) PROVE Ways'
  BY <1>13 DEF Unset, GoOn
<1>14. ASSUME NEW r \in Requests, Find(r) PROVE Ways'
  BY <1>14 DEF Find, Then, GoOn
<1>15. ASSUME NEW r \in Requests, DropKey(r) PROVE Ways'
  BY <1>15 DEF DropKey, Drop, GoOn
<1>16. ASSUME NEW r \in Requests, Remove(r) PROVE Ways'
  BY <1>16 DEF Remove, Then, GoOn
<1>17. ASSUME NEW r \in Requests, SetKey(r) PROVE Ways'
  BY <1>17 DEF SetKey, GoOn
<1>18. ASSUME NEW r \in Requests, AddToSet(r) PROVE Ways'
  BY <1>18 DEF AddToSet, Add, GoOn
<1>19. ASSUME NEW r \in Requests, Time(r) PROVE Ways'
  BY <1>19 DEF Time, GoOn
<1>20. ASSUME NEW t \in Tokens, Expire(t) PROVE Ways'
  BY <1>20 DEF Expire
<1>21. ASSUME NEW u \in Users, ExpireSet(u) PROVE Ways'
  BY <1>21 DEF ExpireSet
<1>22. ASSUME NEW u \in Users, Administer(u) PROVE Ways'
  BY <1>22 DEF Administer
<1>23. CASE UNCHANGED vars
  BY <1>23 DEF vars
<1> QED
  BY <1>1, <1>2, <1>3, <1>4, <1>5, <1>6, <1>7, <1>8, <1>9, <1>10, <1>11, <1>12, <1>13,
     <1>14, <1>15, <1>16, <1>17, <1>18, <1>19, <1>20, <1>21, <1>22, <1>23 DEF Next, Handle,
     Revoke, Store

(* Only a token that is made comes to be anywhere.                         *)
LEMMA MadeStep ==
    ASSUME Shape, MadeOnce, [Next]_vars PROVE MadeOnce'
<1> USE SessionsAssumption DEF Shape, MadeOnce, TypeOK, Phases, Asked, Ways, WayOK, stores, Idle
<1>1. ASSUME NEW r \in Requests, NEW u \in Users, Login(r, u) PROVE MadeOnce'
  BY <1>1 DEF Login, Begin
<1>2. ASSUME NEW r \in Requests, NEW k \in {"logout", "serve"}, NEW u \in Users,
              Authenticate(r, k, u) PROVE MadeOnce'
  BY <1>2 DEF Authenticate, Begin
<1>3. ASSUME NEW r \in Requests, NEW t \in Tokens, Refresh(r, t) PROVE MadeOnce'
  BY <1>3 DEF Refresh, Begin
<1>4. ASSUME NEW r \in Requests, Load(r) PROVE MadeOnce'
  BY <1>4 DEF Load, GoOn
<1>5. ASSUME NEW r \in Requests, ReadRow(r) PROVE MadeOnce'
  BY <1>5 DEF ReadRow, GoOn, Refused, Ends
<1>6. ASSUME NEW r \in Requests, Resolve(r) PROVE MadeOnce'
  BY <1>6 DEF Resolve, GoOn, Answer
<1>7. ASSUME NEW r \in Requests, Serve(r) PROVE MadeOnce'
  BY <1>7 DEF Serve, Refused, Ends
<1>8. ASSUME NEW r \in Requests, Refuse(r) PROVE MadeOnce'
  BY <1>8 DEF Refuse, Refused, Ends
<1>9. ASSUME NEW r \in Requests, Respond(r) PROVE MadeOnce'
  BY <1>9 DEF Respond, Ends
<1>10. ASSUME NEW r \in Requests, Fail(r) PROVE MadeOnce'
  BY <1>10 DEF Fail, Refused, Ends
<1>11. ASSUME NEW r \in Requests, List(r) PROVE MadeOnce'
  BY <1>11 DEF List, GoOn
<1>12. ASSUME NEW r \in Requests, DeleteKeys(r) PROVE MadeOnce'
  BY <1>12 DEF DeleteKeys, GoOn
<1>13. ASSUME NEW r \in Requests, Unset(r) PROVE MadeOnce'
  BY <1>13 DEF Unset, GoOn
<1>14. ASSUME NEW r \in Requests, Find(r) PROVE MadeOnce'
  BY <1>14 DEF Find, Then, GoOn
<1>15. ASSUME NEW r \in Requests, DropKey(r) PROVE MadeOnce'
  BY <1>15 DEF DropKey, Drop, GoOn
<1>16. ASSUME NEW r \in Requests, Remove(r) PROVE MadeOnce'
  BY <1>16 DEF Remove, Then, GoOn
<1>17. ASSUME NEW r \in Requests, SetKey(r) PROVE MadeOnce'
  BY <1>17 DEF SetKey, GoOn
<1>18. ASSUME NEW r \in Requests, AddToSet(r) PROVE MadeOnce'
  BY <1>18 DEF AddToSet, Add, GoOn
<1>19. ASSUME NEW r \in Requests, Time(r) PROVE MadeOnce'
  BY <1>19 DEF Time, GoOn
<1>20. ASSUME NEW t \in Tokens, Expire(t) PROVE MadeOnce'
  BY <1>20 DEF Expire
<1>21. ASSUME NEW u \in Users, ExpireSet(u) PROVE MadeOnce'
  BY <1>21 DEF ExpireSet
<1>22. ASSUME NEW u \in Users, Administer(u) PROVE MadeOnce'
  BY <1>22 DEF Administer
<1>23. CASE UNCHANGED vars
  BY <1>23 DEF vars
<1> QED
  BY <1>1, <1>2, <1>3, <1>4, <1>5, <1>6, <1>7, <1>8, <1>9, <1>10, <1>11, <1>12, <1>13,
     <1>14, <1>15, <1>16, <1>17, <1>18, <1>19, <1>20, <1>21, <1>22, <1>23 DEF Next, Handle,
     Revoke, Store

(* A key that is set is a new token's, so what is gone stays gone.         *)
LEMMA SpentStep ==
    ASSUME Shape, MadeOnce, Spent, [Next]_vars PROVE Spent'
<1> USE SessionsAssumption DEF Shape, MadeOnce, Spent, SpentBy, SpentStaysSpent, TypeOK,
   Phases, Asked, Ways, WayOK, stores, Idle
<1>1. ASSUME NEW r \in Requests, NEW u \in Users, Login(r, u) PROVE Spent'
  BY <1>1 DEF Login, Begin
<1>2. ASSUME NEW r \in Requests, NEW k \in {"logout", "serve"}, NEW u \in Users,
              Authenticate(r, k, u) PROVE Spent'
  BY <1>2 DEF Authenticate, Begin
<1>3. ASSUME NEW r \in Requests, NEW t \in Tokens, Refresh(r, t) PROVE Spent'
  BY <1>3 DEF Refresh, Begin
<1>4. ASSUME NEW r \in Requests, Load(r) PROVE Spent'
  BY <1>4 DEF Load, GoOn
<1>5. ASSUME NEW r \in Requests, ReadRow(r) PROVE Spent'
  BY <1>5 DEF ReadRow, GoOn, Refused, Ends
<1>6. ASSUME NEW r \in Requests, Resolve(r) PROVE Spent'
  BY <1>6 DEF Resolve, GoOn, Answer
<1>7. ASSUME NEW r \in Requests, Serve(r) PROVE Spent'
  BY <1>7 DEF Serve, Refused, Ends
<1>8. ASSUME NEW r \in Requests, Refuse(r) PROVE Spent'
  BY <1>8 DEF Refuse, Refused, Ends
<1>9. ASSUME NEW r \in Requests, Respond(r) PROVE Spent'
  BY <1>9 DEF Respond, Ends
<1>10. ASSUME NEW r \in Requests, Fail(r) PROVE Spent'
  BY <1>10 DEF Fail, Refused, Ends
<1>11. ASSUME NEW r \in Requests, List(r) PROVE Spent'
  BY <1>11 DEF List, GoOn
<1>12. ASSUME NEW r \in Requests, DeleteKeys(r) PROVE Spent'
  BY <1>12 DEF DeleteKeys, GoOn
<1>13. ASSUME NEW r \in Requests, Unset(r) PROVE Spent'
  BY <1>13 DEF Unset, GoOn
<1>14. ASSUME NEW r \in Requests, Find(r) PROVE Spent'
  BY <1>14 DEF Find, Then, GoOn
<1>15. ASSUME NEW r \in Requests, DropKey(r) PROVE Spent'
  BY <1>15 DEF DropKey, Drop, GoOn
<1>16. ASSUME NEW r \in Requests, Remove(r) PROVE Spent'
  BY <1>16 DEF Remove, Then, GoOn
<1>17. ASSUME NEW r \in Requests, SetKey(r) PROVE Spent'
  BY <1>17 DEF SetKey, GoOn
<1>18. ASSUME NEW r \in Requests, AddToSet(r) PROVE Spent'
  BY <1>18 DEF AddToSet, Add, GoOn
<1>19. ASSUME NEW r \in Requests, Time(r) PROVE Spent'
  BY <1>19 DEF Time, GoOn
<1>20. ASSUME NEW t \in Tokens, Expire(t) PROVE Spent'
  BY <1>20 DEF Expire
<1>21. ASSUME NEW u \in Users, ExpireSet(u) PROVE Spent'
  BY <1>21 DEF ExpireSet
<1>22. ASSUME NEW u \in Users, Administer(u) PROVE Spent'
  BY <1>22 DEF Administer
<1>23. CASE UNCHANGED vars
  BY <1>23 DEF vars
<1> QED
  BY <1>1, <1>2, <1>3, <1>4, <1>5, <1>6, <1>7, <1>8, <1>9, <1>10, <1>11, <1>12, <1>13,
     <1>14, <1>15, <1>16, <1>17, <1>18, <1>19, <1>20, <1>21, <1>22, <1>23 DEF Next, Handle,
     Revoke, Store

(* The user of a request that has begun is active only if that was noted.  *)
LEMMA ActiveIsNoted ==
    ASSUME Noted, NEW r \in Requests, pc[r] = "row", active[req[r].user]
    PROVE  "active" \in allowed[r]
BY DEF Noted, NotedBy

(* What an administrator changes is noted with the requests under way.     *)
LEMMA NotedStep ==
    ASSUME Shape, Noted, [Next]_vars PROVE Noted'
<1> USE SessionsAssumption DEF Shape, Noted, NotedBy, TypeOK, Phases, Asked, Ways, WayOK,
   True, stores, Idle
<1>1. ASSUME NEW r \in Requests, NEW u \in Users, Login(r, u) PROVE Noted'
  BY <1>1 DEF Login, Begin
<1>2. ASSUME NEW r \in Requests, NEW k \in {"logout", "serve"}, NEW u \in Users,
              Authenticate(r, k, u) PROVE Noted'
  BY <1>2 DEF Authenticate, Begin
<1>3. ASSUME NEW r \in Requests, NEW t \in Tokens, Refresh(r, t) PROVE Noted'
  BY <1>3 DEF Refresh, Begin
<1>4. ASSUME NEW r \in Requests, Load(r) PROVE Noted'
  BY <1>4 DEF Load, GoOn
<1>5. ASSUME NEW r \in Requests, ReadRow(r) PROVE Noted'
  <2>1. CASE Refused(r)
    BY <1>5, <2>1 DEF ReadRow, Refused, Ends
  <2>2. CASE active[req[r].user] /\ GoOn(r, "resolve") /\ UNCHANGED <<stores, req, made>>
    <3>1. pc[r] = "row"
      BY <1>5 DEF ReadRow
    <3>2. "active" \in allowed[r]
      BY <2>2, <3>1, ActiveIsNoted
    <3> QED
      BY <2>2, <3>1, <3>2 DEF GoOn
  <2> QED
    BY <1>5, <2>1, <2>2 DEF ReadRow
<1>6. ASSUME NEW r \in Requests, Resolve(r) PROVE Noted'
  BY <1>6 DEF Resolve, GoOn, Answer
<1>7. ASSUME NEW r \in Requests, Serve(r) PROVE Noted'
  BY <1>7 DEF Serve, Refused, Ends
<1>8. ASSUME NEW r \in Requests, Refuse(r) PROVE Noted'
  BY <1>8 DEF Refuse, Refused, Ends
<1>9. ASSUME NEW r \in Requests, Respond(r) PROVE Noted'
  BY <1>9 DEF Respond, Ends
<1>10. ASSUME NEW r \in Requests, Fail(r) PROVE Noted'
  BY <1>10 DEF Fail, Refused, Ends
<1>11. ASSUME NEW r \in Requests, List(r) PROVE Noted'
  BY <1>11 DEF List, GoOn
<1>12. ASSUME NEW r \in Requests, DeleteKeys(r) PROVE Noted'
  BY <1>12 DEF DeleteKeys, GoOn
<1>13. ASSUME NEW r \in Requests, Unset(r) PROVE Noted'
  BY <1>13 DEF Unset, GoOn
<1>14. ASSUME NEW r \in Requests, Find(r) PROVE Noted'
  BY <1>14 DEF Find, Then, GoOn
<1>15. ASSUME NEW r \in Requests, DropKey(r) PROVE Noted'
  BY <1>15 DEF DropKey, Drop, GoOn
<1>16. ASSUME NEW r \in Requests, Remove(r) PROVE Noted'
  BY <1>16 DEF Remove, Then, GoOn
<1>17. ASSUME NEW r \in Requests, SetKey(r) PROVE Noted'
  BY <1>17 DEF SetKey, GoOn
<1>18. ASSUME NEW r \in Requests, AddToSet(r) PROVE Noted'
  BY <1>18 DEF AddToSet, Add, GoOn
<1>19. ASSUME NEW r \in Requests, Time(r) PROVE Noted'
  BY <1>19 DEF Time, GoOn
<1>20. ASSUME NEW t \in Tokens, Expire(t) PROVE Noted'
  BY <1>20 DEF Expire
<1>21. ASSUME NEW u \in Users, ExpireSet(u) PROVE Noted'
  BY <1>21 DEF ExpireSet
<1>22. ASSUME NEW u \in Users, Administer(u) PROVE Noted'
  BY <1>22 DEF Administer
<1>23. CASE UNCHANGED vars
  BY <1>23 DEF vars
<1> QED
  BY <1>1, <1>2, <1>3, <1>4, <1>5, <1>6, <1>7, <1>8, <1>9, <1>10, <1>11, <1>12, <1>13,
     <1>14, <1>15, <1>16, <1>17, <1>18, <1>19, <1>20, <1>21, <1>22, <1>23 DEF Next, Handle,
     Revoke, Store

(* Inv is inductive.                                                       *)
LEMMA InvStep == Inv /\ [Next]_vars => Inv'
BY TypeStep, WaysStep, MadeStep, SpentStep, NotedStep DEF Inv, Shape

(* store.ts, middleware.ts: a rotated or logged-out token never comes back,*)
(* and nobody is served who was not allowed while the request was under    *)
(* way.                                                                    *)
THEOREM RevocationHoldsAlways == Spec => []RevocationHolds
<1>1. Inv => RevocationHolds
  BY DEF Inv, Shape, TypeOK, Spent, Noted, NotedBy, RevocationHolds, ServedIsAllowed
<1> QED
  BY InitInv, InvStep, <1>1, PTL DEF Spec

-----------------------------------------------------------------------------
(* A token under way to a client is of the user who asked, or gone, and it *)
(* is the only one.                                                        *)
Brings(r) == req[r].kind \in {"login", "refresh"} /\ pc[r] \in {"add", "expire", "answer"}
Brought == \A r \in Requests : Brings(r) =>
    /\ \A t \in req[r].read : owner[t] \in {req[r].user, None}
    /\ \A s, t \in req[r].read : s = t

(* What a request that may change the session of u knows of it on its way. *)
Changes(r, u) == req[r].user = u /\ req[r].kind # "serve"
OnTheWay(r, u) ==
    /\ pc[r] = "delete" => Alive(u) \subseteq req[r].read
    /\ req[r].kind = "refresh" /\ pc[r] \in {"load", "find", "drop"} =>
         Alive(u) \subseteq {req[r].token}
    /\ pc[r] \in {"unset", "remove", "refuse", "set", "add", "expire", "answer"} =>
         Alive(u) = {}
    /\ Brings(r) /\ pc[r] \in {"expire", "answer"} => req[r].read \subseteq owned[u]
    /\ Brings(r) /\ pc[r] = "answer" => req[r].read \subseteq timed[u]

(* The session of u, as long as no two of its requests overlapped.         *)
SessionOf(u) ==
    /\ \A s, t \in Alive(u) : s = t
    /\ Alive(u) \subseteq owned[u] \cap timed[u]
    /\ \A r1, r2 \in Requests : Changes(r1, u) /\ Changes(r2, u) => r1 = r2
    /\ \A r \in Requests : Changes(r, u) => OnTheWay(r, u)

OneInv == Brought /\ \A u \in Users \ crossed : SessionOf(u)

(* What is on its way to a client stays its user's or goes.                *)
LEMMA BroughtStep ==
    ASSUME Shape, MadeOnce, Brought, [Next]_vars PROVE Brought'
<1> USE SessionsAssumption DEF Shape, MadeOnce, Brought, Brings, TypeOK, Asked, Ways, WayOK,
   stores, Idle
<1>1. ASSUME NEW r \in Requests, NEW u \in Users, Login(r, u) PROVE Brought'
  BY <1>1 DEF Login, Begin, Alive
<1>2. ASSUME NEW r \in Requests, NEW k \in {"logout", "serve"}, NEW u \in Users,
              Authenticate(r, k, u) PROVE Brought'
  BY <1>2 DEF Authenticate, Begin
<1>3. ASSUME NEW r \in Requests, NEW t \in Tokens, Refresh(r, t) PROVE Brought'
  BY <1>3 DEF Refresh, Begin
<1>4. ASSUME NEW r \in Requests, Load(r) PROVE Brought'
  BY <1>4 DEF Load, GoOn
<1>5. ASSUME NEW r \in Requests, ReadRow(r) PROVE Brought'
  BY <1>5 DEF ReadRow, GoOn, Refused, Ends
<1>6. ASSUME NEW r \in Requests, Resolve(r) PROVE Brought'
  BY <1>6 DEF Resolve, GoOn, Answer
<1>7. ASSUME NEW r \in Requests, Serve(r) PROVE Brought'
  BY <1>7 DEF Serve, Refused, Ends
<1>8. ASSUME NEW r \in Requests, Refuse(r) PROVE Brought'
  BY <1>8 DEF Refuse, Refused, Ends
<1>9. ASSUME NEW r \in Requests, Respond(r) PROVE Brought'
  BY <1>9 DEF Respond, Ends
<1>10. ASSUME NEW r \in Requests, Fail(r) PROVE Brought'
  BY <1>10 DEF Fail, Refused, Ends
<1>11. ASSUME NEW r \in Requests, List(r) PROVE Brought'
  BY <1>11 DEF List, GoOn
<1>12. ASSUME NEW r \in Requests, DeleteKeys(r) PROVE Brought'
  BY <1>12 DEF DeleteKeys, GoOn
<1>13. ASSUME NEW r \in Requests, Unset(r) PROVE Brought'
  BY <1>13 DEF Unset, GoOn
<1>14. ASSUME NEW r \in Requests, Find(r) PROVE Brought'
  BY <1>14 DEF Find, Then, GoOn
<1>15. ASSUME NEW r \in Requests, DropKey(r) PROVE Brought'
  BY <1>15 DEF DropKey, Drop, GoOn
<1>16. ASSUME NEW r \in Requests, Remove(r) PROVE Brought'
  BY <1>16 DEF Remove, Then, GoOn
<1>17. ASSUME NEW r \in Requests, SetKey(r) PROVE Brought'
  BY <1>17 DEF SetKey, GoOn
<1>18. ASSUME NEW r \in Requests, AddToSet(r) PROVE Brought'
  BY <1>18 DEF AddToSet, Add, GoOn
<1>19. ASSUME NEW r \in Requests, Time(r) PROVE Brought'
  BY <1>19 DEF Time, GoOn
<1>20. ASSUME NEW t \in Tokens, Expire(t) PROVE Brought'
  BY <1>20 DEF Expire
<1>21. ASSUME NEW u \in Users, ExpireSet(u) PROVE Brought'
  BY <1>21 DEF ExpireSet
<1>22. ASSUME NEW u \in Users, Administer(u) PROVE Brought'
  BY <1>22 DEF Administer
<1>23. CASE UNCHANGED vars
  BY <1>23 DEF vars
<1> QED
  BY <1>1, <1>2, <1>3, <1>4, <1>5, <1>6, <1>7, <1>8, <1>9, <1>10, <1>11, <1>12, <1>13,
     <1>14, <1>15, <1>16, <1>17, <1>18, <1>19, <1>20, <1>21, <1>22, <1>23 DEF Next, Handle,
     Revoke, Store

(* Steps that leave a session and its requests alone, but for what expires. *)
LEMMA SessionKept ==
    ASSUME NEW u \in Users, SessionOf(u), Alive(u)' \subseteq Alive(u),
           owned'[u] = owned[u], timed'[u] = timed[u],
           \A q \in Requests : Changes(q, u)' =>
              Changes(q, u) /\ pc'[q] = pc[q] /\ req'[q] = req[q]
    PROVE  SessionOf(u)'
BY DEF SessionOf, Changes, OnTheWay, Brings

(* What is known of the one request of a user at three points of its way.   *)
LEMMA SoleRequest ==
    ASSUME Shape, OneInv, NEW u \in Users \ crossed, NEW r \in Requests, req[r].user = u,
           pc[r] \in {"find", "drop", "answer"}
    PROVE  /\ Changes(r, u) /\ \A q \in Requests : Changes(q, u) => q = r
           /\ pc[r] # "answer" => req[r].kind = "refresh" /\ Alive(u) \subseteq {req[r].token}
           /\ pc[r] = "answer" =>
                /\ Alive(u) = {} /\ req[r].kind \in {"login", "refresh", "logout"}
                /\ req[r].kind # "logout" => Brings(r) /\ req[r].read \subseteq owned[u] \cap timed[u]
<1>1. /\ req[r].kind \in {"none", "login", "refresh", "logout", "serve"}
      /\ pc[r] # "answer" => req[r].kind = "refresh"
      /\ pc[r] = "answer" => req[r].kind \in {"login", "refresh", "logout"}
  BY DEF Shape, TypeOK, Asked, Ways, WayOK
<1>2. Changes(r, u) /\ SessionOf(u)
  BY <1>1 DEF Changes, OneInv
<1>3. OnTheWay(r, u) /\ \A q \in Requests : Changes(q, u) => q = r
  BY <1>2 DEF SessionOf
<1> QED
  BY <1>1, <1>2, <1>3 DEF OnTheWay, Brings


(* Those three points: the token used is looked up, dropped, answered for. *)
LEMMA FindSession ==
    ASSUME Shape, OneInv, NEW u \in Users \ crossed, NEW r \in Requests, req[r].user = u, Find(r)
    PROVE  SessionOf(u)'
<1>1. /\ req[r].kind = "refresh" /\ Alive(u) \subseteq {req[r].token}
      /\ Changes(r, u) /\ \A q \in Requests : Changes(q, u) => q = r
  BY SoleRequest DEF Find
<1>2. /\ UNCHANGED <<owned, timed, req, owner, handed>>
      /\ pc' = [pc EXCEPT ![r] = IF owner[req[r].token] = None THEN Then(r) ELSE "drop"]
  BY DEF Find, GoOn, stores
<1>3. /\ pc'[r] \in {"drop", "refuse", "set"}
      /\ pc'[r] # "drop" => owner[req[r].token] = None
  BY <1>2 DEF Shape, TypeOK, Then
<1>4. pc'[r] # "drop" => Alive(u) = {}
  BY <1>1, <1>3, SessionsAssumption DEF Alive
<1>5. Alive(u)' = Alive(u) /\ \A q \in Requests : Changes(q, u)' => q = r
  BY <1>1, <1>2 DEF Alive, Changes
<1>6. OnTheWay(r, u)'
  BY <1>1, <1>2, <1>3, <1>4, <1>5 DEF OnTheWay, Brings
<1> QED
  BY <1>2, <1>5, <1>6 DEF SessionOf, OneInv

LEMMA DropSession ==
    ASSUME Shape, OneInv, NEW u \in Users \ crossed, NEW r \in Requests, req[r].user = u, DropKey(r)
    PROVE  SessionOf(u)'
<1>1. /\ req[r].kind = "refresh" /\ Alive(u) \subseteq {req[r].token}
      /\ Changes(r, u) /\ \A q \in Requests : Changes(q, u) => q = r
  BY SoleRequest DEF DropKey
<1>2. /\ UNCHANGED <<owned, timed, req, handed>>
      /\ owner' = [owner EXCEPT ![req[r].token] = None]
      /\ pc' = [pc EXCEPT ![r] = "remove"]
  BY DEF DropKey, Drop, GoOn
<1>3. Alive(u)' = {}
  BY <1>1, <1>2, SessionsAssumption DEF Alive, Shape, TypeOK
<1>4. \A q \in Requests : Changes(q, u)' => q = r
  BY <1>1, <1>2 DEF Changes
<1>5. OnTheWay(r, u)'
  BY <1>2, <1>3 DEF OnTheWay, Brings, Shape, TypeOK
<1> QED
  BY <1>2, <1>3, <1>4, <1>5 DEF SessionOf, OneInv

LEMMA RespondSession ==
    ASSUME Shape, OneInv, NEW u \in Users \ crossed, NEW r \in Requests, Respond(r)
    PROVE  SessionOf(u)'
<1>1. /\ UNCHANGED <<owned, timed, owner>>
      /\ pc[r] = "answer" /\ handed' = IF req[r].kind = "logout" THEN handed ELSE handed \cup req[r].read
      /\ req' = [req EXCEPT ![r] = Idle] /\ pc' = [pc EXCEPT ![r] = "idle"]
  BY DEF Respond, Ends, stores
<1>2. \A q \in Requests : Changes(q, u)' =>
         q # r /\ Changes(q, u) /\ pc'[q] = pc[q] /\ req'[q] = req[q]
  BY <1>1, SessionsAssumption DEF Changes, Idle, Shape, TypeOK
<1>3. CASE req[r].user = u
  <2>1. /\ Changes(r, u) /\ Alive(u) = {} /\ \A q \in Requests : Changes(q, u) => q = r
        /\ req[r].kind # "logout" => Brings(r) /\ req[r].read \subseteq owned[u] \cap timed[u]
    BY <1>1, <1>3, SoleRequest
  <2>2. /\ Alive(u)' \subseteq owned[u] \cap timed[u]
        /\ \A s, t \in Alive(u)' : s = t
    BY <1>1, <2>1 DEF Alive, OneInv, Brought
  <2> QED
    BY <1>1, <1>2, <2>1, <2>2 DEF SessionOf
<1>4. CASE req[r].user # u
  <2>1. req[r].kind # "logout" => Brings(r)
    BY <1>1 DEF Brings, Shape, TypeOK, Asked, Ways, WayOK
  <2>2. Alive(u)' \subseteq Alive(u)
    BY <1>1, <1>4, <2>1, SessionsAssumption DEF Alive, OneInv, Brought
  <2>3. SessionOf(u)
    BY DEF OneInv
  <2> QED
    BY <1>1, <1>2, <2>2, <2>3, SessionKept
<1> QED
  BY <1>3, <1>4

(* The session of a user whose requests have not overlapped.               *)
LEMMA SessionStep ==
    ASSUME Shape, MadeOnce, OneInv, NEW u \in Users \ crossed', [Next]_vars PROVE SessionOf(u)'
<1> USE SessionsAssumption DEF Shape, MadeOnce, OneInv, SessionOf, Changes, OnTheWay, Alive,
   Brought, Brings, TypeOK, Ways, WayOK, stores, Idle
<1>1. ASSUME NEW r \in Requests, NEW v \in Users, Login(r, v) PROVE SessionOf(u)'
  BY <1>1 DEF Login, Begin, InFlight
<1>2. ASSUME NEW r \in Requests, NEW k \in {"logout", "serve"}, NEW v \in Users,
              Authenticate(r, k, v) PROVE SessionOf(u)'
  BY <1>2 DEF Authenticate, Begin, InFlight
<1>3. ASSUME NEW r \in Requests, NEW t \in Tokens, Refresh(r, t) PROVE SessionOf(u)'
  BY <1>3 DEF Refresh, Begin, InFlight
<1>4. ASSUME NEW r \in Requests, Load(r) PROVE SessionOf(u)'
  BY <1>4 DEF Load, GoOn
<1>5. ASSUME NEW r \in Requests, ReadRow(r) PROVE SessionOf(u)'
  BY <1>5 DEF ReadRow, GoOn, Refused, Ends
<1>6. ASSUME NEW r \in Requests, Resolve(r) PROVE SessionOf(u)'
  BY <1>6 DEF Resolve, GoOn, Answer
<1>7. ASSUME NEW r \in Requests, Serve(r) PROVE SessionOf(u)'
  BY <1>7 DEF Serve, Refused, Ends
<1>8. ASSUME NEW r \in Requests, Refuse(r) PROVE SessionOf(u)'
  BY <1>8 DEF Refuse, Refused, Ends
<1>9. ASSUME NEW r \in Requests, Respond(r) PROVE SessionOf(u)'
  BY <1>9, RespondSession DEF Respond, Ends
<1>10. ASSUME NEW r \in Requests, Fail(r) PROVE SessionOf(u)'
  BY <1>10 DEF Fail, Refused, Ends
<1>11. ASSUME NEW r \in Requests, List(r) PROVE SessionOf(u)'
  BY <1>11 DEF List, GoOn
<1>12. ASSUME NEW r \in Requests, DeleteKeys(r) PROVE SessionOf(u)'
  BY <1>12 DEF DeleteKeys, GoOn
<1>13. ASSUME NEW r \in Requests, Unset(r) PROVE SessionOf(u)'
  BY <1>13 DEF Unset, GoOn
<1>14. ASSUME NEW r \in Requests, Find(r) PROVE SessionOf(u)'
  <2>1. req[r].user \in Users /\ pc[r] # "idle"
    BY <1>14, OfSomeUser DEF Find
  <2>2. CASE req[r].user = u
    <3>1. u \in Users \ crossed
      BY <1>14 DEF Find, GoOn
    <3> HIDE DEF Shape, OneInv, SessionOf
    <3> QED
      BY <1>14, <2>2, <3>1, FindSession
  <2>3. CASE req[r].user # u
    BY <1>14, <2>1, <2>3 DEF Find, Then, GoOn
  <2> QED
    BY <2>2, <2>3
<1>15. ASSUME NEW r \in Requests, DropKey(r) PROVE SessionOf(u)'
  <2>1. req[r].user \in Users /\ pc[r] # "idle"
    BY <1>15, OfSomeUser DEF DropKey
  <2>2. CASE req[r].user = u
    <3>1. u \in Users \ crossed
      BY <1>15 DEF DropKey, GoOn
    <3> HIDE DEF Shape, OneInv, SessionOf
    <3> QED
      BY <1>15, <2>2, <3>1, DropSession
  <2>3. CASE req[r].user # u
    BY <1>15, <2>1, <2>3 DEF DropKey, Drop, GoOn
  <2> QED
    BY <2>2, <2>3
<1>16. ASSUME NEW r \in Requests, Remove(r) PROVE SessionOf(u)'
  BY <1>16 DEF Remove, Then, GoOn
<1>17. ASSUME NEW r \in Requests, SetKey(r) PROVE SessionOf(u)'
  BY <1>17 DEF SetKey, GoOn
<1>18. ASSUME NEW r \in Requests, AddToSet(r) PROVE SessionOf(u)'
  BY <1>18 DEF AddToSet, Add, GoOn
<1>19. ASSUME NEW r \in Requests, Time(r) PROVE SessionOf(u)'
  BY <1>19 DEF Time, GoOn
<1>20. ASSUME NEW t \in Tokens, Expire(t) PROVE SessionOf(u)'
  BY <1>20 DEF Expire
<1>21. ASSUME NEW v \in Users, ExpireSet(v) PROVE SessionOf(u)'
  <2>1. CASE v # u
    BY <1>21, <2>1 DEF ExpireSet
  <2>2. CASE v = u
    <3>1. ~InFlight(u)
      BY <1>21, <2>2 DEF ExpireSet
    <3>2. \A r \in Requests : ~Changes(r, u)
      BY <3>1 DEF InFlight
    <3>3. Alive(u) = {}
      BY <1>21, <2>2 DEF ExpireSet
    <3>4. Alive(u)' = {}
      BY <1>21, <3>3 DEF ExpireSet
    <3>5. \A r \in Requests : ~Changes(r, u)'
      BY <1>21, <3>2 DEF ExpireSet
    <3> HIDE DEF Alive, Changes, OnTheWay, Shape, MadeOnce, OneInv
    <3> QED
      BY <3>4, <3>5
  <2> QED
    BY <2>1, <2>2
<1>22. ASSUME NEW v \in Users, Administer(v) PROVE SessionOf(u)'
  BY <1>22 DEF Administer
<1>23. CASE UNCHANGED vars
  BY <1>23 DEF vars
<1> HIDE DEF SessionOf, Shape, MadeOnce, OneInv, TypeOK, Ways, stores
<1> QED
  BY <1>1, <1>2, <1>3, <1>4, <1>5, <1>6, <1>7, <1>8, <1>9, <1>10, <1>11, <1>12, <1>13,
     <1>14, <1>15, <1>16, <1>17, <1>18, <1>19, <1>20, <1>21, <1>22, <1>23 DEF Next, Handle,
     Revoke, Store

LEMMA OneStep == Inv /\ OneInv /\ [Next]_vars => OneInv'
<1>1. ASSUME Inv, OneInv, [Next]_vars, NEW u \in Users \ crossed' PROVE SessionOf(u)'
  BY <1>1, SessionStep DEF Inv
<1>2. ASSUME Inv, OneInv, [Next]_vars PROVE Brought'
  BY <1>2, BroughtStep DEF Inv, OneInv
<1> QED
  BY <1>1, <1>2 DEF OneInv

(* server.ts: a user has one session at a time, whatever fails or runs out *)
(* between the calls to Redis, unless two requests of the user overlapped. *)
THEOREM OneSessionAlways == Spec => []OneSession
<1>1. Init => OneInv
  BY SessionsAssumption DEF Init, OneInv, Brought, Brings, SessionOf, Changes, OnTheWay, Alive, Idle
<1>2. Inv /\ OneInv => OneSession
  <2> SUFFICES ASSUME Inv, OneInv, NEW u \in Users \ crossed
               PROVE  /\ Cardinality(Alive(u)) <= 1 /\ Alive(u) \subseteq owned[u]
                      /\ \A r \in Requests :
                            pc[r] = "answer" /\ req[r].kind = "logout" /\ req[r].user = u
                              => Alive(u) = {}
    BY DEF OneSession
  <2>1. SessionOf(u)
    BY DEF OneInv
  <2>2. Alive(u) = {} \/ \E t \in Alive(u) : Alive(u) = {t}
    BY <2>1 DEF SessionOf
  <2>3. Cardinality(Alive(u)) <= 1
    <3>1. CASE Alive(u) = {}
      BY <3>1, FS_EmptySet
    <3>2. ASSUME NEW t, Alive(u) = {t} PROVE Cardinality(Alive(u)) <= 1
      <4>1. Cardinality({t}) = 1
        BY FS_Singleton
      <4> QED
        BY <3>2, <4>1
    <3> QED
      BY <2>2, <3>1, <3>2
  <2> QED
    BY <2>1, <2>3 DEF SessionOf, Changes, OnTheWay
<1> QED
  BY InitInv, InvStep, OneStep, <1>1, <1>2, PTL DEF Spec
=============================================================================

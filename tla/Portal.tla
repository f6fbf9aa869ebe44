------------------------------- MODULE Portal -------------------------------
(***************************************************************************)
(* A page of the merchant portal (portal/src) and the sessions of the      *)
(* gateway it lives on (internal/httpapi/session.go).                      *)
(*                                                                         *)
(* A login opens a session: an access token and a refresh token, kept in   *)
(* the page's memory.  The queries of the page run concurrently; one that  *)
(* is answered 401 refreshes the access token once and is sent again.  The *)
(* gateway keeps no sessions: a token is good until it expires.            *)
(* Access tokens are numbered in the order they are issued, and so are     *)
(* sessions, which have one refresh token each.  Whose merchant a session  *)
(* is for is a function of the session and left out.                       *)
(***************************************************************************)
EXTENDS Integers, Sequences, FiniteSets

CONSTANTS
    Requests,     \* the page's queries
    MaxSessions,  \* bound: logins
    MaxTokens,    \* bound: access tokens issued
    Faults        \* which may occur, see FaultKinds

(* net: a connection fails; gateway: it answers a refresh with a 5xx. *)
FaultKinds == {"net", "gateway"}

ASSUME PortalAssumption ==
    /\ IsFiniteSet(Requests)
    /\ MaxSessions \in Nat /\ MaxTokens \in Nat /\ MaxSessions <= MaxTokens
    /\ Faults \subseteq FaultKinds

VARIABLES
    issued,   \* the session of each access token
    aged,     \* the access tokens 1..aged have expired
    logins,   \* the sessions opened so far
    over,     \* the refresh tokens of the sessions 1..over have expired
    access,   \* the page's accessToken, 0 for null
    session,  \* the session of its refreshToken and merchant, 0 for null
    req,      \* [Requests -> RequestStates]
    known,    \* the tokens 1..known were issued before the page was last quiet
    crossed   \* history: a login happened while a request was under way

page == <<access, session>>
gateway == <<issued, aged, logins, over>>
history == <<known, crossed>>
vars == <<issued, aged, logins, over, access, session, req, known, crossed>>

UnderWay == {"sent", "unauthorized", "refreshing", "granted", "denied",
             "unavailable", "retry"}

(***************************************************************************)
(* began: the session it was asked in; token: the access token it carries, *)
(* or was granted; refresh: the session whose refresh token it presented;  *)
(* retried: sent a second time.                                            *)
(***************************************************************************)
RequestStates ==
    [at : UnderWay \cup {"idle", "loaded", "rejected", "lost"},
     began : 0..MaxSessions, token : 0..MaxTokens,
     refresh : 0..MaxSessions, retried : BOOLEAN]

NewRequest == [at |-> "idle", began |-> 0, token |-> 0, refresh |-> 0,
               retried |-> FALSE]

Busy == {r \in Requests : req[r].at \in UnderWay}

Moves(r, at) == req' = [req EXCEPT ![r].at = at]
-----------------------------------------------------------------------------
(* verifyToken and verifyRefresh: the token is of its type, not expired. *)
Live(token) == token > aged
Renewable(s) == s > over

(* There is room for the tokens of the busy requests and of later logins. *)
Room == Len(issued) + Cardinality(Busy) + (MaxSessions - logins) < MaxTokens

(* Seeded bug: a token already in memory is kept. *)
SetSession_KeepsAccess(token, s) ==
    access' = (IF access = 0 THEN token ELSE access) /\ session' = s

(* Seeded bug: the arguments are swapped. *)
SetSession_Swapped(token, s) == access' = s /\ session' = token

SetSession(token, s) == access' = token /\ session' = s

Login ==
    /\ logins < MaxSessions
    /\ logins' = logins + 1
    /\ issued' = Append(issued, logins + 1)
    /\ SetSession(Len(issued) + 1, logins + 1)
    /\ crossed' = (crossed \/ Busy # {})
    /\ UNCHANGED <<aged, over, req, known>>

ClearToken == access' = 0 /\ session' = 0

Logout ==
    /\ session # 0
    /\ ClearToken
    /\ UNCHANGED <<gateway, req, history>>

(* attempt: the request is sent with the token the page has now. *)
Attempt(x) == [x EXCEPT !.at = "sent", !.token = access]

(* A page behind RequireAuth asks for its data. *)
Ask(r) ==
    /\ session # 0 /\ r \notin Busy /\ Room
    /\ req' = [req EXCEPT ![r] =
                 Attempt([NewRequest EXCEPT !.began = session])]
    /\ known' = (IF Busy = {} THEN Len(issued) ELSE known)
    /\ UNCHANGED <<gateway, page, crossed>>

(* authAny: the data of the token's merchant, or a 401. *)
Serve(r) ==
    /\ req[r].at = "sent"
    /\ Moves(r, IF Live(req[r].token) THEN "loaded" ELSE "unauthorized")
    /\ UNCHANGED <<gateway, page, history>>

(* Seeded bug: every 401 that a session meets ends it. *)
Unauthorized_Bounces(r) ==
    /\ req[r].at = "unauthorized"
    /\ Moves(r, "rejected")
    /\ ClearToken
    /\ UNCHANGED <<gateway, history>>

(* A 401 arrives: the first one starts a refresh if there is a session. *)
Unauthorized(r) ==
    /\ req[r].at = "unauthorized"
    /\ IF ~req[r].retried /\ session # 0
       THEN req' = [req EXCEPT ![r].at = "refreshing", ![r].refresh = session]
       ELSE Moves(r, "rejected")
    /\ UNCHANGED <<gateway, page, history>>

(* refresh: a new access token for the session of the refresh token. *)
Refresh(r) ==
    /\ req[r].at = "refreshing"
    /\ \/ /\ Renewable(req[r].refresh)
          /\ issued' = Append(issued, req[r].refresh)
          /\ req' = [req EXCEPT ![r].at = "granted", ![r].token = Len(issued) + 1]
       \/ ~Renewable(req[r].refresh) /\ Moves(r, "denied") /\ UNCHANGED issued
       \/ "gateway" \in Faults /\ Moves(r, "unavailable") /\ UNCHANGED issued
    /\ UNCHANGED <<aged, logins, over, page, history>>

(* Seeded bug: the new token is not stored. *)
Granted_NotStored(r) ==
    /\ req[r].at = "granted"
    /\ Moves(r, "retry")
    /\ UNCHANGED <<gateway, page, history>>

(* setAccessToken, whatever became of the session meanwhile. *)
Granted(r) ==
    /\ req[r].at = "granted"
    /\ access' = req[r].token
    /\ Moves(r, "retry")
    /\ UNCHANGED <<gateway, session, history>>

Retry(r) ==
    /\ req[r].at = "retry"
    /\ req' = [req EXCEPT ![r] = Attempt([@ EXCEPT !.retried = TRUE])]
    /\ UNCHANGED <<gateway, page, history>>

(* Seeded bug: the session is kept and the request sent again. *)
Denied_SendsAgain(r) ==
    /\ req[r].at \in {"denied", "unavailable"}
    /\ Moves(r, "sent")
    /\ UNCHANGED <<gateway, page, history>>

(* Whatever the refresh failed with, the page drops its session and goes   *)
(* to the login form.                                                      *)
Denied(r) ==
    /\ req[r].at \in {"denied", "unavailable"}
    /\ ClearToken
    /\ Moves(r, "rejected")
    /\ UNCHANGED <<gateway, history>>

(* fetch rejects: the query shows an error and the session stays. *)
ConnectionFails(r) ==
    /\ "net" \in Faults
    /\ r \in Busy /\ req[r].at # "retry"
    /\ Moves(r, "lost")
    /\ UNCHANGED <<gateway, page, history>>

(* Time passes; a token issued to a query of the page outlives all those   *)
(* that are under way with it (TTL 15 minutes).                            *)
AccessExpires ==
    /\ aged < Len(issued)
    /\ Busy # {} => aged < known
    /\ aged' = aged + 1
    /\ UNCHANGED <<issued, logins, over, page, req, history>>

RefreshExpires ==
    /\ over < logins
    /\ over' = over + 1
    /\ UNCHANGED <<issued, aged, logins, page, req, history>>
-----------------------------------------------------------------------------
Init ==
    /\ issued = <<>> /\ aged = 0 /\ logins = 0 /\ over = 0
    /\ access = 0 /\ session = 0
    /\ req = [r \in Requests |-> NewRequest]
    /\ known = 0 /\ crossed = FALSE

Progress(r) ==
    Serve(r) \/ Unauthorized(r) \/ Refresh(r) \/ Granted(r) \/ Retry(r) \/ Denied(r)

Next ==
    \/ Login \/ Logout \/ AccessExpires \/ RefreshExpires
    \/ \E r \in Requests : Ask(r) \/ Progress(r) \/ ConnectionFails(r)

Spec == Init /\ [][Next]_vars

(* Requests are answered and the page's promises resolved. *)
Fairness == \A r \in Requests : WF_vars(Progress(r))

FairSpec == Spec /\ Fairness
-----------------------------------------------------------------------------
(* The variables hold values of their types. *)
TypeOK ==
    /\ issued \in Seq(1..MaxSessions) /\ Len(issued) <= MaxTokens
    /\ aged \in 0..Len(issued)
    /\ logins \in 0..MaxSessions /\ over \in 0..logins
    /\ access \in 0..Len(issued) /\ session \in 0..logins
    /\ req \in [Requests -> RequestStates]
    /\ known \in 0..Len(issued) /\ crossed \in BOOLEAN

(***************************************************************************)
(* A query is answered with data of the session it was asked in, however   *)
(* refreshes, sign-outs and sign-ins overlap, as long as nobody signs in   *)
(* while a query is under way (refresh: "scoped to the same merchant").    *)
(***************************************************************************)
OwnData ==
    \A r \in Requests :
        req[r].at = "loaded" /\ ~crossed => issued[req[r].token] = req[r].began

IsRejected(r) == req[r].at # "rejected" /\ req'[r].at = "rejected"

(***************************************************************************)
(* The user stays in: a query that finds its access token expired ends in  *)
(* a 401 only if the session it was asked in is no longer the page's,      *)
(* although several queries refresh at once and their answers overtake     *)
(* each other (authedFetch: refreshes once and retries).                   *)
(***************************************************************************)
StaysSignedIn ==
    [][\A r \in Requests : IsRejected(r) => session' # req[r].began]_vars

(***************************************************************************)
(* A query throws the user out only if the refresh token it presented has  *)
(* expired or the gateway could not say: never because its access token    *)
(* did (client.ts: a 401 that even a refresh can't fix clears the session). *)
(***************************************************************************)
ThrownOutWhenOver ==
    [][\A r \in Requests :
          IsRejected(r) /\ session # 0 /\ session' = 0 =>
              \/ req[r].refresh \in 1..over
              \/ req[r].at = "unavailable"]_vars

(* Every query ends: a refresh is never followed by another (authedFetch: *)
(* retries at most once, so there is no loop).                            *)
EveryQueryEnds == \A r \in Requests : r \in Busy ~> r \notin Busy
=============================================================================

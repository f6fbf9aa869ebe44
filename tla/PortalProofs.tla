---------------------------- MODULE PortalProofs ----------------------------
(***************************************************************************)
(* Proofs about Portal for any number of concurrent queries, logins and    *)
(* tokens: the types, whose data a query is answered with, and what may    *)
(* end a session.                                                          *)
(***************************************************************************)
EXTENDS Portal, FiniteSetTheorems, TLAPS

(* The queries that may still be granted a token. *)
Fresh == {r \in Requests : /\ ~req[r].retried
                           /\ req[r].at \in {"sent", "unauthorized", "refreshing"}}

(* Every token they and later logins get is accounted for. *)
Counted == Len(issued) + Cardinality(Fresh) + (MaxSessions - logins) <= MaxTokens

(* While queries are under way no token of theirs expires. *)
Clock == Busy # {} => aged <= known

(* A query was asked in a session; what it presents is of a session; a     *)
(* token granted to it, or stored since, is a new one.                     *)
Sound(x) ==
    /\ x.token <= Len(issued)
    /\ x.at # "idle" => x.began \in 1..logins
    /\ x.at = "refreshing" => x.refresh \in 1..logins /\ ~x.retried
    /\ x.at = "denied" => x.refresh \in 1..over
    /\ x.at = "granted" => x.token > known
    /\ x.at = "loaded" => x.token # 0
    /\ x.at = "retry" /\ session = x.began => access > known
    /\ x.at = "sent" /\ x.retried /\ session = x.began => x.token > known
    /\ x.at = "unauthorized" /\ x.retried => session # x.began

(* Without a login under a query all that concerns it is of its session. *)
Own(x) ==
    /\ x.at \in {"sent", "loaded", "granted"} /\ x.token # 0 =>
          issued[x.token] = x.began
    /\ x.at = "refreshing" => x.refresh = x.began
    /\ x.at \in UnderWay =>
          /\ session \in {0, x.began}
          /\ access # 0 => issued[access] = x.began

(* So is the page's token, and all queries are of one session. *)
OwnPage ==
    /\ session # 0 /\ access # 0 => issued[access] = session
    /\ \A r, s \in Busy : req[r].began = req[s].began
    /\ \A r \in Requests : Own(req[r])

IInv ==
    /\ TypeOK
    /\ Counted
    /\ Clock
    /\ \A r \in Requests : Sound(req[r])
    /\ ~crossed => OwnPage
-----------------------------------------------------------------------------
LEMMA Sizes ==
    /\ IsFiniteSet(Fresh) /\ Cardinality(Fresh) \in Nat
    /\ IsFiniteSet(Busy) /\ Cardinality(Busy) \in Nat
    /\ Fresh \subseteq Busy
  <1>1. Fresh \subseteq Busy /\ Busy \subseteq Requests
    BY DEF Fresh, Busy, UnderWay
  <1>2. IsFiniteSet(Requests)
    BY PortalAssumption
  <1>3. IsFiniteSet(Fresh) /\ IsFiniteSet(Busy)
    BY <1>1, <1>2, FS_Subset
  <1>4. QED
    BY <1>1, <1>3, FS_CardinalityType

LEMMA InitInv == Init => IInv
  <1> SUFFICES ASSUME Init PROVE IInv
    OBVIOUS
  <1>1. /\ MaxSessions \in Nat /\ MaxTokens \in Nat /\ MaxSessions <= MaxTokens
        /\ Len(issued) = 0
    BY PortalAssumption DEF Init
  <1>2. NewRequest \in RequestStates
    BY <1>1 DEF NewRequest, RequestStates
  <1>3. TypeOK
    <2>1. issued \in Seq(1..MaxSessions) /\ Len(issued) <= MaxTokens
      BY <1>1 DEF Init
    <2>2. req \in [Requests -> RequestStates]
      BY <1>2 DEF Init
    <2>3. 0 \in 0..MaxSessions /\ 0 \in 0..Len(issued) /\ 0 \in 0..0
      BY <1>1
    <2>4. QED
      BY <2>1, <2>2, <2>3 DEF Init, TypeOK
  <1>4. Busy = {} /\ Fresh = {}
    BY DEF Init, Busy, Fresh, NewRequest, UnderWay
  <1>5. Counted /\ Clock
    BY <1>1, <1>4, FS_EmptySet DEF Init, Counted, Clock
  <1>6. \A r \in Requests : Sound(req[r])
    BY <1>1 DEF Init, Sound, NewRequest
  <1>7. OwnPage
    BY <1>4 DEF Init, OwnPage, Own, NewRequest, UnderWay
  <1>8. QED
    BY <1>3, <1>5, <1>6, <1>7 DEF IInv

(* Tokens, logins and expiries only grow. *)
Grows ==
    /\ issued' \in Seq(1..MaxSessions) /\ Len(issued) <= Len(issued')
    /\ \A i \in 1..Len(issued) : issued'[i] = issued[i]
    /\ logins' \in Nat /\ logins <= logins'
    /\ over' \in Nat /\ over <= over'

(* The page keeps its session, with the token it had or a new one, or is   *)
(* signed out, or signed in anew.                                          *)
PageMoves ==
    \/ session' = session /\ (access' = access \/ access' > known)
    \/ session' = 0
    \/ session' > logins

LEMMA SoundStays ==
    ASSUME TypeOK, Grows, PageMoves, known' = known,
           NEW x \in RequestStates, Sound(x)
    PROVE  Sound(x)'
  <1>1. /\ logins \in Nat /\ over \in Nat /\ Len(issued) \in Nat
        /\ MaxSessions \in Nat /\ MaxTokens \in Nat
    BY PortalAssumption DEF TypeOK
  <1>2. Len(issued') \in Nat
    BY DEF Grows
  <1>3. x.token \in Nat /\ x.began \in Nat /\ x.refresh \in Nat
    BY <1>1 DEF RequestStates
  <1>4. x.at # "idle" => x.began \in 1..logins
    BY DEF Sound
  <1>5. x.at # "idle" /\ session' = x.began =>
           session = x.began /\ (access' = access \/ access' > known)
    BY <1>1, <1>3, <1>4 DEF PageMoves
  <1>6. x.token <= Len(issued')
    BY <1>1, <1>2, <1>3 DEF Sound, Grows
  <1>7. /\ x.at # "idle" => x.began \in 1..logins'
        /\ x.at = "refreshing" => x.refresh \in 1..logins'
        /\ x.at = "denied" => x.refresh \in 1..over'
    BY <1>1, <1>3 DEF Sound, Grows
  <1>8. x.at = "retry" /\ session' = x.began => access' > known'
    BY <1>5 DEF Sound
  <1>9. QED
    BY <1>5, <1>6, <1>7, <1>8 DEF Sound

LEMMA OwnStays ==
    ASSUME TypeOK, Grows, NEW x \in RequestStates, Sound(x), Own(x),
           x.at \in UnderWay => session' \in {0, session},
           x.at \in UnderWay /\ access' # 0 => access' = access \/ issued'[access'] = x.began
    PROVE  Own(x)'
  <1>1. /\ Len(issued) \in Nat /\ access \in 0..Len(issued) /\ x.token \in Nat
        /\ x.token <= Len(issued)
    BY PortalAssumption DEF TypeOK, RequestStates, Sound
  <1>2. x.token # 0 => issued'[x.token] = issued[x.token]
    BY <1>1 DEF Grows
  <1>3. access # 0 => issued'[access] = issued[access]
    BY <1>1 DEF Grows
  <1>4. x.at \in UnderWay => (access' # 0 => issued'[access'] = x.began)
    BY <1>3 DEF Own
  <1>5. QED
    BY <1>2, <1>4 DEF Own

(* The types that the clocks and the page's tokens keep in every step. *)
LEMMA Numbers ==
    ASSUME TypeOK
    PROVE  /\ Len(issued) \in Nat /\ aged \in Nat /\ logins \in Nat /\ over \in Nat
           /\ access \in Nat /\ session \in Nat /\ known \in Nat
           /\ MaxSessions \in Nat /\ MaxTokens \in Nat
           /\ \A x \in RequestStates : x.token \in Nat /\ x.began \in Nat
                                       /\ x.refresh \in Nat /\ x.retried \in BOOLEAN
  BY PortalAssumption DEF TypeOK, RequestStates

(* The step of one query that is under way: it goes on to x. *)
ReqStep(r, x) ==
    /\ req' = [req EXCEPT ![r] = x]
    /\ UNCHANGED <<aged, logins, over, history>>
    /\ issued' \in Seq(1..MaxSessions) /\ Len(issued) <= Len(issued')
    /\ \A i \in 1..Len(issued) : issued'[i] = issued[i]
    /\ access' \in 0..Len(issued') /\ session' \in {0, session}
    /\ session' # 0 => access' = access \/ access' > known
    /\ \/ issued' = issued
       \/ Len(issued') = Len(issued) + 1 /\ r \in Fresh /\ x.at = "granted"

LEMMA ReqFacts ==
    ASSUME IInv, NEW r \in Busy, NEW x \in RequestStates, ReqStep(r, x)
    PROVE  /\ r \in Requests /\ req[r] \in RequestStates
           /\ req' \in [Requests -> RequestStates] /\ req'[r] = x
           /\ \A q \in Requests : q # r => req'[q] = req[q]
           /\ Busy' \subseteq Busy
           /\ Grows /\ PageMoves
  <1>1. r \in Requests /\ req \in [Requests -> RequestStates]
    BY DEF Busy, IInv, TypeOK
  <1>2. /\ req' \in [Requests -> RequestStates] /\ req'[r] = x
        /\ \A q \in Requests : q # r => req'[q] = req[q]
    BY <1>1 DEF ReqStep
  <1>3. Busy' \subseteq Busy
    BY <1>2 DEF Busy
  <1>4. logins \in Nat /\ over \in Nat
    BY Numbers DEF IInv
  <1>5. Grows
    BY <1>4 DEF ReqStep, Grows
  <1>6. PageMoves
    BY DEF ReqStep, PageMoves
  <1>7. QED
    BY <1>1, <1>2, <1>3, <1>5, <1>6

LEMMA CountedStays ==
    ASSUME IInv, NEW r \in Busy, NEW x \in RequestStates, ReqStep(r, x),
           x.at \in {"sent", "unauthorized", "refreshing"} /\ ~x.retried => r \in Fresh
    PROVE  Counted' /\ Len(issued') <= MaxTokens
  <1>1. /\ Cardinality(Fresh) \in Nat /\ IsFiniteSet(Fresh) /\ Len(issued) \in Nat
        /\ logins \in 0..MaxSessions /\ MaxSessions \in Nat /\ MaxTokens \in Nat
        /\ logins' = logins /\ Counted
    BY Sizes, Numbers DEF IInv, TypeOK, ReqStep
  <1>2. Fresh' \subseteq Fresh
    BY ReqFacts DEF Fresh
  <1>3. CASE issued' = issued
    <2>1. Cardinality(Fresh') \in Nat /\ Cardinality(Fresh') <= Cardinality(Fresh)
      BY <1>1, <1>2, FS_Subset, FS_CardinalityType
    <2>2. QED
      BY <1>1, <1>3, <2>1 DEF Counted
  <1>4. CASE Len(issued') = Len(issued) + 1 /\ r \in Fresh /\ x.at = "granted"
    <2>1. Fresh' \subseteq Fresh \ {r}
      BY <1>2, <1>4, ReqFacts DEF Fresh
    <2>2. /\ IsFiniteSet(Fresh \ {r})
          /\ Cardinality(Fresh \ {r}) = Cardinality(Fresh) - 1
      BY <1>1, <1>4, FS_RemoveElement
    <2>3. Cardinality(Fresh') \in Nat /\ Cardinality(Fresh') <= Cardinality(Fresh) - 1
      BY <2>1, <2>2, FS_Subset, FS_CardinalityType
    <2>4. QED
      BY <1>1, <1>4, <2>3 DEF Counted
  <1>5. QED
    BY <1>3, <1>4 DEF ReqStep

LEMMA ReqInv ==
    ASSUME IInv, NEW r \in Busy, NEW x \in RequestStates, ReqStep(r, x),
           x.at \in {"sent", "unauthorized", "refreshing"} /\ ~x.retried => r \in Fresh,
           x.at \in UnderWay => x.began = req[r].began,
           Sound(x)',
           ~crossed => /\ Own(x)'
                       /\ access' \in {0, access} \/ issued'[access'] = req[r].began
    PROVE  IInv'
  <1>1. /\ r \in Requests /\ req[r] \in RequestStates
        /\ req' \in [Requests -> RequestStates] /\ req'[r] = x
        /\ \A q \in Requests : q # r => req'[q] = req[q]
        /\ Busy' \subseteq Busy
        /\ Grows /\ PageMoves /\ TypeOK
    BY ReqFacts DEF IInv
  <1>2. Counted' /\ Len(issued') <= MaxTokens
    BY CountedStays
  <1>3. TypeOK'
    <2>1. Len(issued) \in Nat /\ Len(issued') \in Nat
      BY <1>1 DEF TypeOK, ReqStep
    <2>2. aged' \in 0..Len(issued') /\ known' \in 0..Len(issued')
      BY <1>1, <2>1 DEF TypeOK, ReqStep, history
    <2>3. session' \in 0..logins'
      BY <1>1, Numbers DEF TypeOK, ReqStep
    <2>4. QED
      BY <1>1, <1>2, <2>2, <2>3 DEF TypeOK, ReqStep, history
  <1>4. Clock'
    BY <1>1 DEF IInv, Clock, ReqStep, history
  <1>5. ASSUME NEW q \in Requests PROVE Sound(req[q])'
    <2>1. CASE q = r
      BY <1>1, <2>1 DEF Sound
    <2>2. CASE q # r
      <3>1. PICK y \in RequestStates : y = req[q]
        BY <1>1 DEF TypeOK
      <3>2. Sound(y) /\ req'[q] = y
        BY <1>1, <2>2, <3>1 DEF IInv
      <3>3. Sound(y)'
        BY <1>1, <3>2, SoundStays DEF ReqStep, history
      <3>4. QED
        BY <3>2, <3>3 DEF Sound
    <2>3. QED
      BY <2>1, <2>2
  <1>6. ASSUME ~crossed' PROVE OwnPage'
    <2>1. /\ ~crossed /\ OwnPage /\ session' \in {0, session} /\ access' \in Nat
          /\ access' \in {0, access} \/ issued'[access'] = req[r].began
      BY <1>1, <1>6, Numbers DEF IInv, ReqStep, history
    <2>2. access # 0 => issued'[access] = issued[access]
      BY <1>1, Numbers DEF TypeOK, Grows
    <2>3. Own(req[r]) /\ req[r].at \in UnderWay
      BY <1>1, <2>1 DEF OwnPage, Busy
    <2>4. session' # 0 /\ access' # 0 => issued'[access'] = session'
      BY <2>1, <2>2, <2>3 DEF OwnPage, Own
    <2>5. ASSUME NEW p \in Busy', NEW q \in Busy' PROVE req'[p].began = req'[q].began
      <3>1. p \in Busy /\ q \in Busy /\ p \in Requests /\ q \in Requests
        BY <1>1 DEF Busy
      <3>2. req[p].began = req[r].began /\ req[q].began = req[r].began
        BY <2>1, <3>1 DEF OwnPage
      <3>3. req'[p].began = req[p].began /\ req'[q].began = req[q].began
        BY <1>1, <3>1, <3>2, <2>5 DEF Busy
      <3>4. QED
        BY <3>2, <3>3
    <2>6. ASSUME NEW q \in Requests PROVE Own(req[q])'
      <3>1. CASE q = r
        BY <1>1, <2>1, <3>1 DEF Own
      <3>2. CASE q # r
        <4>1. PICK y \in RequestStates : y = req[q]
          BY <1>1 DEF TypeOK
        <4>2. Sound(y) /\ Own(y) /\ req'[q] = y
          BY <1>1, <2>1, <3>2, <4>1 DEF IInv, OwnPage
        <4>3. y.at \in UnderWay => y.began = req[r].began
          BY <1>1, <2>1, <2>3, <4>1 DEF OwnPage, Busy
        <4>4. y.at \in UnderWay /\ access' # 0 =>
                 access' = access \/ issued'[access'] = y.began
          BY <2>1, <4>3
        <4>5. Own(y)'
          BY <1>1, <2>1, <4>2, <4>4, OwnStays
        <4>6. QED
          BY <4>2, <4>5 DEF Own
      <3>3. QED
        BY <3>1, <3>2
    <2>7. QED
      BY <2>4, <2>5, <2>6 DEF OwnPage
  <1>7. QED
    BY <1>2, <1>3, <1>4, <1>5, <1>6 DEF IInv
-----------------------------------------------------------------------------
(* What is known of a query that is under way. *)
LEMMA Asked ==
    ASSUME IInv, NEW r \in Busy
    PROVE  /\ r \in Requests /\ req[r] \in RequestStates /\ Sound(req[r])
           /\ req \in [Requests -> RequestStates]
           /\ aged <= known /\ req[r].at \in UnderWay
           /\ ~crossed => Own(req[r])
           /\ Len(issued) \in Nat /\ aged \in Nat /\ logins \in Nat /\ over \in Nat
           /\ access \in 0..Len(issued) /\ session \in 0..logins /\ known \in Nat
           /\ issued \in Seq(1..MaxSessions)
           /\ req[r].began \in 1..logins
  <1>1. TypeOK /\ r \in Requests /\ req[r].at \in UnderWay /\ Sound(req[r])
    BY DEF IInv, Busy
  <1>2. req[r].began \in 1..logins
    BY <1>1 DEF Sound, UnderWay
  <1>3. QED
    BY <1>1, <1>2, Numbers DEF IInv, Clock, OwnPage, TypeOK

LEMMA BusyWhen ==
    ASSUME IInv, NEW r \in Requests, req[r].at \in UnderWay PROVE r \in Busy
  BY DEF Busy

(* Only the query changes, to another point of its way. *)
LEMMA MovesFacts ==
    ASSUME IInv, NEW r \in Busy,
           NEW at \in UnderWay \cup {"loaded", "rejected", "lost"}, Moves(r, at)
    PROVE  \E x \in RequestStates :
              /\ x.at = at /\ x.began = req[r].began /\ x.token = req[r].token
              /\ x.refresh = req[r].refresh /\ x.retried = req[r].retried
              /\ req' = [req EXCEPT ![r] = x]
  <1>1. req[r] \in RequestStates /\ req \in [Requests -> RequestStates]
    BY Asked
  <1>2. [req[r] EXCEPT !.at = at] \in RequestStates
    BY <1>1 DEF RequestStates, UnderWay
  <1>3. QED
    BY <1>1, <1>2 DEF Moves, RequestStates

LEMMA ServeInv ==
    ASSUME IInv, NEW r \in Requests, Serve(r) PROVE IInv'
  <1>1. r \in Busy /\ req[r].at = "sent"
    BY DEF Serve, Busy, UnderWay
  <1>2. PICK at \in {"loaded", "unauthorized"} :
          Moves(r, at) /\ (at = "loaded" <=> Live(req[r].token))
    BY DEF Serve
  <1>3. PICK x \in RequestStates :
          /\ x.at = at /\ x.began = req[r].began /\ x.token = req[r].token
          /\ x.retried = req[r].retried /\ req' = [req EXCEPT ![r] = x]
    BY <1>1, <1>2, MovesFacts DEF UnderWay
  <1>4. UNCHANGED <<gateway, page, history>>
    BY DEF Serve
  <1>5. ReqStep(r, x)
    BY <1>1, <1>3, <1>4, Asked DEF ReqStep, gateway, page, history
  <1>6. Sound(req[r]) /\ x.token \in Nat
    BY <1>1, Asked DEF RequestStates
  <1>7. Sound(x)'
    <2>1. at = "loaded" => x.token # 0
      BY <1>1, <1>2, <1>3, <1>6, Asked DEF Live
    <2>2. at = "unauthorized" /\ x.retried => session # x.began
      BY <1>1, <1>2, <1>3, <1>6, Asked DEF Live, Sound
    <2>3. x.token <= Len(issued) /\ x.began \in 1..logins
      BY <1>1, <1>3, <1>6, Asked DEF Sound
    <2>4. QED
      BY <1>3, <1>4, <2>1, <2>2, <2>3 DEF Sound, gateway, page, history
  <1>8. ASSUME ~crossed PROVE Own(x)'
    <2>1. Own(req[r])
      BY <1>1, <1>8, Asked
    <2>2. QED
      BY <1>1, <1>3, <1>4, <2>1 DEF Own, gateway, page, history, UnderWay
  <1>9. x.at \in {"sent", "unauthorized", "refreshing"} /\ ~x.retried => r \in Fresh
    BY <1>1, <1>3 DEF Fresh
  <1>10. access' = access
    BY <1>4 DEF page
  <1>11. QED
    BY <1>1, <1>3, <1>5, <1>7, <1>8, <1>9, <1>10, ReqInv

LEMMA UnauthorizedInv ==
    ASSUME IInv, NEW r \in Requests, Unauthorized(r) PROVE IInv'
  <1>1. r \in Busy /\ req[r].at = "unauthorized"
    BY DEF Unauthorized, Busy, UnderWay
  <1>2. UNCHANGED <<gateway, page, history>>
    BY DEF Unauthorized
  <1>3. PICK x \in RequestStates :
          /\ x.began = req[r].began /\ x.token = req[r].token
          /\ x.retried = req[r].retried /\ req' = [req EXCEPT ![r] = x]
          /\ \/ /\ x.at = "refreshing" /\ x.refresh = session
                /\ session # 0 /\ ~x.retried
             \/ x.at = "rejected"
    <2>1. CASE ~req[r].retried /\ session # 0
      <3>1. req' = [req EXCEPT ![r] = [req[r] EXCEPT !.at = "refreshing",
                                                     !.refresh = session]]
        BY <1>1, <2>1, Asked DEF Unauthorized
      <3>2. req[r] \in RequestStates /\ session \in 0..MaxSessions
        <4>1. session \in 0..logins /\ logins \in 0..MaxSessions
          BY DEF IInv, TypeOK
        <4>2. MaxSessions \in Nat
          BY PortalAssumption
        <4>3. QED
          BY <1>1, <4>1, <4>2, Asked
      <3>3. [req[r] EXCEPT !.at = "refreshing", !.refresh = session] \in RequestStates
        BY <3>2 DEF RequestStates, UnderWay
      <3>4. QED
        BY <2>1, <3>1, <3>2, <3>3 DEF RequestStates
    <2>2. CASE ~(~req[r].retried /\ session # 0)
      BY <1>1, <2>2, MovesFacts DEF Unauthorized
    <2>3. QED
      BY <2>1, <2>2
  <1>4. ReqStep(r, x)
    BY <1>1, <1>2, <1>3, Asked DEF ReqStep, gateway, page, history
  <1>5. Sound(x)'
    <2>1. x.token <= Len(issued) /\ x.began \in 1..logins /\ session \in 0..logins
          /\ logins \in Nat
      BY <1>1, <1>3, Asked DEF Sound
    <2>2. QED
      BY <1>2, <1>3, <2>1 DEF Sound, gateway, page, history
  <1>6. ASSUME ~crossed PROVE Own(x)'
    <2>1. Own(req[r]) /\ req[r].at \in UnderWay
      BY <1>1, <1>6, Asked
    <2>2. QED
      BY <1>2, <1>3, <2>1 DEF Own, gateway, page, history, UnderWay
  <1>7. x.at \in {"sent", "unauthorized", "refreshing"} /\ ~x.retried => r \in Fresh
    BY <1>1, <1>3 DEF Fresh
  <1>8. access' = access
    BY <1>2 DEF page
  <1>9. QED
    BY <1>1, <1>3, <1>4, <1>5, <1>6, <1>7, <1>8, ReqInv

LEMMA RefreshInv ==
    ASSUME IInv, NEW r \in Requests, Refresh(r) PROVE IInv'
  <1>1. /\ r \in Busy /\ r \in Fresh /\ req[r].at = "refreshing"
        /\ req[r].refresh \in 1..logins /\ ~req[r].retried
    BY DEF Refresh, Busy, Fresh, UnderWay, IInv, Sound
  <1>2. UNCHANGED <<aged, logins, over, page, history>>
    BY DEF Refresh
  <1>3. CASE /\ issued' = Append(issued, req[r].refresh)
             /\ req' = [req EXCEPT ![r].at = "granted", ![r].token = Len(issued) + 1]
    <2>1. req[r].refresh \in 1..MaxSessions
      BY <1>1, PortalAssumption DEF IInv, TypeOK
    <2>2. /\ issued' \in Seq(1..MaxSessions) /\ Len(issued') = Len(issued) + 1
          /\ \A i \in 1..Len(issued) : issued'[i] = issued[i]
          /\ issued'[Len(issued) + 1] = req[r].refresh
      BY <1>1, <1>3, <2>1, Asked
    <2>3. Len(issued) + 1 <= MaxTokens
      <3>1. Cardinality(Fresh) \in Nat /\ Cardinality(Fresh) # 0
        BY <1>1, Sizes, FS_EmptySet
      <3>2. Counted /\ logins \in 0..MaxSessions /\ MaxSessions \in Nat
            /\ MaxTokens \in Nat /\ Len(issued) \in Nat
        BY Numbers DEF IInv, TypeOK
      <3>3. QED
        BY <3>1, <3>2 DEF Counted
    <2>4. PICK x \in RequestStates :
            /\ x.at = "granted" /\ x.began = req[r].began
            /\ x.token = Len(issued) + 1 /\ req' = [req EXCEPT ![r] = x]
      <3>1. req[r] \in RequestStates /\ Len(issued) + 1 \in 0..MaxTokens
        BY <1>1, <2>3, Asked, PortalAssumption
      <3>2. [req[r] EXCEPT !.at = "granted", !.token = Len(issued) + 1]
              \in RequestStates
        BY <3>1 DEF RequestStates, UnderWay
      <3>3. req' = [req EXCEPT ![r] = [req[r] EXCEPT !.at = "granted",
                                                     !.token = Len(issued) + 1]]
        BY <1>1, <1>3, Asked
      <3>4. QED
        BY <3>1, <3>2, <3>3 DEF RequestStates
    <2>5. ReqStep(r, x)
      BY <1>1, <1>2, <2>2, <2>4, Asked DEF ReqStep, page, history
    <2>6. Sound(x)'
      <3>1. known <= Len(issued) /\ x.began \in 1..logins
        BY <1>1, <2>4, Numbers, Asked DEF IInv, TypeOK
      <3>2. QED
        BY <1>1, <1>2, <2>2, <2>4, <3>1, Asked DEF Sound, page, history
    <2>7. ASSUME ~crossed PROVE Own(x)'
      <3>1. Own(req[r]) /\ req[r].at \in UnderWay
        BY <1>1, <2>7, Asked
      <3>2. issued'[x.token] = x.began
        BY <1>1, <2>2, <2>4, <3>1 DEF Own
      <3>3. access # 0 => issued'[access] = x.began
        BY <1>1, <2>2, <2>4, <3>1, Asked DEF Own
      <3>4. session \in {0, x.began}
        BY <2>4, <3>1 DEF Own
      <3>5. QED
        BY <1>2, <2>4, <3>2, <3>3, <3>4 DEF Own, page
    <2>8. access' = access
      BY <1>2 DEF page
    <2>9. QED
      BY <1>1, <2>4, <2>5, <2>6, <2>7, <2>8, ReqInv
  <1>4. ASSUME NEW at \in {"denied", "unavailable"}, Moves(r, at),
               issued' = issued, at = "denied" => ~Renewable(req[r].refresh)
        PROVE  IInv'
    <2>1. PICK x \in RequestStates :
            /\ x.at = at /\ x.began = req[r].began /\ x.token = req[r].token
            /\ x.refresh = req[r].refresh /\ req' = [req EXCEPT ![r] = x]
      BY <1>1, <1>4, MovesFacts DEF UnderWay
    <2>2. ReqStep(r, x)
      BY <1>1, <1>2, <1>4, <2>1, Asked DEF ReqStep, page, history
    <2>3. Sound(x)'
      <3>1. at = "denied" => x.refresh \in 1..over
        BY <1>1, <1>4, <2>1, Asked DEF Renewable
      <3>2. x.token <= Len(issued) /\ x.began \in 1..logins
        BY <1>1, <2>1, Asked DEF Sound
      <3>3. QED
        BY <1>2, <1>4, <2>1, <3>1, <3>2 DEF Sound, page, history
    <2>4. ASSUME ~crossed PROVE Own(x)'
      <3>1. Own(req[r]) /\ req[r].at \in UnderWay
        BY <1>1, <2>4, Asked
      <3>2. QED
        BY <1>2, <1>4, <2>1, <3>1 DEF Own, page, UnderWay
    <2>5. access' = access
      BY <1>2 DEF page
    <2>6. QED
      BY <1>1, <1>4, <2>1, <2>2, <2>3, <2>4, <2>5, ReqInv
  <1>5. QED
    BY <1>3, <1>4 DEF Refresh

LEMMA GrantedInv ==
    ASSUME IInv, NEW r \in Requests, Granted(r) PROVE IInv'
  <1>1. r \in Busy /\ req[r].at = "granted"
    BY DEF Granted, Busy, UnderWay
  <1>2. UNCHANGED <<gateway, session, history>> /\ access' = req[r].token
    BY DEF Granted
  <1>3. PICK x \in RequestStates :
          /\ x.at = "retry" /\ x.began = req[r].began /\ x.token = req[r].token
          /\ req' = [req EXCEPT ![r] = x]
    BY <1>1, MovesFacts DEF Granted, UnderWay
  <1>4. /\ req[r].token \in 0..Len(issued) /\ req[r].token > known
        /\ x.token <= Len(issued) /\ x.began \in 1..logins
    BY <1>1, <1>3, Asked, Numbers DEF Sound, IInv
  <1>5. ReqStep(r, x)
    BY <1>1, <1>2, <1>3, <1>4, Asked DEF ReqStep, gateway, history
  <1>6. Sound(x)'
    BY <1>2, <1>3, <1>4 DEF Sound, gateway, history
  <1>7. ASSUME ~crossed PROVE Own(x)' /\ (access' # 0 => issued'[access'] = req[r].began)
    <2>1. Own(req[r]) /\ req[r].at \in UnderWay
      BY <1>1, <1>7, Asked
    <2>2. QED
      BY <1>1, <1>2, <1>3, <2>1 DEF Own, gateway
  <1>8. access' = 0 \/ access' # 0
    OBVIOUS
  <1>9. QED
    BY <1>1, <1>3, <1>5, <1>6, <1>7, <1>8, ReqInv

LEMMA RetryInv ==
    ASSUME IInv, NEW r \in Requests, Retry(r) PROVE IInv'
  <1>1. r \in Busy /\ req[r].at = "retry"
    BY DEF Retry, Busy, UnderWay
  <1>2. UNCHANGED <<gateway, page, history>>
    BY DEF Retry
  <1>3. PICK x \in RequestStates :
          /\ x.at = "sent" /\ x.began = req[r].began /\ x.token = access
          /\ x.retried /\ req' = [req EXCEPT ![r] = x]
    <2>1. access \in 0..MaxTokens
      BY PortalAssumption, Numbers DEF IInv, TypeOK
    <2>2. req[r] \in RequestStates /\ req \in [Requests -> RequestStates]
      BY <1>1, Asked
    <2>3. Attempt([req[r] EXCEPT !.retried = TRUE]) \in RequestStates
      BY <2>1, <2>2 DEF Attempt, RequestStates, UnderWay
    <2>4. req' = [req EXCEPT ![r] = Attempt([req[r] EXCEPT !.retried = TRUE])]
      BY DEF Retry
    <2>5. QED
      BY <2>2, <2>3, <2>4 DEF Attempt, RequestStates
  <1>4. ReqStep(r, x)
    BY <1>1, <1>2, <1>3, Asked DEF ReqStep, gateway, page, history
  <1>5. Sound(x)'
    <2>1. access <= Len(issued) /\ x.began \in 1..logins
      BY <1>1, <1>3, Asked
    <2>2. session = x.began => access > known
      BY <1>1, <1>3, Asked DEF Sound
    <2>3. QED
      BY <1>2, <1>3, <2>1, <2>2 DEF Sound, gateway, page, history
  <1>6. ASSUME ~crossed PROVE Own(x)'
    <2>1. Own(req[r]) /\ req[r].at \in UnderWay
      BY <1>1, <1>6, Asked
    <2>2. QED
      BY <1>1, <1>2, <1>3, <2>1 DEF Own, gateway, page, UnderWay
  <1>7. access' = access
    BY <1>2 DEF page
  <1>8. QED
    BY <1>1, <1>3, <1>4, <1>5, <1>6, <1>7, ReqInv

LEMMA DeniedInv ==
    ASSUME IInv, NEW r \in Requests, Denied(r) PROVE IInv'
  <1>1. r \in Busy /\ req[r].at \in {"denied", "unavailable"}
    BY DEF Denied, Busy, UnderWay
  <1>2. UNCHANGED <<gateway, history>> /\ access' = 0 /\ session' = 0
    BY DEF Denied, ClearToken
  <1>3. PICK x \in RequestStates :
          /\ x.at = "rejected" /\ x.began = req[r].began /\ x.token = req[r].token
          /\ req' = [req EXCEPT ![r] = x]
    BY <1>1, MovesFacts DEF Denied, UnderWay
  <1>4. Sound(x)'
    <2>1. x.token <= Len(issued) /\ x.began \in 1..logins
      BY <1>1, <1>3, Asked DEF Sound
    <2>2. QED
      BY <1>2, <1>3, <2>1 DEF Sound, gateway
  <1>5. Own(x)'
    BY <1>3 DEF Own, UnderWay
  <1>6. ReqStep(r, x)
    BY <1>1, <1>2, <1>3, Asked DEF ReqStep, gateway, history
  <1>7. QED
    BY <1>1, <1>2, <1>3, <1>4, <1>5, <1>6, ReqInv

LEMMA ConnectionFailsInv ==
    ASSUME IInv, NEW r \in Requests, ConnectionFails(r) PROVE IInv'
  <1>1. r \in Busy
    BY DEF ConnectionFails
  <1>2. UNCHANGED <<gateway, page, history>>
    BY DEF ConnectionFails
  <1>3. PICK x \in RequestStates :
          /\ x.at = "lost" /\ x.began = req[r].began /\ x.token = req[r].token
          /\ req' = [req EXCEPT ![r] = x]
    BY <1>1, MovesFacts DEF ConnectionFails, UnderWay
  <1>4. ReqStep(r, x)
    BY <1>1, <1>2, <1>3, Asked DEF ReqStep, gateway, page, history
  <1>5. Sound(x)'
    <2>1. x.token <= Len(issued) /\ x.began \in 1..logins
      BY <1>1, <1>3, Asked DEF Sound
    <2>2. QED
      BY <1>2, <1>3, <2>1 DEF Sound, gateway
  <1>6. Own(x)'
    BY <1>3 DEF Own, UnderWay
  <1>7. access' = access
    BY <1>2 DEF page
  <1>8. QED
    BY <1>1, <1>3, <1>4, <1>5, <1>6, <1>7, ReqInv

(* A page asks: it is signed in, and its query is the first or is of the   *)
(* same session as the others.                                             *)
LEMMA AskInv ==
    ASSUME IInv, NEW r \in Requests, Ask(r) PROVE IInv'
  <1>1. /\ session # 0 /\ r \notin Busy /\ Room /\ TypeOK
        /\ UNCHANGED <<gateway, page, crossed>>
        /\ known' = (IF Busy = {} THEN Len(issued) ELSE known)
    BY DEF Ask, IInv
  <1>2. /\ Len(issued) \in Nat /\ aged \in 0..Len(issued)
        /\ session \in 1..logins /\ access \in 0..Len(issued)
        /\ logins \in 0..MaxSessions /\ MaxSessions \in Nat /\ MaxTokens \in Nat
        /\ Len(issued) <= MaxTokens /\ known \in 0..Len(issued) /\ over \in Nat
    BY <1>1, Numbers DEF TypeOK
  <1>3. PICK x \in RequestStates :
          /\ x.at = "sent" /\ x.began = session /\ x.token = access
          /\ ~x.retried /\ req' = [req EXCEPT ![r] = x]
    <2>1. session \in 0..MaxSessions /\ access \in 0..MaxTokens /\ 0 \in 0..MaxSessions
      BY <1>2
    <2>2. NewRequest \in RequestStates /\ ~NewRequest.retried
      BY <2>1, PortalAssumption DEF NewRequest, RequestStates
    <2>3. PICK n \in RequestStates :
            n = [NewRequest EXCEPT !.began = session] /\ n.began = session /\ ~n.retried
      <3>1. [NewRequest EXCEPT !.began = session] \in RequestStates
        BY <2>1, <2>2 DEF RequestStates
      <3>2. /\ [NewRequest EXCEPT !.began = session].began = session
            /\ [NewRequest EXCEPT !.began = session].retried = NewRequest.retried
        BY <2>2 DEF RequestStates
      <3>3. QED
        BY <2>2, <3>1, <3>2
    <2>4. /\ Attempt(n) \in RequestStates /\ Attempt(n).at = "sent"
          /\ Attempt(n).began = session /\ Attempt(n).token = access
          /\ ~Attempt(n).retried
      BY <2>1, <2>3 DEF Attempt, RequestStates, UnderWay
    <2>5. req' = [req EXCEPT ![r] = Attempt(n)]
      BY <2>3 DEF Ask
    <2>6. QED
      BY <2>4, <2>5
  <1>4. /\ req \in [Requests -> RequestStates] /\ req' \in [Requests -> RequestStates]
        /\ req'[r] = x /\ \A q \in Requests : q # r => req'[q] = req[q]
    BY <1>1, <1>3 DEF TypeOK
  <1>5. Busy' = Busy \cup {r}
    BY <1>3, <1>4 DEF Busy, UnderWay
  <1>6. known' \in 0..Len(issued) /\ known <= known'
    BY <1>1, <1>2
  <1>7. TypeOK'
    BY <1>1, <1>2, <1>4, <1>6 DEF TypeOK, gateway, page
  <1>8. Counted'
    <2>1. Fresh' \subseteq Busy \cup {r}
      BY <1>4 DEF Fresh, Busy, UnderWay
    <2>2. IsFiniteSet(Busy) /\ Cardinality(Busy) \in Nat
      BY Sizes
    <2>3. /\ IsFiniteSet(Busy \cup {r})
          /\ Cardinality(Busy \cup {r}) = Cardinality(Busy) + 1
      BY <1>1, <2>2, FS_AddElement
    <2>4. Cardinality(Fresh') \in Nat /\ Cardinality(Fresh') <= Cardinality(Busy) + 1
      BY <2>1, <2>3, FS_Subset, FS_CardinalityType
    <2>5. QED
      BY <1>1, <1>2, <2>2, <2>4 DEF Room, Counted, gateway
  <1>9. Clock'
    BY <1>1, <1>2 DEF IInv, Clock, gateway
  <1>10. ASSUME NEW q \in Requests PROVE Sound(req[q])'
    <2>1. CASE q = r
      BY <1>1, <1>2, <1>3, <1>4, <2>1 DEF Sound, gateway, page
    <2>2. CASE q # r
      <3>1. Sound(req[q]) /\ req'[q] = req[q]
        BY <1>4, <2>2 DEF IInv
      <3>2. CASE Busy = {}
        BY <1>1, <3>1, <3>2 DEF Sound, Busy, UnderWay, gateway, page
      <3>3. CASE Busy # {}
        BY <1>1, <3>1, <3>3 DEF Sound, gateway, page
      <3>4. QED
        BY <3>2, <3>3
    <2>3. QED
      BY <2>1, <2>2
  <1>11. ASSUME ~crossed' PROVE OwnPage'
    <2>1. OwnPage
      BY <1>1, <1>11 DEF IInv
    <2>2. access # 0 => issued[access] = session
      BY <1>1, <2>1 DEF OwnPage
    <2>3. \A q \in Busy : req[q].began = session
      BY <1>1, <2>1 DEF OwnPage, Own, Busy
    <2>4. ASSUME NEW p \in Busy', NEW q \in Busy' PROVE req'[p].began = req'[q].began
      <3>1. \A s \in Busy \cup {r} : req'[s].began = session
        BY <1>3, <1>4, <2>3 DEF Busy
      <3>2. QED
        BY <1>5, <3>1
    <2>5. ASSUME NEW q \in Requests PROVE Own(req[q])'
      <3>1. CASE q = r
        BY <1>1, <1>3, <1>4, <2>2, <3>1 DEF Own, gateway, page
      <3>2. CASE q # r
        <4>1. Own(req[q]) /\ req'[q] = req[q]
          BY <1>4, <2>1, <3>2 DEF OwnPage
        <4>2. QED
          BY <1>1, <4>1 DEF Own, gateway, page
      <3>3. QED
        BY <3>1, <3>2
    <2>6. QED
      BY <1>1, <2>2, <2>4, <2>5 DEF OwnPage, gateway, page
  <1>12. QED
    BY <1>7, <1>8, <1>9, <1>10, <1>11 DEF IInv

LEMMA LoginInv == ASSUME IInv, Login PROVE IInv'
  <1>1. /\ logins < MaxSessions /\ logins' = logins + 1
        /\ issued' = Append(issued, logins + 1)
        /\ access' = Len(issued) + 1 /\ session' = logins + 1
        /\ crossed' = (crossed \/ Busy # {})
        /\ UNCHANGED <<aged, over, req, known>> /\ TypeOK
    BY DEF Login, SetSession, IInv
  <1>2. /\ Len(issued) \in Nat /\ logins \in 0..MaxSessions /\ MaxSessions \in Nat
        /\ MaxTokens \in Nat /\ over \in 0..logins /\ aged \in 0..Len(issued)
        /\ known \in 0..Len(issued) /\ issued \in Seq(1..MaxSessions)
    BY <1>1, Numbers DEF TypeOK
  <1>3. logins + 1 \in 1..MaxSessions
    BY <1>1, <1>2
  <1>4. /\ issued' \in Seq(1..MaxSessions) /\ Len(issued') = Len(issued) + 1
        /\ \A i \in 1..Len(issued) : issued'[i] = issued[i]
        /\ issued'[Len(issued) + 1] = logins + 1
    BY <1>1, <1>2, <1>3
  <1>5. Fresh' = Fresh /\ Busy' = Busy
    BY <1>1 DEF Fresh, Busy
  <1>6. Cardinality(Fresh) \in Nat
    BY Sizes
  <1>7. Counted' /\ Len(issued') <= MaxTokens
    BY <1>1, <1>2, <1>4, <1>5, <1>6 DEF IInv, Counted
  <1>8. TypeOK'
    BY <1>1, <1>2, <1>4, <1>7 DEF TypeOK
  <1>9. Clock'
    BY <1>1, <1>5 DEF IInv, Clock
  <1>10. Grows /\ PageMoves
    BY <1>1, <1>2, <1>4 DEF Grows, PageMoves
  <1>11. ASSUME NEW r \in Requests PROVE Sound(req[r])'
    <2>1. PICK y \in RequestStates : y = req[r]
      BY <1>1 DEF TypeOK
    <2>2. Sound(y) /\ req'[r] = y
      BY <1>1, <2>1 DEF IInv
    <2>3. Sound(y)'
      BY <1>1, <1>10, <2>2, SoundStays
    <2>4. QED
      BY <2>2, <2>3 DEF Sound
  <1>12. ASSUME ~crossed' PROVE OwnPage'
    <2>1. ~crossed /\ Busy = {} /\ OwnPage
      BY <1>1, <1>12 DEF IInv
    <2>2. ASSUME NEW r \in Requests PROVE Own(req[r])'
      <3>1. PICK y \in RequestStates : y = req[r]
        BY <1>1 DEF TypeOK
      <3>2. Sound(y) /\ Own(y) /\ req'[r] = y /\ y.at \notin UnderWay
        BY <1>1, <2>1, <3>1 DEF IInv, OwnPage, Busy
      <3>3. Own(y)'
        BY <1>1, <1>10, <3>2, OwnStays
      <3>4. QED
        BY <3>2, <3>3 DEF Own
    <2>3. QED
      BY <1>1, <1>4, <1>5, <2>1, <2>2 DEF OwnPage
  <1>13. QED
    BY <1>7, <1>8, <1>9, <1>11, <1>12 DEF IInv

(* A step of the user or of time that concerns no query. *)
Aside ==
    /\ UNCHANGED <<issued, logins, req, history>>
    /\ access' \in {0, access} /\ session' \in {0, session}
    /\ session' # 0 => access' = access
    /\ aged' \in 0..Len(issued) /\ over' \in 0..logins /\ over <= over'
    /\ Busy # {} => aged' <= known

LEMMA AsideInv == ASSUME IInv, Aside PROVE IInv'
  <1>1. TypeOK /\ UNCHANGED <<issued, logins, req, known, crossed>>
    BY DEF IInv, Aside, history
  <1>2. /\ Len(issued) \in Nat /\ access \in 0..Len(issued) /\ session \in 0..logins
        /\ logins \in 0..MaxSessions /\ over \in Nat /\ over' \in Nat
        /\ issued \in Seq(1..MaxSessions) /\ MaxSessions \in Nat
    BY <1>1, Numbers DEF TypeOK, Aside
  <1>3. TypeOK'
    BY <1>1, <1>2 DEF TypeOK, Aside
  <1>4. Fresh' = Fresh /\ Busy' = Busy
    BY <1>1 DEF Fresh, Busy
  <1>5. Counted' /\ Clock'
    BY <1>1, <1>4 DEF IInv, Counted, Clock, Aside
  <1>6. Grows /\ PageMoves
    BY <1>1, <1>2 DEF Grows, PageMoves, Aside
  <1>7. ASSUME NEW r \in Requests PROVE Sound(req[r])'
    <2>1. PICK y \in RequestStates : y = req[r]
      BY <1>1 DEF TypeOK
    <2>2. Sound(y) /\ req'[r] = y
      BY <1>1, <2>1 DEF IInv
    <2>3. Sound(y)'
      BY <1>1, <1>6, <2>2, SoundStays
    <2>4. QED
      BY <2>2, <2>3 DEF Sound
  <1>8. ASSUME ~crossed' PROVE OwnPage'
    <2>1. OwnPage
      BY <1>1, <1>8 DEF IInv
    <2>2. ASSUME NEW r \in Requests PROVE Own(req[r])'
      <3>1. PICK y \in RequestStates : y = req[r]
        BY <1>1 DEF TypeOK
      <3>2. Sound(y) /\ Own(y) /\ req'[r] = y
        BY <1>1, <2>1, <3>1 DEF IInv, OwnPage
      <3>3. access' # 0 => access' = access
        BY DEF Aside
      <3>4. session' \in {0, session}
        BY DEF Aside
      <3>5. Own(y)'
        BY <1>1, <1>6, <3>2, <3>3, <3>4, OwnStays
      <3>6. QED
        BY <3>2, <3>5 DEF Own
    <2>3. session' # 0 /\ access' # 0 => issued'[access'] = session'
      BY <1>1, <2>1 DEF OwnPage, Aside
    <2>4. QED
      BY <1>1, <1>4, <2>1, <2>2, <2>3 DEF OwnPage
  <1>9. QED
    BY <1>3, <1>5, <1>7, <1>8 DEF IInv

LEMMA NextInv == IInv /\ [Next]_vars => IInv'
  <1> SUFFICES ASSUME IInv, [Next]_vars PROVE IInv'
    OBVIOUS
  <1>1. /\ aged \in 0..Len(issued) /\ over \in 0..logins /\ Len(issued) \in Nat
        /\ logins \in Nat /\ known \in Nat /\ (Busy # {} => aged <= known)
    BY Numbers DEF IInv, TypeOK, Clock
  <1>2. CASE Login
    BY <1>2, LoginInv
  <1>3. CASE Logout
    <2>1. Aside
      BY <1>1, <1>3 DEF Logout, ClearToken, Aside, gateway, history
    <2>2. QED
      BY <2>1, AsideInv
  <1>4. CASE AccessExpires
    <2>1. Aside
      BY <1>1, <1>4 DEF AccessExpires, Aside, page, history
    <2>2. QED
      BY <2>1, AsideInv
  <1>5. CASE RefreshExpires
    <2>1. Aside
      BY <1>1, <1>5 DEF RefreshExpires, Aside, page, history
    <2>2. QED
      BY <2>1, AsideInv
  <1>6. ASSUME NEW r \in Requests, Ask(r) \/ Progress(r) \/ ConnectionFails(r)
        PROVE  IInv'
    BY <1>6, AskInv, ServeInv, UnauthorizedInv, RefreshInv, GrantedInv, RetryInv,
       DeniedInv, ConnectionFailsInv DEF Progress
  <1>7. CASE UNCHANGED vars
    <2>1. Aside
      BY <1>1, <1>7 DEF vars, Aside, history
    <2>2. QED
      BY <2>1, AsideInv
  <1>8. QED
    BY <1>2, <1>3, <1>4, <1>5, <1>6, <1>7 DEF Next

(* The bookkeeping of tokens and sessions holds in every reachable state. *)
THEOREM Invariance == Spec => []IInv
  <1>1. QED
    BY InitInv, NextInv, PTL DEF Spec

(* The variables hold values of their types. *)
THEOREM TypeCorrectness == Spec => []TypeOK
  <1>1. IInv => TypeOK
    BY DEF IInv
  <1>2. QED
    BY <1>1, Invariance, PTL

(***************************************************************************)
(* Answers are of the session that asked, for any number of queries that   *)
(* refresh at once (client.ts: authedFetch; session.go: refresh).          *)
(***************************************************************************)
THEOREM AnswersAreOwn == Spec => []OwnData
  <1>1. IInv => OwnData
    BY DEF IInv, OwnData, OwnPage, Own, Sound
  <1>2. QED
    BY <1>1, Invariance, PTL
-----------------------------------------------------------------------------
(* What becomes of a query in a step that is not its own. *)
LEMMA Rejections ==
    ASSUME IInv, [Next]_vars, NEW r \in Requests, IsRejected(r)
    PROVE  Unauthorized(r) \/ Denied(r)
  <1>1. /\ req \in [Requests -> RequestStates]
        /\ req[r].at # "rejected" /\ req'[r].at = "rejected"
    BY DEF IInv, TypeOK, IsRejected
  <1>2. ~UNCHANGED req
    BY <1>1
  <1>3. PICK q \in Requests : Ask(q) \/ Progress(q) \/ ConnectionFails(q)
    BY <1>2 DEF Next, Login, Logout, AccessExpires, RefreshExpires, vars
  <1>4. PICK x : req' = [req EXCEPT ![q] = x]
    BY <1>1, <1>3 DEF Ask, Progress, Serve, Unauthorized, Refresh, Granted, Retry,
                      Denied, ConnectionFails, Moves
  <1>5. q = r
    BY <1>1, <1>4
  <1>6. ~Ask(r) /\ ~Serve(r) /\ ~Refresh(r) /\ ~Granted(r) /\ ~Retry(r)
        /\ ~ConnectionFails(r)
    BY <1>1 DEF Ask, Attempt, NewRequest, Serve, Refresh, Granted, Retry,
                ConnectionFails, Moves, RequestStates
  <1>7. QED
    BY <1>3, <1>5, <1>6 DEF Progress

(***************************************************************************)
(* A query ends in a 401 only if the session it was asked in is no longer  *)
(* the page's (client.ts: authedFetch refreshes once and retries).         *)
(***************************************************************************)
THEOREM ExpiryIsInvisible == Spec => StaysSignedIn
  <1>1. ASSUME IInv, [Next]_vars, NEW r \in Requests, IsRejected(r)
        PROVE  session' # req[r].began
    <2>1. CASE Unauthorized(r)
      <3>1. req[r].at = "unauthorized" /\ session' = session /\ r \in Busy
        BY <2>1 DEF Unauthorized, page, Busy, UnderWay
      <3>2. req[r].retried \/ session = 0
        <4>1. CASE ~req[r].retried /\ session # 0
          <5>1. req' = [req EXCEPT ![r] = [req[r] EXCEPT !.at = "refreshing",
                                                         !.refresh = session]]
            BY <1>1, <2>1, <3>1, <4>1, Asked DEF Unauthorized
          <5>2. req[r] \in RequestStates /\ req \in [Requests -> RequestStates]
            BY <1>1, <3>1, Asked
          <5>3. req'[r].at = "refreshing"
            BY <5>1, <5>2 DEF RequestStates
          <5>4. QED
            BY <1>1, <5>3 DEF IsRejected
        <4>2. QED
          BY <1>1, <3>1, <4>1, Asked DEF RequestStates
      <3>3. req[r].began \in 1..logins /\ (req[r].retried => session # req[r].began)
        BY <1>1, <3>1, Asked DEF Sound
      <3>4. QED
        BY <3>1, <3>2, <3>3
    <2>2. CASE Denied(r)
      <3>1. session' = 0 /\ r \in Busy
        BY <2>2 DEF Denied, ClearToken, Busy, UnderWay
      <3>2. QED
        BY <1>1, <3>1, Asked
    <2>3. QED
      BY <1>1, <2>1, <2>2, Rejections
  <1>2. IInv /\ [Next]_vars =>
          [\A r \in Requests : IsRejected(r) => session' # req[r].began]_vars
    BY <1>1
  <1>3. QED
    BY <1>2, Invariance, PTL DEF Spec, StaysSignedIn

(***************************************************************************)
(* A session is ended by a query only when its refresh token is over or    *)
(* the gateway failed to answer (client.ts: clear on a failed refresh).    *)
(***************************************************************************)
THEOREM EndsWithReason == Spec => ThrownOutWhenOver
  <1>1. ASSUME IInv, [Next]_vars, NEW r \in Requests,
               IsRejected(r), session # 0, session' = 0
        PROVE  req[r].refresh \in 1..over \/ req[r].at = "unavailable"
    <2>1. CASE Unauthorized(r)
      BY <1>1, <2>1 DEF Unauthorized, page
    <2>2. CASE Denied(r)
      <3>1. req[r].at \in {"denied", "unavailable"} /\ r \in Busy
        BY <2>2 DEF Denied, Busy, UnderWay
      <3>2. QED
        BY <1>1, <3>1, Asked DEF Sound
    <2>3. QED
      BY <1>1, <2>1, <2>2, Rejections
  <1>2. IInv /\ [Next]_vars =>
          [\A r \in Requests :
              IsRejected(r) /\ session # 0 /\ session' = 0 =>
                  \/ req[r].refresh \in 1..over
                  \/ req[r].at = "unavailable"]_vars
    BY <1>1
  <1>3. QED
    BY <1>2, Invariance, PTL DEF Spec, ThrownOutWhenOver
=============================================================================

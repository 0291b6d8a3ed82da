---------------------------- MODULE BrokersProofs ----------------------------
(***************************************************************************)
(* Theorems about the access gate, whose ended sessions act no more, about *)
(* the projection of the order stream, which keeps the highest cumulative  *)
(* quantity of an order, about the broker switch, which never leaves       *)
(* exposure behind at a broker the engine no longer speaks to, and about   *)
(* paper execution, which sells a displayed quantity once.                 *)
(***************************************************************************)
EXTENDS AccessGate, FillLedgers, BrokerSwitch, PaperExecution, WellFoundedInduction,
        SequenceTheorems, TLAPS

-----------------------------------------------------------------------------
(* The access gate (accessGate.ts). *)

USE AccessAssumption

Rows == [expires : Nat, revoked : BOOLEAN, answered : BOOLEAN]
Kinds == {"none", "verify_right", "verify_wrong", "status", "logout", "mutate", "read"}
Places == {"idle", "sent", "mint", "validated", "revoke", "ran", "answered"}
Requests == [kind : Kinds, at : Places, session : Nat, cookie : Nat, csrf : Nat,
             late : BOOLEAN, live : BOOLEAN, code : Nat]

AccessShape ==
    /\ hour \in Nat /\ minted \in 0 .. MaxMints
    /\ sessions \in [SessionIds -> Rows]
    /\ jar \in [session : Nat, csrf : Nat, lapses : Nat] /\ jar.session <= minted
    /\ pageCsrf \in [Pages -> Nat]
    /\ request \in [Pages -> Requests]

(* A row whose logout was answered is revoked until the sweep takes it, and then expired. *)
AnsweredIsDead ==
    \A s \in SessionIds : sessions[s].answered => sessions[s].revoked \/ sessions[s].expires = 0

(* A request that was sent late belongs to a session that has ended, and is not taken for *)
(* a live one; a handler runs only for a live one.                                        *)
LateIsRefused(r) ==
    /\ r.session <= minted
    /\ r.late => r.session \in Ended
    /\ r.live => ~r.late
    /\ r.at = "ran" => r.live

(* The inductive invariant of the gate. *)
AccessInv == AccessShape /\ AnsweredIsDead /\ \A p \in Pages : LateIsRefused(request[p])

(* A session that has ended stays ended, through the sweep and through later mints. *)
EndedStays ==
    /\ minted <= minted'
    /\ \A s \in 1 .. minted : /\ s \in Ended => s \in Ended'

(* What the step of one page leaves: every other request as it was. *)
LEMMA PagesKept ==
    ASSUME AccessInv, AccessShape', AnsweredIsDead', EndedStays, NEW p \in Pages,
           \A q \in Pages \ {p} : request'[q] = request[q],
           LateIsRefused(request[p])'
    PROVE  AccessInv'
  <1>1. ASSUME NEW q \in Pages, q # p PROVE LateIsRefused(request[q])'
    <2>1. request'[q] = request[q] /\ LateIsRefused(request[q]) BY <1>1 DEF AccessInv
    <2>2. request[q].session \in Nat /\ minted \in Nat /\ minted' \in Nat BY <1>1 DEF AccessInv, AccessShape, Requests
    <2>3. request[q].late => request[q].session \in 1 .. minted BY <2>1, <2>2 DEF LateIsRefused, Ended
    <2>4. request[q].late => request[q].session \in Ended' BY <2>1, <2>3 DEF EndedStays, LateIsRefused
    <2>5. request[q].session <= minted' BY <2>1, <2>2 DEF EndedStays, LateIsRefused
    <2> QED BY <2>1, <2>4, <2>5 DEF LateIsRefused
  <1> QED BY <1>1 DEF AccessInv

(* The rows and the clock alone are untouched. *)
LEMMA RowsKept ==
    ASSUME AccessInv, UNCHANGED <<hour, sessions, minted>>
    PROVE  EndedStays /\ AnsweredIsDead'
  BY DEF EndedStays, AnsweredIsDead, Ended, AccessInv, AccessShape

(* An answer carries no session, so nothing of it is late or live. *)
LEMMA Answered ==
    ASSUME request \in [Pages -> Requests], NEW p \in Pages, NEW c \in 0 .. 3, AnswerWith(p, c), minted' \in Nat
    PROVE  /\ request' \in [Pages -> Requests]
           /\ \A q \in Pages \ {p} : request'[q] = request[q]
           /\ LateIsRefused(request[p])'
  <1>1. PICK r : /\ r = [NoRequest EXCEPT !.at = "answered", !.code = c,
                                       !.cookie = IF c = 3 THEN request[p].cookie ELSE 0]
                 /\ request' = [request EXCEPT ![p] = r]
    BY Zenon DEF AnswerWith
  <1>2. 0 \in Nat /\ c \in Nat /\ request[p].cookie \in Nat BY DEF Requests
  <1>3. r = [kind |-> "none", at |-> "answered", session |-> 0,
             cookie |-> IF c = 3 THEN request[p].cookie ELSE 0, csrf |-> 0,
             late |-> FALSE, live |-> FALSE, code |-> c]
    BY <1>1, Zenon DEF NoRequest
  <1>4. r \in Requests BY <1>2, <1>3 DEF Requests, Kinds, Places
  <1>5. r.session = 0 /\ ~r.late /\ ~r.live /\ r.at = "answered" BY <1>3
  <1>6. request'[p] = r /\ request' \in [Pages -> Requests] /\ \A q \in Pages \ {p} : request'[q] = request[q]
    BY <1>1, <1>4
  <1> QED BY <1>5, <1>6 DEF LateIsRefused

(* A request that goes on keeps its session and what was found out about it. *)
LEMMA Routed ==
    ASSUME request \in [Pages -> Requests], NEW p \in Pages, NEW at \in Places, Route(p, at)
    PROVE  /\ request' \in [Pages -> Requests]
           /\ \A q \in Pages \ {p} : request'[q] = request[q]
           /\ request'[p].at = at /\ request'[p].session = request[p].session
           /\ request'[p].late = request[p].late /\ request'[p].live = request[p].live
  <1>1. PICK r : r = [request[p] EXCEPT !.at = at] /\ request' = [request EXCEPT ![p] = r]
    BY Zenon DEF Route
  <1>2. request[p] \in Requests OBVIOUS
  <1>3. /\ r \in Requests /\ r.at = at /\ r.session = request[p].session
        /\ r.late = request[p].late /\ r.live = request[p].live
    BY <1>1, <1>2, Zenon DEF Requests
  <1> QED BY <1>1, <1>3

(* The gate opens with no session. *)
LEMMA AccessStarts == AccessInit => AccessInv
  <1> SUFFICES ASSUME AccessInit PROVE AccessInv
    OBVIOUS
  <1>1. NoRequest \in Requests /\ NoRequest.session = 0 /\ NoRequest.at = "idle" /\ ~NoRequest.late /\ ~NoRequest.live
    BY DEF NoRequest, Requests, Kinds, Places
  <1>2. NoRow \in Rows /\ ~NoRow.answered BY DEF NoRow, Rows
  <1>3. EmptyJar \in [session : Nat, csrf : Nat, lapses : Nat] /\ EmptyJar.session = 0 BY DEF EmptyJar
  <1>4. AccessShape BY <1>1, <1>2, <1>3 DEF AccessInit, AccessShape
  <1>5. AnsweredIsDead BY <1>2 DEF AccessInit, AnsweredIsDead
  <1>6. ASSUME NEW p \in Pages PROVE LateIsRefused(request[p])
    <2>1. request[p] = NoRequest /\ minted = 0 BY <1>6 DEF AccessInit
    <2>2. NoRequest.session <= minted BY <1>1, <2>1
    <2> QED BY <1>1, <2>1, <2>2, Zenon DEF LateIsRefused
  <1> QED BY <1>4, <1>5, <1>6 DEF AccessInv

(* A new row is put beside the others: mintSession, also when its answer is lost. *)
LEMMA Minted ==
    ASSUME AccessInv, minted < MaxMints, minted' = minted + 1, hour' = hour,
           sessions' = [sessions EXCEPT ![minted + 1] = [NoRow EXCEPT !.expires = hour + SessionTtl]]
    PROVE  /\ minted' \in 0 .. MaxMints /\ sessions' \in [SessionIds -> Rows]
           /\ EndedStays /\ AnsweredIsDead'
  <1>0. /\ hour \in Nat /\ minted \in 0 .. MaxMints /\ sessions \in [SessionIds -> Rows]
        /\ hour + SessionTtl \in Nat /\ minted + 1 \in SessionIds
    BY DEF AccessInv, AccessShape, SessionIds
  <1>1. PICK r : r = [NoRow EXCEPT !.expires = hour + SessionTtl] /\ sessions' = [sessions EXCEPT ![minted + 1] = r]
    BY Zenon
  <1>2. r \in Rows /\ ~r.answered BY <1>0, <1>1, Zenon DEF NoRow, Rows
  <1>3. /\ sessions' \in [SessionIds -> Rows]
        /\ \A s \in SessionIds : s # minted + 1 => sessions'[s] = sessions[s]
        /\ ~sessions'[minted + 1].answered
    BY <1>0, <1>1, <1>2
  <1>4. EndedStays BY <1>0, <1>3 DEF EndedStays, Ended, SessionIds
  <1>5. AnsweredIsDead' BY <1>3 DEF AnsweredIsDead, AccessInv
  <1> QED BY <1>0, <1>3, <1>4, <1>5

(* Every step of the gate refuses what is late. *)
LEMMA AccessStep == AccessInv /\ [AccessNext]_accessVars => AccessInv'
  <1> SUFFICES ASSUME AccessInv, [AccessNext]_accessVars PROVE AccessInv'
    OBVIOUS
  <1>0. /\ AccessShape /\ AnsweredIsDead
        /\ hour \in Nat /\ minted \in 0 .. MaxMints /\ sessions \in [SessionIds -> Rows]
        /\ jar \in [session : Nat, csrf : Nat, lapses : Nat] /\ jar.session <= minted
        /\ pageCsrf \in [Pages -> Nat] /\ request \in [Pages -> Requests]
        /\ \A p \in Pages : LateIsRefused(request[p])
    BY DEF AccessInv, AccessShape
  <1>p. {0, 1, 2, 3} \subseteq 0 .. 3 OBVIOUS
  (* A step of one page that leaves rows, clock and cookies alone. *)
  <1>q. ASSUME NEW p \in Pages, UNCHANGED <<hour, sessions, minted, jar, pageCsrf>>,
               request' \in [Pages -> Requests], \A q \in Pages \ {p} : request'[q] = request[q],
               LateIsRefused(request[p])'
        PROVE  AccessInv'
    <2>1. AccessShape' BY <1>0, <1>q DEF AccessShape
    <2> QED BY <1>q, <2>1, RowsKept, PagesKept
  <1>a. ASSUME NEW p \in Pages, NEW c \in 0 .. 3, AnswerWith(p, c), UNCHANGED <<hour, sessions, minted, jar, pageCsrf>>
        PROVE  AccessInv'
    BY <1>0, <1>a, <1>q, Answered
  <1>r. ASSUME NEW p \in Pages, NEW at \in Places, Route(p, at), UNCHANGED <<hour, sessions, minted, jar, pageCsrf>>,
               at = "ran" => request[p].live
        PROVE  AccessInv'
    <2>1. /\ request' \in [Pages -> Requests]
          /\ \A q \in Pages \ {p} : request'[q] = request[q]
          /\ request'[p].at = at /\ request'[p].session = request[p].session
          /\ request'[p].late = request[p].late /\ request'[p].live = request[p].live
      BY <1>0, <1>r, Routed
    <2>2. Ended' = Ended BY <1>r DEF Ended
    <2>3. LateIsRefused(request[p])' BY <1>0, <1>r, <2>1, <2>2 DEF LateIsRefused
    <2> QED BY <1>q, <1>r, <2>1, <2>3
  <1>1. ASSUME NEW p \in Pages, Send(p) PROVE AccessInv'
    <2>1. UNCHANGED <<hour, sessions, minted, jar, pageCsrf>> BY <1>1 DEF Send
    <2>0. PICK kind \in Kinds, c \in {pageCsrf[p], 0} : request' = [request EXCEPT ![p] = Request(kind, c)]
      BY <1>1, Zenon DEF Send, Kinds
    <2>2. PICK r : r = Request(kind, c) /\ request' = [request EXCEPT ![p] = r]
      BY <2>0, Zenon
    <2>3. r = [kind |-> kind, at |-> "sent", session |-> jar.session, cookie |-> jar.csrf, csrf |-> c,
               late |-> jar.session \in Ended, live |-> FALSE, code |-> 0]
      BY <2>2, Zenon DEF Request
    <2>4. c \in Nat /\ jar.session \in Nat /\ jar.csrf \in Nat /\ (jar.session \in Ended) \in BOOLEAN
      BY <1>0, <2>2
    <2>5. r \in Requests BY <2>3, <2>4 DEF Requests, Places
    <2>6. r.session = jar.session /\ (r.late => jar.session \in Ended) /\ ~r.live /\ r.at = "sent" BY <2>3
    <2>7. /\ request'[p] = r /\ request' \in [Pages -> Requests]
          /\ \A q \in Pages \ {p} : request'[q] = request[q]
      BY <1>0, <2>2, <2>5
    <2>8. Ended' = Ended BY <2>1 DEF Ended
    <2>9. LateIsRefused(request[p])' BY <1>0, <2>1, <2>6, <2>7, <2>8 DEF LateIsRefused
    <2> QED BY <1>q, <2>1, <2>7, <2>9
  <1>2. ASSUME NEW p \in Pages, Receive(p) PROVE AccessInv'
    <2>1. UNCHANGED <<hour, sessions, minted>> /\ request' = [request EXCEPT ![p] = NoRequest]
      BY <1>2 DEF Receive
    <2>2. NoRequest \in Requests /\ NoRequest.session = 0 /\ NoRequest.at = "idle" /\ ~NoRequest.late /\ ~NoRequest.live
      BY DEF NoRequest, Requests, Kinds, Places
    <2>3. request[p].session \in Nat /\ request[p].cookie \in Nat /\ hour + SessionTtl \in Nat
          /\ request[p].session <= minted
      BY <1>0 DEF Requests, LateIsRefused
    <2>4. pageCsrf' \in [Pages -> Nat]
      <3>1. PICK c \in {request[p].session, request[p].cookie, pageCsrf[p]} : pageCsrf' = [pageCsrf EXCEPT ![p] = c]
        <4>1. CASE request[p].code = 1 BY <1>2, <4>1 DEF Receive
        <4>2. CASE request[p].code = 3 BY <1>2, <4>2 DEF Receive
        <4>3. CASE request[p].code \notin {1, 3} BY <1>2, <4>3 DEF Receive
        <4> QED BY <4>1, <4>2, <4>3
      <3> QED BY <1>0, <2>3, <3>1
    <2>5. jar' \in [session : Nat, csrf : Nat, lapses : Nat] /\ jar'.session <= minted
      <3>1. \/ jar' = [session |-> request[p].session, csrf |-> request[p].session, lapses |-> hour + SessionTtl]
            \/ jar' = EmptyJar \/ jar' = jar
        <4>1. CASE request[p].code = 1 BY <1>2, <4>1 DEF Receive
        <4>2. CASE request[p].code = 2 BY <1>2, <4>2 DEF Receive
        <4>3. CASE request[p].code \notin {1, 2} BY <1>2, <4>3 DEF Receive
        <4> QED BY <4>1, <4>2, <4>3
      <3> QED BY <1>0, <2>3, <3>1 DEF EmptyJar
    <2>6. AccessShape' BY <1>0, <2>1, <2>2, <2>4, <2>5 DEF AccessShape
    <2>7. request'[p] = NoRequest /\ \A q \in Pages \ {p} : request'[q] = request[q] BY <1>0, <2>1
    <2>8. LateIsRefused(request[p])' BY <1>0, <2>1, <2>2, <2>7 DEF LateIsRefused
    <2> QED BY <2>1, <2>6, <2>7, <2>8, RowsKept, PagesKept
  <1>3. ASSUME NEW p \in Pages, Reload(p) PROVE AccessInv'
    <2>1. UNCHANGED <<hour, sessions, minted, jar, request>> /\ pageCsrf' = [pageCsrf EXCEPT ![p] = 0]
      BY <1>3 DEF Reload
    <2>2. AccessShape' BY <1>0, <2>1 DEF AccessShape
    <2>3. Ended' = Ended BY <2>1 DEF Ended
    <2>4. LateIsRefused(request[p])' BY <1>0, <2>1, <2>3 DEF LateIsRefused
    <2> QED BY <2>1, <2>2, <2>4, RowsKept, PagesKept
  <1>4. ASSUME NEW p \in Pages, VerifyArrives(p) PROVE AccessInv'
    <2>1. UNCHANGED <<hour, sessions, minted, jar, pageCsrf>> /\ (Route(p, "mint") \/ AnswerWith(p, 0))
      BY <1>4, Zenon DEF VerifyArrives
    <2> QED BY <1>a, <1>r, <2>1 DEF Places
  <1>5. ASSUME NEW p \in Pages, mintSession(p) PROVE AccessInv'
    <2>1. /\ minted < MaxMints /\ minted' = minted + 1 /\ UNCHANGED <<hour, jar, pageCsrf>>
          /\ sessions' = [sessions EXCEPT ![minted + 1] = [NoRow EXCEPT !.expires = hour + SessionTtl]]
      BY <1>5, Zenon DEF mintSession
    <2>2. minted' \in 0 .. MaxMints /\ sessions' \in [SessionIds -> Rows] /\ EndedStays /\ AnsweredIsDead'
      BY <2>1, Minted, Zenon
    <2>3. PICK r : /\ r = [NoRequest EXCEPT !.at = "answered", !.code = 1, !.session = minted + 1]
                   /\ request' = [request EXCEPT ![p] = r]
      BY <1>5, Zenon DEF mintSession
    <2>4. minted + 1 \in Nat /\ 0 \in Nat /\ 1 \in Nat BY <1>0
    <2>5. r = [kind |-> "none", at |-> "answered", session |-> minted + 1, cookie |-> 0, csrf |-> 0,
               late |-> FALSE, live |-> FALSE, code |-> 1]
      BY <2>3, Zenon DEF NoRequest
    <2>6. r \in Requests /\ r.session = minted + 1 /\ r.at = "answered" /\ ~r.late /\ ~r.live
      BY <2>4, <2>5 DEF Requests, Kinds, Places
    <2>m. minted' = minted + 1 /\ UNCHANGED <<hour, jar, pageCsrf>> BY <1>5 DEF mintSession
    <2>7. /\ request'[p] = r /\ request' \in [Pages -> Requests]
          /\ \A q \in Pages \ {p} : request'[q] = request[q]
      BY <1>0, <2>3, <2>6, Zenon
    <2>8. AccessShape'
      <3>1. jar.session <= minted + 1 BY <1>0
      <3> QED BY <1>0, <2>2, <2>7, <2>m, <3>1, Zenon DEF AccessShape
    <2>9. LateIsRefused(request[p])'
      <3>1. minted + 1 <= minted + 1 BY <1>0
      <3> QED BY <2>6, <2>7, <2>m, <3>1, Zenon DEF LateIsRefused
    <2> QED BY <2>2, <2>7, <2>8, <2>9, PagesKept, Zenon
  <1>6. ASSUME NEW p \in Pages, MintThrows(p) PROVE AccessInv'
    <2>1. AnswerWith(p, 0) /\ UNCHANGED <<hour, jar, pageCsrf>>
          /\ (UNCHANGED <<sessions, minted>>
              \/ /\ minted < MaxMints /\ minted' = minted + 1
                 /\ sessions' = [sessions EXCEPT ![minted + 1] = [NoRow EXCEPT !.expires = hour + SessionTtl]])
      BY <1>6, Zenon DEF MintThrows
    <2>2. CASE UNCHANGED <<sessions, minted>> BY <1>a, <2>1, <2>2
    <2>3. CASE /\ minted < MaxMints /\ minted' = minted + 1
               /\ sessions' = [sessions EXCEPT ![minted + 1] = [NoRow EXCEPT !.expires = hour + SessionTtl]]
      <3>1. minted' \in 0 .. MaxMints /\ sessions' \in [SessionIds -> Rows] /\ EndedStays /\ AnsweredIsDead'
        BY <2>1, <2>3, Minted, Zenon
      <3>m. minted' = minted + 1 BY <2>3
      <3>2. minted' \in Nat /\ jar.session <= minted' BY <1>0, <3>m
      <3>3. /\ request' \in [Pages -> Requests] /\ \A q \in Pages \ {p} : request'[q] = request[q]
            /\ LateIsRefused(request[p])'
        BY <1>0, <2>1, <3>2, Answered, Zenon, <1>p
      <3>4. AccessShape'
        <4>1. UNCHANGED <<hour, jar, pageCsrf>> BY <2>1
        <4> QED BY <1>0, <3>1, <3>2, <3>3, <4>1, Zenon DEF AccessShape
      <3> QED BY <3>1, <3>3, <3>4, PagesKept, Zenon
    <2> QED BY <2>1, <2>2, <2>3, Zenon
  <1>7. ASSUME NEW p \in Pages, validateSession(p) PROVE AccessInv'
    <2>1. UNCHANGED <<hour, sessions, minted, jar, pageCsrf>> BY <1>7 DEF validateSession
    <2>2. PICK r : /\ r = [request[p] EXCEPT !.at = "validated", !.live = LiveRow(request[p].session)]
                   /\ request' = [request EXCEPT ![p] = r]
      BY <1>7, Zenon DEF validateSession
    <2>3. LiveRow(request[p].session) \in BOOLEAN BY DEF LiveRow
    <2>4. request[p] \in Requests /\ LateIsRefused(request[p]) BY <1>0
    <2>5. /\ r \in Requests /\ r.at = "validated" /\ r.session = request[p].session
          /\ r.late = request[p].late /\ r.live = LiveRow(request[p].session)
      BY <2>2, <2>3, <2>4, Zenon DEF Requests, Places
    <2>6. /\ request'[p] = r /\ request' \in [Pages -> Requests]
          /\ \A q \in Pages \ {p} : request'[q] = request[q]
      BY <1>0, <2>2, <2>5, Zenon
    (* A late session has a row that is expired or answered, hence not live. *)
    <2>7. request[p].late => ~LiveRow(request[p].session)
      <3>1. ASSUME request[p].session \in Ended PROVE ~LiveRow(request[p].session)
        <4>1. request[p].session \in SessionIds BY <1>0, <3>1 DEF Ended, SessionIds
        <4>2. \/ sessions[request[p].session].expires <= hour
              \/ sessions[request[p].session].revoked \/ sessions[request[p].session].expires = 0
          BY <1>0, <3>1, <4>1 DEF Ended, AnsweredIsDead
        <4>3. sessions[request[p].session].expires \in Nat BY <1>0, <4>1 DEF Rows
        <4> QED BY <1>0, <4>2, <4>3 DEF LiveRow
      <3> QED BY <2>4, <3>1 DEF LateIsRefused
    <2>8. Ended' = Ended BY <2>1 DEF Ended
    <2>9. LateIsRefused(request[p])'
      <3>1. /\ r.session <= minted' /\ (r.late => r.session \in Ended') /\ (r.live => ~r.late)
        BY <2>1, <2>4, <2>5, <2>7, <2>8, Zenon DEF LateIsRefused
      <3> QED BY <2>5, <2>6, <3>1, Zenon DEF LateIsRefused
    <2> QED BY <1>q, <2>1, <2>6, <2>9
  <1>8. ASSUME NEW p \in Pages, StorageThrows(p) \/ HandlerAnswers(p) \/ status(p) PROVE AccessInv'
    <2>1. UNCHANGED <<hour, sessions, minted, jar, pageCsrf>>
      BY <1>8 DEF StorageThrows, HandlerAnswers, status
    <2>2. AnswerWith(p, 0) \/ AnswerWith(p, 3)
      BY <1>8, Zenon DEF StorageThrows, HandlerAnswers, status
    <2> QED BY <1>a, <2>1, <2>2, <1>p
  <1>9. ASSUME NEW p \in Pages, requireOperator(p) PROVE AccessInv'
    <2>1. UNCHANGED <<hour, sessions, minted, jar, pageCsrf>> BY <1>9 DEF requireOperator
    <2>2. (request[p].live /\ Route(p, "ran")) \/ AnswerWith(p, 0) BY <1>9, Zenon DEF requireOperator
    <2> QED BY <1>a, <1>r, <2>1, <2>2, <1>p DEF Places
  <1>10. ASSUME NEW p \in Pages, logout(p) PROVE AccessInv'
    <2>1. UNCHANGED <<hour, sessions, minted, jar, pageCsrf>> BY <1>10 DEF logout
    <2>2. AnswerWith(p, 2) \/ AnswerWith(p, 0) \/ Route(p, "revoke") BY <1>10, Zenon DEF logout
    <2> QED BY <1>a, <1>r, <2>1, <2>2, <1>p DEF Places
  <1>11. ASSUME NEW p \in Pages, revokeSession(p) PROVE AccessInv'
    <2>1. AnswerWith(p, 2) /\ UNCHANGED <<hour, minted, jar, pageCsrf>> BY <1>11 DEF revokeSession
    <2>2. PICK x : x = request[p].session OBVIOUS
    <2>3. sessions' = [sessions EXCEPT ![x].revoked = TRUE, ![x].answered = TRUE]
      BY <1>11, <2>2, Zenon DEF revokeSession
    <2>4. /\ sessions' \in [SessionIds -> Rows]
          /\ \A s \in SessionIds : s # x => sessions'[s] = sessions[s]
          /\ x \in SessionIds => sessions'[x].revoked /\ sessions'[x].expires = sessions[x].expires
      <3>1. CASE x \in SessionIds
        <4>1. PICK r : r = [[sessions[x] EXCEPT !.revoked = TRUE] EXCEPT !.answered = TRUE]
          OBVIOUS
        <4>2. sessions' = [sessions EXCEPT ![x] = r]
          BY <1>0, <2>3, <3>1, <4>1, Zenon
        <4>3. sessions[x] \in Rows BY <1>0, <3>1
        <4>4. r \in Rows /\ r.revoked /\ r.expires = sessions[x].expires BY <4>1, <4>3, Zenon DEF Rows
        <4> QED BY <1>0, <3>1, <4>2, <4>4
      <3>2. CASE x \notin SessionIds
        <4>1. sessions' = sessions BY <1>0, <2>3, <3>2, Zenon
        <4> QED BY <1>0, <3>2, <4>1
      <3> QED BY <3>1, <3>2
    <2>5. EndedStays
      <3>1. ASSUME NEW s \in 1 .. minted, s \in Ended PROVE s \in Ended'
        <4>1. s \in SessionIds BY <1>0, <3>1 DEF SessionIds
        <4>2. CASE s # x BY <2>1, <2>4, <3>1, <4>1, <4>2 DEF Ended
        <4>3. CASE s = x
          <5>1. sessions'[x].answered BY <1>0, <2>3, <4>1, <4>3, Zenon DEF Rows
          <5> QED BY <2>1, <3>1, <4>3, <5>1 DEF Ended
        <4> QED BY <4>2, <4>3
      <3> QED BY <1>0, <2>1, <3>1 DEF EndedStays
    <2>6. AnsweredIsDead' BY <1>0, <2>4 DEF AnsweredIsDead
    <2>7. minted' \in Nat BY <1>0, <2>1
    <2>8. /\ request' \in [Pages -> Requests] /\ \A q \in Pages \ {p} : request'[q] = request[q]
          /\ LateIsRefused(request[p])'
      BY <1>0, <1>p, <2>1, <2>7, Answered
    <2>9. AccessShape' BY <1>0, <2>1, <2>4, <2>8 DEF AccessShape
    <2> QED BY <2>5, <2>6, <2>8, <2>9, PagesKept
  <1>12. CASE CookiesLapse
    <2>1. UNCHANGED <<hour, sessions, minted, pageCsrf, request>> /\ jar' = EmptyJar
      BY <1>12 DEF CookiesLapse
    <2>2. jar' \in [session : Nat, csrf : Nat, lapses : Nat] /\ jar'.session <= minted
      BY <1>0, <2>1 DEF EmptyJar
    <2>3. AccessShape' BY <1>0, <2>1, <2>2 DEF AccessShape
    <2>4. AnsweredIsDead' BY <1>0, <2>1 DEF AnsweredIsDead
    <2>5. Ended' = Ended BY <2>1 DEF Ended
    <2>6. \A p \in Pages : LateIsRefused(request[p])' BY <1>0, <2>1, <2>5 DEF LateIsRefused
    <2> QED BY <2>3, <2>4, <2>6 DEF AccessInv
  <1>13. CASE sweepExpiredSessions
    <2>1. UNCHANGED <<hour, minted, jar, pageCsrf, request>> BY <1>13 DEF sweepExpiredSessions
    <2>2. PICK S \in SUBSET {s \in 1 .. minted : sessions[s].expires \in 1 .. hour} :
             sessions' = [s \in SessionIds |-> IF s \in S THEN [NoRow EXCEPT !.answered = sessions[s].answered]
                                                           ELSE sessions[s]]
      BY <1>13, Zenon DEF sweepExpiredSessions
    <2>3. ASSUME NEW s \in SessionIds
          PROVE  /\ sessions'[s] \in Rows
                 /\ s \notin S => sessions'[s] = sessions[s]
                 /\ s \in S => sessions'[s].expires = 0
      <3>1. PICK r : r = [NoRow EXCEPT !.answered = sessions[s].answered] OBVIOUS
      <3>2. sessions'[s] = IF s \in S THEN r ELSE sessions[s] BY <2>2, <2>3, <3>1, Zenon
      <3>3. sessions[s].answered \in BOOLEAN /\ sessions[s] \in Rows BY <1>0, <2>3 DEF Rows
      <3>4. r \in Rows /\ r.expires = 0
        <4>1. 0 \in Nat OBVIOUS
        <4> QED BY <3>1, <3>3, <4>1, Zenon DEF NoRow, Rows
      <3> QED BY <3>2, <3>3, <3>4
    <2>4. sessions' \in [SessionIds -> Rows]
      <3>1. \A s \in SessionIds : sessions'[s] \in Rows BY <2>3
      <3>2. sessions' = [s \in SessionIds |-> sessions'[s]] BY <2>2, Zenon
      <3> QED BY <3>1, <3>2
    <2>5. AnsweredIsDead' BY <1>0, <2>3 DEF AnsweredIsDead
    <2>6. \A s \in 1 .. minted : s \in Ended => s \in Ended'
      BY <1>0, <2>1, <2>3 DEF Ended, SessionIds
    <2>7. AccessShape' BY <1>0, <2>1, <2>4 DEF AccessShape
    <2>8. ASSUME NEW p \in Pages PROVE LateIsRefused(request[p])'
      <3>1. LateIsRefused(request[p]) BY <1>0, <2>8
      <3> QED BY <2>1, <2>6, <3>1 DEF LateIsRefused, Ended
    <2> QED BY <2>5, <2>7, <2>8 DEF AccessInv
  <1>14. CASE HourPasses
    <2>1. UNCHANGED <<sessions, minted, jar, pageCsrf, request>> /\ hour' = hour + 1 BY <1>14 DEF HourPasses
    <2>2. AccessShape' BY <1>0, <2>1 DEF AccessShape
    <2>3. AnsweredIsDead' BY <1>0, <2>1 DEF AnsweredIsDead
    <2>4. \A s \in 1 .. minted : s \in Ended => s \in Ended'
      <3>1. \A s \in 1 .. minted : sessions[s].expires \in Nat BY <1>0 DEF Rows, SessionIds
      <3> QED BY <1>0, <2>1, <3>1 DEF Ended
    <2>5. ASSUME NEW p \in Pages PROVE LateIsRefused(request[p])'
      <3>1. LateIsRefused(request[p]) BY <1>0, <2>5
      <3> QED BY <2>1, <2>4, <3>1 DEF LateIsRefused, Ended
    <2> QED BY <2>2, <2>3, <2>5 DEF AccessInv
  <1>15. CASE UNCHANGED accessVars
    <2>1. UNCHANGED <<hour, sessions, minted, jar, pageCsrf, request>> BY <1>15 DEF accessVars
    <2>2. Ended' = Ended BY <2>1 DEF Ended
    <2> QED BY <1>0, <2>1, <2>2 DEF AccessInv, AccessShape, AnsweredIsDead, LateIsRefused
  <1> QED BY <1>1, <1>2, <1>3, <1>4, <1>5, <1>6, <1>7, <1>8, <1>9, <1>10, <1>11, <1>12, <1>13, <1>14, <1>15
          DEF AccessNext

(* A protected handler never runs for a request that was sent after its session had ended,*)
(* whatever the pages, the order of requests and answers, the sweep and the outages.      *)
THEOREM EndedSessionsStayOut == AccessSpec => []EndedSessionActsNoMore
  <1>1. AccessInv => EndedSessionActsNoMore
    BY DEF AccessInv, LateIsRefused, EndedSessionActsNoMore
  <1> QED BY <1>1, AccessStarts, AccessStep, PTL DEF AccessSpec

-----------------------------------------------------------------------------
(* The projection of the order stream and its queue (fillLedger.ts, stagePipeline.ts). *)

(* What the ledger holds was reported to it, or is the empty ledger's zero; no report was   *)
(* higher; and an event it takes for a repetition was reported.                             *)
HoldsHighest ==
    /\ projection.cumulative \in {0} \cup told.projection
    /\ \A c \in told.projection : c <= projection.cumulative
    /\ \A c \in Nat : \A source \in {"rest", "stream"} :
          <<source, c>> \in projection.seen => c \in told.projection

(* What waits is a quantity, and so is what was told. *)
Quantities ==
    /\ executed \in Nat /\ told \in [projection : SUBSET Nat, tripwire : SUBSET Nat]
    /\ \A s \in snapshots : s.cumulative \in Nat
    /\ frameQueue \in Seq(Nat)

(* The queue's pressure, the backlog it raises, and the pump that lifts it. *)
Pressure ==
    /\ overloaded = (Len(frameQueue) > QueueThreshold)
    /\ overloaded => backlog
    /\ pump = "idle" => frameQueue = <<>> /\ ~backlog

(* The inductive invariant of the projection and its queue. *)
FillInv == Quantities /\ HoldsHighest /\ Pressure

(* The maximum of a set of quantities is the member no other one exceeds (CumulativeFillLedger). *)
LEMMA TheHighest ==
    ASSUME NEW S \in SUBSET Nat, NEW m \in S, \A x \in S : x <= m
    PROVE  Max(S) = m
<1>1. \A x \in S : m >= x  BY SMT
<1>2. \A z \in S : (\A x \in S : z >= x) => z = m
  <2>. SUFFICES ASSUME NEW z \in S, \A x \in S : z >= x  PROVE z = m  OBVIOUS
  <2>1. z >= m /\ z <= m /\ z \in Nat /\ m \in Nat  OBVIOUS
  <2>. QED  BY <2>1, SMT
<1>. QED  BY <1>1, <1>2, Zenon DEF Max

(* The invariant says what the property asks: the ledger's quantity is the highest reported, *)
(* an ended pump leaves nothing, and pressure holds entries back.                            *)
LEMMA FillInvSuffices == FillInv => HighestReportStands
<1>. SUFFICES ASSUME FillInv PROVE HighestReportStands  OBVIOUS
<1>1. {0} \cup told.projection \in SUBSET Nat  BY DEF FillInv, Quantities
<1>2. projection.cumulative \in {0} \cup told.projection  BY DEF FillInv, HoldsHighest
<1>3. \A c \in {0} \cup told.projection : c <= projection.cumulative
  BY <1>1, <1>2 DEF FillInv, HoldsHighest
<1>4. Max({0} \cup told.projection) = projection.cumulative  BY <1>1, <1>2, <1>3, TheHighest
<1>. QED  BY <1>4 DEF FillInv, Pressure, HighestReportStands

(* A report, from a snapshot or a frame, leaves the ledger at the highest quantity          *)
(* (CumulativeFillLedger.apply).                                                            *)
LEMMA ReportIsTaken ==
    ASSUME HoldsHighest, told.projection \subseteq Nat,
           NEW c \in Nat, NEW source \in {"rest", "stream"},
           projection' = apply(projection, c, <<source, c>>),
           told'.projection = told.projection \cup {c}
    PROVE  HoldsHighest'
<1>0. projection.cumulative \in Nat  BY DEF HoldsHighest
<1>1. CASE <<source, c>> \in projection.seen
  <2>1. projection' = projection  BY <1>1 DEF apply
  <2>2. c \in told.projection  BY <1>1 DEF HoldsHighest
  <2>. QED  BY <2>1, <2>2 DEF HoldsHighest
<1>2. CASE <<source, c>> \notin projection.seen
  <2>1. /\ projection'.cumulative = IF c <= projection.cumulative THEN projection.cumulative ELSE c
        /\ projection'.seen = projection.seen \cup {<<source, c>>}
    BY <1>2 DEF apply
  <2>2. projection'.cumulative \in {0} \cup told'.projection  BY <2>1 DEF HoldsHighest
  <2>3. \A d \in told'.projection : d <= projection'.cumulative
    BY <1>0, <2>1, SMT DEF HoldsHighest
  <2>4. \A d \in Nat : \A s \in {"rest", "stream"} :
           <<s, d>> \in projection'.seen => d \in told'.projection
    BY <2>1 DEF HoldsHighest
  <2>. QED  BY <2>2, <2>3, <2>4 DEF HoldsHighest
<1>. QED  BY <1>1, <1>2

(* A new order has an empty ledger, an empty queue and a pump at rest. *)
LEMMA FillStarts == FillInit => FillInv
<1>. SUFFICES ASSUME FillInit PROVE FillInv  OBVIOUS
<1>1. projection.cumulative = 0 /\ projection.seen = {} /\ told.projection = {}
  BY DEF FillInit, EmptyLedger
<1>2. executed = 0 /\ snapshots = {} /\ frameQueue = <<>> /\ overloaded = FALSE /\ backlog = FALSE
  BY DEF FillInit
<1>3. told \in [projection : SUBSET Nat, tripwire : SUBSET Nat]  BY DEF FillInit
<1>4. Quantities  BY <1>2, <1>3 DEF Quantities
<1>5. HoldsHighest  BY <1>1 DEF HoldsHighest
<1>6. ~(Len(<<>>) > QueueThreshold)  BY FillAssumption
<1>7. Pressure
  <2>1. (Len(frameQueue) > QueueThreshold) = FALSE  BY <1>2, <1>6, SMT
  <2>2. overloaded = (Len(frameQueue) > QueueThreshold)  BY <1>2, <2>1, Zenon
  <2>3. ~overloaded /\ ~backlog /\ frameQueue = <<>>  BY <1>2, Zenon
  <2>. QED  BY <2>2, <2>3, Zenon DEF Pressure
<1>. QED  BY <1>4, <1>5, <1>7 DEF FillInv

(* What leaves the ledger alone leaves its part of the invariant alone. *)
LEMMA LedgerFrame == ASSUME HoldsHighest, UNCHANGED <<projection, told>> PROVE HoldsHighest'
BY DEF HoldsHighest

(* What leaves the queue alone leaves its pressure alone. *)
LEMMA QueueFrame == ASSUME Pressure, UNCHANGED queueVars PROVE Pressure'
BY DEF Pressure, queueVars

(* The invariant is inductive: one step per action of the broker, the manager and the stream. *)
LEMMA FillKept == FillInv /\ [FillNext]_fillVars => FillInv'
<1>. SUFFICES ASSUME FillInv, [FillNext]_fillVars PROVE FillInv'  OBVIOUS
<1>. USE FillAssumption
<1>0. Quantities /\ HoldsHighest /\ Pressure  BY DEF FillInv
<1>1. CASE OrderFills
  <2>1. Quantities'  BY <1>0, <1>1 DEF OrderFills, Quantities, queueVars
  <2>. QED  BY <1>0, <1>1, <2>1, LedgerFrame, QueueFrame DEF OrderFills, FillInv
<1>2. CASE TradeBookLists
  <2>1. Quantities'  BY <1>0, <1>2 DEF TradeBookLists, Quantities, queueVars
  <2>. QED  BY <1>0, <1>2, <2>1, LedgerFrame, QueueFrame DEF TradeBookLists, FillInv
<1>3. CASE RestReads
  <2>1. Quantities'  BY <1>0, <1>3 DEF RestReads, Quantities, queueVars, brokerVars
  <2>. QED  BY <1>0, <1>3, <2>1, LedgerFrame, QueueFrame DEF RestReads, FillInv
<1>4. ASSUME NEW s \in snapshots, persistOrder(s) PROVE FillInv'
  <2>1. s.cumulative \in Nat  BY <1>0 DEF Quantities
  <2>2. told'.projection = told.projection \cup {s.cumulative}  BY <1>4 DEF persistOrder
  <2>3. projection' = apply(projection, s.cumulative, <<"rest", s.cumulative>>)
    BY <1>4 DEF persistOrder, noteStreamBrokerSnapshot
  <2>4. Quantities'
    BY <1>0, <1>4, <2>1, <2>2 DEF persistOrder, Quantities, brokerVars, queueVars
  <2>5. HoldsHighest'
    BY <1>0, <2>1, <2>2, <2>3, ReportIsTaken DEF Quantities
  <2>. QED  BY <1>0, <1>4, <2>4, <2>5, QueueFrame DEF persistOrder, FillInv
<1>5. CASE ingestBoxLaneOrderText
  <2>1. PICK cumulative \in 0 .. executed :
          /\ frameQueue' = Append(frameQueue, cumulative)
          /\ overloaded' = reassess(frameQueue')
          /\ backlog' = (backlog \/ (overloaded' /\ ~overloaded))
    BY <1>5 DEF ingestBoxLaneOrderText
  <2>2. cumulative \in Nat /\ frameQueue \in Seq(Nat)  BY <1>0 DEF Quantities
  <2>3. Quantities'
    BY <1>0, <1>5, <2>1, <2>2 DEF ingestBoxLaneOrderText, Quantities, brokerVars
  <2>4. pump' = "scheduled"  BY <1>5 DEF ingestBoxLaneOrderText
  <2>5. Pressure'
    <3>1. overloaded' = (Len(frameQueue') > QueueThreshold)  BY <2>1 DEF reassess
    <3>2. overloaded' => backlog'
      BY <1>0, <2>1, Zenon DEF Pressure
    <3>. QED  BY <2>4, <3>1, <3>2 DEF Pressure
  <2>. QED  BY <1>0, <1>5, <2>3, <2>5, LedgerFrame DEF ingestBoxLaneOrderText, FillInv
<1>6. CASE PumpStarts
  <2>1. Quantities'  BY <1>0, <1>6 DEF PumpStarts, Quantities, brokerVars
  <2>2. Pressure'  BY <1>0, <1>6 DEF PumpStarts, Pressure
  <2>. QED  BY <1>0, <1>6, <2>1, <2>2, LedgerFrame DEF PumpStarts, FillInv
<1>7. CASE drainStage
  <2>. DEFINE c == Head(frameQueue)
  <2>1. c \in Nat /\ Tail(frameQueue) \in Seq(Nat) /\ frameQueue \in Seq(Nat) /\ frameQueue # <<>>
    BY <1>0, <1>7 DEF drainStage, Quantities
  <2>2. PICK q \in Nat : q = c  BY <2>1
  <2>3. projection' = apply(projection, q, <<"stream", q>>)  BY <1>7, <2>2 DEF drainStage
  <2>4. told' = [told EXCEPT !.projection = @ \cup {q}]  BY <1>7, <2>2 DEF drainStage
  <2>. HIDE DEF c
  <2>5. told'.projection = told.projection \cup {q}  BY <1>0, <2>4 DEF Quantities
  <2>6. Quantities'
    BY <1>0, <1>7, <2>1, <2>5 DEF drainStage, Quantities, brokerVars
  <2>7. HoldsHighest'
    BY <1>0, <2>3, <2>5, ReportIsTaken DEF Quantities
  <2>8. Len(Tail(frameQueue)) <= Len(frameQueue)  BY <2>1
  <2>9. Pressure'
    <3>1. Len(Tail(frameQueue)) \in Nat /\ Len(frameQueue) \in Nat  BY <2>1
    <3>2. Len(Tail(frameQueue)) > QueueThreshold => Len(frameQueue) > QueueThreshold
      BY <2>8, <3>1, SMT
    <3>3. frameQueue' = Tail(frameQueue) /\ pump' = "draining" /\ backlog' = backlog
      BY <1>7 DEF drainStage
    <3>4. overloaded' = (Len(frameQueue') > QueueThreshold)
      BY <1>7, <3>3 DEF drainStage, reassess
    <3>5. overloaded' => backlog'
      BY <1>0, <3>2, <3>3, <3>4, Zenon DEF Pressure
    <3>. QED  BY <3>3, <3>4, <3>5 DEF Pressure
  <2>. QED  BY <2>6, <2>7, <2>9 DEF FillInv
<1>8. CASE PumpEnds
  <2>1. Quantities'  BY <1>0, <1>8 DEF PumpEnds, Quantities, brokerVars
  <2>2. ~(Len(<<>>) > QueueThreshold)  BY SMT
  <2>3. frameQueue = <<>> /\ ~overloaded
    BY <1>0, <1>8, <2>2, Zenon DEF PumpEnds, Pressure
  <2>4. /\ UNCHANGED <<frameQueue, overloaded>>
        /\ backlog' = (backlog /\ overloaded)
    BY <1>8 DEF PumpEnds
  <2>5. Pressure'  BY <1>0, <2>3, <2>4, Zenon DEF Pressure
  <2>. QED  BY <1>0, <1>8, <2>1, <2>5, LedgerFrame DEF PumpEnds, FillInv
<1>9. CASE UNCHANGED fillVars
  <2>1. Quantities'  BY <1>0, <1>9 DEF fillVars, Quantities
  <2>. QED  BY <1>0, <1>9, <2>1, LedgerFrame, QueueFrame DEF fillVars, queueVars, FillInv
<1>. QED  BY <1>1, <1>2, <1>3, <1>4, <1>5, <1>6, <1>7, <1>8, <1>9 DEF FillNext

(* Whatever is repeated, late or out of order, and whichever of the snapshots and the stream  *)
(* tells first, the projection holds the highest cumulative quantity it was told; an ended    *)
(* pump leaves no frame and no backlog behind, and a queue over its threshold holds entries   *)
(* back (OrderUpdateProjection, StagePipeline).                                               *)
THEOREM HighestIsKept == FillSpec => []HighestReportStands
<1>1. FillSpec => []FillInv  BY FillStarts, FillKept, PTL DEF FillSpec
<1>. QED  BY <1>1, FillInvSuffices, PTL

-----------------------------------------------------------------------------
(* The switch of the active broker (registry.ts). *)

(* Two conditions on the operator that the registry does not enforce: one request is        *)
(* answered before the next is made, and START is not pressed while a switch runs.          *)
OneAtATime == /\ \A s, t \in SwitchRequests : s = t
              /\ ~StartsDuringSwitch

SwitchStages == {"none", "checking", "clearing", "saved", "loading"}

SwitchShape ==
    /\ switch \in [SwitchRequests -> [stage : SwitchStages, target : BrokerIds \cup {NoBroker}, saved : Nat]]
    /\ entry \in [stage : {"none", "executing", "open"}, broker : BrokerIds \cup {NoBroker}]
    /\ active \in BrokerIds \cup {NoBroker} /\ saveFaults \in Nat
    /\ selected \in [broker : BrokerIds \cup {NoBroker}, generation : Nat]

(* What the checks found stays true until the switch has ended: nothing is scanned, nothing  *)
(* executes or is held, and once they are passed no order of the leaving broker is unsettled. *)
ChecksStillHold ==
    \A s \in SwitchRequests :
       /\ switch[s].stage # "none" => ~scanning /\ entry = NoEntry
       /\ switch[s].stage \in {"clearing", "saved"} => intents = {}

(* The row holds the broker that is active, or the target of the switch that saved it. *)
RowIsActive ==
    /\ \A s \in SwitchRequests : switch[s].stage = "saved" => selected.broker = switch[s].target
    /\ (\A s \in SwitchRequests : switch[s].stage # "saved") => selected.broker = active

OwnersAreActive ==
    /\ entry # NoEntry => entry.broker = active
    /\ intents \subseteq {active}

(* The inductive invariant of the switch. *)
SwitchInv == SwitchShape /\ (saveFaults = 0 => ChecksStillHold /\ RowIsActive /\ OwnersAreActive)

(* A step that moves no selection, no order and no switch, and starts the scanner only when *)
(* no switch runs, keeps all of it.                                                         *)
LEMMA SwitchFrame ==
    ASSUME SwitchInv, UNCHANGED <<switch, entry, active, selected, intents, saveFaults>>,
           scanning' => scanning \/ ~Switching
    PROVE  SwitchInv'
<1>1. SwitchShape'  BY DEF SwitchInv, SwitchShape
<1>2. ASSUME saveFaults' = 0 PROVE ChecksStillHold' /\ RowIsActive' /\ OwnersAreActive'
  <2>1. ChecksStillHold /\ RowIsActive /\ OwnersAreActive  BY <1>2 DEF SwitchInv
  <2>2. RowIsActive' /\ OwnersAreActive'  BY <2>1 DEF RowIsActive, OwnersAreActive
  <2>3. \A s \in SwitchRequests : switch'[s].stage # "none" => ~scanning' /\ entry' = NoEntry
    BY <2>1 DEF ChecksStillHold, Switching
  <2>. QED  BY <2>1, <2>2, <2>3 DEF ChecksStillHold
<1>. QED  BY <1>1, <1>2 DEF SwitchInv

(* An order or a position changes only while no switch runs: the row and the checks are as  *)
(* they were (EntryStarts, EntryEnds, PositionLeaves, IntentsReconciled).                   *)
LEMMA OrdersMove ==
    ASSUME SwitchInv, UNCHANGED <<switch, active, selected, scanning, saveFaults>>,
           entry' \in [stage : {"none", "executing", "open"}, broker : BrokerIds \cup {NoBroker}],
           saveFaults = 0 /\ Switching => entry' = entry /\ intents' \subseteq intents,
           saveFaults = 0 => OwnersAreActive'
    PROVE  SwitchInv'
<1>1. SwitchShape'  BY DEF SwitchInv, SwitchShape
<1>2. ASSUME saveFaults' = 0 PROVE ChecksStillHold' /\ RowIsActive' /\ OwnersAreActive'
  <2>1. saveFaults = 0 /\ ChecksStillHold /\ RowIsActive  BY <1>2 DEF SwitchInv
  <2>2. RowIsActive'  BY <2>1 DEF RowIsActive
  <2>3. ChecksStillHold'  BY <2>1 DEF ChecksStillHold, Switching
  <2>. QED  BY <2>1, <2>2, <2>3
<1>. QED  BY <1>1, <1>2 DEF SwitchInv

(* A request moves to a stage before its save, with the checks holding: the row is as it was. *)
LEMMA SwitchMoves ==
    ASSUME SwitchInv, NEW s \in SwitchRequests,
           NEW r \in [stage : SwitchStages, target : BrokerIds \cup {NoBroker}, saved : Nat],
           switch' = [switch EXCEPT ![s] = r], switch[s].stage \in {"none", "checking"},
           r.stage \in {"checking", "clearing"}, ~scanning',
           saveFaults = 0 => entry = NoEntry /\ (r.stage = "clearing" => intents = {}),
           UNCHANGED <<active, selected, entry, intents, saveFaults>>
    PROVE  SwitchInv'
<1>1. switch'[s] = r /\ \A x \in SwitchRequests \ {s} : switch'[x] = switch[x]  BY DEF SwitchInv, SwitchShape
<1>2. SwitchShape'  BY DEF SwitchInv, SwitchShape
<1>3. ASSUME saveFaults' = 0 PROVE ChecksStillHold' /\ RowIsActive' /\ OwnersAreActive'
  <2>1. ChecksStillHold /\ RowIsActive /\ OwnersAreActive /\ entry = NoEntry  BY <1>3 DEF SwitchInv
  <2>2. ChecksStillHold'  BY <1>1, <1>3, <2>1 DEF ChecksStillHold
  <2>3. RowIsActive'  BY <1>1, <2>1 DEF RowIsActive
  <2>. QED  BY <2>1, <2>2, <2>3 DEF OwnersAreActive
<1>. QED  BY <1>2, <1>3 DEF SwitchInv

(* A request that is refused or done leaves the row and the orders as they are. *)
LEMMA SwitchEnds ==
    ASSUME SwitchInv, NEW s \in SwitchRequests, switch' = [switch EXCEPT ![s] = NotSwitching],
           switch[s].stage \in {"checking", "loading"},
           UNCHANGED <<active, selected, scanning, entry, intents, saveFaults>>
    PROVE  SwitchInv'
<1>0. NotSwitching.stage = "none"
      /\ NotSwitching \in [stage : SwitchStages, target : BrokerIds \cup {NoBroker}, saved : Nat]
  BY DEF NotSwitching, SwitchStages
<1>1. switch'[s] = NotSwitching /\ \A x \in SwitchRequests \ {s} : switch'[x] = switch[x]
  BY DEF SwitchInv, SwitchShape
<1>2. SwitchShape'  BY <1>0 DEF SwitchInv, SwitchShape
<1>3. ASSUME saveFaults' = 0 PROVE ChecksStillHold' /\ RowIsActive' /\ OwnersAreActive'
  <2>1. ChecksStillHold /\ RowIsActive /\ OwnersAreActive  BY <1>3 DEF SwitchInv
  <2>2. ChecksStillHold'  BY <1>0, <1>1, <2>1 DEF ChecksStillHold
  <2>3. RowIsActive'  BY <1>0, <1>1, <2>1 DEF RowIsActive
  <2>. QED  BY <2>1, <2>2, <2>3 DEF OwnersAreActive
<1>. QED  BY <1>2, <1>3 DEF SwitchInv

(* The invariant is inductive: one step per action of the registry and of the engine it asks. *)
LEMMA SwitchKept == OneAtATime /\ SwitchInv /\ [SwitchNext]_switchVars => SwitchInv'
<1>. SUFFICES ASSUME OneAtATime, SwitchInv, [SwitchNext]_switchVars PROVE SwitchInv'  OBVIOUS
<1>0. SwitchShape /\ (saveFaults = 0 => ChecksStillHold /\ RowIsActive /\ OwnersAreActive)
  BY DEF SwitchInv
<1>1. ASSUME NEW b \in BrokerIds, FeedTicks(b) PROVE SwitchInv'
  BY <1>1, SwitchFrame DEF FeedTicks
<1>2. CASE EngineStarts  BY <1>2, SwitchFrame DEF EngineStarts, OneAtATime
<1>3. CASE refreshUniverse  BY <1>3, SwitchFrame DEF refreshUniverse
<1>4. CASE applySubscriptions  BY <1>4, SwitchFrame DEF applySubscriptions
<1>5. CASE EngineStops  BY <1>5, SwitchFrame DEF EngineStops
<1>6. CASE EntryStarts
  <2>1. PICK e : e = [stage |-> "executing", broker |-> active] /\ entry' = e  BY <1>6 DEF EntryStarts
  <2>2. scanning /\ entry = NoEntry /\ intents' = intents \cup {active}
        /\ UNCHANGED <<switch, active, selected, scanning, saveFaults>>
    BY <1>6 DEF EntryStarts
  <2>3. saveFaults = 0 => ~Switching  BY <1>0, <2>2 DEF ChecksStillHold, Switching
  <2>4. e.stage = "executing" /\ e.broker = active  BY <2>1
  <2>5. saveFaults = 0 => OwnersAreActive'  BY <1>0, <2>1, <2>2, <2>4 DEF OwnersAreActive
  <2>6. e \in [stage : {"none", "executing", "open"}, broker : BrokerIds \cup {NoBroker}]
    BY <1>0, <2>1 DEF SwitchShape
  <2>. QED  BY <2>1, <2>2, <2>3, <2>5, <2>6, OrdersMove
<1>7. CASE EntryEnds
  <2>1. /\ entry.stage = "executing" /\ intents' = intents \ {entry.broker}
        /\ entry' \in {NoEntry, [entry EXCEPT !.stage = "open"]}
        /\ UNCHANGED <<switch, active, selected, scanning, saveFaults>>
    BY <1>7 DEF EntryEnds
  <2>2. entry # NoEntry  BY <2>1 DEF NoEntry
  <2>3. saveFaults = 0 => ~Switching  BY <1>0, <2>2 DEF ChecksStillHold, Switching
  <2>4. /\ entry' # NoEntry => entry'.broker = entry.broker
        /\ entry' \in [stage : {"none", "executing", "open"}, broker : BrokerIds \cup {NoBroker}]
    BY <1>0, <2>1 DEF SwitchShape, NoEntry
  <2>5. saveFaults = 0 => OwnersAreActive'  BY <1>0, <2>1, <2>2, <2>4 DEF OwnersAreActive
  <2>. QED  BY <2>1, <2>3, <2>4, <2>5, OrdersMove
<1>8. CASE PositionLeaves
  <2>1. /\ entry.stage = "open" /\ entry' = NoEntry
        /\ UNCHANGED <<switch, active, selected, scanning, saveFaults, intents>>
    BY <1>8 DEF PositionLeaves
  <2>2. entry # NoEntry  BY <2>1 DEF NoEntry
  <2>3. saveFaults = 0 => ~Switching  BY <1>0, <2>2 DEF ChecksStillHold, Switching
  <2>4. NoEntry \in [stage : {"none", "executing", "open"}, broker : BrokerIds \cup {NoBroker}]
    BY DEF NoEntry
  <2>5. saveFaults = 0 => OwnersAreActive'  BY <1>0, <2>1 DEF OwnersAreActive
  <2>. QED  BY <2>1, <2>3, <2>4, <2>5, OrdersMove
<1>9. CASE IntentsReconciled
  <2>1. /\ intents' = intents \ {active} /\ UNCHANGED <<switch, active, selected, scanning, saveFaults, entry>>
    BY <1>9 DEF IntentsReconciled
  <2>2. saveFaults = 0 => OwnersAreActive'  BY <1>0, <2>1 DEF OwnersAreActive
  <2>3. entry' \in [stage : {"none", "executing", "open"}, broker : BrokerIds \cup {NoBroker}]
    BY <1>0, <2>1 DEF SwitchShape
  <2>. QED  BY <2>1, <2>2, <2>3, OrdersMove
<1>10. ASSUME NEW s \in SwitchRequests, NEW t \in BrokerIds, SwitchBegins(s, t) PROVE SwitchInv'
  <2>1. PICK r : r = [stage |-> "checking", target |-> t, saved |-> 0] /\ switch' = [switch EXCEPT ![s] = r]
    BY <1>10, Zenon DEF SwitchBegins
  <2>2. r.stage = "checking"
        /\ r \in [stage : SwitchStages, target : BrokerIds \cup {NoBroker}, saved : Nat]
    BY <2>1 DEF SwitchStages
  <2>3. /\ ~scanning /\ entry = NoEntry /\ switch[s].stage = "none"
        /\ UNCHANGED <<active, selected, scanning, entry, intents, saveFaults>>
    BY <1>10 DEF SwitchBegins, switchBlockers
  <2>. QED  BY <1>0, <2>1, <2>2, <2>3, SwitchMoves
<1>11. ASSUME NEW s \in SwitchRequests, SwitchRefused(s) PROVE SwitchInv'
  <2>1. /\ switch[s].stage = "checking" /\ switch' = [switch EXCEPT ![s] = NotSwitching]
        /\ UNCHANGED <<active, selected, scanning, entry, intents, saveFaults>>
    BY <1>11 DEF SwitchRefused
  <2>. QED  BY <2>1, SwitchEnds
<1>12. ASSUME NEW s \in SwitchRequests, SwitchTearsDown(s) PROVE SwitchInv'
  <2>1. PICK r : r = [switch[s] EXCEPT !.stage = "clearing"] /\ switch' = [switch EXCEPT ![s] = r]
    BY <1>12, Zenon DEF SwitchTearsDown
  <2>2. r.stage = "clearing"
        /\ r \in [stage : SwitchStages, target : BrokerIds \cup {NoBroker}, saved : Nat]
    BY <1>0, <2>1, Zenon DEF SwitchShape, SwitchStages
  <2>3. /\ switch[s].stage = "checking" /\ active \notin intents /\ ~scanning'
        /\ UNCHANGED <<active, selected, entry, intents, saveFaults>>
    BY <1>12 DEF SwitchTearsDown
  <2>4. saveFaults = 0 => entry = NoEntry /\ intents = {}
    BY <1>0, <2>3 DEF ChecksStillHold, OwnersAreActive
  <2>. QED  BY <1>0, <2>1, <2>2, <2>3, <2>4, SwitchMoves
<1>13. ASSUME NEW s \in SwitchRequests, saveActiveBroker(s) PROVE SwitchInv'
  <2>0. /\ switch[s].stage = "clearing"
        /\ UNCHANGED <<active, scanning, entry, intents>>
    BY <1>13 DEF saveActiveBroker
  <2>1. CASE /\ selected' = [broker |-> switch[s].target, generation |-> selected.generation + 1]
             /\ switch' = [switch EXCEPT ![s].stage = "saved", ![s].saved = selected.generation + 1]
             /\ UNCHANGED saveFaults
    <3>1. PICK r : r = [[switch[s] EXCEPT !.stage = "saved"] EXCEPT !.saved = selected.generation + 1]
                   /\ switch' = [switch EXCEPT ![s] = r]
      BY <1>0, <2>1, Zenon DEF SwitchShape
    <3>2. selected.generation + 1 \in Nat  BY <1>0 DEF SwitchShape
    <3>3. r.stage = "saved" /\ r.target = switch[s].target
          /\ r \in [stage : SwitchStages, target : BrokerIds \cup {NoBroker}, saved : Nat]
      BY <1>0, <3>1, <3>2, Zenon DEF SwitchShape, SwitchStages
    <3>4. selected'.broker = switch[s].target
          /\ selected' \in [broker : BrokerIds \cup {NoBroker}, generation : Nat]
      BY <1>0, <2>1, <3>2 DEF SwitchShape
    <3>5. switch'[s] = r /\ \A x \in SwitchRequests : x = s  BY <1>0, <3>1 DEF SwitchShape, OneAtATime
    <3>6. SwitchShape'  BY <1>0, <2>0, <2>1, <3>1, <3>3, <3>4 DEF SwitchShape
    <3>7. saveFaults' = 0 => ChecksStillHold' /\ RowIsActive' /\ OwnersAreActive'
      BY <1>0, <2>0, <2>1, <3>3, <3>4, <3>5 DEF ChecksStillHold, RowIsActive, OwnersAreActive
    <3>. QED  BY <3>6, <3>7 DEF SwitchInv
  <2>2. CASE /\ saveFaults' = saveFaults + 1
             /\ switch' = [switch EXCEPT ![s].stage = "saved", ![s].saved = 0]
             /\ UNCHANGED selected
    <3>1. PICK r : r = [[switch[s] EXCEPT !.stage = "saved"] EXCEPT !.saved = 0]
                   /\ switch' = [switch EXCEPT ![s] = r]
      BY <1>0, <2>2, Zenon DEF SwitchShape
    <3>2. 0 \in Nat /\ saveFaults' \in Nat /\ saveFaults' # 0  BY <1>0, <2>2 DEF SwitchShape
    <3>3. r \in [stage : SwitchStages, target : BrokerIds \cup {NoBroker}, saved : Nat]
      BY <1>0, <3>1, <3>2, Zenon DEF SwitchShape, SwitchStages
    <3>. QED  BY <1>0, <2>0, <2>2, <3>1, <3>2, <3>3 DEF SwitchShape, SwitchInv
  <2>. QED  BY <1>13, <2>1, <2>2 DEF saveActiveBroker
<1>14. ASSUME NEW s \in SwitchRequests, SwitchAdopts(s) PROVE SwitchInv'
  <2>1. PICK r : r = [switch[s] EXCEPT !.stage = "loading"] /\ switch' = [switch EXCEPT ![s] = r]
    BY <1>14, Zenon DEF SwitchAdopts
  <2>2. r.stage = "loading" /\ r \in [stage : SwitchStages, target : BrokerIds \cup {NoBroker}, saved : Nat]
    BY <1>0, <2>1, Zenon DEF SwitchShape, SwitchStages
  <2>3. /\ switch[s].stage = "saved" /\ active' = switch[s].target
        /\ UNCHANGED <<selected, scanning, entry, intents, saveFaults>>
    BY <1>14 DEF SwitchAdopts
  <2>4. switch'[s] = r /\ \A x \in SwitchRequests : x = s  BY <1>0, <2>1 DEF SwitchShape, OneAtATime
  <2>5. SwitchShape'  BY <1>0, <2>1, <2>2, <2>3 DEF SwitchShape
  <2>6. saveFaults' = 0 => ChecksStillHold' /\ RowIsActive' /\ OwnersAreActive'
    BY <1>0, <2>2, <2>3, <2>4 DEF ChecksStillHold, RowIsActive, OwnersAreActive
  <2>. QED  BY <2>5, <2>6 DEF SwitchInv
<1>15. ASSUME NEW s \in SwitchRequests, SwitchCompletes(s) PROVE SwitchInv'
  <2>1. /\ switch[s].stage = "loading" /\ switch' = [switch EXCEPT ![s] = NotSwitching]
        /\ UNCHANGED <<active, selected, scanning, entry, intents, saveFaults>>
    BY <1>15 DEF SwitchCompletes
  <2>. QED  BY <2>1, SwitchEnds
<1>16. CASE completeDhanLogin  BY <1>16, SwitchFrame DEF completeDhanLogin
<1>17. CASE onDhanSessionLost  BY <1>17, SwitchFrame DEF onDhanSessionLost
<1>18. CASE restore
  <2>1. /\ active' = selected.broker /\ switch' = [s \in SwitchRequests |-> NotSwitching] /\ scanning' = FALSE
        /\ entry' = (IF entry.stage = "open" THEN entry ELSE NoEntry)
        /\ UNCHANGED <<selected, intents, saveFaults>>
    BY <1>18 DEF restore
  <2>2. NotSwitching.stage = "none"
        /\ NotSwitching \in [stage : SwitchStages, target : BrokerIds \cup {NoBroker}, saved : Nat]
    BY DEF NotSwitching, SwitchStages
  <2>3. NoEntry \in [stage : {"none", "executing", "open"}, broker : BrokerIds \cup {NoBroker}]
    BY DEF NoEntry
  <2>4. SwitchShape'  BY <1>0, <2>1, <2>2, <2>3 DEF SwitchShape
  <2>5. ASSUME saveFaults' = 0 PROVE ChecksStillHold' /\ RowIsActive' /\ OwnersAreActive'
    <3>1. ChecksStillHold /\ RowIsActive /\ OwnersAreActive  BY <1>0, <2>1, <2>5
    <3>2. ChecksStillHold' /\ RowIsActive'  BY <2>1, <2>2 DEF ChecksStillHold, RowIsActive
    <3>3. CASE \E s \in SwitchRequests : switch[s].stage = "saved"
      <4>1. entry = NoEntry /\ intents = {}  BY <3>1, <3>3 DEF ChecksStillHold
      <4>. QED  BY <2>1, <3>2, <4>1 DEF OwnersAreActive
    <3>4. CASE \A s \in SwitchRequests : switch[s].stage # "saved"
      <4>1. active' = active  BY <2>1, <3>1, <3>4 DEF RowIsActive
      <4>. QED  BY <2>1, <3>1, <3>2, <4>1 DEF OwnersAreActive
    <3>. QED  BY <3>3, <3>4
  <2>. QED  BY <2>4, <2>5 DEF SwitchInv
<1>19. CASE UNCHANGED switchVars  BY <1>19, SwitchFrame DEF switchVars
<1>. QED
  BY <1>1, <1>2, <1>3, <1>4, <1>5, <1>6, <1>7, <1>8, <1>9, <1>10, <1>11, <1>12, <1>13, <1>14, <1>15,
     <1>16, <1>17, <1>18, <1>19 DEF SwitchNext

(* A process starts with the selection it has saved, and holds nothing. *)
LEMMA SwitchStarts == SwitchInit => SwitchInv
<1>. SUFFICES ASSUME SwitchInit PROVE SwitchInv  OBVIOUS
<1>1. NotSwitching.stage = "none"
      /\ NotSwitching \in [stage : SwitchStages, target : BrokerIds \cup {NoBroker}, saved : Nat]
  BY DEF NotSwitching, SwitchStages
<1>2. NoEntry \in [stage : {"none", "executing", "open"}, broker : BrokerIds \cup {NoBroker}]
  BY DEF NoEntry
<1>3. selected \in [broker : BrokerIds \cup {NoBroker}, generation : Nat] /\ selected.broker = active
  BY DEF SwitchInit, BrokerIds
<1>4. SwitchShape  BY <1>1, <1>2, <1>3 DEF SwitchInit, SwitchShape
<1>5. ChecksStillHold /\ RowIsActive /\ OwnersAreActive
  BY <1>1, <1>3 DEF SwitchInit, ChecksStillHold, RowIsActive, OwnersAreActive
<1>. QED  BY <1>4, <1>5 DEF SwitchInv

(* When the requests to switch come one at a time and nobody presses START during one, no    *)
(* switch and no restart between any two of its awaits leaves a position or an unresolved    *)
(* order with a broker the process cannot act through, as long as every selection was saved  *)
(* (BrokerRegistry.switchBroker).  With either condition dropped a run finds the contrary.   *)
THEOREM ExposureStaysReachable == OneAtATime => (SwitchSpec => []ExposureIsReachable)
<1>. SUFFICES ASSUME OneAtATime PROVE SwitchSpec => []ExposureIsReachable  OBVIOUS
<1>1. SwitchInv /\ [SwitchNext]_switchVars => SwitchInv'  BY SwitchKept
<1>2. SwitchInv => ExposureIsReachable  BY DEF SwitchInv, OwnersAreActive, ExposureIsReachable
<1>. QED  BY <1>1, <1>2, SwitchStarts, PTL DEF SwitchSpec

-----------------------------------------------------------------------------
(* Paper execution (executionSimulator.ts, legExecutor.ts, liquidityLedger.ts). *)

HIDE AccessAssumption

LessThan == OpToRel(<, Nat)
(* A nonempty set of naturals has a smallest member. *)
LEMMA Smallest ==
    ASSUME NEW T \in SUBSET Nat, T # {}
    PROVE  \E x \in T : \A y \in T : x <= y
<1>1. IsWellFoundedOn(LessThan, Nat)  BY NatLessThanWellFounded, Zenon DEF LessThan
<1>2. PICK x \in T : \A y \in T : <<y, x>> \notin LessThan  BY <1>1, WFMin, Zenon
<1>3. ASSUME NEW y \in T PROVE x <= y
  <2>1. x \in Nat /\ y \in Nat  OBVIOUS
  <2>2. ~ (y < x)  BY <1>2, <2>1 DEF LessThan, OpToRel
  <2>. QED  BY <2>1, <2>2
<1>. QED  BY <1>3

(* What is taken step by step from a start exists: the function the walk of the listeners  *)
(* defines.                                                                                *)
LEMMA Iteration ==
    ASSUME NEW n \in Nat, NEW A, NEW base \in A, NEW G \in [1 .. n -> [A -> A]]
    PROVE  \E f \in [0 .. n -> A] : f[0] = base /\ \A i \in 1 .. n : f[i] = G[i][f[i - 1]]
<1>1. PICK Short : Short = {k \in 0 .. n : ~ \E f \in [0 .. k -> A] :
                              f[0] = base /\ \A i \in 1 .. k : f[i] = G[i][f[i - 1]]}
  OBVIOUS
<1>2. CASE Short = {}
  <2>1. n \in 0 .. n /\ n \notin Short  BY <1>2
  <2>. QED  BY <1>1, <2>1
<1>3. CASE Short # {}
  <2>1. Short \in SUBSET Nat  BY <1>1
  <2>2. PICK k \in Short : \A l \in Short : k <= l  BY <1>3, <2>1, Smallest
  <2>3. k \in 0 .. n /\ ~ \E f \in [0 .. k -> A] : f[0] = base /\ \A i \in 1 .. k : f[i] = G[i][f[i - 1]]
    BY <1>1, <2>2
  <2>4. CASE k = 0
    <3>1. PICK f : f = [i \in 0 .. 0 |-> base]  OBVIOUS
    <3>2. f \in [0 .. k -> A] /\ f[0] = base /\ \A i \in 1 .. k : f[i] = G[i][f[i - 1]]
      BY <2>4, <3>1
    <3>. QED  BY <2>3, <3>2
  <2>5. CASE k # 0
    <3>1. k - 1 \in 0 .. n /\ k \in 1 .. n /\ ~(k <= k - 1)  BY <2>3, <2>5
    <3>2. k - 1 \notin Short  BY <2>2, <3>1
    <3>3. PICK f \in [0 .. k - 1 -> A] : f[0] = base /\ \A i \in 1 .. k - 1 : f[i] = G[i][f[i - 1]]
      BY <1>1, <3>1, <3>2
    <3>4. PICK g : g = [i \in 0 .. k |-> IF i = k THEN G[k][f[k - 1]] ELSE f[i]]  OBVIOUS
    <3>5. f[k - 1] \in A /\ G[k] \in [A -> A]  BY <3>1, <3>3
    <3>6. G[k][f[k - 1]] \in A  BY <3>5
    <3>7. g \in [0 .. k -> A]
      <4>1. ASSUME NEW i \in 0 .. k PROVE (IF i = k THEN G[k][f[k - 1]] ELSE f[i]) \in A
        BY <2>3, <3>3, <3>6
      <4>. QED  BY <3>4, <4>1
    <3>8. g[0] = base  BY <2>3, <2>5, <3>3, <3>4
    <3>9. ASSUME NEW i \in 1 .. k PROVE g[i] = G[i][g[i - 1]]
      <4>1. g[i - 1] = f[i - 1]  BY <2>3, <3>4
      <4>2. CASE i = k  BY <3>4, <4>1, <4>2
      <4>3. CASE i # k
        <5>1. i \in 1 .. k - 1 /\ i \in 0 .. k  BY <2>3, <4>3
        <5>2. g[i] = f[i]  BY <3>4, <4>3, <5>1
        <5>. QED  BY <3>3, <4>1, <5>1, <5>2
      <4>. QED  BY <4>2, <4>3
    <3>. QED  BY <2>3, <3>7, <3>8, <3>9
  <2>. QED  BY <2>4, <2>5
<1>. QED  BY <1>2, <1>3

Statuses == AtExchange \cup LegDone \cup {"CREATED", "IN_FLIGHT"}
PaperOrders == [status : Statuses, side : Sides, quantity : Nat, filled : Nat]
LegRecords == {l \in PaperOrders : l.filled <= l.quantity}
Books == [version : Nat, displayed : Nat]
Reservations == [version : Nat, quantity : Nat]

PaperShape ==
    /\ subscribers \in Seq(PaperRuns)
    /\ paperBook \in [PaperRoles -> Books]
    /\ reserved \in [PaperRoles -> [Sides -> Reservations]]
    /\ sold \in [PaperRoles -> [Sides -> Nat]]
    /\ paperLegs \in [PaperRuns -> [PaperRoles -> LegRecords]]
    /\ recorded \in [PaperRuns -> [PaperRoles -> Nat]]

(* Under the live-parity profile the ledger holds, for the current book of a contract, what *)
(* all fills took of it, and nothing of a book that is still to come.                       *)
LedgerAgrees(r, s) ==
    /\ sold[r][s] <= paperBook[r].displayed
    /\ sold[r][s] = reservedAt(r, s, paperBook[r].version)
    /\ reserved[r][s].version <= paperBook[r].version

PaperInv ==
    /\ PaperShape
    /\ profile = "parity" => \A r \in PaperRoles, s \in Sides : LedgerAgrees(r, s)

(* The lesser of two. *)
LEMMA Lesser ==
    ASSUME NEW a \in Nat, NEW b \in Nat
    PROVE  Min({a, b}) \in Nat /\ Min({a, b}) <= a /\ Min({a, b}) <= b
<1>1. \E x \in {a, b} : \A y \in {a, b} : x <= y
  <2>1. a <= b \/ b <= a  OBVIOUS
  <2>2. a <= a /\ b <= b  OBVIOUS
  <2>. QED  BY <2>1, <2>2
<1>2. Min({a, b}) \in {a, b} /\ \A y \in {a, b} : Min({a, b}) <= y  BY <1>1, Zenon DEF Min
<1>. QED  BY <1>2

(* What may have been taken of a book: under live parity no more than it displays. *)
Takeable(book) == {t \in [Sides -> Nat] : profile = "parity" => \A s \in Sides : t[s] <= book.displayed}

(* One listener's fill is a quantity its order still wants, and leaves the rest takeable. *)
LEMMA OneTaking ==
    ASSUME PaperShape, NEW p \in PaperRuns, NEW r \in PaperRoles, NEW book \in Books,
           NEW within, NEW t \in Takeable(book)
    PROVE  /\ QuoteFill(p, r, book, within, t) \in Nat
           /\ QuoteFill(p, r, book, within, t) <= Outstanding(paperLegs[p][r])
           /\ Taking(p, r, book, within, t) \in Takeable(book)
<1>1. PICK leg : leg = paperLegs[p][r]  OBVIOUS
<1>2. leg \in LegRecords  BY <1>1 DEF PaperShape
<1>3. leg.side \in Sides /\ leg.quantity \in Nat /\ leg.filled \in Nat /\ leg.filled <= leg.quantity
  BY <1>2 DEF LegRecords, PaperOrders
<1>4. Outstanding(leg) \in Nat  BY <1>3 DEF Outstanding
<1>5. t \in [Sides -> Nat] /\ (profile = "parity" => \A s \in Sides : t[s] <= book.displayed)
      /\ book.displayed \in Nat
  BY DEF Takeable, Books
<1>6. PICK left : left = IF profile = "parity" THEN book.displayed - t[leg.side] ELSE book.displayed  OBVIOUS
<1>7. left \in Nat /\ (profile = "parity" => t[leg.side] + left <= book.displayed)  BY <1>3, <1>5, <1>6
<1>8. PICK q : q = QuoteFill(p, r, book, within, t)  OBVIOUS
<1>9. q = IF p \in within THEN Min({Outstanding(leg), left}) ELSE 0
  BY <1>1, <1>6, <1>8, Zenon DEF QuoteFill
<1>10. q \in Nat /\ q <= Outstanding(leg) /\ q <= left  BY <1>4, <1>7, <1>9, Lesser
<1>11. PICK u : u = [t EXCEPT ![leg.side] = t[leg.side] + q]  OBVIOUS
<1>12. Taking(p, r, book, within, t) = u  BY <1>1, <1>8, <1>11, Zenon DEF Taking
<1>13. u \in [Sides -> Nat]  BY <1>3, <1>5, <1>10, <1>11
<1>14. \A s \in Sides : u[s] = IF s = leg.side THEN t[s] + q ELSE t[s]  BY <1>5, <1>11
<1>15. profile = "parity" => \A s \in Sides : u[s] <= book.displayed
  <2>. SUFFICES ASSUME profile = "parity", NEW s \in Sides PROVE u[s] <= book.displayed  OBVIOUS
  <2>1. CASE s = leg.side
    <3>1. t[s] \in Nat /\ t[s] + left <= book.displayed /\ u[s] = t[s] + q  BY <1>5, <1>7, <1>14, <2>1
    <3>. QED  BY <1>5, <1>7, <1>10, <3>1
  <2>2. CASE s # leg.side  BY <1>5, <1>14, <2>2
  <2>. QED  BY <2>1, <2>2
<1>16. u \in Takeable(book)  BY <1>13, <1>15 DEF Takeable
<1>. QED  BY <1>1, <1>8, <1>10, <1>12, <1>16

(* The walk of the listeners is well defined, and takes what is takeable after each of them. *)
LEMMA TheWalk ==
    ASSUME PaperShape, NEW r \in PaperRoles, NEW book \in Books, NEW within
    PROVE  \A i \in 0 .. Len(subscribers) : Takings(r, book, within)[i] \in Takeable(book)
<1>1. PICK n, subs : n = Len(subscribers) /\ subs = subscribers  OBVIOUS
<1>2. n \in Nat /\ \A i \in 1 .. n : subs[i] \in PaperRuns  BY <1>1 DEF PaperShape
<1>3. PICK A, base : A = Takeable(book) /\ base = [s \in Sides |-> 0]  OBVIOUS
<1>4. base \in A
  <2>1. base \in [Sides -> Nat] /\ \A s \in Sides : base[s] = 0  BY <1>3
  <2>2. book.displayed \in Nat /\ 0 <= book.displayed  BY DEF Books
  <2>. QED  BY <1>3, <2>1, <2>2 DEF Takeable
<1>5. PICK G : G = [i \in 1 .. n |-> [t \in A |-> Taking(subs[i], r, book, within, t)]]  OBVIOUS
<1>6. ASSUME NEW i \in 1 .. n, NEW t \in A PROVE Taking(subs[i], r, book, within, t) \in A
  BY <1>2, <1>3, OneTaking
<1>7. G \in [1 .. n -> [A -> A]]  BY <1>5, <1>6
<1>8. PICK f \in [0 .. n -> A] : f[0] = base /\ \A i \in 1 .. n : f[i] = G[i][f[i - 1]]
  BY <1>2, <1>4, <1>7, Iteration
<1>9. ASSUME NEW i \in 1 .. n PROVE f[i] = Taking(subs[i], r, book, within, f[i - 1])
  <2>1. i - 1 \in 0 .. n  BY <1>2
  <2>2. f[i - 1] \in A  BY <1>8, <2>1
  <2>3. f[i] = G[i][f[i - 1]]  BY <1>8
  <2>. QED  BY <1>5, <2>2, <2>3
<1>10. f = [i \in 0 .. n |-> IF i = 0 THEN base ELSE Taking(subs[i], r, book, within, f[i - 1])]
  <2>1. ASSUME NEW i \in 0 .. n
        PROVE  f[i] = IF i = 0 THEN base ELSE Taking(subs[i], r, book, within, f[i - 1])
    <3>1. CASE i = 0  BY <1>8, <3>1
    <3>2. CASE i # 0
      <4>1. i \in 1 .. n  BY <1>2, <3>2
      <4>. QED  BY <1>9, <3>2, <4>1
    <3>. QED  BY <3>1, <3>2
  <2>. QED  BY <1>8, <2>1
<1>11. PICK walk : walk = Takings(r, book, within)  OBVIOUS
<1>12. walk = [i \in 0 .. n |-> IF i = 0 THEN base ELSE Taking(subs[i], r, book, within, walk[i - 1])]
  BY <1>1, <1>3, <1>10, <1>11, Zenon DEF Takings
<1>13. ASSUME NEW i \in 0 .. n, walk[i] \notin A PROVE FALSE
  <2>1. PICK Bad : Bad = {k \in 0 .. n : walk[k] \notin A}  OBVIOUS
  <2>2. Bad \in SUBSET Nat /\ Bad # {}  BY <1>2, <1>13, <2>1
  <2>3. PICK k \in Bad : \A l \in Bad : k <= l  BY <2>2, Smallest
  <2>4. k \in 0 .. n /\ walk[k] \notin A  BY <2>1, <2>3
  <2>5. CASE k = 0
    <3>1. walk[k] = base  BY <1>12, <2>4, <2>5
    <3>. QED  BY <1>4, <2>4, <3>1
  <2>6. CASE k # 0
    <3>1. k \in 1 .. n /\ k - 1 \in 0 .. n /\ ~(k <= k - 1)  BY <1>2, <2>4, <2>6
    <3>2. walk[k - 1] \in A  BY <2>1, <2>3, <3>1
    <3>3. walk[k] = Taking(subs[k], r, book, within, walk[k - 1])  BY <1>12, <2>4, <2>6
    <3>. QED  BY <1>6, <2>4, <3>1, <3>2, <3>3
  <2>. QED  BY <2>5, <2>6
<1>. QED  BY <1>1, <1>3, <1>11, <1>13

Tables == [PaperRoles -> LegRecords]

(* A new status leaves an order's quantities alone. *)
LEMMA Relabelled ==
    ASSUME NEW l \in LegRecords, NEW x \in Statuses
    PROVE  [l EXCEPT !.status = x] \in LegRecords
<1>1. PICK m : m = [l EXCEPT !.status = x]  OBVIOUS
<1>2. l \in PaperOrders /\ l.filled <= l.quantity  BY Zenon DEF LegRecords
<1>3. m \in PaperOrders /\ m.filled = l.filled /\ m.quantity = l.quantity
  BY <1>1, <1>2, Zenon DEF PaperOrders
<1>4. m.filled <= m.quantity  BY <1>2, <1>3, Zenon
<1>5. m \in LegRecords  BY <1>3, <1>4, Zenon DEF LegRecords
<1>. QED  BY <1>1, <1>5, Zenon

(* A leg's transitions: abandoned, cancelled on request, expired. *)
LEMMA Transitions ==
    ASSUME NEW l \in LegRecords, NEW b
    PROVE  Abandoned(l) \in LegRecords /\ requestCancel(l, b) \in LegRecords /\ expire(l) \in LegRecords
<1>0. {"FAILED", "CANCELLED", "CANCEL_REQUESTED", "TIMED_OUT"} \subseteq Statuses
  BY DEF Statuses, AtExchange, LegDone
<1>1. Abandoned(l) \in LegRecords
  <2>1. [l EXCEPT !.status = "CANCELLED"] \in LegRecords /\ [l EXCEPT !.status = "FAILED"] \in LegRecords
    BY <1>0, Relabelled, Zenon
  <2>2. CASE l.filled > 0  BY <2>1, <2>2, Zenon DEF Abandoned
  <2>3. CASE ~(l.filled > 0)  BY <2>1, <2>3, Zenon DEF Abandoned
  <2>. QED  BY <2>2, <2>3, Zenon
<1>2. [l EXCEPT !.status = "CANCEL_REQUESTED"] \in LegRecords /\ [l EXCEPT !.status = "TIMED_OUT"] \in LegRecords
  BY <1>0, Relabelled, Zenon
<1>3. expire(l) \in LegRecords
  <2>1. CASE cancelRace  BY <1>2, <2>1, Zenon DEF expire
  <2>2. CASE ~cancelRace  BY <1>2, <2>2, Zenon DEF expire
  <2>. QED  BY <2>1, <2>2, Zenon
<1>4. requestCancel(l, b) \in LegRecords
  <2>1. requestCancel(l, b) \in {l, Abandoned(l), [l EXCEPT !.status = "CANCEL_REQUESTED"]}
    <3>1. CASE l.status \in LegDone \cup {"CANCEL_REQUESTED"}  BY <3>1, Zenon DEF requestCancel
    <3>2. CASE l.status \notin LegDone \cup {"CANCEL_REQUESTED"} /\ (l.status = "CREATED" \/ (l.status = "IN_FLIGHT" /\ ~b))
      BY <3>2, Zenon DEF requestCancel
    <3>3. CASE l.status \notin LegDone \cup {"CANCEL_REQUESTED"} /\ ~(l.status = "CREATED" \/ (l.status = "IN_FLIGHT" /\ ~b))
      <4>1. CASE cancelRace  BY <3>3, <4>1, Zenon DEF requestCancel
      <4>2. CASE ~cancelRace  BY <3>3, <4>2, Zenon DEF requestCancel
      <4>. QED  BY <4>1, <4>2, Zenon
    <3>. QED  BY <3>1, <3>2, <3>3, Zenon
  <2>. QED  BY <1>1, <1>2, <2>1, Zenon
<1>. QED  BY <1>1, <1>3, <1>4, Zenon

(* A fill of what an order still wants. *)
LEMMA Filling ==
    ASSUME NEW l \in LegRecords, NEW q \in Nat, q <= Outstanding(l)
    PROVE  WithFill(l, q) \in LegRecords
<1>1. PICK x : x = CASE l.filled + q = l.quantity -> "FILLED"
                     [] q > 0 /\ l.status # "CANCEL_REQUESTED" -> "PARTIALLY_FILLED"
                     [] OTHER -> l.status
  OBVIOUS
<1>2. PICK f : f = l.filled + q  OBVIOUS
<1>3. PICK m : m = [l EXCEPT !.filled = f, !.status = x]  OBVIOUS
<1>4. m = WithFill(l, q)  BY <1>1, <1>2, <1>3, Zenon DEF WithFill
<1>5. l \in PaperOrders /\ l.quantity \in Nat /\ l.filled \in Nat /\ l.filled <= l.quantity /\ l.status \in Statuses
  BY Zenon DEF LegRecords, PaperOrders
<1>6. f \in Nat /\ f <= l.quantity  BY <1>2, <1>5 DEF Outstanding
<1>7. x \in Statuses
  <2>1. x \in {"FILLED", "PARTIALLY_FILLED", l.status}  BY <1>1
  <2>. QED  BY <1>5, <2>1 DEF Statuses, AtExchange, LegDone
<1>8. m \in PaperOrders /\ m.filled = f /\ m.quantity = l.quantity
  BY <1>3, <1>5, <1>6, <1>7, Zenon DEF PaperOrders
<1>9. m.filled <= m.quantity  BY <1>6, <1>8, Zenon
<1>. QED  BY <1>4, <1>8, <1>9, Zenon DEF LegRecords

(* A table of legs stays one. *)
LEMMA TablesKept ==
    ASSUME NEW t \in Tables
    PROVE  cancelRemaining(t) \in Tables /\ submitNext(t) \in Tables
<1>0. "FAILED" \in Statuses /\ "IN_FLIGHT" \in Statuses  BY DEF Statuses, AtExchange, LegDone
<1>1. ASSUME NEW r \in PaperRoles
      PROVE  (IF profile = "sequential" /\ t[r].status = "CREATED"
              THEN [t[r] EXCEPT !.status = "FAILED"] ELSE t[r]) \in LegRecords
  <2>1. t[r] \in LegRecords  BY Zenon DEF Tables
  <2>2. [t[r] EXCEPT !.status = "FAILED"] \in LegRecords  BY <1>0, <2>1, Relabelled, Zenon
  <2>3. CASE profile = "sequential" /\ t[r].status = "CREATED"  BY <2>2, <2>3, Zenon
  <2>4. CASE ~(profile = "sequential" /\ t[r].status = "CREATED")  BY <2>1, <2>4, Zenon
  <2>. QED  BY <2>3, <2>4, Zenon
<1>2. cancelRemaining(t) \in Tables  BY <1>1, Zenon DEF cancelRemaining, Tables
<1>3. PICK created : created = {r \in PaperRoles : t[r].status = "CREATED"}  OBVIOUS
<1>4. CASE profile = "sequential" /\ created # {}
  <2>1. PICK c : c = CHOOSE r \in created : TRUE  OBVIOUS
  <2>2. c \in PaperRoles  BY <1>3, <1>4, <2>1, Zenon
  <2>3. PICK m : m = [t[c] EXCEPT !.status = "IN_FLIGHT"]  OBVIOUS
  <2>4. m \in LegRecords
    <3>1. t[c] \in LegRecords  BY <2>2, Zenon DEF Tables
    <3>. QED  BY <1>0, <2>3, <3>1, Relabelled, Zenon
  <2>5. submitNext(t) = [t EXCEPT ![c].status = "IN_FLIGHT"]  BY <1>3, <1>4, <2>1, Zenon DEF submitNext
  <2>6. submitNext(t) = [t EXCEPT ![c] = m]  BY <2>3, <2>5, Zenon
  <2>7. [t EXCEPT ![c] = m] \in Tables  BY <2>2, <2>4 DEF Tables
  <2>. QED  BY <1>2, <2>6, <2>7, Zenon
<1>5. CASE ~(profile = "sequential" /\ created # {})
  <2>1. submitNext(t) = t  BY <1>3, <1>5, Zenon DEF submitNext
  <2>. QED  BY <1>2, <2>1, Zenon
<1>. QED  BY <1>4, <1>5, Zenon

(* The legs a run starts with. *)
LEMMA RunStarts ==
    ASSUME NEW side \in Sides, NEW quantities \in [PaperRoles -> Nat]
    PROVE  RunLegs(side, quantities) \in Tables
<1>1. ASSUME NEW q \in Nat, NEW x \in Statuses
      PROVE  [status |-> x, side |-> side, quantity |-> q, filled |-> 0] \in LegRecords
  BY <1>1 DEF LegRecords, PaperOrders
<1>2. NoLeg \in LegRecords  BY DEF NoLeg, LegRecords, PaperOrders, Statuses, LegDone, Sides
<1>3. "CREATED" \in Statuses /\ "IN_FLIGHT" \in Statuses  BY DEF Statuses
<1>. DEFINE wanted == {r \in PaperRoles : quantities[r] > 0}
            first == CHOOSE r \in wanted : TRUE
<1>6. ASSUME NEW r \in PaperRoles
      PROVE  (IF r \notin wanted THEN NoLeg
              ELSE [status |-> IF profile # "sequential" \/ r = first THEN "IN_FLIGHT" ELSE "CREATED",
                    side |-> side, quantity |-> quantities[r], filled |-> 0]) \in LegRecords
  <2>1. PICK x : x = IF profile # "sequential" \/ r = first THEN "IN_FLIGHT" ELSE "CREATED"  OBVIOUS
  <2>2. x \in Statuses  BY <1>3, <2>1
  <2>3. quantities[r] \in Nat  OBVIOUS
  <2>4. [status |-> x, side |-> side, quantity |-> quantities[r], filled |-> 0] \in LegRecords
    BY <1>1, <2>2, <2>3, Zenon
  <2>5. CASE r \notin wanted  BY <1>2, <2>5, Zenon
  <2>6. CASE r \in wanted  BY <2>1, <2>4, <2>6, Zenon
  <2>. QED  BY <2>5, <2>6, Zenon
<1>7. RunLegs(side, quantities) =
        [r \in PaperRoles |-> IF r \notin wanted THEN NoLeg
              ELSE [status |-> IF profile # "sequential" \/ r = first THEN "IN_FLIGHT" ELSE "CREATED",
                    side |-> side, quantity |-> quantities[r], filled |-> 0]]
  BY Zenon DEF RunLegs
<1>. QED  BY <1>6, <1>7, Zenon DEF Tables

(* Who listens stays a sequence of runs; a run that listens has a position. *)
LEMMA Listeners ==
    ASSUME PaperShape, NEW p \in PaperRuns
    PROVE  /\ p \in Range(subscribers) => Position(p) \in 1 .. Len(subscribers)
           /\ Unsubscribed(p) \in Seq(PaperRuns)
           /\ Append(Unsubscribed(p), p) \in Seq(PaperRuns)
<1>0. subscribers \in Seq(PaperRuns)  BY DEF PaperShape
<1>1. ASSUME p \in Range(subscribers) PROVE Position(p) \in 1 .. Len(subscribers)
  <2>1. \E i \in DOMAIN subscribers : subscribers[i] = p  BY <1>1, Zenon DEF Range
  <2>2. Position(p) \in DOMAIN subscribers  BY <2>1, Zenon DEF Position
  <2>. QED  BY <1>0, <2>2
<1>2. Unsubscribed(p) \in Seq(PaperRuns)
  <2>1. CASE p \in Range(subscribers)
    <3>1. PICK k \in 1 .. Len(subscribers) : k = Position(p)  BY <1>1, <2>1
    <3>2. Unsubscribed(p) = SubSeq(subscribers, 1, k - 1) \o SubSeq(subscribers, k + 1, Len(subscribers))
      BY <2>1, <3>1, Zenon DEF Unsubscribed, RemoveAt
    <3>3. SubSeq(subscribers, 1, k - 1) \in Seq(PaperRuns)  BY <1>0, <3>1
    <3>4. SubSeq(subscribers, k + 1, Len(subscribers)) \in Seq(PaperRuns)  BY <1>0, <3>1
    <3>. QED  BY <3>2, <3>3, <3>4
  <2>2. CASE p \notin Range(subscribers)  BY <1>0, <2>2, Zenon DEF Unsubscribed
  <2>. QED  BY <2>1, <2>2
<1>. QED  BY <1>1, <1>2

(* A step that leaves the books, the ledger and the sales alone. *)
LEMMA BooksKept ==
    ASSUME PaperInv, UNCHANGED <<profile, paperBook, reserved, sold>>,
           subscribers' \in Seq(PaperRuns), paperLegs' \in [PaperRuns -> Tables],
           recorded' \in [PaperRuns -> [PaperRoles -> Nat]]
    PROVE  PaperInv'
<1>1. PaperShape'  BY Zenon DEF PaperInv, PaperShape, Tables
<1>2. ASSUME NEW r \in PaperRoles, NEW s \in Sides PROVE LedgerAgrees(r, s)' <=> LedgerAgrees(r, s)
  BY Zenon DEF LedgerAgrees, reservedAt
<1>. QED  BY <1>1, <1>2, Zenon DEF PaperInv

(* A step of one run's legs alone. *)
LEMMA LegsMove ==
    ASSUME PaperInv, NEW p \in PaperRuns, NEW t \in Tables, paperLegs' = [paperLegs EXCEPT ![p] = t],
           UNCHANGED <<profile, paperBook, reserved, subscribers, sold, recorded>>
    PROVE  PaperInv'
<1>1. paperLegs \in [PaperRuns -> Tables] /\ subscribers \in Seq(PaperRuns)
      /\ recorded \in [PaperRuns -> [PaperRoles -> Nat]]
  BY Zenon DEF PaperInv, PaperShape, Tables
<1>2. paperLegs' \in [PaperRuns -> Tables]  BY <1>1
<1>. QED  BY <1>1, <1>2, BooksKept, Zenon

(* A run of orders starts. *)
LEMMA RunBegins ==
    ASSUME PaperInv, NEW p \in PaperRuns, NEW to, NEW side \in Sides,
           NEW quantities \in [PaperRoles -> Nat], StartRun(p, to, side, quantities),
           UNCHANGED <<profile, paperBook, reserved, sold, recorded>>
    PROVE  PaperInv'
<1>1. paperLegs \in [PaperRuns -> Tables] /\ recorded \in [PaperRuns -> [PaperRoles -> Nat]]
  BY Zenon DEF PaperInv, PaperShape, Tables
<1>2. PICK t \in Tables : t = RunLegs(side, quantities)  BY RunStarts, Zenon
<1>3. paperLegs' = [paperLegs EXCEPT ![p] = t] /\ subscribers' = Append(Unsubscribed(p), p)
  BY <1>2, Zenon DEF StartRun
<1>4. paperLegs' \in [PaperRuns -> Tables]  BY <1>1, <1>3
<1>5. subscribers' \in Seq(PaperRuns)  BY <1>3, Listeners, Zenon DEF PaperInv
<1>. QED  BY <1>1, <1>4, <1>5, BooksKept, Zenon

(* A run ends: its listener goes, and its result is written down or not. *)
LEMMA RunEnds ==
    ASSUME PaperInv, NEW p \in PaperRuns, NEW held \in [PaperRoles -> Nat],
           Unsubscribe(p) \/ UNCHANGED subscribers,
           recorded' = [recorded EXCEPT ![p] = held] \/ UNCHANGED recorded,
           UNCHANGED <<profile, paperBook, reserved, sold, paperLegs>>
    PROVE  PaperInv'
<1>1. paperLegs \in [PaperRuns -> Tables] /\ recorded \in [PaperRuns -> [PaperRoles -> Nat]]
      /\ subscribers \in Seq(PaperRuns)
  BY Zenon DEF PaperInv, PaperShape, Tables
<1>2. paperLegs' \in [PaperRuns -> Tables]  BY <1>1, Zenon
<1>3. subscribers' \in Seq(PaperRuns)
  <2>1. Unsubscribed(p) \in Seq(PaperRuns)  BY Listeners, Zenon DEF PaperInv
  <2>2. subscribers' = Unsubscribed(p) \/ subscribers' = subscribers  BY Zenon DEF Unsubscribe
  <2>. QED  BY <1>1, <2>1, <2>2, Zenon
<1>4. recorded' \in [PaperRuns -> [PaperRoles -> Nat]]
  <2>1. [recorded EXCEPT ![p] = held] \in [PaperRuns -> [PaperRoles -> Nat]]  BY <1>1
  <2>. QED  BY <1>1, <2>1, Zenon
<1>. QED  BY <1>2, <1>3, <1>4, BooksKept, Zenon

(* What a result may report: a lot a leg, what filled, what is left. *)
LEMMA Results ==
    ASSUME PaperInv, NEW p \in PaperRuns
    PROVE  /\ Flat \in [PaperRoles -> Nat] /\ OneLot(p) \in [PaperRoles -> Nat]
           /\ Fills(p) \in [PaperRoles -> Nat] /\ Remain(p) \in [PaperRoles -> Nat]
           /\ recorded[p] \in [PaperRoles -> Nat]
<1>1. Flat \in [PaperRoles -> Nat]  BY DEF Flat
<1>2. OneLot(p) \in [PaperRoles -> Nat]  BY PaperAssumption DEF OneLot
<1>3. ASSUME NEW r \in PaperRoles
      PROVE  paperLegs[p][r].filled \in Nat /\ Outstanding(paperLegs[p][r]) \in Nat
  <2>1. paperLegs[p][r] \in LegRecords  BY Zenon DEF PaperInv, PaperShape
  <2>2. paperLegs[p][r].quantity \in Nat /\ paperLegs[p][r].filled \in Nat
        /\ paperLegs[p][r].filled <= paperLegs[p][r].quantity
    BY <2>1, Zenon DEF LegRecords, PaperOrders
  <2>. QED  BY <2>2 DEF Outstanding
<1>4. Fills(p) \in [PaperRoles -> Nat] /\ Remain(p) \in [PaperRoles -> Nat]
  BY <1>3, Zenon DEF Fills, Remain
<1>5. recorded[p] \in [PaperRoles -> Nat]  BY Zenon DEF PaperInv, PaperShape
<1>. QED  BY <1>1, <1>2, <1>4, <1>5, Zenon

(* The loop sees a timeout, or the confirmation of a cancel. *)
LEMMA LegsSettle ==
    ASSUME PaperInv, NEW p \in PaperRuns, NEW r \in PaperRoles,
           LegExpires(p, r) \/ confirmCancel(p, r)
    PROVE  PaperInv'
<1>0. UNCHANGED <<profile, paperBook, reserved, subscribers, sold, recorded>>
  BY Zenon DEF LegExpires, confirmCancel
<1>1. PICK legs \in Tables : legs = paperLegs[p]  BY Zenon DEF PaperInv, PaperShape, Tables
<1>2. legs[r] \in LegRecords  BY <1>1, Zenon DEF Tables
<1>3. ASSUME NEW l \in LegRecords
      PROVE  [legs EXCEPT ![r] = l] \in Tables /\ cancelRemaining([legs EXCEPT ![r] = l]) \in Tables
  <2>1. [legs EXCEPT ![r] = l] \in Tables  BY <1>1 DEF Tables
  <2>. QED  BY <2>1, TablesKept, Zenon
<1>5. CASE LegExpires(p, r)
  <2>1. PICK l \in LegRecords : l = expire(legs[r])  BY <1>2, Transitions, Zenon
  <2>2. PICK u : u = [legs EXCEPT ![r] = l]  OBVIOUS
  <2>3. u \in Tables /\ cancelRemaining(u) \in Tables  BY <1>3, <2>2, Zenon
  <2>4. paperLegs' = [paperLegs EXCEPT ![p] = IF u[r].status \in LegDone THEN cancelRemaining(u) ELSE u]
    BY <1>1, <1>5, <2>1, <2>2, Zenon DEF LegExpires
  <2>5. PICK t \in Tables : paperLegs' = [paperLegs EXCEPT ![p] = t]
    <3>1. CASE u[r].status \in LegDone  BY <2>3, <2>4, <3>1, Zenon
    <3>2. CASE u[r].status \notin LegDone  BY <2>3, <2>4, <3>2, Zenon
    <3>. QED  BY <3>1, <3>2, Zenon
  <2>. QED  BY <1>0, <2>5, LegsMove, Zenon
<1>6. CASE confirmCancel(p, r)
  <2>0. [legs[r] EXCEPT !.status = "TIMED_OUT"] \in LegRecords
    <3>1. "TIMED_OUT" \in Statuses  BY DEF Statuses, LegDone
    <3>. QED  BY <1>2, <3>1, Relabelled, Zenon
  <2>1. Abandoned(legs[r]) \in LegRecords  BY <1>2, Transitions, Zenon
  <2>2. PICK l \in LegRecords :
          paperLegs' = [paperLegs EXCEPT ![p] = cancelRemaining([legs EXCEPT ![r] = l])]
    <3>1. CASE aborting[p]
      <4>1. paperLegs' = [paperLegs EXCEPT ![p] = cancelRemaining([legs EXCEPT ![r] = Abandoned(legs[r])])]
        BY <1>1, <1>6, <3>1, Zenon DEF confirmCancel
      <4>. QED  BY <2>1, <4>1, Zenon
    <3>2. CASE ~aborting[p]
      <4>1. paperLegs' = [paperLegs EXCEPT ![p] =
              cancelRemaining([legs EXCEPT ![r] = [legs[r] EXCEPT !.status = "TIMED_OUT"]])]
        BY <1>1, <1>6, <3>2, Zenon DEF confirmCancel
      <4>. QED  BY <2>0, <4>1, Zenon
    <3>. QED  BY <3>1, <3>2, Zenon
  <2>3. PICK t \in Tables : t = cancelRemaining([legs EXCEPT ![r] = l])  BY <1>3, Zenon
  <2>4. paperLegs' = [paperLegs EXCEPT ![p] = t]  BY <2>2, <2>3, Zenon
  <2>. QED  BY <1>0, <2>4, LegsMove, Zenon
<1>. QED  BY <1>5, <1>6, Zenon

(* A reason to abort: every leg not yet done is asked to cancel. *)
LEMMA LegsAbort ==
    ASSUME PaperInv, NEW p \in PaperRuns, RunAborts(p)
    PROVE  PaperInv'
<1>0. UNCHANGED <<profile, paperBook, reserved, subscribers, sold, recorded>>  BY Zenon DEF RunAborts
<1>1. PICK legs \in Tables : legs = paperLegs[p]  BY Zenon DEF PaperInv, PaperShape, Tables
<1>2. PICK arrived : paperLegs' = [paperLegs EXCEPT ![p] =
                       [c \in PaperRoles |-> requestCancel(paperLegs[p][c], c \in arrived)]]
  BY Zenon DEF RunAborts
<1>3. ASSUME NEW c \in PaperRoles PROVE requestCancel(legs[c], c \in arrived) \in LegRecords
  <2>1. legs[c] \in LegRecords  BY <1>1, Zenon DEF Tables
  <2>2. PICK b : b = (c \in arrived)  OBVIOUS
  <2>3. requestCancel(legs[c], b) \in LegRecords  BY <2>1, Transitions, Zenon
  <2>. QED  BY <2>2, <2>3, Zenon
<1>4. PICK t : t = [c \in PaperRoles |-> requestCancel(paperLegs[p][c], c \in arrived)]  OBVIOUS
<1>5. t \in Tables  BY <1>1, <1>3, <1>4, Zenon DEF Tables
<1>6. paperLegs' = [paperLegs EXCEPT ![p] = t]  BY <1>2, <1>4, Zenon
<1>. QED  BY <1>0, <1>5, <1>6, LegsMove, Zenon

(* A new book of a contract: it is displayed to all listeners, and what they take of it    *)
(* together is on the ledger.                                                              *)
LEMMA BookPublished ==
    ASSUME PaperInv, NEW r \in PaperRoles, PublishBook(r)
    PROVE  PaperInv'
<1>0. PaperShape /\ UNCHANGED <<profile, subscribers, recorded>>  BY Zenon DEF PaperInv, PublishBook
<1>1. PICK displayed \in 0 .. PaperLot, within \in SUBSET {p \in Range(subscribers) : paperLegs[p][r].status \in AtExchange} :
        LET book == [version |-> paperBook[r].version + 1, displayed |-> displayed]
            taken == Takings(r, book, within)
            fill == [p \in within |-> QuoteFill(p, r, book, within, taken[Position(p) - 1])]
            all == taken[Len(subscribers)]
        IN /\ paperBook' = [paperBook EXCEPT ![r] = book]
           /\ paperLegs' = [p \in PaperRuns |->
                IF p \in within THEN [paperLegs[p] EXCEPT ![r] = WithFill(@, fill[p])] ELSE paperLegs[p]]
           /\ sold' = [sold EXCEPT ![r] = all]
           /\ reserved' = [reserved EXCEPT ![r] = [s \in Sides |->
                             IF profile = "parity" /\ all[s] > 0
                             THEN [version |-> book.version, quantity |-> all[s]] ELSE @[s]]]
  BY Zenon DEF PublishBook
<1>2. PICK book : book = [version |-> paperBook[r].version + 1, displayed |-> displayed]  OBVIOUS
<1>3. PICK was : was = paperBook[r]  OBVIOUS
<1>4. was \in Books  BY <1>0, <1>3, Zenon DEF PaperShape
<1>5. was.version \in Nat /\ was.displayed \in Nat  BY <1>4, Zenon DEF Books
<1>6. displayed \in Nat  BY PaperAssumption
<1>7. book.version = was.version + 1 /\ book.displayed = displayed /\ book \in Books
      /\ book.version \in Nat /\ was.version < book.version
  BY <1>2, <1>3, <1>5, <1>6 DEF Books
<1>8. PICK taken : taken = Takings(r, book, within)  OBVIOUS
<1>9. PICK n : n = Len(subscribers)  OBVIOUS
<1>10. \A i \in 0 .. n : taken[i] \in Takeable(book)  BY <1>0, <1>7, <1>8, <1>9, TheWalk, Zenon
<1>11. n \in Nat  BY <1>0, <1>9 DEF PaperShape
<1>12. PICK all : all = taken[n]  OBVIOUS
<1>13. all \in Takeable(book)
  <2>1. n \in 0 .. n  BY <1>11
  <2>. QED  BY <1>10, <1>12, <2>1, Zenon
<1>14. all \in [Sides -> Nat] /\ (profile = "parity" => \A s \in Sides : all[s] <= book.displayed)
  BY <1>13, Zenon DEF Takeable
<1>15. paperBook' = [paperBook EXCEPT ![r] = book] /\ sold' = [sold EXCEPT ![r] = all]
  BY <1>1, <1>2, <1>8, <1>9, <1>12, Zenon
<1>16. paperBook' \in [PaperRoles -> Books] /\ sold' \in [PaperRoles -> [Sides -> Nat]]
       /\ paperBook'[r] = book /\ sold'[r] = all
       /\ \A c \in PaperRoles \ {r} : paperBook'[c] = paperBook[c] /\ sold'[c] = sold[c]
  BY <1>0, <1>7, <1>14, <1>15 DEF PaperShape
<1>17. PICK row : row = [s \in Sides |-> IF profile = "parity" /\ all[s] > 0
                           THEN [version |-> book.version, quantity |-> all[s]] ELSE reserved[r][s]]
  OBVIOUS
<1>18. reserved' = [reserved EXCEPT ![r] = row]
  BY <1>1, <1>2, <1>8, <1>9, <1>12, <1>17, Zenon
<1>19. \A s \in Sides : [version |-> book.version, quantity |-> all[s]] \in Reservations
                        /\ reserved[r][s] \in Reservations
  <2>1. reserved[r] \in [Sides -> Reservations]  BY <1>0, Zenon DEF PaperShape
  <2>. QED  BY <1>7, <1>14, <2>1 DEF Reservations
<1>20. row \in [Sides -> Reservations]  BY <1>17, <1>19
<1>21. reserved' \in [PaperRoles -> [Sides -> Reservations]] /\ reserved'[r] = row
       /\ \A c \in PaperRoles \ {r} : reserved'[c] = reserved[c]
  BY <1>0, <1>18, <1>20 DEF PaperShape
<1>22. paperLegs' \in [PaperRuns -> Tables]
  <2>1. ASSUME NEW p \in PaperRuns, p \in within
        PROVE  [paperLegs[p] EXCEPT ![r] = WithFill(paperLegs[p][r], QuoteFill(p, r, book, within, taken[Position(p) - 1]))]
                 \in Tables
    <3>1. p \in Range(subscribers)  BY <2>1, Zenon
    <3>2. Position(p) \in 1 .. n  BY <1>0, <1>9, <3>1, Listeners, Zenon
    <3>3. PICK k : k = Position(p) - 1  OBVIOUS
    <3>4. k \in 0 .. n  BY <1>11, <3>2, <3>3
    <3>5. taken[k] \in Takeable(book)  BY <1>10, <3>4, Zenon
    <3>6. PICK q : q = QuoteFill(p, r, book, within, taken[k])  OBVIOUS
    <3>7. q \in Nat /\ q <= Outstanding(paperLegs[p][r])  BY <1>0, <1>7, <3>5, <3>6, OneTaking, Zenon
    <3>8. paperLegs[p] \in Tables /\ paperLegs[p][r] \in LegRecords  BY <1>0, Zenon DEF PaperShape, Tables
    <3>9. PICK l \in LegRecords : l = WithFill(paperLegs[p][r], q)  BY <3>7, <3>8, Filling, Zenon
    <3>10. PICK t : t = paperLegs[p]  OBVIOUS
    <3>11. [t EXCEPT ![r] = l] \in Tables  BY <3>8, <3>10 DEF Tables
    <3>. QED  BY <3>3, <3>6, <3>9, <3>10, <3>11, Zenon
  <2>2. ASSUME NEW p \in PaperRuns
        PROVE  (IF p \in within
                THEN [paperLegs[p] EXCEPT ![r] = WithFill(@, [c \in within |-> QuoteFill(c, r, book, within, taken[Position(c) - 1])][p])]
                ELSE paperLegs[p]) \in Tables
    <3>1. paperLegs[p] \in Tables  BY <1>0, Zenon DEF PaperShape, Tables
    <3>2. CASE p \in within  BY <2>1, <3>2, Zenon
    <3>3. CASE p \notin within  BY <3>1, <3>3, Zenon
    <3>. QED  BY <3>2, <3>3, Zenon
  <2>3. paperLegs' = [p \in PaperRuns |->
           IF p \in within
           THEN [paperLegs[p] EXCEPT ![r] = WithFill(@, [c \in within |-> QuoteFill(c, r, book, within, taken[Position(c) - 1])][p])]
           ELSE paperLegs[p]]
    BY <1>1, <1>2, <1>8, Zenon
  <2>. QED  BY <2>2, <2>3, Zenon
<1>23. PaperShape'
  <2>1. subscribers' \in Seq(PaperRuns) /\ recorded' \in [PaperRuns -> [PaperRoles -> Nat]]
    BY <1>0, Zenon DEF PaperShape
  <2>. QED  BY <1>16, <1>21, <1>22, <2>1, Zenon DEF PaperShape, Tables
<1>24. ASSUME profile = "parity", NEW c \in PaperRoles, NEW s \in Sides
       PROVE  LedgerAgrees(c, s)'
  <2>0. LedgerAgrees(c, s)  BY <1>24, Zenon DEF PaperInv
  <2>1. CASE c # r  BY <1>16, <1>21, <2>0, <2>1, Zenon DEF LedgerAgrees, reservedAt
  <2>2. CASE c = r
    <3>1. reserved[r][s].version <= was.version  BY <1>3, <2>0, <2>2, Zenon DEF LedgerAgrees
    <3>2. reserved[r][s].version \in Nat /\ all[s] \in Nat /\ all[s] <= book.displayed
      BY <1>14, <1>19, <1>24 DEF Reservations
    <3>3. CASE all[s] > 0
      <4>1. row[s] = [version |-> book.version, quantity |-> all[s]]  BY <1>17, <1>24, <3>3, Zenon
      <4>2. row[s].version = book.version /\ row[s].quantity = all[s] /\ book.version <= book.version
        BY <1>7, <4>1
      <4>. QED  BY <1>16, <1>21, <2>2, <3>2, <4>2, Zenon DEF LedgerAgrees, reservedAt
    <3>4. CASE ~(all[s] > 0)
      <4>1. row[s] = reserved[r][s]  BY <1>17, <3>4, Zenon
      <4>2. all[s] = 0 /\ row[s].version # book.version /\ row[s].version <= book.version
        BY <1>5, <1>7, <3>1, <3>2, <3>4, <4>1
      <4>. QED  BY <1>16, <1>21, <2>2, <3>2, <4>2, Zenon DEF LedgerAgrees, reservedAt
    <3>. QED  BY <3>3, <3>4, Zenon
  <2>. QED  BY <2>1, <2>2, Zenon
<1>. QED  BY <1>0, <1>23, <1>24, Zenon DEF PaperInv

(* A late arrival takes of the current book no more than the ledger leaves of it, and books *)
(* it there.                                                                                *)
LEMMA LegTakes ==
    ASSUME PaperInv, NEW p \in PaperRuns, NEW r \in PaperRoles, LegArrives(p, r)
    PROVE  PaperInv'
<1>0. PaperShape /\ UNCHANGED <<profile, paperBook, subscribers, recorded>>
  BY Zenon DEF PaperInv, LegArrives
<1>1. PICK legs \in Tables : legs = paperLegs[p]  BY <1>0, Zenon DEF PaperShape, Tables
<1>2. PICK leg : leg = [legs[r] EXCEPT !.status = "PENDING"]  OBVIOUS
<1>3. leg \in LegRecords
  <2>1. legs[r] \in LegRecords /\ "PENDING" \in Statuses  BY <1>1 DEF Tables, Statuses, AtExchange
  <2>. QED  BY <1>2, <2>1, Relabelled, Zenon
<1>4. PICK side : side = leg.side  OBVIOUS
<1>5. side \in Sides /\ leg.quantity \in Nat /\ leg.filled \in Nat /\ leg.filled <= leg.quantity
  BY <1>3, <1>4, Zenon DEF LegRecords, PaperOrders
<1>6. ASSUME NEW l \in LegRecords PROVE [legs EXCEPT ![r] = l] \in Tables  BY <1>1, <1>6 DEF Tables
<1>7. CASE /\ paperLegs' = [paperLegs EXCEPT ![p] = cancelRemaining([legs EXCEPT ![r] = expire(leg)])]
           /\ UNCHANGED <<sold, reserved>>
  <2>1. PICK l \in LegRecords : l = expire(leg)  BY <1>3, Transitions, Zenon
  <2>2. PICK t \in Tables : t = cancelRemaining([legs EXCEPT ![r] = l])  BY <1>6, TablesKept, Zenon
  <2>3. paperLegs' = [paperLegs EXCEPT ![p] = t]  BY <1>7, <2>1, <2>2, Zenon
  <2>. QED  BY <1>0, <1>7, <2>3, LegsMove, Zenon
<1>8. ASSUME NEW quantity \in {0, walkDepth(r, side, Outstanding(leg))},
             NEW filled, filled = WithFill(leg, quantity),
             NEW u, u = [legs EXCEPT ![r] = filled],
             paperLegs' = [paperLegs EXCEPT ![p] = IF filled.status = "FILLED" THEN submitNext(u) ELSE u],
             sold' = [sold EXCEPT ![r][side] = @ + quantity],
             reserved' = IF profile = "parity" /\ quantity > 0
                         THEN reserve(r, side, paperBook[r].version, quantity) ELSE reserved
      PROVE  PaperInv'
  <2>1. PICK book : book = paperBook[r]  OBVIOUS
  <2>2. book \in Books /\ book.version \in Nat /\ book.displayed \in Nat
    BY <1>0, <2>1, Zenon DEF PaperShape, Books
  <2>3. PICK shelf : shelf = reserved[r][side]  OBVIOUS
  <2>4. shelf \in Reservations /\ shelf.version \in Nat /\ shelf.quantity \in Nat
    BY <1>0, <1>5, <2>3, Zenon DEF PaperShape, Reservations
  <2>5. PICK there : there = reservedAt(r, side, book.version)  OBVIOUS
  <2>6. there = IF shelf.version = book.version THEN shelf.quantity ELSE 0
    BY <2>3, <2>5, Zenon DEF reservedAt
  <2>7. there \in Nat  BY <2>4, <2>6
  <2>8. PICK already : already = IF profile = "parity" THEN there ELSE 0  OBVIOUS
  <2>9. PICK left : left = IF book.displayed > already THEN book.displayed - already ELSE 0  OBVIOUS
  <2>10. already \in Nat /\ left \in Nat /\ (already <= book.displayed => already + left <= book.displayed)
    BY <2>2, <2>7, <2>8, <2>9
  <2>11. PICK wants : wants = Outstanding(leg)  OBVIOUS
  <2>12. wants \in Nat  BY <1>5, <2>11 DEF Outstanding
  <2>13. walkDepth(r, side, wants) = Min({wants, left})
    BY <2>1, <2>5, <2>8, <2>9, Zenon DEF walkDepth
  <2>14. quantity \in Nat /\ quantity <= wants /\ quantity <= left
    <3>1. quantity = 0 \/ quantity = Min({wants, left})  BY <1>8, <2>11, <2>13, Zenon
    <3>. QED  BY <2>10, <2>12, <3>1, Lesser
  <2>15. filled \in LegRecords  BY <1>3, <1>8, <2>11, <2>14, Filling, Zenon
  <2>16. u \in Tables /\ submitNext(u) \in Tables
    <3>1. u \in Tables  BY <1>6, <1>8, <2>15, Zenon
    <3>. QED  BY <3>1, TablesKept, Zenon
  <2>17. PICK t \in Tables : paperLegs' = [paperLegs EXCEPT ![p] = t]
    <3>1. CASE filled.status = "FILLED"  BY <1>8, <2>16, <3>1, Zenon
    <3>2. CASE filled.status # "FILLED"  BY <1>8, <2>16, <3>2, Zenon
    <3>. QED  BY <3>1, <3>2, Zenon
  <2>18. paperLegs' \in [PaperRuns -> Tables]
    <3>1. paperLegs \in [PaperRuns -> Tables]  BY <1>0, Zenon DEF PaperShape, Tables
    <3>. QED  BY <2>17, <3>1
  <2>19. sold' \in [PaperRoles -> [Sides -> Nat]] /\ sold'[r][side] = sold[r][side] + quantity
         /\ \A c \in PaperRoles, s \in Sides : (c # r \/ s # side) => sold'[c][s] = sold[c][s]
    <3>1. sold \in [PaperRoles -> [Sides -> Nat]]  BY <1>0, Zenon DEF PaperShape
    <3>. QED  BY <1>5, <1>8, <2>14, <3>1
  <2>20. PICK mark : mark = [version |-> book.version, quantity |-> there + quantity]  OBVIOUS
  <2>21. mark \in Reservations /\ mark.version = book.version /\ mark.quantity = there + quantity
    BY <2>2, <2>7, <2>14, <2>20 DEF Reservations
  <2>22. PICK rows : rows = [reserved EXCEPT ![r][side] = mark]  OBVIOUS
  <2>23. reserve(r, side, paperBook[r].version, quantity) = rows
    BY <2>1, <2>5, <2>20, <2>22, Zenon DEF reserve
  <2>24. rows \in [PaperRoles -> [Sides -> Reservations]] /\ rows[r][side] = mark
         /\ \A c \in PaperRoles, s \in Sides : (c # r \/ s # side) => rows[c][s] = reserved[c][s]
    <3>1. reserved \in [PaperRoles -> [Sides -> Reservations]]  BY <1>0, Zenon DEF PaperShape
    <3>. QED  BY <1>5, <2>21, <2>22, <3>1
  <2>25. reserved' \in [PaperRoles -> [Sides -> Reservations]]
    <3>1. reserved \in [PaperRoles -> [Sides -> Reservations]]  BY <1>0, Zenon DEF PaperShape
    <3>2. CASE profile = "parity" /\ quantity > 0  BY <1>8, <2>23, <2>24, <3>2, Zenon
    <3>3. CASE ~(profile = "parity" /\ quantity > 0)  BY <1>8, <3>1, <3>3, Zenon
    <3>. QED  BY <3>2, <3>3, Zenon
  <2>26. PaperShape'  BY <1>0, <2>18, <2>19, <2>25, Zenon DEF PaperShape, Tables
  <2>27. ASSUME profile = "parity", NEW c \in PaperRoles, NEW s \in Sides
         PROVE  LedgerAgrees(c, s)'
    <3>0. LedgerAgrees(c, s)  BY <2>27, Zenon DEF PaperInv
    <3>1. CASE c # r \/ s # side
      <4>1. reserved'[c][s] = reserved[c][s]
        <5>1. CASE quantity > 0  BY <1>8, <2>23, <2>24, <2>27, <3>1, <5>1, Zenon
        <5>2. CASE ~(quantity > 0)  BY <1>8, <5>2, Zenon
        <5>. QED  BY <5>1, <5>2, Zenon
      <4>. QED  BY <1>0, <2>19, <3>0, <3>1, <4>1, Zenon DEF LedgerAgrees, reservedAt
    <3>2. CASE c = r /\ s = side
      <4>1. sold[r][side] <= book.displayed /\ sold[r][side] = there /\ shelf.version <= book.version
        BY <2>1, <2>3, <2>5, <3>0, <3>2, Zenon DEF LedgerAgrees
      <4>2. already = there  BY <2>8, <2>27, Zenon
      <4>3. there + quantity <= book.displayed
        BY <2>2, <2>7, <2>10, <2>14, <4>1, <4>2
      <4>4. sold'[r][side] = there + quantity  BY <2>19, <4>1, Zenon
      <4>5. CASE quantity > 0
        <5>1. reserved'[r][side] = mark  BY <1>8, <2>23, <2>24, <2>27, <4>5, Zenon
        <5>2. book.version <= book.version  BY <2>2
        <5>. QED  BY <1>0, <2>1, <2>21, <3>2, <4>3, <4>4, <5>1, <5>2, Zenon DEF LedgerAgrees, reservedAt
      <4>6. CASE ~(quantity > 0)
        <5>1. reserved' = reserved  BY <1>8, <4>6, Zenon
        <5>2. there + quantity = there  BY <2>7, <2>14, <4>6
        <5>. QED  BY <1>0, <2>1, <2>5, <3>0, <3>2, <4>1, <4>4, <5>1, <5>2, Zenon DEF LedgerAgrees, reservedAt
      <4>. QED  BY <4>5, <4>6, Zenon
    <3>. QED  BY <3>1, <3>2, Zenon
  <2>. QED  BY <1>0, <2>26, <2>27, Zenon DEF PaperInv
<1>9. \/ \E quantity \in {0, walkDepth(r, side, Outstanding(leg))} :
           LET filled == WithFill(leg, quantity)
               u == [legs EXCEPT ![r] = filled]
           IN /\ paperLegs' = [paperLegs EXCEPT ![p] = IF filled.status = "FILLED" THEN submitNext(u) ELSE u]
              /\ sold' = [sold EXCEPT ![r][side] = @ + quantity]
              /\ reserved' = IF profile = "parity" /\ quantity > 0
                             THEN reserve(r, side, paperBook[r].version, quantity) ELSE reserved
      \/ /\ paperLegs' = [paperLegs EXCEPT ![p] = cancelRemaining([legs EXCEPT ![r] = expire(leg)])]
         /\ UNCHANGED <<sold, reserved>>
  BY <1>1, <1>2, <1>4, Zenon DEF LegArrives
<1>. QED  BY <1>7, <1>8, <1>9, Zenon

(* Before the first order nothing is displayed, reserved or sold. *)
LEMMA PaperStarts ==
    ASSUME PaperInit
    PROVE  PaperInv
<1>1. NoLeg \in LegRecords  BY DEF NoLeg, LegRecords, PaperOrders, Statuses, LegDone, Sides
<1>2. subscribers \in Seq(PaperRuns)  BY DEF PaperInit
<1>3. paperBook \in [PaperRoles -> Books] /\ \A r \in PaperRoles : paperBook[r].version = 0 /\ paperBook[r].displayed = 0
  BY DEF PaperInit, Books
<1>4. reserved \in [PaperRoles -> [Sides -> Reservations]]
      /\ \A r \in PaperRoles, s \in Sides : reserved[r][s].version = 0 /\ reserved[r][s].quantity = 0
  BY DEF PaperInit, Reservations
<1>5. sold \in [PaperRoles -> [Sides -> Nat]] /\ \A r \in PaperRoles, s \in Sides : sold[r][s] = 0
  BY DEF PaperInit
<1>6. paperLegs \in [PaperRuns -> [PaperRoles -> LegRecords]]  BY <1>1 DEF PaperInit
<1>7. recorded \in [PaperRuns -> [PaperRoles -> Nat]]  BY DEF PaperInit, Flat
<1>8. PaperShape  BY <1>2, <1>3, <1>4, <1>5, <1>6, <1>7 DEF PaperShape
<1>9. \A r \in PaperRoles, s \in Sides : LedgerAgrees(r, s)  BY <1>3, <1>4, <1>5 DEF LedgerAgrees, reservedAt
<1>. QED  BY <1>8, <1>9, Zenon DEF PaperInv

(* Every step keeps the ledger and the sales together. *)
LEMMA PaperStep ==
    ASSUME PaperInv, [PaperNext]_paperVars
    PROVE  PaperInv'
<1>1. CASE UNCHANGED paperVars
  <2>1. PaperShape /\ UNCHANGED <<profile, paperBook, reserved, sold, subscribers, paperLegs, recorded>>
    BY <1>1, Zenon DEF paperVars, PaperInv
  <2>2. subscribers' \in Seq(PaperRuns) /\ paperLegs' \in [PaperRuns -> Tables]
        /\ recorded' \in [PaperRuns -> [PaperRoles -> Nat]]
    BY <2>1, Zenon DEF PaperShape, Tables
  <2>. QED  BY <2>1, <2>2, BooksKept, Zenon
<1>2. ASSUME NEW r \in PaperRoles, PublishBook(r) PROVE PaperInv'  BY <1>2, BookPublished
<1>3. ASSUME NEW p \in PaperRuns, NEW r \in PaperRoles, LegArrives(p, r) PROVE PaperInv'  BY <1>3, LegTakes
<1>4. ASSUME NEW p \in PaperRuns, NEW r \in PaperRoles, LegExpires(p, r) \/ confirmCancel(p, r) PROVE PaperInv'
  BY <1>4, LegsSettle, Zenon
<1>5. ASSUME NEW p \in PaperRuns, RunAborts(p) PROVE PaperInv'  BY <1>5, LegsAbort
<1>6. ASSUME NEW p \in PaperRuns,
             LeggingEntryStarts(p) \/ emergencyUnwind(p) \/ LeggingExitStarts(p) \/ flattenResidual(p)
      PROVE  PaperInv'
  <2>0. "BUY" \in Sides /\ "SELL" \in Sides  BY DEF Sides
  <2>1. UNCHANGED <<profile, paperBook, reserved, sold, recorded>>
    BY <1>6, Zenon DEF LeggingEntryStarts, emergencyUnwind, LeggingExitStarts, flattenResidual
  <2>2. \E to : \E side \in Sides, quantities \in [PaperRoles -> Nat] : StartRun(p, to, side, quantities)
    <3>1. CASE LeggingEntryStarts(p)  BY <2>0, <3>1, Results, Zenon DEF LeggingEntryStarts
    <3>2. CASE emergencyUnwind(p)  BY <2>0, <3>2, Results, Zenon DEF emergencyUnwind
    <3>3. CASE LeggingExitStarts(p)  BY <2>0, <3>3, Results, Zenon DEF LeggingExitStarts
    <3>4. CASE flattenResidual(p)  BY <2>0, <3>4, Results, Zenon DEF flattenResidual
    <3>. QED  BY <1>6, <3>1, <3>2, <3>3, <3>4
  <2>. QED  BY <2>1, <2>2, RunBegins, Zenon
<1>7. ASSUME NEW p \in PaperRuns,
             LeggingEntryOpens(p) \/ LeggingEntryRefused(p) \/ ClosingEnds(p) \/ simulateEntry(p) \/ simulateExit(p)
      PROVE  PaperInv'
  <2>1. UNCHANGED <<profile, paperBook, reserved, sold, paperLegs>>
        /\ (Unsubscribe(p) \/ UNCHANGED subscribers)
    BY <1>7, Zenon DEF LeggingEntryOpens, LeggingEntryRefused, ClosingEnds, simulateEntry, simulateExit
  <2>2. \E held \in [PaperRoles -> Nat] : recorded' = [recorded EXCEPT ![p] = held] \/ UNCHANGED recorded
    BY <1>7, Results, Zenon DEF LeggingEntryOpens, LeggingEntryRefused, ClosingEnds, simulateEntry, simulateExit
  <2>. QED  BY <2>1, <2>2, RunEnds, Zenon
<1>. QED  BY <1>1, <1>2, <1>3, <1>4, <1>5, <1>6, <1>7, Zenon DEF PaperNext

(* The shared liquidity ledger does its work: under the live-parity profile the fills of all *)
(* pipelines together never take more from one published book than it displays, whatever    *)
(* the pipelines, legs and quantities (liquidityLedger.ts, legExecutor.ts walkDepth).       *)
THEOREM BookIsSoldOnce == PaperSpec => []DisplayedSoldOnce
<1>1. PaperInit => PaperInv  BY PaperStarts
<1>2. PaperInv /\ [PaperNext]_paperVars => PaperInv'  BY PaperStep
<1>3. PaperInv => DisplayedSoldOnce  BY Zenon DEF PaperInv, LedgerAgrees, DisplayedSoldOnce
<1>. QED  BY <1>1, <1>2, <1>3, PTL DEF PaperSpec
=============================================================================

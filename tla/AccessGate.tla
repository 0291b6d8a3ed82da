----------------------------- MODULE AccessGate -----------------------------
(***************************************************************************)
(* The passcode gate in front of the operator's API.  A session is a row   *)
(* of access_sessions, known to the browser by a cookie, with a CSRF token *)
(* bound to it that a page sends in a header of its own.  The pages of one *)
(* browser share its cookies and each remembers a CSRF token; requests and *)
(* their answers overtake one another, and every call of the database is   *)
(* awaited.  The tokens of a session are its number: the digests stored    *)
(* in their place are one-to-one.                                          *)
(***************************************************************************)
EXTENDS Naturals

CONSTANTS Pages,            \* pages of the operator's browser
          StrayPages,       \* those served from another origin than CSRF_ALLOWED_ORIGIN
          SecretConfigured, \* SITE_ACCESS_SECRET is set
          VerifyMax,        \* attempts of one window
          SessionTtl,       \* lifetime of a session
          LastHour,         \* bound on the clock
          MaxMints,         \* bound: sessions minted
          MaxGateFaults     \* bound: calls of the database that throw

ASSUME AccessAssumption ==
    /\ StrayPages \subseteq Pages /\ SecretConfigured \in BOOLEAN
    /\ VerifyMax \in Nat \ {0} /\ SessionTtl \in Nat \ {0}
    /\ LastHour \in Nat /\ MaxMints \in Nat /\ MaxGateFaults \in Nat

VARIABLES hour,
          sessions,     \* sessions[s]: the row of session s
          minted,       \* sessions minted so far
          bucket,       \* the limiter's bucket of the browser's address
          jar,          \* the browser's cookies: session, csrf, and when they lapse
          pageCsrf,     \* pageCsrf[p]: the CSRF token page p remembers, 0 for none
          request,      \* request[p]: the request of page p and where it is
          gateFaults

accessVars == <<hour, sessions, minted, bucket, jar, pageCsrf, request, gateFaults>>

SessionIds == 1 .. MaxMints
NoRow == [expires |-> 0, revoked |-> FALSE, answered |-> FALSE]
EmptyJar == [session |-> 0, csrf |-> 0, lapses |-> 0]

\* A session has ended for everyone once it has expired or its logout was answered.
Ended == {s \in 1 .. minted : sessions[s].expires <= hour \/ sessions[s].answered}

\* late: the session of the cookies had ended when the request was sent.
Request(kind, csrf) ==
    [kind |-> kind, at |-> "sent", session |-> jar.session, cookie |-> jar.csrf, csrf |-> csrf,
     late |-> jar.session \in Ended, live |-> FALSE, code |-> 0]

NoRequest == [kind |-> "none", at |-> "idle", session |-> 0, cookie |-> 0, csrf |-> 0,
              late |-> FALSE, live |-> FALSE, code |-> 0]

AccessInit ==
    /\ hour = 0 /\ minted = 0 /\ gateFaults = 0
    /\ sessions = [s \in SessionIds |-> NoRow] /\ bucket = [count |-> 0, resetAt |-> 0]
    /\ jar = EmptyJar /\ pageCsrf = [p \in Pages |-> 0] /\ request = [p \in Pages |-> NoRequest]

Route(p, at) == request' = [request EXCEPT ![p].at = at]
AnswerWith(p, code) ==
    request' = [request EXCEPT ![p] = [NoRequest EXCEPT !.at = "answered", !.code = code,
                                                        !.cookie = IF code = 3 THEN request[p].cookie ELSE 0]]

-----------------------------------------------------------------------------
(* What the server checks. *)

\* validateSession's UPDATE: the row of a session neither revoked nor expired.
LiveRow(s) == s # 0 /\ ~sessions[s].revoked /\ sessions[s].expires > hour

csrfMatches(csrf, s) == csrf # 0 /\ csrf = s

originAllowed(p) == p \notin StrayPages

\* The checks of a mutating request, the same for a protected route and for the logout.
MutationAllowed(p) == originAllowed(p) /\ csrfMatches(request[p].csrf, request[p].session)

verifyPasscode(passcode) == SecretConfigured /\ passcode = "right"

\* rateLimit: the bucket after one more request; a count past VerifyMax + 1 refuses like it.
Bucketed == IF hour > bucket.resetAt THEN [count |-> 1, resetAt |-> hour]
                                     ELSE [bucket EXCEPT !.count = IF @ > VerifyMax THEN @ ELSE @ + 1]

-----------------------------------------------------------------------------
(* The browser. *)

\* A cookie past its Max-Age is not sent.
JarLapses == jar.session # 0 /\ jar.lapses <= hour

Send(p) ==
    /\ request[p].at = "idle" /\ ~JarLapses
    /\ \E kind \in {"verify_right", "verify_wrong", "status", "logout", "mutate", "read"} :
          request' = [request EXCEPT ![p] =
                         Request(kind, IF kind \in {"logout", "mutate"} THEN pageCsrf[p] ELSE 0)]
    /\ UNCHANGED <<hour, sessions, minted, bucket, jar, pageCsrf, gateFaults>>

CookiesLapse ==
    /\ JarLapses /\ jar' = EmptyJar
    /\ UNCHANGED <<hour, sessions, minted, bucket, pageCsrf, request, gateFaults>>

\* The answer reaches the browser: cookies are set or cleared, the page takes the CSRF token of
\* the body.  Code 1 sets the cookies, 2 clears them, 3 echoes the CSRF cookie.
Receive(p) ==
    /\ request[p].at = "answered"
    /\ LET r == request[p] IN
         /\ jar' = CASE r.code = 1 -> [session |-> r.session, csrf |-> r.session, lapses |-> hour + SessionTtl]
                     [] r.code = 2 -> EmptyJar
                     [] OTHER -> jar
         /\ pageCsrf' = [pageCsrf EXCEPT ![p] = CASE r.code = 1 -> r.session
                                                  [] r.code = 3 -> r.cookie
                                                  [] OTHER -> @]
    /\ request' = [request EXCEPT ![p] = NoRequest]
    /\ UNCHANGED <<hour, sessions, minted, bucket, gateFaults>>

Reload(p) ==
    /\ request[p].at = "idle" /\ pageCsrf[p] # 0 /\ pageCsrf' = [pageCsrf EXCEPT ![p] = 0]
    /\ UNCHANGED <<hour, sessions, minted, bucket, jar, request, gateFaults>>

-----------------------------------------------------------------------------
(* POST /api/access/verify. *)
Verifying(p) == request[p].kind \in {"verify_right", "verify_wrong"}

VerifyArrives(p) ==
    /\ request[p].at = "sent" /\ Verifying(p)
    /\ bucket' = Bucketed
    /\ IF Bucketed.count <= VerifyMax
            /\ verifyPasscode(IF request[p].kind = "verify_right" THEN "right" ELSE "wrong")
         THEN Route(p, "mint") ELSE AnswerWith(p, 0)
    /\ UNCHANGED <<hour, sessions, minted, jar, pageCsrf, gateFaults>>

\* mintSession and setSessionCookies.
mintSession(p) ==
    /\ request[p].at = "mint" /\ minted < MaxMints
    /\ minted' = minted + 1
    /\ sessions' = [sessions EXCEPT ![minted + 1] = [NoRow EXCEPT !.expires = hour + SessionTtl]]
    /\ request' = [request EXCEPT ![p] = [NoRequest EXCEPT !.at = "answered", !.code = 1, !.session = minted + 1]]
    /\ UNCHANGED <<hour, bucket, jar, pageCsrf, gateFaults>>

\* The INSERT throws, before or after its row is there: 503 and no cookies.
MintThrows(p) ==
    /\ request[p].at = "mint" /\ gateFaults < MaxGateFaults /\ gateFaults' = gateFaults + 1
    /\ \/ UNCHANGED <<sessions, minted>>
       \/ /\ minted < MaxMints /\ minted' = minted + 1
          /\ sessions' = [sessions EXCEPT ![minted + 1] = [NoRow EXCEPT !.expires = hour + SessionTtl]]
    /\ AnswerWith(p, 0)
    /\ UNCHANGED <<hour, bucket, jar, pageCsrf>>

-----------------------------------------------------------------------------
(* Every other request starts with validateSession. *)

\* Mutated form: a revoked row still validates.
RevokedRowIsLive(p) ==
    /\ request[p].at = "sent" /\ ~Verifying(p)
    /\ request' = [request EXCEPT ![p].at = "validated",
                                  ![p].live = request[p].session # 0 /\ sessions[request[p].session].expires > hour]
    /\ UNCHANGED <<hour, sessions, minted, bucket, jar, pageCsrf, gateFaults>>

validateSession(p) ==
    /\ request[p].at = "sent" /\ ~Verifying(p)
    /\ request' = [request EXCEPT ![p].at = "validated", ![p].live = LiveRow(request[p].session)]
    /\ UNCHANGED <<hour, sessions, minted, bucket, jar, pageCsrf, gateFaults>>

\* A storage outage fails closed, in whichever call it is met: 503.
StorageThrows(p) ==
    /\ request[p].at \in {"sent", "revoke"} /\ ~Verifying(p)
    /\ gateFaults < MaxGateFaults /\ gateFaults' = gateFaults + 1
    /\ AnswerWith(p, 0)
    /\ UNCHANGED <<hour, sessions, minted, bucket, jar, pageCsrf>>

\* createRequireOperator: the protected handler runs, or the request is refused.
requireOperator(p) ==
    /\ request[p].at = "validated" /\ request[p].kind \in {"mutate", "read"}
    /\ IF request[p].live /\ (request[p].kind = "mutate" => MutationAllowed(p))
         THEN Route(p, "ran") ELSE AnswerWith(p, 0)
    /\ UNCHANGED <<hour, sessions, minted, bucket, jar, pageCsrf, gateFaults>>

HandlerAnswers(p) ==
    /\ request[p].at = "ran" /\ AnswerWith(p, 0)
    /\ UNCHANGED <<hour, sessions, minted, bucket, jar, pageCsrf, gateFaults>>

\* GET /api/access/status.
status(p) ==
    /\ request[p].at = "validated" /\ request[p].kind = "status"
    /\ AnswerWith(p, IF request[p].live /\ csrfMatches(request[p].cookie, request[p].session) THEN 3 ELSE 0)
    /\ UNCHANGED <<hour, sessions, minted, bucket, jar, pageCsrf, gateFaults>>

\* POST /api/access/logout: the row of a live session is revoked; a dead one only loses its cookies.
logout(p) ==
    /\ request[p].at = "validated" /\ request[p].kind = "logout"
    /\ \/ ~request[p].live /\ AnswerWith(p, 2)
       \/ request[p].live /\ ~MutationAllowed(p) /\ AnswerWith(p, 0)
       \/ request[p].live /\ MutationAllowed(p) /\ Route(p, "revoke")
    /\ UNCHANGED <<hour, sessions, minted, bucket, jar, pageCsrf, gateFaults>>

revokeSession(p) ==
    /\ request[p].at = "revoke"
    /\ sessions' = [sessions EXCEPT ![request[p].session].revoked = TRUE, ![request[p].session].answered = TRUE]
    /\ AnswerWith(p, 2)
    /\ UNCHANGED <<hour, minted, bucket, jar, pageCsrf, gateFaults>>

-----------------------------------------------------------------------------
\* Expired rows are deleted; a deleted row validates no more than an expired one.
sweepExpiredSessions ==
    /\ \E S \in SUBSET {s \in 1 .. minted : sessions[s].expires \in 1 .. hour} :
          /\ S # {}
          /\ sessions' = [s \in SessionIds |-> IF s \in S THEN [NoRow EXCEPT !.answered = sessions[s].answered]
                                                          ELSE sessions[s]]
    /\ UNCHANGED <<hour, minted, bucket, jar, pageCsrf, request, gateFaults>>

HourPasses ==
    /\ hour < LastHour /\ hour' = hour + 1
    /\ UNCHANGED <<sessions, minted, bucket, jar, pageCsrf, request, gateFaults>>

AccessNext ==
    \/ \E p \in Pages : \/ Send(p) \/ Receive(p) \/ Reload(p)
                        \/ VerifyArrives(p) \/ mintSession(p) \/ MintThrows(p)
                        \/ validateSession(p) \/ StorageThrows(p) \/ requireOperator(p)
                        \/ HandlerAnswers(p) \/ status(p) \/ logout(p) \/ revokeSession(p)
    \/ CookiesLapse \/ sweepExpiredSessions \/ HourPasses

AccessSpec == AccessInit /\ [][AccessNext]_accessVars

-----------------------------------------------------------------------------
(* A protected handler never runs for a request that was sent after its    *)
(* session had ended: once a logout was answered, or the lifetime was      *)
(* over, no page acts any more, whichever page logged out and whatever     *)
(* cookies the others still hold (requireOperator, revokeSession).         *)
EndedSessionActsNoMore ==
    \A p \in Pages : request[p].at = "ran" => ~request[p].late
=============================================================================

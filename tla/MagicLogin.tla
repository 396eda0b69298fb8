----------------------------- MODULE MagicLogin -----------------------------
(***************************************************************************)
(* Passwordless login.  POST /magic-login stores a fresh token and mails   *)
(* it; POST /auth/verify burns a token and issues a session JWT.  The      *)
(* expiry of a token is computed with the clock of an API replica and      *)
(* tested with the database's; a session is checked with the clock of      *)
(* whichever replica sees it.  Any call may fail, or take effect and lose  *)
(* its reply, and a replica that ends cuts its requests off between calls. *)
(* A token is 32 random bytes: it is identified with the login that mints  *)
(* it, and presenting anything else is a 401 without effect: left out.     *)
(***************************************************************************)
EXTENDS Integers

CONSTANTS
  Logins,      \* requests to /magic-login
  Verifies,    \* requests to /auth/verify
  Replicas,    \* API processes
  TokenTTL,    \* magicTokenTTL, 15 minutes
  SessionTTL,  \* SessionTTL, 24 hours
  MaxSkew,     \* bound on |replica clock - database clock|
  MaxTime,     \* bound on the database clock of an instance
  None         \* no token, no replica

ASSUME LoginAssumption ==
  /\ TokenTTL \in Nat \ {0} /\ SessionTTL \in Nat \ {0}
  /\ MaxSkew \in Nat /\ MaxTime \in Nat
  /\ None \notin Logins /\ None \notin Replicas

VARIABLES
  config,   \* of the deployment: is it production, is SMTP_HOST set
  skew,     \* skew[a]: what the clock of replica a is ahead of the database's
  clock,    \* now() of the database
  login,    \* login[l]: how far the request is, then what the client is told
  token,    \* token[l]: the magic_tokens row, and when it was minted
  mail,     \* mail[l]: where the message with the link is
  verify,   \* verify[v]: how far the request is, then how it ended
  asked,    \* asked[v]: the token it presents
  host,     \* host[v]: the replica that serves it
  began,    \* began[v]: now() of its UPDATE
  session   \* session[v]: the JWT, its exp, and when it was issued

vars == <<config, skew, clock, login, token, mail, verify, asked, host, began, session>>

settings == <<config, skew>>
loginVars == <<login, token, mail>>
verifyVars == <<verify, asked, host, began, session>>

(* What the environment decides: ENV and SMTP_HOST.  A production server   *)
(* with the default secret refuses to start: left out.                     *)
Configs == [production : BOOLEAN, smtp : BOOLEAN]

(* A row of magic_tokens, and when it was minted.                          *)
Token == [stored : BOOLEAN, used : BOOLEAN, exp : Int, minted : Int]

NoToken == [stored |-> FALSE, used |-> FALSE, exp |-> 0, minted |-> 0]

(* time.Now() of a replica.                                                *)
Api(a) == clock + skew[a]

(* "sent" and "token" are 200 without and with the token, "badgateway" is  *)
(* 502, "failed" is 500 or no reply at all.                                *)
LoginStates == {"new", "minted", "stored", "sent", "token", "badgateway", "failed"}

(* "invalid" is 401; "failed" and "wasted" are 500 or no reply, the latter *)
(* after the token was burnt.                                              *)
VerifyStates == {"new", "begun", "burnt", "session", "invalid", "failed", "wasted"}

TypeOK ==
  /\ config \in Configs
  /\ skew \in [Replicas -> -MaxSkew .. MaxSkew]
  /\ clock \in Nat
  /\ login \in [Logins -> LoginStates]
  /\ token \in [Logins -> Token]
  /\ mail \in [Logins -> {"none", "queued", "arrived"}]
  /\ verify \in [Verifies -> VerifyStates]
  /\ asked \in [Verifies -> Logins \cup {None}]
  /\ host \in [Verifies -> Replicas \cup {None}]
  /\ began \in [Verifies -> Nat]
  /\ session \in [Verifies -> [exp : Int, issued : Nat]]

Init ==
  /\ config \in Configs
  /\ skew \in [Replicas -> -MaxSkew .. MaxSkew]
  /\ clock = 0
  /\ login = [l \in Logins |-> "new"]
  /\ token = [l \in Logins |-> NoToken]
  /\ mail = [l \in Logins |-> "none"]
  /\ verify = [v \in Verifies |-> "new"]
  /\ asked = [v \in Verifies |-> None]
  /\ host = [v \in Verifies |-> None]
  /\ began = [v \in Verifies |-> 0]
  /\ session = [v \in Verifies |-> [exp |-> 0, issued |-> 0]]

-----------------------------------------------------------------------------
(* CreateMagicToken draws the token and computes its expiry ...            *)
Mint(l, a) ==
  /\ login[l] = "new"
  /\ token' = [token EXCEPT ![l] = [stored |-> FALSE, used |-> FALSE,
                                    exp |-> Api(a) + TokenTTL, minted |-> clock]]
  /\ login' = [login EXCEPT ![l] = "minted"]
  /\ UNCHANGED <<settings, clock, mail, verifyVars>>

(* ... and inserts it; the reply of the INSERT may be lost.                *)
InsertToken(l) ==
  /\ login[l] = "minted"
  /\ token' = [token EXCEPT ![l].stored = TRUE]
  /\ \E outcome \in {"stored", "failed"} : login' = [login EXCEPT ![l] = outcome]
  /\ UNCHANGED <<settings, clock, mail, verifyVars>>

(* Mutant: the reply carries the token in production as well.              *)
AnswerWithToken(sent) == IF config.production /\ ~sent THEN "badgateway" ELSE "token"

(* The reply after Send returned: only a development server ignores an     *)
(* error, and only it shows the token.                                     *)
Answer(sent) ==
  IF config.production THEN IF sent THEN "sent" ELSE "badgateway" ELSE "token"

(* LogSender and SMTPSender.  Without SMTP_HOST there is no message and no *)
(* error.  With it the server may take the message and the client may yet  *)
(* see an error: the reply to the end of DATA is lost.                     *)
Outcomes ==
  IF config.smtp
  THEN {[queued |-> TRUE, ok |-> TRUE], [queued |-> TRUE, ok |-> FALSE],
        [queued |-> FALSE, ok |-> FALSE]}
  ELSE {[queued |-> FALSE, ok |-> TRUE]}

Dispatch(l, o) ==
  /\ mail' = [mail EXCEPT ![l] = IF o.queued THEN "queued" ELSE @]
  /\ \E outcome \in {Answer(o.ok), "failed"} : login' = [login EXCEPT ![l] = outcome]
  /\ UNCHANGED <<settings, clock, token, verifyVars>>

(* Mutant: the mail goes out before the token is stored.                   *)
SendUnstored(l) ==
  /\ login[l] \in {"minted", "stored"}
  /\ \E o \in Outcomes : Dispatch(l, o)

(* The mail goes out once the token is stored.                             *)
Send(l) ==
  /\ login[l] = "stored"
  /\ \E o \in Outcomes : Dispatch(l, o)

(* The mail system delivers when it likes, or never.                       *)
Deliver(l) ==
  /\ mail[l] = "queued"
  /\ mail' = [mail EXCEPT ![l] = "arrived"]
  /\ UNCHANGED <<settings, clock, login, token, verifyVars>>

(* An error return before an effect, or the end of the replica: Run closes *)
(* the pool and returns as soon as Shutdown begins.                        *)
CutLogin(l) ==
  /\ login[l] \in {"new", "minted", "stored"}
  /\ login' = [login EXCEPT ![l] = "failed"]
  /\ UNCHANGED <<settings, clock, token, mail, verifyVars>>

-----------------------------------------------------------------------------
(* Somebody has the token: from the mail, or from a development reply.     *)
Known(l) == mail[l] = "arrived" \/ login[l] = "token"

(* A request presents a token, for the first time or again, and its UPDATE *)
(* starts.                                                                 *)
BeginVerify(v, l, a) ==
  /\ verify[v] = "new" /\ Known(l)
  /\ verify' = [verify EXCEPT ![v] = "begun"]
  /\ asked' = [asked EXCEPT ![v] = l]
  /\ host' = [host EXCEPT ![v] = a]
  /\ began' = [began EXCEPT ![v] = clock]
  /\ UNCHANGED <<settings, clock, loginVars, session>>

(* Mutant: WHERE token = $1 AND used = false.                              *)
LiveForever(l, t) == token[l].stored /\ ~token[l].used

(* Mutant: WHERE token = $1 AND expires_at > now().                        *)
LiveAgain(l, t) == token[l].stored /\ token[l].exp > t

(* WHERE token = $1 AND used = false AND expires_at > now().               *)
Live(l, t) == token[l].stored /\ ~token[l].used /\ token[l].exp > t

(* ConsumeMagicToken: test and change of `used` are one statement, and one *)
(* that waits for the row tests it again.  Its reply may be lost.          *)
Burn(v) ==
  /\ verify[v] = "begun" /\ Live(asked[v], began[v])
  /\ token' = [token EXCEPT ![asked[v]].used = TRUE]
  /\ \E outcome \in {"burnt", "wasted"} : verify' = [verify EXCEPT ![v] = outcome]
  /\ UNCHANGED <<settings, clock, login, mail, asked, host, began, session>>

Reject(v) ==
  /\ verify[v] = "begun" /\ ~Live(asked[v], began[v])
  /\ \E outcome \in {"invalid", "failed"} : verify' = [verify EXCEPT ![v] = outcome]
  /\ UNCHANGED <<settings, clock, loginVars, asked, host, began, session>>

IssueJWT(v) ==
  /\ verify[v] = "burnt"
  /\ session' = [session EXCEPT ![v] = [exp |-> Api(host[v]) + SessionTTL, issued |-> clock]]
  /\ verify' = [verify EXCEPT ![v] = "session"]
  /\ UNCHANGED <<settings, clock, loginVars, asked, host, began>>

(* The request ends by an error, or with its replica: before the UPDATE,   *)
(* or after it and before the client has the session.                      *)
CutVerify(v) ==
  /\ verify[v] \in {"begun", "burnt"}
  /\ verify' = [verify EXCEPT ![v] = IF @ = "burnt" THEN "wasted" ELSE "failed"]
  /\ UNCHANGED <<settings, clock, loginVars, asked, host, began, session>>

Tick ==
  /\ clock < MaxTime
  /\ clock' = clock + 1
  /\ UNCHANGED <<settings, loginVars, verifyVars>>

MagicLogin(l) ==
  (\E a \in Replicas : Mint(l, a)) \/ InsertToken(l) \/ Send(l) \/ CutLogin(l)

AuthVerify(v) ==
  \/ \E l \in Logins, a \in Replicas : BeginVerify(v, l, a)
  \/ Burn(v) \/ Reject(v) \/ IssueJWT(v) \/ CutVerify(v)

Next ==
  \/ \E l \in Logins : MagicLogin(l) \/ Deliver(l)
  \/ \E v \in Verifies : AuthVerify(v)
  \/ Tick

Spec == Init /\ [][Next]_vars

-----------------------------------------------------------------------------
(* Mutant: the expiry of a JWT is not validated.                           *)
AcceptsForever(a, v) == verify[v] = "session"

(* authMiddleware and authed: replica a lets the session of v pass.        *)
Accepts(a, v) == verify[v] = "session" /\ Api(a) < session[v].exp

(* The UPDATE of v took effect.                                            *)
Burned(v) == verify[v] \in {"burnt", "session", "wasted"}

(* However often and by however many requests at once a token is presented *)
(* it gives one session (repository.go:226-236, README "single-use").      *)
OneSessionPerToken ==
  \A v, w \in Verifies :
    verify[v] = "session" /\ verify[w] = "session" /\ asked[v] = asked[w] => v = w

(* In production a session presupposes a delivered mail: no reply gives    *)
(* the token away (auth.go:55-60; README:137-138 "delivered solely by      *)
(* email").  A server without SMTP_HOST can let nobody in.                 *)
ProductionSessionsNeedMail ==
  config.production =>
    \A v \in Verifies : verify[v] = "session" =>
      config.smtp /\ mail[asked[v]] = "arrived"

(* A user is told "invalid, used, or expired" only when the token is older *)
(* than its TTL less the skew, or when another request has burnt it, which *)
(* includes one that failed afterwards and gave nobody a session: mails do *)
(* not announce tokens the database does not know (auth.go:42-49, 96-106). *)
RejectionIsExplained ==
  \A v \in Verifies : verify[v] = "invalid" =>
    \/ began[v] >= token[asked[v]].minted + TokenTTL - MaxSkew
    \/ \E w \in Verifies \ {v} : asked[w] = asked[v] /\ Burned(w)

(* Authority ends, whichever replica's clock made or checks it: a token is *)
(* not burnt by a request later than its TTL and the skew, and a session   *)
(* is not accepted later than its TTL and twice the skew                   *)
(* (repository.go:223, jwt.go:19-50).                                      *)
AuthorityExpires ==
  \A v \in Verifies :
    /\ Burned(v) => began[v] < token[asked[v]].minted + TokenTTL + MaxSkew
    /\ \A a \in Replicas :
         Accepts(a, v) => clock < session[v].issued + SessionTTL + 2 * MaxSkew

(* The strengthening: what a token and a request know of each other.       *)
TokensAreSound ==
  \A l \in Logins :
    /\ login[l] \in {"new", "minted"} => ~token[l].stored
    /\ login[l] \in {"new", "minted", "stored"} => mail[l] = "none"
    /\ login[l] = "minted" \/ token[l].stored =>
         /\ token[l].minted + TokenTTL - MaxSkew <= token[l].exp
         /\ token[l].exp <= token[l].minted + TokenTTL + MaxSkew
    /\ login[l] \in {"stored", "sent", "token", "badgateway"} => token[l].stored
    /\ login[l] = "token" => ~config.production
    /\ mail[l] # "none" => token[l].stored /\ config.smtp
    /\ token[l].used => token[l].stored
    /\ token[l].used => \E v \in Verifies : asked[v] = l /\ Burned(v)

VerifiesAreSound ==
  \A v \in Verifies :
    /\ verify[v] # "new" => asked[v] \in Logins /\ host[v] \in Replicas /\ Known(asked[v])
    /\ Burned(v) => token[asked[v]].used /\ began[v] < token[asked[v]].exp
    /\ verify[v] = "session" => session[v].exp <= session[v].issued + SessionTTL + MaxSkew

OneBurnPerToken ==
  \A v, w \in Verifies : Burned(v) /\ Burned(w) /\ asked[v] = asked[w] => v = w

IInv ==
  TypeOK /\ TokensAreSound /\ VerifiesAreSound /\ OneBurnPerToken /\ RejectionIsExplained
=============================================================================

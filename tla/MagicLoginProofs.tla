-------------------------- MODULE MagicLoginProofs --------------------------
(***************************************************************************)
(* Machine-checked proofs about MagicLogin, for any number of logins,      *)
(* verifications and replicas, any TTLs and any bound on the clocks' skew. *)
(***************************************************************************)
EXTENDS MagicLogin, TLAPS

(* The clock of a replica is within MaxSkew of the database's.             *)
LEMMA SkewIsBounded ==
  ASSUME TypeOK, NEW a \in Replicas
  PROVE  /\ Api(a) \in Int /\ clock \in Nat
         /\ clock - MaxSkew <= Api(a) /\ Api(a) <= clock + MaxSkew
BY LoginAssumption DEF TypeOK, Api

(* Setting a flag of a row keeps it a row and every other field.           *)
LEMMA FlagType ==
  ASSUME NEW t \in Token
  PROVE  /\ [t EXCEPT !.stored = TRUE] \in Token /\ [t EXCEPT !.used = TRUE] \in Token
         /\ LET s == [t EXCEPT !.stored = TRUE] IN
              s.stored /\ s.used = t.used /\ s.exp = t.exp /\ s.minted = t.minted
         /\ LET u == [t EXCEPT !.used = TRUE] IN
              u.used /\ u.stored = t.stored /\ u.exp = t.exp /\ u.minted = t.minted
BY DEF Token

(* The invariant holds before the first request.                           *)
LEMMA LoginInit == Init => IInv
<1> SUFFICES ASSUME Init PROVE IInv
  OBVIOUS
<1> USE LoginAssumption DEF Init
<1>1. TypeOK
  BY DEF TypeOK, Token, NoToken, LoginStates, VerifyStates
<1>2. TokensAreSound
  BY DEF TokensAreSound, NoToken
<1>3. VerifiesAreSound /\ OneBurnPerToken /\ RejectionIsExplained
  BY DEF VerifiesAreSound, OneBurnPerToken, RejectionIsExplained, Burned
<1> QED
  BY <1>1, <1>2, <1>3 DEF IInv

(* Every step keeps the types.                                             *)
LEMMA LoginTypeStep == IInv /\ [Next]_vars => TypeOK'
<1> SUFFICES ASSUME IInv, [Next]_vars PROVE TypeOK'
  OBVIOUS
<1> USE LoginAssumption DEF IInv, settings, loginVars, verifyVars
<1>1. ASSUME NEW l \in Logins, NEW a \in Replicas, Mint(l, a) PROVE TypeOK'
  <2>1. Api(a) + TokenTTL \in Int /\ clock \in Int
    BY SkewIsBounded DEF TypeOK
  <2>2. token' \in [Logins -> Token]
    BY <1>1, <2>1 DEF Mint, TypeOK, Token
  <2> QED
    BY <1>1, <2>2 DEF Mint, TypeOK, LoginStates
<1>2. ASSUME NEW l \in Logins, InsertToken(l) PROVE TypeOK'
  <2>1. token[l] \in Token
    BY DEF TypeOK
  <2>2. token' \in [Logins -> Token]
    BY <1>2, <2>1, FlagType DEF InsertToken, TypeOK
  <2>3. login' \in [Logins -> LoginStates]
    BY <1>2 DEF InsertToken, TypeOK, LoginStates
  <2> QED
    BY <1>2, <2>2, <2>3 DEF InsertToken, TypeOK
<1>3. ASSUME NEW l \in Logins, Send(l) PROVE TypeOK'
  <2>1. PICK o \in Outcomes : Dispatch(l, o)
    BY <1>3 DEF Send
  <2>2. Answer(o.ok) \in LoginStates
    BY DEF Answer, LoginStates
  <2>3. login' \in [Logins -> LoginStates]
    BY <2>1, <2>2 DEF Dispatch, TypeOK, LoginStates
  <2>4. mail' \in [Logins -> {"none", "queued", "arrived"}]
    BY <2>1 DEF Dispatch, TypeOK
  <2> QED
    BY <2>1, <2>3, <2>4 DEF Dispatch, TypeOK
<1>4. ASSUME NEW l \in Logins, CutLogin(l) \/ Deliver(l) PROVE TypeOK'
  BY <1>4 DEF CutLogin, Deliver, TypeOK, LoginStates
<1>5. ASSUME NEW v \in Verifies, NEW l \in Logins, NEW a \in Replicas, BeginVerify(v, l, a)
      PROVE  TypeOK'
  BY <1>5 DEF BeginVerify, TypeOK, VerifyStates
<1>6. ASSUME NEW v \in Verifies, Burn(v) PROVE TypeOK'
  <2>1. asked[v] \in Logins
    BY <1>6 DEF Burn, VerifiesAreSound
  <2>4. token[asked[v]] \in Token
    BY <2>1 DEF TypeOK
  <2>2. token' \in [Logins -> Token]
    BY <1>6, <2>1, <2>4, FlagType DEF Burn, TypeOK
  <2>3. verify' \in [Verifies -> VerifyStates]
    BY <1>6 DEF Burn, TypeOK, VerifyStates
  <2> QED
    BY <1>6, <2>2, <2>3 DEF Burn, TypeOK
<1>7. ASSUME NEW v \in Verifies, IssueJWT(v) PROVE TypeOK'
  <2>1. host[v] \in Replicas
    BY <1>7 DEF IssueJWT, VerifiesAreSound
  <2>2. Api(host[v]) + SessionTTL \in Int
    BY <2>1, SkewIsBounded
  <2> QED
    BY <1>7, <2>2 DEF IssueJWT, TypeOK, VerifyStates
<1>8. ASSUME NEW v \in Verifies, Reject(v) \/ CutVerify(v) PROVE TypeOK'
  BY <1>8 DEF Reject, CutVerify, TypeOK, VerifyStates
<1>9. CASE Tick
  BY <1>9 DEF Tick, TypeOK
<1>10. CASE UNCHANGED vars
  BY <1>10 DEF TypeOK, vars
<1> QED
  BY <1>1, <1>2, <1>3, <1>4, <1>5, <1>6, <1>7, <1>8, <1>9, <1>10
  DEF Next, MagicLogin, AuthVerify

(* What a step may do to a login, its token and its mail.                  *)
Rests(l) == UNCHANGED <<login[l], token[l], mail[l]>>

IsMinted(l) ==
  /\ login[l] = "new" /\ login'[l] = "minted" /\ mail'[l] = mail[l]
  /\ \E a \in Replicas : token'[l] = [stored |-> FALSE, used |-> FALSE,
                                     exp |-> Api(a) + TokenTTL, minted |-> clock]

IsInserted(l) ==
  /\ login[l] = "minted" /\ login'[l] \in {"stored", "failed"} /\ mail'[l] = mail[l]
  /\ token'[l] = [token[l] EXCEPT !.stored = TRUE]

IsSent(l) ==
  /\ login[l] = "stored" /\ login'[l] \in {"sent", "token", "badgateway", "failed"}
  /\ login'[l] = "token" => ~config.production
  /\ mail'[l] = mail[l] \/ (mail'[l] = "queued" /\ config.smtp)
  /\ token'[l] = token[l]

IsCut(l) ==
  /\ login[l] \in {"new", "minted", "stored"} /\ login'[l] = "failed"
  /\ token'[l] = token[l] /\ mail'[l] = mail[l]

IsDelivered(l) ==
  /\ mail[l] = "queued" /\ mail'[l] = "arrived"
  /\ login'[l] = login[l] /\ token'[l] = token[l]

IsBurnt(l) ==
  /\ \E v \in Verifies :
       /\ verify[v] = "begun" /\ verify'[v] \in {"burnt", "wasted"}
       /\ asked[v] = l /\ asked'[v] = l /\ Live(l, began[v])
  /\ token'[l] = [token[l] EXCEPT !.used = TRUE]
  /\ login'[l] = login[l] /\ mail'[l] = mail[l]

TokenMove(l) ==
  \/ Rests(l) \/ IsMinted(l) \/ IsInserted(l) \/ IsSent(l)
  \/ IsCut(l) \/ IsDelivered(l) \/ IsBurnt(l)

(* Every step is one of these moves, seen from any login.                  *)
LEMMA TokenMoves ==
  ASSUME IInv, [Next]_vars, NEW l \in Logins
  PROVE  TokenMove(l) /\ config' = config
<1> USE DEF IInv, settings, loginVars, verifyVars
<1>t. /\ token \in [Logins -> Token] /\ login \in [Logins -> LoginStates]
      /\ mail \in [Logins -> {"none", "queued", "arrived"}]
      /\ verify \in [Verifies -> VerifyStates]
  BY DEF TypeOK
<1>1. ASSUME NEW m \in Logins, NEW a \in Replicas, Mint(m, a)
      PROVE  (Rests(l) \/ IsMinted(l)) /\ config' = config
  BY <1>1, <1>t DEF Mint, Rests, IsMinted
<1>2. ASSUME NEW m \in Logins, InsertToken(m)
      PROVE  (Rests(l) \/ IsInserted(l)) /\ config' = config
  BY <1>2, <1>t DEF InsertToken, Rests, IsInserted
<1>3. ASSUME NEW m \in Logins, Send(m)
      PROVE  (Rests(l) \/ IsSent(l)) /\ config' = config
  <2>1. PICK o \in Outcomes : Dispatch(m, o)
    BY <1>3 DEF Send
  <2>2. o.queued => config.smtp
    BY DEF Outcomes
  <2>3. mail'[l] = mail[l] \/ (l = m /\ o.queued /\ mail'[l] = "queued")
    BY <2>1, <1>t DEF Dispatch
  <2>4. /\ l # m => login'[l] = login[l]
        /\ l = m => login'[l] \in {Answer(o.ok), "failed"}
        /\ config' = config /\ token' = token
    BY <2>1, <1>t DEF Dispatch
  <2>5. /\ Answer(o.ok) \in {"sent", "token", "badgateway"}
        /\ Answer(o.ok) = "token" => ~config.production
    BY DEF Answer
  <2> QED
    BY <1>3, <2>2, <2>3, <2>4, <2>5 DEF Send, Rests, IsSent
<1>4. ASSUME NEW m \in Logins, CutLogin(m) \/ Deliver(m)
      PROVE  (Rests(l) \/ IsCut(l) \/ IsDelivered(l)) /\ config' = config
  BY <1>4, <1>t DEF CutLogin, Deliver, Rests, IsCut, IsDelivered
<1>5. ASSUME NEW v \in Verifies, Burn(v)
      PROVE  (Rests(l) \/ IsBurnt(l)) /\ config' = config
  <2>1. CASE l = asked[v]
    <3>1. token'[l] = [token[l] EXCEPT !.used = TRUE]
      BY <1>5, <2>1, <1>t DEF Burn
    <3>2. /\ verify[v] = "begun" /\ verify'[v] \in {"burnt", "wasted"}
          /\ asked[v] = l /\ asked'[v] = l /\ Live(l, began[v])
      BY <1>5, <2>1, <1>t DEF Burn
    <3> QED
      BY <1>5, <3>1, <3>2 DEF Burn, IsBurnt
  <2>2. CASE l # asked[v]
    BY <1>5, <2>2, <1>t DEF Burn, Rests
  <2> QED
    BY <2>1, <2>2
<1>6. ASSUME NEW v \in Verifies,
             \/ \E m \in Logins, a \in Replicas : BeginVerify(v, m, a)
             \/ Reject(v) \/ IssueJWT(v) \/ CutVerify(v)
      PROVE  Rests(l) /\ config' = config
  BY <1>6 DEF BeginVerify, Reject, IssueJWT, CutVerify, Rests
<1>7. CASE Tick \/ UNCHANGED vars
  BY <1>7 DEF Tick, vars, TokenMove, Rests
<1> QED
  BY <1>1, <1>2, <1>3, <1>4, <1>5, <1>6, <1>7 DEF Next, MagicLogin, AuthVerify, TokenMove

(* What a step may do to a verification.                                   *)
VerifyMove(v) ==
  \/ UNCHANGED <<verify[v], asked[v], host[v], began[v], session[v]>>
  \/ /\ verify[v] = "new" /\ verify'[v] = "begun"
     /\ asked'[v] \in Logins /\ Known(asked'[v]) /\ host'[v] \in Replicas
  \/ /\ UNCHANGED <<asked[v], host[v], began[v]>>
     /\ \/ /\ verify[v] = "begun" /\ verify'[v] \in {"burnt", "wasted"}
           /\ Live(asked[v], began[v]) /\ token'[asked[v]].used
        \/ /\ verify[v] = "begun" /\ verify'[v] \in {"invalid", "failed"}
           /\ verify'[v] = "invalid" => ~Live(asked[v], began[v])
        \/ verify[v] = "burnt" /\ verify'[v] = "wasted"
        \/ /\ verify[v] = "burnt" /\ verify'[v] = "session"
           /\ session'[v] = [exp |-> Api(host[v]) + SessionTTL, issued |-> clock]

(* Every step is one of these moves, seen from any verification, and at    *)
(* most one verification moves at a time.                                  *)
LEMMA VerifyMoves ==
  ASSUME IInv, [Next]_vars, NEW v \in Verifies
  PROVE  /\ VerifyMove(v)
         /\ \A w \in Verifies : verify'[v] # verify[v] /\ verify'[w] # verify[w] => v = w
<1> DEFINE Goal == /\ VerifyMove(v)
                   /\ \A w \in Verifies : verify'[v] # verify[v] /\ verify'[w] # verify[w] => v = w
<1> USE DEF IInv, settings, loginVars, verifyVars
<1>t. /\ token \in [Logins -> Token] /\ verify \in [Verifies -> VerifyStates]
      /\ asked \in [Verifies -> Logins \cup {None}] /\ host \in [Verifies -> Replicas \cup {None}]
      /\ began \in [Verifies -> Nat] /\ session \in [Verifies -> [exp : Int, issued : Nat]]
  BY DEF TypeOK
<1>1. ASSUME NEW w \in Verifies, NEW l \in Logins, NEW a \in Replicas, BeginVerify(w, l, a) PROVE Goal
  BY <1>1, <1>t DEF BeginVerify, VerifyMove
<1>2. ASSUME NEW w \in Verifies, Burn(w) PROVE Goal
  <2>1. asked[w] \in Logins
    BY <1>2 DEF Burn, VerifiesAreSound
  <2>2. token[asked[w]] \in Token
    BY <2>1, <1>t
  <2>3. token'[asked[w]].used
    BY <1>2, <2>1, <2>2, <1>t, FlagType DEF Burn
  <2> QED
    BY <1>2, <2>3, <1>t DEF Burn, VerifyMove
<1>3. ASSUME NEW w \in Verifies, Reject(w) PROVE Goal
  BY <1>3, <1>t DEF Reject, VerifyMove
<1>4. ASSUME NEW w \in Verifies, IssueJWT(w) PROVE Goal
  BY <1>4, <1>t DEF IssueJWT, VerifyMove
<1>5. ASSUME NEW w \in Verifies, CutVerify(w) PROVE Goal
  BY <1>5, <1>t DEF CutVerify, VerifyMove
<1>6. ASSUME NEW l \in Logins,
             (\E a \in Replicas : Mint(l, a)) \/ InsertToken(l) \/ Send(l) \/ CutLogin(l) \/ Deliver(l)
      PROVE  Goal
  BY <1>6 DEF Mint, InsertToken, Send, Dispatch, CutLogin, Deliver, VerifyMove
<1>7. CASE Tick \/ UNCHANGED vars
  BY <1>7 DEF Tick, vars, VerifyMove
<1> QED
  BY <1>1, <1>2, <1>3, <1>4, <1>5, <1>6, <1>7 DEF Next, MagicLogin, AuthVerify

(* Nothing a token or a verification has achieved is undone.               *)
LEMMA NothingIsUndone ==
  ASSUME IInv, [Next]_vars
  PROVE  /\ \A l \in Logins :
              /\ token[l].stored => token'[l].stored /\ token'[l].exp = token[l].exp
                                    /\ token'[l].minted = token[l].minted
              /\ token[l].used => token'[l].used
              /\ Known(l) => Known(l)'
         /\ \A v \in Verifies :
              /\ verify[v] # "new" => asked'[v] = asked[v] /\ began'[v] = began[v]
              /\ Burned(v) => Burned(v)'
<1>1. ASSUME NEW l \in Logins
      PROVE  /\ token[l].stored => token'[l].stored /\ token'[l].exp = token[l].exp
                                    /\ token'[l].minted = token[l].minted
             /\ token[l].used => token'[l].used
             /\ Known(l) => Known(l)'
  <2> DEFINE Goal == /\ token[l].stored => token'[l].stored /\ token'[l].exp = token[l].exp
                                           /\ token'[l].minted = token[l].minted
                     /\ token[l].used => token'[l].used
                     /\ Known(l) => Known(l)'
  <2>1. token[l] \in Token /\ TokenMove(l)
    BY TokenMoves DEF IInv, TypeOK
  <2>2. /\ token[l].used => token[l].stored
        /\ login[l] \in {"new", "minted"} => ~token[l].stored
        /\ login[l] \in {"new", "minted", "stored"} => mail[l] = "none"
    BY DEF IInv, TokensAreSound
  <2>3. CASE Rests(l) \/ IsCut(l) \/ IsDelivered(l) \/ IsSent(l)
    BY <2>2, <2>3 DEF Rests, IsCut, IsDelivered, IsSent, Known
  <2>4. CASE IsMinted(l) \/ IsInserted(l)
    BY <2>2, <2>4 DEF IsMinted, IsInserted, Known
  <2>5. CASE IsBurnt(l)
    BY <2>1, <2>5, FlagType DEF IsBurnt, Known
  <2> QED
    BY <2>1, <2>3, <2>4, <2>5 DEF TokenMove
<1>2. ASSUME NEW v \in Verifies
      PROVE  /\ verify[v] # "new" => asked'[v] = asked[v] /\ began'[v] = began[v]
             /\ Burned(v) => Burned(v)'
  BY VerifyMoves DEF VerifyMove, Burned
<1> QED
  BY <1>1, <1>2

(* A token stays sound: its expiry keeps to its minting, a development     *)
(* reply shows it, and whoever burnt it is on record.                      *)
LEMMA TokensStep == IInv /\ [Next]_vars => TokensAreSound'
<1> SUFFICES ASSUME IInv, [Next]_vars, NEW l \in Logins
             PROVE  /\ login'[l] \in {"new", "minted"} => ~token'[l].stored
                    /\ login'[l] \in {"new", "minted", "stored"} => mail'[l] = "none"
                    /\ login'[l] = "minted" \/ token'[l].stored =>
                         /\ token'[l].minted + TokenTTL - MaxSkew <= token'[l].exp
                         /\ token'[l].exp <= token'[l].minted + TokenTTL + MaxSkew
                    /\ login'[l] \in {"stored", "sent", "token", "badgateway"} => token'[l].stored
                    /\ login'[l] = "token" => ~config'.production
                    /\ mail'[l] # "none" => token'[l].stored /\ config'.smtp
                    /\ token'[l].used => token'[l].stored
                    /\ token'[l].used => \E v \in Verifies : asked'[v] = l /\ Burned(v)'
  BY DEF TokensAreSound
<1>1. /\ token[l] \in Token /\ login[l] \in LoginStates /\ TokenMove(l) /\ config' = config
      /\ mail[l] \in {"none", "queued", "arrived"}
  BY TokenMoves DEF IInv, TypeOK
<1>2. /\ login[l] \in {"new", "minted"} => ~token[l].stored
      /\ login[l] \in {"new", "minted", "stored"} => mail[l] = "none"
      /\ login[l] = "minted" \/ token[l].stored =>
           /\ token[l].minted + TokenTTL - MaxSkew <= token[l].exp
           /\ token[l].exp <= token[l].minted + TokenTTL + MaxSkew
      /\ login[l] \in {"stored", "sent", "token", "badgateway"} => token[l].stored
      /\ login[l] = "token" => ~config.production
      /\ mail[l] # "none" => token[l].stored /\ config.smtp
      /\ token[l].used => token[l].stored
      /\ token[l].used => \E v \in Verifies : asked[v] = l /\ Burned(v)
  BY DEF IInv, TokensAreSound
<1>3. (\E v \in Verifies : asked[v] = l /\ Burned(v)) => \E v \in Verifies : asked'[v] = l /\ Burned(v)'
  BY NothingIsUndone DEF Burned
<1>4. CASE Rests(l)
  BY <1>1, <1>2, <1>3, <1>4 DEF Rests
<1>5. CASE IsMinted(l)
  <2>1. PICK a \in Replicas : token'[l] = [stored |-> FALSE, used |-> FALSE,
                                           exp |-> Api(a) + TokenTTL, minted |-> clock]
    BY <1>5 DEF IsMinted
  <2>2. /\ token'[l].minted + TokenTTL - MaxSkew <= token'[l].exp
        /\ token'[l].exp <= token'[l].minted + TokenTTL + MaxSkew
    BY <2>1, SkewIsBounded, LoginAssumption DEF IInv
  <2> QED
    BY <1>2, <1>5, <2>1, <2>2 DEF IsMinted
<1>6. CASE IsInserted(l)
  <2>1. /\ token'[l].stored /\ token'[l].used = token[l].used
        /\ token'[l].exp = token[l].exp /\ token'[l].minted = token[l].minted
    BY <1>1, <1>6, FlagType DEF IsInserted
  <2> QED
    BY <1>2, <1>6, <2>1 DEF IsInserted
<1>7. CASE IsSent(l) \/ IsCut(l) \/ IsDelivered(l)
  BY <1>1, <1>2, <1>3, <1>7 DEF IsSent, IsCut, IsDelivered
<1>8. CASE IsBurnt(l)
  <2>1. /\ token'[l].used /\ token'[l].stored = token[l].stored
        /\ token'[l].exp = token[l].exp /\ token'[l].minted = token[l].minted
    BY <1>1, <1>8, FlagType DEF IsBurnt
  <2>2. token[l].stored /\ \E v \in Verifies : asked'[v] = l /\ Burned(v)'
    BY <1>8 DEF IsBurnt, Live, Burned
  <2> QED
    BY <1>1, <1>2, <1>8, <2>1, <2>2 DEF IsBurnt
<1> QED
  BY <1>1, <1>4, <1>5, <1>6, <1>7, <1>8 DEF TokenMove

(* A verification stays sound, and a token is never burnt a second time.   *)
LEMMA VerifiesStep ==
  IInv /\ [Next]_vars => VerifiesAreSound' /\ OneBurnPerToken' /\ RejectionIsExplained'
<1> SUFFICES ASSUME IInv, [Next]_vars
             PROVE  VerifiesAreSound' /\ OneBurnPerToken' /\ RejectionIsExplained'
  OBVIOUS
<1>t. /\ \A v \in Verifies : verify[v] # "new" => asked[v] \in Logins /\ host[v] \in Replicas
      /\ \A v \in Verifies : asked[v] \in Logins => token[asked[v]] \in Token
      /\ \A v \in Verifies : verify[v] \in VerifyStates /\ began[v] \in Nat
                           /\ session[v] \in [exp : Int, issued : Nat]
  BY DEF IInv, VerifiesAreSound, TypeOK
<1>u. ASSUME NEW v \in Verifies, verify[v] # "new"
      PROVE  /\ asked'[v] = asked[v] /\ began'[v] = began[v]
             /\ token[asked[v]].used => token'[asked[v]].used
             /\ token[asked[v]].stored => token'[asked[v]].exp = token[asked[v]].exp
                                         /\ token'[asked[v]].minted = token[asked[v]].minted
             /\ Known(asked[v])'
  BY <1>t, <1>u, NothingIsUndone DEF IInv, VerifiesAreSound
<1>s. ASSUME NEW v \in Verifies, Known(asked[v]), asked[v] \in Logins PROVE token[asked[v]].stored
  BY <1>s DEF IInv, TokensAreSound, Known
<1>m. ASSUME NEW v \in Verifies
      PROVE  /\ VerifyMove(v)
             /\ \A w \in Verifies : verify'[v] # verify[v] /\ verify'[w] # verify[w] => v = w
  BY VerifyMoves
<1>o. ASSUME NEW v \in Verifies
      PROVE  /\ verify[v] # "new" => Known(asked[v])
             /\ Burned(v) => token[asked[v]].used /\ began[v] < token[asked[v]].exp
             /\ verify[v] = "session" => session[v].exp <= session[v].issued + SessionTTL + MaxSkew
  BY DEF IInv, VerifiesAreSound
<1>1. VerifiesAreSound'
  <2> SUFFICES ASSUME NEW v \in Verifies
               PROVE  /\ verify'[v] # "new" =>
                           asked'[v] \in Logins /\ host'[v] \in Replicas /\ Known(asked[v])'
                      /\ Burned(v)' => token'[asked'[v]].used /\ began'[v] < token'[asked'[v]].exp
                      /\ verify'[v] = "session" =>
                           session'[v].exp <= session'[v].issued + SessionTTL + MaxSkew
    BY DEF VerifiesAreSound
  <2>1. verify'[v] # "new" =>
          asked'[v] \in Logins /\ host'[v] \in Replicas /\ Known(asked[v])'
    <3>1. CASE verify[v] = "new"
      <4>1. (asked'[v] \in Logins /\ Known(asked'[v])) => Known(asked[v])'
        BY NothingIsUndone DEF Known
      <4> QED
        BY <1>m, <3>1, <4>1 DEF VerifyMove
    <3>2. CASE verify[v] # "new"
      BY <1>m, <1>t, <1>u, <3>2 DEF VerifyMove
    <3> QED
      BY <3>1, <3>2
  <2>2. Burned(v)' => token'[asked'[v]].used /\ began'[v] < token'[asked'[v]].exp
    <3>1. verify[v] # "new" /\ Known(asked[v]) /\ asked[v] \in Logins => token[asked[v]].stored
      BY <1>s
    <3>2. Burned(v)' /\ ~Burned(v) =>
            verify[v] # "new" /\ Live(asked[v], began[v]) /\ token'[asked[v]].used
      BY <1>m DEF VerifyMove, Burned
    <3>3. Burned(v) => verify[v] # "new"
      BY DEF Burned
    <3> QED
      BY <1>t, <1>o, <1>u, <3>1, <3>2, <3>3 DEF Live
  <2>3. verify'[v] = "session" => session'[v].exp <= session'[v].issued + SessionTTL + MaxSkew
    <3>1. CASE verify[v] = "burnt" /\ verify'[v] = "session"
               /\ session'[v] = [exp |-> Api(host[v]) + SessionTTL, issued |-> clock]
      <4>1. host[v] \in Replicas
        BY <1>t, <3>1
      <4> QED
        BY <3>1, <4>1, SkewIsBounded, LoginAssumption DEF IInv
    <3>2. CASE ~(verify[v] = "burnt" /\ verify'[v] = "session"
               /\ session'[v] = [exp |-> Api(host[v]) + SessionTTL, issued |-> clock])
      BY <1>m, <1>o, <3>2 DEF VerifyMove
    <3> QED
      BY <3>1, <3>2
  <2> QED
    BY <2>1, <2>2, <2>3
<1>2. OneBurnPerToken'
  <2> SUFFICES ASSUME NEW v \in Verifies, NEW w \in Verifies,
                      Burned(v)', Burned(w)', asked'[v] = asked'[w]
               PROVE  v = w
    BY DEF OneBurnPerToken
  <2>1. ASSUME NEW x \in Verifies, Burned(x)'
        PROVE  /\ asked'[x] = asked[x]
               /\ Burned(x) \/ (verify'[x] # verify[x] /\ ~token[asked[x]].used)
    BY <1>m, <2>1 DEF VerifyMove, Burned, Live
  <2>2. CASE Burned(v) /\ Burned(w)
    BY <2>1, <2>2 DEF IInv, OneBurnPerToken
  <2>3. CASE ~Burned(v) /\ ~Burned(w)
    BY <1>m, <2>1, <2>3
  <2>4. CASE Burned(v) /\ ~Burned(w)
    BY <1>o, <2>1, <2>4
  <2>5. CASE ~Burned(v) /\ Burned(w)
    BY <1>o, <2>1, <2>5
  <2> QED
    BY <2>2, <2>3, <2>4, <2>5
<1>3. RejectionIsExplained'
  <2> DEFINE Old(v) == began[v] >= token[asked[v]].minted + TokenTTL - MaxSkew
             Other(v) == \E w \in Verifies \ {v} : asked[w] = asked[v] /\ Burned(w)
  <2> SUFFICES ASSUME NEW v \in Verifies, verify'[v] = "invalid"
               PROVE  Old(v)' \/ Other(v)'
    BY DEF RejectionIsExplained
  <2>1. /\ verify[v] # "new"
        /\ verify[v] = "invalid" \/ (verify[v] = "begun" /\ ~Live(asked[v], began[v]))
    BY <1>m DEF VerifyMove
  <2>2. token[asked[v]].stored /\ asked[v] \in Logins /\ token[asked[v]] \in Token
    BY <1>o, <1>s, <1>t, <2>1
  <2>3. Old(v) \/ Other(v)
    <3>1. CASE verify[v] = "invalid"
      BY <3>1 DEF IInv, RejectionIsExplained
    <3>2. CASE verify[v] = "begun" /\ token[asked[v]].used
      <4>1. PICK w \in Verifies : asked[w] = asked[v] /\ Burned(w)
        BY <2>2, <3>2 DEF IInv, TokensAreSound
      <4>2. w # v
        BY <3>2, <4>1 DEF Burned
      <4> QED
        BY <4>1, <4>2
    <3>3. CASE verify[v] = "begun" /\ ~(token[asked[v]].exp > began[v])
      <4>1. token[asked[v]].minted + TokenTTL - MaxSkew <= token[asked[v]].exp
        BY <2>2 DEF IInv, TokensAreSound
      <4> QED
        BY <1>t, <2>2, <3>3, <4>1, LoginAssumption DEF Token
    <3> QED
      BY <2>1, <2>2, <3>1, <3>2, <3>3 DEF Live
  <2>4. Old(v) => Old(v)'
    BY <1>u, <2>1, <2>2
  <2>5. ASSUME NEW w \in Verifies, w # v, asked[w] = asked[v], Burned(w) PROVE Other(v)'
    <3>1. verify[w] # "new"
      BY <2>5 DEF Burned
    <3> QED
      BY <1>u, <2>1, <2>5, <3>1, NothingIsUndone
  <2> QED
    BY <2>3, <2>4, <2>5
<1> QED
  BY <1>1, <1>2, <1>3

-----------------------------------------------------------------------------
(* The invariant holds for any number of logins, verifications, replicas   *)
(* and any clocks within the skew.                                         *)
THEOREM LoginInductive == Spec => []IInv
<1>1. Init => IInv
  BY LoginInit
<1>2. IInv /\ [Next]_vars => IInv'
  BY LoginTypeStep, TokensStep, VerifiesStep DEF IInv
<1> QED
  BY <1>1, <1>2, PTL DEF Spec

(* Every variable keeps its type.                                          *)
THEOREM LoginTypeCorrect == Spec => []TypeOK
<1>1. IInv => TypeOK
  BY DEF IInv
<1> QED
  BY <1>1, LoginInductive, PTL

(* A token gives one session, however many requests present it at once.    *)
THEOREM TokenGivesOneSession == Spec => []OneSessionPerToken
<1>1. IInv => OneSessionPerToken
  BY DEF IInv, OneBurnPerToken, OneSessionPerToken, Burned
<1> QED
  BY <1>1, LoginInductive, PTL

(* In production nobody has a session without a delivered mail.            *)
THEOREM ProductionNeedsMail == Spec => []ProductionSessionsNeedMail
<1>1. ASSUME IInv, config.production, NEW v \in Verifies, verify[v] = "session"
      PROVE  config.smtp /\ mail[asked[v]] = "arrived"
  <2>1. asked[v] \in Logins /\ Known(asked[v])
    BY <1>1 DEF IInv, VerifiesAreSound
  <2> QED
    BY <1>1, <2>1 DEF IInv, TokensAreSound, Known
<1>2. IInv => ProductionSessionsNeedMail
  BY <1>1 DEF ProductionSessionsNeedMail
<1> QED
  BY <1>2, LoginInductive, PTL

(* A 401 has one of the two reasons its text names, within the skew.       *)
THEOREM RejectionsAreExplained == Spec => []RejectionIsExplained
<1>1. IInv => RejectionIsExplained
  BY DEF IInv
<1> QED
  BY <1>1, LoginInductive, PTL

(* Tokens and sessions end within their TTL and the skew of the clocks.    *)
THEOREM AuthorityIsBounded == Spec => []AuthorityExpires
<1>1. ASSUME IInv, NEW v \in Verifies, Burned(v)
      PROVE  began[v] < token[asked[v]].minted + TokenTTL + MaxSkew
  <2>1. /\ asked[v] \in Logins /\ token[asked[v]].used /\ began[v] < token[asked[v]].exp
    BY <1>1 DEF IInv, VerifiesAreSound, Burned
  <2>2. token[asked[v]] \in Token /\ began[v] \in Nat
    BY <1>1, <2>1 DEF IInv, TypeOK
  <2>3. token[asked[v]].exp <= token[asked[v]].minted + TokenTTL + MaxSkew
    BY <1>1, <2>1 DEF IInv, TokensAreSound
  <2> QED
    BY <2>1, <2>2, <2>3, LoginAssumption DEF Token
<1>2. ASSUME IInv, NEW v \in Verifies, NEW a \in Replicas, Accepts(a, v)
      PROVE  clock < session[v].issued + SessionTTL + 2 * MaxSkew
  <2>1. session[v] \in [exp : Int, issued : Nat] /\ clock \in Nat
    BY <1>2 DEF IInv, TypeOK
  <2>2. session[v].exp <= session[v].issued + SessionTTL + MaxSkew
    BY <1>2 DEF IInv, VerifiesAreSound, Accepts
  <2>3. Api(a) \in Int /\ clock - MaxSkew <= Api(a) /\ Api(a) < session[v].exp
    BY <1>2, SkewIsBounded DEF IInv, Accepts
  <2> QED
    BY <2>1, <2>2, <2>3, LoginAssumption
<1>3. IInv => AuthorityExpires
  BY <1>1, <1>2 DEF AuthorityExpires
<1> QED
  BY <1>3, LoginInductive, PTL
=============================================================================

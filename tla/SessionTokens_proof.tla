-------------------------- MODULE SessionTokens_proof --------------------------
(* Proofs about SessionTokens, for any number of users, calls and sign-ins,  *)
(* any life of the tokens and any session cap.                               *)
EXTENDS SessionTokens, TLAPS

-----------------------------------------------------------------------------
(* Types.                                                                  *)

Place == {"idle", "renew", "asking", "granted", "half", "refused",
          "request", "recheck"}

\* A call that goes on keeps its type.
LEMMA AtTyped ==
  ASSUME NEW s \in CallState, NEW p \in Place
  PROVE  /\ [s EXCEPT !.pc = p] \in CallState
         /\ [s EXCEPT !.pc = p].pc = p
         /\ [s EXCEPT !.pc = p].jwt = s.jwt
         /\ [s EXCEPT !.pc = p].ref = s.ref
  BY DEF CallState, Place

LEMMA IdleTyped ==
  /\ None \in Key /\ Idle \in CallState /\ Idle.pc = "idle"
  /\ Idle.jwt = None /\ Idle.ref = None
  BY DEF Idle, CallState, Key

LEMMA FreshTyped ==
  ASSUME NEW p \in Place, NEW h \in {"get", "check"}
  PROVE  /\ Fresh(p, h) \in CallState /\ Fresh(p, h).pc = p
         /\ Fresh(p, h).jwt = None /\ Fresh(p, h).ref = None
  BY IdleTyped DEF Fresh, Idle, CallState, Place

LEMMA ReturnTyped ==
  ASSUME NEW c, NEW t \in Key
  PROVE  /\ Return(c, t) \in CallState /\ Return(c, t).pc \in {"idle", "request"}
         /\ Return(c, t).jwt = t /\ Return(c, t).ref = None
  BY IdleTyped DEF Return, CallState

\* What a call's step leaves: the calls are typed, and one that asks has a
\* refresh token.
LEMMA StepTyped ==
  ASSUME TypeOK, NEW c \in Call, NEW s \in CallState, Step(c, s),
         s.pc = "asking" => s.ref # None
  PROVE  /\ call' \in [Call -> CallState]
         /\ \A d \in Call : call'[d].pc = "asking" => call'[d].ref # None
  BY DEF Step, TypeOK

LEMMA Granted ==
  ASSUME TypeOK, NEW t \in Token
  PROVE  /\ Access(t.sid, AuthTime(t)) \in Token
         /\ Rotated(t.sid, AuthTime(t)) \in Token
  BY SessionAssumption
     DEF SessionAssumption, TypeOK, Access, Rotated, AuthTime, Token

LEMMA TypesAtInit == Init => TypeOK
<1> SUFFICES ASSUME Init PROVE TypeOK
  OBVIOUS
<1>1. \A c \in Call : call[c] \in CallState /\ call[c].pc # "asking"
  BY IdleTyped DEF Init
<1>2. call \in [Call -> CallState]
  BY <1>1 DEF Init
<1>3. now \in 0..MaxTime /\ signIns \in 0..MaxSessions
  BY SessionAssumption DEF SessionAssumption, Init
<1>4. leaving \in [Origin -> {"none", "clear", "leave"}]
  BY DEF Init
<1> QED
  BY <1>1, <1>2, <1>3, <1>4, IdleTyped DEF Init, TypeOK, Sid

LEMMA NoteTyped ==
  ASSUME TypeOK, NoteExpired
  PROVE  fired' \in BOOLEAN /\ leaving' \in [Origin -> {"none", "clear", "leave"}]
  BY DEF NoteExpired, TypeOK

\* The keys that saveSession writes, all or some.
LEMMA WriteTyped ==
  ASSUME TypeOK, flow = "saving", NEW keys, Write(keys)
  PROVE  jwt' \in Key /\ refresh' \in Key /\ uid' \in User \cup {NoUser}
<1>1. grant \in Token
  BY DEF TypeOK, Key
<1>2. [grant EXCEPT !.exp = grant.auth + JwtLife] \in Token
  BY <1>1, SessionAssumption DEF SessionAssumption, Token
<1> QED
  BY <1>1, <1>2 DEF Write, TypeOK, Key

\* The steps of a call.
LEMMA TypesByCall ==
  ASSUME TypeOK, NEW c \in Call,
         \/ ReadJwt(c) \/ CallStep(c) \/ Refresh(c) \/ RefreshFails(c)
         \/ Request(c) \/ RequestFails(c)
  PROVE  TypeOK'
<1>0. call[c] \in CallState /\ call[c].jwt \in Key /\ call[c].ref \in Key
      /\ call[c].how \in {"get", "check"} /\ jwt \in Key /\ refresh \in Key
  BY DEF TypeOK, CallState
<1> USE IdleTyped
<1>1. CASE ReadJwt(c)
  <2> DEFINE s == [pc |-> IF jwt.exp > now THEN "request" ELSE "renew",
                   how |-> "get", jwt |-> jwt, ref |-> None]
  <2>1. s \in CallState /\ s.pc # "asking"
    BY <1>0 DEF CallState
  <2>2. Step(c, s)
    BY <1>1 DEF ReadJwt
  <2> HIDE DEF s
  <2> QED BY <1>1, <2>1, <2>2, StepTyped DEF ReadJwt, server, store, ui, TypeOK
<1>2. CASE ReadRefresh(c)
  <2> DEFINE s == [At(c, "asking") EXCEPT !.ref = refresh]
  <2>1. s \in CallState /\ s.ref = refresh
    BY <1>0 DEF At, CallState
  <2> HIDE DEF s
  <2>2. CASE refresh # None /\ Step(c, s) /\ UNCHANGED <<fired, leaving>>
    BY <1>2, <2>1, <2>2, StepTyped DEF ReadRefresh, server, store, ui, TypeOK
  <2>3. CASE Step(c, Return(c, call[c].jwt)) /\ UNCHANGED <<fired, leaving>>
    BY <1>0, <1>2, <2>3, StepTyped, ReturnTyped
       DEF ReadRefresh, server, store, ui, TypeOK
  <2>4. CASE Step(c, Idle) /\ NoteExpired
    BY <1>2, <2>4, StepTyped, NoteTyped DEF ReadRefresh, server, store, ui, TypeOK
  <2> QED BY <1>2, <2>2, <2>3, <2>4 DEF ReadRefresh, s
<1>3. CASE Refused(c)
  <2>1. Step(c, Idle) /\ NoteExpired
    BY <1>3 DEF Refused
  <2> QED BY <1>3, <2>1, StepTyped, NoteTyped DEF Refused, server, store, ui, TypeOK
<1>4. CASE StoreJwt(c)
  <2>1. At(c, "half") \in CallState /\ At(c, "half").pc = "half"
    BY <1>0, AtTyped DEF At, Place
  <2> QED BY <1>0, <1>4, <2>1, StepTyped DEF StoreJwt, server, ui, TypeOK
<1>5. CASE StoreRefresh(c)
  <2>1. PICK s \in CallState : Step(c, s) /\ s.pc # "asking"
    BY <1>0, <1>5, ReturnTyped DEF StoreRefresh
  <2> QED BY <1>0, <1>5, <2>1, StepTyped DEF StoreRefresh, server, ui, TypeOK
<1>6. CASE Refresh(c)
  <2>1. call[c].ref \in Token
    BY <1>0, <1>6 DEF Refresh, TypeOK, Key
  <2> DEFINE s == [pc |-> "granted", how |-> call[c].how,
                   jwt |-> Access(call[c].ref.sid, AuthTime(call[c].ref)),
                   ref |-> Rotated(call[c].ref.sid, AuthTime(call[c].ref))]
  <2>2. s \in CallState /\ s.pc # "asking"
    BY <1>0, <2>1, Granted DEF CallState, Key
  <2>3. Fresh("refused", call[c].how) \in CallState
        /\ Fresh("refused", call[c].how).pc # "asking"
    BY <1>0, FreshTyped DEF Place
  <2>4. Step(c, s) \/ Step(c, Fresh("refused", call[c].how))
    BY <1>6 DEF Refresh
  <2> HIDE DEF s
  <2> QED
    BY <1>6, <2>2, <2>3, <2>4, StepTyped DEF Refresh, server, store, ui, TypeOK
<1>7. CASE RefreshFails(c)
  <2>1. PICK s \in CallState : Step(c, s) /\ s.pc # "asking"
    BY <1>0, <1>7, ReturnTyped DEF RefreshFails
  <2> QED BY <1>7, <2>1, StepTyped DEF RefreshFails, server, store, ui, TypeOK
<1>8. CASE Request(c)
  <2>1. PICK s \in CallState : Step(c, s) /\ s.pc # "asking"
    BY <1>8, FreshTyped DEF Request, Place
  <2> QED BY <1>8, <2>1, StepTyped DEF Request, server, store, ui, TypeOK
<1>9. CASE RequestFails(c)
  <2>1. Step(c, Idle)
    BY <1>9 DEF RequestFails
  <2> QED BY <1>9, <2>1, StepTyped DEF RequestFails, server, store, ui, TypeOK
<1> QED
  BY <1>1, <1>2, <1>3, <1>4, <1>5, <1>6, <1>7, <1>8, <1>9 DEF CallStep

\* The clock, the administrator and the screens.
LEMMA TypesByScreens ==
  ASSUME TypeOK,
         \/ Tick \/ \E u \in User : Deactivate(u) \/ SignIn(u)
         \/ SaveSession \/ Enter \/ AskPrompt \/ Cancel \/ SignOut
         \/ \E o \in Origin : Clear(o) \/ Leave(o)
         \/ Restart \/ UNCHANGED vars
  PROVE  TypeOK'
<1> USE IdleTyped, SessionAssumption DEF SessionAssumption
<1>1. CASE Tick
  BY <1>1 DEF Tick, TypeOK, store, ui
<1>2. ASSUME NEW u \in User, Deactivate(u) PROVE TypeOK'
  BY <1>2 DEF Deactivate, TypeOK, store, ui
<1>3. ASSUME NEW u \in User, SignIn(u) PROVE TypeOK'
  <2>1. signIns + 1 \in Sid /\ signIns' = signIns + 1
    BY <1>3 DEF SignIn, TypeOK, Sid
  <2>2. grant' = Rotated(signIns + 1, now)
    BY <1>3 DEF SignIn
  <2>3. grant' \in Token
    BY <2>1, <2>2 DEF Rotated, Token, TypeOK
  <2>4. grant' # None
    BY <2>3 DEF Token, None, Sid
  <2> QED BY <1>3, <2>1, <2>3, <2>4 DEF SignIn, TypeOK, store, Sid, Key
<1>4. CASE SaveSession
  BY <1>4, WriteTyped DEF SaveSession, TypeOK, server, Mishap, Crossing
<1>5. CASE Enter
  BY <1>5 DEF Enter, ReArm, TypeOK, server, store
<1>6. CASE AskPrompt
  BY <1>6 DEF AskPrompt, TypeOK, server, store
<1>7. CASE Cancel
  BY <1>7 DEF Cancel, TypeOK, server, store
<1>8. CASE SignOut
  BY <1>8 DEF SignOut, TypeOK, server, store, ui, Origin
<1>9. ASSUME NEW o \in Origin, Clear(o) PROVE TypeOK'
  BY <1>9 DEF Clear, Clearing, TypeOK, server, ui, Mishap, Crossing
<1>10. ASSUME NEW o \in Origin, Leave(o) PROVE TypeOK'
  BY <1>10 DEF Leave, Landing, TypeOK, server, store
<1>11. CASE Restart
  <2>1. call' \in [Call -> CallState] /\ \A c \in Call : call'[c].pc # "asking"
    BY <1>11 DEF Restart
  <2>2. /\ jwt' \in Key /\ refresh' \in Key /\ uid' \in User \cup {NoUser}
        /\ mishaps' \subseteq Mishap
    BY <1>11, WriteTyped DEF Restart, store, Mishap, TypeOK
  <2>3. view' \in {"login", "unlock", "app"}
    BY <1>11 DEF Restart, Landing
  <2> QED BY <1>11, <2>1, <2>2, <2>3 DEF Restart, server, TypeOK
<1>12. CASE UNCHANGED vars
  BY <1>12 DEF vars, server, store, ui, TypeOK
<1> QED
  BY <1>1, <1>2, <1>3, <1>4, <1>5, <1>6, <1>7, <1>8, <1>9, <1>10, <1>11, <1>12

LEMMA TypesByNext == TypeOK /\ [Next]_vars => TypeOK'
  BY TypesByCall, TypesByScreens DEF Next

\* The store, the screens, the calls and the latch keep their types; a call
\* that asks for new tokens has a refresh token to show.
THEOREM TypeCorrect == Spec => []TypeOK
<1>1. QED
  BY TypesAtInit, TypesByNext, PTL DEF Spec

-----------------------------------------------------------------------------
(* The latch of the expiry notice.                                         *)

LEMMA LatchByNext ==
  ASSUME TypeOK, LatchMeansLeaving, [Next]_vars
  PROVE  LatchMeansLeaving'
<1> USE DEF LatchMeansLeaving, Origin
<1>0. leaving \in [Origin -> {"none", "clear", "leave"}]
  BY DEF TypeOK
<1>1. CASE NoteExpired /\ screen' = screen
  BY <1>0, <1>1 DEF NoteExpired
<1>2. CASE Enter
  BY <1>2 DEF Enter, ReArm
<1>3. ASSUME NEW o \in Origin, Clear(o) PROVE LatchMeansLeaving'
  BY <1>0, <1>3 DEF Clear, ui
<1>4. ASSUME NEW o \in Origin, Leave(o) PROVE LatchMeansLeaving'
  <2>1. CASE o = "switch"
    BY <1>0, <1>4, <2>1 DEF Leave
  <2>2. CASE o # "switch"
    BY <1>4, <2>2 DEF Leave
  <2> QED BY <2>1, <2>2
<1>5. CASE SignOut
  BY <1>0, <1>5 DEF SignOut, ui
<1>6. CASE Restart
  BY <1>6 DEF Restart
<1>7. CASE UNCHANGED <<screen, fired, leaving>>
  BY <1>7
<1>8. ASSUME NEW c \in Call, ReadRefresh(c) \/ Refused(c)
      PROVE  (NoteExpired /\ screen' = screen) \/ UNCHANGED <<screen, fired, leaving>>
  BY <1>8 DEF ReadRefresh, Refused, ui
<1>9. ASSUME NEW c \in Call,
             \/ ReadJwt(c) \/ StoreJwt(c) \/ StoreRefresh(c) \/ Refresh(c)
             \/ RefreshFails(c) \/ Request(c) \/ RequestFails(c)
      PROVE  UNCHANGED <<screen, fired, leaving>>
  BY <1>9 DEF ReadJwt, StoreJwt, StoreRefresh, Refresh, RefreshFails,
              Request, RequestFails, ui
<1>10. ASSUME \/ Tick \/ \E u \in User : Deactivate(u) \/ SignIn(u)
              \/ SaveSession \/ AskPrompt \/ Cancel \/ UNCHANGED vars
       PROVE  UNCHANGED <<screen, fired, leaving>>
  BY <1>10 DEF Tick, Deactivate, SignIn, SaveSession, AskPrompt, Cancel, vars, ui
<1> QED
  BY <1>1, <1>2, <1>3, <1>4, <1>5, <1>6, <1>7, <1>8, <1>9, <1>10
     DEF Next, CallStep

\* For any number of calls that find the session dead, of logouts and of new
\* sign-ins: whoever is signed in while the once-per-session latch is set is on
\* his way out.
THEOREM LatchIsSafe == Spec => []LatchMeansLeaving
<1>1. Init => LatchMeansLeaving
  BY DEF Init, LatchMeansLeaving
<1>2. QED
  BY <1>1, TypesAtInit, TypesByNext, LatchByNext, PTL DEF Spec

-----------------------------------------------------------------------------
(* How long a session can last.                                            *)

\* A granted sign-in belongs to a user, who was active when it was granted.
Sessions ==
  \A s \in 1..signIns :
    /\ owner[s] \in User
    /\ began[s] <= now
    /\ Active(owner[s]) \/ began[s] <= off[owner[s]]

\* An access token was made no later than now, and no later than the cap and
\* the deactivation allow.
GoodAccess(t) ==
  /\ t.sid <= signIns
  /\ t.exp <= now + JwtLife
  /\ t.exp <= began[t.sid] + Cap + JwtLife
  /\ Active(owner[t.sid]) \/ t.exp <= off[owner[t.sid]] + JwtLife

\* A refresh token remembers the sign-in, through all rotations.
GoodRefresh(t) == t.sid <= signIns /\ t.auth = began[t.sid]

AccessInv ==
  /\ Sessions
  /\ \A t \in AccessTokens : GoodAccess(t)
  /\ \A t \in RefreshTokens : GoodRefresh(t)

LEMMA TokensTyped ==
  ASSUME TypeOK
  PROVE  AccessTokens \subseteq Token /\ RefreshTokens \subseteq Token
  BY DEF TypeOK, AccessTokens, RefreshTokens, Key, CallState

\* The server's tables stand still, and every token is one there was or good.
LEMMA TokensOldOrGood ==
  ASSUME AccessInv, UNCHANGED server,
         \A t \in AccessTokens' : t \in AccessTokens \/ GoodAccess(t),
         \A t \in RefreshTokens' : t \in RefreshTokens \/ GoodRefresh(t)
  PROVE  AccessInv'
  BY DEF AccessInv, Sessions, GoodAccess, GoodRefresh, Active, server

\* A call's step brings no tokens but its own.
LEMMA TokensByStep ==
  ASSUME TypeOK, NEW c \in Call, NEW s, Step(c, s)
  PROVE  /\ UNCHANGED jwt =>
              \A t \in AccessTokens' : t \in AccessTokens \/ (t = s.jwt /\ t # None)
         /\ UNCHANGED <<refresh, grant>> =>
              \A t \in RefreshTokens' : t \in RefreshTokens \/ (t = s.ref /\ t # None)
  BY DEF TypeOK, Step, AccessTokens, RefreshTokens

\* What the server grants to a refresh token it accepts.
LEMMA GrantedGood ==
  ASSUME TypeOK, AccessInv, NEW t \in RefreshTokens, ~Rejected(t)
  PROVE  /\ GoodAccess(Access(t.sid, AuthTime(t)))
         /\ GoodRefresh(Rotated(t.sid, AuthTime(t)))
<1>1. t \in Token /\ t.sid <= signIns /\ t.auth = began[t.sid]
  BY TokensTyped DEF AccessInv, GoodRefresh
<1>2. now - t.auth <= Cap /\ Active(owner[t.sid])
  <2>1. t.auth \in Nat /\ now \in Nat /\ Cap \in Nat
    BY <1>1, SessionAssumption DEF SessionAssumption, TypeOK, Token
  <2> QED BY <2>1 DEF Rejected
<1>3. /\ now \in Nat /\ began[t.sid] \in Nat /\ Cap \in Nat /\ JwtLife \in Nat
      /\ RefreshLife \in Nat
  BY <1>1, SessionAssumption DEF SessionAssumption, TypeOK, Token
<1>4. now + JwtLife <= began[t.sid] + Cap + JwtLife
  BY <1>1, <1>2, <1>3
<1>5. Access(t.sid, AuthTime(t)).sid = t.sid
      /\ Access(t.sid, AuthTime(t)).exp = now + JwtLife
      /\ Rotated(t.sid, AuthTime(t)).sid = t.sid
      /\ Rotated(t.sid, AuthTime(t)).auth = t.auth
  BY DEF Access, Rotated, AuthTime
<1>6. now + JwtLife <= now + JwtLife
  BY <1>3
<1> QED
  BY <1>1, <1>2, <1>4, <1>5, <1>6 DEF GoodAccess, GoodRefresh

LEMMA AccessByCall ==
  ASSUME TypeOK, AccessInv, NEW c \in Call,
         \/ ReadJwt(c) \/ CallStep(c) \/ Refresh(c) \/ RefreshFails(c)
         \/ Request(c) \/ RequestFails(c)
  PROVE  AccessInv'
<1>0. /\ call[c] \in CallState /\ call[c].jwt \in Key /\ call[c].ref \in Key
      /\ call[c].how \in {"get", "check"} /\ jwt \in Key /\ refresh \in Key
  BY DEF TypeOK, CallState
<1>1. /\ call[c].jwt = None \/ call[c].jwt \in AccessTokens
      /\ call[c].ref = None \/ call[c].ref \in RefreshTokens
      /\ jwt = None \/ jwt \in AccessTokens
      /\ refresh = None \/ refresh \in RefreshTokens
  BY DEF AccessTokens, RefreshTokens
\* A step that only hands on the tokens there are.
<1>2. ASSUME NEW s, Step(c, s), s.jwt \in AccessTokens \cup {None},
             s.ref \in RefreshTokens \cup {None}, UNCHANGED <<server, store, grant>>
      PROVE  AccessInv'
  BY <1>2, TokensByStep, TokensOldOrGood DEF store
<1>3. ASSUME ReadJwt(c) PROVE AccessInv'
  <2> DEFINE s == [pc |-> IF jwt.exp > now THEN "request" ELSE "renew",
                   how |-> "get", jwt |-> jwt, ref |-> None]
  <2>1. Step(c, s) /\ s.jwt = jwt /\ s.ref = None
    BY <1>3 DEF ReadJwt
  <2> HIDE DEF s
  <2> QED BY <1>1, <1>2, <1>3, <2>1 DEF ReadJwt, ui
<1>4. ASSUME ReadRefresh(c) PROVE AccessInv'
  <2> DEFINE s == [At(c, "asking") EXCEPT !.ref = refresh]
  <2>1. s.jwt = call[c].jwt /\ s.ref = refresh
    BY <1>0 DEF At, CallState
  <2>2. \/ Step(c, s) \/ Step(c, Return(c, call[c].jwt)) \/ Step(c, Idle)
    BY <1>4 DEF ReadRefresh
  <2> HIDE DEF s
  <2> QED
    BY <1>0, <1>1, <1>2, <1>4, <2>1, <2>2, ReturnTyped, IdleTyped
       DEF ReadRefresh, ui
<1>5. ASSUME Refused(c) PROVE AccessInv'
  BY <1>2, <1>5, IdleTyped DEF Refused, ui
<1>6. ASSUME StoreJwt(c) PROVE AccessInv'
  <2>1. At(c, "half").jwt = call[c].jwt /\ At(c, "half").ref = call[c].ref
    BY <1>0, AtTyped DEF At, Place
  <2>2. \A t \in AccessTokens' : t \in AccessTokens
    BY <1>0, <1>1, <1>6, <2>1 DEF StoreJwt, Step, AccessTokens, TypeOK
  <2>3. \A t \in RefreshTokens' : t \in RefreshTokens
    BY <1>1, <1>6, <2>1, TokensByStep DEF StoreJwt, ui
  <2> QED BY <1>6, <2>2, <2>3, TokensOldOrGood DEF StoreJwt
<1>7. ASSUME StoreRefresh(c) PROVE AccessInv'
  <2>1. PICK s : /\ Step(c, s) /\ s.jwt \in {call[c].jwt, None} /\ s.ref = None
    BY <1>0, <1>7, ReturnTyped, IdleTyped DEF StoreRefresh
  <2>2. \A t \in AccessTokens' : t \in AccessTokens
    BY <1>1, <1>7, <2>1, TokensByStep DEF StoreRefresh
  <2>3. \A t \in RefreshTokens' : t \in RefreshTokens
    BY <1>0, <1>1, <1>7, <2>1 DEF StoreRefresh, Step, RefreshTokens, TypeOK, ui
  <2> QED BY <1>7, <2>2, <2>3, TokensOldOrGood DEF StoreRefresh
<1>8. ASSUME Refresh(c) PROVE AccessInv'
  <2>1. call[c].ref \in RefreshTokens
    BY <1>1, <1>8 DEF Refresh, TypeOK
  <2> DEFINE s == [pc |-> "granted", how |-> call[c].how,
                   jwt |-> Access(call[c].ref.sid, AuthTime(call[c].ref)),
                   ref |-> Rotated(call[c].ref.sid, AuthTime(call[c].ref))]
  <2>2. CASE Rejected(call[c].ref)
    <3>1. Step(c, Fresh("refused", call[c].how))
      BY <1>8, <2>2 DEF Refresh
    <3> QED BY <1>0, <1>2, <1>8, <3>1, FreshTyped DEF Refresh, ui, Place
  <2>3. CASE ~Rejected(call[c].ref)
    <3>1. Step(c, s)
      BY <1>8, <2>3 DEF Refresh
    <3>2. GoodAccess(s.jwt) /\ GoodRefresh(s.ref)
      BY <2>1, <2>3, GrantedGood
    <3> HIDE DEF s
    <3> QED BY <1>8, <3>1, <3>2, TokensByStep, TokensOldOrGood DEF Refresh, store, ui
  <2> QED BY <2>2, <2>3
<1>9. ASSUME RefreshFails(c) PROVE AccessInv'
  <2>1. PICK s : /\ Step(c, s) /\ s.jwt \in {call[c].jwt, None} /\ s.ref = None
    BY <1>0, <1>9, ReturnTyped, IdleTyped DEF RefreshFails
  <2> QED BY <1>1, <1>2, <1>9, <2>1 DEF RefreshFails, ui
<1>10. ASSUME Request(c) \/ RequestFails(c) PROVE AccessInv'
  <2>1. PICK s : Step(c, s) /\ s.jwt = None /\ s.ref = None
    BY <1>10, FreshTyped, IdleTyped DEF Request, RequestFails, Place
  <2> QED BY <1>2, <1>10, <2>1 DEF Request, RequestFails, ui
<1> QED
  BY <1>3, <1>4, <1>5, <1>6, <1>7, <1>8, <1>9, <1>10 DEF CallStep

\* The clock, the administrator and a new sign-in leave the tokens good that
\* there are.
LEMMA AccessByServer ==
  ASSUME TypeOK, AccessInv,
         Tick \/ \E u \in User : Deactivate(u) \/ SignIn(u)
  PROVE  AccessInv'
<1>0. /\ now \in Nat /\ signIns \in Nat /\ began \in [Sid -> Nat]
      /\ off \in [User -> Nat \cup {Never}] /\ Sid = 1..MaxSessions
      /\ MaxSessions \in Nat /\ signIns <= MaxSessions
      /\ JwtLife \in Nat /\ RefreshLife \in Nat /\ Cap \in Nat
      /\ owner \in [Sid -> User \cup {NoUser}]
  BY SessionAssumption DEF SessionAssumption, TypeOK, Sid
<1>1. AccessTokens \subseteq Token /\ RefreshTokens \subseteq Token
  BY TokensTyped
<1>2. CASE Tick
  <2>1. /\ AccessTokens' = AccessTokens /\ RefreshTokens' = RefreshTokens
        /\ now' = now + 1 /\ UNCHANGED <<off, signIns, owner, began>>
    BY <1>2 DEF Tick, AccessTokens, RefreshTokens, store, ui
  <2>2. Sessions'
    BY <1>0, <2>1 DEF AccessInv, Sessions, Active
  <2>3. ASSUME NEW t \in AccessTokens PROVE GoodAccess(t)'
    <3>1. GoodAccess(t) /\ t.exp \in Nat
      BY <1>1 DEF AccessInv, Token
    <3>2. t.exp <= now' + JwtLife
      BY <1>0, <2>1, <3>1 DEF GoodAccess
    <3> QED BY <2>1, <3>1, <3>2 DEF GoodAccess, Active
  <2>4. ASSUME NEW t \in RefreshTokens PROVE GoodRefresh(t)'
    BY <2>1 DEF AccessInv, GoodRefresh
  <2> QED BY <2>1, <2>2, <2>3, <2>4 DEF AccessInv
<1>3. ASSUME NEW u \in User, Deactivate(u) PROVE AccessInv'
  <2>1. /\ AccessTokens' = AccessTokens /\ RefreshTokens' = RefreshTokens
        /\ off' = [off EXCEPT ![u] = now] /\ UNCHANGED <<now, signIns, owner, began>>
    BY <1>3 DEF Deactivate, AccessTokens, RefreshTokens, store, ui
  <2>2. \A v \in User : v # u => off'[v] = off[v]
    BY <1>0, <2>1
  <2>3. off'[u] = now
    BY <1>0, <2>1
  <2>4. Sessions'
    BY <2>1, <2>2, <2>3 DEF AccessInv, Sessions, Active
  <2>5. ASSUME NEW t \in AccessTokens PROVE GoodAccess(t)'
    <3>1. GoodAccess(t) /\ t.sid \in 1..signIns
      BY <1>0, <1>1 DEF AccessInv, Token, GoodAccess
    <3>2. owner[t.sid] \in User
      BY <3>1 DEF AccessInv, Sessions
    <3> QED BY <2>1, <2>2, <2>3, <3>1, <3>2 DEF GoodAccess, Active
  <2>6. ASSUME NEW t \in RefreshTokens PROVE GoodRefresh(t)'
    BY <2>1 DEF AccessInv, GoodRefresh
  <2> QED BY <2>1, <2>4, <2>5, <2>6 DEF AccessInv
<1>4. ASSUME NEW u \in User, SignIn(u) PROVE AccessInv'
  <2> DEFINE n == signIns + 1
  <2>1. /\ signIns' = n /\ owner' = [owner EXCEPT ![n] = u]
        /\ began' = [began EXCEPT ![n] = now] /\ grant' = Rotated(n, now)
        /\ Active(u) /\ signIns < MaxSessions
        /\ UNCHANGED <<now, off, jwt, refresh, call>>
    BY <1>4 DEF SignIn, store
  <2>2. n \in Sid /\ \A s \in 1..signIns : s \in Sid /\ s # n
    BY <1>0, <2>1
  <2>3. /\ owner'[n] = u /\ began'[n] = now
        /\ \A s \in 1..signIns : owner'[s] = owner[s] /\ began'[s] = began[s]
    BY <1>0, <2>1, <2>2
  <2>4. 1..n = (1..signIns) \cup {n}
    BY <1>0
  <2>5. Sessions'
    <3> SUFFICES ASSUME NEW s \in 1..n
                 PROVE  /\ owner'[s] \in User /\ began'[s] <= now
                        /\ Active(owner'[s]) \/ began'[s] <= off[owner'[s]]
      BY <2>1 DEF Sessions, Active
    <3>1. CASE s = n
      BY <1>0, <2>1, <2>3, <3>1
    <3>2. CASE s \in 1..signIns
      BY <2>3, <3>2 DEF AccessInv, Sessions
    <3> QED BY <2>4, <3>1, <3>2
  <2>6. ASSUME NEW t \in AccessTokens' PROVE GoodAccess(t)'
    <3>1. t \in AccessTokens
      BY <2>1 DEF AccessTokens
    <3>2. GoodAccess(t) /\ t.sid \in 1..signIns
      BY <1>0, <1>1, <3>1 DEF AccessInv, Token, GoodAccess
    <3>3. t.sid <= n
      BY <1>0, <3>2
    <3> QED BY <2>1, <2>3, <3>2, <3>3 DEF GoodAccess, Active
  <2>7. ASSUME NEW t \in RefreshTokens' PROVE GoodRefresh(t)'
    <3>1. CASE t \in RefreshTokens
      <4>1. GoodRefresh(t) /\ t.sid \in 1..signIns
        BY <1>0, <1>1, <3>1 DEF AccessInv, Token, GoodRefresh
      <4>2. t.sid <= n
        BY <1>0, <4>1
      <4> QED BY <2>1, <2>3, <4>1, <4>2 DEF GoodRefresh
    <3>2. CASE t = Rotated(n, now)
      <4>1. t.sid = n /\ t.auth = now
        BY <3>2 DEF Rotated
      <4>2. n <= n
        BY <1>0
      <4> QED BY <2>1, <2>3, <4>1, <4>2 DEF GoodRefresh
    <3> QED BY <2>1, <3>1, <3>2 DEF RefreshTokens
  <2> QED BY <2>5, <2>6, <2>7 DEF AccessInv
<1> QED BY <1>2, <1>3, <1>4

\* The keys that saveSession writes are good: the granted refresh token, and
\* the access token of the same sign-in.
LEMMA SavedGood ==
  ASSUME TypeOK, AccessInv, flow = "saving", NEW keys, Write(keys)
  PROVE  /\ jwt' = jwt \/ GoodAccess(jwt')
         /\ refresh' \in {refresh, grant}
<1>1. refresh' \in {refresh, grant}
  BY DEF Write
<1>2. grant \in Token /\ grant \in RefreshTokens
  BY DEF TypeOK, Key, RefreshTokens
<1>3. grant.sid <= signIns /\ grant.auth = began[grant.sid] /\ grant.sid \in 1..signIns
  BY <1>2, SessionAssumption
     DEF SessionAssumption, AccessInv, GoodRefresh, TypeOK, Token, Sid
<1> DEFINE t == [grant EXCEPT !.exp = grant.auth + JwtLife]
<1>4. t.sid = grant.sid /\ t.exp = began[grant.sid] + JwtLife
  BY <1>2, <1>3 DEF Token
<1>5. /\ owner[grant.sid] \in User /\ began[grant.sid] <= now
      /\ Active(owner[grant.sid]) \/ began[grant.sid] <= off[owner[grant.sid]]
  BY <1>3 DEF AccessInv, Sessions
<1>6. /\ now \in Nat /\ began[grant.sid] \in Nat /\ JwtLife \in Nat /\ Cap \in Nat
      /\ off[owner[grant.sid]] \in Nat \cup {Never} /\ Never \in Int
  BY <1>2, <1>5, SessionAssumption DEF SessionAssumption, TypeOK, Token, Never
<1>7. /\ t.exp <= now + JwtLife
      /\ t.exp <= began[grant.sid] + Cap + JwtLife
      /\ began[grant.sid] <= off[owner[grant.sid]]
           => t.exp <= off[owner[grant.sid]] + JwtLife
  BY <1>4, <1>5, <1>6
<1>8. GoodAccess(t)
  BY <1>3, <1>4, <1>5, <1>7 DEF GoodAccess
<1>9. jwt' = jwt \/ jwt' = t
  BY DEF Write
<1> QED BY <1>1, <1>8, <1>9

LEMMA AccessByScreens ==
  ASSUME TypeOK, AccessInv,
         \/ SaveSession \/ Enter \/ AskPrompt \/ Cancel \/ SignOut
         \/ \E o \in Origin : Clear(o) \/ Leave(o)
         \/ Restart \/ UNCHANGED vars
  PROVE  AccessInv'
<1> USE IdleTyped
<1>1. CASE SaveSession
  <2>1. /\ Write({"jwt", "refresh", "uid"}) /\ flow = "saving"
        /\ UNCHANGED <<server, grant, call>>
    BY <1>1 DEF SaveSession
  <2>2. jwt' = jwt \/ GoodAccess(jwt')
    BY <2>1, SavedGood
  <2>3. refresh' \in {refresh, grant}
    BY <2>1, SavedGood
  <2>4. \A t \in AccessTokens' : t \in AccessTokens \/ GoodAccess(t)
    BY <2>1, <2>2 DEF AccessTokens
  <2>5. \A t \in RefreshTokens' : t \in RefreshTokens
    BY <2>1, <2>3 DEF RefreshTokens
  <2> QED BY <2>1, <2>4, <2>5, TokensOldOrGood
<1>2. ASSUME UNCHANGED <<server, call>>, jwt' \in {jwt, None},
             refresh' \in {refresh, None}, grant' \in {grant, None}
      PROVE  AccessInv'
  <2>1. \A t \in AccessTokens' : t \in AccessTokens
    BY <1>2 DEF AccessTokens
  <2>2. \A t \in RefreshTokens' : t \in RefreshTokens
    BY <1>2 DEF RefreshTokens
  <2> QED BY <1>2, <2>1, <2>2, TokensOldOrGood
<1>3. CASE Enter \/ AskPrompt \/ Cancel \/ SignOut
  BY <1>2, <1>3 DEF Enter, AskPrompt, Cancel, SignOut, store, ui
<1>4. ASSUME NEW o \in Origin, Clear(o) \/ Leave(o) PROVE AccessInv'
  BY <1>2, <1>4 DEF Clear, Leave, store, ui
<1>5. CASE Restart
  <2>1. UNCHANGED server /\ grant' = None /\ \A c \in Call : call'[c] = Idle
    BY <1>5 DEF Restart
  <2>2. jwt' = jwt \/ GoodAccess(jwt')
    BY <1>5, SavedGood DEF Restart, store
  <2>3. refresh' \in {refresh, grant}
    BY <1>5, SavedGood DEF Restart, store
  <2>4. \A t \in AccessTokens' : t \in AccessTokens \/ GoodAccess(t)
    BY <2>1, <2>2 DEF AccessTokens
  <2>5. \A t \in RefreshTokens' : t \in RefreshTokens
    BY <2>1, <2>3 DEF RefreshTokens
  <2> QED BY <2>1, <2>4, <2>5, TokensOldOrGood
<1>6. CASE UNCHANGED vars
  BY <1>2, <1>6 DEF vars, store, ui
<1> QED BY <1>1, <1>3, <1>4, <1>5, <1>6

\* However often and by however many calls at once the tokens are rotated: no
\* access token outlives the session cap, counted from the sign-in, or the
\* deactivation of the account by more than one token life.
THEOREM AccessIsBounded == Spec => []AccessEnds
<1>1. Init => AccessInv
  <2> SUFFICES ASSUME Init PROVE AccessInv
    OBVIOUS
  <2>1. AccessTokens = {} /\ RefreshTokens = {}
    BY IdleTyped DEF Init, AccessTokens, RefreshTokens
  <2>2. 1..signIns = {}
    BY DEF Init
  <2> QED BY <2>1, <2>2 DEF AccessInv, Sessions
<1>2. TypeOK /\ AccessInv /\ [Next]_vars => AccessInv'
  BY AccessByCall, AccessByServer, AccessByScreens DEF Next
<1>3. AccessInv => AccessEnds
  BY DEF AccessInv, AccessEnds, GoodAccess
<1> QED
  BY <1>1, <1>2, <1>3, TypesAtInit, TypesByNext, PTL DEF Spec

-----------------------------------------------------------------------------
(* Whose tokens the device holds.                                          *)

\* Which screen waits for what.  Nobody is let in while he chooses to sign in
\* as someone else, and a sign-in that waits for its save is the last one.
Screens ==
  /\ flow \in {"saving", "saved"} => view = "login"
  /\ flow = "prompt" => view = "unlock"
  /\ view = "app" <=> screen # NoUser
  /\ view = "app" => flow = "none"
  /\ flow # "none" => who # NoUser
  /\ leaving["switch"] # "none" => view = "unlock" /\ flow = "none"
  /\ flow = "saving" => grant.sid = signIns /\ owner[signIns] = who

\* The three keys are stored together or not at all, and are of the last
\* sign-in of the user they name.
Kept ==
  IF refresh = None THEN jwt = None /\ uid = NoUser
  ELSE /\ jwt # None /\ jwt.sid = refresh.sid
       /\ uid # NoUser /\ refresh.sid <= signIns /\ LastOf(uid, refresh)

\* A refresh token in the hands of a call is of the session that is stored,
\* and so is what the server made of it.
Carried(c) ==
  /\ call[c].pc \in {"idle", "request"} => call[c].ref = None
  /\ call[c].pc \in {"granted", "half"} =>
       /\ call[c].ref # None /\ call[c].jwt # None
       /\ call[c].jwt.sid = call[c].ref.sid
  /\ call[c].ref # None => refresh # None /\ call[c].ref.sid = refresh.sid

\* Keys that are still there when somebody signs in are of a user who can no
\* longer do so; who chose to sign in as someone else has lost his; and who is
\* let in, or is in, is the user the keys name.
Ushered ==
  /\ view = "login" /\ flow \in {"none", "saving"} /\ refresh # None => ~Active(uid)
  /\ leaving["switch"] = "leave" => refresh = None
  /\ flow \in {"saved", "prompt"} => refresh # None /\ uid = who
  /\ screen # NoUser /\ refresh # None => uid = screen

KeysInv == mishaps = {} => Kept /\ Ushered /\ \A c \in Call : Carried(c)

\* A call's step does not move the screens, and starts no logout but the notice's.
LEMMA ScreensStand ==
  ASSUME TypeOK, NEW c \in Call,
         \/ ReadJwt(c) \/ CallStep(c) \/ Refresh(c) \/ RefreshFails(c)
         \/ Request(c) \/ RequestFails(c)
  PROVE  /\ UNCHANGED <<server, uid, ui, mishaps>>
         /\ leaving'["switch"] = leaving["switch"]
<1>1. ASSUME NoteExpired PROVE leaving'["switch"] = leaving["switch"]
  BY <1>1 DEF NoteExpired, TypeOK, Origin
<1> QED
  BY <1>1 DEF CallStep, ReadJwt, ReadRefresh, Refused, StoreJwt, StoreRefresh,
              Refresh, RefreshFails, Request, RequestFails, store

LEMMA ScreensByNext == TypeOK /\ Screens /\ [Next]_vars => Screens'
<1> SUFFICES ASSUME TypeOK, Screens, [Next]_vars PROVE Screens'
  OBVIOUS
<1>0. /\ leaving \in [Origin -> {"none", "clear", "leave"}]
      /\ owner \in [Sid -> User \cup {NoUser}] /\ signIns \in Nat
      /\ Origin = {"notice", "button", "switch"}
      /\ view \in {"login", "unlock", "app"}
      /\ flow \in {"none", "saving", "saved", "prompt"}
  BY SessionAssumption DEF SessionAssumption, TypeOK, Origin
<1>1. ASSUME UNCHANGED <<signIns, owner, ui>>,
             leaving'["switch"] = leaving["switch"]
      PROVE  Screens'
  BY <1>1 DEF Screens, ui
<1>2. ASSUME NEW c \in Call,
             \/ ReadJwt(c) \/ CallStep(c) \/ Refresh(c) \/ RefreshFails(c)
             \/ Request(c) \/ RequestFails(c)
      PROVE  Screens'
  BY <1>1, <1>2, ScreensStand DEF server
<1>3. ASSUME Tick \/ \E u \in User : Deactivate(u) PROVE Screens'
  BY <1>1, <1>3 DEF Tick, Deactivate
<1>4. ASSUME NEW u \in User, SignIn(u) PROVE Screens'
  <2>1. /\ signIns + 1 \in Sid /\ signIns' = signIns + 1
        /\ owner' = [owner EXCEPT ![signIns + 1] = u]
        /\ grant' = Rotated(signIns + 1, now) /\ u # NoUser
    BY <1>0, <1>4, NobodyAssumption, SessionAssumption
       DEF SignIn, Sid, SessionAssumption, TypeOK
  <2>2. owner'[signIns'] = u /\ grant'.sid = signIns'
    BY <1>0, <2>1 DEF Rotated
  <2> QED BY <1>4, <2>1, <2>2 DEF SignIn, Screens
<1>5. CASE SaveSession
  BY <1>5 DEF SaveSession, Screens
<1>6. CASE Enter
  BY <1>0, <1>6 DEF Enter, Screens, store
<1>7. CASE AskPrompt
  BY <1>0, <1>7 DEF AskPrompt, Screens
<1>8. CASE Cancel
  BY <1>0, <1>8 DEF Cancel, Screens
<1>9. CASE SignOut
  BY <1>0, <1>9 DEF SignOut, Screens, ui, server
<1>10. ASSUME NEW o \in Origin, Clear(o) PROVE Screens'
  <2>1. leaving'["switch"] # "none" => leaving["switch"] # "none"
    BY <1>0, <1>10 DEF Clear
  <2> QED BY <1>10, <2>1 DEF Clear, Screens, ui, server
<1>11. ASSUME NEW o \in Origin, Leave(o) PROVE Screens'
  <2>1. Landing \subseteq {"login", "unlock"}
    BY DEF Landing
  <2>2. CASE o = "switch"
    <3>1. leaving'["switch"] = "none" /\ leaving["switch"] = "leave"
      BY <1>0, <1>11, <2>2 DEF Leave
    <3> QED BY <1>11, <2>2, <3>1 DEF Leave, Screens, server
  <2>3. CASE o # "switch"
    <3>1. leaving'["switch"] = leaving["switch"]
      BY <1>0, <1>11, <2>3 DEF Leave
    <3> QED BY <1>0, <1>11, <2>1, <2>3, <3>1 DEF Leave, Screens, server
  <2> QED BY <2>2, <2>3
<1>12. CASE Restart
  <2>1. view' \in {"login", "unlock"} /\ leaving'["switch"] = "none"
    BY <1>12 DEF Restart, Landing, Origin
  <2> QED BY <1>12, <2>1 DEF Restart, Screens
<1>13. CASE UNCHANGED vars
  BY <1>1, <1>13 DEF vars, server
<1> QED
  BY <1>2, <1>3, <1>4, <1>5, <1>6, <1>7, <1>8, <1>9, <1>10, <1>11, <1>12, <1>13 DEF Next

\* A call's step that stores nothing, or tokens of the session that is stored,
\* and leaves the call with tokens of that session.
LEMMA KeysByStep ==
  ASSUME TypeOK, KeysInv, NEW c \in Call, NEW s, Step(c, s),
         UNCHANGED <<server, uid, ui, mishaps>>,
         leaving'["switch"] = leaving["switch"],
         mishaps = {} =>
           /\ \/ UNCHANGED <<jwt, refresh>>
              \/ /\ refresh # None /\ refresh' # None /\ jwt' # None
                 /\ refresh'.sid = refresh.sid /\ jwt'.sid = refresh.sid
           /\ s.pc \in {"idle", "request"} => s.ref = None
           /\ s.pc \in {"granted", "half"} =>
                s.ref # None /\ s.jwt # None /\ s.jwt.sid = s.ref.sid
           /\ s.ref # None => refresh # None /\ s.ref.sid = refresh.sid
  PROVE  KeysInv'
<1> SUFFICES ASSUME mishaps' = {} PROVE Kept' /\ Ushered' /\ \A d \in Call : Carried(d)'
  BY DEF KeysInv
<1>1. mishaps = {} /\ Kept /\ Ushered /\ \A d \in Call : Carried(d)
  BY DEF KeysInv
<1>2. /\ refresh' = None <=> refresh = None
      /\ refresh # None => refresh'.sid = refresh.sid
      /\ refresh = None => jwt' = jwt
      /\ refresh # None => jwt' # None /\ jwt'.sid = refresh.sid
  BY <1>1 DEF Kept
<1>3. Kept'
  BY <1>1, <1>2 DEF Kept, LastOf, server
<1>4. Ushered'
  BY <1>1, <1>2 DEF Ushered, Active, server, ui
<1>5. ASSUME NEW d \in Call PROVE Carried(d)'
  <2>1. CASE d = c
    <3>1. call'[c] = s
      BY DEF Step, TypeOK
    <3> QED BY <1>1, <1>2, <2>1, <3>1 DEF Carried
  <2>2. CASE d # c
    <3>1. call'[d] = call[d]
      BY <2>2 DEF Step, TypeOK
    <3> QED BY <1>1, <1>2, <3>1 DEF Carried
  <2> QED BY <2>1, <2>2
<1> QED BY <1>3, <1>4, <1>5

LEMMA KeysByCall ==
  ASSUME TypeOK, KeysInv, NEW c \in Call,
         \/ ReadJwt(c) \/ CallStep(c) \/ Refresh(c) \/ RefreshFails(c)
         \/ Request(c) \/ RequestFails(c)
  PROVE  KeysInv'
<1>0. /\ call[c] \in CallState /\ call[c].jwt \in Key /\ call[c].ref \in Key
      /\ call[c].how \in {"get", "check"} /\ jwt \in Key /\ refresh \in Key
  BY DEF TypeOK, CallState
<1>1. /\ UNCHANGED <<server, uid, ui, mishaps>>
      /\ leaving'["switch"] = leaving["switch"]
  BY ScreensStand
<1>2. mishaps = {} => Kept /\ Carried(c)
  BY DEF KeysInv
\* A step that stores nothing and hands on no refresh token.
<1>3. ASSUME NEW s, Step(c, s), s.ref = None, s.pc \notin {"granted", "half"},
             UNCHANGED <<jwt, refresh>>
      PROVE  KeysInv'
  BY <1>1, <1>3, KeysByStep
<1>4. ASSUME ReadJwt(c) PROVE KeysInv'
  <2> DEFINE s == [pc |-> IF jwt.exp > now THEN "request" ELSE "renew",
                   how |-> "get", jwt |-> jwt, ref |-> None]
  <2>1. Step(c, s) /\ s.ref = None /\ s.pc \notin {"granted", "half"}
    BY <1>4 DEF ReadJwt
  <2> HIDE DEF s
  <2> QED BY <1>3, <1>4, <2>1 DEF ReadJwt, store
<1>5. ASSUME ReadRefresh(c) PROVE KeysInv'
  <2> DEFINE s == [At(c, "asking") EXCEPT !.ref = refresh]
  <2>1. s.pc = "asking" /\ s.ref = refresh
    BY <1>0 DEF At, CallState
  <2>2. UNCHANGED <<jwt, refresh>>
    BY <1>5 DEF ReadRefresh, store
  <2> HIDE DEF s
  <2>3. CASE refresh # None /\ Step(c, s)
    BY <1>1, <2>1, <2>2, <2>3, KeysByStep
  <2>4. CASE Step(c, Return(c, call[c].jwt))
    <3>1. Return(c, call[c].jwt).ref = None
          /\ Return(c, call[c].jwt).pc \notin {"granted", "half"}
      BY <1>0, ReturnTyped
    <3> QED BY <1>3, <2>2, <2>4, <3>1
  <2>5. CASE Step(c, Idle)
    BY <1>3, <2>2, <2>5, IdleTyped
  <2> QED BY <1>5, <2>3, <2>4, <2>5 DEF ReadRefresh, s
<1>6. ASSUME Refused(c) PROVE KeysInv'
  BY <1>3, <1>6, IdleTyped DEF Refused, store
<1>7. ASSUME StoreJwt(c) PROVE KeysInv'
  <2>1. /\ At(c, "half").pc = "half" /\ At(c, "half").jwt = call[c].jwt
        /\ At(c, "half").ref = call[c].ref
    BY <1>0, AtTyped DEF At, Place
  <2>2. /\ Step(c, At(c, "half")) /\ jwt' = call[c].jwt /\ refresh' = refresh
        /\ call[c].pc = "granted"
    BY <1>7 DEF StoreJwt
  <2>3. mishaps = {} =>
          /\ call[c].ref # None /\ call[c].jwt # None
          /\ call[c].jwt.sid = call[c].ref.sid
          /\ refresh # None /\ call[c].ref.sid = refresh.sid
    BY <1>2, <2>2 DEF Carried
  <2> QED BY <1>1, <2>1, <2>2, <2>3, KeysByStep
<1>8. ASSUME StoreRefresh(c) PROVE KeysInv'
  <2>1. /\ call[c].pc = "half" /\ refresh' = call[c].ref /\ jwt' = jwt
    BY <1>8 DEF StoreRefresh
  <2>2. PICK s : Step(c, s) /\ s.ref = None /\ s.pc \notin {"granted", "half"}
    BY <1>0, <1>8, ReturnTyped, IdleTyped DEF StoreRefresh
  <2>3. mishaps = {} =>
          /\ call[c].ref # None /\ refresh # None
          /\ call[c].ref.sid = refresh.sid /\ jwt # None /\ jwt.sid = refresh.sid
    BY <1>2, <2>1 DEF Carried, Kept
  <2> QED BY <1>1, <2>1, <2>2, <2>3, KeysByStep
<1>9. ASSUME Refresh(c) PROVE KeysInv'
  <2> DEFINE t == call[c].ref
             s == [pc |-> "granted", how |-> call[c].how,
                   jwt |-> Access(t.sid, AuthTime(t)),
                   ref |-> Rotated(t.sid, AuthTime(t))]
  <2>1. t \in Token
    BY <1>0, <1>9 DEF Refresh, TypeOK, Key
  <2>2. UNCHANGED <<jwt, refresh>>
    BY <1>9 DEF Refresh, store
  <2>3. CASE Step(c, Fresh("refused", call[c].how))
    <3>1. Fresh("refused", call[c].how).ref = None
          /\ Fresh("refused", call[c].how).pc = "refused"
      BY <1>0, FreshTyped DEF Place
    <3> QED BY <1>3, <2>2, <2>3, <3>1
  <2>4. CASE Step(c, s)
    <3>1. s.pc = "granted" /\ s.jwt.sid = t.sid /\ s.ref.sid = t.sid
      BY DEF Access, Rotated
    <3>2. s.jwt # None /\ s.ref # None
      <4>1. t.sid # 0
        BY <2>1, SessionAssumption DEF Token, Sid, SessionAssumption
      <4> QED BY <3>1, <4>1 DEF None
    <3>3. mishaps = {} => refresh # None /\ t.sid = refresh.sid
      <4>1. t # None
        BY <1>9 DEF Refresh, TypeOK
      <4> QED BY <1>2, <4>1 DEF Carried
    <3> HIDE DEF s, t
    <3> QED BY <1>1, <2>2, <2>4, <3>1, <3>2, <3>3, KeysByStep
  <2> QED BY <1>9, <2>3, <2>4 DEF Refresh
<1>10. ASSUME RefreshFails(c) PROVE KeysInv'
  <2>1. PICK s : Step(c, s) /\ s.ref = None /\ s.pc \notin {"granted", "half"}
    BY <1>0, <1>10, ReturnTyped, IdleTyped DEF RefreshFails
  <2> QED BY <1>3, <1>10, <2>1 DEF RefreshFails, store
<1>11. ASSUME Request(c) \/ RequestFails(c) PROVE KeysInv'
  <2>1. PICK s : Step(c, s) /\ s.ref = None /\ s.pc \notin {"granted", "half"}
    BY <1>11, FreshTyped, IdleTyped DEF Request, RequestFails, Place
  <2> QED BY <1>3, <1>11, <2>1 DEF Request, RequestFails, store
<1> QED
  BY <1>4, <1>5, <1>6, <1>7, <1>8, <1>9, <1>10, <1>11 DEF CallStep

\* A step of the screens that leaves the keys and the calls alone.
LEMMA KeysStand ==
  ASSUME KeysInv, UNCHANGED <<signIns, owner, store, call>>,
         mishaps' = {} => mishaps = {} /\ Ushered'
  PROVE  KeysInv'
  BY DEF KeysInv, Kept, LastOf, Carried, store

\* Where no renewal is in flight no call holds a refresh token.
LEMMA NothingCarried ==
  ASSUME KeysInv, mishaps = {}, Crossing = {}, NEW c \in Call
  PROVE  call[c].pc \in {"idle", "request"} /\ call[c].ref = None
  BY DEF KeysInv, Carried, Crossing, Renewing

LEMMA KeysBySignIn ==
  ASSUME TypeOK, Screens, KeysInv, NEW u \in User, SignIn(u)
  PROVE  KeysInv'
<1> SUFFICES ASSUME mishaps' = {} PROVE Kept' /\ Ushered' /\ \A c \in Call : Carried(c)'
  BY DEF KeysInv
<1>0. mishaps = {} /\ Kept /\ Ushered /\ \A c \in Call : Carried(c)
  BY DEF SignIn, KeysInv
<1>1. /\ signIns \in Nat /\ signIns' = signIns + 1 /\ signIns + 1 \in Sid
      /\ owner' = [owner EXCEPT ![signIns + 1] = u]
      /\ owner \in [Sid -> User \cup {NoUser}] /\ Sid = 1..MaxSessions
      /\ UNCHANGED <<off, jwt, refresh, uid, call>>
  BY SessionAssumption DEF SignIn, Sid, SessionAssumption, TypeOK, store
<1>2. refresh # None => ~Active(uid) /\ uid # u
  BY <1>0 DEF SignIn, Ushered
<1>3. Kept'
  <2>1. CASE refresh = None
    BY <1>0, <1>1, <2>1 DEF Kept
  <2>2. CASE refresh # None
    <3>1. refresh.sid \in Sid /\ refresh.sid <= signIns
      BY <1>0, <2>2 DEF Kept, TypeOK, Key, Token
    <3>2. owner'[signIns + 1] = u /\ \A s \in 1..signIns : owner'[s] = owner[s]
      BY <1>1
    <3>3. refresh.sid \in 1..signIns /\ refresh.sid <= signIns + 1
      BY <1>1, <3>1
    <3>4. 1..signIns' = (1..signIns) \cup {signIns + 1}
      BY <1>1
    <3>5. LastOf(uid, refresh)'
      BY <1>0, <1>1, <1>2, <2>2, <3>2, <3>3, <3>4 DEF Kept, LastOf
    <3> QED BY <1>0, <1>1, <2>2, <3>3, <3>5 DEF Kept
  <2> QED BY <2>1, <2>2
<1>4. Ushered'
  BY <1>0, <1>1, <1>2 DEF SignIn, Ushered, Active
<1>5. \A c \in Call : Carried(c)'
  BY <1>0, <1>1 DEF Carried
<1> QED BY <1>3, <1>4, <1>5

LEMMA KeysBySave ==
  ASSUME TypeOK, Screens, KeysInv, SaveSession
  PROVE  KeysInv'
<1> SUFFICES ASSUME mishaps' = {} PROVE Kept' /\ Ushered' /\ \A c \in Call : Carried(c)'
  BY DEF KeysInv
<1>0. mishaps = {} /\ Crossing = {} /\ flow = "saving" /\ view = "login"
      /\ leaving["switch"] = "none" /\ screen = NoUser
  BY DEF SaveSession, Screens
<1>1. /\ refresh' = grant /\ uid' = who /\ jwt' = [grant EXCEPT !.exp = grant.auth + JwtLife]
      /\ UNCHANGED <<signIns, owner, off, call, leaving, view, screen, who>>
  BY DEF SaveSession, Write, server
<1>2. grant # None /\ grant \in Token /\ grant.sid = signIns /\ owner[signIns] = who
      /\ who # NoUser
  BY <1>0 DEF TypeOK, Key, Screens
<1>3. jwt'.sid = grant.sid /\ jwt' # None
  <2>1. jwt'.sid = grant.sid /\ grant.sid # 0
    BY <1>1, <1>2, SessionAssumption DEF Token, Sid, SessionAssumption
  <2> QED BY <2>1 DEF None
<1>4. signIns \in Nat /\ \A s \in 1..signIns : s <= signIns
  BY SessionAssumption DEF SessionAssumption, TypeOK
<1>5. Kept'
  BY <1>1, <1>2, <1>3, <1>4 DEF Kept, LastOf
<1>6. Ushered'
  BY <1>0, <1>1, <1>2 DEF SaveSession, Ushered
<1>7. \A c \in Call : Carried(c)'
  BY <1>0, <1>1, NothingCarried DEF Carried
<1> QED BY <1>5, <1>6, <1>7

LEMMA KeysByScreens ==
  ASSUME TypeOK, Screens, KeysInv,
         \/ Tick \/ \E u \in User : Deactivate(u)
         \/ Enter \/ AskPrompt \/ Cancel \/ SignOut
         \/ \E o \in Origin : Clear(o) \/ Leave(o)
         \/ Restart \/ UNCHANGED vars
  PROVE  KeysInv'
<1>0. /\ leaving \in [Origin -> {"none", "clear", "leave"}]
      /\ Origin = {"notice", "button", "switch"}
      /\ uid \in User \cup {NoUser} /\ off \in [User -> Nat \cup {Never}]
      /\ now \in Nat
      /\ flow \in {"none", "saving", "saved", "prompt"}
  BY SessionAssumption DEF SessionAssumption, TypeOK, Origin
<1>1. mishaps = {} => Kept /\ Ushered /\ \A c \in Call : Carried(c)
  BY DEF KeysInv
<1>2. CASE Tick
  BY <1>1, <1>2, KeysStand DEF Tick, Ushered, Active, store, ui
<1>3. ASSUME NEW u \in User, Deactivate(u) PROVE KeysInv'
  <2>1. off'[u] # Never /\ \A v \in User : v # u => off'[v] = off[v]
    BY <1>0, <1>3 DEF Deactivate, Never
  <2>2. mishaps' = {} => Kept /\ Ushered
    BY <1>1, <1>3 DEF Deactivate
  <2>3. refresh # None /\ mishaps' = {} => uid \in User /\ (~Active(uid) => ~Active(uid)')
    BY <1>0, <2>1, <2>2, <1>3 DEF Kept, Active, Deactivate, store
  <2>4. mishaps' = {} => Ushered'
    BY <1>3, <2>2, <2>3 DEF Deactivate, Ushered, store, ui
  <2> QED BY <1>3, <2>4, KeysStand DEF Deactivate
<1>4. CASE Enter
  <2>1. flow # "none" /\ leaving["switch"] = "none"
    BY <1>4 DEF Enter, Screens
  <2>2. mishaps' = {} => Ushered'
    BY <1>1, <1>4, <2>1 DEF Enter, Ushered, server, store
  <2> QED BY <1>4, <2>2, KeysStand DEF Enter, server
<1>5. CASE AskPrompt
  <2>1. mishaps' = {} => Ushered'
    BY <1>1, <1>5 DEF AskPrompt, Ushered, Kept, server, store
  <2> QED BY <1>5, <2>1, KeysStand DEF AskPrompt, server
<1>6. CASE Cancel
  <2>1. view = "unlock"
    BY <1>6 DEF Cancel, Screens
  <2>2. mishaps' = {} => Ushered'
    BY <1>1, <1>6, <2>1 DEF Cancel, Ushered, server, store
  <2> QED BY <1>6, <2>2, KeysStand DEF Cancel, server
<1>7. CASE SignOut
  <2>1. leaving'["switch"] = "leave" => leaving["switch"] = "leave"
    BY <1>0, <1>7 DEF SignOut
  <2>2. mishaps' = {} => Ushered'
    BY <1>1, <1>7, <2>1 DEF SignOut, Ushered, Active, server, store, ui
  <2> QED BY <1>7, <2>2, KeysStand DEF SignOut, server
<1>8. ASSUME NEW o \in Origin, Clear(o) PROVE KeysInv'
  <2> SUFFICES ASSUME mishaps' = {} PROVE Kept' /\ Ushered' /\ \A c \in Call : Carried(c)'
    BY DEF KeysInv
  <2>1. mishaps = {} /\ Crossing = {} /\ flow \notin {"saved", "prompt"}
    BY <1>8 DEF Clear, Clearing
  <2>2. jwt' = None /\ refresh' = None /\ uid' = NoUser /\ UNCHANGED <<call, flow>>
    BY <1>8 DEF Clear, ui
  <2>3. \A c \in Call : Carried(c)'
    BY <2>1, <2>2, NothingCarried DEF Carried
  <2> QED BY <2>1, <2>2, <2>3 DEF Kept, Ushered
<1>9. ASSUME NEW o \in Origin, Leave(o) PROVE KeysInv'
  <2>1. CASE o = "switch"
    <3>1. leaving'["switch"] = "none" /\ leaving["switch"] = "leave"
          /\ UNCHANGED screen /\ flow = "none"
      BY <1>0, <1>9, <2>1 DEF Leave, Screens
    <3>2. mishaps' = {} => Ushered'
      BY <1>1, <1>9, <3>1 DEF Leave, Ushered, server, store
    <3> QED BY <1>9, <3>2, KeysStand DEF Leave, server
  <2>2. CASE o # "switch"
    <3>1. leaving'["switch"] = leaving["switch"] /\ screen' = NoUser
          /\ view' \in IF view = "app" THEN Landing ELSE {view}
      BY <1>0, <1>9, <2>2 DEF Leave
    <3>2. mishaps' = {} /\ view' = "login" /\ view = "app" /\ refresh # None => ~Active(uid)
      BY <1>1, <1>9, <3>1 DEF Leave, Landing, Kept
    <3>3. mishaps' = {} => Ushered'
      BY <1>1, <1>9, <3>1, <3>2 DEF Leave, Ushered, Active, server, store
    <3> QED BY <1>9, <3>3, KeysStand DEF Leave, server
  <2> QED BY <2>1, <2>2
<1>10. CASE Restart
  <2> SUFFICES ASSUME mishaps' = {} PROVE Kept' /\ Ushered' /\ \A c \in Call : Carried(c)'
    BY DEF KeysInv
  <2>1. mishaps = {} /\ UNCHANGED <<store, server>>
    BY <1>10 DEF Restart
  <2>2. \A c \in Call : call'[c] = Idle
    BY <1>10 DEF Restart
  <2>3. Kept'
    BY <1>1, <2>1 DEF Kept, LastOf, store, server
  <2>4. view' \in Landing /\ flow' = "none" /\ screen' = NoUser
        /\ leaving'["switch"] = "none"
    BY <1>0, <1>10, <2>1 DEF Restart, Landing, Active, store, server
  <2>5. Ushered'
    BY <1>1, <2>1, <2>4 DEF Ushered, Landing, Active, Kept, store, server
  <2>6. \A c \in Call : Carried(c)'
    BY <2>2, IdleTyped DEF Carried
  <2> QED BY <2>3, <2>5, <2>6
<1>11. CASE UNCHANGED vars
  BY <1>1, <1>11, KeysStand DEF vars, Ushered, Active, server, store, ui
<1> QED
  BY <1>2, <1>3, <1>4, <1>5, <1>6, <1>7, <1>8, <1>9, <1>10, <1>11

\* For any number of users, calls and sign-ins, and however renewals, logouts,
\* sign-ins and restarts interleave: unless one of the three mishaps happened,
\* the tokens under which a user's edits go out are of his own last sign-in.
THEOREM TokensAreOwn == Spec => []OwnTokens
<1>1. Init => Screens /\ KeysInv
  BY IdleTyped DEF Init, Screens, KeysInv, Kept, Ushered, Carried, Origin
<1>2. TypeOK /\ Screens /\ KeysInv /\ [Next]_vars => KeysInv'
  BY KeysByCall, KeysBySignIn, KeysBySave, KeysByScreens DEF Next
<1>3. Screens /\ KeysInv => OwnTokens
  <2> SUFFICES ASSUME KeysInv, mishaps = {}, screen # NoUser
               PROVE  /\ \A t \in {jwt, refresh} \ {None} : LastOf(screen, t)
                      /\ uid \in {screen, NoUser}
    BY DEF OwnTokens
  <2>1. Kept /\ Ushered
    BY DEF KeysInv
  <2> QED BY <2>1 DEF Kept, Ushered, LastOf
<1> QED
  BY <1>1, <1>2, <1>3, TypesAtInit, TypesByNext, ScreensByNext, PTL DEF Spec

=============================================================================

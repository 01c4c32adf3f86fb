---------------------------- MODULE SessionTokens ----------------------------
(***************************************************************************)
(* The session of one device: the three stored keys, the calls that renew  *)
(* the tokens while the sync engine works (apps/mobile-v2/src/auth/        *)
(* session.ts), the once-per-session expiry notice (packages/core/src/auth/*)
(* sessionExpiredBus.ts, wired to the logout in app/_layout.tsx), the      *)
(* screens that sign a user in, unlock and sign out, and the server's      *)
(* POST /auth/refresh (apps/api-v2/src/routes/auth.ts).                    *)
(*                                                                         *)
(* A call is one request of the engine or of a screen: getValidJwt, the    *)
(* request made with the token, and revalidateSession when the answer is   *)
(* 401.  Every await of these functions ends a step.  Tokens are signed    *)
(* and not stored by the server: a token is its session, its expiry and    *)
(* its auth_time.                                                          *)
(***************************************************************************)
EXTENDS Integers

CONSTANTS
  User,
  Leaver,          \* users an administrator may deactivate
  Call,            \* calls that may be under way at once
  JwtLife,         \* life of an access token (15 minutes)
  RefreshLife,     \* life of a refresh token (7 days)
  Cap,             \* REFRESH_SESSION_CAP_MS (30 days)
  MaxTime,         \* bound: the clock
  MaxSessions      \* bound: sign-ins

ASSUME SessionAssumption ==
  /\ Leaver \subseteq User
  /\ JwtLife \in Nat \ {0}
  /\ RefreshLife \in Nat \ {0}
  /\ Cap \in Nat
  /\ MaxTime \in Nat
  /\ MaxSessions \in Nat

NoUser == "nobody"
ASSUME NobodyAssumption == NoUser \notin User

Never == -1
Sid   == 1..MaxSessions
None  == [sid |-> 0, exp |-> 0, auth |-> 0]       \* no such key
Token == [sid : Sid, exp : Nat, auth : Nat]
Key   == Token \cup {None}

VARIABLES
  now,             \* the clock
  off,             \* users.active: when the user was deactivated, or Never
  signIns,         \* history: sign-ins the server has granted
  owner,           \* history: owner[s], whose sign-in session s is
  began,           \* history: began[s], when it was
  jwt, refresh,    \* SecureStore: the two tokens
  uid,             \* SecureStore: the user id
  screen,          \* the session context's user
  fired,           \* sessionExpiredBus: the notice of this session is given
  view,            \* "login", "unlock" or "app"
  flow,            \* what the screen waits for
  grant,           \* the answer of a sign-in, before it is saved
  who,             \* the user the screen is about to let in
  leaving,         \* leaving[o]: the logout that origin o started
  call,            \* call[c]: the call's place and the tokens it holds
  mishaps          \* history: what the promises below make an exception of

server == <<now, off, signIns, owner, began>>
store  == <<jwt, refresh, uid>>
ui     == <<screen, view, flow, grant, who>>
vars   == <<server, store, ui, fired, leaving, call, mishaps>>

\* torn: the app was killed inside a saveSession.  crossed: the keys were saved
\* or cleared while a renewal was in flight.  undercut: they were cleared while
\* a user who owned them was being let in.
Mishap == {"torn", "crossed", "undercut"}

Origin == {"notice", "button", "switch"}
Idle   == [pc |-> "idle", how |-> "get", jwt |-> None, ref |-> None]
CallState == [pc : {"idle", "renew", "asking", "granted", "half", "refused",
                    "request", "recheck"},
              how : {"get", "check"}, jwt : Key, ref : Key]

Init ==
  /\ now = 0
  /\ off = [u \in User |-> Never]
  /\ signIns = 0
  /\ owner = [s \in Sid |-> NoUser]
  /\ began = [s \in Sid |-> 0]
  /\ jwt = None /\ refresh = None /\ uid = NoUser
  /\ screen = NoUser /\ fired = FALSE
  /\ view = "login" /\ flow = "none" /\ grant = None /\ who = NoUser
  /\ leaving = [o \in Origin |-> "none"]
  /\ call = [c \in Call |-> Idle]
  /\ mishaps = {}

-----------------------------------------------------------------------------
(* The server.                                                             *)

Active(u) == off[u] = Never

\* What POST /auth/refresh refuses with 401 or 403.
Rejected(t) ==
  \/ t.exp <= now
  \/ now - t.auth > Cap
  \/ ~Active(owner[t.sid])

\* auth_time of the rotated token: that of the sign-in, not of the rotation.
RotationTime(t) == now                \* mutant: a rotation restarts the session
AuthTime(t) == t.auth

Access(s, t)  == [sid |-> s, exp |-> now + JwtLife, auth |-> t]
Rotated(s, t) == [sid |-> s, exp |-> now + RefreshLife, auth |-> t]

\* An administrator deactivates an account.  The bound leaves time for the
\* last access token to run out.
Deactivate(u) ==
  /\ u \in Leaver /\ Active(u)
  /\ now + JwtLife <= MaxTime
  /\ off' = [off EXCEPT ![u] = now]
  /\ UNCHANGED <<now, signIns, owner, began, store, ui, fired, leaving, call, mishaps>>

Tick ==
  /\ now < MaxTime
  /\ now' = now + 1
  /\ UNCHANGED <<off, signIns, owner, began, store, ui, fired, leaving, call, mishaps>>

-----------------------------------------------------------------------------
(* The expiry notice.                                                      *)

\* noteSessionExpired: once until the next sign-in, the handler's logout.
NoteExpired ==
  IF fired THEN UNCHANGED <<fired, leaving>>
  ELSE /\ fired' = TRUE
       /\ leaving' = [leaving EXCEPT !["notice"] = "clear"]

\* resetSessionExpiredNotice: the effect runs when the user's id changes.
NeverReArm(u) == UNCHANGED fired      \* mutant: the latch stays set
ReArm(u) == fired' = (IF u # screen THEN FALSE ELSE fired)

-----------------------------------------------------------------------------
(* A call.                                                                 *)

Step(c, s) == call' = [call EXCEPT ![c] = s]
At(c, p)   == [call[c] EXCEPT !.pc = p]
Fresh(p, h) == [Idle EXCEPT !.pc = p, !.how = h]
Renewing   == {c \in Call : call[c].pc \notin {"idle", "request"}}

\* getValidJwt: a token that is still good is used as it is.
ReadJwt(c) ==
  /\ call[c].pc = "idle"
  /\ Step(c, [pc |-> IF jwt.exp > now THEN "request" ELSE "renew",
              how |-> "get", jwt |-> jwt, ref |-> None])
  /\ UNCHANGED <<server, store, ui, fired, leaving, mishaps>>

\* What getValidJwt returns: no token ends the call, silently.
Return(c, t) == IF t = None THEN Idle
                ELSE [pc |-> "request", how |-> "get", jwt |-> t, ref |-> None]

\* The refresh token is read; without one getValidJwt returns the token it
\* has, and revalidateSession declares the session dead.
AskAnyway(c) ==                       \* mutant: the null is not looked at
  /\ call[c].pc \in {"renew", "recheck"}
  /\ Step(c, [At(c, "asking") EXCEPT !.ref = refresh])
  /\ UNCHANGED <<server, store, ui, fired, leaving, mishaps>>
ReadRefresh(c) ==
  /\ call[c].pc \in {"renew", "recheck"}
  /\ \/ /\ refresh # None
        /\ Step(c, [At(c, "asking") EXCEPT !.ref = refresh])
        /\ UNCHANGED <<fired, leaving>>
     \/ /\ refresh = None /\ call[c].how = "get"
        /\ Step(c, Return(c, call[c].jwt))
        /\ UNCHANGED <<fired, leaving>>
     \/ /\ refresh = None /\ call[c].how = "check"
        /\ NoteExpired
        /\ Step(c, Idle)
  /\ UNCHANGED <<server, store, ui, mishaps>>

\* POST /auth/refresh.
Refresh(c) ==
  /\ call[c].pc = "asking"
  /\ LET t == call[c].ref IN
     Step(c, IF Rejected(t) THEN Fresh("refused", call[c].how)
             ELSE [pc |-> "granted", how |-> call[c].how,
                   jwt |-> Access(t.sid, AuthTime(t)),
                   ref |-> Rotated(t.sid, AuthTime(t))])
  /\ UNCHANGED <<server, store, ui, fired, leaving, mishaps>>

\* No network, a rate limit, a 5xx: the call goes on with what it had.
RefreshFails(c) ==
  /\ call[c].pc = "asking"
  /\ Step(c, IF call[c].how = "get" THEN Return(c, call[c].jwt) ELSE Idle)
  /\ UNCHANGED <<server, store, ui, fired, leaving, mishaps>>

\* 401 or 403: the session is dead.
RefusedQuietly(c) ==                  \* mutant: taken for a network failure
  /\ call[c].pc = "refused"
  /\ Step(c, Idle)
  /\ UNCHANGED <<server, store, ui, fired, leaving, mishaps>>
Refused(c) ==
  /\ call[c].pc = "refused"
  /\ NoteExpired
  /\ Step(c, Idle)
  /\ UNCHANGED <<server, store, ui, mishaps>>

StoreJwt(c) ==
  /\ call[c].pc = "granted"
  /\ jwt' = call[c].jwt
  /\ Step(c, At(c, "half"))
  /\ UNCHANGED <<server, refresh, uid, ui, fired, leaving, mishaps>>

StoreRefresh(c) ==
  /\ call[c].pc = "half"
  /\ refresh' = call[c].ref
  /\ Step(c, IF call[c].how = "get" THEN Return(c, call[c].jwt) ELSE Idle)
  /\ UNCHANGED <<server, jwt, uid, ui, fired, leaving, mishaps>>

\* The request itself: answered, or 401 and revalidateSession.
Request(c) ==
  /\ call[c].pc = "request"
  /\ Step(c, IF call[c].jwt.exp > now THEN Idle
             ELSE Fresh("recheck", "check"))
  /\ UNCHANGED <<server, store, ui, fired, leaving, mishaps>>

RequestFails(c) ==
  /\ call[c].pc = "request"
  /\ Step(c, Idle)
  /\ UNCHANGED <<server, store, ui, fired, leaving, mishaps>>

-----------------------------------------------------------------------------
(* The screens.                                                            *)

Crossing == IF Renewing = {} THEN {} ELSE {"crossed"}

\* POST /auth/token or /auth/set-pin accepted the PIN of u.  The bound leaves
\* time for its access token to run out.
SignIn(u) ==
  /\ view = "login" /\ flow = "none"
  /\ Active(u) /\ signIns < MaxSessions /\ now + JwtLife <= MaxTime
  /\ LET s == signIns + 1 IN
     /\ signIns' = s
     /\ owner' = [owner EXCEPT ![s] = u]
     /\ began' = [began EXCEPT ![s] = now]
     /\ grant' = Rotated(s, now)
  /\ flow' = "saving" /\ who' = u
  /\ UNCHANGED <<now, off, store, screen, view, fired, leaving, call, mishaps>>

\* saveSession writes the three keys; an app killed meanwhile leaves some.
Write(keys) ==
  /\ jwt' = IF "jwt" \in keys
            THEN [grant EXCEPT !.exp = grant.auth + JwtLife] ELSE jwt
  /\ refresh' = IF "refresh" \in keys THEN grant ELSE refresh
  /\ uid' = IF "uid" \in keys THEN who ELSE uid

SaveSession ==
  /\ flow = "saving"
  /\ Write({"jwt", "refresh", "uid"})
  /\ flow' = "saved"
  /\ mishaps' = mishaps \cup Crossing
  /\ UNCHANGED <<server, screen, view, grant, who, fired, leaving, call>>

\* The unlock screen reads the user id and shows the biometric prompt (not to
\* somebody who has just chosen to sign in as someone else).
AskPrompt ==
  /\ view = "unlock" /\ flow = "none" /\ leaving["switch"] = "none"
  /\ IF uid = NoUser
     THEN view' = "login" /\ UNCHANGED <<flow, who>>
     ELSE flow' = "prompt" /\ who' = uid /\ UNCHANGED view
  /\ UNCHANGED <<server, store, screen, grant, fired, leaving, call, mishaps>>

\* finishLogin after the save, or the prompt answered: setUser(session) and
\* the effect of the new user.  Nothing is read from the store here.
Enter ==
  /\ flow \in {"saved", "prompt"}
  /\ screen' = who
  /\ ReArm(who)
  /\ view' = "app" /\ flow' = "none" /\ grant' = None /\ who' = NoUser
  /\ UNCHANGED <<server, store, leaving, call, mishaps>>

Cancel ==
  /\ flow = "prompt"
  /\ flow' = "none" /\ who' = NoUser
  /\ UNCHANGED <<server, store, screen, view, grant, fired, leaving, call, mishaps>>

\* The sign-out button; "Sign in as someone else" on the unlock screen, which
\* does the same by itself for a user it no longer knows as active.
SignOut ==
  /\ \E o \in {"button", "switch"} :
       /\ IF o = "button" THEN view = "app" /\ screen # NoUser
                          ELSE view = "unlock" /\ flow = "none"
       /\ leaving[o] = "none"
       /\ leaving' = [leaving EXCEPT ![o] = "clear"]
  /\ UNCHANGED <<server, store, ui, fired, call, mishaps>>

Clearing == mishaps' = mishaps \cup Crossing
              \cup IF flow \in {"saved", "prompt"} THEN {"undercut"} ELSE {}

\* clearSession.
ClearJwtOnly(o) ==                    \* mutant: the other keys are left
  /\ leaving[o] = "clear"
  /\ jwt' = None
  /\ leaving' = [leaving EXCEPT ![o] = "leave"]
  /\ Clearing
  /\ UNCHANGED <<server, refresh, uid, ui, fired, call>>
Clear(o) ==
  /\ leaving[o] = "clear"
  /\ jwt' = None /\ refresh' = None /\ uid' = NoUser
  /\ leaving' = [leaving EXCEPT ![o] = "leave"]
  /\ Clearing
  /\ UNCHANGED <<server, ui, fired, call>>

\* Where an app without a user goes: hasStoredSession decides.  A user whose
\* deactivation has been pulled is not resumed.
Landing ==
  IF refresh = None \/ uid = NoUser THEN {"login"}
  ELSE IF Active(uid) THEN {"unlock"} ELSE {"unlock", "login"}

\* A logout's setUser(null) and the guard of the signed-in screens; the
\* unlock screen's switch only goes to the login screen.
Leave(o) ==
  /\ leaving[o] = "leave"
  /\ leaving' = [leaving EXCEPT ![o] = "none"]
  /\ IF o = "switch"
     THEN view' = "login" /\ UNCHANGED screen
     ELSE /\ screen' = NoUser
          /\ view' \in IF view = "app" THEN Landing ELSE {view}
  /\ UNCHANGED <<server, store, flow, grant, who, fired, call, mishaps>>

\* The app is killed and started again: the store survives, whole or not.
Restart ==
  /\ screen' = NoUser /\ fired' = FALSE
  /\ flow' = "none" /\ grant' = None /\ who' = NoUser
  /\ leaving' = [o \in Origin |-> "none"]
  /\ call' = [c \in Call |-> Idle]
  /\ \/ UNCHANGED <<store, mishaps>>
     \/ /\ flow = "saving"
        /\ \E keys \in SUBSET {"jwt", "refresh", "uid"} : Write(keys)
        /\ mishaps' = mishaps \cup {"torn"}
  /\ UNCHANGED server
  /\ view' \in Landing'

-----------------------------------------------------------------------------
CallStep(c) == ReadRefresh(c) \/ Refused(c) \/ StoreJwt(c) \/ StoreRefresh(c)

Next ==
  \/ Tick \/ \E u \in User : Deactivate(u) \/ SignIn(u)
  \/ \E c \in Call : \/ ReadJwt(c) \/ CallStep(c) \/ Refresh(c) \/ RefreshFails(c)
                     \/ Request(c) \/ RequestFails(c)
  \/ SaveSession \/ Enter \/ AskPrompt \/ Cancel \/ SignOut
  \/ \E o \in Origin : Clear(o) \/ Leave(o)
  \/ Restart

\* The heartbeat starts a cycle every minute for as long as the app runs, the
\* steps of a call and of a logout follow from promises that settle, time
\* passes, and the network does not fail for ever.
Fairness ==
  /\ WF_vars(Tick)
  /\ \A c \in Call : /\ WF_vars(ReadJwt(c) \/ CallStep(c))
                     /\ SF_vars(Refresh(c)) /\ SF_vars(Request(c))
  /\ \A o \in Origin : WF_vars(Clear(o) \/ Leave(o))

Spec     == Init /\ [][Next]_vars
FairSpec == Spec /\ Fairness

-----------------------------------------------------------------------------
(* Properties.                                                             *)

TypeOK ==
  /\ now \in 0..MaxTime
  /\ off \in [User -> Nat \cup {Never}]
  /\ signIns \in 0..MaxSessions
  /\ owner \in [Sid -> User \cup {NoUser}]
  /\ began \in [Sid -> Nat]
  /\ jwt \in Key /\ refresh \in Key /\ grant \in Key
  /\ {uid, screen, who} \subseteq User \cup {NoUser}
  /\ fired \in BOOLEAN
  /\ view \in {"login", "unlock", "app"}
  /\ flow \in {"none", "saving", "saved", "prompt"}
  /\ leaving \in [Origin -> {"none", "clear", "leave"}]
  /\ call \in [Call -> CallState]
  /\ \A c \in Call : call[c].pc = "asking" => call[c].ref # None
  /\ flow = "saving" => grant # None
  /\ mishaps \subseteq Mishap

\* Every token of the device, stored or in the hands of a call.
AccessTokens  == ({jwt} \cup {call[c].jwt : c \in Call}) \ {None}
RefreshTokens == ({refresh, grant} \cup {call[c].ref : c \in Call}) \ {None}

\* However often the tokens are rotated, by however many calls at once: an
\* access token is good for no longer than the session cap, counted from the
\* sign-in itself, and one token life; and no longer than one token life
\* after the account was deactivated.
AccessEnds ==
  \A t \in AccessTokens :
    /\ t.exp <= began[t.sid] + Cap + JwtLife
    /\ LET u == owner[t.sid] IN Active(u) \/ t.exp <= off[u] + JwtLife

\* t is of the last sign-in of user u.
LastOf(u, t) ==
  owner[t.sid] = u /\ \A s \in 1..signIns : owner[s] = u => s <= t.sid

\* Unless a renewal was in flight when somebody signed in or out, or a
\* saveSession was cut short: the tokens that name a signed-in user's edits to
\* the server are those of his own last sign-in, not of an earlier session of
\* his or of somebody else's.
OwnTokens ==
  mishaps = {} /\ screen # NoUser /\ flow = "none" =>
    /\ \A t \in {jwt, refresh} \ {None} : LastOf(screen, t)
    /\ uid \in {screen, NoUser}

\* The session on the screen can no longer be renewed.
Dead == refresh = None \/ Rejected(refresh)

\* A user whose session has died on the server does not stay signed in with a
\* device that silently no longer syncs: he is signed out (or a renewal of an
\* other session, crossing his sign-in, brings the device back), unless the keys
\* were cleared under him while he was being let in.  (The bound on the clock
\* must leave his access token time to run out.)
Stranded == screen # NoUser /\ Dead /\ jwt.exp <= MaxTime
DeadSessionEnds == Stranded ~> screen = NoUser \/ ~Dead \/ "undercut" \in mishaps

\* The once-per-session latch never swallows the notice: while it is set,
\* nobody is signed in unless the logout it stands for is under way.
LatchMeansLeaving ==
  fired /\ screen # NoUser => leaving["notice"] # "none"
=============================================================================

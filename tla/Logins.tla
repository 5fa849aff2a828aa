------------------------------- MODULE Logins -------------------------------
(* One user's one-time codes, reset tokens and sessions, as login, otp/... *)
(* forgot-password, reset-password and logout in app/main.py change them.  *)
(*                                                                         *)
(* Nothing is locked: a handler reads in one statement, writes in a later  *)
(* one and commits, and requests of one user overlap as they like.  The    *)
(* two tables of codes are one here: a row's field by tells them apart.    *)
(* E-mail goes out after the commit and changes nothing (a code that could *)
(* not be sent is live all the same); the limit per address and minute and *)
(* the sync and approval of the account are left out, and of the password  *)
(* it matters only that login checks it.                                   *)
EXTENDS Naturals, Sequences

CONSTANTS
  Worker,       \* thread-pool workers, each serving one request at a time
  MaxTries,     \* wrong tries after which a code is over: 5 in the code
  MaxCodes,     \* bound: codes and tokens issued
  MaxSessions   \* bound: sessions made

ASSUME MaxTriesIsPositive == MaxTries \in Nat \ {0}
ASSUME BoundsAreNumbers == MaxCodes \in Nat /\ MaxSessions \in Nat

VARIABLES
  summit,    \* SUMMIT_MODE of the deployment
  twoSteps,  \* the user's login asks for a code (SUMMIT_REQUIRE_OTP, role)
  code,      \* code[c]: the c-th row of otp_codes and password_reset_tokens
  session,   \* session[s]: the s-th row of user_sessions
  access,    \* the access tokens handed out; get_current_user takes any
  req        \* req[w]: the request worker w is serving

vars == <<summit, twoSteps, code, session, access, req>>

None == 0
Issuer == {"login", "request", "forgot"}
IsToken(by) == by = "forgot"

\* ended is verified of a code and used_at of a token.  The others are history:
\* sees counts the rows there were when the issue of this one ended the old
\* ones, missed and uses the wrong tries and the uses committed, and met says
\* that one of these overlapped a request that had read the row.
Code == [by : Issuer, tries : Nat, ended : BOOLEAN, expired : BOOLEAN,
         sees : Nat, missed : Nat, uses : Nat, met : BOOLEAN]
NewCode(by, sees) ==
  [by |-> by, tries |-> 0, ended |-> FALSE, expired |-> FALSE,
   sees |-> sees, missed |-> 0, uses |-> 0, met |-> FALSE]

\* proof and endedBy are history: what the session rests on (None is the
\* password) and the session whose token asked for the logout that ended it.
Session == [proof : Nat, out : BOOLEAN, endedBy : Nat]

\* What an access token rests on, and the session made with it (None if none).
Access == [proof : Nat, own : Nat]

Idle == [pc |-> "idle"]
Request == {Idle}
  \cup [pc : {"end", "insert"}, by : Issuer, sees : Nat]
  \cup [pc : {"hit", "reset"}, code : Nat]
  \cup [pc : {"miss"}, code : Nat, tries : Nat]
  \cup [pc : {"session"}, proof : Nat]
  \cup [pc : {"logout"}, own : Nat, latest : Nat]

TypeOK ==
  /\ summit \in BOOLEAN /\ twoSteps \in BOOLEAN
  /\ code \in Seq(Code)
  /\ session \in Seq(Session)
  /\ access \subseteq Access
  /\ req \in [Worker -> Request]

At(w, pc) == req[w].pc = pc
Goto(w, r) == req' = [req EXCEPT ![w] = r]
Issuing == {w \in Worker : req[w].pc \in {"end", "insert"}}
HasRead(w, c) == req[w].pc \in {"hit", "miss", "reset"} /\ req[w].code = c
Met(w, c) == code[c].met \/ \E v \in Worker \ {w} : HasRead(v, c)
OneTime(c) == ~IsToken(code[c].by)
Live(c) == ~code[c].ended /\ ~code[c].expired

-----------------------------------------------------------------------------
(* Issuing a code or a token *)

Issue(w, by) ==
  /\ At(w, "idle")
  /\ Len(code) < MaxCodes
  /\ Goto(w, [pc |-> "end", by |-> by, sees |-> 0])
  /\ UNCHANGED <<summit, twoSteps, code, session, access>>

\* The password is right.  A user who needs no code has a session at once.
Login(w) ==
  \/ twoSteps /\ Issue(w, "login")
  \/ /\ At(w, "idle") /\ ~twoSteps
     /\ Goto(w, [pc |-> "session", proof |-> None])
     /\ UNCHANGED <<summit, twoSteps, code, session, access>>

OtpRequest_AnyMode(w) == Issue(w, "request")
OtpRequest(w) == ~summit /\ Issue(w, "request")
ForgotPassword(w) == Issue(w, "forgot")

\* The UPDATE ends those that are committed by now.  Of login it has a commit
\* of its own; otp_request and forgot_password commit it with the new row.
Old(by, sees) ==
  {c \in 1..sees : c <= Len(code) /\ (IsToken(code[c].by) <=> IsToken(by))}
Ended(by, sees) ==
  [c \in DOMAIN code |->
     IF c \in Old(by, sees) THEN [code[c] EXCEPT !.ended = TRUE] ELSE code[c]]

EndOld(w) ==
  /\ At(w, "end")
  /\ Goto(w, [req[w] EXCEPT !.pc = "insert", !.sees = Len(code)])
  /\ code' = IF req[w].by = "login" THEN Ended("login", Len(code)) ELSE code
  /\ UNCHANGED <<summit, twoSteps, session, access>>

\* login and otp_request go on when the UPDATE fails.
EndOldFails(w) ==
  /\ At(w, "end")
  /\ req[w].by \in {"login", "request"}
  /\ Goto(w, [req[w] EXCEPT !.pc = "insert"])
  /\ UNCHANGED <<summit, twoSteps, code, session, access>>

InsertCode_KeepsOld(w) ==
  /\ At(w, "insert")
  /\ Len(code) < MaxCodes
  /\ code' = Append(code, NewCode(req[w].by, req[w].sees))
  /\ Goto(w, Idle)
  /\ UNCHANGED <<summit, twoSteps, session, access>>
InsertCode(w) ==
  /\ At(w, "insert")
  /\ Len(code) < MaxCodes
  /\ LET by == req[w].by  sees == req[w].sees
         before == IF by = "login" THEN code ELSE Ended(by, sees)
     IN code' = Append(before, NewCode(by, sees))
  /\ Goto(w, Idle)
  /\ UNCHANGED <<summit, twoSteps, session, access>>

-----------------------------------------------------------------------------
(* Trying one: otp_verify, login_verify_otp, reset_password *)

\* A code is given.  If there is no live row for it the try is one at the
\* newest code that is not ended, expired or not.
Open == {c \in DOMAIN code : OneTime(c) /\ ~code[c].ended}
ReadCode(w, matches) ==
  LET found == {c \in DOMAIN code : matches /\ OneTime(c) /\ Live(c)}
  IN \/ \E c \in found : Goto(w, [pc |-> "hit", code |-> c])
     \/ \E c \in Open :
          /\ \A d \in Open : d <= c
          /\ Goto(w, [pc |-> "miss", code |-> c, tries |-> code[c].tries])

LoginVerifyOtp(w) ==
  /\ At(w, "idle")
  /\ \E matches \in BOOLEAN : ReadCode(w, matches)
  /\ UNCHANGED <<summit, twoSteps, code, session, access>>

OtpVerify(w) == ~summit /\ LoginVerifyOtp(w)

Hit_StaysLive(w) ==
  /\ At(w, "hit")
  /\ LET c == req[w].code
     IN /\ code' = [code EXCEPT ![c].uses = @ + 1, ![c].met = Met(w, c)]
        /\ Goto(w, [pc |-> "session", proof |-> c])
  /\ UNCHANGED <<summit, twoSteps, session, access>>
Hit(w) ==
  /\ At(w, "hit")
  /\ LET c == req[w].code
     IN /\ code' = [code EXCEPT ![c].ended = TRUE, ![c].uses = @ + 1,
                                ![c].met = Met(w, c)]
        /\ Goto(w, [pc |-> "session", proof |-> c])
  /\ UNCHANGED <<summit, twoSteps, session, access>>

\* The number read, plus one, is written back.
LocksOut_OneLate(tries) == tries + 1 > MaxTries
LocksOut(tries) == tries + 1 >= MaxTries
Miss(w) ==
  /\ At(w, "miss")
  /\ LET c == req[w].code  tries == req[w].tries
     IN code' = [code EXCEPT ![c].tries = tries + 1,
                             ![c].ended = @ \/ LocksOut(tries),
                             ![c].missed = @ + 1, ![c].met = Met(w, c)]
  /\ Goto(w, Idle)
  /\ UNCHANGED <<summit, twoSteps, session, access>>

ResetPassword(w) ==
  /\ At(w, "idle")
  /\ \E c \in DOMAIN code :
       /\ ~OneTime(c) /\ Live(c)
       /\ Goto(w, [pc |-> "reset", code |-> c])
  /\ UNCHANGED <<summit, twoSteps, code, session, access>>

\* The response of a request brings an access token.
SignIn(proof, own) == access' = access \cup {[proof |-> proof, own |-> own]}

\* One commit for the password and the token, and no row of user_sessions.
SetPassword(w) ==
  /\ At(w, "reset")
  /\ LET c == req[w].code
     IN /\ code' = [code EXCEPT ![c].ended = TRUE, ![c].uses = @ + 1,
                                ![c].met = Met(w, c)]
        /\ SignIn(c, None)
  /\ Goto(w, Idle)
  /\ UNCHANGED <<summit, twoSteps, session>>

-----------------------------------------------------------------------------
(* Sessions *)

CreateUserSession(w) ==
  /\ At(w, "session")
  /\ Len(session) < MaxSessions
  /\ session' = Append(session, [proof |-> req[w].proof, out |-> FALSE,
                                 endedBy |-> None])
  /\ SignIn(req[w].proof, Len(session) + 1)
  /\ Goto(w, Idle)
  /\ UNCHANGED <<summit, twoSteps, code>>

\* A row that cannot be made does not keep the user out.
CreateUserSessionFails(w) ==
  /\ At(w, "session")
  /\ SignIn(req[w].proof, None)
  /\ Goto(w, Idle)
  /\ UNCHANGED <<summit, twoSteps, code, session>>

\* The access token does not say which session is its own: the newest that is
\* not ended is taken.
Active == {s \in DOMAIN session : ~session[s].out}
Logout(w, token) ==
  /\ At(w, "idle")
  /\ \E s \in Active :
       /\ \A t \in Active : t <= s
       /\ Goto(w, [pc |-> "logout", own |-> token.own, latest |-> s])
  /\ UNCHANGED <<summit, twoSteps, code, session, access>>

EndSession(w) ==
  /\ At(w, "logout")
  /\ session' = [session EXCEPT ![req[w].latest].out = TRUE,
                                ![req[w].latest].endedBy = req[w].own]
  /\ Goto(w, Idle)
  /\ UNCHANGED <<summit, twoSteps, code, access>>

-----------------------------------------------------------------------------
(* Environment *)

Expire(c) ==
  /\ ~code[c].expired
  /\ code' = [code EXCEPT ![c].expired = TRUE]
  /\ UNCHANGED <<summit, twoSteps, session, access, req>>

\* The worker stops or the commit fails.
Crash(w) ==
  /\ ~At(w, "idle")
  /\ Goto(w, Idle)
  /\ UNCHANGED <<summit, twoSteps, code, session, access>>

Init ==
  /\ summit \in BOOLEAN /\ twoSteps \in BOOLEAN
  /\ code = <<>> /\ session = <<>> /\ access = {}
  /\ req = [w \in Worker |-> Idle]

Next ==
  \/ \E w \in Worker :
       \/ Login(w) \/ OtpRequest(w) \/ ForgotPassword(w)
       \/ EndOld(w) \/ EndOldFails(w) \/ InsertCode(w)
       \/ LoginVerifyOtp(w) \/ OtpVerify(w) \/ Hit(w) \/ Miss(w)
       \/ ResetPassword(w) \/ SetPassword(w)
       \/ CreateUserSession(w) \/ CreateUserSessionFails(w)
       \/ EndSession(w) \/ Crash(w)
       \/ \E token \in access : Logout(w, token)
  \/ \E c \in DOMAIN code : Expire(c)

Spec == Init /\ [][Next]_vars

-----------------------------------------------------------------------------
\* "Invalidate old OTPs" (login, otp_request; of tokens forgot_password): a row
\* is the end of all that were committed when its issue looked.  A second live
\* one comes only from an issue that overlapped or could not end the old ones.
OldOnesEnd ==
  \A c, d \in DOMAIN code :
    d \in Old(code[c].by, code[c].sees) => code[d].ended

\* A code or a token is used once, unless uses overlap: the row is read in one
\* statement and ended in a later one that does not look again.
UsedOnce == \A c \in DOMAIN code : code[c].uses > 1 => code[c].met

\* MaxTries wrong tries that are charged to a code end it, unless tries
\* overlapped and wrote the same count twice.
LockoutHolds ==
  \A c \in DOMAIN code : code[c].missed >= MaxTries => code[c].ended \/ code[c].met

\* "OTP must be issued only after password verification" (otp_request, of
\* Summit mode): nobody is signed in on a code that was given out to an e-mail
\* address alone, though login_verify_otp takes any code and asks for no mode.
\* What signs a user in is the password, a code that login issued after it, or
\* a reset token, which is over by then and makes no session.
SummitSignIns ==
  summit =>
    /\ \A s \in DOMAIN session :
         session[s].proof # None => code[session[s].proof].by = "login"
    /\ \A token \in {a \in access : a.proof # None} :
         \/ code[token.proof].by = "login"
         \/ IsToken(code[token.proof].by) /\ code[token.proof].ended /\ token.own = None

\* "Summit 2FA: password + OTP" (main.py:3539): whoever is signed in knew the
\* password, and the code too where login asks for one.
SummitNeedsPassword ==
  summit => \A token \in access :
    IF token.proof = None THEN ~twoSteps ELSE code[token.proof].by = "login"

\* "End the user's current session." (auth_logout): the session that ends is
\* that of the caller.
LogoutEndsOwn ==
  \A s \in DOMAIN session : session[s].out => session[s].endedBy = s
=============================================================================
